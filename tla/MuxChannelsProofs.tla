------------------------- MODULE MuxChannelsProofs -------------------------
(***************************************************************************)
(* What the mux daemon keeps right for any number of connections, sessions *)
(* and wires: types, the reference count, the agent's exposure, and the    *)
(* routes of its channels.                                                 *)
(***************************************************************************)
EXTENDS MuxChannels, FiniteSetTheorems, TLAPS

-----------------------------------------------------------------------------
(* Types. *)

LEMMA CarryType ==
    ASSUME NEW P, NEW net \in SUBSET P, NEW sent \in SUBSET P
    PROVE  Carry(net, sent) \in SUBSET P
  BY DEF Carry

\* A connection that has a session has one of the sessions' type.
LEMMA SessionType ==
    ASSUME ConnTypes, NEW c \in Conns, Has(c)
    PROVE  session[c] \in Sessions
  BY DEF ConnTypes, Has, NoSession

LEMMA TakeRefType ==
    ASSUME TypeOK, NEW c \in Conns, TakeRef(c)
    PROVE  ref' \in [Conns -> BOOLEAN] /\ refs' \in Nat /\ linger' \in BOOLEAN
  <1>1. ref' \in [Conns -> BOOLEAN] /\ refs' \in Nat
    BY DEF TypeOK, ConnTypes, StateTypes, TakeRef
  <1>2. linger' \in BOOLEAN
    BY Zenon DEF TypeOK, StateTypes, TakeRef
  <1> QED
    BY <1>1, <1>2

LEMMA DropRefType ==
    ASSUME TypeOK, NEW c \in Conns, DropRef(c)
    PROVE  /\ ref' \in [Conns -> BOOLEAN]
           /\ refs' \in Nat /\ linger' \in BOOLEAN /\ agents' \in BOOLEAN
  <1>1. refs' \in Nat
    BY DEF TypeOK, StateTypes, DropRef
  <1>2. ref' \in [Conns -> BOOLEAN] 
    BY DEF TypeOK, ConnTypes, DropRef
  <1>3. linger' \in BOOLEAN /\ agents' \in BOOLEAN
    BY Zenon DEF DropRef
  <1> QED
    BY <1>1, <1>2, <1>3

LEMMA EndSessionType ==
    ASSUME TypeOK, NEW c \in Conns, NEW n \in Chans, EndSession(c, n)
    PROVE  /\ ref' \in [Conns -> BOOLEAN]
           /\ refs' \in Nat /\ linger' \in BOOLEAN /\ agents' \in BOOLEAN
           /\ session' \in [Conns -> Sessions \cup {NoSession}]
           /\ routes' \in [Chans -> Conns \cup {Nobody}]
  BY DropRefType DEF EndSession, TypeOK, ConnTypes, RouteTypes

LEMMA OweCloseType ==
    ASSUME TypeOK, NEW c \in Conns, Has(c), OweClose(c)
    PROVE  closes' \subseteq [chan : Chans, sends : 0 .. CloseSends - 1]
  BY SessionType, BoundsAssumption DEF TypeOK, RouteTypes, OweClose, Sessions

\* A reconnect under way leaves a wire to dial.
WireLeft == up \/ wire < MaxWires

Typed == TypeOK /\ WireLeft

LEMMA TypeInit == Init => Typed
  <1> SUFFICES ASSUME Init PROVE Typed
    OBVIOUS
  <1> USE BoundsAssumption DEF Init
  <1>1. ConnTypes
    BY DEF ConnTypes
  <1>2. StateTypes
    BY DEF StateTypes
  <1>3. RouteTypes
    BY DEF RouteTypes
  <1>4. WireTypes /\ WireLeft
    BY DEF WireTypes, WireLeft
  <1>5. NetTypes
    BY DEF NetTypes
  <1>6. PeerTypes
    BY DEF PeerTypes
  <1> QED
    BY <1>1, <1>2, <1>3, <1>4, <1>5, <1>6 DEF Typed, TypeOK
  
LEMMA TypeInvocation ==
    ASSUME Typed, NEW c \in Conns, Invocation(c)
    PROVE  Typed'
  <1>t. TypeOK /\ WireLeft
    BY DEF Typed
  <1>u. ASSUME UNCHANGED <<wire, up, bridge, alive>>, ConnTypes', StateTypes', RouteTypes',
               NetTypes'
        PROVE  Typed'
    BY <1>t, <1>u DEF Typed, TypeOK, WireTypes, PeerTypes, WireLeft
  <1> USE DEF ConnTypes, StateTypes, RouteTypes, NetTypes, wire_vars, peer_vars
  <1>1. CASE Connect(c)
    BY <1>1, <1>t, <1>u DEF Connect, TypeOK
  <1>2. CASE SessionRef(c)
    <2>1. TakeRef(c) /\ ref' \in [Conns -> BOOLEAN] /\ refs' \in Nat /\ linger' \in BOOLEAN
      BY <1>2, <1>t, TakeRefType DEF SessionRef
    <2>2. ConnTypes' /\ RouteTypes' /\ NetTypes'
      BY <1>2, <2>1, <1>t DEF SessionRef, TypeOK
    <2>3. StateTypes'
      BY <1>2, <2>1, <1>t, Zenon DEF SessionRef, TypeOK
    <2> QED
      BY <1>2, <2>2, <2>3, <1>u DEF SessionRef
  <1>3. CASE \E t \in Targets : SessionOpen(c, t)
    <2>0. PICK t \in Targets : SessionOpen(c, t)
      BY <1>3
    <2>1. TakeRef(c) /\ ref' \in [Conns -> BOOLEAN] /\ refs' \in Nat /\ linger' \in BOOLEAN
      BY <2>0, <1>t, TakeRefType DEF SessionOpen
    <2>2. last_chan + 1 \in Chans
      BY <2>0, <1>t, BoundsAssumption DEF SessionOpen, TypeOK, Chans
    <2>3. ConnTypes' /\ RouteTypes' /\ NetTypes'
      BY <2>0, <2>1, <2>2, <1>t, BoundsAssumption DEF SessionOpen, TypeOK, Sessions, Chans
    <2>4. StateTypes'
      BY <2>0, <2>1, <1>t, Zenon DEF SessionOpen, TypeOK
    <2> QED
      BY <2>0, <2>3, <2>4, <1>u DEF SessionOpen
  <1>4. CASE \E kind \in {"msg", "quit"} : SessionMsg(c, kind)
    <2>0. PICK kind \in {"msg", "quit"} : SessionMsg(c, kind)
      BY <1>4
    <2>1. session[c] \in Sessions
      BY <2>0, <1>t, SessionType DEF SessionMsg, TypeOK
    <2>2. session' \in [Conns -> Sessions \cup {NoSession}]
      <3>1. CASE session[c].confirmed
        BY <2>0, <3>1, <1>t DEF SessionMsg, TypeOK
      <3>2. CASE ~session[c].confirmed
        <4>1. session' = [session EXCEPT ![c].queued = @ \cup {kind}]
          BY <2>0, <3>2 DEF SessionMsg
        <4>2. [session[c] EXCEPT !.queued = @ \cup {kind}] \in Sessions
          BY <2>1 DEF Sessions
        <4> QED
          BY <4>1, <4>2, <1>t DEF TypeOK
      <3> QED
        BY <3>1, <3>2
    <2>4. ConnTypes' /\ RouteTypes'
      BY <2>0, <2>2, <1>t DEF SessionMsg, TypeOK
    <2>5. StateTypes'
      <3>1. UNCHANGED <<refs, linger, agents, exited>>
        BY <2>0 DEF SessionMsg
      <3> QED
        BY <3>1, <1>t DEF TypeOK
    <2>3. NetTypes'
      <3>1. {Datagram(kind, session[c].chan)} \in SUBSET ToPeer
        BY <2>1 DEF Sessions, Datagram, ToPeer
      <3>2. d2p' \in SUBSET ToPeer
        BY <2>0, <3>1, <1>t, CarryType DEF SessionMsg, TypeOK
      <3> QED
        BY <2>0, <3>2, <1>t DEF SessionMsg, TypeOK
    <2> QED
      BY <2>0, <2>3, <2>4, <2>5, <1>u DEF SessionMsg
  <1>5. CASE SessionClose(c)
    <2>1. session[c].chan \in Chans
      BY <1>5, <1>t, SessionType DEF SessionClose, TypeOK, Sessions
    <2>2. ConnTypes' /\ RouteTypes' /\ NetTypes'
      BY <1>5, <2>1, <1>t, EndSessionType, OweCloseType DEF SessionClose, TypeOK
    <2>3. StateTypes'
      BY <1>5, <2>1, <1>t, EndSessionType, Zenon DEF SessionClose, TypeOK
    <2> QED
      BY <1>5, <2>2, <2>3, <1>u DEF SessionClose
  <1>6. CASE ConnGone(c)
    <2>1. /\ ref' \in [Conns -> BOOLEAN]
          /\ refs' \in Nat /\ linger' \in BOOLEAN /\ agents' \in BOOLEAN
          /\ session' \in [Conns -> Sessions \cup {NoSession}]
          /\ routes' \in [Chans -> Conns \cup {Nobody}]
          /\ closes' \subseteq [chan : Chans, sends : 0 .. CloseSends - 1]
      <3>1. CASE Has(c)
        <4>1. session[c].chan \in Chans
          BY <3>1, <1>t, SessionType DEF TypeOK, Sessions
        <4> QED
          BY <1>6, <3>1, <4>1, <1>t, EndSessionType, OweCloseType DEF ConnGone
      <3>2. CASE ~Has(c)
        BY <1>6, <3>2, <1>t, DropRefType DEF ConnGone, TypeOK
      <3> QED
        BY <3>1, <3>2
    <2>2. ConnTypes' /\ RouteTypes' /\ NetTypes'
      BY <1>6, <2>1, <1>t DEF ConnGone, TypeOK
    <2>3. StateTypes'
      BY <1>6, <2>1, <1>t, Zenon DEF ConnGone, TypeOK
    <2> QED
      BY <1>6, <2>2, <2>3, <1>u DEF ConnGone
  <1> QED
    BY <1>1, <1>2, <1>3, <1>4, <1>5, <1>6 DEF Invocation
LEMMA TypeDaemon ==
    ASSUME Typed, Daemon
    PROVE  Typed'
  <1>t. TypeOK /\ WireLeft
    BY DEF Typed
  <1>u. ASSUME UNCHANGED <<wire_vars, peer_vars>>, ConnTypes', StateTypes', RouteTypes', NetTypes'
        PROVE  Typed'
    BY <1>t, <1>u DEF Typed, TypeOK, WireTypes, PeerTypes, WireLeft, wire_vars, peer_vars
  <1>1. CASE \E m \in p2d : Hear(m)
    <2>0. PICK m \in p2d : Hear(m)
      BY <1>1
    <2>d. DEFINE c == routes[m.chan]
    <2>1. m \in ToDaemon /\ m.chan \in Chans
      BY <2>0, <1>t DEF TypeOK, NetTypes, ToDaemon
    <2>2. c \in Conns \cup {Nobody}
      BY <2>1, <1>t DEF TypeOK, RouteTypes
    <2>3. NetTypes'
      <3>1. ASSUME c # Nobody, Has(c)
            PROVE  Waiting(c) \in SUBSET ToPeer
        <4>1. session[c] \in Sessions
          BY <2>2, <3>1, <1>t, SessionType DEF TypeOK
        <4> QED
          BY <4>1 DEF Waiting, Sessions, Datagram, ToPeer
      <3>2. d2p' \in SUBSET ToPeer
        BY <2>0, <3>1, <1>t, CarryType DEF Hear, TypeOK, NetTypes
      <3> QED
        BY <2>0, <3>2, <1>t DEF Hear, TypeOK, NetTypes
    <2>4. CASE UNCHANGED <<session, routes, ref, refs, linger, agents>>
      <3>1. ConnTypes' /\ RouteTypes'
        BY <2>0, <2>4, <1>t DEF Hear, TypeOK, ConnTypes, RouteTypes
      <3>2. StateTypes'
        <4>1. UNCHANGED <<refs, linger, agents, exited>>
          BY <2>0, <2>4 DEF Hear
        <4> QED
          BY <4>1, <1>t DEF TypeOK, StateTypes
      <3> QED
        BY <2>0, <2>3, <3>1, <3>2, <1>u DEF Hear
    <2>5. CASE /\ c # Nobody /\ Has(c) /\ m.kind \in {"frame", "switch"}
               /\ UNCHANGED <<routes, ref, refs, linger, agents>>
               /\ session' = [session EXCEPT ![c] =
                      IF m.kind = "frame" THEN Confirmed(c)
                      ELSE [Confirmed(c) EXCEPT !.target = m.target]]
      <3>1. session[c] \in Sessions
        BY <2>2, <2>5, <1>t, SessionType DEF TypeOK
      <3>2. Confirmed(c) \in Sessions
        BY <3>1 DEF Confirmed, Sessions
      <3>3. m.kind = "switch" => m.target \in Targets
        BY <2>1 DEF ToDaemon
      <3>4. m.kind = "switch" => [Confirmed(c) EXCEPT !.target = m.target] \in Sessions
        BY <3>2, <3>3 DEF Sessions
      <3>5. ConnTypes' /\ RouteTypes'
        BY <2>0, <2>2, <2>5, <3>2, <3>4, <1>t DEF Hear, TypeOK, ConnTypes, RouteTypes
      <3>6. StateTypes'
        <4>1. UNCHANGED <<refs, linger, agents, exited>>
          BY <2>0, <2>5 DEF Hear
        <4> QED
          BY <4>1, <1>t DEF TypeOK, StateTypes
      <3> QED
        BY <2>0, <2>3, <3>5, <3>6, <1>u DEF Hear
    <2>6. CASE c # Nobody /\ EndSession(c, m.chan)
      <3>1. /\ ref' \in [Conns -> BOOLEAN]
            /\ refs' \in Nat /\ linger' \in BOOLEAN /\ agents' \in BOOLEAN
            /\ session' \in [Conns -> Sessions \cup {NoSession}]
            /\ routes' \in [Chans -> Conns \cup {Nobody}]
        BY <2>1, <2>2, <2>6, <1>t, EndSessionType
      <3>2. ConnTypes' /\ RouteTypes'
        BY <2>0, <3>1, <1>t DEF Hear, TypeOK, ConnTypes, RouteTypes
      <3>3. StateTypes'
        <4>1. exited' = exited
          BY <2>0 DEF Hear
        <4> QED
          BY <3>1, <4>1, <1>t, Zenon DEF TypeOK, StateTypes
      <3> QED
        BY <2>0, <2>3, <3>2, <3>3, <1>u DEF Hear
    <2> QED
      BY <2>0, <2>4, <2>5, <2>6 DEF Hear
  <1>2. CASE \E c \in Conns : SendOpen(c)
    <2>0. PICK c \in Conns : SendOpen(c)
      BY <1>2
    <2>1. session[c] \in Sessions /\ session[c].sends < OpenSends
      BY <2>0, <1>t, SessionType DEF SendOpen, TypeOK
    <2>2. session[c].sends + 1 \in 1 .. OpenSends
      BY <2>1, BoundsAssumption DEF Sessions
    <2>3. [session[c] EXCEPT !.sends = @ + 1] \in Sessions
      BY <2>1, <2>2 DEF Sessions
    <2>4. ConnTypes' /\ RouteTypes'
      BY <2>0, <2>3, <1>t DEF SendOpen, TypeOK, ConnTypes, RouteTypes
    <2>5. [kind |-> "open", chan |-> session[c].chan, target |-> session[c].target,
           nth |-> session[c].sends + 1] \in ToPeer
      BY <2>1, <2>2 DEF Sessions, ToPeer
    <2>6. NetTypes'
      BY <2>0, <2>5, <1>t, CarryType DEF SendOpen, TypeOK, NetTypes
    <2>7. StateTypes'
      <3>1. UNCHANGED <<refs, linger, agents, exited>>
        BY <2>0 DEF SendOpen
      <3> QED
        BY <3>1, <1>t DEF TypeOK, StateTypes
    <2> QED
      BY <2>0, <2>4, <2>6, <2>7, <1>u DEF SendOpen
  <1>3. CASE \E c \in Conns : OpenTimesOut(c)
    <2>0. PICK c \in Conns : OpenTimesOut(c)
      BY <1>3
    <2>1. session[c].chan \in Chans
      BY <2>0, <1>t, SessionType DEF OpenTimesOut, TypeOK, Sessions
    <2>2. /\ ref' \in [Conns -> BOOLEAN]
          /\ refs' \in Nat /\ linger' \in BOOLEAN /\ agents' \in BOOLEAN
          /\ session' \in [Conns -> Sessions \cup {NoSession}]
          /\ routes' \in [Chans -> Conns \cup {Nobody}]
          /\ closes' \subseteq [chan : Chans, sends : 0 .. CloseSends - 1]
      BY <2>0, <2>1, <1>t, EndSessionType, OweCloseType DEF OpenTimesOut
    <2>3. ConnTypes' /\ RouteTypes' /\ NetTypes'
      BY <2>0, <2>2, <1>t DEF OpenTimesOut, TypeOK, ConnTypes, RouteTypes, NetTypes
    <2>4. StateTypes'
      <3>1. exited' = exited
        BY <2>0 DEF OpenTimesOut
      <3> QED
        BY <2>2, <3>1, <1>t, Zenon DEF TypeOK, StateTypes
    <2> QED
      BY <2>0, <2>3, <2>4, <1>u DEF OpenTimesOut
  <1>4. CASE \E p \in closes : SendClose(p)
    <2>0. PICK p \in closes : SendClose(p)
      BY <1>4
    <2>d. DEFINE q == [p EXCEPT !.sends = @ + 1]
    <2>1. p \in [chan : Chans, sends : 0 .. CloseSends - 1]
      BY <2>0, <1>t DEF TypeOK, RouteTypes
    <2>2. /\ q.chan \in Chans /\ q.sends \in 1 .. CloseSends
          /\ q.sends < CloseSends => q \in [chan : Chans, sends : 0 .. CloseSends - 1]
      BY <2>1, BoundsAssumption
    <2>3. [kind |-> "close", chan |-> p.chan, nth |-> q.sends] \in ToPeer
      BY <2>1, <2>2 DEF ToPeer
    <2>4. NetTypes'
      BY <2>0, <2>3, <1>t, CarryType DEF SendClose, TypeOK, NetTypes
    <2>5. ConnTypes' /\ RouteTypes'
      BY <2>0, <2>2, <1>t DEF SendClose, TypeOK, ConnTypes, RouteTypes
    <2>6. StateTypes'
      <3>1. UNCHANGED <<refs, linger, agents, exited>>
        BY <2>0 DEF SendClose
      <3> QED
        BY <3>1, <1>t DEF TypeOK, StateTypes
    <2> QED
      BY <2>0, <2>4, <2>5, <2>6, <1>u DEF SendClose
  <1>5. CASE AgentOpen \/ AgentClose \/ LingerExpires
    <2>1. StateTypes'
      BY <1>5, <1>t, Zenon DEF AgentOpen, AgentClose, LingerExpires, TypeOK, StateTypes
    <2>2. ConnTypes' /\ RouteTypes' /\ NetTypes'
      BY <1>5, <1>t DEF AgentOpen, AgentClose, LingerExpires, TypeOK, ConnTypes, RouteTypes,
         NetTypes
    <2> QED
      BY <1>5, <2>1, <2>2, <1>u DEF AgentOpen, AgentClose, LingerExpires
  <1>6. CASE WireDead
    <2>1. ASSUME NEW c \in Conns, Has(c)
          PROVE  [session[c] EXCEPT !.confirmed = FALSE, !.sends = 0] \in Sessions
      <3>1. session[c] \in Sessions
        BY <2>1, <1>t, SessionType DEF TypeOK
      <3>2. 0 \in 0 .. OpenSends
        BY BoundsAssumption
      <3> QED
        BY <3>1, <3>2 DEF Sessions
    <2>2. ConnTypes'
      BY <1>6, <2>1, <1>t DEF WireDead, TypeOK, ConnTypes
    <2>3. \A n \in Chans : (\E c \in Conns : session[c].chan = n) =>
              (CHOOSE c \in Conns : session[c].chan = n) \in Conns
      OBVIOUS
    <2>4. RouteTypes'
      BY <1>6, <2>3, <1>t DEF WireDead, TypeOK, RouteTypes
    <2>5. StateTypes'
      BY <1>6, <1>t, Zenon DEF WireDead, TypeOK, StateTypes
    <2>6. NetTypes' /\ PeerTypes' /\ WireTypes' /\ WireLeft'
      BY <1>6, <1>t DEF WireDead, TypeOK, NetTypes, PeerTypes, WireTypes, WireLeft, peer_vars
    <2> QED
      BY <2>2, <2>4, <2>5, <2>6 DEF Typed, TypeOK
  <1>7. CASE Reestablish
    <2>1. StateTypes'
      BY <1>7, <1>t, Zenon DEF Reestablish, TypeOK, StateTypes, conn_vars
    <2>2. ConnTypes' /\ RouteTypes' /\ NetTypes'
      BY <1>7, <1>t DEF Reestablish, TypeOK, ConnTypes, RouteTypes, NetTypes, conn_vars
    <2>3. PeerTypes'
      BY <1>7 DEF Reestablish, PeerTypes
    <2>4. WireTypes' /\ WireLeft'
      BY <1>7, <1>t, BoundsAssumption DEF Reestablish, TypeOK, WireTypes, WireLeft
    <2> QED
      BY <2>1, <2>2, <2>3, <2>4 DEF Typed, TypeOK
  <1> QED
    BY <1>1, <1>2, <1>3, <1>4, <1>5, <1>6, <1>7 DEF Daemon
LEMMA TypePeer ==
    ASSUME Typed, Peer \/ Lose
    PROVE  Typed'
  <1>t. TypeOK /\ WireLeft
    BY DEF Typed
  <1>a. ASSUME NEW sent \in SUBSET ToDaemon, Answer(sent)
        PROVE  p2d' \in SUBSET ToDaemon
    BY <1>a, <1>t, CarryType DEF Answer, TypeOK, NetTypes
  <1>u. ASSUME UNCHANGED <<conn_vars, wire_vars>>, NetTypes', PeerTypes'
        PROVE  Typed'
    <2>1. ConnTypes' /\ RouteTypes' /\ WireTypes' /\ WireLeft'
      BY <1>u, <1>t DEF TypeOK, ConnTypes, RouteTypes, WireTypes, WireLeft, conn_vars, wire_vars
    <2>2. StateTypes'
      <3>1. UNCHANGED <<refs, linger, agents, exited>>
        BY <1>u DEF conn_vars
      <3> QED
        BY <3>1, <1>t DEF TypeOK, StateTypes
    <2> QED
      BY <1>u, <2>1, <2>2 DEF Typed, TypeOK
  <1>f. ASSUME NEW n \in Chans, Forget(n)
        PROVE  PeerTypes'
    BY <1>f, <1>t DEF Forget, TypeOK, PeerTypes
  <1>k. ASSUME NEW n \in Chans
        PROVE  /\ {Datagram("frame", n)} \in SUBSET ToDaemon
               /\ {Datagram("close", n)} \in SUBSET ToDaemon
    BY DEF Datagram, ToDaemon
  <1>1. CASE \E m \in d2p : PeerReceives(m)
    <2>0. PICK m \in d2p : PeerReceives(m)
      BY <1>1
    <2>1. m \in ToPeer /\ m.chan \in Chans
      BY <2>0, <1>t DEF TypeOK, NetTypes, ToPeer
    <2>2. d2p' \in SUBSET ToPeer /\ UNCHANGED <<conn_vars, wire_vars>>
      BY <2>0, <1>t DEF PeerReceives, TypeOK, NetTypes
    <2>3. CASE PeerOpen(m)
      <3>1. m.target \in Targets
        BY <2>1, <2>3 DEF PeerOpen, ToPeer
      <3>2. p2d' \in SUBSET ToDaemon
        BY <2>1, <2>3, <1>a, <1>k DEF PeerOpen
      <3>3. PeerTypes'
        BY <2>1, <2>3, <3>1, <1>t DEF PeerOpen, TypeOK, PeerTypes, peer_vars
      <3> QED
        BY <2>2, <3>2, <3>3, <1>u DEF NetTypes
    <2>4. CASE PeerData(m)
      <3>1. p2d' \in SUBSET ToDaemon
        BY <2>1, <2>4, <1>a, <1>k, <1>t DEF PeerData, TypeOK, NetTypes
      <3>2. m.chan \in Table => [bridge[m.chan] EXCEPT !.state = "linked"] \in
                [state : {"awaiting", "linked"}, target : Targets]
        BY <2>1, <1>t DEF Table, NoBridge, TypeOK, PeerTypes
      <3>3. PeerTypes'
        BY <2>1, <2>4, <3>2, <1>f, <1>t DEF PeerData, TypeOK, PeerTypes, peer_vars
      <3> QED
        BY <2>2, <3>1, <3>3, <1>u DEF NetTypes
    <2>5. CASE PeerClose(m)
      <3>1. p2d' \in SUBSET ToDaemon
        BY <2>5, <1>t DEF PeerClose, TypeOK, NetTypes
      <3>2. PeerTypes'
        BY <2>1, <2>5, <1>f, <1>t DEF PeerClose, TypeOK, PeerTypes, peer_vars
      <3> QED
        BY <2>2, <3>1, <3>2, <1>u DEF NetTypes
    <2> QED
      BY <2>0, <2>3, <2>4, <2>5 DEF PeerReceives
  <1>2. CASE \E n \in Chans : BridgeFrame(n) \/ BridgeEnds(n)
    <2>0. PICK n \in Chans : BridgeFrame(n) \/ BridgeEnds(n)
      BY <1>2
    <2>1. p2d' \in SUBSET ToDaemon
      BY <2>0, <1>a, <1>k DEF BridgeFrame, BridgeEnds
    <2>2. PeerTypes'
      BY <2>0, <1>f, <1>t DEF BridgeFrame, BridgeEnds, TypeOK, PeerTypes, peer_vars
    <2>3. NetTypes' /\ UNCHANGED <<conn_vars, wire_vars>>
      BY <2>0, <2>1, <1>t DEF BridgeFrame, BridgeEnds, TypeOK, NetTypes
    <2> QED
      BY <2>2, <2>3, <1>u
  <1>3. CASE \E n \in Chans, t \in Targets : BridgeSwitch(n, t)
    <2>0. PICK n \in Chans, t \in Targets : BridgeSwitch(n, t)
      BY <1>3
    <2>1. {[kind |-> "switch", chan |-> n, target |-> t]} \in SUBSET ToDaemon
      BY DEF ToDaemon
    <2>2. p2d' \in SUBSET ToDaemon
      BY <2>0, <2>1, <1>a DEF BridgeSwitch
    <2>3. bridge[n] \in [state : {"awaiting", "linked"}, target : Targets]
      BY <2>0, <1>t DEF BridgeSwitch, Linked, NoBridge, TypeOK, PeerTypes
    <2>4. PeerTypes'
      BY <2>0, <2>3, <1>t DEF BridgeSwitch, TypeOK, PeerTypes
    <2>5. NetTypes' /\ UNCHANGED <<conn_vars, wire_vars>>
      BY <2>0, <2>2, <1>t DEF BridgeSwitch, TypeOK, NetTypes
    <2> QED
      BY <2>4, <2>5, <1>u
  <1>4. CASE PeerExits
    BY <1>4, <1>t, <1>u DEF PeerExits, TypeOK, NetTypes, PeerTypes
  <1>5. CASE Lose
    BY <1>5, <1>t, <1>u DEF Lose, TypeOK, NetTypes, PeerTypes, peer_vars
  <1> QED
    BY <1>1, <1>2, <1>3, <1>4, <1>5 DEF Peer

LEMMA TypeStep ==
    ASSUME Typed, [Next]_vars
    PROVE  Typed'
  <1>1. CASE Next
    BY <1>1, TypeInvocation, TypeDaemon, TypePeer DEF Next
  <1>2. CASE UNCHANGED vars
    <2>1. UNCHANGED <<refs, linger, agents, exited>>
      BY <1>2 DEF vars, conn_vars
    <2>2. StateTypes'
      BY <2>1 DEF Typed, TypeOK, StateTypes
    <2> QED
      BY <1>2, <2>2 DEF vars, conn_vars, wire_vars, peer_vars, Typed, TypeOK, ConnTypes,
         RouteTypes, WireTypes, NetTypes, PeerTypes, WireLeft
  <1> QED
    BY <1>1, <1>2

LEMMA TypeInvariant == Spec => []Typed
  BY TypeInit, TypeStep, PTL DEF Spec

\* Every table, counter and datagram of daemon and peer keeps its type, for
\* any number of connections, channels and wires.
THEOREM TypeCorrect == Spec => []TypeOK
  <1>1. Typed => TypeOK
    BY DEF Typed
  <1> QED
    BY <1>1, TypeInvariant, PTL

-----------------------------------------------------------------------------
(* References.  Whatever a step does, it takes one connection's reference,  *)
(* drops one, or leaves the count alone: and then it opens the agent only   *)
(* above zero, and exits only while the linger runs.                        *)

Holders == {c \in Conns : ref[c]}

LEMMA RefsStep ==
    ASSUME TypeOK, Next
    PROVE  \/ ~exited /\ \E c \in Conns : TakeRef(c) /\ UNCHANGED <<agents, exited>>
           \/ ~exited /\ \E c \in Conns : DropRef(c) /\ UNCHANGED exited
           \/ /\ UNCHANGED <<ref, refs, linger>>
              /\ agents' => agents \/ refs > 0
              /\ exited' => exited \/ linger
  <1> DEFINE P == \/ ~exited /\ \E c \in Conns : TakeRef(c) /\ UNCHANGED <<agents, exited>>
                  \/ ~exited /\ \E c \in Conns : DropRef(c) /\ UNCHANGED exited
                  \/ /\ UNCHANGED <<ref, refs, linger>>
                     /\ agents' => agents \/ refs > 0
                     /\ exited' => exited \/ linger
  <1>1. ASSUME NEW c \in Conns, Invocation(c)
        PROVE  P
    <2>1. CASE SessionRef(c) \/ \E t \in Targets : SessionOpen(c, t)
      BY <2>1 DEF SessionRef, SessionOpen
    <2>2. CASE SessionClose(c) \/ ConnGone(c)
      BY <2>2 DEF SessionClose, ConnGone, EndSession
    <2>3. CASE Connect(c) \/ \E kind \in {"msg", "quit"} : SessionMsg(c, kind)
      BY <2>3 DEF Connect, SessionMsg
    <2> QED
      BY <1>1, <2>1, <2>2, <2>3 DEF Invocation
  <1>2. ASSUME NEW m \in p2d, Hear(m)
        PROVE  P
    <2>1. routes[m.chan] \in Conns \cup {Nobody}
      BY DEF TypeOK, NetTypes, RouteTypes, ToDaemon
    <2> QED
      BY <1>2, <2>1 DEF Hear, EndSession
  <1>3. CASE \E c \in Conns : OpenTimesOut(c)
    BY <1>3 DEF OpenTimesOut, EndSession
  <1>4. CASE \/ \E c \in Conns : SendOpen(c)
             \/ \E p \in closes : SendClose(p)
             \/ AgentOpen \/ AgentClose \/ LingerExpires \/ WireDead \/ Reestablish
    BY <1>4 DEF SendOpen, SendClose, AgentOpen, AgentClose, LingerExpires, WireDead, Reestablish,
       conn_vars
  <1>5. CASE Peer \/ Lose
    BY <1>5 DEF Peer, PeerReceives, BridgeFrame, BridgeEnds, BridgeSwitch, PeerExits, Lose,
       conn_vars
  <1> QED
    BY <1>1, <1>2, <1>3, <1>4, <1>5 DEF Next, Daemon

LEMMA HoldersFinite ==
    ASSUME ConnTypes
    PROVE  /\ IsFiniteSet(Holders) /\ Cardinality(Holders) \in Nat
           /\ Cardinality(Holders) = 0 <=> Holders = {}
  <1>1. Holders \in SUBSET Conns
    BY DEF Holders
  <1>2. IsFiniteSet(Holders)
    BY <1>1, FS_Subset, ConnsAssumption
  <1> QED
    BY <1>2, FS_CardinalityType, FS_EmptySet

LEMMA TakeRefCounts ==
    ASSUME TypeOK, RefsCounted, NEW c \in Conns, TakeRef(c)
    PROVE  RefsCounted' /\ refs' > 0
  <1>1. Holders' = Holders \cup {c}
    BY DEF TakeRef, TypeOK, ConnTypes, Holders
  <1>2. IsFiniteSet(Holders) /\ Cardinality(Holders) \in Nat /\ refs = Cardinality(Holders)
    BY HoldersFinite DEF TypeOK, RefsCounted, Holders
  <1>3. Cardinality(Holders') = IF ref[c] THEN refs ELSE refs + 1
    <2>1. Cardinality(Holders \cup {c}) =
              IF c \in Holders THEN Cardinality(Holders) ELSE Cardinality(Holders) + 1
      BY <1>2, FS_AddElement
    <2> QED
      BY <1>1, <1>2, <2>1 DEF Holders
  <1>4. refs' = Cardinality(Holders')
    BY <1>3 DEF TakeRef
  <1>5. ref[c] => refs > 0
    BY <1>2, HoldersFinite DEF Holders, TypeOK
  <1>6. refs' > 0
    BY <1>2, <1>5 DEF TakeRef
  <1>7. linger' <=> refs' = 0
    BY <1>2, <1>5, <1>6 DEF TakeRef, RefsCounted
  <1> QED
    BY <1>4, <1>6, <1>7 DEF RefsCounted, Holders

LEMMA DropRefCounts ==
    ASSUME TypeOK, RefsCounted, NEW c \in Conns, DropRef(c)
    PROVE  RefsCounted' /\ (agents' => refs' > 0)
  <1>1. Holders' = Holders \ {c}
    BY DEF DropRef, TypeOK, ConnTypes, Holders
  <1>2. IsFiniteSet(Holders) /\ Cardinality(Holders) \in Nat /\ refs = Cardinality(Holders)
    BY HoldersFinite DEF TypeOK, RefsCounted, Holders
  <1>3. ref[c] => refs > 0
    BY <1>2, HoldersFinite DEF Holders, TypeOK
  <1>4. Cardinality(Holders') = IF ref[c] THEN refs - 1 ELSE refs
    <2>1. Cardinality(Holders \ {c}) =
              IF c \in Holders THEN Cardinality(Holders) - 1 ELSE Cardinality(Holders)
      BY <1>2, FS_RemoveElement
    <2> QED
      BY <1>1, <1>2, <2>1 DEF Holders
  <1>5. refs' = Cardinality(Holders')
    BY <1>3, <1>4 DEF DropRef
  <1>6. linger' <=> refs' = 0
    <2>d. DEFINE left == IF ref[c] /\ refs > 0 THEN refs - 1 ELSE refs
    <2>1. refs' = left
      BY DEF DropRef
    <2>2. linger' <=> linger \/ (ref[c] /\ left = 0)
      BY DEF DropRef
    <2>3. linger <=> refs = 0
      BY DEF RefsCounted
    <2> QED
      BY <1>2, <1>3, <2>1, <2>2, <2>3
  <1>7. agents' => refs' > 0
    BY DEF DropRef
  <1> QED
    BY <1>5, <1>6, <1>7 DEF RefsCounted, Holders

\* Who holds the daemon: the agent is served above zero only, and nobody
\* holds a reference once it has exited.
Counted ==
    /\ RefsCounted
    /\ agents => refs > 0
    /\ exited => refs = 0

LEMMA CountedInit == Init => Counted
  <1> SUFFICES ASSUME Init PROVE Counted
    OBVIOUS
  <1>1. {c \in Conns : ref[c]} = {}
    BY DEF Init
  <1>2. refs = Cardinality({c \in Conns : ref[c]}) /\ refs = 0 /\ linger /\ ~agents /\ ~exited
    BY <1>1, FS_EmptySet DEF Init
  <1> QED
    BY <1>2 DEF Counted, RefsCounted

LEMMA CountedStep ==
    ASSUME TypeOK, Counted, [Next]_vars
    PROVE  Counted'
  <1>0. refs \in Nat
    BY DEF TypeOK, StateTypes
  <1>1. ASSUME ~exited, NEW c \in Conns, TakeRef(c), UNCHANGED <<agents, exited>>
        PROVE  Counted'
    BY <1>1, TakeRefCounts DEF Counted
  <1>2. ASSUME ~exited, NEW c \in Conns, DropRef(c), UNCHANGED exited
        PROVE  Counted'
    BY <1>2, DropRefCounts DEF Counted
  <1>3. ASSUME UNCHANGED <<ref, refs, linger>>, agents' => agents \/ refs > 0,
               exited' => exited \/ linger
        PROVE  Counted'
    <2>1. RefsCounted'
      BY <1>3 DEF Counted, RefsCounted
    <2>2. (agents' => refs' > 0) /\ (exited' => refs' = 0)
      BY <1>3 DEF Counted, RefsCounted
    <2> QED
      BY <2>1, <2>2 DEF Counted
  <1>4. CASE UNCHANGED vars
    BY <1>3, <1>4 DEF vars, conn_vars
  <1> QED
    BY <1>1, <1>2, <1>3, <1>4, RefsStep

LEMMA CountedInvariant == Spec => [](Typed /\ Counted)
  <1>1. Typed => TypeOK
    BY DEF Typed
  <1>2. Typed /\ Counted /\ [Next]_vars => (Typed /\ Counted)'
    BY <1>1, TypeStep, CountedStep
  <1> QED
    BY <1>2, TypeInit, CountedInit, PTL DEF Spec

\* The daemon's count is exact and its linger runs at zero only, through
\* every one of the paths on which a reference is dropped (MuxState).
THEOREM RefsCorrect == Spec => []RefsCounted
  <1>1. Typed /\ Counted => RefsCounted
    BY DEF Counted
  <1> QED
    BY <1>1, CountedInvariant, PTL

\* The local agent is never open to the remote host without a holder.
LEMMA ExposureCorrect == Spec => []ExposureBounded
  <1>1. Typed /\ Counted => ExposureBounded
    BY HoldersFinite DEF Typed, TypeOK, Counted, RefsCounted, ExposureBounded, Holders
  <1> QED
    BY <1>1, CountedInvariant, PTL

-----------------------------------------------------------------------------
(* Sessions and routes. *)

\* A route leads to the session of the connection it names, the other way
\* round too, and only to channels that were allocated.
Allocated == \A c \in Conns : session[c].chan <= last_chan

Routed == RoutesOwned /\ NeverAbandoned /\ Allocated

\* What a step does to the sessions, seen from the routes.
OpensSession ==
    \E c \in Conns :
        /\ ~exited /\ phase[c] = "open" /\ ~Has(c) /\ last_chan < MaxChan
        /\ last_chan' = last_chan + 1
        /\ routes' = [routes EXCEPT ![last_chan + 1] = c]
        /\ \E s \in Sessions : s.chan = last_chan + 1 /\ session' = [session EXCEPT ![c] = s]
        /\ TakeRef(c) /\ UNCHANGED <<phase, exited>>

EndsSession ==
    \E c \in Conns :
        /\ Has(c) /\ EndSession(c, session[c].chan)
        /\ \A d \in Conns \ {c} : phase'[d] = phase[d]
        /\ UNCHANGED <<last_chan, exited>>

SessionsKept == \A c \in Conns : session'[c].chan = session[c].chan

KeepsSessions ==
    /\ SessionsKept /\ UNCHANGED last_chan
    /\ \/ UNCHANGED routes
       \/ routes' = [n \in Chans |->
              IF \E c \in Conns : session[c].chan = n
              THEN CHOOSE c \in Conns : session[c].chan = n ELSE Nobody]
    /\ \A c \in Live : phase'[c] = phase[c] /\ (ref[c] => ref'[c])
    /\ exited' => exited \/ linger

LEMMA KeepsUnchanged ==
    ASSUME UNCHANGED <<session, routes, last_chan, phase>>, \A c \in Live : ref[c] => ref'[c],
           exited' => exited \/ linger
    PROVE  KeepsSessions
  BY DEF KeepsSessions, SessionsKept, Live

LEMMA SessionsStep ==
    ASSUME TypeOK, Routed, Next
    PROVE  OpensSession \/ EndsSession \/ KeepsSessions
  <1> DEFINE P == OpensSession \/ EndsSession \/ KeepsSessions
  <1>0. ConnTypes /\ RouteTypes
    BY DEF TypeOK
  <1>1. ASSUME NEW c \in Conns, Invocation(c)
        PROVE  P
    <2>1. CASE Connect(c)
      <3>1. UNCHANGED <<session, routes, last_chan, ref, exited>>
        BY <2>1 DEF Connect
      <3>2. \A d \in Conns : d # c => phase'[d] = phase[d]
        BY <2>1, <1>0 DEF Connect, ConnTypes
      <3> QED
        BY <2>1, <3>1, <3>2 DEF Connect, KeepsSessions, SessionsKept, Routed, NeverAbandoned
    <2>2. CASE SessionRef(c)
      <3>1. \A d \in Conns : ref[d] => ref'[d]
        BY <2>2, <1>0 DEF SessionRef, TakeRef, ConnTypes
      <3> QED
        BY <2>2, <3>1, KeepsUnchanged DEF SessionRef, Live
    <2>3. ASSUME NEW t \in Targets, SessionOpen(c, t)
          PROVE  P
      <3> DEFINE s == [chan |-> last_chan + 1, target |-> t, confirmed |-> FALSE,
                       queued |-> {}, sends |-> 0]
      <3>1. s \in Sessions
        BY <2>3, <1>0, BoundsAssumption DEF SessionOpen, RouteTypes, Sessions, Chans
      <3> QED
        BY <2>3, <3>1 DEF SessionOpen, OpensSession
    <2>4. ASSUME NEW kind \in {"msg", "quit"}, SessionMsg(c, kind)
          PROVE  P
      <3>1. session[c] \in Sessions
        BY <2>4, <1>0, SessionType DEF SessionMsg
      <3>2. SessionsKept
        BY <2>4, <3>1, <1>0 DEF SessionMsg, SessionsKept, ConnTypes, Sessions
      <3> QED
        BY <2>4, <3>2 DEF SessionMsg, KeepsSessions
    <2>5. CASE SessionClose(c) \/ (ConnGone(c) /\ Has(c))
      <3>1. \A d \in Conns \ {c} : phase'[d] = phase[d]
        BY <2>5, <1>0 DEF SessionClose, ConnGone, ConnTypes
      <3> QED
        BY <2>5, <3>1 DEF SessionClose, ConnGone, EndsSession
    <2>6. CASE ConnGone(c) /\ ~Has(c)
      <3>1. \A d \in Live : phase'[d] = phase[d] /\ ref'[d] = ref[d]
        BY <2>6, <1>0 DEF ConnGone, DropRef, Live, ConnTypes
      <3> QED
        BY <2>6, <3>1 DEF ConnGone, KeepsSessions, SessionsKept
    <2> QED
      BY <1>1, <2>1, <2>2, <2>3, <2>4, <2>5, <2>6 DEF Invocation
  <1>2. ASSUME NEW m \in p2d, Hear(m)
        PROVE  P
    <2> DEFINE c == routes[m.chan]
    <2>1. m.chan \in Chans /\ c \in Conns \cup {Nobody}
      BY DEF TypeOK, NetTypes, RouteTypes, ToDaemon
    <2>2. CASE UNCHANGED <<session, routes, ref>>
      BY <1>2, <2>2, KeepsUnchanged DEF Hear
    <2>3. CASE /\ c # Nobody /\ Has(c)
               /\ UNCHANGED <<routes, ref>>
               /\ \/ session' = [session EXCEPT ![c] = Confirmed(c)]
                  \/ session' = [session EXCEPT ![c] = [Confirmed(c) EXCEPT !.target = m.target]]
      <3>1. session[c] \in Sessions
        BY <2>1, <2>3, <1>0, SessionType
      <3>2. Confirmed(c).chan = session[c].chan /\ Confirmed(c) \in Sessions
        BY <3>1 DEF Confirmed, Sessions
      <3>3. [Confirmed(c) EXCEPT !.target = m.target].chan = session[c].chan
        BY <3>2 DEF Sessions
      <3>4. SessionsKept
        BY <2>1, <2>3, <3>2, <3>3, <1>0 DEF SessionsKept, ConnTypes
      <3> QED
        BY <1>2, <2>3, <3>4 DEF Hear, KeepsSessions
    <2>4. CASE c # Nobody /\ Has(c) /\ EndSession(c, m.chan)
      <3>1. session[c].chan = m.chan
        BY <2>1, <2>4 DEF Routed, RoutesOwned
      <3> QED
        BY <1>2, <2>1, <2>4, <3>1 DEF Hear, EndsSession
    <2> QED
      BY <1>2, <2>2, <2>3, <2>4 DEF Hear
  <1>3. ASSUME NEW c \in Conns, SendOpen(c)
        PROVE  P
    <2>1. session[c] \in Sessions
      BY <1>3, <1>0, SessionType DEF SendOpen
    <2>2. SessionsKept
      BY <1>3, <2>1, <1>0 DEF SendOpen, SessionsKept, ConnTypes, Sessions
    <2> QED
      BY <1>3, <2>2 DEF SendOpen, KeepsSessions
  <1>4. CASE \E c \in Conns : OpenTimesOut(c)
    BY <1>4 DEF OpenTimesOut, EndsSession
  <1>5. CASE \/ \E p \in closes : SendClose(p)
             \/ AgentOpen \/ AgentClose \/ LingerExpires \/ Reestablish
    <2>1. UNCHANGED <<session, routes, last_chan, phase, ref>>
      BY <1>5 DEF SendClose, AgentOpen, AgentClose, LingerExpires, Reestablish, conn_vars
    <2>2. LingerExpires \/ exited' = exited
      BY <1>5 DEF SendClose, AgentOpen, AgentClose, Reestablish, conn_vars
    <2>3. exited' => exited \/ linger
      BY <2>2 DEF LingerExpires
    <2> QED
      BY <2>1, <2>3, KeepsUnchanged
  <1>6. CASE WireDead
    <2>1. \A c \in Conns : Has(c) => session[c] \in Sessions
      BY <1>0, SessionType
    <2>2. SessionsKept
      BY <1>6, <2>1 DEF WireDead, SessionsKept, Sessions
    <2> QED
      BY <1>6, <2>2 DEF WireDead, KeepsSessions
  <1>7. CASE Peer \/ Lose
    <2>1. UNCHANGED conn_vars
      BY <1>7 DEF Peer, PeerReceives, BridgeFrame, BridgeEnds, BridgeSwitch, PeerExits, Lose
    <2> QED
      BY <2>1, KeepsUnchanged DEF conn_vars
  <1> QED
    BY <1>1, <1>2, <1>3, <1>4, <1>5, <1>6, <1>7 DEF Next, Daemon

LEMMA RoutedInit == Init => Routed
  BY BoundsAssumption, ConnsAssumption DEF Init, Routed, RoutesOwned, NeverAbandoned, Allocated,
     Live, Has, NoSession, Chans

LEMMA RoutedStep ==
    ASSUME TypeOK, RefsCounted, Routed, [Next]_vars
    PROVE  Routed'
  <1>0. ConnTypes /\ RouteTypes
    BY DEF TypeOK
  <1>s. \A c \in Conns : session[c].chan \in 0 .. MaxChan
    BY <1>0, SessionType, BoundsAssumption DEF Has, Sessions, Chans
  <1>1. CASE OpensSession
    <2>0. PICK c \in Conns :
              /\ ~exited /\ phase[c] = "open" /\ ~Has(c) /\ last_chan < MaxChan
              /\ last_chan' = last_chan + 1
              /\ routes' = [routes EXCEPT ![last_chan + 1] = c]
              /\ \E s \in Sessions : s.chan = last_chan + 1 /\ session' = [session EXCEPT ![c] = s]
              /\ TakeRef(c) /\ UNCHANGED <<phase, exited>>
      BY <1>1 DEF OpensSession
    <2>1. last_chan \in Nat /\ last_chan + 1 \in Chans
      BY <2>0, <1>0, BoundsAssumption DEF RouteTypes, Chans
    <2>2. /\ session'[c].chan = last_chan + 1
          /\ \A d \in Conns \ {c} : session'[d] = session[d]
      BY <2>0, <1>0 DEF ConnTypes
    <2>3. /\ routes'[last_chan + 1] = c
          /\ \A n \in Chans \ {last_chan + 1} : routes'[n] = routes[n]
      BY <2>0, <2>1, <1>0 DEF RouteTypes
    <2>4. RoutesOwned'
      BY <2>0, <2>1, <2>2, <2>3, <1>s DEF RoutesOwned, Routed, Allocated, Has, Chans
    <2>5. Allocated'
      BY <2>0, <2>1, <2>2, <1>s DEF Routed, Allocated
    <2>6. ref'[c] /\ \A d \in Conns : ref[d] => ref'[d]
      BY <2>0, <1>0 DEF TakeRef, ConnTypes
    <2>7. NeverAbandoned'
      BY <2>0, <2>2, <2>6 DEF Routed, NeverAbandoned, Live, Has
    <2> QED
      BY <2>4, <2>5, <2>7 DEF Routed
  <1>2. CASE EndsSession
    <2>0. PICK c \in Conns :
              /\ Has(c) /\ EndSession(c, session[c].chan)
              /\ \A d \in Conns \ {c} : phase'[d] = phase[d]
              /\ UNCHANGED <<last_chan, exited>>
      BY <1>2 DEF EndsSession
    <2>1. session[c].chan \in Chans
      BY <2>0, <1>s, BoundsAssumption DEF Has, Chans
    <2>2. /\ session'[c].chan = 0
          /\ \A d \in Conns \ {c} : session'[d] = session[d]
      BY <2>0, <1>0 DEF EndSession, ConnTypes, NoSession
    <2>3. /\ routes'[session[c].chan] = Nobody
          /\ \A n \in Chans \ {session[c].chan} : routes'[n] = routes[n]
      BY <2>0, <2>1, <1>0 DEF EndSession, RouteTypes
    <2>4. RoutesOwned'
      BY <2>0, <2>1, <2>2, <2>3, ConnsAssumption DEF RoutesOwned, Routed, Chans
    <2>5. Allocated'
      BY <2>0, <2>2, <1>0 DEF Routed, Allocated, RouteTypes
    <2>6. \A d \in Conns \ {c} : ref'[d] = ref[d]
      BY <2>0, <1>0 DEF EndSession, DropRef, ConnTypes
    <2>7. NeverAbandoned'
      BY <2>0, <2>2, <2>6 DEF Routed, NeverAbandoned, Live, Has
    <2> QED
      BY <2>4, <2>5, <2>7 DEF Routed
  <1>3. CASE KeepsSessions
    <2>1. SessionsKept /\ last_chan' = last_chan
      BY <1>3 DEF KeepsSessions
    <2>2. RoutesOwned'
      <3>1. CASE UNCHANGED routes
        BY <2>1, <3>1 DEF Routed, RoutesOwned, SessionsKept
      <3>2. CASE routes' = [n \in Chans |->
                     IF \E c \in Conns : session[c].chan = n
                     THEN CHOOSE c \in Conns : session[c].chan = n ELSE Nobody]
        <4>1. \A n \in Chans : \A c, d \in Conns :
                  session[c].chan = n /\ session[d].chan = n => c = d
          BY DEF Routed, RoutesOwned
        <4>2. ASSUME NEW n \in Chans, NEW c \in Conns
              PROVE  routes'[n] = c <=> session[c].chan = n
          BY <3>2, <4>1, ConnsAssumption
        <4> QED
          BY <2>1, <4>2 DEF RoutesOwned, SessionsKept
      <3> QED
        BY <1>3, <3>1, <3>2 DEF KeepsSessions
    <2>3. Allocated'
      BY <2>1 DEF Routed, Allocated, SessionsKept
    <2>4. \A c \in Live : refs # 0
      BY <1>0, HoldersFinite DEF Routed, NeverAbandoned, RefsCounted, Holders, Live
    <2>5. NeverAbandoned'
      BY <1>3, <2>1, <2>4 DEF KeepsSessions, SessionsKept, Routed, NeverAbandoned, RefsCounted,
         Live, Has
    <2> QED
      BY <2>2, <2>3, <2>5 DEF Routed
  <1>4. CASE UNCHANGED vars
    BY <1>3, <1>4, KeepsUnchanged DEF vars, conn_vars
  <1> QED
    BY <1>1, <1>2, <1>3, <1>4, SessionsStep DEF Routed

LEMMA RoutedInvariant == Spec => []Routed
  <1>1. Typed /\ Counted => TypeOK /\ RefsCounted
    BY DEF Typed, Counted
  <1>2. Typed /\ Counted /\ Routed /\ [Next]_vars => Routed'
    BY <1>1, RoutedStep
  <1> QED
    BY <1>2, CountedInvariant, RoutedInit, PTL DEF Spec

\* A channel of the wire leads to the one session that opened it, through
\* every late CLOSE, refused OPEN and reconnect (mux_loop).
THEOREM RoutesCorrect == Spec => []RoutesOwned
  <1>1. Routed => RoutesOwned
    BY DEF Routed
  <1> QED
    BY <1>1, RoutedInvariant, PTL

\* No session outlives its reference, so the daemon never leaves it behind, and
\* the local agent is never open to the remote host without one (take_ref,
\* drop_ref).
THEOREM AgentCorrect == Spec => []AgentGuarded
  <1>1. Routed => NeverAbandoned
    BY DEF Routed
  <1>2. NeverAbandoned /\ ExposureBounded => AgentGuarded
    BY DEF AgentGuarded
  <1> QED
    BY <1>1, <1>2, RoutedInvariant, ExposureCorrect, PTL
=============================================================================
