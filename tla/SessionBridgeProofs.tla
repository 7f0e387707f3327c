------------------------ MODULE SessionBridgeProofs ------------------------
(***************************************************************************)
(* What the frame half of a mux channel keeps right for any number of      *)
(* sessions, re-homes, reconnects, frames and losses: types, and frame     *)
(* numbers that stay unique and fresh across the daemon legs.              *)
(***************************************************************************)
EXTENDS SessionBridge, TLAPS

-----------------------------------------------------------------------------
(* Types. *)

LEMMA ShownType ==
    ASSUME WireTypes, NEW s \in Sessions
    PROVE  Shown(s) \in Screens
  BY DEF WireTypes, Shown, Screens

LEMMA NewProducerType ==
    NewProducer \in [num : 0 .. MaxFrame, acked : 0 .. MaxFrame, base : Dumps,
                     sent : SUBSET [num : 0 .. MaxFrame, screen : Screens],
                     dirty : BOOLEAN]
  BY BridgeBounds DEF NewProducer, Dumps, Screens

LEMMA LinkType ==
    ASSUME BridgeTypes, NEW s \in Sessions, NEW n \in Nat
    PROVE  /\ Link(bridge, s, n) \in
                 [linked : BOOLEAN, session : Sessions, last : Nat, offset : Nat,
                  forwarded : Nat, held : SUBSET WireFrames]
           /\ Link(bridge, s, n).offset = n /\ Link(bridge, s, n).forwarded = n
           /\ Link(bridge, s, n).held = {} /\ Link(bridge, s, n).linked
           /\ Link(bridge, s, n).session = s
           /\ Link(bridge, s, n).last = bridge.last
  BY DEF BridgeTypes, Link

\* The frame at the head of the daemon socket, as the viewport will get it.
LEMMA RewrapType ==
    ASSUME TypeOK, toBridge # <<>>, Head(toBridge).kind # "switch"
    PROVE  /\ Head(toBridge) \in DaemonFrames
           /\ Rewrap(Head(toBridge)) \in WireFrames
           /\ Rewrap(Head(toBridge)).num = bridge.offset + Head(toBridge).num
           /\ Rewrap(Head(toBridge)).leg = legs
           /\ Rewrap(Head(toBridge)).to = Head(toBridge).to
  <1>1. Head(toBridge) \in DaemonFrames
    BY DEF TypeOK, DaemonTypes, Switches
  <1>2. bridge.offset \in Nat /\ legs \in 0 .. MaxLegs
    BY DEF TypeOK, BridgeTypes, WireTypes
  <1> DEFINE h == Head(toBridge)
             D == [kind : {"full", "diff"}, num : Nat, base : 0 .. MaxFrame,
                   from : Dumps, to : Screens, leg : Nat]
  <1>3. h \in D
    BY <1>1, BridgeBounds DEF DaemonFrames
  <1>4. bridge.offset + h.num \in Nat /\ h.num + bridge.offset = bridge.offset + h.num
    BY <1>2, <1>3
  <1> HIDE DEF h
  <1>5. /\ Rewrap(h).num = bridge.offset + h.num
        /\ Rewrap(h).leg = legs /\ Rewrap(h).to = h.to
    BY <1>3, <1>4 DEF Rewrap
  <1>6. Rewrap(h) \in WireFrames
    BY <1>2, <1>3, <1>4 DEF Rewrap, WireFrames
  <1> QED
    BY <1>1, <1>5, <1>6 DEF h

LEMMA EncodingsType ==
    ASSUME DaemonTypes, NEW n \in 1 .. MaxFrame, NEW s \in Screens,
           NEW m \in Encodings(n, s)
    PROVE  m \in DaemonFrames /\ m.num = n /\ m.to = s
  <1>1. producer.acked \in 0 .. MaxFrame /\ producer.base \in Dumps
    BY DEF DaemonTypes
  <1> QED
    BY <1>1, BridgeBounds DEF Encodings, Body, DaemonFrames, Dumps

LEMMA AckedType ==
    ASSUME DaemonTypes, NEW n \in Nat
    PROVE  Acked(producer, n) \in
              [num : 0 .. MaxFrame, acked : 0 .. MaxFrame, base : Dumps,
               sent : SUBSET [num : 0 .. MaxFrame, screen : Screens],
               dirty : BOOLEAN]
  <1> DEFINE P == [num : 0 .. MaxFrame, acked : 0 .. MaxFrame, base : Dumps,
                   sent : SUBSET [num : 0 .. MaxFrame, screen : Screens],
                   dirty : BOOLEAN]
             Of == {f \in producer.sent : f.num = n}
             Base == IF Of = {} THEN NoBase ELSE (CHOOSE f \in Of : TRUE).screen
  <1>1. producer \in P
    BY DEF DaemonTypes
  <1>2. CASE n <= producer.acked \/ n > producer.num
    BY <1>1, <1>2 DEF Acked
  <1>3. CASE ~(n <= producer.acked \/ n > producer.num)
    <2>1. n \in 0 .. MaxFrame
      <3>1. producer.num \in 0 .. MaxFrame
        BY <1>1
      <3> QED
        BY <3>1, <1>3, BridgeBounds
    <2>2. Base \in Dumps
      <3>1. CASE Of = {}
        BY <3>1 DEF Dumps
      <3>2. CASE Of # {}
        <4>1. (CHOOSE f \in Of : TRUE) \in Of
          BY <3>2
        <4>2. (CHOOSE f \in Of : TRUE) \in [num : 0 .. MaxFrame, screen : Screens]
          BY <4>1, <1>1
        <4> QED
          BY <4>2, <3>2 DEF Dumps
      <3> QED
        BY <3>1, <3>2
    <2>3. Acked(producer, n) = [producer EXCEPT !.acked = n, !.base = Base,
                                                !.sent = {f \in @ : f.num >= n}]
      BY <1>3 DEF Acked
    <2> HIDE DEF Base, Of
    <2> QED
      BY <1>1, <2>1, <2>2, <2>3
  <1> QED
    BY <1>2, <1>3

LEMMA ViewStepType ==
    ASSUME ViewTypes, NEW m \in WireFrames
    PROVE  AppliedFrame(m) \in
              [num : Nat, screen : Screens, resync : BOOLEAN, leg : 0 .. MaxLegs,
               bases : Seq([num : Nat, screen : Screens])]
  <1> DEFINE V == [num : Nat, screen : Screens, resync : BOOLEAN, leg : 0 .. MaxLegs,
                   bases : Seq([num : Nat, screen : Screens])]
  <1>1. view \in V
    BY DEF ViewTypes
  <1>2. Install(m) \in V
    <2>1. [num |-> m.num, screen |-> m.to] \in [num : Nat, screen : Screens]
      BY DEF WireFrames
    <2>2. view.bases \in Seq([num : Nat, screen : Screens])
      BY <1>1
    <2> DEFINE All == Append(view.bases, [num |-> m.num, screen |-> m.to])
    <2>3. All \in Seq([num : Nat, screen : Screens]) /\ All # <<>>
      BY <2>1, <2>2
    <2> HIDE DEF All
    <2>4. Tail(All) \in Seq([num : Nat, screen : Screens])
      BY <2>3
    <2>5. Remembered(m) \in Seq([num : Nat, screen : Screens])
      BY <2>3, <2>4 DEF Remembered, All
    <2> QED
      BY <1>1, <2>5 DEF Install, WireFrames
  <1>3. [view EXCEPT !.resync = @ \/ m.base < view.num \/ BaseFor(m) # NoBase] \in V
    BY <1>1, Zenon
  <1>4. AppliedFrame(m) \in
           {view, Install(m), [view EXCEPT !.resync = @ \/ m.base < view.num
                                                        \/ BaseFor(m) # NoBase]}
    BY DEF AppliedFrame
  <1> HIDE DEF V
  <1>5. AppliedFrame(m) \in V
    BY <1>1, <1>2, <1>3, <1>4
  <1> QED
    BY <1>5 DEF V

LEMMA TypeInit == Init => TypeOK
  <1> SUFFICES ASSUME Init PROVE TypeOK
    OBVIOUS
  <1> USE BridgeBounds
  <1>1. WireTypes
    BY DEF Init, WireTypes, Sessions
  <1>2. DaemonTypes
    BY NewProducerType DEF Init, DaemonTypes
  <1>3. BridgeTypes
    BY DEF Init, BridgeTypes, Awaiting, Sessions
  <1>4. ViewTypes
    BY DEF Init, ViewTypes, Screens
  <1> QED
    BY <1>1, <1>2, <1>3, <1>4 DEF TypeOK

LEMMA TypeDaemon ==
    ASSUME TypeOK, Daemon
    PROVE  TypeOK'
  <1>t. WireTypes /\ DaemonTypes /\ BridgeTypes /\ ViewTypes
    BY DEF TypeOK
  <1>u. ASSUME UNCHANGED <<bridge, legs, mux_vars, net_vars, view>>,
               gen' \in [Sessions -> 1 .. MaxGen], DaemonTypes'
        PROVE  TypeOK'
    <2>1. WireTypes'
      BY <1>t, <1>u DEF WireTypes, mux_vars, net_vars
    <2>2. BridgeTypes' /\ ViewTypes'
      BY <1>t, <1>u DEF BridgeTypes, ViewTypes
    <2> QED
      BY <1>u, <2>1, <2>2 DEF TypeOK
  <1>g. gen \in [Sessions -> 1 .. MaxGen] /\ bridge.session \in Sessions
    BY <1>t DEF WireTypes, BridgeTypes
  <1>1. CASE SendFrame
    <2>1. Shown(bridge.session) \in Screens
      BY <1>g, <1>t, ShownType
    <2>2. producer.num + 1 \in 1 .. MaxFrame /\ producer.num + 1 \in 0 .. MaxFrame
      <3>1. producer.num \in 0 .. MaxFrame /\ producer.num < MaxFrame
        BY <1>1, <1>t DEF SendFrame, DaemonTypes
      <3> QED
        BY <3>1, BridgeBounds
    <2>3. PICK m \in Encodings(producer.num + 1, Shown(bridge.session)) :
             toBridge' = Append(toBridge, m)
      BY <1>1 DEF SendFrame
    <2>4. m \in DaemonFrames
      BY <2>1, <2>2, <1>t, EncodingsType
    <2>5. toBridge' \in Seq(DaemonFrames \cup Switches)
      BY <2>3, <2>4, <1>t DEF DaemonTypes
    <2>6. producer' \in [num : 0 .. MaxFrame, acked : 0 .. MaxFrame, base : Dumps,
                         sent : SUBSET [num : 0 .. MaxFrame, screen : Screens],
                         dirty : BOOLEAN]
      <3>1. [num |-> producer.num + 1, screen |-> Shown(bridge.session)]
               \in [num : 0 .. MaxFrame, screen : Screens]
        BY <2>1, <2>2
      <3> QED
        BY <1>1, <1>t, <2>2, <3>1 DEF SendFrame, Advanced, DaemonTypes
    <2>7. DaemonTypes' /\ gen' = gen
      BY <2>5, <2>6, <1>1, <1>t DEF DaemonTypes, SendFrame
    <2> QED
      BY <2>7, <1>1, <1>g, <1>u DEF SendFrame
  <1>2. CASE HearAck
    <2>1. Head(toDaemon) \in Acks /\ Tail(toDaemon) \in Seq(Acks)
      BY <1>2, <1>t DEF HearAck, DaemonTypes
    <2> DEFINE p == Acked(producer, Head(toDaemon).num)
    <2>2. p \in [num : 0 .. MaxFrame, acked : 0 .. MaxFrame, base : Dumps,
                 sent : SUBSET [num : 0 .. MaxFrame, screen : Screens],
                 dirty : BOOLEAN]
      BY <2>1, <1>t, AckedType DEF Acks
    <2>3. producer' = IF Head(toDaemon).resync THEN DropBase(p) ELSE p
      BY <1>2 DEF HearAck
    <2> HIDE DEF p
    <2>4. producer' \in [num : 0 .. MaxFrame, acked : 0 .. MaxFrame, base : Dumps,
                         sent : SUBSET [num : 0 .. MaxFrame, screen : Screens],
                         dirty : BOOLEAN]
      BY <2>2, <2>3 DEF DropBase, Dumps
    <2>5. DaemonTypes' /\ gen' = gen
      BY <2>1, <2>4, <1>2, <1>t DEF DaemonTypes, HearAck
    <2> QED
      BY <2>5, <1>2, <1>g, <1>u DEF HearAck
  <1>3. ASSUME NEW s \in Sessions, Output(s)
        PROVE  TypeOK'
    <2>1. gen[s] \in 1 .. MaxGen /\ gen[s] < MaxGen
      BY <1>3, <1>g DEF Output
    <2>2. gen[s] + 1 \in 1 .. MaxGen
      BY <2>1, BridgeBounds
    <2>3. gen' \in [Sessions -> 1 .. MaxGen]
      BY <2>2, <1>3, <1>g DEF Output
    <2>4. producer' \in [num : 0 .. MaxFrame, acked : 0 .. MaxFrame, base : Dumps,
                         sent : SUBSET [num : 0 .. MaxFrame, screen : Screens],
                         dirty : BOOLEAN]
      <3>1. producer' = [producer EXCEPT !.dirty = @ \/ (bridge.linked /\ bridge.session = s)]
        BY <1>3 DEF Output
      <3>2. (producer.dirty \/ (bridge.linked /\ bridge.session = s)) \in BOOLEAN
        BY Zenon
      <3> QED
        BY <3>1, <3>2, <1>t, Zenon DEF DaemonTypes
    <2>5. DaemonTypes'
      BY <2>4, <1>3, <1>t DEF DaemonTypes, Output, link_vars
    <2> QED
      BY <2>3, <2>5, <1>3, <1>u DEF Output
  <1>4. ASSUME NEW s \in Sessions, RouteSwitch(s)
        PROVE  TypeOK'
    <2>1. SwitchTo(s) \in Switches
      BY DEF SwitchTo, Switches
    <2>2. toBridge' \in Seq(DaemonFrames \cup Switches)
      BY <2>1, <1>4, <1>t DEF DaemonTypes, RouteSwitch
    <2>3. DaemonTypes' /\ gen' = gen
      BY <2>2, <1>4, <1>t DEF DaemonTypes, RouteSwitch
    <2> QED
      BY <2>3, <1>4, <1>g, <1>u DEF RouteSwitch
  <1> QED
    BY <1>1, <1>2, <1>3, <1>4 DEF Daemon

LEMMA ForwardAckType ==
    ASSUME DaemonTypes,
           NEW b \in [linked : BOOLEAN, session : Sessions, last : Nat, offset : Nat,
                      forwarded : Nat, held : SUBSET WireFrames],
           b.offset <= b.forwarded,
           NEW m \in [ack : Nat, resync : BOOLEAN], ForwardAck(b, m)
    PROVE  /\ BridgeTypes'
           /\ toDaemon' \in Seq(Acks)
           /\ bridge'.held \subseteq b.held /\ bridge'.linked = b.linked
           /\ bridge'.session = b.session /\ bridge'.last = b.last
           /\ bridge'.offset = b.offset
  <1> DEFINE B == [linked : BOOLEAN, session : Sessions, last : Nat, offset : Nat,
                   forwarded : Nat, held : SUBSET WireFrames]
             kept == {f \in b.held : f.num > m.ack}
             seen == Larger(b.forwarded, m.ack)
  <1>1. kept \in SUBSET WireFrames /\ kept \subseteq b.held
    OBVIOUS
  <1>2. seen \in Nat /\ b.forwarded <= seen /\ b.offset <= seen
    BY DEF Larger
  <1>3. DaemonNum(b, seen) \in Nat
    BY <1>2 DEF DaemonNum
  <1> HIDE DEF kept, seen
  <1>4. CASE m.ack <= b.forwarded /\ ~m.resync
    <2>1. bridge' = [b EXCEPT !.held = kept] /\ toDaemon' = toDaemon
      BY <1>4 DEF ForwardAck, kept, seen
    <2> QED
      BY <2>1, <1>1 DEF BridgeTypes, DaemonTypes
  <1>5. CASE ~(m.ack <= b.forwarded /\ ~m.resync)
    <2>1. /\ bridge' = [b EXCEPT !.held = IF m.resync THEN {} ELSE kept, !.forwarded = seen]
          /\ toDaemon' = Append(toDaemon, [num |-> DaemonNum(b, seen), resync |-> m.resync])
      BY <1>5 DEF ForwardAck, kept, seen
    <2>2. [num |-> DaemonNum(b, seen), resync |-> m.resync] \in Acks
      BY <1>3 DEF Acks
    <2>3. toDaemon' \in Seq(Acks)
      BY <2>1, <2>2 DEF DaemonTypes
    <2>4. (IF m.resync THEN {} ELSE kept) \in SUBSET WireFrames
      BY <1>1
    <2>5. bridge' \in B /\ bridge'.offset = b.offset /\ bridge'.forwarded = seen
      BY <2>1, <2>4, <1>2
    <2>6. /\ bridge'.held \subseteq b.held /\ bridge'.linked = b.linked
          /\ bridge'.session = b.session /\ bridge'.last = b.last
      BY <2>1, <1>1
    <2> QED
      BY <2>3, <2>5, <2>6, <1>2 DEF BridgeTypes
  <1> QED
    BY <1>4, <1>5

\* The bridge a message finds: the channel's, or the one it links.
Found == IF bridge.linked THEN bridge ELSE Link(bridge, bridge.session, bridge.last)

LEMMA FoundType ==
    ASSUME BridgeTypes
    PROVE  /\ Found \in [linked : BOOLEAN, session : Sessions, last : Nat, offset : Nat,
                         forwarded : Nat, held : SUBSET WireFrames]
           /\ Found.offset <= Found.forwarded
           /\ Found.last = bridge.last /\ Found.session = bridge.session
           /\ Found.linked
           /\ Found.held \subseteq bridge.held
           /\ Found.offset = IF bridge.linked THEN bridge.offset ELSE bridge.last
  <1>1. bridge.session \in Sessions /\ bridge.last \in Nat
    BY DEF BridgeTypes
  <1>2. CASE bridge.linked
    BY <1>2 DEF Found, BridgeTypes
  <1>3. CASE ~bridge.linked
    <2>1. Found = Link(bridge, bridge.session, bridge.last)
      BY <1>3 DEF Found
    <2> QED
      BY <2>1, <1>1, <1>3, LinkType
  <1> QED
    BY <1>2, <1>3

LEMMA TypePeer ==
    ASSUME TypeOK, Peer
    PROVE  TypeOK'
  <1>t. WireTypes /\ DaemonTypes /\ BridgeTypes /\ ViewTypes
    BY DEF TypeOK
  <1>u. ASSUME UNCHANGED <<gen, mux_vars, lost, view>>,
               legs' \in 0 .. MaxLegs, DaemonTypes', BridgeTypes',
               s2c' \subseteq WireFrames \cup Switches \cup Empties,
               c2s' \subseteq c2s
        PROVE  TypeOK'
    <2>1. WireTypes'
      BY <1>t, <1>u DEF WireTypes, mux_vars
    <2>2. ViewTypes'
      BY <1>t, <1>u DEF ViewTypes
    <2> QED
      BY <1>u, <2>1, <2>2 DEF TypeOK
  <1>g. legs \in 0 .. MaxLegs /\ s2c \subseteq WireFrames \cup Switches \cup Empties
    BY <1>t DEF WireTypes
  <1>1. CASE Forward
    <2>1. Head(toBridge) \in DaemonFrames /\ Rewrap(Head(toBridge)) \in WireFrames
      BY <1>1, RewrapType DEF Forward
    <2> DEFINE m == Rewrap(Head(toBridge))
    <2>2. /\ bridge' = [bridge EXCEPT !.last = m.num, !.held = {m}]
          /\ s2c' = s2c \cup {m} /\ toBridge' = Tail(toBridge)
      BY <1>1 DEF Forward
    <2>3. m \in WireFrames /\ m.num \in Nat
      BY <2>1 DEF WireFrames
    <2> HIDE DEF m
    <2>4. BridgeTypes'
      BY <2>2, <2>3, <1>t DEF BridgeTypes
    <2>5. Tail(toBridge) \in Seq(DaemonFrames \cup Switches)
      BY <1>1, <1>t DEF Forward, DaemonTypes
    <2>6. DaemonTypes'
      BY <2>2, <2>5, <1>1, <1>t DEF Forward, DaemonTypes
    <2>7. s2c' \subseteq WireFrames \cup Switches \cup Empties
      BY <2>2, <2>3, <1>g
    <2> QED
      BY <2>4, <2>6, <2>7, <1>1, <1>g, <1>u DEF Forward
  <1>2. CASE Rehome
    <2>1. Head(toBridge) \in DaemonFrames \cup Switches
      BY <1>2, <1>t DEF Rehome, DaemonTypes
    <2>2. Head(toBridge).session \in Sessions /\ bridge.last \in Nat
      BY <2>1, <1>2, <1>t DEF Rehome, DaemonFrames, Switches, BridgeTypes
    <2> DEFINE s == Head(toBridge).session
    <2>3. /\ bridge' = Link(bridge, s, bridge.last)
          /\ s2c' = s2c \cup {SwitchTo(s)} /\ producer' = NewProducer
          /\ toBridge' = <<>> /\ toDaemon' = <<>>
          /\ legs' = legs + 1 /\ legs < MaxLegs
      BY <1>2 DEF Rehome, RehomeCeiling
    <2>4. s \in Sessions
      BY <2>2
    <2> HIDE DEF s
    <2>5. BridgeTypes'
      BY <2>2, <2>3, <2>4, <1>t, LinkType DEF BridgeTypes
    <2>6. SwitchTo(s) \in Switches
      BY <2>4 DEF SwitchTo, Switches
    <2>7. s2c' \subseteq WireFrames \cup Switches \cup Empties
      BY <2>3, <2>6, <1>g
    <2>8. DaemonTypes'
      BY <2>3, NewProducerType DEF DaemonTypes
    <2>9. legs' \in 0 .. MaxLegs
      BY <2>3, <1>g, BridgeBounds
    <2> QED
      BY <2>5, <2>7, <2>8, <2>9, <1>2, <1>u DEF Rehome
  <1>3. CASE Retransmit
    <2>1. bridge.held \subseteq WireFrames
      BY <1>t DEF BridgeTypes
    <2>2. s2c' \subseteq WireFrames \cup Switches \cup Empties
      BY <2>1, <1>3, <1>g DEF Retransmit
    <2>3. DaemonTypes' /\ BridgeTypes'
      BY <1>3, <1>t DEF Retransmit, DaemonTypes, BridgeTypes, link_vars
    <2> QED
      BY <2>2, <2>3, <1>3, <1>g, <1>u DEF Retransmit
  <1>4. CASE Heartbeat
    <2>1. EmptyAt(bridge.last) \in Empties
      BY <1>t DEF BridgeTypes, EmptyAt, Empties
    <2>2. s2c' \subseteq WireFrames \cup Switches \cup Empties
      BY <2>1, <1>4, <1>g DEF Heartbeat
    <2>3. DaemonTypes' /\ BridgeTypes'
      BY <1>4, <1>t DEF Heartbeat, DaemonTypes, BridgeTypes, link_vars
    <2> QED
      BY <2>2, <2>3, <1>4, <1>g, <1>u DEF Heartbeat
  <1>5. ASSUME NEW m \in c2s, PeerReceives(m)
        PROVE  TypeOK'
    <2>1. m \in [ack : Nat, resync : BOOLEAN]
      BY <1>t DEF WireTypes
    <2>2. ForwardAck(Found, m)
      BY <1>5 DEF PeerReceives, Found
    <2>3. BridgeTypes' /\ toDaemon' \in Seq(Acks)
      BY <2>1, <2>2, <1>t, FoundType, ForwardAckType
    <2>4. DaemonTypes'
      BY <2>3, <1>5, <1>t DEF PeerReceives, DaemonTypes
    <2> QED
      BY <2>3, <2>4, <1>5, <1>g, <1>u DEF PeerReceives
  <1> QED
    BY <1>1, <1>2, <1>3, <1>4, <1>5 DEF Peer

LEMMA TypeViewport ==
    ASSUME TypeOK, Viewport \/ Lose
    PROVE  TypeOK'
  <1>t. WireTypes /\ DaemonTypes /\ BridgeTypes /\ ViewTypes
    BY DEF TypeOK
  <1>1. ASSUME NEW m \in s2c, Receive(m)
        PROVE  TypeOK'
    <2>1. DaemonTypes' /\ BridgeTypes'
      BY <1>1, <1>t DEF Receive, DaemonTypes, BridgeTypes, link_vars
    <2>2. m \in WireFrames \cup Switches \cup Empties
      BY <1>t DEF WireTypes
    <2>3. target' \in Sessions /\ cursor' \in Nat /\ ViewTypes'
      <3>1. CASE m.kind = "switch"
        <4>1. m.session \in Sessions
          BY <2>2, <3>1 DEF WireFrames, Switches, Empties
        <4> QED
          BY <4>1, <3>1, <1>1, <1>t DEF Receive, WireTypes, ViewTypes
      <3>2. CASE m.kind # "switch"
        <4>1. m.num \in Nat
          BY <2>2, <3>2 DEF WireFrames, Switches, Empties
        <4>2. cursor' \in Nat /\ target' = target
          BY <4>1, <3>2, <1>1, <1>t DEF Receive, WireTypes, Advance, Larger
        <4>3. CASE m.kind = "empty"
          <5>1. view' = view
            BY <4>3, <3>2, <1>1 DEF Receive
          <5> QED
            BY <5>1, <4>2, <1>t DEF ViewTypes, WireTypes
        <4>4. CASE m.kind # "empty"
          <5>1. m \in WireFrames
            BY <2>2, <3>2, <4>4 DEF Switches, Empties
          <5>2. view' = AppliedFrame(m)
            BY <4>4, <3>2, <1>1 DEF Receive
          <5> QED
            BY <5>1, <5>2, <4>2, <1>t, ViewStepType DEF ViewTypes, WireTypes
        <4> QED
          BY <4>3, <4>4
      <3> QED
        BY <3>1, <3>2
    <2>4. WireTypes'
      BY <2>3, <1>1, <1>t DEF Receive, WireTypes
    <2> QED
      BY <2>1, <2>3, <2>4 DEF TypeOK
  <1>2. CASE SendMessage
    <2>1. DaemonTypes' /\ BridgeTypes'
      BY <1>2, <1>t DEF SendMessage, DaemonTypes, BridgeTypes, link_vars
    <2>2. [ack |-> view.num, resync |-> view.resync] \in [ack : Nat, resync : BOOLEAN]
      BY <1>t DEF ViewTypes
    <2>3. WireTypes'
      BY <2>2, <1>2, <1>t DEF SendMessage, WireTypes, mux_vars
    <2>4. ViewTypes'
      BY <1>2, <1>t DEF SendMessage, ViewTypes
    <2> QED
      BY <2>1, <2>3, <2>4 DEF TypeOK
  <1>3. CASE Reconnect
    <2>1. /\ bridge' = Awaiting(target, cursor) /\ producer' = NewProducer
          /\ toBridge' = <<>> /\ toDaemon' = <<>> /\ s2c' = {} /\ c2s' = {}
          /\ wires' = wires + 1 /\ legs' = legs + 1 /\ legs < MaxLegs
          /\ UNCHANGED <<gen, target, cursor, lost, view>>
      BY <1>3 DEF Reconnect
    <2>2. target \in Sessions /\ cursor \in Nat
      BY <1>t DEF WireTypes
    <2>3. BridgeTypes'
      BY <2>1, <2>2 DEF BridgeTypes, Awaiting
    <2>4. DaemonTypes'
      BY <2>1, NewProducerType DEF DaemonTypes
    <2>5. WireTypes'
      BY <2>1, <1>t, BridgeBounds DEF WireTypes
    <2>6. ViewTypes'
      BY <2>1, <1>t DEF ViewTypes
    <2> QED
      BY <2>3, <2>4, <2>5, <2>6 DEF TypeOK
  <1>4. CASE Lose
    <2>1. /\ DaemonTypes' /\ BridgeTypes' /\ ViewTypes'
      BY <1>4, <1>t DEF Lose, DaemonTypes, BridgeTypes, ViewTypes, link_vars
    <2>2. s2c' \subseteq s2c /\ c2s' \subseteq c2s /\ lost' = lost + 1
          /\ UNCHANGED <<gen, legs, target, cursor, wires>>
      BY <1>4 DEF Lose, mux_vars
    <2>3. WireTypes'
      BY <2>2, <1>t DEF WireTypes
    <2> QED
      BY <2>1, <2>3 DEF TypeOK
  <1> QED
    BY <1>1, <1>2, <1>3, <1>4 DEF Viewport

LEMMA TypeStep == TypeOK /\ [Next]_vars => TypeOK'
  <1> SUFFICES ASSUME TypeOK, [Next]_vars PROVE TypeOK'
    OBVIOUS
  <1>1. CASE UNCHANGED vars
    BY <1>1 DEF TypeOK, WireTypes, DaemonTypes, BridgeTypes, ViewTypes, vars,
                link_vars, mux_vars, net_vars
  <1>2. CASE Next
    BY <1>2, TypeDaemon, TypePeer, TypeViewport DEF Next
  <1> QED
    BY <1>1, <1>2

\* Every variable of the daemon, the bridge, the mux daemon and the viewport
\* keeps its type on every leg (TypeOK): in particular no acknowledgement of an
\* earlier leg reaches the daemon below zero (DaemonLeg::forward_ack).
THEOREM TypeCorrect == Spec => []TypeOK
  BY TypeInit, TypeStep, PTL DEF Spec

-----------------------------------------------------------------------------
(* Frame numbers.  A leg numbers its frames above its offset, and everything *)
(* of an earlier leg, in flight or at the viewport, is at or below it.       *)

\* The daemon socket holds new frames of the producer, oldest first.
SocketOrdered ==
    \A i \in DOMAIN toBridge : toBridge[i].kind # "switch" =>
        /\ bridge.last < bridge.offset + toBridge[i].num
        /\ toBridge[i].num <= producer.num
        /\ \A j \in DOMAIN toBridge :
              j < i /\ toBridge[j].kind # "switch" => toBridge[j].num < toBridge[i].num

LegNumbers ==
    /\ bridge.offset <= bridge.last /\ bridge.last <= bridge.offset + producer.num
    /\ ~bridge.linked => bridge.held = {} /\ toBridge = <<>> /\ producer.num = 0
    /\ SocketOrdered

FlightBelow ==
    /\ \A m \in InFlight :
          /\ m.num <= bridge.last /\ m.leg <= legs
          /\ m.leg = legs => m.num > bridge.offset
          /\ m.leg < legs => m.num <= bridge.offset
    /\ \A m \in s2c : m.kind = "empty" => m.num <= bridge.last

LegsApart == \A a, b \in InFlight : a.leg > b.leg => a.num > b.num

ViewBelow ==
    /\ view.num <= cursor /\ cursor <= bridge.last
    /\ view.leg <= legs
    /\ view.leg < legs => view.num <= bridge.offset
    /\ \A b \in Usable : b[1] <= view.num

NumberInv ==
    /\ LegNumbers /\ FlightBelow /\ LegsApart /\ ViewBelow
    /\ OneScreenPerNumber /\ NewLegLands

LEMMA FlightType ==
    ASSUME TypeOK
    PROVE  /\ \A m \in InFlight :
                /\ m \in WireFrames /\ m.num \in Nat /\ m.leg \in Nat
           /\ bridge.last \in Nat /\ bridge.offset \in Nat /\ producer.num \in Nat
           /\ cursor \in Nat /\ legs \in Nat /\ view.num \in Nat /\ view.leg \in Nat
           /\ \A b \in Usable : b[1] \in Nat
  <1>t. WireTypes /\ DaemonTypes /\ BridgeTypes /\ ViewTypes
    BY DEF TypeOK
  <1>1. ASSUME NEW m \in InFlight
        PROVE  m \in WireFrames /\ m.num \in Nat /\ m.leg \in Nat
    <2>1. m \in WireFrames \cup Switches \cup Empties /\ m.kind \in {"full", "diff"}
      BY <1>t DEF InFlight, WireTypes, BridgeTypes
    <2>2. m \in WireFrames
      BY <2>1 DEF Switches, Empties
    <2> QED
      BY <2>2 DEF WireFrames
  <1>2. \A b \in Usable : b[1] \in Nat
    <2> DEFINE Base == [num : Nat, screen : Screens]
               bases == view.bases
    <2>1. bases \in Seq(Base)
      BY <1>t DEF ViewTypes
    <2>2. ASSUME NEW b \in Usable PROVE b[1] \in Nat
      <3>1. PICK i \in DOMAIN view.bases : b = <<view.bases[i].num, view.bases[i].screen>>
        BY DEF Usable
      <3>2. bases[i] \in Base
        <4> HIDE DEF Base, bases
        <4> QED
          BY <2>1 DEF bases
      <3>3. view.bases[i].num \in Nat
        BY <3>2
      <3> QED
        BY <3>1, <3>3
    <2> QED
      BY <2>2
  <1>3. bridge.last \in Nat /\ bridge.offset \in Nat
    BY <1>t DEF BridgeTypes
  <1>4. producer.num \in Nat
    BY <1>t DEF DaemonTypes
  <1>5. cursor \in Nat /\ legs \in Nat /\ view.num \in Nat /\ view.leg \in Nat
    BY <1>t, BridgeBounds DEF WireTypes, ViewTypes
  <1> QED
    BY <1>1, <1>2, <1>3, <1>4, <1>5

LEMMA NumberInit == Init => NumberInv
  <1> SUFFICES ASSUME Init PROVE NumberInv
    OBVIOUS
  <1>1. InFlight = {} /\ Usable = {} /\ s2c = {}
    BY DEF Init, InFlight, Usable, Awaiting
  <1>2. LegNumbers
    BY DEF Init, LegNumbers, SocketOrdered, Awaiting, NewProducer
  <1>3. FlightBelow /\ LegsApart /\ NewLegLands
    BY <1>1 DEF FlightBelow, LegsApart, NewLegLands
  <1>4. ViewBelow
    BY <1>1 DEF Init, ViewBelow, Awaiting
  <1>5. OneScreenPerNumber
    BY <1>1 DEF OneScreenPerNumber, Named
  <1> QED
    BY <1>2, <1>3, <1>4, <1>5 DEF NumberInv

\* A step that puts nothing new in flight and leaves viewport and leg alone.
LEMMA NothingNew ==
    ASSUME NumberInv, InFlight' \subseteq InFlight,
           \A m \in s2c' : m.kind = "empty" => m.num <= bridge.last,
           UNCHANGED <<legs, cursor, view>>,
           bridge'.last = bridge.last, bridge'.offset = bridge.offset
    PROVE  /\ FlightBelow' /\ LegsApart' /\ ViewBelow'
           /\ OneScreenPerNumber' /\ NewLegLands'
  <1>1. FlightBelow /\ LegsApart /\ ViewBelow /\ OneScreenPerNumber /\ NewLegLands
    BY DEF NumberInv
  <1>2. Usable' = Usable
    BY DEF Usable
  <1>3. Named' \subseteq Named
    BY <1>2 DEF Named
  <1>4. FlightBelow'
    BY <1>1 DEF FlightBelow
  <1>5. LegsApart' /\ NewLegLands'
    BY <1>1 DEF LegsApart, NewLegLands
  <1>6. ViewBelow'
    BY <1>1, <1>2 DEF ViewBelow
  <1>7. OneScreenPerNumber'
    BY <1>1, <1>3 DEF OneScreenPerNumber
  <1> QED
    BY <1>4, <1>5, <1>6, <1>7

LEMMA NumbersDaemon ==
    ASSUME TypeOK, NumberInv, Daemon
    PROVE  NumberInv'
  <1>t. DaemonTypes /\ BridgeTypes
    BY DEF TypeOK
  <1>f. bridge.last \in Nat /\ bridge.offset \in Nat /\ producer.num \in Nat
    BY FlightType
  <1>l. LegNumbers /\ FlightBelow
    BY DEF NumberInv
  <1>q. toBridge \in Seq(DaemonFrames \cup Switches)
    BY <1>t DEF DaemonTypes
  <1>u. ASSUME UNCHANGED <<bridge, legs, mux_vars, net_vars, view>>, LegNumbers'
        PROVE  NumberInv'
    <2>1. UNCHANGED <<legs, cursor, view, s2c, bridge>>
      BY <1>u DEF mux_vars, net_vars
    <2>2. InFlight' = InFlight
      BY <2>1 DEF InFlight
    <2>3. \A m \in s2c' : m.kind = "empty" => m.num <= bridge.last
      BY <1>l, <2>1 DEF FlightBelow
    <2> QED
      BY <1>u, <2>1, <2>2, <2>3, NothingNew DEF NumberInv
  <1>1. CASE SendFrame
    <2>1. PICK m \in Encodings(producer.num + 1, Shown(bridge.session)) :
             toBridge' = Append(toBridge, m)
      BY <1>1 DEF SendFrame
    <2>2. producer'.num = producer.num + 1
      BY <1>1, <1>t DEF SendFrame, Advanced, DaemonTypes
    <2>3. m.num = producer.num + 1
      BY <2>1 DEF Encodings, Body
    <2>4. UNCHANGED <<bridge, legs, mux_vars, net_vars, view>> /\ bridge.linked
      BY <1>1 DEF SendFrame
    <2>5. SocketOrdered'
      <3> SUFFICES ASSUME NEW i \in DOMAIN toBridge', toBridge'[i].kind # "switch"
                   PROVE  /\ bridge.last < bridge.offset + toBridge'[i].num
                          /\ toBridge'[i].num <= producer.num + 1
                          /\ \A j \in DOMAIN toBridge' :
                                j < i /\ toBridge'[j].kind # "switch"
                                   => toBridge'[j].num < toBridge'[i].num
        BY <2>2, <2>4 DEF SocketOrdered
      <3>1. \A j \in DOMAIN toBridge : toBridge'[j] = toBridge[j]
        BY <1>q, <2>1
      <3>2. DOMAIN toBridge' = 1 .. Len(toBridge) + 1 /\ toBridge'[Len(toBridge) + 1] = m
            /\ DOMAIN toBridge = 1 .. Len(toBridge) /\ Len(toBridge) \in Nat
        BY <1>q, <2>1
      <3>3. \A j \in DOMAIN toBridge :
               toBridge[j].kind # "switch" => toBridge[j].num \in Nat
        BY <1>q DEF DaemonFrames, Switches
      <3>4. CASE i \in DOMAIN toBridge
        <4>1. \A j \in DOMAIN toBridge' : j < i => j \in DOMAIN toBridge
          BY <3>2, <3>4
        <4> QED
          BY <1>l, <1>f, <3>1, <3>3, <3>4, <4>1 DEF LegNumbers, SocketOrdered
      <3>5. CASE i = Len(toBridge) + 1
        <4>1. \A j \in DOMAIN toBridge' : j < i => j \in DOMAIN toBridge
          BY <3>2, <3>5
        <4>2. toBridge'[i].num = producer.num + 1
          BY <2>3, <3>2, <3>5
        <4>3. \A j \in DOMAIN toBridge :
                 toBridge[j].kind # "switch" => toBridge[j].num <= producer.num
          BY <1>l DEF LegNumbers, SocketOrdered
        <4>4. bridge.last <= bridge.offset + producer.num
          BY <1>l DEF LegNumbers
        <4>5. bridge.last < bridge.offset + (producer.num + 1)
          BY <4>4, <1>f
        <4>6. ASSUME NEW j \in DOMAIN toBridge', j < i, toBridge'[j].kind # "switch"
              PROVE  toBridge'[j].num < toBridge'[i].num
          BY <1>f, <3>1, <3>3, <4>1, <4>2, <4>3, <4>6
        <4> QED
          BY <1>f, <4>2, <4>5, <4>6
      <3> QED
        BY <3>2, <3>4, <3>5
    <2>6. LegNumbers'
      BY <1>l, <1>f, <2>2, <2>4, <2>5 DEF LegNumbers
    <2> QED
      BY <1>u, <2>4, <2>6
  <1>2. CASE HearAck
    <2> DEFINE p == Acked(producer, Head(toDaemon).num)
    <2>1. p.num = producer.num
      BY <1>t DEF Acked, DaemonTypes
    <2>2. p \in [num : 0 .. MaxFrame, acked : 0 .. MaxFrame, base : Dumps,
                 sent : SUBSET [num : 0 .. MaxFrame, screen : Screens],
                 dirty : BOOLEAN]
      <3>1. Head(toDaemon) \in Acks
        BY <1>2, <1>t DEF HearAck, DaemonTypes
      <3> QED
        BY <3>1, <1>t, AckedType DEF Acks
    <2>3. producer' = IF Head(toDaemon).resync THEN DropBase(p) ELSE p
      BY <1>2 DEF HearAck
    <2> HIDE DEF p
    <2>4. producer'.num = producer.num
      BY <2>1, <2>2, <2>3 DEF DropBase
    <2>5. UNCHANGED <<toBridge, bridge, legs, mux_vars, net_vars, view>>
      BY <1>2 DEF HearAck
    <2>6. LegNumbers'
      BY <1>l, <2>4, <2>5 DEF LegNumbers, SocketOrdered
    <2> QED
      BY <1>u, <2>5, <2>6
  <1>3. ASSUME NEW s \in Sessions, Output(s)
        PROVE  NumberInv'
    <2>1. producer'.num = producer.num
      BY <1>3, <1>t DEF Output, DaemonTypes
    <2>2. UNCHANGED <<toBridge, bridge, legs, mux_vars, net_vars, view>>
      BY <1>3 DEF Output, link_vars
    <2>3. LegNumbers'
      BY <1>l, <2>1, <2>2 DEF LegNumbers, SocketOrdered
    <2> QED
      BY <1>u, <2>2, <2>3
  <1>4. ASSUME NEW s \in Sessions, RouteSwitch(s)
        PROVE  NumberInv'
    <2>1. /\ toBridge' = Append(toBridge, SwitchTo(s)) /\ SwitchTo(s).kind = "switch"
          /\ bridge.linked
          /\ UNCHANGED <<producer, bridge, legs, mux_vars, net_vars, view>>
      BY <1>4 DEF RouteSwitch, SwitchTo
    <2>2. SocketOrdered'
      <3>1. \A j \in DOMAIN toBridge' :
               toBridge'[j].kind # "switch"
                 => j \in DOMAIN toBridge /\ toBridge'[j] = toBridge[j]
        BY <1>q, <2>1
      <3> QED
        BY <1>l, <2>1, <3>1 DEF LegNumbers, SocketOrdered
    <2>3. LegNumbers'
      BY <1>l, <2>1, <2>2 DEF LegNumbers
    <2> QED
      BY <1>u, <2>1, <2>3
  <1> QED
    BY <1>1, <1>2, <1>3, <1>4 DEF Daemon

LEMMA NumbersPeer ==
    ASSUME TypeOK, NumberInv, Peer
    PROVE  NumberInv'
  <1>t. DaemonTypes /\ BridgeTypes
    BY DEF TypeOK
  <1>f. /\ bridge.last \in Nat /\ bridge.offset \in Nat /\ producer.num \in Nat
        /\ legs \in Nat /\ cursor \in Nat /\ view.num \in Nat /\ view.leg \in Nat
    BY FlightType
  <1>l. LegNumbers /\ FlightBelow /\ LegsApart /\ ViewBelow
        /\ OneScreenPerNumber /\ NewLegLands
    BY DEF NumberInv
  <1>q. toBridge \in Seq(DaemonFrames \cup Switches)
    BY <1>t DEF DaemonTypes
  <1>1. CASE Forward
    <2> DEFINE h == Head(toBridge)
               m == Rewrap(h)
    <2>1. /\ h \in DaemonFrames /\ m \in WireFrames
          /\ m.num = bridge.offset + h.num /\ m.leg = legs
      BY <1>1, RewrapType DEF Forward
    <2>2. /\ bridge' = [bridge EXCEPT !.last = m.num, !.held = {m}]
          /\ s2c' = s2c \cup {m} /\ toBridge' = Tail(toBridge) /\ toBridge # <<>>
          /\ UNCHANGED <<producer, legs, cursor, view>>
      BY <1>1 DEF Forward, mux_vars
    <2>3. bridge'.last = m.num /\ bridge'.held = {m} /\ bridge'.offset = bridge.offset
          /\ bridge'.linked = bridge.linked
      BY <2>2, <1>t DEF BridgeTypes
    <2>4. /\ 1 \in DOMAIN toBridge /\ h = toBridge[1] /\ h.kind # "switch"
          /\ h.num \in Nat
      BY <2>1, <2>2, <1>q DEF DaemonFrames
    <2>5. m.kind \in {"full", "diff"} /\ m.num \in Nat
      BY <2>1 DEF WireFrames
    <2> HIDE DEF m, h
    <2>6. bridge.last < m.num /\ m.num <= bridge.offset + producer.num
          /\ m.num > bridge.offset
      <3>1. bridge.last < bridge.offset + h.num /\ h.num <= producer.num
        BY <1>l, <2>4 DEF LegNumbers, SocketOrdered
      <3>2. bridge.offset <= bridge.last
        BY <1>l DEF LegNumbers
      <3> QED
        BY <1>f, <2>1, <2>4, <3>1, <3>2
    <2>7. SocketOrdered'
      <3> SUFFICES ASSUME NEW i \in DOMAIN toBridge', toBridge'[i].kind # "switch"
                   PROVE  /\ m.num < bridge.offset + toBridge'[i].num
                          /\ toBridge'[i].num <= producer.num
                          /\ \A j \in DOMAIN toBridge' :
                                j < i /\ toBridge'[j].kind # "switch"
                                   => toBridge'[j].num < toBridge'[i].num
        BY <2>2, <2>3 DEF SocketOrdered
      <3>1. \A j \in DOMAIN toBridge' :
               /\ j \in Nat /\ 1 < j + 1 /\ j + 1 \in DOMAIN toBridge
               /\ toBridge'[j] = toBridge[j + 1]
        BY <1>q, <2>2
      <3>2. \A j \in DOMAIN toBridge :
               toBridge[j].kind # "switch" => toBridge[j].num \in Nat
        BY <1>q DEF DaemonFrames, Switches
      <3> DEFINE k == i + 1
      <3>3. k \in DOMAIN toBridge /\ toBridge[k].kind # "switch" /\ 1 < k
            /\ toBridge'[i] = toBridge[k]
        BY <3>1
      <3>4. h.num < toBridge[k].num /\ toBridge[k].num <= producer.num
        BY <1>l, <2>4, <3>3 DEF LegNumbers, SocketOrdered
      <3>5. m.num < bridge.offset + toBridge[k].num
        BY <1>f, <2>1, <2>4, <3>2, <3>3, <3>4
      <3>6. ASSUME NEW j \in DOMAIN toBridge', j < i, toBridge'[j].kind # "switch"
            PROVE  toBridge'[j].num < toBridge'[i].num
        <4>1. j + 1 < k /\ j + 1 \in DOMAIN toBridge /\ toBridge'[j] = toBridge[j + 1]
          BY <3>1, <3>6
        <4> QED
          BY <1>l, <3>3, <3>6, <4>1 DEF LegNumbers, SocketOrdered
      <3> QED
        BY <3>3, <3>4, <3>5, <3>6
    <2>8. LegNumbers'
      BY <1>l, <1>f, <2>2, <2>3, <2>4, <2>5, <2>6, <2>7 DEF LegNumbers
    <2>9. /\ InFlight' \subseteq InFlight \cup {m}
          /\ \A e \in s2c' : e.kind = "empty" => e \in s2c
      BY <2>2, <2>3, <2>5 DEF InFlight
    <2>10. \A e \in InFlight : e.num \in Nat /\ e.leg \in Nat /\ e.num <= bridge.last
      BY <1>l, FlightType DEF FlightBelow
    <2>11. FlightBelow'
      <3>1. \A e \in InFlight' :
               /\ e.num <= bridge'.last /\ e.leg <= legs'
               /\ e.leg = legs' => e.num > bridge'.offset
               /\ e.leg < legs' => e.num <= bridge'.offset
        BY <1>l, <1>f, <2>1, <2>2, <2>3, <2>5, <2>6, <2>9, <2>10 DEF FlightBelow
      <3>2. \A e \in s2c' : e.kind = "empty" => e.num <= bridge'.last
        <4> SUFFICES ASSUME NEW e \in s2c', e.kind = "empty" PROVE e.num <= bridge'.last
          OBVIOUS
        <4>1. e \in s2c /\ e.num <= bridge.last
          BY <1>l, <2>9 DEF FlightBelow
        <4>2. e.num \in Nat
          <5>1. e \in WireFrames \cup Switches \cup Empties
            BY <4>1 DEF TypeOK, WireTypes
          <5> QED
            BY <5>1 DEF WireFrames, Switches, Empties
        <4> QED
          BY <1>f, <2>3, <2>5, <2>6, <4>1, <4>2
      <3> QED
        BY <3>1, <3>2 DEF FlightBelow
    <2>12. LegsApart'
      <3> SUFFICES ASSUME NEW a \in InFlight', NEW b \in InFlight', a.leg > b.leg
                   PROVE  a.num > b.num
        BY DEF LegsApart
      <3>1. a.leg <= legs /\ b.leg <= legs
        BY <2>2, <2>11 DEF FlightBelow
      <3>2. CASE a \in InFlight /\ b \in InFlight
        BY <1>l, <3>2 DEF LegsApart
      <3>3. CASE a = m
        BY <1>f, <2>1, <2>5, <2>6, <2>9, <2>10, <3>3
      <3>4. CASE b = m /\ a \in InFlight
        BY <1>f, <2>1, <2>10, <3>1, <3>4
      <3> QED
        BY <2>9, <3>2, <3>3, <3>4
    <2>13. Usable' = Usable /\ \A b \in Usable : b[1] \in Nat /\ b[1] <= view.num
      BY <1>l, <2>2, FlightType DEF Usable, ViewBelow
    <2>14. view.num <= bridge.last /\ view.num < m.num
      BY <1>l, <1>f, <2>5, <2>6 DEF ViewBelow
    <2>15. ViewBelow'
      BY <1>l, <1>f, <2>2, <2>3, <2>5, <2>6, <2>13 DEF ViewBelow
    <2>16. OneScreenPerNumber'
      <3>1. Named' \subseteq Named \cup {<<m.num, m.to>>}
        BY <2>2, <2>9, <2>13 DEF Named
      <3>2. ASSUME NEW n \in Named PROVE n[1] # m.num
        <4>1. CASE n \in {<<e.num, e.to>> : e \in InFlight}
          <5>1. PICK e \in InFlight : n = <<e.num, e.to>>
            BY <4>1
          <5> QED
            BY <1>f, <2>5, <2>6, <2>10, <5>1
        <4>2. CASE n \in Usable
          BY <1>f, <2>5, <2>13, <2>14, <4>2
        <4>3. CASE n = <<view.num, view.screen>>
          BY <1>f, <2>5, <2>14, <4>3
        <4> QED
          BY <4>1, <4>2, <4>3 DEF Named
      <3> QED
        BY <1>l, <3>1, <3>2 DEF OneScreenPerNumber
    <2>17. NewLegLands'
      <3> SUFFICES ASSUME NEW e \in InFlight', e.leg > view.leg
                   PROVE  e.num > view.num
        BY <2>2 DEF NewLegLands
      <3>1. CASE e \in InFlight
        BY <1>l, <3>1 DEF NewLegLands
      <3>2. CASE e = m
        BY <1>f, <2>5, <2>14, <3>2
      <3> QED
        BY <2>9, <3>1, <3>2
    <2> QED
      BY <2>8, <2>11, <2>12, <2>15, <2>16, <2>17 DEF NumberInv
  <1>2. CASE Rehome
    <2> DEFINE s == Head(toBridge).session
    <2>1. /\ bridge' = Link(bridge, s, bridge.last)
          /\ s2c' = s2c \cup {SwitchTo(s)} /\ producer' = NewProducer /\ toBridge' = <<>>
          /\ legs' = legs + 1 /\ UNCHANGED <<cursor, view>>
      BY <1>2 DEF Rehome, RehomeCeiling, mux_vars
    <2>2. s \in Sessions
      <3>1. Head(toBridge) \in DaemonFrames \cup Switches
        BY <1>2, <1>q DEF Rehome
      <3> QED
        BY <3>1, <1>2 DEF Rehome, DaemonFrames, Switches
    <2> HIDE DEF s
    <2>3. /\ bridge'.offset = bridge.last /\ bridge'.last = bridge.last
          /\ bridge'.held = {} /\ bridge'.linked
      BY <2>1, <2>2, <1>t, <1>f, LinkType
    <2>4. LegNumbers'
      BY <1>f, <2>1, <2>3 DEF LegNumbers, SocketOrdered, NewProducer
    <2>5. /\ InFlight' \subseteq InFlight
          /\ \A e \in s2c' : e.kind = "empty" => e \in s2c
      BY <2>1, <2>3 DEF InFlight, SwitchTo
    <2>6. \A e \in InFlight : e.num \in Nat /\ e.leg \in Nat
      BY FlightType
    <2>7. FlightBelow'
      BY <1>l, <1>f, <2>1, <2>3, <2>5, <2>6 DEF FlightBelow
    <2>8. Usable' = Usable
      BY <2>1 DEF Usable
    <2>9. ViewBelow'
      BY <1>l, <1>f, <2>1, <2>3, <2>8 DEF ViewBelow
    <2>10. Named' \subseteq Named
      BY <2>1, <2>5, <2>8 DEF Named
    <2>11. OneScreenPerNumber' /\ LegsApart' /\ NewLegLands'
      BY <1>l, <2>1, <2>5, <2>10 DEF OneScreenPerNumber, LegsApart, NewLegLands
    <2> QED
      BY <2>4, <2>7, <2>9, <2>11 DEF NumberInv
  <1>3. CASE Retransmit
    <2>1. /\ s2c' = s2c \cup bridge.held
          /\ UNCHANGED <<producer, toBridge, bridge, legs, cursor, view>>
      BY <1>3 DEF Retransmit, link_vars, mux_vars
    <2>2. InFlight' \subseteq InFlight
      BY <2>1 DEF InFlight
    <2>3. \A e \in bridge.held : e.kind # "empty"
      BY <1>t DEF BridgeTypes, WireFrames
    <2>4. \A e \in s2c' : e.kind = "empty" => e.num <= bridge.last
      BY <1>l, <2>1, <2>3 DEF FlightBelow
    <2>5. LegNumbers'
      BY <1>l, <2>1 DEF LegNumbers, SocketOrdered
    <2> QED
      BY <2>1, <2>2, <2>4, <2>5, NothingNew DEF NumberInv
  <1>4. CASE Heartbeat
    <2>1. /\ s2c' = s2c \cup {EmptyAt(bridge.last)}
          /\ UNCHANGED <<producer, toBridge, bridge, legs, cursor, view>>
      BY <1>4 DEF Heartbeat, link_vars, mux_vars
    <2>2. InFlight' \subseteq InFlight
      BY <2>1 DEF InFlight, EmptyAt
    <2>3. \A e \in s2c' : e.kind = "empty" => e.num <= bridge.last
      BY <1>l, <1>f, <2>1 DEF FlightBelow, EmptyAt
    <2>4. LegNumbers'
      BY <1>l, <2>1 DEF LegNumbers, SocketOrdered
    <2> QED
      BY <2>1, <2>2, <2>3, <2>4, NothingNew DEF NumberInv
  <1>5. ASSUME NEW m \in c2s, PeerReceives(m)
        PROVE  NumberInv'
    <2>1. m \in [ack : Nat, resync : BOOLEAN]
      BY DEF TypeOK, WireTypes
    <2>2. ForwardAck(Found, m)
      BY <1>5 DEF PeerReceives, Found
    <2>3. UNCHANGED <<producer, toBridge, legs, cursor, view, s2c>>
      BY <1>5 DEF PeerReceives, mux_vars
    <2>4. /\ bridge'.held \subseteq Found.held /\ bridge'.linked = Found.linked
          /\ bridge'.last = Found.last /\ bridge'.offset = Found.offset
      BY <2>1, <2>2, <1>t, FoundType, ForwardAckType
    <2>5. /\ bridge'.held \subseteq bridge.held /\ bridge'.linked
          /\ bridge'.last = bridge.last
          /\ bridge'.offset = IF bridge.linked THEN bridge.offset ELSE bridge.last
      BY <2>4, <1>t, FoundType
    <2>6. bridge'.offset = bridge.offset
      BY <2>5, <1>l, <1>f DEF LegNumbers
    <2>7. InFlight' \subseteq InFlight
      BY <2>3, <2>5 DEF InFlight
    <2>8. \A e \in s2c' : e.kind = "empty" => e.num <= bridge.last
      BY <1>l, <2>3 DEF FlightBelow
    <2>9. LegNumbers'
      BY <1>l, <2>3, <2>5, <2>6 DEF LegNumbers, SocketOrdered
    <2> QED
      BY <2>3, <2>5, <2>6, <2>7, <2>8, <2>9, NothingNew DEF NumberInv
  <1> QED
    BY <1>1, <1>2, <1>3, <1>4, <1>5 DEF Peer

\* What the viewport makes of a frame: nothing, a resync request, or the frame
\* itself, and that only if it is newer.
LEMMA AppliedCases ==
    ASSUME ViewTypes, NEW m \in WireFrames
    PROVE  \/ /\ AppliedFrame(m).num = view.num /\ AppliedFrame(m).screen = view.screen
              /\ AppliedFrame(m).leg = view.leg /\ AppliedFrame(m).bases = view.bases
           \/ m.num > view.num /\ AppliedFrame(m) = Install(m)
  <1>1. m.num \in Nat /\ view.num \in Nat
    BY DEF WireFrames, ViewTypes
  <1> DEFINE asks == [view EXCEPT !.resync = @ \/ m.base < view.num \/ BaseFor(m) # NoBase]
  <1>2. /\ asks.num = view.num /\ asks.screen = view.screen
        /\ asks.leg = view.leg /\ asks.bases = view.bases
    BY DEF ViewTypes
  <1> HIDE DEF asks
  <1>3. \/ AppliedFrame(m) \in {view, asks}
        \/ m.num >= view.num /\ m.num # view.num /\ AppliedFrame(m) = Install(m)
    BY <1>1 DEF AppliedFrame, asks
  <1>4. CASE AppliedFrame(m) = asks
    BY <1>2, <1>4
  <1>5. CASE AppliedFrame(m) = view
    BY <1>5
  <1> QED
    BY <1>1, <1>3, <1>4, <1>5

LEMMA InstallFields ==
    ASSUME ViewTypes, NEW m \in WireFrames
    PROVE  /\ Install(m).num = m.num /\ Install(m).screen = m.to
           /\ Install(m).leg = m.leg
           /\ \A i \in DOMAIN Install(m).bases :
                 \/ Install(m).bases[i] = [num |-> m.num, screen |-> m.to]
                 \/ \E j \in DOMAIN view.bases : Install(m).bases[i] = view.bases[j]
  <1> DEFINE Base == [num : Nat, screen : Screens]
             bases == view.bases
             new == [num |-> m.num, screen |-> m.to]
             All == Append(bases, new)
  <1>1. /\ Install(m).num = m.num /\ Install(m).screen = m.to
        /\ Install(m).leg = m.leg /\ Install(m).bases = Remembered(m)
    BY DEF Install, ViewTypes
  <1>2. bases \in Seq(Base) /\ new \in Base
    BY DEF ViewTypes, WireFrames
  <1>3. Remembered(m) \in {All, Tail(All)}
    BY DEF Remembered
  <1> HIDE DEF Base, bases, new
  <1>4. /\ All \in Seq(Base) /\ All # <<>>
        /\ \A i \in DOMAIN All : All[i] = new \/ (i \in DOMAIN bases /\ All[i] = bases[i])
    BY <1>2
  <1> HIDE DEF All
  <1>5. \A i \in DOMAIN Tail(All) : i + 1 \in DOMAIN All /\ Tail(All)[i] = All[i + 1]
    BY <1>4
  <1>6. \A i \in DOMAIN Remembered(m) :
           Remembered(m)[i] = new \/ \E j \in DOMAIN bases : Remembered(m)[i] = bases[j]
    BY <1>3, <1>4, <1>5
  <1> QED
    BY <1>1, <1>6 DEF new, bases

LEMMA NumbersReceive ==
    ASSUME TypeOK, NumberInv, NEW m \in s2c, Receive(m)
    PROVE  NumberInv'
  <1>t. ViewTypes
    BY DEF TypeOK
  <1>f. /\ bridge.last \in Nat /\ bridge.offset \in Nat /\ legs \in Nat
        /\ cursor \in Nat /\ view.num \in Nat /\ view.leg \in Nat
        /\ \A e \in InFlight : e \in WireFrames /\ e.num \in Nat /\ e.leg \in Nat
        /\ \A b \in Usable : b[1] \in Nat
    BY FlightType
  <1>l. LegNumbers /\ FlightBelow /\ LegsApart /\ ViewBelow
        /\ OneScreenPerNumber /\ NewLegLands
    BY DEF NumberInv
  <1>1. /\ s2c' = s2c \ {m} /\ UNCHANGED <<producer, toBridge, bridge, legs>>
    BY DEF Receive, link_vars
  <1>2. LegNumbers'
    BY <1>l, <1>1 DEF LegNumbers, SocketOrdered
  <1>3. InFlight' \subseteq InFlight
    BY <1>1 DEF InFlight
  <1>4. FlightBelow' /\ LegsApart'
    BY <1>l, <1>1, <1>3 DEF FlightBelow, LegsApart
  <1>k. m \in WireFrames \cup Switches \cup Empties
    BY DEF TypeOK, WireTypes
  <1>5. CASE m.kind = "switch"
    <2>1. UNCHANGED <<cursor, view>>
      BY <1>5 DEF Receive
    <2>2. \A e \in s2c' : e.kind = "empty" => e.num <= bridge.last
      BY <1>l, <1>1 DEF FlightBelow
    <2> QED
      BY <1>1, <1>2, <1>3, <2>1, <2>2, NothingNew DEF NumberInv
  <1>6. CASE m.kind # "switch"
    <2>1. cursor' = Larger(cursor, m.num)
      BY <1>6 DEF Receive, Advance
    <2>2. m.num \in Nat
      BY <1>k, <1>6 DEF WireFrames, Switches, Empties
    <2>3. m.num <= bridge.last
      <3>1. CASE m.kind = "empty"
        BY <1>l, <3>1 DEF FlightBelow
      <3>2. CASE m.kind # "empty"
        <4>1. m \in InFlight
          BY <1>k, <1>6, <3>2 DEF InFlight, WireFrames, Switches, Empties
        <4> QED
          BY <1>l, <4>1 DEF FlightBelow
      <3> QED
        BY <3>1, <3>2
    <2>4. /\ cursor' \in Nat /\ cursor <= cursor' /\ m.num <= cursor'
          /\ cursor' <= bridge.last
      BY <1>l, <1>f, <2>1, <2>2, <2>3 DEF Larger, ViewBelow
    <2>5. CASE /\ view'.num = view.num /\ view'.screen = view.screen
               /\ view'.leg = view.leg /\ view'.bases = view.bases
      <3>1. Usable' = Usable
        BY <2>5 DEF Usable
      <3>2. Named' \subseteq Named
        BY <1>3, <2>5, <3>1 DEF Named
      <3>3. OneScreenPerNumber'
        BY <1>l, <3>2 DEF OneScreenPerNumber
      <3>4. NewLegLands'
        BY <1>l, <1>3, <2>5 DEF NewLegLands
      <3>5. ViewBelow'
        BY <1>l, <1>f, <1>1, <2>4, <2>5, <3>1 DEF ViewBelow
      <3> QED
        BY <1>2, <1>4, <3>3, <3>4, <3>5 DEF NumberInv
    <2>6. CASE m.kind # "empty" /\ m.num > view.num /\ view' = Install(m)
      <3>1. m \in InFlight
        BY <1>k, <1>6, <2>6 DEF InFlight, WireFrames, Switches, Empties
      <3>2. m \in WireFrames /\ m.leg \in Nat
        BY <1>f, <3>1
      <3>3. /\ view'.num = m.num /\ view'.screen = m.to /\ view'.leg = m.leg
            /\ \A i \in DOMAIN view'.bases :
                  \/ view'.bases[i] = [num |-> m.num, screen |-> m.to]
                  \/ \E j \in DOMAIN view.bases : view'.bases[i] = view.bases[j]
        BY <1>t, <2>6, <3>2, InstallFields
      <3>4. Usable' \subseteq Usable \cup {<<m.num, m.to>>}
        <4> SUFFICES ASSUME NEW b \in Usable' PROVE b \in Usable \cup {<<m.num, m.to>>}
          OBVIOUS
        <4>1. PICK i \in DOMAIN view'.bases :
                 b = <<view'.bases[i].num, view'.bases[i].screen>>
          BY DEF Usable
        <4>2. CASE view'.bases[i] = [num |-> m.num, screen |-> m.to]
          BY <4>1, <4>2
        <4>3. CASE \E j \in DOMAIN view.bases : view'.bases[i] = view.bases[j]
          BY <4>1, <4>3 DEF Usable
        <4> QED
          BY <3>3, <4>2, <4>3
      <3>5. <<m.num, m.to>> \in Named
        BY <3>1 DEF Named
      <3>6. Named' \subseteq Named
        BY <1>3, <3>3, <3>4, <3>5 DEF Named
      <3>7. OneScreenPerNumber'
        BY <1>l, <3>6 DEF OneScreenPerNumber
      <3>8. NewLegLands'
        BY <1>l, <1>3, <3>1, <3>3 DEF NewLegLands, LegsApart
      <3>9. m.leg <= legs /\ (m.leg < legs => m.num <= bridge.offset)
        BY <1>l, <3>1 DEF FlightBelow
      <3>10. \A b \in Usable' : b[1] <= m.num
        BY <1>l, <1>f, <2>2, <2>6, <3>4 DEF ViewBelow
      <3>11. ViewBelow'
        BY <1>1, <2>4, <3>3, <3>9, <3>10 DEF ViewBelow
      <3> QED
        BY <1>2, <1>4, <3>7, <3>8, <3>11 DEF NumberInv
    <2>7. CASE m.kind = "empty"
      <3>1. view' = view
        BY <1>6, <2>7 DEF Receive
      <3> QED
        BY <3>1, <2>5
    <2>8. CASE m.kind # "empty"
      <3>1. view' = AppliedFrame(m)
        BY <1>6, <2>8 DEF Receive
      <3>2. m \in WireFrames
        BY <1>k, <1>6, <2>8 DEF Switches, Empties
      <3> QED
        BY <1>t, <2>5, <2>6, <2>8, <3>1, <3>2, AppliedCases
    <2> QED
      BY <2>7, <2>8
  <1> QED
    BY <1>5, <1>6

LEMMA NumbersViewport ==
    ASSUME TypeOK, NumberInv, Viewport \/ Lose
    PROVE  NumberInv'
  <1>f. /\ bridge.last \in Nat /\ bridge.offset \in Nat /\ legs \in Nat
        /\ cursor \in Nat /\ view.num \in Nat /\ view.leg \in Nat
    BY FlightType
  <1>l. LegNumbers /\ FlightBelow /\ LegsApart /\ ViewBelow
        /\ OneScreenPerNumber /\ NewLegLands
    BY DEF NumberInv
  <1>1. ASSUME NEW m \in s2c, Receive(m) PROVE NumberInv'
    BY <1>1, NumbersReceive
  <1>2. CASE SendMessage
    <2>1. /\ view'.num = view.num /\ view'.screen = view.screen
          /\ view'.leg = view.leg /\ view'.bases = view.bases
          /\ UNCHANGED <<producer, toBridge, bridge, legs, cursor, s2c>>
      BY <1>2 DEF SendMessage, TypeOK, ViewTypes, link_vars, mux_vars
    <2>2. InFlight' = InFlight /\ Usable' = Usable
      BY <2>1 DEF InFlight, Usable
    <2>3. Named' = Named
      BY <2>1, <2>2 DEF Named
    <2>4. LegNumbers' /\ FlightBelow'
      BY <1>l, <2>1, <2>2 DEF LegNumbers, SocketOrdered, FlightBelow
    <2>5. LegsApart' /\ NewLegLands' /\ OneScreenPerNumber'
      BY <1>l, <2>1, <2>2, <2>3 DEF LegsApart, NewLegLands, OneScreenPerNumber
    <2>6. ViewBelow'
      BY <1>l, <2>1, <2>2 DEF ViewBelow
    <2> QED
      BY <2>4, <2>5, <2>6 DEF NumberInv
  <1>3. CASE Reconnect
    <2>1. /\ bridge' = Awaiting(target, cursor) /\ producer' = NewProducer
          /\ toBridge' = <<>> /\ s2c' = {} /\ legs' = legs + 1
          /\ UNCHANGED <<cursor, view>>
      BY <1>3 DEF Reconnect
    <2>2. /\ bridge'.offset = cursor /\ bridge'.last = cursor /\ bridge'.held = {}
          /\ producer'.num = 0
      BY <2>1 DEF Awaiting, NewProducer
    <2>3. InFlight' = {} /\ Usable' = Usable
      BY <2>1, <2>2 DEF InFlight, Usable
    <2>4. LegNumbers'
      BY <1>f, <2>1, <2>2 DEF LegNumbers, SocketOrdered
    <2>5. FlightBelow' /\ LegsApart' /\ NewLegLands'
      BY <2>1, <2>3 DEF FlightBelow, LegsApart, NewLegLands
    <2>6. ViewBelow'
      BY <1>l, <1>f, <2>1, <2>2, <2>3 DEF ViewBelow
    <2>7. Named' \subseteq Named
      BY <2>1, <2>3 DEF Named
    <2>8. OneScreenPerNumber'
      BY <1>l, <2>7 DEF OneScreenPerNumber
    <2> QED
      BY <2>4, <2>5, <2>6, <2>8 DEF NumberInv
  <1>4. CASE Lose
    <2>1. /\ s2c' \subseteq s2c
          /\ UNCHANGED <<producer, toBridge, bridge, legs, cursor, view>>
      BY <1>4 DEF Lose, link_vars, mux_vars
    <2>2. InFlight' \subseteq InFlight
      BY <2>1 DEF InFlight
    <2>3. \A e \in s2c' : e.kind = "empty" => e.num <= bridge.last
      BY <1>l, <2>1 DEF FlightBelow
    <2>4. LegNumbers'
      BY <1>l, <2>1 DEF LegNumbers, SocketOrdered
    <2> QED
      BY <2>1, <2>2, <2>3, <2>4, NothingNew DEF NumberInv
  <1> QED
    BY <1>1, <1>2, <1>3, <1>4 DEF Viewport

LEMMA NumberStep == TypeOK /\ NumberInv /\ [Next]_vars => NumberInv'
  <1> SUFFICES ASSUME TypeOK, NumberInv, [Next]_vars PROVE NumberInv'
    OBVIOUS
  <1>1. CASE UNCHANGED vars
    <2>1. UNCHANGED <<producer, toBridge, bridge, legs, cursor, view, s2c>>
      BY <1>1 DEF vars, link_vars, mux_vars, net_vars
    <2>2. InFlight' = InFlight
      BY <2>1 DEF InFlight
    <2>3. \A e \in s2c' : e.kind = "empty" => e.num <= bridge.last
      BY <2>1 DEF NumberInv, FlightBelow
    <2>4. LegNumbers'
      BY <2>1 DEF NumberInv, LegNumbers, SocketOrdered
    <2> QED
      BY <2>1, <2>2, <2>3, <2>4, NothingNew DEF NumberInv
  <1>2. CASE Next
    BY <1>2, NumbersDaemon, NumbersPeer, NumbersViewport DEF Next
  <1> QED
    BY <1>1, <1>2

LEMMA NumbersCorrect == Spec => []NumberInv
  <1>1. Init => TypeOK /\ NumberInv
    BY TypeInit, NumberInit
  <1>2. TypeOK /\ NumberInv /\ [Next]_vars => TypeOK' /\ NumberInv'
    BY TypeStep, NumberStep
  <1> QED
    BY <1>1, <1>2, PTL DEF Spec

\* A frame number names one screen for ever (OneScreenPerNumber): frame_offset
\* starts every leg above whatever an earlier one sent or the cursor heard of.
THEOREM NumbersUnique == Spec => []OneScreenPerNumber
  <1>1. NumberInv => OneScreenPerNumber
    BY DEF NumberInv
  <1> QED
    BY <1>1, NumbersCorrect, PTL

\* No frame of a new leg is stale to a viewport that has seen only earlier ones
\* (NewLegLands), so a re-home or a reconnect never freezes the viewport.
THEOREM NewLegsLand == Spec => []NewLegLands
  <1>1. NumberInv => NewLegLands
    BY DEF NumberInv
  <1> QED
    BY <1>1, NumbersCorrect, PTL

-----------------------------------------------------------------------------
(* The viewport mirrors the session. *)

Gen(screen) == screen[2]

\* What the daemon socket, the wire and the viewport have of the leg in use are
\* screens its session had, oldest at the viewport.
LegScreens ==
    /\ view.leg = legs => Gen(view.screen) <= gen[bridge.session]
    /\ \A m \in InFlight : m.leg = legs => Gen(m.to) <= gen[bridge.session]

SocketScreens ==
    \A i \in DOMAIN toBridge : toBridge[i].kind # "switch" =>
        /\ Gen(toBridge[i].to) <= gen[bridge.session]
        /\ view.leg = legs => Gen(view.screen) <= Gen(toBridge[i].to)
        /\ \A m \in InFlight : m.leg = legs => Gen(m.to) <= Gen(toBridge[i].to)
        /\ \A j \in DOMAIN toBridge :
              j < i /\ toBridge[j].kind # "switch"
                 => Gen(toBridge[j].to) <= Gen(toBridge[i].to)

\* A higher number is a newer screen.
NewerScreens ==
    \A a \in InFlight :
        /\ a.num > view.num =>
              a.leg >= view.leg /\ (a.leg = view.leg => Gen(a.to) >= Gen(view.screen))
        /\ \A b \in InFlight :
              a.num > b.num /\ a.leg = b.leg => Gen(a.to) >= Gen(b.to)

MirrorInv == LegScreens /\ SocketScreens /\ NewerScreens

LEMMA GenType == \A s \in Screens : Gen(s) \in Nat
  BY BridgeBounds DEF Gen, Screens, Blank

LEMMA ScreenGens ==
    ASSUME TypeOK
    PROVE  /\ Gen(view.screen) \in Nat
           /\ \A m \in InFlight : Gen(m.to) \in Nat
           /\ \A i \in DOMAIN toBridge :
                 toBridge[i].kind # "switch" => Gen(toBridge[i].to) \in Nat
           /\ \A s \in Sessions : gen[s] \in Nat
           /\ bridge.session \in Sessions
  <1>1. view.screen \in Screens
    BY DEF TypeOK, ViewTypes
  <1>2. \A m \in InFlight : m.to \in Screens
    BY FlightType DEF WireFrames
  <1>3. toBridge \in Seq(DaemonFrames \cup Switches)
    BY DEF TypeOK, DaemonTypes
  <1>4. \A i \in DOMAIN toBridge :
           toBridge[i].kind # "switch" => toBridge[i].to \in Screens
    BY <1>3 DEF DaemonFrames, Switches
  <1>5. \A s \in Sessions : gen[s] \in Nat
    BY BridgeBounds DEF TypeOK, WireTypes
  <1>6. bridge.session \in Sessions
    BY DEF TypeOK, BridgeTypes
  <1> QED
    BY <1>1, <1>2, <1>4, <1>5, <1>6, GenType

LEMMA MirrorInit == Init => MirrorInv /\ Mirror!Init
  <1> SUFFICES ASSUME Init PROVE MirrorInv /\ Mirror!Init
    OBVIOUS
  <1>1. InFlight = {} /\ toBridge = <<>>
    BY DEF Init, InFlight, Awaiting
  <1>2. /\ legs = 0 /\ view.leg = 0 /\ view.screen = <<0, 0>> /\ gen[bridge.session] = 1
    BY BridgeBounds DEF Init, Awaiting, Blank, Sessions
  <1>3. LegScreens
    BY <1>1, <1>2 DEF LegScreens, Gen
  <1>4. SocketScreens /\ NewerScreens
    BY <1>1 DEF SocketScreens, NewerScreens
  <1>5. Mirror!Init
    BY <1>2 DEF Mirror!Init
  <1> QED
    BY <1>3, <1>4, <1>5 DEF MirrorInv

\* A step on the same leg that shows nothing and sends nothing new.
LEMMA MirrorKept ==
    ASSUME TypeOK, MirrorInv, InFlight' \subseteq InFlight,
           legs' = legs, bridge'.session = bridge.session,
           gen[bridge.session] <= gen'[bridge.session],
           gen'[bridge.session] \in Nat,
           view'.num = view.num, view'.screen = view.screen, view'.leg = view.leg,
           \A i \in DOMAIN toBridge' : toBridge'[i].kind # "switch" =>
               i \in DOMAIN toBridge /\ toBridge'[i] = toBridge[i]
    PROVE  MirrorInv'
  <1> DEFINE g == gen[bridge.session]
             h == gen'[bridge.session]
  <1>1. /\ g \in Nat /\ h \in Nat /\ g <= h /\ Gen(view.screen) \in Nat
        /\ \A m \in InFlight : Gen(m.to) \in Nat
        /\ \A i \in DOMAIN toBridge :
              toBridge[i].kind # "switch" => Gen(toBridge[i].to) \in Nat
    BY ScreenGens
  <1>2. gen'[bridge'.session] = h
    OBVIOUS
  <1> HIDE DEF g, h
  <1>3. LegScreens /\ SocketScreens /\ NewerScreens
    BY DEF MirrorInv
  <1>4. /\ view.leg = legs => Gen(view.screen) <= g
        /\ \A m \in InFlight : m.leg = legs => Gen(m.to) <= g
    BY <1>3 DEF LegScreens, g
  <1>5. LegScreens'
    <2>1. view.leg = legs => Gen(view.screen) <= h
      BY <1>1, <1>4
    <2>2. \A m \in InFlight' : m.leg = legs => Gen(m.to) <= h
      BY <1>1, <1>4
    <2> QED
      BY <1>2, <2>1, <2>2 DEF LegScreens, Gen
  <1>6. SocketScreens'
    <2> SUFFICES ASSUME NEW i \in DOMAIN toBridge', toBridge'[i].kind # "switch"
                 PROVE  /\ Gen(toBridge'[i].to) <= h
                        /\ view.leg = legs => Gen(view.screen) <= Gen(toBridge'[i].to)
                        /\ \A m \in InFlight' :
                              m.leg = legs => Gen(m.to) <= Gen(toBridge'[i].to)
                        /\ \A j \in DOMAIN toBridge' :
                              j < i /\ toBridge'[j].kind # "switch"
                                 => Gen(toBridge'[j].to) <= Gen(toBridge'[i].to)
      BY <1>2 DEF SocketScreens, Gen
    <2>1. i \in DOMAIN toBridge /\ toBridge'[i] = toBridge[i]
      OBVIOUS
    <2>2. Gen(toBridge[i].to) <= g
      BY <1>3, <2>1 DEF SocketScreens, g
    <2> QED
      BY <1>1, <1>3, <2>1, <2>2 DEF SocketScreens
  <1>7. NewerScreens'
    BY <1>3 DEF NewerScreens, Gen
  <1> QED
    BY <1>5, <1>6, <1>7 DEF MirrorInv

LEMMA MirrorSendFrame ==
    ASSUME TypeOK, MirrorInv, SendFrame
    PROVE  MirrorInv'
  <1>1. PICK m \in Encodings(producer.num + 1, Shown(bridge.session)) :
           toBridge' = Append(toBridge, m)
    BY DEF SendFrame
  <1>2. m.to = Shown(bridge.session)
    BY <1>1 DEF Encodings, Body
  <1>3. Gen(m.to) = gen[bridge.session]
    BY <1>2 DEF Shown, Gen
  <1>4. UNCHANGED <<gen, bridge, legs, view, s2c>>
    BY DEF SendFrame, net_vars
  <1>5. InFlight' = InFlight
    BY <1>4 DEF InFlight
  <1>6. toBridge \in Seq(DaemonFrames \cup Switches)
    BY DEF TypeOK, DaemonTypes
  <1>7. /\ \A j \in DOMAIN toBridge : toBridge'[j] = toBridge[j]
        /\ DOMAIN toBridge' = 1 .. Len(toBridge) + 1
        /\ toBridge'[Len(toBridge) + 1] = m
        /\ DOMAIN toBridge = 1 .. Len(toBridge) /\ Len(toBridge) \in Nat
    BY <1>1, <1>6
  <1>8. LegScreens /\ SocketScreens /\ NewerScreens
    BY DEF MirrorInv
  <1>9. LegScreens' /\ NewerScreens'
    BY <1>4, <1>5, <1>8 DEF LegScreens, NewerScreens, Gen
  <1>10. gen[bridge.session] \in Nat
    BY ScreenGens
  <1>11. SocketScreens'
    <2> SUFFICES ASSUME NEW i \in DOMAIN toBridge', toBridge'[i].kind # "switch"
                 PROVE  /\ Gen(toBridge'[i].to) <= gen[bridge.session]
                        /\ view.leg = legs => Gen(view.screen) <= Gen(toBridge'[i].to)
                        /\ \A e \in InFlight :
                              e.leg = legs => Gen(e.to) <= Gen(toBridge'[i].to)
                        /\ \A j \in DOMAIN toBridge' :
                              j < i /\ toBridge'[j].kind # "switch"
                                 => Gen(toBridge'[j].to) <= Gen(toBridge'[i].to)
      BY <1>4, <1>5 DEF SocketScreens, Gen
    <2>1. \A j \in DOMAIN toBridge' : j < i => j \in DOMAIN toBridge
      BY <1>7
    <2>2. CASE i \in DOMAIN toBridge
      BY <1>7, <1>8, <2>1, <2>2 DEF SocketScreens
    <2>3. CASE i = Len(toBridge) + 1
      <3>1. Gen(toBridge'[i].to) = gen[bridge.session]
        BY <1>3, <1>7, <2>3
      <3> HIDE DEF Gen
      <3>2. /\ view.leg = legs => Gen(view.screen) <= gen[bridge.session]
            /\ \A e \in InFlight : e.leg = legs => Gen(e.to) <= gen[bridge.session]
        BY <1>8 DEF LegScreens
      <3>3. \A j \in DOMAIN toBridge' :
               j < i /\ toBridge'[j].kind # "switch"
                  => Gen(toBridge'[j].to) <= gen[bridge.session]
        BY <1>7, <1>8, <2>1 DEF SocketScreens
      <3>4. gen[bridge.session] <= gen[bridge.session]
        BY <1>10
      <3> QED
        BY <3>1, <3>2, <3>3, <3>4
    <2> QED
      BY <1>7, <2>2, <2>3
  <1> QED
    BY <1>9, <1>11 DEF MirrorInv

LEMMA MirrorForward ==
    ASSUME TypeOK, NumberInv, MirrorInv, Forward
    PROVE  MirrorInv'
  <1> DEFINE h == Head(toBridge)
             m == Rewrap(h)
  <1>1. /\ h \in DaemonFrames /\ m \in WireFrames
        /\ m.num = bridge.offset + h.num /\ m.leg = legs /\ m.to = h.to
    BY RewrapType DEF Forward
  <1>2. /\ bridge' = [bridge EXCEPT !.last = m.num, !.held = {m}]
        /\ s2c' = s2c \cup {m} /\ toBridge' = Tail(toBridge) /\ toBridge # <<>>
        /\ UNCHANGED <<gen, legs, view>>
    BY DEF Forward
  <1>3. bridge'.session = bridge.session /\ bridge'.held = {m}
    BY <1>2 DEF TypeOK, BridgeTypes
  <1>q. toBridge \in Seq(DaemonFrames \cup Switches)
    BY DEF TypeOK, DaemonTypes
  <1>4. 1 \in DOMAIN toBridge /\ h = toBridge[1] /\ h.kind # "switch" /\ h.num \in Nat
    BY <1>1, <1>2, <1>q DEF DaemonFrames
  <1>5. m.kind \in {"full", "diff"} /\ m.num \in Nat
    BY <1>1 DEF WireFrames
  <1> HIDE DEF h, m
  <1>6. InFlight' \subseteq InFlight \cup {m}
    BY <1>2, <1>3 DEF InFlight
  <1>f. /\ bridge.last \in Nat /\ bridge.offset \in Nat /\ view.num \in Nat
        /\ view.leg \in Nat /\ legs \in Nat /\ cursor \in Nat
        /\ \A e \in InFlight : e.num \in Nat /\ e.leg \in Nat
    BY FlightType
  <1>7. LegScreens /\ SocketScreens /\ NewerScreens
    BY DEF MirrorInv
  <1>8. /\ Gen(m.to) <= gen[bridge.session]
        /\ view.leg = legs => Gen(view.screen) <= Gen(m.to)
        /\ \A e \in InFlight : e.leg = legs => Gen(e.to) <= Gen(m.to)
    BY <1>1, <1>4, <1>7 DEF SocketScreens
  <1>9. bridge.last < m.num
    <2>1. bridge.last < bridge.offset + h.num
      BY <1>4 DEF NumberInv, LegNumbers, SocketOrdered
    <2> QED
      BY <1>1, <2>1
  <1>10. \A e \in InFlight : e.num < m.num /\ e.leg <= legs
    <2> TAKE e \in InFlight
    <2>1. e.num <= bridge.last /\ e.leg <= legs
      BY DEF NumberInv, FlightBelow
    <2> QED
      BY <1>f, <1>5, <1>9, <2>1
  <1>11. view.num < m.num /\ view.leg <= legs
    <2>1. view.num <= cursor /\ cursor <= bridge.last /\ view.leg <= legs
      BY DEF NumberInv, ViewBelow
    <2> QED
      BY <1>f, <1>5, <1>9, <2>1
  <1>g. /\ Gen(view.screen) \in Nat /\ Gen(m.to) \in Nat
        /\ \A e \in InFlight : Gen(e.to) \in Nat
    BY <1>1, ScreenGens, GenType DEF WireFrames
  <1>12. LegScreens'
    BY <1>2, <1>3, <1>6, <1>7, <1>8 DEF LegScreens, Gen
  <1>13. SocketScreens'
    <2> SUFFICES ASSUME NEW i \in DOMAIN toBridge', toBridge'[i].kind # "switch"
                 PROVE  /\ Gen(toBridge'[i].to) <= gen[bridge.session]
                        /\ view.leg = legs => Gen(view.screen) <= Gen(toBridge'[i].to)
                        /\ \A e \in InFlight' :
                              e.leg = legs => Gen(e.to) <= Gen(toBridge'[i].to)
                        /\ \A j \in DOMAIN toBridge' :
                              j < i /\ toBridge'[j].kind # "switch"
                                 => Gen(toBridge'[j].to) <= Gen(toBridge'[i].to)
      BY <1>2, <1>3 DEF SocketScreens, Gen
    <2>1. \A j \in DOMAIN toBridge' :
             /\ j \in Nat /\ 1 < j + 1 /\ j + 1 \in DOMAIN toBridge
             /\ toBridge'[j] = toBridge[j + 1]
      BY <1>q, <1>2
    <2> DEFINE k == i + 1
    <2>2. k \in DOMAIN toBridge /\ toBridge[k].kind # "switch" /\ 1 < k
          /\ toBridge'[i] = toBridge[k]
      BY <2>1
    <2>3. Gen(m.to) <= Gen(toBridge[k].to)
      BY <1>1, <1>4, <1>7, <2>2 DEF SocketScreens
    <2>4. \A e \in InFlight' : e.leg = legs => Gen(e.to) <= Gen(toBridge[k].to)
      BY <1>6, <1>7, <2>2, <2>3 DEF SocketScreens
    <2>5. ASSUME NEW j \in DOMAIN toBridge', j < i, toBridge'[j].kind # "switch"
          PROVE  Gen(toBridge'[j].to) <= Gen(toBridge'[i].to)
      <3>1. j + 1 < k /\ j + 1 \in DOMAIN toBridge /\ toBridge'[j] = toBridge[j + 1]
        BY <2>1, <2>5
      <3> QED
        BY <1>7, <2>2, <2>5, <3>1 DEF SocketScreens
    <2> QED
      BY <1>7, <2>2, <2>4, <2>5 DEF SocketScreens
  <1>14. NewerScreens'
    <2> SUFFICES ASSUME NEW a \in InFlight'
                 PROVE  /\ a.num > view.num =>
                              a.leg >= view.leg
                              /\ (a.leg = view.leg => Gen(a.to) >= Gen(view.screen))
                        /\ \A b \in InFlight' :
                              a.num > b.num /\ a.leg = b.leg => Gen(a.to) >= Gen(b.to)
      BY <1>2 DEF NewerScreens, Gen
    <2>1. CASE a = m
      <3>1. a.leg >= view.leg /\ (a.leg = view.leg => Gen(a.to) >= Gen(view.screen))
        BY <1>1, <1>f, <1>g, <1>8, <1>11, <2>1
      <3>2. ASSUME NEW b \in InFlight', a.num > b.num, a.leg = b.leg
            PROVE  Gen(a.to) >= Gen(b.to)
        <4>1. CASE b = m
          BY <1>g, <2>1, <4>1
        <4>2. CASE b \in InFlight
          BY <1>1, <1>g, <1>8, <2>1, <3>2, <4>2
        <4> QED
          BY <1>6, <4>1, <4>2
      <3> QED
        BY <3>1, <3>2
    <2>2. CASE a \in InFlight
      <3>1. a.num > view.num => a.leg >= view.leg
                                /\ (a.leg = view.leg => Gen(a.to) >= Gen(view.screen))
        BY <1>7, <2>2 DEF NewerScreens
      <3>2. ASSUME NEW b \in InFlight', a.num > b.num, a.leg = b.leg
            PROVE  Gen(a.to) >= Gen(b.to)
        <4>1. b # m
          BY <1>f, <1>5, <1>10, <2>2, <3>2
        <4> QED
          BY <1>6, <1>7, <2>2, <3>2, <4>1 DEF NewerScreens
      <3> QED
        BY <3>1, <3>2
    <2> QED
      BY <1>6, <2>1, <2>2
  <1> QED
    BY <1>12, <1>13, <1>14 DEF MirrorInv

\* A new leg: nothing of it is under way yet.
LEMMA MirrorNewLeg ==
    ASSUME TypeOK, NumberInv, MirrorInv, InFlight' \subseteq InFlight,
           legs' = legs + 1, view' = view, toBridge' = <<>>
    PROVE  MirrorInv'
  <1>1. /\ legs \in Nat /\ view.leg \in Nat
        /\ \A m \in InFlight : m.leg \in Nat
    BY FlightType
  <1>2. view.leg <= legs /\ \A m \in InFlight : m.leg <= legs
    BY DEF NumberInv, ViewBelow, FlightBelow
  <1>3. view.leg # legs' /\ \A m \in InFlight : m.leg # legs'
    BY <1>1, <1>2
  <1>4. LegScreens'
    BY <1>3 DEF LegScreens
  <1>5. SocketScreens'
    BY DEF SocketScreens
  <1>6. NewerScreens'
    BY DEF MirrorInv, NewerScreens, Gen
  <1> QED
    BY <1>4, <1>5, <1>6 DEF MirrorInv

\* A step that leaves what the viewport shows alone: the source may only grow.
LEMMA MirrorChange ==
    ASSUME TypeOK, TypeOK', view'.screen = view.screen, view'.leg = view.leg,
           \/ legs' = legs + 1
           \/ /\ legs' = legs /\ bridge'.session = bridge.session
              /\ gen[bridge.session] <= gen'[bridge.session]
    PROVE  [Mirror!Next]_<<<<legs, gen[bridge.session]>>, <<view.leg, view.screen[2]>>>>
  <1>1. legs \in Nat /\ gen[bridge.session] \in Nat /\ gen'[bridge'.session] \in Nat
    <2>1. TypeOK' => bridge'.session \in Sessions /\ gen' \in [Sessions -> 1 .. MaxGen]
      BY DEF TypeOK, BridgeTypes, WireTypes
    <2> QED
      BY <2>1, FlightType, ScreenGens, BridgeBounds
  <1>2. Mirror!NotOlder(<<legs', gen'[bridge'.session]>>, <<legs, gen[bridge.session]>>)
    BY <1>1 DEF Mirror!NotOlder
  <1> QED
    BY <1>2 DEF Mirror!Next, Mirror!Change

LEMMA MirrorReceive ==
    ASSUME TypeOK, TypeOK', NumberInv, MirrorInv, NEW m \in s2c, Receive(m)
    PROVE  /\ MirrorInv'
           /\ [Mirror!Next]_<<<<legs, gen[bridge.session]>>, <<view.leg, view.screen[2]>>>>
  <1>1. /\ s2c' = s2c \ {m} /\ UNCHANGED <<gen, toBridge, bridge, legs>>
    BY DEF Receive, link_vars
  <1>2. InFlight' \subseteq InFlight
    BY <1>1 DEF InFlight
  <1>t. ViewTypes /\ m \in WireFrames \cup Switches \cup Empties
    BY DEF TypeOK, WireTypes
  <1>g. gen[bridge.session] \in Nat
    BY ScreenGens
  <1>3. CASE /\ view'.num = view.num /\ view'.screen = view.screen
             /\ view'.leg = view.leg
    <2>1. MirrorInv'
      BY <1>1, <1>2, <1>3, <1>g, MirrorKept
    <2> QED
      BY <2>1, <1>1, <1>3, <1>g, MirrorChange
  <1>4. CASE m \in WireFrames /\ m.num > view.num /\ view' = Install(m)
    <2>1. m \in InFlight
      BY <1>4 DEF InFlight, WireFrames
    <2>2. view'.num = m.num /\ view'.screen = m.to /\ view'.leg = m.leg
      BY <1>t, <1>4, InstallFields
    <2>f. /\ m.leg \in Nat /\ view.leg \in Nat /\ legs \in Nat
          /\ m.num \in Nat /\ view.num \in Nat
          /\ \A e \in InFlight : e.num \in Nat /\ e.leg \in Nat
      BY <2>1, FlightType
    <2>g. /\ Gen(m.to) \in Nat /\ Gen(view.screen) \in Nat
          /\ \A e \in InFlight : Gen(e.to) \in Nat
      BY <2>1, ScreenGens
    <2>3. /\ m.leg <= legs /\ (m.leg = legs => Gen(m.to) <= gen[bridge.session])
          /\ m.leg >= view.leg
          /\ m.leg = view.leg => Gen(m.to) >= Gen(view.screen)
      BY <1>4, <2>1 DEF NumberInv, FlightBelow, MirrorInv, LegScreens, NewerScreens
    <2>4. LegScreens'
      BY <1>1, <1>2, <2>2, <2>3 DEF MirrorInv, LegScreens, Gen
    <2>5. SocketScreens'
      BY <1>1, <1>2, <2>1, <2>2 DEF MirrorInv, SocketScreens, Gen
    <2>6. NewerScreens'
      <3> SUFFICES ASSUME NEW a \in InFlight
                   PROVE  /\ a.num > m.num =>
                                a.leg >= m.leg /\ (a.leg = m.leg => Gen(a.to) >= Gen(m.to))
                          /\ \A b \in InFlight :
                                a.num > b.num /\ a.leg = b.leg => Gen(a.to) >= Gen(b.to)
        BY <1>2, <2>2 DEF NewerScreens, Gen
      <3>1. m.leg > a.leg => m.num > a.num
        BY <2>1 DEF NumberInv, LegsApart
      <3>2. a.num > m.num => a.leg >= m.leg
        BY <2>f, <3>1
      <3> QED
        BY <2>1, <3>2 DEF MirrorInv, NewerScreens
    <2>7. Mirror!NotOlder(<<m.leg, Gen(m.to)>>, <<view.leg, Gen(view.screen)>>)
      BY <2>f, <2>g, <2>3 DEF Mirror!NotOlder
    <2>8. Mirror!NotOlder(<<legs, gen[bridge.session]>>, <<m.leg, Gen(m.to)>>)
      BY <2>f, <2>g, <1>g, <2>3 DEF Mirror!NotOlder
    <2>9. Mirror!Show
      BY <1>1, <2>2, <2>7, <2>8 DEF Mirror!Show, Gen
    <2> QED
      BY <2>4, <2>5, <2>6, <2>9 DEF MirrorInv, Mirror!Next
  <1>5. CASE m.kind \in {"switch", "empty"}
    <2>1. view' = view
      BY <1>5 DEF Receive
    <2> QED
      BY <2>1, <1>3
  <1>6. CASE m.kind \notin {"switch", "empty"}
    <2>1. view' = AppliedFrame(m)
      BY <1>6 DEF Receive
    <2>2. m \in WireFrames
      BY <1>t, <1>6 DEF Switches, Empties
    <2> QED
      BY <2>1, <2>2, <1>t, <1>3, <1>4, AppliedCases
  <1> QED
    BY <1>5, <1>6

LEMMA MirrorStep ==
    TypeOK /\ TypeOK' /\ NumberInv /\ MirrorInv /\ [Next]_vars
      => /\ MirrorInv'
         /\ [Mirror!Next]_<<<<legs, gen[bridge.session]>>, <<view.leg, view.screen[2]>>>>
  <1> SUFFICES ASSUME TypeOK, TypeOK', NumberInv, MirrorInv, [Next]_vars
               PROVE  /\ MirrorInv'
                      /\ [Mirror!Next]_<<<<legs, gen[bridge.session]>>,
                                        <<view.leg, view.screen[2]>>>>
    OBVIOUS
  <1>s. bridge.session \in Sessions /\ gen[bridge.session] \in Nat
    BY ScreenGens
  <1>g. gen[bridge.session] <= gen[bridge.session]
    BY <1>s
  <1>n. \A s \in Sessions : gen'[s] \in Nat
    <2>1. gen' \in [Sessions -> 1 .. MaxGen]
      BY DEF TypeOK, WireTypes
    <2> QED
      BY <2>1, BridgeBounds
  \* On the same leg, with nothing shown or sent anew.
  <1>k. ASSUME InFlight' \subseteq InFlight, legs' = legs,
               bridge'.session = bridge.session,
               gen[bridge.session] <= gen'[bridge.session],
               view'.num = view.num, view'.screen = view.screen, view'.leg = view.leg,
               \A i \in DOMAIN toBridge' : toBridge'[i].kind # "switch" =>
                   i \in DOMAIN toBridge /\ toBridge'[i] = toBridge[i]
        PROVE  /\ MirrorInv'
               /\ [Mirror!Next]_<<<<legs, gen[bridge.session]>>,
                                 <<view.leg, view.screen[2]>>>>
    BY <1>k, <1>s, <1>n, MirrorKept, MirrorChange
  <1>1. CASE SendFrame
    <2>1. UNCHANGED <<gen, bridge, legs, view>>
      BY <1>1 DEF SendFrame
    <2> QED
      BY <1>1, <1>g, <2>1, MirrorSendFrame, MirrorChange
  <1>2. CASE HearAck
    <2>1. UNCHANGED <<gen, toBridge, bridge, legs, view, s2c>>
      BY <1>2 DEF HearAck, net_vars
    <2> QED
      BY <1>g, <1>k, <2>1 DEF InFlight
  <1>3. ASSUME NEW s \in Sessions, Output(s)
        PROVE  /\ MirrorInv'
               /\ [Mirror!Next]_<<<<legs, gen[bridge.session]>>,
                                 <<view.leg, view.screen[2]>>>>
    <2>1. UNCHANGED <<toBridge, bridge, legs, view, s2c>>
      BY <1>3 DEF Output, link_vars, net_vars
    <2>2. gen' = [gen EXCEPT ![s] = @ + 1] /\ gen \in [Sessions -> 1 .. MaxGen]
      BY <1>3 DEF Output, TypeOK, WireTypes
    <2>3. gen[bridge.session] <= gen'[bridge.session]
      <3>1. CASE s = bridge.session
        BY <1>s, <2>2, <3>1
      <3>2. CASE s # bridge.session
        BY <1>s, <2>2, <3>2
      <3> QED
        BY <3>1, <3>2
    <2> QED
      BY <1>k, <2>1, <2>3 DEF InFlight
  <1>4. ASSUME NEW s \in Sessions, RouteSwitch(s)
        PROVE  /\ MirrorInv'
               /\ [Mirror!Next]_<<<<legs, gen[bridge.session]>>,
                                 <<view.leg, view.screen[2]>>>>
    <2>1. /\ UNCHANGED <<gen, bridge, legs, view, s2c>>
          /\ toBridge' = Append(toBridge, SwitchTo(s)) /\ SwitchTo(s).kind = "switch"
      BY <1>4 DEF RouteSwitch, SwitchTo, net_vars
    <2>2. toBridge \in Seq(DaemonFrames \cup Switches)
      BY DEF TypeOK, DaemonTypes
    <2>3. \A i \in DOMAIN toBridge' : toBridge'[i].kind # "switch" =>
             i \in DOMAIN toBridge /\ toBridge'[i] = toBridge[i]
      BY <2>1, <2>2
    <2> QED
      BY <1>g, <1>k, <2>1, <2>3 DEF InFlight
  <1>5. CASE Forward
    <2>1. /\ bridge'.session = bridge.session /\ UNCHANGED <<gen, legs, view>>
      BY <1>5 DEF Forward, TypeOK, BridgeTypes
    <2> QED
      BY <1>5, <1>g, <2>1, MirrorForward, MirrorChange
  <1>6. CASE Rehome
    <2> DEFINE s == Head(toBridge).session
    <2>1. /\ bridge' = Link(bridge, s, bridge.last) /\ s2c' = s2c \cup {SwitchTo(s)}
          /\ toBridge' = <<>> /\ legs' = legs + 1 /\ view' = view
      BY <1>6 DEF Rehome, RehomeCeiling
    <2>2. bridge'.held = {}
      BY <2>1 DEF Link, TypeOK, BridgeTypes
    <2>3. InFlight' \subseteq InFlight
      BY <2>1, <2>2 DEF InFlight, SwitchTo
    <2> QED
      BY <2>1, <2>3, MirrorNewLeg, MirrorChange
  <1>7. CASE Retransmit \/ Heartbeat
    <2>1. UNCHANGED <<gen, toBridge, bridge, legs, view>>
      BY <1>7 DEF Retransmit, Heartbeat, link_vars
    <2>2. InFlight' \subseteq InFlight
      BY <1>7 DEF Retransmit, Heartbeat, InFlight, EmptyAt
    <2> QED
      BY <1>g, <1>k, <2>1, <2>2
  <1>8. ASSUME NEW m \in c2s, PeerReceives(m)
        PROVE  /\ MirrorInv'
               /\ [Mirror!Next]_<<<<legs, gen[bridge.session]>>,
                                 <<view.leg, view.screen[2]>>>>
    <2>1. UNCHANGED <<gen, toBridge, legs, view, s2c>>
      BY <1>8 DEF PeerReceives
    <2>2. bridge'.session = bridge.session /\ bridge'.held \subseteq bridge.held
      <3>1. DaemonTypes /\ BridgeTypes /\ m \in [ack : Nat, resync : BOOLEAN]
        BY DEF TypeOK, WireTypes
      <3>2. ForwardAck(Found, m)
        BY <1>8 DEF PeerReceives, Found
      <3>3. bridge'.held \subseteq Found.held /\ bridge'.session = Found.session
        BY <3>1, <3>2, FoundType, ForwardAckType
      <3> QED
        BY <3>1, <3>3, FoundType
    <2>3. InFlight' \subseteq InFlight
      BY <2>1, <2>2 DEF InFlight
    <2> QED
      BY <1>g, <1>k, <2>1, <2>2, <2>3
  <1>9. ASSUME NEW m \in s2c, Receive(m)
        PROVE  /\ MirrorInv'
               /\ [Mirror!Next]_<<<<legs, gen[bridge.session]>>,
                                 <<view.leg, view.screen[2]>>>>
    BY <1>9, MirrorReceive
  <1>10. CASE SendMessage
    <2>1. /\ UNCHANGED <<gen, toBridge, bridge, legs, s2c>>
          /\ view'.num = view.num /\ view'.screen = view.screen /\ view'.leg = view.leg
      BY <1>10 DEF SendMessage, TypeOK, ViewTypes, link_vars
    <2> QED
      BY <1>g, <1>k, <2>1 DEF InFlight
  <1>11. CASE Reconnect
    <2>1. /\ bridge'.held = {} /\ s2c' = {} /\ toBridge' = <<>>
          /\ legs' = legs + 1 /\ view' = view
      BY <1>11 DEF Reconnect, Awaiting
    <2>2. InFlight' \subseteq InFlight
      BY <2>1 DEF InFlight
    <2> QED
      BY <2>1, <2>2, MirrorNewLeg, MirrorChange
  <1>12. CASE Lose
    <2>1. UNCHANGED <<gen, toBridge, bridge, legs, view>> /\ s2c' \subseteq s2c
      BY <1>12 DEF Lose, link_vars
    <2> QED
      BY <1>g, <1>k, <2>1 DEF InFlight
  <1>13. CASE UNCHANGED vars
    <2>1. UNCHANGED <<gen, toBridge, bridge, legs, view, s2c>>
      BY <1>13 DEF vars, link_vars, net_vars
    <2> QED
      BY <1>g, <1>k, <2>1 DEF InFlight
  <1> QED
    BY <1>1, <1>2, <1>3, <1>4, <1>5, <1>6, <1>7, <1>8, <1>9, <1>10, <1>11, <1>12, <1>13
    DEF Next, Daemon, Peer, Viewport

\* Over any number of re-homes, reconnects, losses and resyncs the viewport
\* refines ScreenMirror: it shows only screens its session had and never an
\* older one after a newer one (apply_frame).
THEOREM MirrorCorrect == Spec => MirrorSpec
  <1>1. Init => Mirror!Init /\ MirrorInv
    BY MirrorInit
  <1>2. TypeOK /\ TypeOK' /\ NumberInv /\ MirrorInv /\ [Next]_vars
           => /\ MirrorInv'
              /\ [Mirror!Next]_<<<<legs, gen[bridge.session]>>, <<view.leg, view.screen[2]>>>>
    BY MirrorStep
  <1> QED
    BY <1>1, <1>2, TypeCorrect, NumbersCorrect, PTL DEF Spec, MirrorSpec, Mirror!Spec
=============================================================================
