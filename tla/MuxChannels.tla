---------------------------- MODULE MuxChannels ----------------------------
(***************************************************************************)
(* Session channels over a shared wire.  The mux daemon (mux_loop, mux.rs) *)
(* serves local invocations over Unix sockets, counts the references they  *)
(* hold, opens one wire channel for each attached session, and dials a new *)
(* wire when the old one dies.  The mux peer (mux_peer_loop, server.rs) at *)
(* the far end keeps one bridge for each channel.  OPEN is resent until    *)
(* anything comes back on the channel, CLOSE a fixed number of times.      *)
(*                                                                         *)
(* Time is left out: a timer that is armed may fire.  Datagrams are        *)
(* delivered at most once, in any order.  The frames and the input of a    *)
(* channel are modelled in FrameSync and InputStream; here a message on    *)
(* the channel is only that.                                               *)
(***************************************************************************)
EXTENDS Naturals, FiniteSets

CONSTANTS
    Conns,        \* IPC connections
    Targets,      \* sessions of the remote host
    MaxChan,      \* bound: channels the daemon allocates
    MaxWires,     \* bound: wires dialled
    MaxFlight,    \* bound: datagrams in flight, each way
    LocalMax,     \* MAX_LOCAL_SESSION_CHANNELS
    PeerMax,      \* MAX_SESSION_CHANNELS
    OpenSends,    \* SESSION_OPEN_RETRANSMITS_MAX
    CloseSends    \* SESSION_CLOSE_RETRANSMITS

Nobody == "nobody"   \* no route

ASSUME ConnsAssumption == IsFiniteSet(Conns) /\ Nobody \notin Conns
ASSUME TargetsAssumption == Targets # {}
ASSUME BoundsAssumption ==
    /\ MaxChan \in Nat /\ MaxWires \in Nat \ {0} /\ MaxFlight \in Nat
    /\ LocalMax \in Nat /\ PeerMax \in Nat
    /\ OpenSends \in Nat \ {0} /\ CloseSends \in Nat \ {0}

VARIABLES
    \* ---- the mux daemon ----
    phase,       \* conn -> "unborn", "open", "gone"
    ref,         \* conn -> holds_ref
    session,     \* conn -> its IpcSession, or NoSession
    refs,        \* MuxState::refs
    linger,      \* linger_deadline is set
    routes,      \* chan -> conn, or nobody
    closes,      \* PendingCloses: chan and sends
    last_chan,   \* last ordinal allocated
    agents,      \* agent channels are open to the local agent
    exited,      \* the linger expired
    wire,        \* wires dialled so far
    up,          \* no reconnect is under way
    \* ---- the network ----
    d2p, p2d,    \* datagrams in flight on the current wire
    \* ---- the peer of the current wire ----
    alive,       \* it runs
    bridge       \* chan -> state of its bridge, and the session it is for

conn_vars == <<phase, ref, session, refs, linger, routes, closes, last_chan, agents, exited>>
wire_vars == <<wire, up>>
peer_vars == <<alive, bridge>>
vars == <<conn_vars, wire_vars, d2p, p2d, peer_vars>>

Chans == 1 .. MaxChan
NoSession == [chan |-> 0]
NoBridge == [state |-> "none"]
Has(c) == session[c].chan # 0
Live == {c \in Conns : Has(c)}

Init ==
    /\ phase = [c \in Conns |-> "unborn"]
    /\ ref = [c \in Conns |-> FALSE]
    /\ session = [c \in Conns |-> NoSession]
    /\ refs = 0 /\ linger = TRUE
    /\ routes = [n \in Chans |-> Nobody]
    /\ closes = {} /\ last_chan = 0
    /\ agents = FALSE /\ exited = FALSE
    /\ wire = 1 /\ up = TRUE
    /\ d2p = {} /\ p2d = {}
    /\ alive = TRUE
    /\ bridge = [n \in Chans |-> NoBridge]

-----------------------------------------------------------------------------
(* References. *)

\* Mutant: a reference does not stop a linger that is under way.
TakeRefKeepLinger(c) ==
    /\ ref' = [ref EXCEPT ![c] = TRUE]
    /\ refs' = IF ref[c] THEN refs ELSE refs + 1
    /\ UNCHANGED linger

\* The reference is taken unless the connection holds one: add_ref.
TakeRef(c) ==
    /\ ref' = [ref EXCEPT ![c] = TRUE]
    /\ refs' = IF ref[c] THEN refs ELSE refs + 1
    /\ linger' = IF ref[c] THEN linger ELSE FALSE

\* Mutant: the count goes down whether or not the connection held one.
DropRefAlways(c) ==
    LET left == IF refs > 0 THEN refs - 1 ELSE 0
    IN  /\ ref' = [ref EXCEPT ![c] = FALSE]
        /\ refs' = left
        /\ linger' = (linger \/ left = 0)
        /\ agents' = (agents /\ left > 0)

\* Mutant: the agent channels stay open when the last reference goes.
DropRefKeepAgents(c) ==
    LET left == IF ref[c] /\ refs > 0 THEN refs - 1 ELSE refs
    IN  /\ ref' = [ref EXCEPT ![c] = FALSE]
        /\ refs' = left
        /\ linger' = (linger \/ (ref[c] /\ left = 0))
        /\ UNCHANGED agents

\* unref, if it holds one; at zero the linger starts and the agent channels
\* are closed.
DropRef(c) ==
    LET left == IF ref[c] /\ refs > 0 THEN refs - 1 ELSE refs
    IN  /\ ref' = [ref EXCEPT ![c] = FALSE]
        /\ refs' = left
        /\ linger' = (linger \/ (ref[c] /\ left = 0))
        /\ agents' = (agents /\ left > 0)

-----------------------------------------------------------------------------
(* IPC: what the local invocations ask of the daemon. *)

Connect(c) ==
    /\ ~exited /\ phase[c] = "unborn"
    /\ phase' = [phase EXCEPT ![c] = "open"]
    /\ UNCHANGED <<ref, session, refs, linger, routes, closes, last_chan, agents, exited,
                   wire_vars, d2p, p2d, peer_vars>>

SessionRef(c) ==
    /\ ~exited /\ phase[c] = "open"
    /\ TakeRef(c)
    /\ UNCHANGED <<phase, session, routes, closes, last_chan, agents, exited,
                   wire_vars, d2p, p2d, peer_vars>>

\* A second open on the connection, or one beyond the table, changes nothing.
SessionOpen(c, t) ==
    /\ ~exited /\ phase[c] = "open" /\ ~Has(c)
    /\ Cardinality(Live) < LocalMax
    /\ last_chan < MaxChan
    /\ last_chan' = last_chan + 1
    /\ routes' = [routes EXCEPT ![last_chan + 1] = c]
    /\ session' = [session EXCEPT ![c] =
           [chan |-> last_chan + 1, target |-> t, confirmed |-> FALSE,
            queued |-> {}, sends |-> 0]]
    /\ TakeRef(c)
    /\ UNCHANGED <<phase, closes, agents, exited, wire_vars, d2p, p2d, peer_vars>>

Datagram(kind, chan) == [kind |-> kind, chan |-> chan]

\* The network, after a send: when it is full it drops what it is given.
Carry(net, sent) == IF Cardinality(net \cup sent) <= MaxFlight THEN net \cup sent ELSE net

\* A client message; "quit" carries CLIENT_FLAG_SHUTDOWN.  Until the channel
\* is confirmed it must not race the OPEN.
SessionMsg(c, kind) ==
    /\ ~exited /\ phase[c] = "open" /\ Has(c)
    /\ IF session[c].confirmed
       THEN /\ d2p' = Carry(d2p, {Datagram(kind, session[c].chan)})
            /\ UNCHANGED session
       ELSE /\ session' = [session EXCEPT ![c].queued = @ \cup {kind}]
            /\ UNCHANGED d2p
    /\ UNCHANGED <<phase, ref, refs, linger, routes, closes, last_chan, agents, exited,
                   wire_vars, p2d, peer_vars>>

\* Mutant: the route outlives its session.
EndSessionKeepRoute(c, chan) ==
    /\ session' = [session EXCEPT ![c] = NoSession]
    /\ UNCHANGED routes
    /\ DropRef(c)

\* A session ends: its route and the connection's reference go with it.
EndSession(c, chan) ==
    /\ session' = [session EXCEPT ![c] = NoSession]
    /\ routes' = [routes EXCEPT ![chan] = Nobody]
    /\ DropRef(c)

OweClose(c) == closes' = closes \cup {[chan |-> session[c].chan, sends |-> 0]}

SessionClose(c) ==
    /\ ~exited /\ phase[c] = "open" /\ Has(c)
    /\ EndSession(c, session[c].chan) /\ OweClose(c)
    /\ UNCHANGED <<phase, last_chan, exited, wire_vars, d2p, p2d, peer_vars>>

\* The invocation is gone: its session, if any, and its reference with it.
ConnGone(c) ==
    /\ ~exited /\ phase[c] = "open"
    /\ phase' = [phase EXCEPT ![c] = "gone"]
    /\ IF Has(c) THEN EndSession(c, session[c].chan) /\ OweClose(c)
       ELSE DropRef(c) /\ UNCHANGED <<session, routes, closes>>
    /\ UNCHANGED <<last_chan, exited, wire_vars, d2p, p2d, peer_vars>>

-----------------------------------------------------------------------------
(* The wire at the daemon. *)

Waiting(c) == {Datagram(k, session[c].chan) : k \in session[c].queued}

Confirmed(c) == [session[c] EXCEPT !.confirmed = TRUE, !.queued = {}]

\* An instruction of the peer.  Anything on a routed channel confirms it and
\* releases what waited.  The old wire is still read while a reconnect runs.
Hear(m) ==
    LET c == routes[m.chan]
        ours == c # Nobody /\ Has(c)
    IN  /\ ~exited /\ m \in p2d /\ p2d' = p2d \ {m}
        /\ d2p' = IF ours THEN Carry(d2p, Waiting(c)) ELSE d2p
        /\ \/ /\ ~ours
              /\ UNCHANGED <<session, routes, ref, refs, linger, agents>>
           \/ /\ ours /\ m.kind = "frame"
              /\ session' = [session EXCEPT ![c] = Confirmed(c)]
              /\ UNCHANGED <<routes, ref, refs, linger, agents>>
           \/ /\ ours /\ m.kind = "switch"
              /\ session' = [session EXCEPT ![c] = [Confirmed(c) EXCEPT !.target = m.target]]
              /\ UNCHANGED <<routes, ref, refs, linger, agents>>
           \/ ours /\ m.kind = "close" /\ EndSession(c, m.chan)
        /\ UNCHANGED <<phase, closes, last_chan, exited, wire_vars, peer_vars>>

\* An agent channel the peer opens is served only under a reference.
AgentOpen ==
    /\ ~exited /\ refs > 0
    /\ agents' = TRUE
    /\ UNCHANGED <<phase, ref, session, refs, linger, routes, closes, last_chan, exited,
                   wire_vars, d2p, p2d, peer_vars>>

AgentClose ==
    /\ ~exited /\ agents
    /\ agents' = FALSE
    /\ UNCHANGED <<phase, ref, session, refs, linger, routes, closes, last_chan, exited,
                   wire_vars, d2p, p2d, peer_vars>>

\* The OPEN of an unconfirmed session, once for each RTO.
SendOpen(c) ==
    LET s == session[c]
    IN  /\ ~exited /\ up /\ Has(c) /\ ~s.confirmed /\ s.sends < OpenSends
        /\ session' = [session EXCEPT ![c].sends = @ + 1]
        /\ d2p' = Carry(d2p, {[kind |-> "open", chan |-> s.chan, target |-> s.target,
                                nth |-> s.sends + 1]})
        /\ UNCHANGED <<phase, ref, refs, linger, routes, closes, last_chan, agents, exited,
                       wire_vars, p2d, peer_vars>>

\* Mutant: one send too many is waited for.
OpenTimesOutLate(c) ==
    /\ ~exited /\ up /\ Has(c) /\ ~session[c].confirmed /\ session[c].sends > OpenSends
    /\ EndSession(c, session[c].chan) /\ OweClose(c)
    /\ UNCHANGED <<phase, last_chan, exited, wire_vars, d2p, p2d, peer_vars>>

\* The peer never answered: the invocation is told, the wire is owed a CLOSE.
OpenTimesOut(c) ==
    /\ ~exited /\ up /\ Has(c) /\ ~session[c].confirmed /\ session[c].sends >= OpenSends
    /\ EndSession(c, session[c].chan) /\ OweClose(c)
    /\ UNCHANGED <<phase, last_chan, exited, wire_vars, d2p, p2d, peer_vars>>

\* Mutant: a CLOSE is sent once more than it should be.
SendCloseOnceMore(p) ==
    LET q == [p EXCEPT !.sends = @ + 1]
    IN  /\ ~exited /\ up /\ p \in closes
        /\ d2p' = Carry(d2p, {[kind |-> "close", chan |-> p.chan, nth |-> q.sends]})
        /\ closes' = (closes \ {p}) \cup (IF q.sends <= CloseSends THEN {q} ELSE {})
        /\ UNCHANGED <<phase, ref, session, refs, linger, routes, last_chan, agents, exited,
                       wire_vars, p2d, peer_vars>>

\* An owed CLOSE, once for each RTO and CloseSends times.
SendClose(p) ==
    LET q == [p EXCEPT !.sends = @ + 1]
    IN  /\ ~exited /\ up /\ p \in closes
        /\ d2p' = Carry(d2p, {[kind |-> "close", chan |-> p.chan, nth |-> q.sends]})
        /\ closes' = (closes \ {p}) \cup (IF q.sends < CloseSends THEN {q} ELSE {})
        /\ UNCHANGED <<phase, ref, session, refs, linger, routes, last_chan, agents, exited,
                       wire_vars, p2d, peer_vars>>

LingerExpires ==
    /\ ~exited /\ linger
    /\ exited' = TRUE
    /\ UNCHANGED <<phase, ref, session, refs, linger, routes, closes, last_chan, agents,
                   wire_vars, d2p, p2d, peer_vars>>

\* The probe went unanswered, or a suspend outlasted the peer.  Sessions are
\* kept, to be opened again on the next wire.
WireDead ==
    /\ ~exited /\ up /\ wire < MaxWires
    /\ up' = FALSE
    /\ session' = [c \in Conns |->
           IF Has(c) THEN [session[c] EXCEPT !.confirmed = FALSE, !.sends = 0] ELSE session[c]]
    /\ routes' = [n \in Chans |->
           IF \E c \in Conns : session[c].chan = n
           THEN CHOOSE c \in Conns : session[c].chan = n ELSE Nobody]
    /\ closes' = {} /\ agents' = FALSE
    /\ UNCHANGED <<phase, ref, refs, linger, last_chan, exited, wire, d2p, p2d, peer_vars>>

\* A new wire, with a peer that knows no channel.  Attempts that fail change
\* nothing but the time of the next.
Reestablish ==
    /\ ~exited /\ ~up
    /\ up' = TRUE /\ wire' = wire + 1
    /\ d2p' = {} /\ p2d' = {}
    /\ alive' = TRUE /\ bridge' = [n \in Chans |-> NoBridge]
    /\ UNCHANGED <<conn_vars>>

-----------------------------------------------------------------------------
(* The peer. *)

Table == {n \in Chans : bridge[n].state # "none"}

Answer(replies) == p2d' = Carry(p2d, replies)

Forget(n) ==
    /\ bridge' = [bridge EXCEPT ![n] = NoBridge]
    /\ UNCHANGED alive

\* An OPEN of a new channel is admitted if the table has room, and confirmed;
\* a repeated one is confirmed again, for the first answer may be lost.
PeerOpen(m) ==
    /\ m.kind = "open"
    /\ \/ m.chan \in Table /\ Answer({Datagram("frame", m.chan)}) /\ UNCHANGED peer_vars
       \/ /\ m.chan \notin Table /\ Cardinality(Table) < PeerMax
          /\ bridge' = [bridge EXCEPT ![m.chan] = [state |-> "awaiting", target |-> m.target]]
          /\ Answer({Datagram("frame", m.chan)})
          /\ UNCHANGED alive
       \/ /\ m.chan \notin Table /\ Cardinality(Table) >= PeerMax
          /\ Answer({Datagram("close", m.chan)})
          /\ UNCHANGED peer_vars

\* The first message links the channel to its session's daemon, if there is
\* one to connect to; the quit flag detaches and closes.
PeerData(m) ==
    /\ m.kind \in {"msg", "quit"}
    /\ \/ m.chan \notin Table /\ UNCHANGED <<p2d, peer_vars>>
       \/ /\ m.chan \in Table /\ m.kind = "msg"
          /\ bridge' = [bridge EXCEPT ![m.chan].state = "linked"]
          /\ UNCHANGED <<p2d, alive>>
       \/ /\ \/ m.chan \in Table /\ m.kind = "quit"
             \/ bridge[m.chan].state = "awaiting"
          /\ Forget(m.chan)
          /\ Answer({Datagram("close", m.chan)})

PeerClose(m) ==
    /\ m.kind = "close"
    /\ IF m.chan \in Table THEN Forget(m.chan) ELSE UNCHANGED peer_vars
    /\ UNCHANGED p2d

PeerReceives(m) ==
    /\ alive /\ m \in d2p /\ d2p' = d2p \ {m}
    /\ PeerOpen(m) \/ PeerData(m) \/ PeerClose(m)
    /\ UNCHANGED <<conn_vars, wire_vars>>

Linked(n) == bridge[n].state = "linked"

\* A frame of the session, its retransmission, an ack or a heartbeat.
BridgeFrame(n) ==
    /\ Linked(n)
    /\ Answer({Datagram("frame", n)})
    /\ UNCHANGED <<conn_vars, wire_vars, d2p, peer_vars>>

\* The session's daemon sends the viewport to another session.
BridgeSwitch(n, t) ==
    /\ Linked(n)
    /\ bridge' = [bridge EXCEPT ![n].target = t]
    /\ Answer({[kind |-> "switch", chan |-> n, target |-> t]})
    /\ UNCHANGED <<conn_vars, wire_vars, d2p, alive>>

\* The session ended, its daemon is gone or the switch found nobody: whatever
\* frame says so goes ahead of the one CLOSE.
BridgeEnds(n) ==
    /\ Linked(n)
    /\ Forget(n)
    /\ \E farewell \in {{}, {Datagram("frame", n)}} :
           Answer(farewell \cup {Datagram("close", n)})
    /\ UNCHANGED <<conn_vars, wire_vars, d2p>>

\* PEER_TIMEOUT, a signal or a crash: the process takes its bridges along and
\* answers nothing more.
PeerExits ==
    /\ alive /\ alive' = FALSE
    /\ bridge' = [n \in Chans |-> NoBridge]
    /\ UNCHANGED <<conn_vars, wire_vars, d2p, p2d>>

Lose ==
    /\ \/ \E m \in d2p : d2p' = d2p \ {m} /\ UNCHANGED p2d
       \/ \E m \in p2d : p2d' = p2d \ {m} /\ UNCHANGED d2p
    /\ UNCHANGED <<conn_vars, wire_vars, peer_vars>>

-----------------------------------------------------------------------------
Invocation(c) ==
    \/ Connect(c) \/ SessionRef(c) \/ SessionClose(c) \/ ConnGone(c)
    \/ \E t \in Targets : SessionOpen(c, t)
    \/ \E kind \in {"msg", "quit"} : SessionMsg(c, kind)

Daemon ==
    \/ \E m \in p2d : Hear(m)
    \/ \E c \in Conns : SendOpen(c) \/ OpenTimesOut(c)
    \/ \E p \in closes : SendClose(p)
    \/ AgentOpen \/ AgentClose
    \/ LingerExpires \/ WireDead \/ Reestablish

Peer ==
    \/ \E m \in d2p : PeerReceives(m)
    \/ \E n \in Chans : BridgeFrame(n) \/ BridgeEnds(n)
    \/ \E n \in Chans, t \in Targets : BridgeSwitch(n, t)
    \/ PeerExits

Next == (\E c \in Conns : Invocation(c)) \/ Daemon \/ Peer \/ Lose

Spec == Init /\ [][Next]_vars

\* The daemon's loop wakes for each timer it armed, and ssh gets through in
\* the end.
Fairness ==
    /\ \A c \in Conns : WF_vars(SendOpen(c)) /\ WF_vars(OpenTimesOut(c))
    /\ WF_vars(Reestablish)

FairSpec == Spec /\ Fairness

-----------------------------------------------------------------------------
(* Properties. *)

Sessions == [chan : Chans, target : Targets, confirmed : BOOLEAN,
             queued : SUBSET {"msg", "quit"}, sends : 0 .. OpenSends]
ToPeer ==
    [kind : {"msg", "quit"}, chan : Chans]
        \cup [kind : {"close"}, chan : Chans, nth : 1 .. CloseSends]
        \cup [kind : {"open"}, chan : Chans, target : Targets, nth : 1 .. OpenSends]
ToDaemon ==
    [kind : {"frame", "close"}, chan : Chans]
        \cup [kind : {"switch"}, chan : Chans, target : Targets]

ConnTypes ==
    /\ phase \in [Conns -> {"unborn", "open", "gone"}]
    /\ ref \in [Conns -> BOOLEAN]
    /\ session \in [Conns -> Sessions \cup {NoSession}]
StateTypes == refs \in Nat /\ linger \in BOOLEAN /\ agents \in BOOLEAN /\ exited \in BOOLEAN
RouteTypes ==
    /\ routes \in [Chans -> Conns \cup {Nobody}]
    /\ closes \subseteq [chan : Chans, sends : 0 .. CloseSends - 1]
    /\ last_chan \in 0 .. MaxChan
WireTypes == wire \in 1 .. MaxWires /\ up \in BOOLEAN
NetTypes == d2p \subseteq ToPeer /\ p2d \subseteq ToDaemon
PeerTypes ==
    /\ bridge \in [Chans -> {NoBridge} \cup [state : {"awaiting", "linked"}, target : Targets]]
    /\ alive \in BOOLEAN

\* Connections, sessions, routes, owed closes, datagrams and bridges keep
\* their types.
TypeOK == ConnTypes /\ StateTypes /\ RouteTypes /\ WireTypes /\ NetTypes /\ PeerTypes

\* The count is the number of connections that hold a reference, whichever of
\* the five ways each was dropped, and the linger runs exactly at zero.
RefsCounted ==
    /\ refs = Cardinality({c \in Conns : ref[c]})
    /\ linger <=> refs = 0

\* A session keeps its daemon: it holds a reference until it ends, so the
\* linger never expires under it.
NeverAbandoned == \A c \in Live : phase[c] = "open" /\ ref[c] /\ ~exited

\* FDR 0014 M1: the local agent is open to the remote host only while some
\* invocation holds a reference.
ExposureBounded == agents => \E c \in Conns : ref[c]

\* A reference is what it is taken for, on both sides: no session without its
\* daemon, no agent open without a session.
AgentGuarded == NeverAbandoned /\ ExposureBounded

\* A channel leads to the session that opened it and to no other, so a CLOSE
\* or a SWITCH that comes late cannot hit the next session of a connection.
RoutesOwned ==
    \A n \in Chans, c \in Conns : routes[n] = c <=> session[c].chan = n

\* An attach is answered or refused, whatever dies on the way: no session
\* stays unconfirmed for ever.
OpenSettles == \A c \in Conns : [](Has(c) => <>(~Has(c) \/ session[c].confirmed))
=============================================================================
