--------------------------- MODULE SessionBridge ---------------------------
(***************************************************************************)
(* The frame half of a mux session channel: the session daemon's producer  *)
(* for a paced, lossy viewport (session/daemon.rs), the daemon leg of the  *)
(* bridge in the mux peer that forwards its frames (SessionBridge of       *)
(* remote/server.rs, DaemonLeg and HeldFrame of remote/relay.rs), the      *)
(* resume cursor of the mux daemon (remote/resume.rs, remote/mux.rs) and   *)
(* the viewport (remote/client.rs).  A re-home replaces the leg, a         *)
(* reconnect the whole bridge, and the frame numbers the viewport sees go  *)
(* on above the ceiling each of them starts from.                          *)
(*                                                                         *)
(* A screen is <<session, generation>>; mux daemon and viewport, which an  *)
(* ordered socket joins, are one actor.  Input, the OPEN exchange and the  *)
(* history rows are InputStream's, MuxChannels' and History's.             *)
(***************************************************************************)
EXTENDS Integers, Sequences, FiniteSets

CONSTANTS
    MaxSession,    \* sessions of the host, from 1; the first attach names 1
    MaxGen,        \* bound: generations of a session's screen
    MaxLegs,       \* bound: daemon legs, over every re-home and reconnect
    MaxWires,      \* bound: wires, the first included
    MaxFrame,      \* bound: frames of one producer
    MaxLink,       \* bound: records in the daemon socket, each way
    MaxFlight,     \* bound: datagrams in flight to the viewport
    MaxAcks,       \* bound: datagrams in flight to the bridge
    MaxLoss,       \* bound: datagrams lost
    Outstanding,   \* frames FrameProducer retains for a late ack (8)
    HistoryDepth   \* BASE_HISTORY_DEPTH (8)

ASSUME BridgeBounds ==
    /\ MaxSession \in Nat \ {0} /\ MaxGen \in Nat \ {0} /\ MaxLegs \in Nat \ {0}
    /\ MaxWires \in Nat /\ MaxFrame \in Nat /\ MaxLink \in Nat
    /\ MaxFlight \in Nat /\ MaxAcks \in Nat /\ MaxLoss \in Nat
    /\ Outstanding \in Nat /\ HistoryDepth \in Nat \ {0}

VARIABLES
    gen,        \* each session's generation
    producer,   \* the leg's FrameProducer [num, acked, base, sent, dirty]
    toBridge,   \* daemon socket: frames and Tag::Switch records
    toDaemon,   \* daemon socket: Tag::FrameAck records
    bridge,     \* [linked, session, last, offset, forwarded, held]
    legs,       \* the number of the leg in use (not in the code)
    target,     \* mux daemon: the session a reconnect opens again
    cursor,     \* mux daemon: SessionResume.frame
    wires,      \* wires used so far
    s2c, c2s,   \* datagrams in flight
    lost,       \* datagrams lost so far
    view        \* viewport [num, screen, bases, resync, leg]

mux_vars == <<target, cursor, wires>>
net_vars == <<s2c, c2s, lost>>
link_vars == <<toBridge, toDaemon>>
vars == <<gen, producer, link_vars, bridge, legs, mux_vars, net_vars, view>>

-----------------------------------------------------------------------------
(* Screens, frames and records. *)

Sessions == 1 .. MaxSession
Blank  == <<0, 0>>     \* frame 0, which both ends share
NoBase == <<0, -1>>    \* acked_data = None
Shown(s) == <<s, gen[s]>>

Larger(a, b) == IF a >= b THEN a ELSE b

\* A frame as the daemon numbers it, and as the viewport gets it: `from` is
\* the dump a diff was made from (its base_sum), `to` the screen it rebuilds,
\* `leg` the daemon leg it came over (not on the wire).
Body(num, kind, base, from, to) ==
    [kind |-> kind, num |-> num, base |-> base, from |-> from, to |-> to, leg |-> 0]
SwitchTo(s) == [kind |-> "switch", session |-> s]
EmptyAt(n) == [kind |-> "empty", num |-> n]

NewProducer ==
    [num |-> 0, acked |-> 0, base |-> Blank,
     sent |-> {[num |-> 0, screen |-> Blank]}, dirty |-> TRUE]

\* PeerChannel::Awaiting: what the OPEN carried.
Awaiting(s, frame) ==
    [linked |-> FALSE, session |-> s, last |-> frame, offset |-> frame,
     forwarded |-> frame, held |-> {}]

\* Mutant: the acks of an earlier producer count for the new one.
LinkUnseeded(b, s, ceiling) ==
    [b EXCEPT !.linked = TRUE, !.session = s, !.offset = ceiling,
              !.forwarded = 0, !.held = {}]

\* DaemonLeg::link: a leg above the ceiling, with nothing held and no ack of
\* an earlier producer left to forward.
Link(b, s, ceiling) ==
    [b EXCEPT !.linked = TRUE, !.session = s, !.offset = ceiling,
              !.forwarded = ceiling, !.held = {}]

Init ==
    /\ gen = [s \in Sessions |-> 1]
    /\ producer = NewProducer
    /\ toBridge = <<>> /\ toDaemon = <<>>
    /\ bridge = Awaiting(1, 0)
    /\ legs = 0
    /\ target = 1 /\ cursor = 0 /\ wires = 1
    /\ s2c = {} /\ c2s = {} /\ lost = 0
    /\ view = [num |-> 0, screen |-> Blank, bases |-> <<>>, resync |-> FALSE, leg |-> 0]

-----------------------------------------------------------------------------
(* The session daemon. *)

\* PTY output: every attached paced client is owed a frame.
Output(s) ==
    /\ gen[s] < MaxGen
    /\ gen' = [gen EXCEPT ![s] = @ + 1]
    /\ producer' = [producer EXCEPT !.dirty = @ \/ (bridge.linked /\ bridge.session = s)]
    /\ UNCHANGED <<link_vars, bridge, legs, mux_vars, net_vars, view>>

\* FrameProducer::encode_visible: a dump, or a diff against the acked base
\* where that is smaller (against the blank it never is).
Encodings(n, screen) ==
    {Body(n, "full", 0, NoBase, screen)}
    \cup (IF producer.base \in {NoBase, Blank} THEN {}
          ELSE {Body(n, "diff", producer.acked, producer.base, screen)})

\* FrameProducer::advance_visible, with the retransmission window.
Advanced(screen) ==
    LET n == producer.num + 1
    IN  [producer EXCEPT
            !.num = n, !.dirty = FALSE,
            !.sent = {f \in @ : f.num + Outstanding >= n}
                     \cup {[num |-> n, screen |-> screen]}]

\* send_paced_frames: one frame for all output since the last, never
\* self-acknowledged.  The floor and the ack wait only delay it.
SendFrame ==
    /\ bridge.linked /\ producer.dirty
    /\ Len(toBridge) < MaxLink /\ producer.num < MaxFrame
    /\ producer' = Advanced(Shown(bridge.session))
    /\ \E m \in Encodings(producer.num + 1, Shown(bridge.session)) :
          toBridge' = Append(toBridge, m)
    /\ UNCHANGED <<gen, toDaemon, bridge, legs, mux_vars, net_vars, view>>

\* FrameProducer::ack
Acked(p, n) ==
    IF n <= p.acked \/ n > p.num THEN p
    ELSE LET of == {f \in p.sent : f.num = n}
         IN  [p EXCEPT !.acked = n,
                       !.base = IF of = {} THEN NoBase ELSE (CHOOSE f \in of : TRUE).screen,
                       !.sent = {f \in @ : f.num >= n}]

\* Mutant: the base is dropped and nobody sends the frame that needs none.
DropBaseQuietly(p) == [p EXCEPT !.base = NoBase]

\* FRAME_ACK_RESYNC: the base goes and a frame is owed, even of an idle screen.
DropBase(p) == [p EXCEPT !.base = NoBase, !.dirty = TRUE]

\* apply_frame_ack and handle_frame_ack
HearAck ==
    /\ toDaemon # <<>>
    /\ LET ack == Head(toDaemon)
           p   == Acked(producer, ack.num)
       IN  producer' = IF ack.resync THEN DropBase(p) ELSE p
    /\ toDaemon' = Tail(toDaemon)
    /\ UNCHANGED <<gen, toBridge, bridge, legs, mux_vars, net_vars, view>>

\* The daemon routes a switch to this viewport (Tag::Switch).
RouteSwitch(s) ==
    /\ bridge.linked /\ s # bridge.session
    /\ legs < MaxLegs /\ Len(toBridge) < MaxLink
    /\ \A i \in DOMAIN toBridge : toBridge[i].kind # "switch"
    /\ toBridge' = Append(toBridge, SwitchTo(s))
    /\ UNCHANGED <<gen, producer, toDaemon, bridge, legs, mux_vars, net_vars, view>>

-----------------------------------------------------------------------------
(* The bridge in the mux peer. *)

CanSend == Cardinality(s2c) < MaxFlight

\* relay::rewrap: the number is shifted, the body is not.
Rewrap(m) == [m EXCEPT !.num = @ + bridge.offset, !.leg = legs]

\* Tag::Frame: send it and hold it in place of the one before.
Forward ==
    /\ toBridge # <<>> /\ Head(toBridge).kind # "switch" /\ CanSend
    /\ LET m == Rewrap(Head(toBridge))
       IN  /\ s2c' = s2c \cup {m}
           /\ bridge' = [bridge EXCEPT !.last = m.num, !.held = {m}]
    /\ toBridge' = Tail(toBridge)
    /\ UNCHANGED <<gen, producer, toDaemon, legs, mux_vars, c2s, lost, view>>

\* Mutant: a new leg starts above what the viewport confirmed.
RehomeCeiling_Acked == bridge.forwarded

\* The viewport can have every frame that was forwarded.
RehomeCeiling == bridge.last

\* Tag::Switch: rehome_bridge, then tell the mux daemon, once.
Rehome ==
    /\ toBridge # <<>> /\ Head(toBridge).kind = "switch" /\ CanSend /\ legs < MaxLegs
    /\ LET s == Head(toBridge).session
       IN  /\ bridge' = Link(bridge, s, RehomeCeiling)
           /\ s2c' = s2c \cup {SwitchTo(s)}
    /\ producer' = NewProducer
    /\ toBridge' = <<>> /\ toDaemon' = <<>>
    /\ legs' = legs + 1
    /\ UNCHANGED <<gen, mux_vars, c2s, lost, view>>

\* The held frame is unacknowledged past the RTO.
Retransmit ==
    /\ bridge.linked /\ bridge.held # {} /\ CanSend
    /\ s2c' = s2c \cup bridge.held
    /\ UNCHANGED <<gen, producer, link_vars, bridge, legs, mux_vars, c2s, lost, view>>

\* The heartbeat of an idle channel, or an input acknowledgement of its own.
Heartbeat ==
    /\ bridge.linked /\ CanSend
    /\ s2c' = s2c \cup {EmptyAt(bridge.last)}
    /\ UNCHANGED <<gen, producer, link_vars, bridge, legs, mux_vars, c2s, lost, view>>

\* The daemon's number for the viewport's n.
DaemonNum(b, n) == n - b.offset

\* DaemonLeg::forward_ack
ForwardAck(b, m) ==
    LET kept == {f \in b.held : f.num > m.ack}
        seen == Larger(b.forwarded, m.ack)
    IN  IF m.ack <= b.forwarded /\ ~m.resync
        THEN /\ bridge' = [b EXCEPT !.held = kept]
             /\ UNCHANGED toDaemon
        ELSE /\ bridge' = [b EXCEPT !.held = IF m.resync THEN {} ELSE kept,
                                    !.forwarded = seen]
             /\ toDaemon' = Append(toDaemon, [num |-> DaemonNum(b, seen),
                                              resync |-> m.resync])

\* handle_session_instruction, DATA: the first message links the channel.
PeerReceives(m) ==
    /\ m \in c2s /\ c2s' = c2s \ {m}
    /\ Len(toDaemon) < MaxLink
    /\ ForwardAck(IF bridge.linked THEN bridge
                  ELSE Link(bridge, bridge.session, bridge.last), m)
    /\ UNCHANGED <<gen, producer, toBridge, legs, mux_vars, s2c, lost, view>>

-----------------------------------------------------------------------------
(* The mux daemon and the viewport. *)

Usable == {<<view.bases[i].num, view.bases[i].screen>> : i \in DOMAIN view.bases}

\* The dump a diff applies to: the one shown, or one remembered behind it.
BaseFor(m) ==
    IF m.base = view.num THEN view.screen
    ELSE IF m.base < view.num /\ \E b \in Usable : b[1] = m.base
         THEN (CHOOSE b \in Usable : b[1] = m.base)[2]
         ELSE NoBase

\* remember_base
Remembered(m) ==
    LET all == Append(view.bases, [num |-> m.num, screen |-> m.to])
    IN  IF Len(all) > HistoryDepth THEN Tail(all) ELSE all

Install(m) ==
    [view EXCEPT !.num = m.num, !.screen = m.to, !.bases = Remembered(m), !.leg = m.leg]

\* Mutant: a whole screen is shown whenever it arrives.
AppliedLate(m) == IF m.kind = "full" THEN Install(m) ELSE view

\* apply_frame, without morphs and with base checksums.
AppliedFrame(m) ==
    IF m.num < view.num THEN view
    ELSE IF m.kind = "diff" /\ BaseFor(m) # m.from
    THEN [view EXCEPT !.resync = @ \/ m.base < view.num \/ BaseFor(m) # NoBase]
    ELSE IF m.num = view.num THEN view
    ELSE Install(m)

\* Mutant: a late frame moves the cursor back.
AdvanceTo(n) == n

\* SessionResume::advance_from_frame
Advance(n) == Larger(cursor, n)

\* A datagram of the peer: the mux daemon looks, the viewport applies.
Receive(m) ==
    /\ m \in s2c /\ s2c' = s2c \ {m}
    /\ IF m.kind = "switch"
       THEN target' = m.session /\ UNCHANGED <<cursor, view>>
       ELSE /\ cursor' = Advance(m.num)
            /\ view' = IF m.kind = "empty" THEN view ELSE AppliedFrame(m)
            /\ UNCHANGED target
    /\ UNCHANGED <<gen, producer, link_vars, bridge, legs, wires, c2s, lost>>

\* Every message carries the ack; the resync request is spent on one.
SendMessage ==
    /\ Cardinality(c2s) < MaxAcks
    /\ c2s' = c2s \cup {[ack |-> view.num, resync |-> view.resync]}
    /\ view' = [view EXCEPT !.resync = FALSE]
    /\ UNCHANGED <<gen, producer, link_vars, bridge, legs, mux_vars, s2c, lost>>

\* The wire died and the next one is up: a fresh peer is asked to open the
\* session again above the cursor.
Reconnect ==
    /\ wires < MaxWires /\ legs < MaxLegs
    /\ wires' = wires + 1 /\ legs' = legs + 1
    /\ bridge' = Awaiting(target, cursor)
    /\ producer' = NewProducer
    /\ toBridge' = <<>> /\ toDaemon' = <<>>
    /\ s2c' = {} /\ c2s' = {}
    /\ UNCHANGED <<gen, target, cursor, lost, view>>

Lose ==
    /\ lost < MaxLoss /\ lost' = lost + 1
    /\ \/ \E m \in s2c : s2c' = s2c \ {m} /\ UNCHANGED c2s
       \/ \E m \in c2s : c2s' = c2s \ {m} /\ UNCHANGED s2c
    /\ UNCHANGED <<gen, producer, link_vars, bridge, legs, mux_vars, view>>

-----------------------------------------------------------------------------
Daemon == SendFrame \/ HearAck \/ \E s \in Sessions : Output(s) \/ RouteSwitch(s)
Peer == Forward \/ Rehome \/ Retransmit \/ Heartbeat \/ \E m \in c2s : PeerReceives(m)
Viewport == SendMessage \/ Reconnect \/ \E m \in s2c : Receive(m)

Next == Daemon \/ Peer \/ Viewport \/ Lose

Spec == Init /\ [][Next]_vars

\* Sockets drain, every loop polls with a deadline for what it owes, and what
\* is resent for ever arrives.
Fairness ==
    /\ SF_vars(SendFrame) /\ WF_vars(HearAck) /\ SF_vars(Forward) /\ SF_vars(Rehome)
    /\ SF_vars(Retransmit) /\ SF_vars(SendMessage)
    /\ WF_vars(\E m \in s2c : Receive(m))
    /\ WF_vars(\E m \in c2s : PeerReceives(m))
    /\ SF_vars(\E m \in s2c : m \in bridge.held /\ Receive(m))
    /\ SF_vars(\E m \in c2s : m.ack = view.num /\ PeerReceives(m))
    /\ SF_vars(\E m \in c2s : m.resync /\ PeerReceives(m))

FairSpec == Spec /\ Fairness

-----------------------------------------------------------------------------
(* Properties. *)

Screens == {Blank} \cup (Sessions \X (1 .. MaxGen))
Dumps == Screens \cup {NoBase}
DaemonFrames ==
    [kind : {"full", "diff"}, num : 1 .. MaxFrame, base : 0 .. MaxFrame,
     from : Dumps, to : Screens, leg : {0}]
WireFrames ==
    [kind : {"full", "diff"}, num : Nat, base : 0 .. MaxFrame,
     from : Dumps, to : Screens, leg : 0 .. MaxLegs]
Switches == [kind : {"switch"}, session : Sessions]
Empties == [kind : {"empty"}, num : Nat]
Acks == [num : Nat, resync : BOOLEAN]

WireTypes ==
    /\ gen \in [Sessions -> 1 .. MaxGen]
    /\ legs \in 0 .. MaxLegs
    /\ target \in Sessions /\ cursor \in Nat /\ wires \in Nat /\ lost \in Nat
    /\ s2c \subseteq WireFrames \cup Switches \cup Empties
    /\ c2s \subseteq [ack : Nat, resync : BOOLEAN]
DaemonTypes ==
    /\ producer \in [num : 0 .. MaxFrame, acked : 0 .. MaxFrame, base : Dumps,
                     sent : SUBSET [num : 0 .. MaxFrame, screen : Screens],
                     dirty : BOOLEAN]
    /\ toBridge \in Seq(DaemonFrames \cup Switches)
    /\ toDaemon \in Seq(Acks)
BridgeTypes ==
    /\ bridge \in [linked : BOOLEAN, session : Sessions, last : Nat, offset : Nat,
                   forwarded : Nat, held : SUBSET WireFrames]
    /\ bridge.offset <= bridge.forwarded
ViewTypes ==
    view \in [num : Nat, screen : Screens, resync : BOOLEAN, leg : 0 .. MaxLegs,
              bases : Seq([num : Nat, screen : Screens])]

\* Every variable keeps its type; in particular no acknowledgement reaches a
\* daemon below zero (the debug_assert of DaemonLeg::forward_ack).
TypeOK == WireTypes /\ DaemonTypes /\ BridgeTypes /\ ViewTypes

InFlight == {m \in s2c \cup bridge.held : m.kind \in {"full", "diff"}}
Named ==
    {<<m.num, m.to>> : m \in InFlight} \cup Usable \cup {<<view.num, view.screen>>}

\* A frame number names one screen, over every re-home and reconnect: a frame
\* of a new leg never takes a number an earlier producer's frame had
\* (frame_offset, relay.rs:304).
OneScreenPerNumber ==
    \A a, b \in Named : a[1] = b[1] => a[2] = b[2]

\* Nothing a new leg sends is stale to a viewport that has seen only earlier
\* legs: the wedge apply_frame warns of (client.rs:3460).
NewLegLands ==
    \A m \in InFlight : m.leg > view.leg => m.num > view.num

\* Over every re-home and reconnect the viewport mirrors the session it is on
\* (module ScreenMirror): it shows a screen the session had by then, and never
\* goes back to an older one, nor to an earlier leg (apply_frame, #95).
Mirror == INSTANCE ScreenMirror WITH
    latest <- <<legs, gen[bridge.session]>>,
    shown <- <<view.leg, view.screen[2]>>
MirrorSpec == Mirror!Spec

CaughtUp == bridge.linked /\ view.screen = Shown(bridge.session)

\* Once output, switches and reconnects have stopped, the viewport comes to
\* show the session's screen and stays there, unless the model's frames are
\* used up (the mux-session wedge of handle_frame_ack, daemon.rs:1377).
Settles == <>[]CaughtUp \/ <>(producer.num = MaxFrame)
=============================================================================
