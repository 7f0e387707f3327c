---------------------------- MODULE InputStream ----------------------------
(***************************************************************************)
(* The reliable input stream of a mux session channel.  The viewport keeps *)
(* every unacknowledged keystroke in its InputOutbox and resends the whole *)
(* tail; the peer's session bridge extracts the fresh suffix (InputInbox), *)
(* queues it for the session daemon's socket, acknowledges it on the       *)
(* frames it forwards, and acknowledges its echo (EchoAck) once the shell  *)
(* should have answered.  When the wire dies the mux daemon dials a new    *)
(* one and the peer builds a new bridge from the resume cursor, while the  *)
(* old peer, its socket and the datagrams on their way to it live on.      *)
(* When the session daemon routes a switch to the viewport, the peer       *)
(* re-homes the bridge to another session in place: the leg to the daemon  *)
(* is a new one, the stream's state is kept.                               *)
(*                                                                         *)
(* A session daemon reads its socket in order and writes what it reads to  *)
(* the pty; it is not a process of its own here, so what the socket takes  *)
(* the shell has, unless the pty is stalled.  After a re-home it is the    *)
(* new session's shell.                                                    *)
(*                                                                         *)
(* The network is a set on each side: it reorders and repeats, and a       *)
(* datagram nobody receives is lost.                                       *)
(***************************************************************************)
EXTENDS Naturals, Sequences, FiniteSets, SequencesExt

CONSTANTS
    MaxTyped,      \* keystrokes
    EchoTimeout,   \* ECHO_TIMEOUT, in ticks
    MaxTime,       \* ticks
    MaxWires,      \* wires dialled, the first one included
    MaxLoss,       \* datagrams the network drops for good
    MaxSwitches,   \* re-homes to another session
    Backpressure,  \* the session daemon may leave its socket unread
    PtyStall       \* the shell's pty may stay full beyond the daemon's patience

ASSUME BoundsAssumption ==
    /\ MaxTyped \in Nat /\ EchoTimeout \in Nat /\ MaxTime \in Nat /\ MaxLoss \in Nat
    /\ MaxWires \in Nat \ {0} /\ MaxSwitches \in Nat
    /\ Backpressure \in BOOLEAN /\ PtyStall \in BOOLEAN

VARIABLES
    outbox,    \* the viewport's InputOutbox: base and buf
    late_ack,  \* newest echo acknowledgement its predictor has seen
    resume,    \* the mux daemon's SessionResume: input and echo
    wire,      \* the wire in use; those before it were given up
    bridges,   \* wire -> the peer's SessionBridge
    c2s, s2c,  \* datagrams in flight
    lost,      \* datagrams dropped so far
    switches,  \* re-homes so far
    pty,       \* bytes the shell was given, with the time of each
    dropped,   \* bytes thrown away: by a re-home, or by a daemon whose pty is full
    waited,    \* bytes a turn left in a bridge's buffer (for the properties)
    now        \* now_ms(), in ticks

peer == <<bridges, s2c, switches, pty, dropped, waited>>
vars == <<outbox, late_ack, resume, wire, c2s, lost, now, peer>>

Wires == 1..MaxWires

\* A keystroke is named by its place in the typed stream.
Typed == outbox.base + Len(outbox.buf)

\* Of the buffer for the daemon's socket only the input bytes count, each gone
\* when its record is; "full" is no state of the code but the time of the last
\* turn that left something in it.
Bridge(input, echo) ==
    [next |-> input, pending |-> <<>>, acked |-> echo, ack_due |-> FALSE, write |-> <<>>,
     full |-> 0]

Init ==
    /\ outbox = [base |-> 0, buf |-> <<>>]
    /\ late_ack = 0
    /\ resume = [input |-> 0, echo |-> 0]
    /\ wire = 1
    /\ bridges = [w \in Wires |-> Bridge(0, 0)]
    /\ c2s = {} /\ s2c = {} /\ lost = 0 /\ switches = 0
    /\ pty = <<>> /\ dropped = {} /\ waited = {}
    /\ now = 0

-----------------------------------------------------------------------------
(* The viewport. *)

Push ==
    /\ Typed < MaxTyped
    /\ outbox' = [outbox EXCEPT !.buf = Append(@, Typed + 1)]
    /\ UNCHANGED <<late_ack, resume, wire, c2s, lost, now, peer>>

\* Every message carries the whole unacknowledged tail.
SendMessage ==
    /\ outbox.buf # <<>>
    /\ c2s' = c2s \cup {[wire |-> wire, base |-> outbox.base, data |-> outbox.buf]}
    /\ UNCHANGED <<outbox, late_ack, resume, wire, lost, now, peer>>

Larger(a, b) == IF a > b THEN a ELSE b
Smaller(a, b) == IF a < b THEN a ELSE b

\* Mutant: the base moves twice over what is dropped.
AckOutboxTwice(o, upto) ==
    LET n == IF upto > o.base THEN Smaller(upto - o.base, Len(o.buf)) ELSE 0
    IN  [base |-> o.base + n + n, buf |-> SubSeq(o.buf, n + 1, Len(o.buf))]

\* InputOutbox::ack: drop what the peer has, never more than there is.
AckOutbox(o, upto) ==
    LET n == IF upto > o.base THEN Smaller(upto - o.base, Len(o.buf)) ELSE 0
    IN  [base |-> o.base + n, buf |-> SubSeq(o.buf, n + 1, Len(o.buf))]

\* The mux daemon advances its cursor from a relayed frame and the viewport
\* drops the acknowledged tail, before any test of the frame's number.
ReceiveFrame ==
    \E f \in s2c :
        /\ f.wire = wire
        /\ resume' = [input |-> Larger(resume.input, f.input_ack),
                      echo  |-> Larger(resume.echo, f.echo_ack)]
        /\ outbox' = AckOutbox(outbox, f.input_ack)
        /\ late_ack' = Larger(late_ack, f.echo_ack)
        /\ UNCHANGED <<wire, c2s, lost, now, peer>>

-----------------------------------------------------------------------------
(* The peer's loop. *)

\* EchoAck::record
Record(b, offset) ==
    LET newest == IF b.pending = <<>> THEN b.acked ELSE Last(b.pending).offset
    IN  IF offset > newest
        THEN [b EXCEPT !.pending = Append(@, [offset |-> offset, at |-> now])]
        ELSE b

\* Mutant: the overlap with what came before is not cut off.
FreshWhole(b, m) == IF m.base > b.next THEN <<>> ELSE m.data

\* Mutant: the overlap is cut one byte too long.
FreshOffByOne(b, m) ==
    IF m.base > b.next THEN <<>>
    ELSE SubSeq(m.data, b.next - m.base + 2, Len(m.data))

\* InputInbox::accept: the suffix beyond what was accepted before; nothing of
\* a message that starts after it.
Fresh(b, m) ==
    IF m.base > b.next THEN <<>>
    ELSE SubSeq(m.data, b.next - m.base + 1, Len(m.data))

\* bridge_client_message: queue the fresh suffix for the daemon's socket, owe
\* its acknowledgement and start its echo's grace period.
Accept(b, m) ==
    IF Fresh(b, m) = <<>> THEN b
    ELSE Record([b EXCEPT !.next = m.base + Len(m.data),
                          !.write = @ \o Fresh(b, m),
                          !.ack_due = TRUE], m.base + Len(m.data))

\* Mutant: a stamp matures a tick early.
MatureEarly(b) ==
    LET n == Cardinality({i \in DOMAIN b.pending : now + 1 >= b.pending[i].at + EchoTimeout})
    IN  IF n = 0 THEN b
        ELSE [b EXCEPT !.acked = b.pending[n].offset,
                       !.pending = SubSeq(@, n + 1, Len(@)),
                       !.ack_due = TRUE]

\* EchoAck::update: acknowledge what was written EchoTimeout ago.  Entries
\* are in the order of their times, so the mature ones are a prefix.
Mature(b) ==
    LET n == Cardinality({i \in DOMAIN b.pending : now >= b.pending[i].at + EchoTimeout})
    IN  IF n = 0 THEN b
        ELSE [b EXCEPT !.acked = b.pending[n].offset,
                       !.pending = SubSeq(@, n + 1, Len(@)),
                       !.ack_due = TRUE]

\* Mutant: what a full socket held back keeps its old stamp.
RestampNot(b) == b

\* EchoAck::restamp_pending: one entry, at the newest offset, from now on.
Restamp(b) ==
    IF b.pending = <<>> THEN b
    ELSE [b EXCEPT !.pending = <<[offset |-> Last(@).offset, at |-> now]>>]

\* Mutant: the re-homed bridge counts from 0.
RehomedAfresh(b) == [b EXCEPT !.next = 0, !.write = <<>>, !.ack_due = FALSE]

\* rehome_bridge: a new leg to another session's daemon, whose buffer starts
\* with an Init; what the old leg had not written is gone with it.
Rehomed(b) == [b EXCEPT !.write = <<>>, !.ack_due = FALSE]

\* How much of the buffer one non-blocking write gets rid of, and whether
\* records of other kinds (an Init, a Resize, a FrameAck) remain behind it.
Flushes(b) == IF Backpressure THEN 0..Len(b.write) ELSE {Len(b.write)}
Behind == IF Backpressure THEN BOOLEAN ELSE {FALSE}

\* How much of that the daemon gets into the pty: when the pty stays full the
\* write gives up and the rest is dropped.
Written(n) == IF PtyStall THEN 0..n ELSE {n}

\* The bridge once n bytes of its buffer are written: if that left anything,
\* the pending echoes start their grace period afresh.
Flushed(b, n, behind) ==
    LET rest == SubSeq(b.write, n + 1, Len(b.write))
    IN  IF rest = <<>> /\ ~behind THEN [b EXCEPT !.write = rest]
        ELSE [Restamp(b) EXCEPT !.write = rest, !.full = now]

\* One turn of mux_peer_loop for one channel: at most one message, then the
\* maintenance sweep.  Whether a frame is held unacknowledged (echoes then do
\* not mature), whether the daemon's records end in a Switch, and whether a
\* daemon frame or a heartbeat carries the acknowledgements are decided by the
\* frames of the channel.  An acknowledgement owed goes out with this turn; a
\* re-home forgets that it was owed.  (A switch to a session that cannot be
\* reached closes the channel and ends the stream.)
Turn(w, received, held, switch, send) ==
    LET aged == IF held THEN received ELSE Mature(received)
        homed == IF switch THEN Rehomed(aged) ELSE aged
    IN  \E n \in Flushes(homed), behind \in Behind : \E k \in Written(n) :
          LET b == Flushed(homed, n, behind)
          IN  /\ pty' = pty \o [i \in 1..k |-> [byte |-> homed.write[i], at |-> now]]
              /\ dropped' = dropped \cup (IF switch THEN ToSet(aged.write) ELSE {})
                                    \cup {homed.write[i] : i \in k + 1 .. n}
              /\ waited' = waited \cup ToSet(b.write)
              /\ b.ack_due => send
              /\ bridges' = [bridges EXCEPT ![w] = [b EXCEPT !.ack_due = FALSE]]
              /\ s2c' = IF send /\ w = wire
                        THEN s2c \cup {[wire |-> w, input_ack |-> b.next, echo_ack |-> b.acked]}
                        ELSE s2c
              /\ switch => switches < MaxSwitches
              /\ switches' = IF switch THEN switches + 1 ELSE switches

PeerReceives(m) ==
    \E held, switch, send \in BOOLEAN :
        /\ Turn(m.wire, Accept(bridges[m.wire], m), held, switch, send)
        /\ UNCHANGED <<outbox, late_ack, resume, wire, c2s, lost, now>>

\* A turn without a message: a daemon frame, a timer or a writable socket.
PeerTurns(w) ==
    \E held, switch, send \in BOOLEAN :
        /\ Turn(w, bridges[w], held, switch, send)
        /\ UNCHANGED <<outbox, late_ack, resume, wire, c2s, lost, now>>

\* Any time may pass between two turns: the poll sleeps until an echo matures,
\* a heartbeat is due or a descriptor is ready.
Tick ==
    /\ now < MaxTime
    /\ now' = now + 1
    /\ UNCHANGED <<outbox, late_ack, resume, wire, c2s, lost, peer>>

\* Mutant: the echo is taken to be where the input is, as the relay once did.
ReconnectMirrored ==
    /\ wire < MaxWires
    /\ wire' = wire + 1
    /\ bridges' = [bridges EXCEPT ![wire + 1] = Bridge(resume.input, resume.input)]
    /\ s2c' = {}
    /\ UNCHANGED <<outbox, late_ack, resume, c2s, lost, switches, pty, dropped, waited, now>>

\* Mutant: the cursor is taken to be where the typing is.
ReconnectAtTyped ==
    /\ wire < MaxWires
    /\ wire' = wire + 1
    /\ bridges' = [bridges EXCEPT ![wire + 1] = Bridge(Typed, resume.echo)]
    /\ s2c' = {}
    /\ UNCHANGED <<outbox, late_ack, resume, c2s, lost, switches, pty, dropped, waited, now>>

\* The mux daemon gives the wire up and dials a new one: it hears no more of
\* the old, and the new peer's bridge resumes from the cursor.
Reconnect ==
    /\ wire < MaxWires
    /\ wire' = wire + 1
    /\ bridges' = [bridges EXCEPT ![wire + 1] = Bridge(resume.input, resume.echo)]
    /\ s2c' = {}
    /\ UNCHANGED <<outbox, late_ack, resume, c2s, lost, switches, pty, dropped, waited, now>>

LoseFrame ==
    /\ lost < MaxLoss
    /\ \E f \in s2c : s2c' = s2c \ {f}
    /\ lost' = lost + 1
    /\ UNCHANGED <<outbox, late_ack, resume, wire, bridges, c2s, switches, pty, dropped, waited, now>>

LoseMessage ==
    /\ lost < MaxLoss
    /\ \E m \in c2s : c2s' = c2s \ {m}
    /\ lost' = lost + 1
    /\ UNCHANGED <<outbox, late_ack, resume, wire, now, peer>>

Next ==
    \/ Push \/ SendMessage \/ ReceiveFrame
    \/ \E m \in c2s : PeerReceives(m)
    \/ \E w \in 1..wire : PeerTurns(w)
    \/ Tick \/ Reconnect \/ LoseFrame \/ LoseMessage

Spec == Init /\ [][Next]_vars

\* The viewport resends its tail on its timer and the peer acknowledges on its
\* heartbeat; both loops and the daemon keep running, and what is sent often
\* enough arrives.
Heartbeat(w) == w = wire /\ PeerTurns(w) /\ s2c' # s2c

Drain(w) == bridges[w].write # <<>> /\ PeerTurns(w) /\ Len(pty') > Len(pty)

ReceiveTail(m) ==
    /\ m.wire = wire
    /\ m.base + Len(m.data) = Typed
    /\ Fresh(bridges[wire], m) # <<>>
    /\ PeerReceives(m)

Fairness ==
    /\ WF_vars(SendMessage)
    /\ SF_vars(ReceiveFrame)
    /\ SF_vars(\E m \in c2s : ReceiveTail(m))
    /\ WF_vars(\E w \in 1..wire : Heartbeat(w))
    /\ \A w \in Wires : WF_vars(w <= wire /\ Drain(w))

LiveSpec == Spec /\ Fairness
-----------------------------------------------------------------------------
(* Properties. *)

PtyBytes == [i \in 1..Len(pty) |-> pty[i].byte]

Bytes == 1..MaxTyped
Stamp == [offset : Bytes, at : 0..MaxTime]

BridgesDuring ==
    [next : 0..MaxTyped, pending : Seq(Stamp), acked : 0..MaxTyped,
     ack_due : BOOLEAN, write : Seq(Bytes), full : 0..MaxTime]
BridgesBetween == {b \in BridgesDuring : ~b.ack_due}
Messages == [wire : Wires, base : 0..MaxTyped, data : Seq(Bytes)]
Frames == [wire : Wires, input_ack : 0..MaxTyped, echo_ack : 0..MaxTyped]

ViewportTypes ==
    /\ outbox \in [base : 0..MaxTyped, buf : Seq(Bytes)] /\ Typed <= MaxTyped
    /\ late_ack \in 0..MaxTyped
    /\ resume \in [input : 0..MaxTyped, echo : 0..MaxTyped]
PeerTypes ==
    /\ wire \in Wires
    /\ bridges \in [Wires -> BridgesBetween]
    /\ pty \in Seq([byte : Bytes, at : 0..MaxTime])
    /\ dropped \subseteq Bytes /\ waited \subseteq Bytes
NetTypes ==
    /\ \A m \in c2s : m \in Messages /\ m.base + Len(m.data) <= MaxTyped
    /\ s2c \subseteq Frames
ClockTypes == lost \in 0..MaxLoss /\ now \in 0..MaxTime /\ switches \in 0..MaxSwitches

\* Outbox, cursor, bridges, network, shell and clock keep their types, and no
\* turn of the peer's loop ends with an acknowledgement owed.
TypeOK == ViewportTypes /\ PeerTypes /\ NetTypes /\ ClockTypes

\* On one wire the shell reads the typed bytes in order, each at most once, and
\* all but the dropped ones, whatever the network repeats or reorders, however
\* the socket splits the writes and wherever a re-home cuts them.
Stream == INSTANCE ByteStream WITH
    typed <- [i \in 1..Typed |-> i], read <- PtyBytes,
    at <- bridges[1].next - Len(bridges[1].write), skipped <- dropped
StreamSpec == Stream!Spec

Read(k) == \E i \in DOMAIN pty : pty[i].byte = k
Buffered(k) == \E w \in Wires : \E i \in DOMAIN bridges[w].write : bridges[w].write[i] = k

\* RFC 0008, "input_ack is the input it has bridged to the daemon": a keystroke
\* leaves the outbox only when the shell has it or a bridge holds it for the
\* daemon's socket.  The code keeps that of a channel that is never re-homed.
AckedInHand == \A k \in 1..outbox.base : Read(k) \/ Buffered(k)

\* Over reconnects and re-homes a keystroke that left the outbox is with the
\* shell, in a bridge's buffer, or was thrown away with a re-homed bridge's leg
\* (or by a daemon whose pty stayed full).
AckedOrDropped == \A k \in 1..outbox.base : Read(k) \/ Buffered(k) \/ k \in dropped

\* The tail the viewport resends after a reconnect starts at or below what the
\* new bridge expects: above it, accept would drop it as a gap for ever.
NoResumeGap == outbox.base <= bridges[wire].next

\* Over reconnects and re-homes no keystroke is forgotten unless it was thrown
\* away: what is in the outbox the bridge will take, and what left it is in hand
\* (SessionResume, rehome_bridge, bridge_client_message).
InputKept == NoResumeGap /\ AckedOrDropped

\* The shell has had byte k for the grace period.
Aged(k) == \E i \in DOMAIN pty : pty[i].byte = k /\ now >= pty[i].at + EchoTimeout

\* RFC 0008, "only once it has been with the daemon long enough for the echo to
\* be in the frame": an echo acknowledgement that reached the viewport covers
\* bytes the shell has had for the grace period, but for those that had to wait
\* in a bridge's buffer or were thrown away (EchoAck, SessionResume::echo).
PromptEchoAged == \A k \in 1..late_ack : Aged(k) \/ k \in dropped \cup waited

\* And for those that had to: a bridge acknowledges an echo only a grace period
\* after the last turn that left something in its buffer.
GraceRestarts ==
    [][\A w \in 1..wire : bridges'[w].acked > bridges[w].acked
                              => now >= bridges[w].full + EchoTimeout]_vars

Drained == outbox.buf = <<>> /\ \A k \in 1..Typed : Read(k) \/ k \in dropped

\* Once the user stops typing every keystroke has left the outbox and reached
\* the shell, whatever the wire lost and although it was redialled, but for
\* those a re-home threw away.
Delivered == <>[]Drained
=============================================================================
