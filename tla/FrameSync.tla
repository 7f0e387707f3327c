----------------------------- MODULE FrameSync -----------------------------
(***************************************************************************)
(* The screen half of a roaming posh connection: the server loop's frame   *)
(* production (server_loop, server.rs), the FrameProducer it drives        *)
(* (posh-proto framesync/producer.rs), the datagram network between, and   *)
(* the viewport's frame application (process_frame / apply_frame,          *)
(* client.rs).                                                             *)
(*                                                                         *)
(* A screen is named, never drawn: <<e, g>> is the screen after the e-th   *)
(* change of broadcast source (even: the session's terminal, odd: the      *)
(* escape-to-shell overlay) at generation g of that source.  The bytes of  *)
(* a dump, its diff and its checksum are abstracted to the screen they     *)
(* rebuild: a diff rebuilds its target from its own base and either        *)
(* garbage or nothing from any other.                                      *)
(*                                                                         *)
(* A frame is delivered at most once, in any order, or lost: duplicates of *)
(* a datagram are rejected below, by the replay window of crypto.rs.       *)
(***************************************************************************)
EXTENDS Integers, Sequences, FiniteSets

CONSTANTS
    MaxGen,        \* bound: generations of a terminal
    MaxEpoch,      \* bound: changes of the broadcast source
    MaxFrame,      \* bound: frames the producer makes
    MaxRows,       \* bound: rows the session pushes into scrollback
    MaxFlight,     \* bound: datagrams in flight, each way
    MaxLoss,       \* bound: datagrams the network loses, either way
    MaxUser,       \* bound: the user's resync, escape and quit requests
    Outstanding,   \* frames FrameProducer retains for a late ack (8)
    HistoryDepth,  \* BASE_HISTORY_DEPTH (8); 0: POSH_BASE_HISTORY=off
    Morph,         \* the peer advertises CAP_MORPH
    BaseSum,       \* the peer advertises CAP_BASE_SUM
    Scrollback     \* the peer advertises CAP_SCROLLBACK and not v2

ASSUME BoundsAssumption ==
    /\ MaxGen \in Nat \ {0} /\ MaxEpoch \in Nat /\ MaxFrame \in Nat
    /\ MaxRows \in Nat
    /\ MaxFlight \in Nat /\ MaxLoss \in Nat /\ MaxUser \in Nat
ASSUME DepthAssumption == Outstanding \in Nat \ {0} /\ HistoryDepth \in Nat
ASSUME CapsAssumption ==
    Morph \in BOOLEAN /\ BaseSum \in BOOLEAN /\ Scrollback \in BOOLEAN

VARIABLES
    \* ---- the server's terminals and loop state (server_loop) ----
    gen,           \* generation of the session's terminal
    ogen,          \* generation of the overlay's terminal
    epoch,         \* changes of broadcast source so far; odd: overlay up
    pty_open,      \* the session's shell still runs
    alt,           \* the session's terminal shows its alternate screen
    last_gen,      \* generation the newest visible frame was made from
    force_frame,   \* a visible frame is owed even if the screen is clean
    shutdown,      \* the final handshake has begun
    exited,        \* "no", "attested" (client confirmed), "expired" (grace)
    has_remote,    \* a client has been heard
    \* ---- scrollback v1 accounting (server_loop) ----
    sb_total,      \* rows the session pushed into scrollback
    sb_floor, sb_high, acked_sb_total, current_is_sb, last_was_sb,
    \* ---- FrameProducer ----
    current,       \* [num, data, sb]: the newest frame
    acked_num,     \* last frame the client confirmed
    acked_data,    \* that frame's dump, or NoBase
    outstanding,   \* frames behind current, kept for a late ack
    last_visible_num, visible_directly_acked,
    \* ---- the network ----
    s2c, c2s,      \* datagrams in flight
    lost,          \* datagrams lost so far
    \* ---- the viewport (ClientState) ----
    applied_num,   \* frame number applied through
    applied_data,  \* dump of the last frame applied whole
    server_term,   \* the screen of the local terminal model
    base_history,  \* recently applied dumps, <<num, dump>>, oldest first
    scrollback,    \* rows appended to the local ring, by number
    flags,         \* one-shot requests waiting to be sent
    quit,          \* the user asked to leave (sticky SHUTDOWN flag)
    shutdown_seen, \* a frame carried FLAG_SHUTDOWN
    client_up,     \* the viewport is running
    requests       \* the user's requests so far

term_vars == <<gen, ogen, epoch, pty_open, alt, sb_total>>
sb_vars == <<sb_floor, sb_high, acked_sb_total, current_is_sb, last_was_sb>>
loop_vars == <<last_gen, force_frame, shutdown, exited, has_remote>>
producer_vars == <<current, acked_num, acked_data, outstanding,
                   last_visible_num, visible_directly_acked>>
net_vars == <<s2c, c2s, lost>>
screen_vars == <<applied_num, applied_data, server_term, base_history, scrollback>>
user_vars == <<flags, quit, shutdown_seen, client_up, requests>>
client_vars == <<screen_vars, user_vars>>
vars == <<term_vars, sb_vars, loop_vars, producer_vars, net_vars, client_vars>>

-----------------------------------------------------------------------------
(* Screens and messages. *)

Empty   == <<0, 0>>          \* frame 0: the blank state both sides share
Garbage == <<0, -1>>         \* what a diff leaves on a base it was not made for
NoBase  == <<0, -2>>         \* acked_data = None
Real    == (0 .. MaxEpoch) \X (0 .. MaxGen)

Overlay == epoch % 2 = 1
Src     == <<epoch, IF Overlay THEN ogen ELSE gen>>
SrcGen  == IF Overlay THEN ogen ELSE gen

Larger(a, b) == IF a >= b THEN a ELSE b

Requests == {"resync", "escape"}
Kinds    == {"full", "diff", "morph", "scrollback", "empty"}

\* A ServerFrame: `from` is the dump a diff or morph was made from, `to` the
\* screen the body rebuilds, (lo, hi] the rows of a scrollback body.
Frame(num, kind, base, from, to, lo, hi, bye) ==
    [num |-> num, kind |-> kind, base |-> base, from |-> from, to |-> to,
     lo |-> lo, hi |-> hi, bye |-> bye]

EmptyBody(num, bye) == Frame(num, "empty", 0, NoBase, Empty, 0, 0, bye)

\* FrameProducer::encode_visible of frame f against the acked base.  Whether
\* a delta is smaller than the dump, or a morph can express the change, is
\* data; a diff against frame 0's empty dump is never smaller.
VisibleBodies(f, num, base, bye) ==
    {Frame(f.num, "full", 0, NoBase, f.data, 0, 0, bye)}
    \cup (IF base = NoBase THEN {}
          ELSE IF Morph THEN {Frame(f.num, "morph", num, base, f.data, 0, 0, bye)}
          ELSE IF base = Empty THEN {}
          ELSE {Frame(f.num, "diff", num, base, f.data, 0, 0, bye)})

\* The scrollback body: rows past what the client confirmed, anchored at its
\* ack as it stands when the body is (re)built.
ScrollbackBody(f, bye) ==
    Frame(f.num, "scrollback", acked_num, NoBase, Empty,
          Larger(acked_sb_total, sb_floor), f.sb, bye)

Message(fl) == [ack |-> applied_num, flags |-> fl, quit |-> quit]

-----------------------------------------------------------------------------
Init ==
    /\ gen = 1 /\ ogen = 1 /\ epoch = 0 /\ pty_open = TRUE /\ alt = FALSE
    /\ sb_total = 0
    /\ last_gen = 1 /\ force_frame = FALSE /\ shutdown = FALSE
    /\ exited = "no" /\ has_remote = FALSE
    /\ sb_floor = 0 /\ sb_high = 0 /\ acked_sb_total = 0
    /\ current_is_sb = FALSE /\ last_was_sb = FALSE
    /\ current = [num |-> 0, data |-> Empty, sb |-> 0]
    /\ acked_num = 0 /\ acked_data = Empty /\ outstanding = {}
    /\ last_visible_num = 0 /\ visible_directly_acked = TRUE
    /\ s2c = {} /\ c2s = {} /\ lost = 0
    /\ applied_num = 0 /\ applied_data = Empty /\ server_term = Empty
    /\ base_history = <<>> /\ scrollback = <<>>
    /\ flags = {} /\ quit = FALSE /\ shutdown_seen = FALSE
    /\ client_up = TRUE /\ requests = 0

-----------------------------------------------------------------------------
(* The shells behind the server. *)

Running == exited = "no"

\* PTY output moves the model; some of it scrolls a row off the top of the
\* primary screen, some of it enters or leaves the alternate screen.
ShellOutput ==
    /\ Running /\ pty_open /\ gen < MaxGen
    /\ gen' = gen + 1
    /\ alt' \in BOOLEAN
    /\ \E scrolled \in {0, 1} :
          /\ sb_total + scrolled <= MaxRows
          /\ scrolled = 1 => ~alt \/ ~alt'
          /\ sb_total' = sb_total + scrolled
    /\ UNCHANGED <<ogen, epoch, pty_open, sb_vars, loop_vars, producer_vars,
                   net_vars, client_vars>>

OverlayOutput ==
    /\ Running /\ Overlay /\ ogen < MaxGen
    /\ ogen' = ogen + 1
    /\ UNCHANGED <<gen, epoch, pty_open, alt, sb_total, sb_vars, loop_vars,
                   producer_vars, net_vars, client_vars>>

\* Mutant: nothing repaints the session.
OverlayExitQuietly ==
    /\ Running /\ Overlay /\ epoch < MaxEpoch
    /\ epoch' = epoch + 1
    /\ UNCHANGED <<gen, ogen, pty_open, alt, sb_total, sb_vars, loop_vars,
                   producer_vars, net_vars, client_vars>>

\* The overlay shell ended: back to the session, and one frame to repaint it.
OverlayExit ==
    /\ Running /\ Overlay /\ epoch < MaxEpoch
    /\ epoch' = epoch + 1
    /\ force_frame' = TRUE
    /\ UNCHANGED <<gen, ogen, pty_open, alt, sb_total, sb_vars, last_gen,
                   shutdown, exited, has_remote, producer_vars, net_vars, client_vars>>

\* EOF on the PTY begins the shutdown handshake, unless the client already did.
ShellExit ==
    /\ Running /\ pty_open
    /\ Overlay => epoch < MaxEpoch
    /\ pty_open' = FALSE
    /\ IF shutdown THEN UNCHANGED <<shutdown, force_frame, epoch>>
       ELSE /\ shutdown' = TRUE
            /\ force_frame' = TRUE
            /\ epoch' = IF Overlay THEN epoch + 1 ELSE epoch
    /\ UNCHANGED <<gen, ogen, alt, sb_total, sb_vars, last_gen, exited, has_remote,
                   producer_vars, net_vars, client_vars>>

-----------------------------------------------------------------------------
(* One turn of the server's frame production.  Time is abstracted to what   *)
(* is possible: a fresh frame needs the send interval to have passed, a     *)
(* retransmission the (longer) RTO, so a retransmission never overtakes     *)
(* fresh content that is wanted.                                            *)

Dirty == SrcGen # last_gen

\* FrameProducer::visible_frame_leapt
Leapt == acked_num > last_visible_num /\ ~visible_directly_acked

\* Mutant: no nudge.
ForcedOnlyOnDemand == force_frame

\* force_frame after the #117 anti-quiescence nudge at the top of the turn.
Forced ==
    \/ force_frame
    \/ ~Dirty /\ ~shutdown /\ acked_num >= current.num /\ Leapt

WantVisible == Dirty \/ Forced

WantScrollback ==
    /\ Scrollback /\ has_remote
    /\ ~Overlay /\ ~alt /\ ~Forced /\ ~shutdown
    /\ sb_total > sb_high
    /\ sb_total > Larger(acked_sb_total, sb_floor)
    /\ acked_data # NoBase

MakeScrollback == WantScrollback /\ (~WantVisible \/ ~last_was_sb)

CanSend == Running /\ has_remote /\ Cardinality(s2c) < MaxFlight

\* Mutant: every frame is retained.
RotateUnbounded(next) ==
    current' = next /\ outstanding' = outstanding \cup {current}

\* FrameProducer::rotate_current.  Frames are numbered one after the other, so
\* the newest Outstanding of them are those no further behind than that.
Rotate(next) ==
    /\ current' = next
    /\ outstanding' = {f \in outstanding \cup {current} : f.num + Outstanding >= next.num}

\* FrameProducer::advance_visible
AdvanceVisible(dump, sb) ==
    /\ last_visible_num' = current.num + 1
    /\ visible_directly_acked' = FALSE
    /\ Rotate([num |-> current.num + 1, data |-> dump, sb |-> sb])
    /\ UNCHANGED <<acked_num, acked_data>>

\* FrameProducer::advance_scrollback: inherits the confirmed base (#95)
AdvanceScrollback(sb) ==
    /\ Rotate([num |-> current.num + 1,
               data |-> IF acked_data # NoBase THEN acked_data ELSE current.data,
               sb |-> sb])
    /\ UNCHANGED <<acked_num, acked_data, last_visible_num,
                   visible_directly_acked>>

\* Mutant: a visible frame claims the rows announced so far.
VisibleClaimsSent == sb_high

\* The rows a visible frame carries: those confirmed already (finding #1).
VisibleRows == acked_sb_total

SendVisible ==
    /\ CanSend /\ WantVisible /\ ~MakeScrollback /\ current.num < MaxFrame
    /\ AdvanceVisible(Src, VisibleRows)
    /\ last_gen' = SrcGen
    /\ force_frame' = FALSE
    /\ current_is_sb' = FALSE
    /\ last_was_sb' = FALSE
    /\ \E m \in VisibleBodies(current', acked_num, acked_data, shutdown) :
          s2c' = s2c \cup {m}
    /\ UNCHANGED <<term_vars, sb_floor, sb_high, acked_sb_total, shutdown,
                   exited, has_remote, c2s, lost, client_vars>>

SendScrollback ==
    /\ CanSend /\ MakeScrollback /\ current.num < MaxFrame
    /\ AdvanceScrollback(sb_total)
    /\ sb_high' = sb_total
    /\ current_is_sb' = TRUE
    /\ last_was_sb' = TRUE
    /\ s2c' = s2c \cup {ScrollbackBody(current', shutdown)}
    /\ UNCHANGED <<term_vars, sb_floor, acked_sb_total, loop_vars, c2s, lost,
                   client_vars>>

\* The newest frame is unacked past the RTO: rebuild its body and resend it.
Retransmit ==
    /\ CanSend /\ ~WantVisible /\ ~MakeScrollback
    /\ acked_num < current.num
    /\ \E m \in IF current_is_sb THEN {ScrollbackBody(current, shutdown)}
                ELSE VisibleBodies(current, acked_num, acked_data, shutdown) :
          s2c' = s2c \cup {m}
    /\ UNCHANGED <<term_vars, sb_vars, loop_vars, producer_vars, c2s, lost,
                   client_vars>>

\* A heartbeat or a prompt input ack: no body, but the flags and the turn's
\* nudge stand.  An unacked frame is retransmitted before either is due.
SendEmpty ==
    /\ CanSend /\ acked_num >= current.num
    /\ force_frame' = Forced
    /\ s2c' = s2c \cup {EmptyBody(current.num, shutdown)}
    /\ UNCHANGED <<term_vars, sb_vars, last_gen, shutdown, exited, has_remote,
                   producer_vars, c2s, lost, client_vars>>

\* Mutant: the owed frame is forgotten.
FinalFrameSent == gen = last_gen /\ acked_num >= current.num

FinalStateAcked == gen = last_gen /\ ~force_frame /\ acked_num >= current.num

\* The server leaves once the final state is confirmed.  (The loop also waits
\* for the echo ack: module InputStream; here it may leave that much earlier.)
ExitAttested ==
    /\ Running /\ shutdown /\ FinalStateAcked
    /\ exited' = "attested"
    /\ UNCHANGED <<term_vars, sb_vars, last_gen, force_frame, shutdown,
                   has_remote, producer_vars, net_vars, client_vars>>

\* SHUTDOWN_GRACE passed, or no peer is reachable.
ExitExpired ==
    /\ Running /\ shutdown
    /\ exited' = "expired"
    /\ UNCHANGED <<term_vars, sb_vars, last_gen, force_frame, shutdown,
                   has_remote, producer_vars, net_vars, client_vars>>

-----------------------------------------------------------------------------
(* A client message at the server. *)

\* Mutant: a late ack confirms the newest frame.
HeldNewest(n) == {current}

\* The frame n as the producer still holds it: none or one.
Held(n) == {f \in outstanding \cup {current} : f.num = n}

\* FrameProducer::ack, then drop_acked_base if the message asks for a resync.
Ack(n, resync) ==
    IF n <= acked_num \/ n > current.num
    THEN /\ acked_data' = IF resync THEN NoBase ELSE acked_data
         /\ UNCHANGED <<acked_num, outstanding, visible_directly_acked,
                        acked_sb_total>>
    ELSE LET held == Held(n)
         IN  /\ acked_num' = n
             /\ visible_directly_acked' =
                    (visible_directly_acked \/ n = last_visible_num)
             /\ acked_data' = IF resync \/ held = {} THEN NoBase
                              ELSE (CHOOSE f \in held : TRUE).data
             /\ acked_sb_total' =
                    IF held = {} THEN acked_sb_total
                    ELSE Larger(acked_sb_total, (CHOOSE f \in held : TRUE).sb)
             /\ outstanding' = {f \in outstanding : f.num >= n}

ReceiveMessage(m) ==
    LET quits   == m.quit /\ ~shutdown
        escapes == "escape" \in m.flags /\ ~Overlay /\ ~m.quit /\ ~shutdown
        resync  == "resync" \in m.flags
        floor   == IF has_remote THEN sb_floor ELSE sb_total
    IN  /\ Running /\ m \in c2s /\ c2s' = c2s \ {m}
        /\ escapes => epoch < MaxEpoch
        /\ has_remote' = TRUE
        /\ shutdown' = (shutdown \/ m.quit)
        /\ epoch' = IF escapes THEN epoch + 1 ELSE epoch
        /\ ogen' = IF escapes THEN 1 ELSE ogen
        /\ Ack(m.ack, resync)
        /\ force_frame' = (force_frame \/ quits \/ escapes \/ resync)
        /\ sb_floor' = floor
        /\ sb_high' = Larger(sb_high, floor)
        /\ UNCHANGED <<gen, pty_open, alt, sb_total, last_gen, exited,
                       current_is_sb, last_was_sb, current, last_visible_num,
                       s2c, lost, client_vars>>

-----------------------------------------------------------------------------
(* A frame at the viewport: process_frame, then apply_frame. *)

\* Mutant: a delta is applied to whatever is on screen.
BaseOnScreen(m) == applied_data

Remembered(n) == {i \in DOMAIN base_history : base_history[i][1] = n}

\* The dump a delta applies to: the one on screen, or for a diff anchored
\* behind us one still in base_history.  NoBase: neither.
BaseFor(m) ==
    IF m.base = applied_num THEN applied_data
    ELSE IF m.kind = "diff" /\ m.base < applied_num /\ Remembered(m.base) # {}
         THEN base_history[CHOOSE i \in Remembered(m.base) : TRUE][2]
         ELSE NoBase

\* remember_base
Remember(n, dump) ==
    IF HistoryDepth = 0 THEN <<>>
    ELSE LET all == Append(base_history, <<n, dump>>)
         IN  IF Len(all) > HistoryDepth THEN Tail(all) ELSE all

Stale(m) == m.num < applied_num

\* Nothing to do: a heartbeat, a frame behind us, or one applied already.
Ignore(m) ==
    /\ \/ m.kind = "empty"
       \/ Stale(m)
       \/ m.kind \in {"full", "scrollback"} /\ m.num = applied_num
       \/ m.kind = "scrollback" /\ m.base # applied_num
    /\ UNCHANGED <<screen_vars, flags>>

\* Scrollback growth: rows join the ring, the screen stays.
AppendRows(m) ==
    /\ m.kind = "scrollback" /\ m.num > applied_num /\ m.base = applied_num
    /\ scrollback' = scrollback \o [i \in 1 .. m.hi - m.lo |-> m.lo + i]
    /\ applied_num' = m.num
    /\ UNCHANGED <<applied_data, server_term, base_history, flags>>

\* Advanced: the whole dump is known.
Install(m, screen) ==
    /\ applied_num' = m.num
    /\ applied_data' = screen
    /\ server_term' = screen
    /\ base_history' = Remember(m.num, screen)
    /\ UNCHANGED <<scrollback, flags>>

ApplyFull(m) ==
    /\ m.kind = "full" /\ m.num > applied_num
    /\ Install(m, m.to)

\* No usable base.  A base behind us that we no longer hold, or one whose
\* checksum differs, needs a keyframe; a base ahead of us only a retransmit.
RejectDelta(m) ==
    /\ m.kind \in {"diff", "morph"} /\ ~Stale(m)
    /\ LET base == BaseFor(m)
       IN  \/ /\ base = NoBase
              /\ flags' = IF m.base < applied_num THEN flags \cup {"resync"} ELSE flags
           \/ /\ base # NoBase /\ m.kind = "diff" /\ BaseSum /\ base # m.from
              /\ flags' = flags \cup {"resync"}
           \/ /\ base # NoBase /\ m.num = applied_num
              /\ m.kind = "diff" /\ BaseSum => base = m.from
              /\ UNCHANGED flags
    /\ UNCHANGED screen_vars

\* A diff against its base rebuilds the target; against other bytes it is
\* undecodable (ReackAndWait, which asks for a keyframe) or silently wrong.
ApplyDiff(m) ==
    /\ m.kind = "diff" /\ m.num > applied_num
    /\ LET base == BaseFor(m)
       IN  /\ base # NoBase
           /\ \/ base = m.from /\ Install(m, m.to)
              \/ ~BaseSum /\ base # m.from /\ Install(m, Garbage)
              \/ /\ ~BaseSum /\ base # m.from
                 /\ flags' = flags \cup {"resync"}
                 /\ UNCHANGED screen_vars

\* Mutant: a morph is played without looking at its base.
ApplyMorphUnanchored(m) ==
    /\ m.kind = "morph" /\ m.num > applied_num
    /\ applied_num' = m.num
    /\ server_term' = IF server_term = m.from THEN m.to ELSE Garbage
    /\ UNCHANGED <<applied_data, base_history, scrollback, flags>>

\* A morph plays escapes onto the live model and leaves applied_data alone.
ApplyMorph(m) ==
    /\ m.kind = "morph" /\ m.num > applied_num /\ m.base = applied_num
    /\ applied_num' = m.num
    /\ server_term' = IF server_term = m.from THEN m.to ELSE Garbage
    /\ UNCHANGED <<applied_data, base_history, scrollback, flags>>

ReceiveFrame(m) ==
    /\ client_up /\ m \in s2c /\ s2c' = s2c \ {m}
    /\ shutdown_seen' = (shutdown_seen \/ m.bye)
    /\ \/ Ignore(m)
       \/ AppendRows(m)
       \/ ApplyFull(m)
       \/ RejectDelta(m)
       \/ ApplyDiff(m)
       \/ ApplyMorph(m)
    /\ UNCHANGED <<term_vars, sb_vars, loop_vars, producer_vars, c2s, lost,
                   quit, client_up, requests>>

-----------------------------------------------------------------------------
(* The viewport's other steps. *)

\* An ack, a heartbeat or a retransmission: always the whole state, and the
\* one-shot flags are spent on it.  The message that follows a shutdown frame
\* is the last.
SendMessage ==
    /\ client_up /\ Cardinality(c2s) < MaxFlight
    /\ c2s' = c2s \cup {Message(flags)}
    /\ flags' = {}
    /\ client_up' = ~shutdown_seen
    /\ UNCHANGED <<term_vars, sb_vars, loop_vars, producer_vars, s2c, lost,
                   screen_vars, quit, shutdown_seen, requests>>

UserRequest(r) ==
    /\ client_up /\ requests < MaxUser
    /\ requests' = requests + 1
    /\ flags' = flags \cup {r}
    /\ UNCHANGED <<term_vars, sb_vars, loop_vars, producer_vars, net_vars,
                   screen_vars, quit, shutdown_seen, client_up>>

\* The quit sequence, SIGTERM or EOF on the tty.
UserQuit ==
    /\ client_up /\ ~quit /\ requests < MaxUser
    /\ requests' = requests + 1
    /\ quit' = TRUE
    /\ UNCHANGED <<term_vars, sb_vars, loop_vars, producer_vars, net_vars,
                   screen_vars, flags, shutdown_seen, client_up>>

\* The quit went unanswered for SHUTDOWN_GRACE.
GiveUp ==
    /\ client_up /\ quit
    /\ client_up' = FALSE
    /\ UNCHANGED <<term_vars, sb_vars, loop_vars, producer_vars, net_vars,
                   screen_vars, flags, quit, shutdown_seen, requests>>

LoseFrame(m) ==
    /\ lost < MaxLoss /\ m \in s2c
    /\ s2c' = s2c \ {m}
    /\ lost' = lost + 1
    /\ UNCHANGED <<term_vars, sb_vars, loop_vars, producer_vars, c2s, client_vars>>

LoseMessage(m) ==
    /\ lost < MaxLoss /\ m \in c2s
    /\ c2s' = c2s \ {m}
    /\ lost' = lost + 1
    /\ UNCHANGED <<term_vars, sb_vars, loop_vars, producer_vars, s2c, client_vars>>

-----------------------------------------------------------------------------
Shells == ShellOutput \/ OverlayOutput \/ OverlayExit \/ ShellExit

Server ==
    \/ SendVisible \/ SendScrollback \/ Retransmit \/ SendEmpty
    \/ ExitAttested \/ ExitExpired
    \/ \E m \in c2s : ReceiveMessage(m)

Viewport ==
    \/ SendMessage \/ GiveUp \/ UserQuit
    \/ \E r \in Requests : UserRequest(r)
    \/ \E m \in s2c : ReceiveFrame(m)

Network ==
    \/ \E m \in s2c : LoseFrame(m)
    \/ \E m \in c2s : LoseMessage(m)

Next == Shells \/ Server \/ Viewport \/ Network

Spec == Init /\ [][Next]_vars

\* Both loops poll with a deadline for whatever they owe, so what stays due is
\* sent, and a datagram that is not lost arrives in the end, in any order.
\* Sends are strongly fair because MaxFlight may hold them back for a while.
Fairness ==
    /\ SF_vars(SendVisible) /\ SF_vars(SendScrollback) /\ SF_vars(Retransmit)
    /\ SF_vars(SendMessage)
    /\ WF_vars(\E m \in s2c : ReceiveFrame(m))
    /\ WF_vars(\E m \in c2s : ReceiveMessage(m))

FairSpec == Spec /\ Fairness

-----------------------------------------------------------------------------
(* Properties. *)

Screens == Real \cup {Garbage}
Bodies == [num : 0 .. MaxFrame, kind : Kinds, base : 0 .. MaxFrame,
           from : Real \cup {NoBase}, to : Real,
           lo : 0 .. MaxRows, hi : 0 .. MaxRows, bye : BOOLEAN]
Messages == [ack : 0 .. MaxFrame, flags : SUBSET Requests, quit : BOOLEAN]
Frames == [num : 0 .. MaxFrame, data : Real, sb : 0 .. MaxRows]

FlagTypes ==
    /\ pty_open \in BOOLEAN /\ alt \in BOOLEAN
    /\ force_frame \in BOOLEAN /\ shutdown \in BOOLEAN /\ has_remote \in BOOLEAN
    /\ current_is_sb \in BOOLEAN /\ last_was_sb \in BOOLEAN
    /\ visible_directly_acked \in BOOLEAN
    /\ quit \in BOOLEAN /\ shutdown_seen \in BOOLEAN /\ client_up \in BOOLEAN

LoopTypes ==
    /\ gen \in 1 .. MaxGen /\ ogen \in 1 .. MaxGen /\ epoch \in 0 .. MaxEpoch
    /\ last_gen \in 1 .. MaxGen /\ exited \in {"no", "attested", "expired"}
    /\ sb_total \in 0 .. MaxRows /\ sb_floor \in 0 .. MaxRows
    /\ sb_high \in 0 .. MaxRows /\ acked_sb_total \in 0 .. MaxRows

ProducerTypes ==
    /\ current \in Frames
    /\ acked_num \in 0 .. MaxFrame /\ acked_data \in Real \cup {NoBase}
    /\ outstanding \in SUBSET Frames
    /\ \A f \in outstanding : f.num < current.num /\ current.num <= f.num + Outstanding
    /\ last_visible_num \in 0 .. MaxFrame

NetworkTypes ==
    s2c \in SUBSET Bodies /\ c2s \in SUBSET Messages /\ lost \in 0 .. MaxLoss

ViewportTypes ==
    /\ applied_num \in 0 .. MaxFrame
    /\ applied_data \in Screens /\ server_term \in Screens
    /\ base_history \in Seq((0 .. MaxFrame) \X Screens)
    /\ Len(base_history) <= HistoryDepth
    /\ scrollback \in Seq(1 .. MaxRows)
    /\ flags \in SUBSET Requests /\ requests \in 0 .. MaxUser

(* Every variable of server, network and viewport keeps its type; the       *)
(* producer holds no more frames than it should, and only older ones.       *)
TypeOK ==
    FlagTypes /\ LoopTypes /\ ProducerTypes /\ NetworkTypes /\ ViewportTypes

(* Where the client confirmed exactly the frame it stands at, the server's  *)
(* diff base is the dump the client holds, so the next diff applies: "the   *)
(* diff-base chain is unbroken across interleaved frames" (server_loop).    *)
BaseAgrees ==
    acked_num = applied_num /\ acked_data # NoBase =>
        acked_data = IF Morph THEN server_term ELSE applied_data

(* The viewport is a mirror of the broadcast source (module ScreenMirror):  *)
(* it shows only screens the server had, and never goes back in time,       *)
(* whatever the network loses or reorders and whatever base a delta met.    *)
Mirror == INSTANCE ScreenMirror WITH latest <- Src, shown <- server_term
MirrorSpec == Mirror!Spec

(* The server leaves by the handshake only after the viewport heard that    *)
(* the session ended and showed the session's last screen (under an overlay *)
(* that is still up, the newest one it was sent).                           *)
AttestedExit ==
    exited = "attested" =>
        /\ shutdown_seen
        /\ server_term = <<epoch, last_gen>>
        /\ ~Overlay => last_gen = gen

(* What the server takes the viewport to have, it has: the base of its next *)
(* diff, and the session's last screen before it leaves.                    *)
ServerKnows == BaseAgrees /\ AttestedExit

(* Rows the server believes delivered are held by the viewport: a           *)
(* scrollback frame lost or superseded is never counted as confirmed        *)
(* (finding #1 in server_loop).                                             *)
NoRowSkipped ==
    \A r \in sb_floor + 1 .. acked_sb_total :
        \E i \in DOMAIN scrollback : scrollback[i] = r

(* Once the shells fall silent the viewport comes to show what the source   *)
(* shows and stays there: no lost frame, lost ack, dropped base or leapt    *)
(* frame (#95, #117) leaves it frozen on an older screen.  (A frame may be  *)
(* owed that MaxFrame leaves no number for.)                                *)
Shows == server_term = Src \/ (server_term = Empty /\ Src = <<0, 1>>)
OutOfFrames == current.num = MaxFrame /\ (WantVisible \/ MakeScrollback)
Converges == <>[](Running /\ client_up => Shows \/ OutOfFrames)
=============================================================================
