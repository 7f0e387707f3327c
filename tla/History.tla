------------------------------- MODULE History -------------------------------
(***************************************************************************)
(* The history stream (scrollback v2, RFC 0009).  The rows that scroll off *)
(* a session's screen are numbered within an epoch and sent in bodies that *)
(* name their first row; the viewport acknowledges how many rows it has    *)
(* accepted or given up, and the sender starts again from there when rows  *)
(* stay unacknowledged.  A resize by the viewport opens a new epoch; a     *)
(* resize by another viewport keeps the epoch and moves its anchor.  The   *)
(* extent beside every frame says how many rows there are and below which  *)
(* none will be sent again, so a lost body is told from evicted rows.      *)
(*                                                                         *)
(* The sender is the HistoryCursor of history.rs, driven by server_loop    *)
(* (direct: no window, a datagram of the viewport opens it) or by the      *)
(* session daemon (a window, other viewports, an Init opens it).  Time is  *)
(* left out: a resend that may come due is due.  So is the escape overlay, *)
(* which pauses history while it is up and freezes the extent.  A row is   *)
(* known by the layout of the session's ring it was cut in and its place   *)
(* there.                                                                  *)
(***************************************************************************)
EXTENDS Naturals, Sequences, FiniteSets, FiniteSetsExt

CONSTANTS
    RingCap,      \* rows the session's ring keeps
    BodyRows,     \* SB2_ROWS_PER_BODY
    WindowRows,   \* HISTORY_WINDOW_ROWS
    HeldMax,      \* SB2_HELD_MAX_ROWS
    MaxTotal,     \* bound: rows scrolled
    MaxUpset,     \* bound: resizes, clears of the ring, reattachments
    MaxLoss,      \* bound: datagrams lost or duplicated
    MaxBodies,    \* bound: bodies in flight
    MaxFlight     \* bound: other datagrams in flight, each way

ASSUME SizesAssumption ==
    /\ RingCap \in Nat /\ HeldMax \in Nat
    /\ BodyRows \in Nat \ {0} /\ WindowRows \in Nat \ {0}
ASSUME BoundsAssumption ==
    /\ MaxTotal \in Nat /\ MaxUpset \in Nat /\ MaxLoss \in Nat
    /\ MaxBodies \in Nat /\ MaxFlight \in Nat

VARIABLES
    daemon,       \* the sender is a session daemon, not server_loop
    asks,         \* the viewport asks for the extent
    term,         \* the session's ring: rows ever scrolled, rows kept, layout
    cursor,       \* HistoryCursor, and whether an Init has come
    viewport,     \* the sb2_ fields of ClientState and its ring
    down, up,     \* datagrams in flight to and from the viewport
    upsets, losses  \* how much of the bounds is used

env_vars == <<daemon, asks>>
spent == <<upsets, losses>>
history_vars == <<env_vars, term, cursor, viewport, down, up, spent>>

LastEpoch == 255
NoEpoch == 0          \* none held, none open
Gap == [layout |-> 0, at |-> 0]      \* a row not received: layouts count from 1
NoExtent == [avail |-> 0, floor |-> 0]
Minimum(a, b) == IF a < b THEN a ELSE b
Maximum(a, b) == IF a > b THEN a ELSE b

NewCursor(size) ==
    [linked |-> FALSE, active |-> FALSE, epoch |-> 1, abs |-> 0, rel |-> 0,
     acked |-> 0, sent |-> 0, size |-> size]

\* clear_v2_row_space: a viewport that counts from zero in an epoch.
Cleared(v, epoch) ==
    [v EXCEPT !.epoch = epoch, !.ring = <<>>, !.seen = FALSE, !.extent = NoExtent,
              !.held = {}]

HistoryInit ==
    /\ daemon \in BOOLEAN /\ asks \in BOOLEAN
    /\ term = [total |-> 0, len |-> 0, layout |-> 1]
    /\ cursor = NewCursor(0)
    /\ viewport = [epoch |-> NoEpoch, ring |-> <<>>, seen |-> FALSE, extent |-> NoExtent,
                   held |-> {}, suppress |-> FALSE, size |-> 0]
    /\ down = {} /\ up = {}
    /\ upsets = 0 /\ losses = 0

Upset == upsets < MaxUpset /\ upsets' = upsets + 1 /\ UNCHANGED losses
Fault == losses < MaxLoss /\ losses' = losses + 1 /\ UNCHANGED upsets

-----------------------------------------------------------------------------
(* The sender's row space. *)

\* Row numbers that exist at a total, and the one below which none is sent.
Avail(c, t) == c.rel + (t.total - c.abs)
Floor(c, t) == Maximum(c.rel, Avail(c, t) - Minimum(t.len, Avail(c, t)))

\* Row number r as the ring holds it, counted from its newest row.
Row(c, t, r) == [layout |-> t.layout, at |-> t.total - (Avail(c, t) - r)]

InFlight(c) == IF c.sent > c.acked THEN c.sent - c.acked ELSE 0
NextFresh(c) == Maximum(c.sent, c.acked)
HistoryWindow == IF daemon THEN WindowRows ELSE MaxTotal + 1

\* Mutant: the numbering starts after the next row scrolled.
StartAfter(c, epoch, r, total) ==
    [c EXCEPT !.active = TRUE, !.epoch = epoch, !.abs = total + 1, !.rel = r,
              !.acked = r, !.sent = r]

\* The row space starts again at number r, which is the next row scrolled.
StartAt(c, epoch, r, total) ==
    [c EXCEPT !.active = TRUE, !.epoch = epoch, !.abs = total, !.rel = r,
              !.acked = r, !.sent = r]

BumpEpoch(c, total) ==
    IF c.active
    THEN StartAt(c, IF c.epoch = LastEpoch THEN 1 ELSE c.epoch + 1, 0, total)
    ELSE c

\* Mutant: the numbering goes on where it was, although the ring moved.
ReanchorNothing(c, t) == c

\* The ring was laid out anew under the cursor: every row up to now, sent or
\* not, falls below the anchor.
Reanchor(c, t) ==
    IF c.active THEN [c EXCEPT !.abs = t.total, !.rel = Avail(c, t)] ELSE c

\* Mutant: an acknowledgement of nothing is an old one.
OnAckNoReset(c, m, total) ==
    IF ~c.active \/ m.epoch # c.epoch THEN c
    ELSE [c EXCEPT !.acked = Maximum(@, m.acked)]

\* on_ack: an acknowledgement of no rows after some were acknowledged is a
\* viewport that started again.
OnAck(c, m, total) ==
    IF ~c.active \/ m.epoch # c.epoch THEN c
    ELSE IF m.acked = 0 /\ c.acked > 0 THEN BumpEpoch(c, total)
    ELSE [c EXCEPT !.acked = Maximum(@, m.acked)]

OnSize(c, size, total) ==
    IF size = c.size THEN c ELSE BumpEpoch([c EXCEPT !.size = size], total)

\* open_history: the Init's entry opens the cursor where the viewport stands,
\* and no later message does.
Open(c, m, total) ==
    LET here == [NewCursor(m.size) EXCEPT !.linked = TRUE]
    IN  IF c.linked THEN c
        ELSE IF ~m.entry THEN here
        ELSE IF m.epoch = NoEpoch THEN StartAt(here, 1, 0, total)
        ELSE StartAt(here, m.epoch, m.acked, total)

\* on_client_entry, in server_loop: the first entry opens a fresh epoch.
OnEntry(c, m, total) ==
    LET opened == IF c.active THEN c ELSE StartAt(c, c.epoch, 0, total)
    IN  OnAck(opened, m, total)

Heard(c, m, total) ==
    LET told == IF daemon
                THEN IF m.entry THEN OnAck(Open(c, m, total), m, total) ELSE Open(c, m, total)
                ELSE IF m.entry THEN OnEntry(c, m, total) ELSE c
    IN  OnSize(told, m.size, total)

-----------------------------------------------------------------------------
(* The session's ring. *)

Scroll ==
    /\ term.total < MaxTotal
    /\ term' = [term EXCEPT !.total = @ + 1, !.len = Minimum(@ + 1, RingCap)]
    /\ UNCHANGED <<env_vars, cursor, viewport, down, up, spent>>

\* ED 3 empties the ring; the rows it held stay counted.
ClearRing ==
    /\ term.len > 0 /\ Upset
    /\ term' = [term EXCEPT !.len = 0]
    /\ UNCHANGED <<env_vars, cursor, viewport, down, up>>

\* A resize lays the ring out anew, in as many rows as it may take.
Laid(t) == {[t EXCEPT !.layout = @ + 1, !.len = n] : n \in 0 .. RingCap}

\* Another viewport came, left or changed its size.
SessionResize ==
    /\ daemon /\ Upset
    /\ term' \in Laid(term)
    /\ cursor' = Reanchor(cursor, term)
    /\ UNCHANGED <<env_vars, viewport, down, up>>

-----------------------------------------------------------------------------
(* What the sender sends. *)

\* Every frame names the open epoch and, to a viewport that asked, its extent.
Frame(c, start, rows) ==
    [epoch |-> IF c.active THEN c.epoch ELSE NoEpoch,
     told |-> asks /\ c.active,
     extent |-> IF asks /\ c.active
                THEN [avail |-> Avail(c, term), floor |-> Floor(c, term)] ELSE NoExtent,
     start |-> start, rows |-> rows]

\* A body may be a bare jump to a number, without rows.
IsBody(m) == m.start > 0 \/ m.rows # <<>>
Bodies == {m \in down : IsBody(m)}

\* What it shows is in FrameSync.  server_loop names the epoch on every frame
\* and heartbeat; the daemon only on the frames of a screen that changed (any
\* output may have changed it), and its bridge on no heartbeat.
SendFrame ==
    /\ Cardinality(down \ Bodies) < MaxFlight
    /\ down' = down \cup {Frame(cursor, 0, <<>>)}
    /\ UNCHANGED <<env_vars, term, cursor, viewport, up, spent>>

\* next_body: rows from "from" on, as far as the ring goes back to it.
SendBody(from, cap) ==
    LET start == Maximum(from, Floor(cursor, term))
        left == IF Avail(cursor, term) > start THEN Avail(cursor, term) - start ELSE 0
        count == Minimum(left, cap)
    IN  /\ Cardinality(Bodies) < MaxBodies
        /\ cursor' = [cursor EXCEPT !.sent = start + count]
        /\ down' = down \cup
               {Frame(cursor, start, [k \in 1 .. count |-> Row(cursor, term, start + k - 1)])}
        /\ UNCHANGED <<env_vars, term, viewport, up, spent>>

SendFresh ==
    /\ cursor.active
    /\ Avail(cursor, term) > NextFresh(cursor) /\ InFlight(cursor) < HistoryWindow
    /\ SendBody(NextFresh(cursor), Minimum(BodyRows, HistoryWindow - InFlight(cursor)))

\* The resend clock ran out.
Resend ==
    /\ cursor.active /\ InFlight(cursor) > 0
    /\ SendBody(cursor.acked, BodyRows)

\* A message of the viewport reaches the sender.  In server_loop its size is
\* the terminal's; the daemon's terminal has the smallest of all viewports.
Hear(m) ==
    /\ m \in up /\ up' = up \ {m}
    /\ IF m.size = cursor.size THEN term' = term
       ELSE term' \in Laid(term) \cup (IF daemon THEN {term} ELSE {})
    /\ cursor' = Heard(cursor, m, term.total)
    /\ UNCHANGED <<env_vars, viewport, down, spent>>

-----------------------------------------------------------------------------
(* The viewport. *)

Count(v) == Len(v.ring)
End(b) == b.start + Len(b.rows)
Covers(b, r) == b.start <= r /\ r < End(b)
RowOf(b, r) == b.rows[r - b.start + 1]

\* The ring, grown to t rows out of the bodies given; what none of them
\* holds is not received.
Grown(v, t, bodies) ==
    [n \in 1 .. t |->
        IF n <= Count(v) THEN v.ring[n]
        ELSE IF \E b \in bodies : Covers(b, n - 1)
        THEN RowOf(CHOOSE b \in bodies : Covers(b, n - 1), n - 1)
        ELSE Gap]

\* settle_history: the count moves over held bodies it has reached and over
\* gaps below the floor, to the first row that is neither.
Settled(v) ==
    LET stops == {Count(v), v.extent.floor} \cup {End(b) : b \in v.held}
        t == Min({s \in stops :
                 /\ s >= Count(v) /\ s >= v.extent.floor
                 /\ \A b \in v.held : ~Covers(b, s)})
    IN  [v EXCEPT !.ring = Grown(v, t, v.held),
                  !.held = {b \in v.held : b.start > t}]

HeldRows(bodies) == MapThenSumSet(LAMBDA b : Len(b.rows), bodies)

\* HeldRows::hold: the longer of two bodies at one place, within the bound.
Hold(v, body) ==
    LET others == {b \in v.held : b.start # body.start}
        shorter == \A b \in v.held \ others : Len(b.rows) < Len(body.rows)
    IN  IF shorter /\ body.rows # <<>> /\ HeldRows(others \cup {body}) <= HeldMax
        THEN [v EXCEPT !.held = others \cup {body}] ELSE v

\* A frame that names another epoch than the one in hand opens it.
Adopted(v, m) ==
    IF m.epoch # NoEpoch /\ m.epoch # v.epoch THEN Cleared(v, m.epoch) ELSE v

\* The extent only ever grows within an epoch.
Extended(v, m) ==
    IF m.told /\ m.epoch = v.epoch
    THEN Settled([v EXCEPT !.seen = TRUE,
             !.extent = [avail |-> Maximum(@.avail, m.extent.avail),
                         floor |-> Maximum(@.floor, m.extent.floor)]])
    ELSE v

\* Mutant: a body that overlaps the ring is appended whole.
AppliedWhole(v, m) ==
    LET body == [start |-> m.start, rows |-> m.rows]
    IN  IF m.epoch # v.epoch \/ End(body) <= Count(v) THEN v
        ELSE IF body.start > Count(v) /\ v.seen THEN Settled(Hold(v, body))
        ELSE IF body.start <= Count(v) THEN Settled([v EXCEPT !.ring = @ \o body.rows])
        ELSE Settled([v EXCEPT !.ring = Grown(v, End(body), {body})])

\* apply_scrollback2_rows: a body past the count waits when the sender has
\* told its extent, for the gap can still be filled; otherwise the rows
\* before it are given up.
Applied(v, m) ==
    LET body == [start |-> m.start, rows |-> m.rows]
    IN  IF m.epoch # v.epoch \/ End(body) <= Count(v) THEN v
        ELSE IF body.start > Count(v) /\ v.seen THEN Settled(Hold(v, body))
        ELSE Settled([v EXCEPT !.ring = Grown(v, End(body), {body})])

\* process_frame; the bridge's own retransmission may bring a frame twice.
ReceiveFrame(m, again) ==
    /\ m \in down
    /\ IF again THEN daemon /\ UNCHANGED down /\ Fault
       ELSE down' = down \ {m} /\ UNCHANGED spent
    /\ \E v \in {Extended(Adopted(viewport, m), m)} : viewport' = Applied(v, m)
    /\ UNCHANGED <<env_vars, term, cursor, up>>

\* Every message carries the size; all but the first after a resize also
\* carry the epoch and the count.
SendMessage ==
    /\ Cardinality(up) < MaxFlight
    /\ up' = up \cup
           {[size |-> viewport.size, entry |-> ~viewport.suppress,
             epoch |-> IF viewport.suppress THEN NoEpoch ELSE viewport.epoch,
             acked |-> IF viewport.suppress THEN 0 ELSE Count(viewport)]}
    /\ viewport' = [viewport EXCEPT !.suppress = FALSE]
    /\ UNCHANGED <<env_vars, term, cursor, down, spent>>

\* The viewport's own terminal changes size: its rows are no longer the
\* session's.
Resize ==
    /\ Upset
    /\ viewport' = [Cleared(viewport, NoEpoch) EXCEPT !.suppress = TRUE, !.size = 1 - @]
    /\ UNCHANGED <<env_vars, term, cursor, down, up>>

-----------------------------------------------------------------------------
(* Network and attachment. *)

\* The wire is dialled again: the daemon has a new client, which its first
\* message will open.  What a viewport that holds bodies back makes of a new
\* sender is left out.
Reattach ==
    /\ daemon /\ cursor.linked /\ Upset
    /\ viewport.held = {}
    /\ cursor' = NewCursor(0)
    /\ down' = {} /\ up' = {}
    /\ UNCHANGED <<env_vars, term, viewport>>

Lose ==
    /\ Fault
    /\ \/ \E m \in down : down' = down \ {m} /\ UNCHANGED up
       \/ \E m \in up : up' = up \ {m} /\ UNCHANGED down
    /\ UNCHANGED <<env_vars, term, cursor, viewport>>

Session == Scroll \/ ClearRing \/ SessionResize
Sender == SendFrame \/ SendFresh \/ Resend \/ \E m \in up : Hear(m)
Viewport ==
    \/ \E m \in down, again \in BOOLEAN : ReceiveFrame(m, again)
    \/ SendMessage \/ Resize

HistoryNext == Session \/ Sender \/ Viewport \/ Reattach \/ Lose

HistorySpec == HistoryInit /\ [][HistoryNext]_history_vars

\* Of all steps only a ReceiveFrame or a Hear take a body or a message off the
\* wire and spend no bound.
BodyArrives == \E m \in Bodies : down' = down \ {m} /\ UNCHANGED spent
MessageArrives == \E m \in up : up' = up \ {m} /\ UNCHANGED spent

\* The sender's loop wakes for the body that is due, the viewport speaks again
\* after a while, and the network delivers what it does not lose.  No frame is
\* promised: the screen may never change again.
HistoryFairness ==
    /\ WF_history_vars(SendFresh \/ Resend) /\ WF_history_vars(SendMessage)
    /\ WF_down(BodyArrives) /\ WF_up(MessageArrives)

HistoryFairSpec == HistorySpec /\ HistoryFairness

-----------------------------------------------------------------------------
(* Properties. *)

RowSet == [layout : Nat, at : Nat]
BodySet == [start : Nat, rows : Seq(RowSet)]
ExtentSet == [avail : Nat, floor : Nat]
Epochs == NoEpoch .. LastEpoch
ViewSizes == {0, 1}
TermSet == [total : Nat, len : 0 .. RingCap, layout : Nat \ {0}]
CursorSet ==
    [linked : BOOLEAN, active : BOOLEAN, epoch : 1 .. LastEpoch, abs : Nat, rel : Nat,
     acked : Nat, sent : Nat, size : ViewSizes]
ViewportSet ==
    [epoch : Epochs, ring : Seq(RowSet), seen : BOOLEAN, extent : ExtentSet,
     held : SUBSET BodySet, suppress : BOOLEAN, size : ViewSizes]
FrameSet ==
    [epoch : Epochs, told : BOOLEAN, extent : ExtentSet, start : Nat, rows : Seq(RowSet)]
MessageSet == [size : ViewSizes, entry : BOOLEAN, epoch : Epochs, acked : Nat]

\* The sender, the viewport and the datagrams keep their types.
HistoryTypeOK ==
    /\ daemon \in BOOLEAN /\ asks \in BOOLEAN
    /\ term \in TermSet
    /\ cursor \in CursorSet /\ cursor.abs <= term.total
    /\ viewport \in ViewportSet
    /\ down \subseteq FrameSet /\ up \subseteq MessageSet

\* The history a viewport shows is in the order it was scrolled, no row twice
\* (apply_scrollback2_rows, settle_history).
Before(a, b) ==
    a.layout < b.layout \/ (a.layout = b.layout /\ a.at < b.at)
RowsInOrder ==
    \A i, j \in DOMAIN viewport.ring :
        i < j /\ viewport.ring[i] # Gap /\ viewport.ring[j] # Gap
            => Before(viewport.ring[i], viewport.ring[j])

Together == cursor.active /\ viewport.epoch = cursor.epoch

\* Sender and viewport mean the same row by a number above the anchor, and
\* the viewport counts no row that was never scrolled (HistoryCursor::reanchor).
NumbersAgree ==
    Together =>
        /\ Count(viewport) <= Avail(cursor, term)
        /\ \A n \in cursor.rel + 1 .. Count(viewport) :
               viewport.ring[n] \in {Gap, Row(cursor, term, n - 1)}

\* With the extent, rows are given up only when the sender can never send
\* them: a lost body is repaired (RFC 0009, 3.1).
GapsGone ==
    Together /\ viewport.seen =>
        \A n \in DOMAIN viewport.ring :
            viewport.ring[n] = Gap => n <= Floor(cursor, term)

\* What the viewport holds is what the sender means by it, row for row and in
\* order.
RowsAgree == RowsInOrder /\ NumbersAgree /\ GapsGone

\* Once the session is quiet every row of the open epoch is acknowledged, and a
\* viewport that holds that epoch counts every row and has none waiting: a row
\* that was lost is sent again until it is there or known to be gone, and a
\* viewport that started again is not waited for (HistoryCursor::on_ack,
\* next_due; send_history_body).  A viewport that has not heard of a new epoch
\* hears of it with its first row.  The exception is a viewport whose reset was
\* overtaken.
CaughtUp ==
    cursor.active =>
        /\ cursor.acked = Avail(cursor, term)
        /\ Together => Count(viewport) = Avail(cursor, term) /\ viewport.held = {}
Overtaken == Together /\ cursor.acked > Count(viewport) /\ viewport.ring # <<>>
CatchesUp == <>[](CaughtUp \/ Overtaken)
=============================================================================
