---------------------------- MODULE LocalFrames ----------------------------
(***************************************************************************)
(* The session daemon and one local viewport on its Unix socket: ClientConn *)
(* with its write buffer, broadcast_output and the escape-to-shell overlay  *)
(* (session/daemon.rs), the viewport's frame and scrollback state           *)
(* (session/client.rs).  The socket loses nothing, so the daemon confirms   *)
(* each frame itself, except to a viewport that asked for coalescing        *)
(* (POSH_COALESCE): that one acknowledges, and the daemon replaces a frame  *)
(* it has not begun to write by the next.                                   *)
(*                                                                         *)
(* A record of the socket is two bytes, so that it can be written in part.  *)
(* A screen is <<epoch, generation>>, the epoch odd while the overlay is up. *)
(* The terminals keep every row that scrolls off, and the overlay's terminal *)
(* stays on its primary screen.                                            *)
(***************************************************************************)
EXTENDS Integers, Sequences

CONSTANTS
    MaxGen,         \* bound: generations of the session's screen
    MaxRows,        \* bound: rows that scroll off the session's screen
    MaxOverlayGen,  \* bound: generations of an overlay's screen
    MaxOverlayRows, \* bound: rows that scroll off an overlay's screen
    MaxUser,        \* bound: resumes, escapes and toggles of the user
    SockCap,        \* bound: bytes in the socket, towards the viewport
    Outstanding     \* frames FrameProducer retains for a late ack (8)

ASSUME LocalBounds ==
    /\ MaxGen \in Nat \ {0} /\ MaxRows \in Nat
    /\ MaxOverlayGen \in Nat /\ MaxOverlayRows \in Nat
    /\ MaxUser \in Nat
    /\ SockCap \in Nat \ {0, 1} /\ Outstanding \in Nat

VARIABLES
    session,   \* the session terminal [gen, rows, alt]
    overlay,   \* the overlay terminal [up, gen, rows]
    epoch,     \* source swaps so far
    conn,      \* ClientConn
    down,      \* the socket, towards the viewport: bytes
    up,        \* the socket, towards the daemon: messages
    view,      \* FrameRenderer [num, screen, ring, acks, exited]
    user,      \* resumes, escapes and toggles so far
    toggled,   \* the toggle has been used (not in the code)
    ended      \* the daemon has left its loop

vars == <<session, overlay, epoch, conn, down, up, view, user, toggled, ended>>

-----------------------------------------------------------------------------
(* Screens, rows and records. *)

Blank  == <<0, 0>>     \* frame 0, which both ends share
NoBase == <<0, -1>>    \* acked_data = None
Broken == <<-1, 0>>    \* a diff applied to a dump it was not made from

\* active_source, and the rows scrolled off it.
Latest == <<epoch, IF overlay.up THEN overlay.gen ELSE session.gen>>
SourceAlt == ~overlay.up /\ session.alt

\* Row k of a terminal: `of` tells the session's (0) from an overlay's.
Rows(of, first, last) == [i \in 1 .. last - first + 1 |-> <<of, first + i - 1>>]

Visible(n, kind, base, from, to) ==
    [kind |-> kind, num |-> n, base |-> base, from |-> from, to |-> to, rows |-> <<>>]
RowsBody(n, base, rows) ==
    [kind |-> "rows", num |-> n, base |-> base, from |-> NoBase, to |-> NoBase, rows |-> rows]
Exit == [kind |-> "exit", num |-> 0, base |-> 0, from |-> NoBase, to |-> NoBase, rows |-> <<>>]

Bytes(record) == << <<record, 1>>, <<record, 2>> >>

Ack(n, resync, off) == [kind |-> "ack", num |-> n, resync |-> resync, off |-> off]
InitMsg == [kind |-> "init"]
ShellMsg == [kind |-> "shell"]

-----------------------------------------------------------------------------
(* FrameProducer. *)

NewProducer ==
    [num |-> 0, acked |-> 0, base |-> Blank, visible |-> 0,
     sent |-> {[num |-> 0, screen |-> Blank, total |-> 0]}]

\* rotate_current: `sent` holds the current frame and those before it.
Rotate(p, screen, total) ==
    [p EXCEPT !.num = @ + 1,
              !.sent = {f \in @ : f.num + Outstanding > p.num}
                       \cup {[num |-> p.num + 1, screen |-> screen, total |-> total]}]

Current(p) == (CHOOSE f \in p.sent : f.num = p.num).screen

\* encode_visible: a dump, or a diff against the acked base where that is
\* smaller (against the blank it never is).
Encodings(p, screen) ==
    {Visible(p.num, "full", 0, NoBase, screen)}
    \cup (IF p.base \in {NoBase, Blank} THEN {}
          ELSE {Visible(p.num, "diff", p.acked, p.base, screen)})

\* FrameProducer::ack, folded into acked_sb_total by its caller.
Acked(c, n) ==
    IF n <= c.producer.acked \/ n > c.producer.num THEN c
    ELSE LET of == {f \in c.producer.sent : f.num = n}
             f  == CHOOSE f \in of : TRUE
         IN  [c EXCEPT
                !.producer.acked = n,
                !.producer.base = IF of = {} THEN NoBase ELSE f.screen,
                !.producer.sent = {g \in @ : g.num >= n},
                !.sb_acked = IF of # {} /\ f.total > @ THEN f.total ELSE @]

DropBase(c) == [c EXCEPT !.producer.base = NoBase]

-----------------------------------------------------------------------------
(* ClientConn. *)

NoAnchor == -1

\* The daemon has accepted the connection; whether the viewport advertises
\* CAP_COALESCE is read with its Init.
NewConn(coalesce) ==
    [framed |-> FALSE, producer |-> NewProducer, coalesce |-> coalesce, off |-> FALSE,
     buf |-> <<>>, anchor |-> NoAnchor, sb_floor |-> 0, sb_acked |-> 0]

Coalescing(c) == c.coalesce /\ ~c.off

\* ClientConn::queue
Queue(c, record) == [c EXCEPT !.buf = @ \o Bytes(record), !.anchor = NoAnchor]

\* The end of queue_frame: for a coalescing viewport in place of the visible
\* frame at the tail, when none of that is written.
QueueVisible(c, record) ==
    IF ~Coalescing(c) THEN Queue(c, record)
    ELSE LET start == IF c.anchor # NoAnchor /\ c.anchor =< Len(c.buf)
                      THEN c.anchor ELSE Len(c.buf)
         IN  [Queue([c EXCEPT !.buf = SubSeq(@, 1, start)], record) EXCEPT !.anchor = start]

\* Mutant: every frame counts as confirmed.
SelfAcked_Always(c) == Acked(c, c.producer.num)

\* Reliable as degenerate (RFC 0008): what is queued is confirmed.
SelfAcked(c) == IF Coalescing(c) THEN c ELSE Acked(c, c.producer.num)

\* queue_frame, for each way to encode the screen.
Framed(c, screen) ==
    LET p == [Rotate(c.producer, screen, 0) EXCEPT !.visible = c.producer.num + 1]
    IN  {QueueVisible(SelfAcked([c EXCEPT !.producer = p]), m) : m \in Encodings(p, screen)}

\* Mutant: the rows are those since the last broadcast, acknowledged or not.
Floor_Sent(c) ==
    LET totals == {f.total : f \in c.producer.sent} \cup {c.sb_acked, c.sb_floor}
    IN  CHOOSE t \in totals : \A u \in totals : u =< t

Floor(c) == IF c.sb_acked > c.sb_floor THEN c.sb_acked ELSE c.sb_floor

\* maybe_queue_scrollback, for the terminal it is given.
WithRows(c, of, total, alt) ==
    IF alt \/ total <= Floor(c) \/ c.producer.base = NoBase THEN c
    ELSE LET p == Rotate(c.producer, Current(c.producer), total)
         IN  Queue(SelfAcked([c EXCEPT !.producer = p]),
                   RowsBody(p.num, p.visible, Rows(of, Floor(c) + 1, total)))

-----------------------------------------------------------------------------
(* The daemon loop. *)

\* broadcast_output from the source as it is after the step.
Broadcast(c) ==
    IF ~c.framed THEN conn' = c
    ELSE \E d \in Framed(c, Latest') :
            conn' = IF overlay'.up THEN WithRows(d, epoch', overlay'.rows, FALSE)
                    ELSE WithRows(d, 0, session'.rows, session'.alt)

\* request_frame_from: one visible frame of the active source.
Request(c) == \E d \in Framed(c, Latest) : conn' = d

\* PTY output, which may scroll a row off and may switch screens.  Under the
\* overlay the session moves on unseen.
Output(scrolls, alt) ==
    /\ ~ended /\ session.gen < MaxGen
    /\ scrolls => session.rows < MaxRows /\ ~session.alt
    /\ session' = [gen |-> session.gen + 1,
                   rows |-> IF scrolls THEN session.rows + 1 ELSE session.rows, alt |-> alt]
    /\ UNCHANGED <<overlay, epoch, down, up, view, user, toggled, ended>>
    /\ IF overlay.up THEN UNCHANGED conn ELSE Broadcast(conn)

OverlayOutput(scrolls) ==
    /\ ~ended /\ overlay.up /\ overlay.gen < MaxOverlayGen
    /\ scrolls => overlay.rows < MaxOverlayRows
    /\ overlay' = [overlay EXCEPT !.gen = @ + 1,
                                  !.rows = IF scrolls THEN @ + 1 ELSE @]
    /\ UNCHANGED <<session, epoch, down, up, view, user, toggled, ended>>
    /\ Broadcast(conn)

\* The overlay's shell exits: back to the session, with a keyframe.
CloseOverlay ==
    /\ ~ended /\ overlay.up
    /\ overlay' = [overlay EXCEPT !.up = FALSE]
    /\ epoch' = epoch + 1
    /\ UNCHANGED <<session, down, up, view, user, toggled, ended>>
    /\ Broadcast(DropBase(conn))

\* Tag::Init: the producer of a new viewport, and the replay.
HearInit ==
    /\ up # <<>> /\ Head(up) = InitMsg
    /\ up' = Tail(up)
    /\ LET c == IF conn.framed THEN conn
                ELSE [conn EXCEPT !.framed = TRUE, !.sb_floor = session.rows]
       IN  IF session.gen > 1 \/ overlay.up THEN Request(c) ELSE conn' = c
    /\ UNCHANGED <<session, overlay, epoch, down, view, user, toggled, ended>>

\* Tag::Shell: the overlay opens, unless one is up.
HearShell ==
    /\ up # <<>> /\ Head(up) = ShellMsg
    /\ up' = Tail(up)
    /\ IF overlay.up THEN UNCHANGED <<overlay, epoch, conn>>
       ELSE /\ overlay' = [up |-> TRUE, gen |-> 0, rows |-> 0]
            /\ epoch' = epoch + 1
            /\ Broadcast(DropBase(conn))
    /\ UNCHANGED <<session, down, view, user, toggled, ended>>

\* apply_frame_ack up to its answer: a viewport that is confirmed by the
\* daemon is not heard, and every acknowledgement carries the toggle.
Heard(c, m) ==
    LET t == [c EXCEPT !.off = m.off, !.anchor = IF m.off THEN NoAnchor ELSE @]
    IN  IF m.resync THEN DropBase(Acked(t, m.num)) ELSE Acked(t, m.num)

\* Mutant: a resync drops the base, and waits for output.
HearAck_Quiet ==
    /\ up # <<>> /\ Head(up).kind = "ack"
    /\ up' = Tail(up)
    /\ conn' = IF conn.coalesce THEN Heard(conn, Head(up)) ELSE conn
    /\ UNCHANGED <<session, overlay, epoch, down, view, user, toggled, ended>>

\* handle_frame_ack: a resync is answered at once.
HearAck ==
    /\ up # <<>> /\ Head(up).kind = "ack"
    /\ up' = Tail(up)
    /\ IF ~conn.coalesce THEN UNCHANGED conn
       ELSE IF Head(up).resync THEN Request(Heard(conn, Head(up)))
       ELSE conn' = Heard(conn, Head(up))
    /\ UNCHANGED <<session, overlay, epoch, down, view, user, toggled, ended>>

\* Mutant: the anchor does not move with the buffer.
AnchorAfter_Fixed(c, n) == c.anchor

\* Mutant: a frame that has begun to go out keeps its anchor.
AnchorAfter_Zero(c, n) == IF c.anchor = NoAnchor THEN NoAnchor ELSE IF n > c.anchor THEN 0 ELSE c.anchor - n

\* checked_sub: no anchor is left once its frame has begun to go out.
AnchorAfter(c, n) == IF n > c.anchor THEN NoAnchor ELSE c.anchor - n

\* POLLOUT: the socket takes part of the buffer.
Drain(n) ==
    /\ ~ended /\ n =< Len(conn.buf) /\ Len(down) + n =< SockCap
    /\ down' = down \o SubSeq(conn.buf, 1, n)
    /\ conn' = [conn EXCEPT !.buf = SubSeq(@, n + 1, Len(@)), !.anchor = AnchorAfter(conn, n)]
    /\ UNCHANGED <<session, overlay, epoch, up, view, user, toggled, ended>>

\* The session is over: Exit goes behind what is buffered, and what a stuck
\* viewport does not take is dropped.
End(n) ==
    /\ ~ended
    /\ ended' = TRUE
    /\ down' = down \o SubSeq(conn.buf \o Bytes(Exit), 1, n)
    /\ conn' = [conn EXCEPT !.buf = <<>>, !.anchor = NoAnchor]
    /\ up' = <<>>
    /\ UNCHANGED <<session, overlay, epoch, view, user, toggled>>

-----------------------------------------------------------------------------
(* The viewport. *)

\* Mutant: a diff is applied to whatever the viewport holds.
Fits_AnyBase(m) == m.num > view.num /\ (m.kind = "rows" => m.base = view.num)

\* render_frame_acking, up to its answer: the frame is for the viewport as it
\* stands.
Fits(m) ==
    /\ m.num > view.num
    /\ m.kind \in {"diff", "rows"} => m.base = view.num

\* DumpDiff: a diff rebuilds the screen from the dump it was made from.
Rebuilt(m) == IF m.kind = "diff" /\ m.from # view.screen THEN Broken ELSE m.to

Shown(m) ==
    IF ~Fits(m) THEN view
    ELSE IF m.kind = "rows" THEN [view EXCEPT !.num = m.num, !.ring = @ \o m.rows]
    ELSE [view EXCEPT !.num = m.num, !.screen = Rebuilt(m)]

\* RESYNC: the daemon's base fell behind.
Behind(m) == m.kind = "diff" /\ m.num >= view.num /\ m.base < view.num

\* One record off the socket.
Take ==
    /\ Len(down) >= 2 /\ ~view.exited
    /\ LET m == down[1][1]
       IN  IF m.kind = "exit"
           THEN view' = [view EXCEPT !.exited = TRUE] /\ UNCHANGED up
           ELSE /\ view' = Shown(m)
                /\ up' = IF view.acks /\ ~ended
                         THEN Append(up, Ack(view'.num, Behind(m), FALSE)) ELSE up
    /\ down' = SubSeq(down, 3, Len(down))
    /\ UNCHANGED <<session, overlay, epoch, conn, user, toggled, ended>>

\* The user: a resume from the job control of the outer shell (SIGCONT), ...
Resume ==
    /\ ~ended /\ user < MaxUser
    /\ user' = user + 1
    /\ up' = Append(up, InitMsg)
    /\ UNCHANGED <<session, overlay, epoch, conn, down, view, toggled, ended>>

\* ... escape-to-shell, ...
Escape ==
    /\ ~ended /\ user < MaxUser
    /\ user' = user + 1
    /\ up' = Append(up, ShellMsg)
    /\ UNCHANGED <<session, overlay, epoch, conn, down, view, toggled, ended>>

\* ... and the palette's coalescing toggle, which only a viewport has that
\* advertised the capability.
Toggle ==
    /\ ~ended /\ conn.coalesce /\ user < MaxUser
    /\ user' = user + 1 /\ toggled' = TRUE
    /\ view' = [view EXCEPT !.acks = ~@]
    /\ up' = Append(up, Ack(0, FALSE, view.acks))
    /\ UNCHANGED <<session, overlay, epoch, conn, down, ended>>

-----------------------------------------------------------------------------

Init ==
    /\ session = [gen |-> 1, rows |-> 0, alt |-> FALSE]
    /\ overlay = [up |-> FALSE, gen |-> 0, rows |-> 0]
    /\ epoch = 0
    /\ \E coalesce \in BOOLEAN :
          /\ conn = NewConn(coalesce)
          /\ view = [num |-> 0, screen |-> Blank, ring |-> <<>>, acks |-> coalesce,
                     exited |-> FALSE]
    /\ down = <<>> /\ up = <<InitMsg>>
    /\ user = 0 /\ toggled = FALSE /\ ended = FALSE

Hear == HearInit \/ HearShell \/ HearAck

Next ==
    \/ \E scrolls, alt \in BOOLEAN : Output(scrolls, alt)
    \/ \E scrolls \in BOOLEAN : OverlayOutput(scrolls)
    \/ CloseOverlay
    \/ HearInit \/ HearShell \/ HearAck
    \/ \E n \in 1 .. SockCap : Drain(n)
    \/ \E n \in 0 .. Len(conn.buf) + 2 : End(n)
    \/ Take
    \/ Resume \/ Escape \/ Toggle

Spec == Init /\ [][Next]_vars

\* Both ends go on serving the socket they are polled for.
FairSpec ==
    /\ Spec
    /\ WF_vars(Hear) /\ WF_vars(Take) /\ WF_vars(\E n \in 1 .. SockCap : Drain(n))

-----------------------------------------------------------------------------
(* Properties. *)

Nums == 0 .. 4 * (MaxGen + 1 + MaxUser * (MaxOverlayGen + 2))
Screens ==
    {Blank, NoBase} \cup ((0 .. 2 * MaxUser) \X (0 .. MaxGen + MaxOverlayGen))
RowIds == (0 .. 2 * MaxUser) \X (1 .. MaxRows + MaxOverlayRows)
RowSeqs == UNION {[1 .. n -> RowIds] : n \in 0 .. MaxRows + MaxOverlayRows}
Records ==
    [kind : {"full", "diff", "rows", "exit"}, num : Nums, base : Nums,
     from : Screens, to : Screens, rows : RowSeqs]
Messages ==
    {InitMsg, ShellMsg} \cup [kind : {"ack"}, num : Nums, resync : BOOLEAN, off : BOOLEAN]

\* Diffs name a dump and an anchor a place in the buffer, and a viewport that
\* is confirmed by the daemon never has one.
TypeOK ==
    /\ session.gen \in 1 .. MaxGen /\ session.rows \in 0 .. MaxRows
    /\ session.alt \in BOOLEAN /\ overlay.up \in BOOLEAN
    /\ overlay.gen \in 0 .. MaxOverlayGen /\ overlay.rows \in 0 .. MaxOverlayRows
    /\ epoch \in 0 .. 2 * MaxUser /\ epoch % 2 = IF overlay.up THEN 1 ELSE 0
    /\ conn.framed \in BOOLEAN /\ conn.coalesce \in BOOLEAN /\ conn.off \in BOOLEAN
    /\ conn.producer.num \in Nums /\ conn.producer.acked \in 0 .. conn.producer.num
    /\ conn.producer.base \in Screens /\ conn.producer.visible \in 0 .. conn.producer.num
    /\ conn.producer.sent \subseteq [num : Nums, screen : Screens, total : Nat]
    /\ conn.sb_floor \in 0 .. MaxRows /\ conn.sb_acked \in 0 .. MaxRows + MaxOverlayRows
    /\ \A i \in DOMAIN conn.buf : conn.buf[i] \in Records \X {1, 2}
    /\ \A i \in DOMAIN down : down[i] \in Records \X {1, 2}
    /\ conn.anchor \in {NoAnchor} \cup (IF conn.coalesce THEN 0 .. Len(conn.buf) - 1 ELSE {})
    /\ \A i \in DOMAIN up : up[i] \in Messages
    /\ view.num \in Nums /\ view.screen \in Screens /\ view.acks \in BOOLEAN
    /\ \A i \in DOMAIN view.ring : view.ring[i] \in RowIds
    /\ user \in 0 .. MaxUser /\ toggled \in BOOLEAN /\ ended \in BOOLEAN

\* Everything queued is written, read and answered.
Quiet == conn.buf = <<>> /\ down = <<>> /\ up = <<>> /\ ~ended

\* The viewport has been sent a screen.
Sent == conn.framed /\ (session.gen > 1 \/ overlay.up)

IsWhole(s) ==
    /\ Len(s) % 2 = 0
    /\ \A i \in 1 .. Len(s) \div 2 : <<s[2 * i - 1], s[2 * i]>> = Bytes(s[2 * i][1])

\* What the viewport reads is a sequence of whole records: truncating the
\* buffer never cuts a record that has begun to go out, nor one behind the
\* frame that is replaced (daemon.rs:1036, :2755).
WholeRecords == ~ended => IsWhole(down \o conn.buf)

\* The bound coalescing is for: no visible frame waits behind another that is
\* not yet begun (daemon.rs:1023).
Coalesced ==
    LET skip    == Len(conn.buf) % 2
        Kind(i) == conn.buf[2 * i + skip][1].kind
    IN  conn.coalesce /\ ~toggled =>
            \A i \in 1 .. (Len(conn.buf) - skip) \div 2 - 1 :
                ~({Kind(i), Kind(i + 1)} \subseteq {"full", "diff"})

\* Replacing a frame in the write buffer cuts nothing short and leaves no more
\* than one waiting.
BufferSound == WholeRecords /\ Coalesced

Mirror == INSTANCE ScreenMirror WITH latest <- Latest, shown <- view.screen

\* The viewport shows only screens the source had and never goes back, however
\* frames are coalesced, refused and repaired, in one mode or the other.
MirrorSpec == Mirror!Spec

\* Once the socket is quiet the viewport shows the screen, as long as
\* coalescing is not toggled: no frame that was replaced, refused or repaired
\* was the last one needed (daemon.rs:1022-1029, :1387).
QuietIsCurrent == ~toggled /\ Quiet /\ Sent => view.screen = Latest

\* The screen settles: no exchange of frames and resyncs goes on for ever, and
\* none stops short of the screen.
Settles == <>[](~toggled /\ Sent /\ ~ended => view.screen = Latest)

\* The ring of the viewport has rows of the session only, none before the one
\* above it, and without coalescing none twice (daemon.rs:219-238).
RowsInOrder ==
    ~toggled => \A i \in DOMAIN view.ring :
        LET k == view.ring[i][2]
        IN  /\ view.ring[i][1] = 0
            /\ k = conn.sb_floor + 1 \/ \E j \in 1 .. i - 1 : view.ring[j] = <<0, k - 1>>
            /\ conn.coalesce \/ \A j \in 1 .. i - 1 : view.ring[j] # view.ring[i]

\* Without coalescing every row that scrolled off since the attach is in the
\* ring once the socket is quiet and the session's primary screen is shown.
RowsArrive ==
    Quiet /\ conn.framed /\ ~conn.coalesce /\ ~overlay.up /\ ~session.alt =>
        \A k \in conn.sb_floor + 1 .. session.rows :
            \E i \in DOMAIN view.ring : view.ring[i] = <<0, k>>

\* A session that ends over a viewport that took everything ends on its last
\* screen: Exit is behind the frame of it (daemon.rs:2118).
EndsCurrent == view.exited /\ ~conn.coalesce /\ Sent => view.screen = Latest

\* A viewport with nothing more to read has the last screen, whether the
\* session goes on or has ended.
LastScreen == QuietIsCurrent /\ EndsCurrent

\* The ring of the viewport is the session's scrollback since the attach.
RowsHeld == RowsInOrder /\ RowsArrive

\* Nothing of the session is lost on the way to its viewport, whatever was
\* replaced or refused: neither the last screen nor a row.
NothingLost == LastScreen /\ RowsHeld
=============================================================================
