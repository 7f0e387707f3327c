------------------------- MODULE LocalFramesProofs -------------------------
(***************************************************************************)
(* What holds of LocalFrames in every instance, for either kind of          *)
(* viewport and any use of the toggle: what the viewport reads is whole     *)
(* records and no frame waits behind another; a frame number stands for one *)
(* screen from the daemon that made it to the viewport that shows it, so    *)
(* the viewport is a mirror of the source; and the last screen and every    *)
(* row arrive.  Shapes are the types without their bounds: what a step of   *)
(* the daemon does to the connection is described once (FrameStep,          *)
(* RowsStep, Broadcasted) and every invariant argues about that             *)
(* description.                                                             *)
(***************************************************************************)
EXTENDS LocalFrames, SequenceTheorems, TLAPS

-----------------------------------------------------------------------------
(* Shapes: numbers are numbers, whatever their bounds.                      *)

Pairs == Int \X Int
Recs ==
    [kind : {"full", "diff", "rows", "exit"}, num : Nat, base : Nat,
     from : Pairs, to : Pairs, rows : Seq(Pairs)]
ByteSet == Recs \X {1, 2}

Slots == [num : Nat, screen : Pairs, total : Nat]
Producers ==
    [num : Nat, acked : Nat, base : Pairs, visible : Nat, sent : SUBSET Slots]
Conns ==
    [framed : BOOLEAN, producer : Producers, coalesce : BOOLEAN, off : BOOLEAN,
     buf : Seq(ByteSet), anchor : Int, sb_floor : Nat, sb_acked : Nat]
Acks == [kind : {"ack"}, num : Nat, resync : BOOLEAN, off : BOOLEAN]
Views ==
    [num : Nat, screen : Pairs, ring : Seq(Pairs), acks : BOOLEAN, exited : BOOLEAN]

\* The producer holds its newest frame, and no number above it.
Holds(p) ==
    /\ \E f \in p.sent : f.num = p.num
    /\ \A f \in p.sent : f.num <= p.num
    /\ p.acked <= p.num /\ p.visible <= p.num

\* The anchor is where the last record begins.
Anchored(c) ==
    c.anchor = NoAnchor \/ (c.anchor \in Nat /\ c.anchor = Len(c.buf) - 2)

ConnOK(c) == c \in Conns /\ Holds(c.producer) /\ Anchored(c)

Shapes ==
    /\ session \in [gen : Nat, rows : Nat, alt : BOOLEAN]
    /\ overlay \in [up : BOOLEAN, gen : Nat, rows : Nat]
    /\ epoch \in Nat
    /\ ConnOK(conn)
    /\ down \in Seq(ByteSet) /\ up \in Seq({InitMsg, ShellMsg} \cup Acks)
    /\ view \in Views
    /\ user \in Nat /\ toggled \in BOOLEAN /\ ended \in BOOLEAN

\* The screens that stand for none.
LEMMA ConstantPairs ==
    Blank \in Pairs /\ NoBase \in Pairs /\ Broken \in Pairs
  BY DEF Blank, NoBase, Broken, Pairs

\* A record is two bytes.
LEMMA BytesType ==
    ASSUME NEW r \in Recs
    PROVE  Bytes(r) \in Seq(ByteSet) /\ Len(Bytes(r)) = 2
           /\ Bytes(r)[1] = <<r, 1>> /\ Bytes(r)[2] = <<r, 2>>
  <1>1. <<r, 1>> \in ByteSet /\ <<r, 2>> \in ByteSet
    BY DEF ByteSet
  <1> QED
    BY <1>1 DEF Bytes

\* A record behind the buffer.
LEMMA QueueShape ==
    ASSUME NEW c, ConnOK(c), NEW r \in Recs
    PROVE  /\ ConnOK(Queue(c, r))
           /\ Queue(c, r) = [c EXCEPT !.buf = c.buf \o Bytes(r), !.anchor = NoAnchor]
  <1>1. c.buf \in Seq(ByteSet) /\ Bytes(r) \in Seq(ByteSet)
    BY BytesType DEF ConnOK, Conns
  <1>2. c.buf \o Bytes(r) \in Seq(ByteSet)
    BY <1>1, ConcatProperties
  <1>3. Queue(c, r) = [c EXCEPT !.buf = c.buf \o Bytes(r), !.anchor = NoAnchor]
    BY DEF Queue, ConnOK, Conns
  <1>4. NoAnchor \in Int
    BY DEF NoAnchor
  <1> QED
    BY <1>2, <1>3, <1>4 DEF ConnOK, Conns, Anchored

\* Where a visible frame goes: behind what is buffered, or in place of the
\* frame at the tail.
Cut(c) ==
    IF Coalescing(c) /\ c.anchor # NoAnchor /\ c.anchor =< Len(c.buf)
    THEN c.anchor ELSE Len(c.buf)

\* A frame behind the buffer, cut where the frame it replaces began.
LEMMA QueueVisibleShape ==
    ASSUME NEW c, ConnOK(c), NEW r \in Recs
    PROVE  /\ ConnOK(QueueVisible(c, r))
           /\ QueueVisible(c, r) =
                [c EXCEPT !.buf = SubSeq(c.buf, 1, Cut(c)) \o Bytes(r),
                          !.anchor = IF Coalescing(c) THEN Cut(c) ELSE NoAnchor]
           /\ Cut(c) \in 0 .. Len(c.buf)
           /\ SubSeq(c.buf, 1, Cut(c)) \in Seq(ByteSet)
           /\ Len(SubSeq(c.buf, 1, Cut(c))) = Cut(c)
  <1>1. c.buf \in Seq(ByteSet) /\ Len(c.buf) \in Nat /\ DOMAIN c.buf = 1 .. Len(c.buf)
    BY LenProperties DEF ConnOK, Conns
  <1>2. Cut(c) \in 0 .. Len(c.buf)
    BY <1>1 DEF Cut, NoAnchor, ConnOK, Conns, Anchored
  <1>3. SubSeq(c.buf, 1, Cut(c)) \in Seq(ByteSet) /\ Len(SubSeq(c.buf, 1, Cut(c))) = Cut(c)
    <2>1. \A i \in 1 .. Cut(c) : c.buf[i] \in ByteSet
      BY <1>1, <1>2, ElementOfSeq
    <2>2. /\ SubSeq(c.buf, 1, Cut(c)) \in Seq(ByteSet)
          /\ Len(SubSeq(c.buf, 1, Cut(c))) = IF 1 <= Cut(c) THEN Cut(c) - 1 + 1 ELSE 0
      BY <1>2, <2>1, SubSeqProperties
    <2> QED
      BY <1>2, <2>2
  <1>4. SubSeq(c.buf, 1, Cut(c)) \o Bytes(r) \in Seq(ByteSet)
    BY <1>3, BytesType, ConcatProperties
  <1>5. QueueVisible(c, r) =
                [c EXCEPT !.buf = SubSeq(c.buf, 1, Cut(c)) \o Bytes(r),
                          !.anchor = IF Coalescing(c) THEN Cut(c) ELSE NoAnchor]
    <2>1. CASE ~Coalescing(c)
      <3>1. SubSeq(c.buf, 1, Cut(c)) = c.buf
        BY <1>1, <2>1, SubSeqFull DEF Cut
      <3> QED
        BY <2>1, <3>1 DEF QueueVisible, Queue, ConnOK, Conns
    <2>2. CASE Coalescing(c)
      BY <2>2 DEF QueueVisible, Cut, Queue, ConnOK, Conns
    <2> QED
      BY <2>1, <2>2
  <1>6. (IF Coalescing(c) THEN Cut(c) ELSE NoAnchor) \in Int
    BY <1>1, <1>2 DEF NoAnchor
  <1>7. Len(SubSeq(c.buf, 1, Cut(c)) \o Bytes(r)) = Cut(c) + 2
    <2>1. Bytes(r) \in Seq(ByteSet) /\ Len(Bytes(r)) = 2
      BY BytesType
    <2> DEFINE t == SubSeq(c.buf, 1, Cut(c))
    <2>2. t \in Seq(ByteSet) /\ Len(t) = Cut(c)
      BY <1>3
    <2> HIDE DEF t
    <2>3. Len(t \o Bytes(r)) = Len(t) + Len(Bytes(r))
      BY <2>1, <2>2, ConcatProperties
    <2> QED
      BY <2>1, <2>2, <2>3 DEF t
  <1> DEFINE a == IF Coalescing(c) THEN Cut(c) ELSE NoAnchor
             b == SubSeq(c.buf, 1, Cut(c)) \o Bytes(r)
  <1>8. a = NoAnchor \/ (a \in Nat /\ a = Len(b) - 2)
    BY <1>1, <1>2, <1>7
  <1>9. [c EXCEPT !.buf = b, !.anchor = a] \in Conns
    <2> HIDE DEF a, b
    <2> QED
      BY <1>4, <1>6 DEF ConnOK, Conns, a, b
  <1>10. ConnOK([c EXCEPT !.buf = b, !.anchor = a])
    <2> HIDE DEF a, b
    <2> QED
      BY <1>8, <1>9 DEF ConnOK, Conns, Anchored
  <1> QED
    BY <1>2, <1>3, <1>5, <1>10

\* An acknowledgement touches what is confirmed, and nothing that is queued.
LEMMA AckedShape ==
    ASSUME NEW c, ConnOK(c), NEW n \in Nat
    PROVE  /\ ConnOK(Acked(c, n))
           /\ \A f \in Acked(c, n).producer.sent : f \in c.producer.sent
           /\ Acked(c, n).producer.num = c.producer.num
           /\ Acked(c, n).producer.visible = c.producer.visible
           /\ Acked(c, n).framed = c.framed /\ Acked(c, n).coalesce = c.coalesce
           /\ Acked(c, n).off = c.off /\ Acked(c, n).sb_floor = c.sb_floor
           /\ Acked(c, n).buf = c.buf /\ Acked(c, n).anchor = c.anchor
           /\ n <= c.producer.acked \/ n > c.producer.num => Acked(c, n) = c
           /\ n > c.producer.acked /\ n <= c.producer.num =>
                 /\ Acked(c, n).producer.acked = n
                 /\ \/ /\ Acked(c, n).producer.base = NoBase
                       /\ Acked(c, n).sb_acked = c.sb_acked
                       /\ \A f \in c.producer.sent : f.num # n
                    \/ \E f \in c.producer.sent :
                          /\ f.num = n /\ Acked(c, n).producer.base = f.screen
                          /\ Acked(c, n).sb_acked =
                                IF f.total > c.sb_acked THEN f.total ELSE c.sb_acked
  <1> DEFINE of == {f \in c.producer.sent : f.num = n}
             h  == CHOOSE f \in of : TRUE
             base == IF of = {} THEN NoBase ELSE h.screen
             sent == {g \in c.producer.sent : g.num >= n}
             rows == IF of # {} /\ h.total > c.sb_acked THEN h.total ELSE c.sb_acked
             p == [c.producer EXCEPT !.acked = n, !.base = base, !.sent = sent]
  <1>1. CASE n <= c.producer.acked \/ n > c.producer.num
    <2>1. Acked(c, n) = c
      BY <1>1 DEF Acked
    <2>2. c.producer.num \in Nat /\ c.producer.acked \in Nat
      BY DEF ConnOK, Conns, Producers
    <2> QED
      BY <1>1, <2>1, <2>2
  <1>2. CASE ~(n <= c.producer.acked \/ n > c.producer.num)
    <2>1. Acked(c, n) = [c EXCEPT !.producer = p, !.sb_acked = rows]
      BY <1>2 DEF Acked, ConnOK, Conns, Producers
    <2>2. of # {} => h \in of
      OBVIOUS
    <2>3. c.producer \in Producers /\ c \in Conns /\ Holds(c.producer)
      BY DEF ConnOK, Conns
    <2>4. of # {} => h \in Slots /\ h \in c.producer.sent /\ h.num = n
      BY <2>2, <2>3 DEF Producers
    <2> HIDE DEF h
    <2>5. base \in Pairs /\ rows \in Nat
      BY <2>3, <2>4, ConstantPairs DEF Slots, Conns
    <2>6. sent \in SUBSET Slots /\ sent \subseteq c.producer.sent
      BY <2>3 DEF Producers
    <2> HIDE DEF base, rows
    <2>7. p \in Producers
      BY <2>3, <2>5, <2>6 DEF Producers
    <2>8. /\ p.num = c.producer.num /\ p.visible = c.producer.visible
          /\ p.acked = n /\ p.base = base /\ p.sent = sent
      BY <2>3 DEF Producers
    <2>9. Holds(p)
      BY <1>2, <2>3, <2>6, <2>8 DEF Holds, Producers
    <2> HIDE DEF p
    <2>10. Acked(c, n) \in Conns /\ Acked(c, n).producer = p /\ Acked(c, n).sb_acked = rows
      BY <2>1, <2>3, <2>5, <2>7 DEF Conns
    <2>11. /\ Acked(c, n).framed = c.framed /\ Acked(c, n).coalesce = c.coalesce
           /\ Acked(c, n).off = c.off /\ Acked(c, n).sb_floor = c.sb_floor
           /\ Acked(c, n).buf = c.buf /\ Acked(c, n).anchor = c.anchor
      BY <2>1, <2>3 DEF Conns
    <2>12. \/ base = NoBase /\ rows = c.sb_acked /\ \A f \in c.producer.sent : f.num # n
           \/ \E f \in c.producer.sent :
                 f.num = n /\ base = f.screen
                 /\ rows = IF f.total > c.sb_acked THEN f.total ELSE c.sb_acked
      BY <2>4 DEF base, rows
    <2>13. n > c.producer.acked /\ n <= c.producer.num
      BY <1>2, <2>3 DEF Producers
    <2> HIDE DEF of, sent
    <2> QED
      BY <1>2, <2>6, <2>8, <2>9, <2>10, <2>11, <2>12, <2>13 DEF ConnOK, Anchored
  <1> QED
    BY <1>1, <1>2

\* What a rotation leaves: the new frame, and frames that were there.
LEMMA RotateShape ==
    ASSUME NEW p \in Producers, Holds(p), NEW screen \in Pairs, NEW total \in Nat
    PROVE  LET q == Rotate(p, screen, total)
               new == [num |-> p.num + 1, screen |-> screen, total |-> total]
           IN  /\ q \in Producers /\ Holds(q)
               /\ q.num = p.num + 1 /\ q.acked = p.acked /\ q.base = p.base
               /\ q.visible = p.visible
               /\ new \in q.sent
               /\ \A f \in q.sent : f \in p.sent \/ f = new
               /\ \A f \in q.sent : f.num = p.num + 1 => f = new
  <1> DEFINE new == [num |-> p.num + 1, screen |-> screen, total |-> total]
             old == {f \in p.sent : f.num + Outstanding > p.num}
             q   == Rotate(p, screen, total)
  <1>1. q = [p EXCEPT !.num = p.num + 1, !.sent = old \cup {new}]
    BY DEF Rotate, Producers
  <1>2. new \in Slots /\ new.num = p.num + 1
    BY DEF Slots, Producers
  <1>3. old \in SUBSET Slots /\ old \subseteq p.sent
    BY DEF Producers
  <1>4. q \in Producers /\ q.num = p.num + 1 /\ q.acked = p.acked /\ q.base = p.base
        /\ q.visible = p.visible /\ q.sent = old \cup {new}
    <2> DEFINE sent == old \cup {new}
    <2>1. sent \in SUBSET Slots /\ p.num + 1 \in Nat
      BY <1>2, <1>3 DEF Producers
    <2> HIDE DEF sent, q
    <2>2. q = [p EXCEPT !.num = p.num + 1, !.sent = sent]
      BY <1>1 DEF sent
    <2>3. q \in Producers /\ q.num = p.num + 1 /\ q.acked = p.acked /\ q.base = p.base
          /\ q.visible = p.visible /\ q.sent = sent
      BY <2>1, <2>2 DEF Producers
    <2> QED
      BY <2>3 DEF sent
  <1> HIDE DEF q, old, new
  <1>5. \A f \in old : f.num <= p.num /\ f.num \in Nat /\ p.num \in Nat
    BY <1>3 DEF Holds, Producers, Slots
  <1>6. Holds(q)
    BY <1>2, <1>4, <1>5 DEF Holds, Producers
  <1>7. \A f \in q.sent : f.num = p.num + 1 => f = new
    BY <1>4, <1>5
  <1> QED
    BY <1>3, <1>4, <1>6, <1>7 DEF q, new

\* The screen that is out is that of a frame still held.
LEMMA CurrentShape ==
    ASSUME NEW p \in Producers, Holds(p)
    PROVE  /\ Current(p) \in Pairs
           /\ \E f \in p.sent : f.num = p.num /\ Current(p) = f.screen
  BY DEF Holds, Current, Producers, Slots

\* The frame is confirmed as it is queued, except to a coalescing viewport.
LEMMA SelfAckedShape ==
    ASSUME NEW c, ConnOK(c), NEW new \in Slots,
           new \in c.producer.sent, new.num = c.producer.num,
           c.producer.acked < c.producer.num,
           \A f \in c.producer.sent : f.num = c.producer.num => f = new
    PROVE  LET d == SelfAcked(c)
           IN  /\ ConnOK(d)
               /\ \A f \in d.producer.sent : f \in c.producer.sent
               /\ d.producer.num = c.producer.num /\ d.producer.visible = c.producer.visible
               /\ d.framed = c.framed /\ d.coalesce = c.coalesce /\ d.off = c.off
               /\ d.sb_floor = c.sb_floor /\ d.buf = c.buf /\ d.anchor = c.anchor
               /\ (Coalescing(d) <=> Coalescing(c))
               /\ Coalescing(c) => d = c
               /\ ~Coalescing(c) =>
                     /\ d.producer.acked = c.producer.num /\ d.producer.base = new.screen
                     /\ d.sb_acked = IF new.total > c.sb_acked THEN new.total ELSE c.sb_acked
  <1>1. CASE Coalescing(c)
    BY <1>1 DEF SelfAcked
  <1>2. CASE ~Coalescing(c)
    <2>1. SelfAcked(c) = Acked(c, c.producer.num)
      BY <1>2 DEF SelfAcked
    <2>2. c.producer.num \in Nat /\ c.producer.acked \in Nat
      BY DEF ConnOK, Conns, Producers
    <2> DEFINE n == c.producer.num
               d == Acked(c, n)
    <2>3. /\ ConnOK(d)
          /\ \A f \in d.producer.sent : f \in c.producer.sent
          /\ d.producer.num = c.producer.num /\ d.producer.visible = c.producer.visible
          /\ d.framed = c.framed /\ d.coalesce = c.coalesce /\ d.off = c.off
          /\ d.sb_floor = c.sb_floor /\ d.buf = c.buf /\ d.anchor = c.anchor
      BY <2>2, AckedShape
    <2> HIDE DEF d
    <2>7. n > c.producer.acked /\ n <= c.producer.num
      BY <2>2
    <2>4. /\ d.producer.acked = n
          /\ \/ \A f \in c.producer.sent : f.num # n
             \/ \E f \in c.producer.sent :
                   /\ f.num = n /\ d.producer.base = f.screen
                   /\ d.sb_acked = IF f.total > c.sb_acked THEN f.total ELSE c.sb_acked
      BY <2>2, <2>7, AckedShape DEF d
    <2>5. d.producer.base = new.screen
          /\ d.sb_acked = IF new.total > c.sb_acked THEN new.total ELSE c.sb_acked
      BY <2>4
    <2>6. SelfAcked(c) = d
      BY <2>1 DEF d
    <2> QED
      BY <1>2, <2>3, <2>4, <2>5, <2>6 DEF Coalescing
  <1> QED
    BY <1>1, <1>2

-----------------------------------------------------------------------------
(* The frames of a broadcast. *)

\* What a frame says, and where it goes.
FrameStep(c, screen, m, d) ==
    /\ ConnOK(d)
    /\ m.kind \in {"full", "diff"} /\ m.num = c.producer.num + 1 /\ m.to = screen
    /\ m.kind = "full" => m.base = 0
    /\ m.kind = "diff" =>
          /\ c.producer.base \notin {NoBase, Blank}
          /\ m.base = c.producer.acked /\ m.from = c.producer.base
    /\ d.producer.num = m.num /\ d.producer.visible = m.num
    /\ \A f \in d.producer.sent :
          f \in c.producer.sent \/ (f.num = m.num /\ f.screen = screen /\ f.total = 0)
    /\ d.framed = c.framed /\ d.coalesce = c.coalesce /\ d.off = c.off
    /\ d.sb_floor = c.sb_floor /\ d.sb_acked = c.sb_acked
    /\ Cut(c) \in 0 .. Len(c.buf)
    /\ SubSeq(c.buf, 1, Cut(c)) \in Seq(ByteSet)
    /\ Len(SubSeq(c.buf, 1, Cut(c))) = Cut(c)
    /\ d.buf = SubSeq(c.buf, 1, Cut(c)) \o Bytes(m)
    /\ d.anchor = IF Coalescing(c) THEN Cut(c) ELSE NoAnchor
    /\ Coalescing(c) =>
          d.producer.acked = c.producer.acked /\ d.producer.base = c.producer.base
    /\ ~Coalescing(c) =>
          d.producer.acked = m.num /\ d.producer.base = screen

\* What rows say, over a frame f that is the newest: there are any.
RowsStep(c, of, total, m, f, d) ==
    /\ ConnOK(d)
    /\ total > Floor(c) /\ c.producer.base # NoBase
    /\ f.num = c.producer.num
    /\ m = RowsBody(c.producer.num + 1, c.producer.visible, Rows(of, Floor(c) + 1, total))
    /\ m.kind = "rows" /\ m.num = c.producer.num + 1
    /\ m.base = c.producer.visible
    /\ m.rows = Rows(of, Floor(c) + 1, total)
    /\ d.producer.num = m.num /\ d.producer.visible = c.producer.visible
    /\ \A g \in d.producer.sent :
          \/ g \in c.producer.sent
          \/ g.num = m.num /\ g.screen = f.screen /\ g.total = total
    /\ d.framed = c.framed /\ d.coalesce = c.coalesce /\ d.off = c.off
    /\ d.sb_floor = c.sb_floor
    /\ d.buf = c.buf \o Bytes(m) /\ d.anchor = NoAnchor
    /\ Coalescing(c) =>
          /\ d.producer.acked = c.producer.acked
          /\ d.producer.base = c.producer.base /\ d.sb_acked = c.sb_acked
    /\ ~Coalescing(c) =>
          /\ d.producer.acked = m.num /\ d.producer.base = f.screen
          /\ d.sb_acked = total

\* A frame is queued as FrameStep says.
LEMMA FramedShape ==
    ASSUME NEW c, ConnOK(c), NEW screen \in Pairs, NEW d \in Framed(c, screen)
    PROVE  \E m \in Recs : FrameStep(c, screen, m, d)
  <1> DEFINE new == [num |-> c.producer.num + 1, screen |-> screen, total |-> 0]
             q == Rotate(c.producer, screen, 0)
             p == [q EXCEPT !.visible = c.producer.num + 1]
             e == [c EXCEPT !.producer = p]
             a == SelfAcked(e)
  <1>1. c.producer \in Producers /\ Holds(c.producer) /\ c \in Conns /\ Anchored(c)
    BY DEF ConnOK, Conns
  <1>2. c.producer.num + 1 \in Nat /\ c.producer.num \in Nat /\ c.producer.acked \in Nat
        /\ c.producer.acked <= c.producer.num /\ c.producer.base \in Pairs /\ c.sb_acked \in Nat
    BY <1>1 DEF Producers, Holds, Conns
  <1>3. /\ q \in Producers /\ Holds(q)
        /\ q.num = c.producer.num + 1 /\ q.acked = c.producer.acked /\ q.base = c.producer.base
        /\ new \in q.sent
        /\ \A f \in q.sent : f \in c.producer.sent \/ f = new
        /\ \A f \in q.sent : f.num = c.producer.num + 1 => f = new
    BY <1>1, RotateShape
  <1>4. new \in Slots /\ new.num = c.producer.num + 1 /\ new.screen = screen /\ new.total = 0
    BY <1>2 DEF Slots
  <1> HIDE DEF q, new
  <1>5. /\ p \in Producers /\ p.num = c.producer.num + 1 /\ p.acked = c.producer.acked
        /\ p.base = c.producer.base /\ p.visible = c.producer.num + 1 /\ p.sent = q.sent
    BY <1>2, <1>3 DEF Producers
  <1>6. Holds(p)
    BY <1>2, <1>3, <1>5 DEF Holds
  <1>7. PICK m \in Encodings(p, screen) : d = QueueVisible(a, m)
    BY DEF Framed, q
  <1> HIDE DEF p
  <1>8. /\ e \in Conns /\ e.producer = p
        /\ e.framed = c.framed /\ e.coalesce = c.coalesce /\ e.off = c.off
        /\ e.sb_floor = c.sb_floor /\ e.sb_acked = c.sb_acked
        /\ e.buf = c.buf /\ e.anchor = c.anchor
    BY <1>1, <1>5 DEF Conns
  <1> HIDE DEF e
  <1>9. ConnOK(e)
    BY <1>1, <1>6, <1>8 DEF ConnOK, Anchored
  <1>10. /\ ConnOK(a)
         /\ \A f \in a.producer.sent : f \in e.producer.sent
         /\ a.producer.num = e.producer.num /\ a.producer.visible = e.producer.visible
         /\ a.framed = e.framed /\ a.coalesce = e.coalesce /\ a.off = e.off
         /\ a.sb_floor = e.sb_floor /\ a.buf = e.buf /\ a.anchor = e.anchor
         /\ (Coalescing(a) <=> Coalescing(e))
         /\ Coalescing(e) => a = e
         /\ ~Coalescing(e) =>
               /\ a.producer.acked = e.producer.num /\ a.producer.base = new.screen
               /\ a.sb_acked = IF new.total > e.sb_acked THEN new.total ELSE e.sb_acked
    <2>1. /\ new \in e.producer.sent /\ new.num = e.producer.num
          /\ e.producer.acked < e.producer.num
          /\ \A f \in e.producer.sent : f.num = e.producer.num => f = new
      BY <1>2, <1>3, <1>4, <1>5, <1>8
    <2> HIDE DEF a
    <2> QED
      BY <1>4, <1>9, <2>1, SelfAckedShape DEF a
  <1> HIDE DEF a
  <1>11. (Coalescing(e) <=> Coalescing(c))
    BY <1>8 DEF Coalescing
  <1>12. /\ m \in Recs /\ m.kind \in {"full", "diff"} /\ m.num = c.producer.num + 1
         /\ m.to = screen
         /\ m.kind = "full" => m.base = 0
         /\ m.kind = "diff" =>
               /\ c.producer.base \notin {NoBase, Blank}
               /\ m.base = c.producer.acked /\ m.from = c.producer.base
    <2>1. m = Visible(p.num, "full", 0, NoBase, screen)
          \/ (p.base \notin {NoBase, Blank} /\ m = Visible(p.num, "diff", p.acked, p.base, screen))
      BY <1>7 DEF Encodings
    <2>2. <<>> \in Seq(Pairs)
      BY EmptySeq
    <2>3. p.num \in Nat /\ p.acked \in Nat /\ p.base \in Pairs
      BY <1>2, <1>5
    <2>4. CASE m = Visible(p.num, "full", 0, NoBase, screen)
      BY <2>2, <2>3, <2>4, <1>5, ConstantPairs DEF Visible, Recs
    <2>5. CASE p.base \notin {NoBase, Blank}
               /\ m = Visible(p.num, "diff", p.acked, p.base, screen)
      BY <2>2, <2>3, <2>5, <1>5, ConstantPairs DEF Visible, Recs
    <2> QED
      BY <2>1, <2>4, <2>5
  <1>13. Cut(a) = Cut(c)
    BY <1>8, <1>10, <1>11 DEF Cut
  <1>14. /\ ConnOK(d)
         /\ d = [a EXCEPT !.buf = SubSeq(a.buf, 1, Cut(a)) \o Bytes(m),
                          !.anchor = IF Coalescing(a) THEN Cut(a) ELSE NoAnchor]
         /\ Cut(a) \in 0 .. Len(a.buf)
         /\ SubSeq(a.buf, 1, Cut(a)) \in Seq(ByteSet)
         /\ Len(SubSeq(a.buf, 1, Cut(a))) = Cut(a)
    BY <1>7, <1>10, <1>12, QueueVisibleShape
  <1>15. /\ d.producer = a.producer /\ d.framed = a.framed /\ d.coalesce = a.coalesce
         /\ d.off = a.off /\ d.sb_floor = a.sb_floor /\ d.sb_acked = a.sb_acked
         /\ d.buf = SubSeq(a.buf, 1, Cut(a)) \o Bytes(m)
         /\ d.anchor = IF Coalescing(a) THEN Cut(a) ELSE NoAnchor
    BY <1>10, <1>14 DEF ConnOK, Conns
  <1>16. a.sb_acked = c.sb_acked
    BY <1>2, <1>4, <1>8, <1>10
  <1>17. \A f \in d.producer.sent :
            f \in c.producer.sent \/ (f.num = m.num /\ f.screen = screen /\ f.total = 0)
    BY <1>3, <1>4, <1>5, <1>8, <1>10, <1>12, <1>15
  <1>18. d.producer.num = m.num /\ d.producer.visible = m.num
    BY <1>5, <1>8, <1>10, <1>12, <1>15
  <1>19. /\ Coalescing(c) =>
               d.producer.acked = c.producer.acked /\ d.producer.base = c.producer.base
         /\ ~Coalescing(c) =>
               d.producer.acked = m.num /\ d.producer.base = screen
    BY <1>4, <1>5, <1>8, <1>10, <1>11, <1>12, <1>15
  <1>20. /\ d.framed = c.framed /\ d.coalesce = c.coalesce /\ d.off = c.off
         /\ d.sb_floor = c.sb_floor /\ d.sb_acked = c.sb_acked
         /\ Cut(c) \in 0 .. Len(c.buf)
         /\ SubSeq(c.buf, 1, Cut(c)) \in Seq(ByteSet)
         /\ Len(SubSeq(c.buf, 1, Cut(c))) = Cut(c)
         /\ d.buf = SubSeq(c.buf, 1, Cut(c)) \o Bytes(m)
         /\ d.anchor = IF Coalescing(c) THEN Cut(c) ELSE NoAnchor
    <2>1. /\ d.framed = c.framed /\ d.coalesce = c.coalesce /\ d.off = c.off
          /\ d.sb_floor = c.sb_floor /\ d.sb_acked = c.sb_acked
      BY <1>8, <1>10, <1>15, <1>16
    <2>2. a.buf = c.buf
      BY <1>8, <1>10
    <2>3. (Coalescing(a) <=> Coalescing(c))
      BY <1>10, <1>11
    <2>4. /\ Cut(c) \in 0 .. Len(c.buf)
          /\ SubSeq(c.buf, 1, Cut(c)) \in Seq(ByteSet)
          /\ Len(SubSeq(c.buf, 1, Cut(c))) = Cut(c)
      BY <2>2, <1>13, <1>14
    <2>5. d.buf = SubSeq(c.buf, 1, Cut(c)) \o Bytes(m)
      BY <2>2, <1>13, <1>15
    <2>6. d.anchor = IF Coalescing(c) THEN Cut(c) ELSE NoAnchor
      BY <2>3, <1>13, <1>15
    <2> QED
      BY <2>1, <2>4, <2>5, <2>6
  <1> m \in Recs
    BY <1>12
  <1> WITNESS m \in Recs
  <1> QED
    BY <1>12, <1>14, <1>17, <1>18, <1>19, <1>20 DEF FrameStep

\* Rows are rows.
LEMMA RowsType ==
    ASSUME NEW of \in Nat, NEW first \in Nat, NEW last \in Nat, first <= last
    PROVE  /\ Rows(of, first, last) \in Seq(Pairs)
           /\ Len(Rows(of, first, last)) = last - first + 1
           /\ \A i \in 1 .. last - first + 1 : Rows(of, first, last)[i] = <<of, first + i - 1>>
  <1> DEFINE n == last - first + 1
  <1>1. n \in Nat
    OBVIOUS
  <1>2. \A i \in 1 .. n : <<of, first + i - 1>> \in Pairs
    BY DEF Pairs
  <1>3. Rows(of, first, last) \in [1 .. n -> Pairs]
    BY <1>2 DEF Rows
  <1> QED
    BY <1>1, <1>3 DEF Rows

\* The rows of a broadcast are a further frame of the screen that is out
\* already, as RowsStep says, or there are none.
LEMMA WithRowsShape ==
    ASSUME NEW c, ConnOK(c), NEW of \in Nat, NEW total \in Nat, NEW alt \in BOOLEAN
    PROVE  LET d == WithRows(c, of, total, alt)
           IN  \/ d = c /\ (alt \/ total <= Floor(c) \/ c.producer.base = NoBase)
               \/ ~alt /\ \E m \in Recs, f \in c.producer.sent : RowsStep(c, of, total, m, f, d)
  <1> DEFINE n == Rows(of, Floor(c) + 1, total)
             screen == Current(c.producer)
             new == [num |-> c.producer.num + 1, screen |-> screen, total |-> total]
             p == Rotate(c.producer, screen, total)
             e == [c EXCEPT !.producer = p]
             a == SelfAcked(e)
             m == RowsBody(p.num, p.visible, n)
             d == WithRows(c, of, total, alt)
  <1>1. c.producer \in Producers /\ Holds(c.producer) /\ c \in Conns /\ Anchored(c)
    BY DEF ConnOK, Conns
  <1>2. c.producer.num \in Nat /\ c.producer.acked \in Nat /\ c.producer.visible \in Nat
        /\ c.producer.acked <= c.producer.num /\ c.sb_acked \in Nat /\ c.sb_floor \in Nat
    BY <1>1 DEF Producers, Holds, Conns
  <1>3. Floor(c) \in Nat /\ Floor(c) >= c.sb_acked /\ Floor(c) >= c.sb_floor
    BY <1>2 DEF Floor
  <1>4. CASE alt \/ total <= Floor(c) \/ c.producer.base = NoBase
    BY <1>4 DEF WithRows
  <1>5. CASE ~(alt \/ total <= Floor(c) \/ c.producer.base = NoBase)
    <2>1. PICK f \in c.producer.sent : f.num = c.producer.num /\ screen = f.screen
      BY <1>1, CurrentShape
    <2>2. screen \in Pairs
      BY <1>1, CurrentShape
    <2> HIDE DEF screen
    <2>3. /\ p \in Producers /\ Holds(p)
          /\ p.num = c.producer.num + 1 /\ p.acked = c.producer.acked
          /\ p.base = c.producer.base /\ p.visible = c.producer.visible
          /\ new \in p.sent
          /\ \A g \in p.sent : g \in c.producer.sent \/ g = new
          /\ \A g \in p.sent : g.num = c.producer.num + 1 => g = new
      BY <1>1, <2>2, RotateShape
    <2>4. new \in Slots /\ new.num = c.producer.num + 1 /\ new.screen = screen
          /\ new.total = total
      BY <1>2, <2>2 DEF Slots
    <2>5. n \in Seq(Pairs)
      <3> DEFINE first == Floor(c) + 1
      <3>1. first \in Nat /\ first <= total
        BY <1>3, <1>5
      <3> HIDE DEF first
      <3>2. Rows(of, first, total) \in Seq(Pairs)
        BY <3>1, RowsType
      <3> QED
        BY <3>2 DEF first
    <2>6. d = Queue(a, m)
      BY <1>5 DEF WithRows, screen
    <2> HIDE DEF p, new, n, d
    <2>7. m \in Recs /\ m.kind = "rows" /\ m.num = c.producer.num + 1
          /\ m.base = c.producer.visible /\ m.rows = n
      BY <2>3, <2>5, <1>2, ConstantPairs DEF RowsBody, Recs
    <2>8. m = RowsBody(c.producer.num + 1, c.producer.visible, n)
      BY <2>3
    <2>9. /\ e \in Conns /\ e.producer = p
          /\ e.framed = c.framed /\ e.coalesce = c.coalesce /\ e.off = c.off
          /\ e.sb_floor = c.sb_floor /\ e.sb_acked = c.sb_acked
          /\ e.buf = c.buf /\ e.anchor = c.anchor
      BY <1>1, <2>3 DEF Conns
    <2> HIDE DEF e, m
    <2>10. ConnOK(e)
      BY <1>1, <2>3, <2>9 DEF ConnOK, Anchored
    <2>11. /\ ConnOK(a)
           /\ \A g \in a.producer.sent : g \in e.producer.sent
           /\ a.producer.num = e.producer.num /\ a.producer.visible = e.producer.visible
           /\ a.framed = e.framed /\ a.coalesce = e.coalesce /\ a.off = e.off
           /\ a.sb_floor = e.sb_floor /\ a.buf = e.buf /\ a.anchor = e.anchor
           /\ (Coalescing(a) <=> Coalescing(e))
           /\ Coalescing(e) => a = e
           /\ ~Coalescing(e) =>
                 /\ a.producer.acked = e.producer.num /\ a.producer.base = new.screen
                 /\ a.sb_acked = IF new.total > e.sb_acked THEN new.total ELSE e.sb_acked
      <3>1. /\ new \in e.producer.sent /\ new.num = e.producer.num
            /\ e.producer.acked < e.producer.num
            /\ \A g \in e.producer.sent : g.num = e.producer.num => g = new
        BY <1>2, <2>3, <2>4, <2>9
      <3> HIDE DEF a
      <3> QED
        BY <2>4, <2>10, <3>1, SelfAckedShape DEF a
    <2> HIDE DEF a
    <2>12. (Coalescing(e) <=> Coalescing(c))
      BY <2>9 DEF Coalescing
    <2>13. ConnOK(d) /\ d = [a EXCEPT !.buf = a.buf \o Bytes(m), !.anchor = NoAnchor]
      BY <2>6, <2>7, <2>11, QueueShape
    <2>14. /\ d.producer = a.producer /\ d.framed = a.framed /\ d.coalesce = a.coalesce
           /\ d.off = a.off /\ d.sb_floor = a.sb_floor /\ d.sb_acked = a.sb_acked
           /\ d.buf = a.buf \o Bytes(m) /\ d.anchor = NoAnchor
      BY <2>11, <2>13 DEF ConnOK, Conns
    <2>15. /\ d.framed = c.framed /\ d.coalesce = c.coalesce /\ d.off = c.off
           /\ d.sb_floor = c.sb_floor
           /\ d.buf = c.buf \o Bytes(m) /\ d.anchor = NoAnchor
      BY <2>9, <2>11, <2>14
    <2>16. d.producer.num = m.num /\ d.producer.visible = c.producer.visible
      BY <2>3, <2>7, <2>9, <2>11, <2>14
    <2>17. \A g \in d.producer.sent :
              \/ g \in c.producer.sent
              \/ g.num = m.num /\ g.screen = f.screen /\ g.total = total
      BY <2>1, <2>3, <2>4, <2>7, <2>9, <2>11, <2>14
    <2>18. Coalescing(c) =>
              /\ d.producer.acked = c.producer.acked
              /\ d.producer.base = c.producer.base /\ d.sb_acked = c.sb_acked
      BY <2>3, <2>9, <2>11, <2>12, <2>14
    <2>19. ~Coalescing(c) =>
              /\ d.producer.acked = m.num /\ d.producer.base = f.screen
              /\ d.sb_acked = total
      BY <1>2, <1>3, <1>5, <2>1, <2>3, <2>4, <2>7, <2>9, <2>11, <2>12, <2>14
    <2>20. RowsStep(c, of, total, m, f, d)
      <3>1. total > Floor(c) /\ c.producer.base # NoBase
        BY <1>3, <1>5
      <3>2. m = RowsBody(c.producer.num + 1, c.producer.visible, Rows(of, Floor(c) + 1, total))
            /\ m.rows = Rows(of, Floor(c) + 1, total)
        BY <2>7, <2>8 DEF n
      <3> QED
        BY <3>1, <3>2, <2>1, <2>7, <2>13, <2>15, <2>16, <2>17, <2>18, <2>19 DEF RowsStep
    <2> QED
      BY <1>5, <2>1, <2>7, <2>20 DEF d
  <1> QED
    BY <1>4, <1>5

-----------------------------------------------------------------------------
(* What a step of the daemon does to the viewport's connection.             *)

\* To give up the base is to forget one dump.
LEMMA DropBaseShape ==
    ASSUME NEW c, ConnOK(c)
    PROVE  LET d == DropBase(c)
           IN  /\ ConnOK(d)
               /\ d.producer.base = NoBase /\ d.producer.sent = c.producer.sent
               /\ d.producer.num = c.producer.num /\ d.producer.acked = c.producer.acked
               /\ d.producer.visible = c.producer.visible
               /\ d.framed = c.framed /\ d.coalesce = c.coalesce /\ d.off = c.off
               /\ d.sb_floor = c.sb_floor /\ d.sb_acked = c.sb_acked
               /\ d.buf = c.buf /\ d.anchor = c.anchor
  <1> DEFINE p == [c.producer EXCEPT !.base = NoBase]
             d == [c EXCEPT !.producer = p]
  <1>1. c.producer \in Producers /\ Holds(c.producer) /\ c \in Conns /\ Anchored(c)
    BY DEF ConnOK, Conns
  <1>2. DropBase(c) = d
    BY <1>1 DEF DropBase, Conns
  <1>3. /\ p \in Producers /\ p.base = NoBase /\ p.sent = c.producer.sent
        /\ p.num = c.producer.num /\ p.acked = c.producer.acked
        /\ p.visible = c.producer.visible
    BY <1>1, ConstantPairs DEF Producers
  <1>4. Holds(p)
    BY <1>1, <1>3 DEF Holds
  <1> HIDE DEF p
  <1>5. /\ d \in Conns /\ d.producer = p
        /\ d.framed = c.framed /\ d.coalesce = c.coalesce /\ d.off = c.off
        /\ d.sb_floor = c.sb_floor /\ d.sb_acked = c.sb_acked
        /\ d.buf = c.buf /\ d.anchor = c.anchor
    BY <1>1, <1>3 DEF Conns
  <1> HIDE DEF d
  <1> QED
    BY <1>1, <1>2, <1>3, <1>4, <1>5 DEF ConnOK, Anchored

\* The connection as a broadcast of `screen` leaves it, with what of the rows
\* of the terminal is not yet there.
Broadcasted(c, screen, of, total, alt, k) ==
    \E m \in Recs, d \in Conns :
        /\ FrameStep(c, screen, m, d)
        /\ \/ k = d /\ (alt \/ total <= Floor(d) \/ d.producer.base = NoBase)
           \/ ~alt /\ \E r \in Recs, f \in d.producer.sent : RowsStep(d, of, total, r, f, k)

\* The rows of the source.
SourceOf    == IF overlay.up THEN epoch ELSE 0
SourceTotal == IF overlay.up THEN overlay.rows ELSE session.rows

Sources ==
    /\ session \in [gen : Nat, rows : Nat, alt : BOOLEAN]
    /\ overlay \in [up : BOOLEAN, gen : Nat, rows : Nat]
    /\ epoch \in Nat

\* The source is one of the terminals.
LEMMA SourceTypes ==
    ASSUME Sources
    PROVE  /\ Latest \in Pairs /\ Latest \in Nat \X Nat
           /\ SourceOf \in Nat /\ SourceTotal \in Nat /\ SourceAlt \in BOOLEAN
  BY DEF Sources, Latest, SourceOf, SourceTotal, SourceAlt, Pairs

\* A broadcast is a frame with rows behind it, once a viewport is attached.
LEMMA BroadcastCases ==
    ASSUME NEW c, ConnOK(c), Sources', Broadcast(c)
    PROVE  IF c.framed THEN Broadcasted(c, Latest', SourceOf', SourceTotal', SourceAlt', conn')
           ELSE conn' = c
  <1>1. CASE ~c.framed
    BY <1>1 DEF Broadcast
  <1>2. CASE c.framed
    <2>1. /\ Latest' \in Pairs
          /\ SourceOf' \in Nat /\ SourceTotal' \in Nat /\ SourceAlt' \in BOOLEAN
      BY DEF Sources, Latest, SourceOf, SourceTotal, SourceAlt, Pairs
    <2>2. PICK d \in Framed(c, Latest') : conn' = WithRows(d, SourceOf', SourceTotal', SourceAlt')
      BY <1>2 DEF Broadcast, SourceOf, SourceTotal, SourceAlt, Sources
    <2>3. PICK m \in Recs : FrameStep(c, Latest', m, d)
      BY <2>1, FramedShape
    <2>4. ConnOK(d)
      BY <2>3 DEF FrameStep
    <2>5. \/ conn' = d /\ (SourceAlt' \/ SourceTotal' <= Floor(d) \/ d.producer.base = NoBase)
          \/ ~SourceAlt' /\ \E r \in Recs, f \in d.producer.sent :
                RowsStep(d, SourceOf', SourceTotal', r, f, conn')
      BY <2>1, <2>2, <2>4, WithRowsShape
    <2>6. d \in Conns
      BY <2>4 DEF ConnOK
    <2> QED
      BY <1>2, <2>3, <2>5, <2>6 DEF Broadcasted
  <1> QED
    BY <1>1, <1>2

\* A requested frame comes alone.
LEMMA RequestCases ==
    ASSUME NEW c, ConnOK(c), Sources, Request(c)
    PROVE  \E m \in Recs : FrameStep(c, Latest, m, conn')
  BY SourceTypes, FramedShape DEF Request

\* An acknowledgement, up to its answer.
Toggled(c, off) == [c EXCEPT !.off = off, !.anchor = IF off THEN NoAnchor ELSE c.anchor]

\* The toggle leaves frames and buffer alone.
LEMMA ToggledShape ==
    ASSUME NEW c, ConnOK(c), NEW off \in BOOLEAN
    PROVE  LET d == Toggled(c, off)
           IN  /\ ConnOK(d)
               /\ d.producer = c.producer
               /\ d.framed = c.framed /\ d.coalesce = c.coalesce /\ d.off = off
               /\ d.sb_floor = c.sb_floor /\ d.sb_acked = c.sb_acked
               /\ d.buf = c.buf /\ d.anchor \in {c.anchor, NoAnchor}
               /\ ~off => d.anchor = c.anchor
  <1>1. NoAnchor \in Int
    BY DEF NoAnchor
  <1> QED
    BY <1>1 DEF Toggled, ConnOK, Conns, Anchored

\* What an acknowledgement can do.
LEMMA HeardCases ==
    ASSUME NEW c, ConnOK(c), NEW m \in Acks
    PROVE  LET t == Toggled(c, m.off)
               a == Acked(t, m.num)
           IN  /\ ConnOK(t) /\ ConnOK(a)
               /\ Heard(c, m) = IF m.resync THEN DropBase(a) ELSE a
               /\ ConnOK(Heard(c, m))
  <1> DEFINE t == Toggled(c, m.off)
             a == Acked(t, m.num)
  <1>1. m.off \in BOOLEAN /\ m.num \in Nat
    BY DEF Acks
  <1>2. ConnOK(t)
    BY <1>1, ToggledShape
  <1>3. ConnOK(a)
    BY <1>1, <1>2, AckedShape
  <1>4. Heard(c, m) = IF m.resync THEN DropBase(a) ELSE a
    BY DEF Heard, Toggled, ConnOK, Conns
  <1>5. ConnOK(DropBase(a))
    BY <1>3, DropBaseShape
  <1> QED
    BY <1>2, <1>3, <1>4, <1>5

-----------------------------------------------------------------------------
(* Sequences.                                                               *)

\* What is true of all of a sequence is true of a beginning of it, ...
LEMMA Prefixes ==
    ASSUME NEW S, NEW s \in Seq(S), NEW n \in 0 .. Len(s)
    PROVE  /\ SubSeq(s, 1, n) \in Seq(S) /\ Len(SubSeq(s, 1, n)) = n
           /\ \A i \in 1 .. n : SubSeq(s, 1, n)[i] = s[i]
  <1>1. Len(s) \in Nat /\ \A i \in 1 .. Len(s) : s[i] \in S
    BY LenProperties, ElementOfSeq
  <1>2. n \in Int /\ \A i \in 1 .. n : s[i] \in S
    BY <1>1
  <1>3. /\ SubSeq(s, 1, n) \in Seq(S)
        /\ Len(SubSeq(s, 1, n)) = IF 1 <= n THEN n - 1 + 1 ELSE 0
        /\ \A i \in 1 .. n - 1 + 1 : SubSeq(s, 1, n)[i] = s[1 + i - 1]
    BY <1>2, SubSeqProperties
  <1> QED
    BY <1>1, <1>3

\* ... and of an end of it, position by position.
LEMMA Suffixes ==
    ASSUME NEW S, NEW s \in Seq(S), NEW n \in 0 .. Len(s)
    PROVE  /\ SubSeq(s, n + 1, Len(s)) \in Seq(S)
           /\ Len(SubSeq(s, n + 1, Len(s))) = Len(s) - n
           /\ \A i \in 1 .. Len(s) - n : SubSeq(s, n + 1, Len(s))[i] = s[n + i]
  <1>1. Len(s) \in Nat /\ \A i \in 1 .. Len(s) : s[i] \in S
    BY LenProperties, ElementOfSeq
  <1>2. n + 1 \in Int /\ Len(s) \in Int /\ \A i \in n + 1 .. Len(s) : s[i] \in S
    BY <1>1
  <1> DEFINE a == n + 1
             b == Len(s)
  <1>3. a \in Int /\ b \in Int /\ \A i \in a .. b : s[i] \in S
    BY <1>2
  <1> HIDE DEF a, b
  <1>4. /\ SubSeq(s, a, b) \in Seq(S)
        /\ Len(SubSeq(s, a, b)) = IF a <= b THEN b - a + 1 ELSE 0
        /\ \A i \in 1 .. b - a + 1 : SubSeq(s, a, b)[i] = s[a + i - 1]
    BY <1>3, SubSeqProperties
  <1> QED
    BY <1>1, <1>4 DEF a, b

\* A sequence over fewer elements is one over more.
LEMMA Wider ==
    ASSUME NEW S, NEW T, NEW s \in Seq(S), \A i \in 1 .. Len(s) : s[i] \in T
    PROVE  s \in Seq(T)
  <1>1. Len(s) \in Nat /\ s \in [1 .. Len(s) -> S]
    BY LenProperties
  <1>2. s = [i \in 1 .. Len(s) |-> s[i]]
    BY <1>1
  <1>3. s \in [1 .. Len(s) -> T]
    BY <1>2
  <1> QED
    BY <1>1, <1>3

-----------------------------------------------------------------------------
(* The other steps.                                                         *)

Attached(c, floor) == [c EXCEPT !.framed = TRUE, !.sb_floor = floor]

\* The viewport is attached.
LEMMA AttachedShape ==
    ASSUME NEW c, ConnOK(c), NEW floor \in Nat
    PROVE  LET d == Attached(c, floor)
           IN  /\ ConnOK(d) /\ d.framed /\ d.sb_floor = floor
               /\ d.producer = c.producer /\ d.coalesce = c.coalesce /\ d.off = c.off
               /\ d.sb_acked = c.sb_acked /\ d.buf = c.buf /\ d.anchor = c.anchor
  BY DEF Attached, ConnOK, Conns, Anchored

Drained(c, n) ==
    [c EXCEPT !.buf = SubSeq(c.buf, n + 1, Len(c.buf)), !.anchor = AnchorAfter(c, n)]

\* Part of the buffer goes out; the anchor moves with what is left.
LEMMA DrainedShape ==
    ASSUME NEW c, ConnOK(c), NEW n \in 1 .. Len(c.buf)
    PROVE  LET d == Drained(c, n)
           IN  /\ ConnOK(d) /\ d.producer = c.producer
               /\ d.framed = c.framed /\ d.coalesce = c.coalesce /\ d.off = c.off
               /\ d.sb_floor = c.sb_floor /\ d.sb_acked = c.sb_acked
               /\ d.buf = SubSeq(c.buf, n + 1, Len(c.buf))
               /\ Len(d.buf) = Len(c.buf) - n
               /\ \A i \in 1 .. Len(c.buf) - n : d.buf[i] = c.buf[n + i]
               /\ d.anchor # NoAnchor => c.anchor # NoAnchor
               /\ d.anchor = NoAnchor => c.anchor = NoAnchor \/ Len(d.buf) < 2
  <1>1. c.buf \in Seq(ByteSet) /\ c \in Conns
    BY DEF ConnOK, Conns
  <1>2. Len(c.buf) \in Nat /\ n \in 0 .. Len(c.buf)
    BY <1>1, LenProperties
  <1> DEFINE b == SubSeq(c.buf, n + 1, Len(c.buf))
             a == AnchorAfter(c, n)
  <1>3. /\ b \in Seq(ByteSet) /\ Len(b) = Len(c.buf) - n
        /\ \A i \in 1 .. Len(c.buf) - n : b[i] = c.buf[n + i]
    BY <1>1, <1>2, Suffixes
  <1> HIDE DEF b
  <1>4. /\ a \in Int /\ (a = NoAnchor \/ (a \in Nat /\ a = Len(b) - 2))
        /\ a # NoAnchor => c.anchor # NoAnchor
        /\ a = NoAnchor => c.anchor = NoAnchor \/ Len(b) < 2
    BY <1>2, <1>3 DEF ConnOK, Conns, Anchored, AnchorAfter, NoAnchor
  <1> HIDE DEF a
  <1>5. Drained(c, n) = [c EXCEPT !.buf = b, !.anchor = a]
    BY DEF Drained, a, b
  <1>6. ConnOK(Drained(c, n))
    BY <1>3, <1>4, <1>5 DEF ConnOK, Conns, Anchored
  <1>7. Drained(c, n).buf = b /\ Drained(c, n).anchor = a
    BY <1>1, <1>5 DEF Conns
  <1> QED
    BY <1>1, <1>3, <1>4, <1>5, <1>6, <1>7 DEF Conns, b

Closed(c) == [c EXCEPT !.buf = <<>>, !.anchor = NoAnchor]

\* The buffer of a daemon that has left is empty.
LEMMA ClosedShape ==
    ASSUME NEW c, ConnOK(c)
    PROVE  LET d == Closed(c)
           IN  /\ ConnOK(d) /\ d.producer = c.producer
               /\ d.framed = c.framed /\ d.coalesce = c.coalesce /\ d.off = c.off
               /\ d.sb_floor = c.sb_floor /\ d.sb_acked = c.sb_acked
               /\ d.buf = <<>> /\ d.anchor = NoAnchor
  <1>1. <<>> \in Seq(ByteSet) /\ NoAnchor \in Int
    BY EmptySeq DEF NoAnchor
  <1> QED
    BY <1>1 DEF Closed, ConnOK, Conns, Anchored

\* What the daemon leaves in the socket as it ends.
LEMMA EndBytes ==
    ASSUME NEW c, ConnOK(c), NEW n \in 0 .. Len(c.buf) + 2
    PROVE  LET s == SubSeq(c.buf \o Bytes(Exit), 1, n)
           IN  /\ s \in Seq(ByteSet) /\ Len(s) = n
               /\ \A i \in 1 .. n : IF i <= Len(c.buf) THEN s[i] = c.buf[i] ELSE s[i][1] = Exit
  <1> DEFINE t == c.buf \o Bytes(Exit)
  <1>1. c.buf \in Seq(ByteSet) /\ Len(c.buf) \in Nat
    BY LenProperties DEF ConnOK, Conns
  <1>2. Exit \in Recs
    BY ConstantPairs, EmptySeq DEF Exit, Recs
  <1>3. Bytes(Exit) \in Seq(ByteSet) /\ Len(Bytes(Exit)) = 2
        /\ Bytes(Exit)[1] = <<Exit, 1>> /\ Bytes(Exit)[2] = <<Exit, 2>>
    BY <1>2, BytesType
  <1>4. /\ t \in Seq(ByteSet) /\ Len(t) = Len(c.buf) + Len(Bytes(Exit))
        /\ \A i \in 1 .. Len(c.buf) + Len(Bytes(Exit)) :
              t[i] = IF i <= Len(c.buf) THEN c.buf[i] ELSE Bytes(Exit)[i - Len(c.buf)]
    BY <1>1, <1>3, ConcatProperties
  <1> HIDE DEF t
  <1>5. /\ SubSeq(t, 1, n) \in Seq(ByteSet) /\ Len(SubSeq(t, 1, n)) = n
        /\ \A i \in 1 .. n : SubSeq(t, 1, n)[i] = t[i]
    BY <1>3, <1>4, Prefixes
  <1>6. \A i \in 1 .. n : IF i <= Len(c.buf) THEN t[i] = c.buf[i] ELSE t[i][1] = Exit
    <2> SUFFICES ASSUME NEW i \in 1 .. n
                 PROVE  IF i <= Len(c.buf) THEN t[i] = c.buf[i] ELSE t[i][1] = Exit
      OBVIOUS
    <2>1. i - Len(c.buf) \in {1, 2} \/ i <= Len(c.buf)
      BY <1>1
    <2>2. t[i] = IF i <= Len(c.buf) THEN c.buf[i] ELSE Bytes(Exit)[i - Len(c.buf)]
      BY <1>1, <1>3, <1>4
    <2> QED
      BY <1>3, <2>1, <2>2
  <1> QED
    BY <1>5, <1>6 DEF t

-----------------------------------------------------------------------------
(* Shapes are kept.                                                         *)

Msgs == {InitMsg, ShellMsg} \cup Acks

\* The first message is a message.
LEMMA HeadMsg ==
    ASSUME up \in Seq(Msgs), up # <<>>
    PROVE  /\ Head(up) \in Msgs /\ Tail(up) \in Seq(Msgs)
           /\ Head(up).kind = "ack" => Head(up) \in Acks
  <1>1. Head(up) \in Msgs /\ Tail(up) \in Seq(Msgs)
    BY HeadTailProperties
  <1> QED
    BY <1>1 DEF Msgs, InitMsg, ShellMsg

\* A record read off the socket.
LEMMA TakeShape ==
    ASSUME Shapes, Take
    PROVE  /\ down[1] \in ByteSet /\ down[1][1] \in Recs
           /\ view' \in Views
           /\ up' = up \/ (up' = Append(up, Ack(view'.num, Behind(down[1][1]), FALSE))
                           /\ view.acks /\ ~ended /\ down[1][1].kind # "exit")
           /\ up' \in Seq(Msgs)
           /\ down' \in Seq(ByteSet) /\ Len(down') = Len(down) - 2
           /\ \A i \in 1 .. Len(down) - 2 : down'[i] = down[2 + i]
  <1> DEFINE m == down[1][1]
  <1>1. down \in Seq(ByteSet) /\ Len(down) \in Nat /\ up \in Seq(Msgs) /\ view \in Views
    BY LenProperties DEF Shapes, Msgs
  <1>2. down[1] \in ByteSet /\ m \in Recs
    BY <1>1, ElementOfSeq DEF Take, ByteSet
  <1>3. /\ SubSeq(down, 2 + 1, Len(down)) \in Seq(ByteSet)
        /\ Len(SubSeq(down, 2 + 1, Len(down))) = Len(down) - 2
        /\ \A i \in 1 .. Len(down) - 2 : SubSeq(down, 2 + 1, Len(down))[i] = down[2 + i]
    <2>1. 2 \in 0 .. Len(down)
      BY <1>1 DEF Take
    <2> QED
      BY <1>1, <2>1, Suffixes
  <1>4. down' = SubSeq(down, 2 + 1, Len(down))
    BY DEF Take
  <1> HIDE DEF m
  <1>5. Rebuilt(m) \in Pairs
    BY <1>2, ConstantPairs DEF Rebuilt, Recs
  <1>6. m.rows \in Seq(Pairs) /\ m.num \in Nat /\ view.ring \in Seq(Pairs)
    BY <1>1, <1>2 DEF Recs, Views
  <1>7. view.ring \o m.rows \in Seq(Pairs)
    BY <1>6, ConcatProperties
  <1>8. Shown(m) \in Views
    BY <1>1, <1>5, <1>6, <1>7 DEF Shown, Views
  <1>9. view' \in Views
    BY <1>1, <1>8 DEF Take, Views, m
  <1>10. Ack(view'.num, Behind(m), FALSE) \in Msgs
    BY <1>9 DEF Ack, Msgs, Acks, Views, Behind
  <1>11. Append(up, Ack(view'.num, Behind(m), FALSE)) \in Seq(Msgs)
    BY <1>1, <1>10, AppendProperties
  <1>12. up' = up \/ (up' = Append(up, Ack(view'.num, Behind(m), FALSE))
                      /\ view.acks /\ ~ended /\ m.kind # "exit")
    BY DEF Take, m
  <1> QED
    BY <1>1, <1>2, <1>3, <1>4, <1>9, <1>11, <1>12 DEF m

\* Shapes hold at the start, ...
LEMMA ShapesInit == Init => Shapes
  <1> SUFFICES ASSUME Init PROVE Shapes
    OBVIOUS
  <1> DEFINE slot == [num |-> 0, screen |-> Blank, total |-> 0]
  <1>1. NewProducer \in Producers /\ Holds(NewProducer)
    <2>1. slot \in Slots
      BY ConstantPairs DEF Slots
    <2>2. {slot} \in SUBSET Slots /\ slot.num = 0
      BY <2>1
    <2> HIDE DEF slot
    <2>3. NewProducer = [num |-> 0, acked |-> 0, base |-> Blank, visible |-> 0, sent |-> {slot}]
      BY DEF NewProducer, slot
    <2> QED
      BY <2>2, <2>3, ConstantPairs DEF Producers, Holds
  <1>2. <<>> \in Seq(ByteSet) /\ <<>> \in Seq(Pairs) /\ NoAnchor \in Int
    BY EmptySeq DEF NoAnchor
  <1>3. PICK coalesce \in BOOLEAN :
           /\ conn = NewConn(coalesce)
           /\ view = [num |-> 0, screen |-> Blank, ring |-> <<>>, acks |-> coalesce,
                      exited |-> FALSE]
    BY DEF Init
  <1>4. ConnOK(conn)
    BY <1>1, <1>2, <1>3 DEF NewConn, ConnOK, Conns, Anchored
  <1>5. view \in Views
    BY <1>2, <1>3, ConstantPairs DEF Views
  <1>6. up \in Seq(Msgs) /\ down \in Seq(ByteSet)
    BY <1>2 DEF Init, Msgs
  <1> QED
    BY <1>4, <1>5, <1>6 DEF Init, Shapes, Msgs

\* A queued frame and the rows behind it leave a connection.
LEMMA BroadcastedOK ==
    ASSUME NEW c, NEW screen, NEW of, NEW total, NEW alt, NEW k,
           Broadcasted(c, screen, of, total, alt, k)
    PROVE  ConnOK(k)
  BY DEF Broadcasted, FrameStep, RowsStep

\* A broadcast leaves a connection.
LEMMA BroadcastOK ==
    ASSUME NEW c, ConnOK(c), Sources', Broadcast(c)
    PROVE  ConnOK(conn')
  BY BroadcastCases, BroadcastedOK

\* So does a request.
LEMMA RequestOK ==
    ASSUME NEW c, ConnOK(c), Sources, Request(c)
    PROVE  ConnOK(conn')
  BY RequestCases DEF FrameStep

\* ... and after every step.
LEMMA ShapesStep == Shapes /\ [Next]_vars => Shapes'
  <1> SUFFICES ASSUME Shapes, [Next]_vars PROVE Shapes'
    OBVIOUS
  <1> USE DEF Msgs
  <1>1. /\ Sources /\ ConnOK(conn) /\ down \in Seq(ByteSet) /\ up \in Seq(Msgs)
        /\ view \in Views /\ user \in Nat /\ toggled \in BOOLEAN /\ ended \in BOOLEAN
    BY DEF Shapes, Sources
  <1>2. /\ session \in [gen : Nat, rows : Nat, alt : BOOLEAN]
        /\ overlay \in [up : BOOLEAN, gen : Nat, rows : Nat] /\ epoch \in Nat
    BY <1>1 DEF Sources
  <1>3. ASSUME NEW scrolls \in BOOLEAN, NEW alt \in BOOLEAN, Output(scrolls, alt)
        PROVE  Shapes'
    <2>1. Sources'
      BY <1>1, <1>3 DEF Output, Sources
    <2>2. ConnOK(conn')
      BY <1>1, <1>3, <2>1, BroadcastOK DEF Output
    <2> QED
      BY <1>1, <1>3, <2>1, <2>2 DEF Output, Shapes, Sources
  <1>4. ASSUME NEW scrolls \in BOOLEAN, OverlayOutput(scrolls)
        PROVE  Shapes'
    <2>1. Sources'
      <3>1. overlay' = [overlay EXCEPT !.gen = overlay.gen + 1,
                          !.rows = IF scrolls THEN overlay.rows + 1 ELSE overlay.rows]
            /\ UNCHANGED <<session, epoch>>
        BY <1>4 DEF OverlayOutput
      <3>2. overlay' \in [up : BOOLEAN, gen : Nat, rows : Nat]
        <4> DEFINE r == IF scrolls THEN overlay.rows + 1 ELSE overlay.rows
        <4>1. r \in Nat /\ overlay.gen + 1 \in Nat
          BY <1>2
        <4>2. overlay' = [overlay EXCEPT !.gen = overlay.gen + 1, !.rows = r]
          BY <3>1
        <4> HIDE DEF r
        <4> QED
          BY <1>2, <4>1, <4>2
      <3> QED
        BY <1>2, <3>1, <3>2 DEF Sources
    <2>2. ConnOK(conn')
      BY <1>1, <1>4, <2>1, BroadcastOK DEF OverlayOutput
    <2> QED
      BY <1>1, <1>4, <2>1, <2>2 DEF OverlayOutput, Shapes, Sources
  <1>5. CASE CloseOverlay
    <2>1. Sources'
      <3>1. overlay' \in [up : BOOLEAN, gen : Nat, rows : Nat]
        BY <1>2, <1>5 DEF CloseOverlay
      <3> QED
        BY <1>2, <1>5, <3>1 DEF CloseOverlay, Sources
    <2>2. ConnOK(DropBase(conn))
      BY <1>1, DropBaseShape
    <2>3. ConnOK(conn')
      BY <1>5, <2>1, <2>2, BroadcastOK DEF CloseOverlay
    <2> QED
      BY <1>1, <1>5, <2>1, <2>3 DEF CloseOverlay, Shapes, Sources
  <1>6. CASE HearInit
    <2> DEFINE c == IF conn.framed THEN conn ELSE Attached(conn, session.rows)
    <2>1. session.rows \in Nat
      BY <1>1 DEF Sources
    <2>2. ConnOK(c)
      BY <1>1, <2>1, AttachedShape
    <2>3. Request(c) \/ conn' = c
      BY <1>6 DEF HearInit, Attached
    <2> HIDE DEF c
    <2>4. ConnOK(conn')
      BY <1>1, <2>2, <2>3, RequestOK
    <2>5. Tail(up) \in Seq(Msgs)
      BY <1>1, <1>6, HeadMsg DEF HearInit
    <2> QED
      BY <1>1, <1>6, <2>4, <2>5 DEF HearInit, Shapes, Sources
  <1>7. CASE HearShell
    <2>1. Sources'
      <3>1. overlay' \in [up : BOOLEAN, gen : Nat, rows : Nat]
        <4>1. overlay' = overlay \/ overlay' = [up |-> TRUE, gen |-> 0, rows |-> 0]
          BY <1>7 DEF HearShell
        <4>2. [up |-> TRUE, gen |-> 0, rows |-> 0] \in [up : BOOLEAN, gen : Nat, rows : Nat]
          OBVIOUS
        <4> QED
          BY <1>2, <4>1, <4>2, Zenon
      <3>2. epoch' \in Nat /\ session' = session
        BY <1>2, <1>7 DEF HearShell
      <3> QED
        BY <1>2, <3>1, <3>2 DEF Sources
    <2>2. ConnOK(DropBase(conn))
      BY <1>1, DropBaseShape
    <2>3. ConnOK(conn')
      BY <1>1, <1>7, <2>1, <2>2, BroadcastOK DEF HearShell
    <2>4. Tail(up) \in Seq(Msgs)
      BY <1>1, <1>7, HeadMsg DEF HearShell
    <2> QED
      BY <1>1, <1>7, <2>1, <2>3, <2>4 DEF HearShell, Shapes, Sources
  <1>8. CASE HearAck
    <2>1. Tail(up) \in Seq(Msgs) /\ Head(up) \in Acks
      BY <1>1, <1>8, HeadMsg DEF HearAck
    <2>2. ConnOK(Heard(conn, Head(up)))
      BY <1>1, <2>1, HeardCases
    <2>3. conn' = conn \/ conn' = Heard(conn, Head(up)) \/ Request(Heard(conn, Head(up)))
      BY <1>8 DEF HearAck
    <2>4. ConnOK(conn')
      BY <1>1, <2>2, <2>3, RequestOK
    <2> QED
      BY <1>1, <1>8, <2>1, <2>4 DEF HearAck, Shapes, Sources
  <1>9. ASSUME NEW n \in 1 .. SockCap, Drain(n)
        PROVE  Shapes'
    <2>1. conn.buf \in Seq(ByteSet) /\ Len(conn.buf) \in Nat
      BY <1>1, LenProperties DEF ConnOK, Conns
    <2>2. n \in 1 .. Len(conn.buf) /\ n \in 0 .. Len(conn.buf)
      BY <1>9, <2>1, LocalBounds DEF Drain, LocalBounds
    <2>3. conn' = Drained(conn, n)
      BY <1>1, <1>9 DEF Drain, Drained, ConnOK, Conns
    <2>4. ConnOK(conn')
      BY <1>1, <2>2, <2>3, DrainedShape
    <2>5. SubSeq(conn.buf, 1, n) \in Seq(ByteSet)
      BY <2>1, <2>2, Prefixes
    <2>6. down' \in Seq(ByteSet)
      BY <1>1, <1>9, <2>5, ConcatProperties DEF Drain
    <2> QED
      BY <1>1, <1>9, <2>4, <2>6 DEF Drain, Shapes, Sources
  <1>10. ASSUME NEW n \in 0 .. Len(conn.buf) + 2, End(n)
         PROVE  Shapes'
    <2>1. conn' = Closed(conn)
      BY <1>10 DEF End, Closed
    <2>2. ConnOK(conn')
      BY <1>1, <2>1, ClosedShape
    <2>3. SubSeq(conn.buf \o Bytes(Exit), 1, n) \in Seq(ByteSet)
      BY <1>1, EndBytes
    <2>4. down' \in Seq(ByteSet)
      BY <1>1, <1>10, <2>3, ConcatProperties DEF End
    <2>5. up' \in Seq(Msgs)
      BY <1>10 DEF End
    <2> QED
      BY <1>1, <1>10, <2>2, <2>4, <2>5 DEF End, Shapes, Sources
  <1>11. CASE Take
    BY <1>1, <1>11, TakeShape DEF Take, Shapes, Sources
  <1>12. CASE Resume
    <2>1. InitMsg \in Msgs
      OBVIOUS
    <2>2. up' \in Seq(Msgs)
      BY <1>1, <1>12, <2>1, AppendProperties DEF Resume
    <2> QED
      BY <1>1, <1>12, <2>2 DEF Resume, Shapes, Sources
  <1>13. CASE Escape
    <2>1. ShellMsg \in Msgs
      OBVIOUS
    <2>2. up' \in Seq(Msgs)
      BY <1>1, <1>13, <2>1, AppendProperties DEF Escape
    <2> QED
      BY <1>1, <1>13, <2>2 DEF Escape, Shapes, Sources
  <1>14. CASE Toggle
    <2>1. Ack(0, FALSE, view.acks) \in Msgs
      BY <1>1 DEF Ack, Acks, Views
    <2>2. up' \in Seq(Msgs)
      BY <1>1, <1>14, <2>1, AppendProperties DEF Toggle
    <2>3. view' \in Views
      BY <1>1, <1>14 DEF Toggle, Views
    <2> QED
      <3>1. UNCHANGED <<session, overlay, epoch, conn, down, ended>>
            /\ user' = user + 1 /\ toggled' = TRUE
        BY <1>14 DEF Toggle
      <3> QED
        BY <1>1, <1>2, <2>2, <2>3, <3>1 DEF Shapes
  <1>15. CASE UNCHANGED vars
    BY <1>1, <1>15 DEF vars, Shapes, Sources
  <1> QED
    BY <1>3, <1>4, <1>5, <1>6, <1>7, <1>8, <1>9, <1>10, <1>11, <1>12, <1>13, <1>14, <1>15
    DEF Next

-----------------------------------------------------------------------------
(* The write buffer.  The socket and the buffer behind it are one sequence  *)
(* of whole records: the anchor is always where the last record begins, so  *)
(* that a frame is replaced whole.                                          *)

Paired(s) ==
    \E n \in Nat :
        /\ Len(s) = 2 * n
        /\ \A i \in 1 .. n : s[2 * i - 1] = <<s[2 * i][1], 1>> /\ s[2 * i] = <<s[2 * i][1], 2>>

\* Pairs of bytes are whole records.
LEMMA PairedWhole ==
    ASSUME NEW s \in Seq(ByteSet), Paired(s)
    PROVE  IsWhole(s)
  <1>1. PICK n \in Nat :
           /\ Len(s) = 2 * n
           /\ \A i \in 1 .. n :
                 s[2 * i - 1] = <<s[2 * i][1], 1>> /\ s[2 * i] = <<s[2 * i][1], 2>>
    BY DEF Paired
  <1>2. Len(s) % 2 = 0 /\ Len(s) \div 2 = n
    BY <1>1
  <1>3. \A i \in 1 .. n : <<s[2 * i - 1], s[2 * i]>> = Bytes(s[2 * i][1])
    BY <1>1 DEF Bytes
  <1> QED
    BY <1>2, <1>3 DEF IsWhole

\* A whole record behind whole records, the last of which may be cut.
LEMMA PairedPut ==
    ASSUME NEW s, Paired(s), NEW k \in Nat, k = Len(s) \/ k = Len(s) - 2,
           NEW r, NEW t, Len(t) = k + 2, \A i \in 1 .. k : t[i] = s[i],
           t[k + 1] = <<r, 1>>, t[k + 2] = <<r, 2>>
    PROVE  Paired(t)
  <1>1. PICK n \in Nat :
           /\ Len(s) = 2 * n
           /\ \A i \in 1 .. n :
                 s[2 * i - 1] = <<s[2 * i][1], 1>> /\ s[2 * i] = <<s[2 * i][1], 2>>
    BY DEF Paired
  <1> DEFINE h == IF k = Len(s) THEN n ELSE n - 1
  <1>2. h \in Nat /\ k = 2 * h /\ h <= n
    BY <1>1
  <1> HIDE DEF h
  <1>3. \A i \in 1 .. h + 1 : t[2 * i - 1] = <<t[2 * i][1], 1>> /\ t[2 * i] = <<t[2 * i][1], 2>>
    <2> SUFFICES ASSUME NEW i \in 1 .. h + 1
                 PROVE  t[2 * i - 1] = <<t[2 * i][1], 1>> /\ t[2 * i] = <<t[2 * i][1], 2>>
      OBVIOUS
    <2>1. CASE i = h + 1
      BY <1>2, <2>1
    <2>2. CASE i <= h
      <3>1. 2 * i - 1 \in 1 .. k /\ 2 * i \in 1 .. k /\ i \in 1 .. n
        BY <1>2, <2>2
      <3> QED
        BY <1>1, <3>1
    <2> QED
      BY <1>2, <2>1, <2>2
  <1>4. Len(t) = 2 * (h + 1) /\ h + 1 \in Nat
    BY <1>2
  <1> QED
    BY <1>3, <1>4 DEF Paired

\* Whole records without the first are whole records.
LEMMA PairedTake ==
    ASSUME NEW s, Paired(s), Len(s) >= 2,
           NEW t, Len(t) = Len(s) - 2, \A i \in 1 .. Len(s) - 2 : t[i] = s[i + 2]
    PROVE  Paired(t)
  <1>1. PICK n \in Nat :
           /\ Len(s) = 2 * n
           /\ \A i \in 1 .. n :
                 s[2 * i - 1] = <<s[2 * i][1], 1>> /\ s[2 * i] = <<s[2 * i][1], 2>>
    BY DEF Paired
  <1>2. n - 1 \in Nat /\ Len(t) = 2 * (n - 1)
    BY <1>1
  <1>3. \A i \in 1 .. n - 1 :
           t[2 * i - 1] = <<t[2 * i][1], 1>> /\ t[2 * i] = <<t[2 * i][1], 2>>
    <2> SUFFICES ASSUME NEW i \in 1 .. n - 1
                 PROVE  t[2 * i - 1] = <<t[2 * i][1], 1>> /\ t[2 * i] = <<t[2 * i][1], 2>>
      OBVIOUS
    <2>1. 2 * i - 1 \in 1 .. Len(s) - 2 /\ 2 * i \in 1 .. Len(s) - 2 /\ i + 1 \in 1 .. n
      BY <1>1
    <2>2. t[2 * i - 1] = s[2 * i - 1 + 2] /\ t[2 * i] = s[2 * i + 2]
      BY <2>1
    <2>3. 2 * i - 1 + 2 = 2 * (i + 1) - 1 /\ 2 * i + 2 = 2 * (i + 1)
      OBVIOUS
    <2> QED
      BY <1>1, <2>1, <2>2, <2>3
  <1> QED
    BY <1>2, <1>3 DEF Paired

\* A record behind the buffer, cut at k.
LEMMA PairedQueue ==
    ASSUME NEW s \in Seq(ByteSet), NEW b \in Seq(ByteSet), Paired(s \o b),
           NEW k \in 0 .. Len(b), k = Len(b) \/ k = Len(b) - 2, NEW r \in Recs
    PROVE  Paired(s \o (SubSeq(b, 1, k) \o Bytes(r)))
  <1> DEFINE p == SubSeq(b, 1, k)
             q == p \o Bytes(r)
             t == s \o q
             w == s \o b
  <1>1. Len(s) \in Nat /\ Len(b) \in Nat
    BY LenProperties
  <1>2. p \in Seq(ByteSet) /\ Len(p) = k /\ \A i \in 1 .. k : p[i] = b[i]
    BY Prefixes
  <1>3. Bytes(r) \in Seq(ByteSet) /\ Len(Bytes(r)) = 2
        /\ Bytes(r)[1] = <<r, 1>> /\ Bytes(r)[2] = <<r, 2>>
    BY BytesType
  <1> HIDE DEF p
  <1>4. /\ q \in Seq(ByteSet) /\ Len(q) = Len(p) + Len(Bytes(r))
        /\ \A i \in 1 .. Len(p) + Len(Bytes(r)) :
              q[i] = IF i <= Len(p) THEN p[i] ELSE Bytes(r)[i - Len(p)]
    BY <1>2, <1>3, ConcatProperties
  <1>5. /\ Len(q) = k + 2 /\ \A i \in 1 .. k : q[i] = b[i]
        /\ q[k + 1] = <<r, 1>> /\ q[k + 2] = <<r, 2>>
    BY <1>1, <1>2, <1>3, <1>4
  <1> HIDE DEF q
  <1>6. /\ Len(t) = Len(s) + Len(q)
        /\ \A i \in 1 .. Len(s) + Len(q) : t[i] = IF i <= Len(s) THEN s[i] ELSE q[i - Len(s)]
    <2>1. s \in Seq(ByteSet) /\ q \in Seq(ByteSet)
      BY <1>4
    <2> QED
      BY <2>1, ConcatProperties
  <1>7. /\ Len(w) = Len(s) + Len(b)
        /\ \A i \in 1 .. Len(s) + Len(b) : w[i] = IF i <= Len(s) THEN s[i] ELSE b[i - Len(s)]
    BY ConcatProperties
  <1> HIDE DEF t, w
  <1>8. \A i \in 1 .. Len(s) + k : t[i] = w[i]
    <2> SUFFICES ASSUME NEW i \in 1 .. Len(s) + k
                 PROVE  t[i] = w[i]
      OBVIOUS
    <2>1. i \in 1 .. Len(s) + Len(q) /\ i \in 1 .. Len(s) + Len(b)
      BY <1>1, <1>5
    <2>2. CASE i <= Len(s)
      BY <1>6, <1>7, <2>1, <2>2
    <2>3. CASE ~(i <= Len(s))
      <3>1. i - Len(s) \in 1 .. k
        BY <1>1, <2>3
      <3> QED
        BY <1>5, <1>6, <1>7, <2>1, <2>3, <3>1
    <2> QED
      BY <2>2, <2>3
  <1>9. t[Len(s) + k + 1] = <<r, 1>> /\ t[Len(s) + k + 2] = <<r, 2>>
    BY <1>1, <1>5, <1>6
  <1>10. Len(s) + k \in Nat /\ (Len(s) + k = Len(w) \/ Len(s) + k = Len(w) - 2)
         /\ Len(t) = Len(s) + k + 2
    <2>1. k \in Nat /\ Len(t) = Len(s) + (k + 2) /\ Len(w) = Len(s) + Len(b)
      BY <1>5, <1>6, <1>7
    <2> QED
      BY <1>1, <2>1
  <1>11. Paired(w)
    BY DEF w
  <1>12. Paired(t)
    <2> DEFINE j == Len(s) + k
    <2>1. /\ j \in Nat /\ (j = Len(w) \/ j = Len(w) - 2) /\ Len(t) = j + 2
          /\ \A i \in 1 .. j : t[i] = w[i]
          /\ t[j + 1] = <<r, 1>> /\ t[j + 2] = <<r, 2>>
      BY <1>8, <1>9, <1>10
    <2> HIDE DEF j
    <2> QED
      BY <1>11, <2>1, PairedPut
  <1> QED
    BY <1>12 DEF t, q, p

\* The cut of a buffer is at its end, or two bytes before.
LEMMA CutAt ==
    ASSUME NEW c, ConnOK(c)
    PROVE  /\ Len(c.buf) \in Nat /\ Cut(c) \in 0 .. Len(c.buf)
           /\ Cut(c) = Len(c.buf) \/ Cut(c) = Len(c.buf) - 2
           /\ Coalescing(c) /\ c.anchor # NoAnchor => Cut(c) = Len(c.buf) - 2
           /\ c.anchor = NoAnchor => Cut(c) = Len(c.buf)
  <1>1. Len(c.buf) \in Nat
    BY LenProperties DEF ConnOK, Conns
  <1> QED
    BY <1>1 DEF Cut, ConnOK, Anchored, NoAnchor

\* A frame leaves whole records, the one it replaces included, ...
LEMMA PairedFrame ==
    ASSUME NEW c, ConnOK(c), NEW s \in Seq(ByteSet), Paired(s \o c.buf),
           NEW screen, NEW m \in Recs, NEW d, FrameStep(c, screen, m, d)
    PROVE  Paired(s \o d.buf)
  <1>1. c.buf \in Seq(ByteSet)
    BY DEF ConnOK, Conns
  <1>2. d.buf = SubSeq(c.buf, 1, Cut(c)) \o Bytes(m)
    BY DEF FrameStep
  <1>3. Cut(c) \in 0 .. Len(c.buf) /\ (Cut(c) = Len(c.buf) \/ Cut(c) = Len(c.buf) - 2)
    BY CutAt
  <1>4. Paired(s \o (SubSeq(c.buf, 1, Cut(c)) \o Bytes(m)))
    BY <1>1, <1>3, PairedQueue
  <1> QED
    BY <1>2, <1>4

\* ... and so do rows behind it, ...
LEMMA PairedRows ==
    ASSUME NEW c, ConnOK(c), NEW s \in Seq(ByteSet), Paired(s \o c.buf),
           NEW of, NEW total, NEW m \in Recs, NEW f, NEW d, RowsStep(c, of, total, m, f, d)
    PROVE  Paired(s \o d.buf)
  <1>1. c.buf \in Seq(ByteSet) /\ Len(c.buf) \in Nat
    BY LenProperties DEF ConnOK, Conns
  <1>2. d.buf = c.buf \o Bytes(m)
    BY DEF RowsStep
  <1>3. SubSeq(c.buf, 1, Len(c.buf)) = c.buf
    BY <1>1, SubSeqFull
  <1>4. Paired(s \o (SubSeq(c.buf, 1, Len(c.buf)) \o Bytes(m)))
    BY <1>1, PairedQueue
  <1> QED
    BY <1>2, <1>3, <1>4

\* ... and both.
LEMMA PairedBroadcasted ==
    ASSUME NEW c, ConnOK(c), NEW s \in Seq(ByteSet), Paired(s \o c.buf),
           NEW screen, NEW of, NEW total, NEW alt, NEW k,
           Broadcasted(c, screen, of, total, alt, k)
    PROVE  Paired(s \o k.buf)
  <1>1. PICK m \in Recs, d \in Conns :
           /\ FrameStep(c, screen, m, d)
           /\ k = d \/ \E r \in Recs, f \in d.producer.sent : RowsStep(d, of, total, r, f, k)
    BY DEF Broadcasted
  <1>2. ConnOK(d)
    BY <1>1 DEF FrameStep
  <1>3. Paired(s \o d.buf)
    BY <1>1, PairedFrame
  <1> QED
    BY <1>1, <1>2, <1>3, PairedRows

-----------------------------------------------------------------------------
(* No two visible frames wait behind one another: positions are counted     *)
(* from the end of the buffer, whose first record may have lost a byte.     *)

VisibleAt(b, i) == b[i][1].kind \in {"full", "diff"}

Spaced(b) ==
    \A k \in Nat : Len(b) - 2 * k >= 4 =>
        ~(VisibleAt(b, Len(b) - 2 * k) /\ VisibleAt(b, Len(b) - 2 * k - 2))

\* The anchor is there exactly while the last record that has not begun to go
\* out is a visible frame.
Waiting(c) ==
    /\ c.anchor # NoAnchor => VisibleAt(c.buf, Len(c.buf))
    /\ c.anchor = NoAnchor /\ Len(c.buf) >= 2 => ~VisibleAt(c.buf, Len(c.buf))
    /\ Spaced(c.buf)

\* Spaced is what Coalesced says of the buffer.
LEMMA SpacedCoalesced ==
    ASSUME NEW b, Len(b) \in Nat, Spaced(b)
    PROVE  LET skip    == Len(b) % 2
               Kind(i) == b[2 * i + skip][1].kind
           IN  \A i \in 1 .. (Len(b) - skip) \div 2 - 1 :
                  ~({Kind(i), Kind(i + 1)} \subseteq {"full", "diff"})
  <1> DEFINE skip == Len(b) % 2
  <1>1. SUFFICES ASSUME NEW i \in 1 .. (Len(b) - skip) \div 2 - 1
                 PROVE  ~(VisibleAt(b, 2 * i + skip) /\ VisibleAt(b, 2 * (i + 1) + skip))
    BY DEF VisibleAt
  <1> DEFINE k == (Len(b) - skip) \div 2 - i - 1
  <1>2. k \in Nat /\ Len(b) - 2 * k = 2 * (i + 1) + skip /\ Len(b) - 2 * k >= 4
        /\ Len(b) - 2 * k - 2 = 2 * i + skip
    BY <1>1
  <1> HIDE DEF k, skip
  <1> QED
    BY <1>2 DEF Spaced

\* A coalesced frame takes the place of the one that waits, ...
LEMMA WaitingFrame ==
    ASSUME NEW c, ConnOK(c), Waiting(c), Coalescing(c),
           NEW screen, NEW m \in Recs, NEW d, FrameStep(c, screen, m, d)
    PROVE  Waiting(d)
  <1> DEFINE p == SubSeq(c.buf, 1, Cut(c))
             t == p \o Bytes(m)
             j == Cut(c)
             n == Len(c.buf)
  <1>1. /\ n \in Nat /\ j \in 0 .. n /\ (j = n \/ j = n - 2)
        /\ c.anchor # NoAnchor => j = n - 2
        /\ c.anchor = NoAnchor => j = n
    BY CutAt
  <1>2. d.buf = t /\ d.anchor = j /\ m.kind \in {"full", "diff"}
    BY DEF FrameStep
  <1>3. c.buf \in Seq(ByteSet)
    BY DEF ConnOK, Conns
  <1>4. p \in Seq(ByteSet) /\ Len(p) = j /\ \A i \in 1 .. j : p[i] = c.buf[i]
    BY <1>1, <1>3, Prefixes
  <1>5. Bytes(m) \in Seq(ByteSet) /\ Len(Bytes(m)) = 2
        /\ Bytes(m)[1] = <<m, 1>> /\ Bytes(m)[2] = <<m, 2>>
    BY BytesType
  <1> HIDE DEF p
  <1>6. /\ Len(t) = Len(p) + Len(Bytes(m))
        /\ \A i \in 1 .. Len(p) + Len(Bytes(m)) :
              t[i] = IF i <= Len(p) THEN p[i] ELSE Bytes(m)[i - Len(p)]
    BY <1>4, <1>5, ConcatProperties
  <1>7. /\ Len(t) = j + 2 /\ t[j + 2] = <<m, 2>>
        /\ \A i \in 1 .. j : t[i] = c.buf[i]
    BY <1>1, <1>4, <1>5, <1>6
  <1> HIDE DEF t, j, n
  <1>8. VisibleAt(t, Len(t))
    BY <1>1, <1>2, <1>7 DEF VisibleAt
  <1>9. Spaced(t)
    <2> SUFFICES ASSUME NEW k \in Nat, Len(t) - 2 * k >= 4
                 PROVE  ~(VisibleAt(t, Len(t) - 2 * k) /\ VisibleAt(t, Len(t) - 2 * k - 2))
      BY DEF Spaced
    <2>1. CASE k = 0
      <3>1. t[Len(t) - 2 * k - 2] = c.buf[j] /\ j \in 1 .. j /\ j >= 2
        BY <1>1, <1>7, <2>1
      <3>2. CASE c.anchor = NoAnchor
        <4>1. ~VisibleAt(c.buf, j)
          BY <1>1, <3>1, <3>2 DEF Waiting, n
        <4> QED
          BY <3>1, <4>1 DEF VisibleAt
      <3>3. CASE c.anchor # NoAnchor
        <4>1. VisibleAt(c.buf, n) /\ j = n - 2 /\ n >= 4
          BY <1>1, <3>1, <3>3 DEF Waiting, n
        <4>2. 0 \in Nat /\ Len(c.buf) - 2 * 0 = n /\ Len(c.buf) - 2 * 0 - 2 = j
          BY <1>1, <4>1 DEF n
        <4>3. ~(VisibleAt(c.buf, n) /\ VisibleAt(c.buf, j))
          BY <4>1, <4>2 DEF Waiting, Spaced
        <4> QED
          BY <3>1, <4>1, <4>3 DEF VisibleAt
      <3> QED
        BY <3>2, <3>3
    <2>2. CASE k # 0
      <3> DEFINE h == IF j = n THEN k - 1 ELSE k
      <3>1. h \in Nat /\ Len(t) - 2 * k = n - 2 * h /\ Len(t) - 2 * k - 2 = n - 2 * h - 2
        BY <1>1, <1>7, <2>2
      <3>2. Len(t) - 2 * k \in 1 .. j /\ Len(t) - 2 * k - 2 \in 1 .. j
        BY <1>1, <1>7, <2>2
      <3> HIDE DEF h
      <3>3. n - 2 * h >= 4
        BY <3>1
      <3>4. ~(VisibleAt(c.buf, n - 2 * h) /\ VisibleAt(c.buf, n - 2 * h - 2))
        BY <3>1, <3>3 DEF Waiting, Spaced, n
      <3> QED
        BY <1>7, <3>1, <3>2, <3>4 DEF VisibleAt
    <2> QED
      BY <2>1, <2>2
  <1>10. d.anchor # NoAnchor
    BY <1>1, <1>2 DEF NoAnchor
  <1> QED
    BY <1>2, <1>8, <1>9, <1>10 DEF Waiting

\* ... rows may wait behind it, ...
LEMMA WaitingRows ==
    ASSUME NEW c, ConnOK(c), Waiting(c),
           NEW of, NEW total, NEW m \in Recs, NEW f, NEW d, RowsStep(c, of, total, m, f, d)
    PROVE  Waiting(d)
  <1> DEFINE t == c.buf \o Bytes(m)
             n == Len(c.buf)
  <1>1. c.buf \in Seq(ByteSet) /\ n \in Nat
    BY LenProperties DEF ConnOK, Conns
  <1>2. d.buf = t /\ d.anchor = NoAnchor /\ m.kind = "rows"
    BY DEF RowsStep
  <1>3. Bytes(m) \in Seq(ByteSet) /\ Len(Bytes(m)) = 2
        /\ Bytes(m)[1] = <<m, 1>> /\ Bytes(m)[2] = <<m, 2>>
    BY BytesType
  <1>4. /\ Len(t) = Len(c.buf) + Len(Bytes(m))
        /\ \A i \in 1 .. Len(c.buf) + Len(Bytes(m)) :
              t[i] = IF i <= Len(c.buf) THEN c.buf[i] ELSE Bytes(m)[i - Len(c.buf)]
    BY <1>1, <1>3, ConcatProperties
  <1>5. /\ Len(t) = n + 2 /\ t[n + 2] = <<m, 2>>
        /\ \A i \in 1 .. n : t[i] = c.buf[i]
    BY <1>1, <1>3, <1>4
  <1> HIDE DEF t, n
  <1>6. ~VisibleAt(t, Len(t))
    BY <1>1, <1>2, <1>5 DEF VisibleAt
  <1>7. Spaced(t)
    <2> SUFFICES ASSUME NEW k \in Nat, Len(t) - 2 * k >= 4
                 PROVE  ~(VisibleAt(t, Len(t) - 2 * k) /\ VisibleAt(t, Len(t) - 2 * k - 2))
      BY DEF Spaced
    <2>1. CASE k = 0
      <3>1. Len(t) - 2 * k = Len(t)
        BY <1>1, <1>5, <2>1
      <3> QED
        BY <1>6, <3>1
    <2>2. CASE k # 0
      <3> DEFINE h == k - 1
      <3>1. h \in Nat /\ Len(t) - 2 * k = n - 2 * h /\ Len(t) - 2 * k - 2 = n - 2 * h - 2
        BY <1>1, <1>5, <2>2
      <3>2. Len(t) - 2 * k \in 1 .. n /\ Len(t) - 2 * k - 2 \in 1 .. n
        BY <1>1, <1>5, <2>2
      <3> HIDE DEF h
      <3>3. n - 2 * h >= 4
        BY <3>1
      <3>4. ~(VisibleAt(c.buf, n - 2 * h) /\ VisibleAt(c.buf, n - 2 * h - 2))
        BY <3>1, <3>3 DEF Waiting, Spaced, n
      <3> QED
        BY <1>5, <3>1, <3>2, <3>4 DEF VisibleAt
    <2> QED
      BY <2>1, <2>2
  <1> QED
    BY <1>2, <1>6, <1>7 DEF Waiting

\* ... both in one broadcast, ...
LEMMA WaitingBroadcasted ==
    ASSUME NEW c, ConnOK(c), Waiting(c), Coalescing(c),
           NEW screen, NEW of, NEW total, NEW alt, NEW k,
           Broadcasted(c, screen, of, total, alt, k)
    PROVE  Waiting(k)
  <1>1. PICK m \in Recs, d \in Conns :
           /\ FrameStep(c, screen, m, d)
           /\ k = d \/ \E r \in Recs, f \in d.producer.sent : RowsStep(d, of, total, r, f, k)
    BY DEF Broadcasted
  <1>2. ConnOK(d)
    BY <1>1 DEF FrameStep
  <1>3. Waiting(d)
    BY <1>1, WaitingFrame
  <1> QED
    BY <1>1, <1>2, <1>3, WaitingRows

\* ... and what goes out leaves the rest as it was.
LEMMA WaitingDrained ==
    ASSUME NEW c, ConnOK(c), Waiting(c), NEW n \in 1 .. Len(c.buf)
    PROVE  Waiting(Drained(c, n))
  <1> DEFINE d == Drained(c, n)
             l == Len(c.buf)
  <1>1. l \in Nat
    BY LenProperties DEF ConnOK, Conns
  <1>2. /\ ConnOK(d) /\ Len(d.buf) = l - n
        /\ \A i \in 1 .. l - n : d.buf[i] = c.buf[n + i]
        /\ d.anchor # NoAnchor => c.anchor # NoAnchor
        /\ d.anchor = NoAnchor => c.anchor = NoAnchor \/ Len(d.buf) < 2
    BY DrainedShape
  <1> HIDE DEF d, l
  <1>3. \A i \in 1 .. l - n : VisibleAt(d.buf, i) <=> VisibleAt(c.buf, n + i)
    BY <1>2 DEF VisibleAt
  <1>4. n \in 1 .. l
    BY DEF l
  <1>5. ASSUME d.anchor # NoAnchor PROVE VisibleAt(d.buf, Len(d.buf))
    <2>1. Len(d.buf) \in 1 .. l - n /\ n + Len(d.buf) = l
      BY <1>1, <1>2, <1>4, <1>5 DEF ConnOK, Anchored
    <2>2. VisibleAt(c.buf, l)
      BY <1>2, <1>5 DEF Waiting, l
    <2> QED
      BY <1>3, <2>1, <2>2
  <1>6. ASSUME d.anchor = NoAnchor, Len(d.buf) >= 2 PROVE ~VisibleAt(d.buf, Len(d.buf))
    <2>1. Len(d.buf) \in 1 .. l - n /\ n + Len(d.buf) = l /\ l >= 2
      BY <1>1, <1>2, <1>4, <1>6
    <2>2. c.anchor = NoAnchor
      BY <1>1, <1>2, <1>4, <1>6
    <2>3. ~VisibleAt(c.buf, l)
      BY <2>1, <2>2 DEF Waiting, l
    <2> QED
      BY <1>3, <2>1, <2>3
  <1>7. Spaced(d.buf)
    <2> SUFFICES ASSUME NEW k \in Nat, Len(d.buf) - 2 * k >= 4
                 PROVE  ~(VisibleAt(d.buf, Len(d.buf) - 2 * k)
                          /\ VisibleAt(d.buf, Len(d.buf) - 2 * k - 2))
      BY DEF Spaced
    <2>1. /\ Len(d.buf) - 2 * k \in 1 .. l - n /\ Len(d.buf) - 2 * k - 2 \in 1 .. l - n
          /\ n + (Len(d.buf) - 2 * k) = l - 2 * k
          /\ n + (Len(d.buf) - 2 * k - 2) = l - 2 * k - 2
          /\ l - 2 * k >= 4
      BY <1>1, <1>2, <1>4
    <2>2. ~(VisibleAt(c.buf, l - 2 * k) /\ VisibleAt(c.buf, l - 2 * k - 2))
      BY <2>1 DEF Waiting, Spaced, l
    <2> QED
      BY <1>3, <2>1, <2>2
  <1> QED
    BY <1>5, <1>6, <1>7 DEF Waiting, d

-----------------------------------------------------------------------------
(* BufferSound.                                                             *)

\* A viewport that coalesces goes on doing so until it is toggled.
CoalOK(c) == c.coalesce => ~c.off /\ Waiting(c)

Untoggled == \A i \in 1 .. Len(up) : up[i].kind = "ack" => ~up[i].off

BufferInv ==
    /\ Shapes
    /\ ~ended => Paired(down \o conn.buf)
    /\ ~toggled /\ conn.coalesce => CoalOK(conn) /\ Untoggled

\* What holds of the buffer before a step of the connection holds after it.
BufferKept(c, d) ==
    /\ d.coalesce = c.coalesce
    /\ Paired(down \o c.buf) => Paired(down \o d.buf)
    /\ CoalOK(c) => CoalOK(d)

\* Steps that keep the buffer and its anchor, ...
LEMMA BufferSame ==
    ASSUME NEW c, NEW d, d.buf = c.buf, d.anchor = c.anchor, d.off = c.off,
           d.coalesce = c.coalesce
    PROVE  BufferKept(c, d)
  BY DEF BufferKept, CoalOK, Waiting

\* ... a frame, ...
LEMMA BufferFrame ==
    ASSUME NEW c, ConnOK(c), down \in Seq(ByteSet),
           NEW screen, NEW m \in Recs, NEW d, FrameStep(c, screen, m, d)
    PROVE  BufferKept(c, d)
  <1>1. d.coalesce = c.coalesce /\ d.off = c.off
    BY DEF FrameStep
  <1>2. Paired(down \o c.buf) => Paired(down \o d.buf)
    BY PairedFrame
  <1>3. CoalOK(c) => CoalOK(d)
    BY <1>1, WaitingFrame DEF CoalOK, Coalescing
  <1> QED
    BY <1>1, <1>2, <1>3 DEF BufferKept

\* ... a broadcast, ...
LEMMA BufferBroadcast ==
    ASSUME NEW c, ConnOK(c), down \in Seq(ByteSet), Sources', Broadcast(c)
    PROVE  BufferKept(c, conn')
  <1>1. CASE ~c.framed
    <2>1. conn' = c
      BY <1>1, BroadcastCases
    <2> QED
      BY <2>1, BufferSame
  <1>2. CASE c.framed
    <2>1. Broadcasted(c, Latest', SourceOf', SourceTotal', SourceAlt', conn')
      BY <1>2, BroadcastCases
    <2>2. PICK m \in Recs, d \in Conns :
             /\ FrameStep(c, Latest', m, d)
             /\ \/ conn' = d
                \/ \E r \in Recs, f \in d.producer.sent :
                      RowsStep(d, SourceOf', SourceTotal', r, f, conn')
      BY <2>1 DEF Broadcasted
    <2>3. ConnOK(d) /\ d.coalesce = c.coalesce /\ d.off = c.off
      BY <2>2 DEF FrameStep
    <2>4. BufferKept(c, d)
      BY <2>2, BufferFrame
    <2>5. ASSUME NEW r \in Recs, NEW f \in d.producer.sent,
                 RowsStep(d, SourceOf', SourceTotal', r, f, conn')
          PROVE  BufferKept(d, conn')
      <3>1. conn'.coalesce = d.coalesce /\ conn'.off = d.off
        BY <2>5 DEF RowsStep
      <3>2. Paired(down \o d.buf) => Paired(down \o conn'.buf)
        BY <2>3, <2>5, PairedRows
      <3>3. Waiting(d) => Waiting(conn')
        BY <2>3, <2>5, WaitingRows
      <3> QED
        BY <3>1, <3>2, <3>3 DEF BufferKept, CoalOK
    <2> QED
      BY <2>2, <2>4, <2>5 DEF BufferKept
  <1> QED
    BY <1>1, <1>2

\* ... a requested frame, ...
LEMMA BufferRequest ==
    ASSUME NEW c, ConnOK(c), down \in Seq(ByteSet), Sources, Request(c)
    PROVE  BufferKept(c, conn')
  BY RequestCases, BufferFrame

\* ... and an acknowledgement.
LEMMA BufferHeard ==
    ASSUME NEW c, ConnOK(c), NEW m \in Acks
    PROVE  /\ Heard(c, m).coalesce = c.coalesce
           /\ Paired(down \o c.buf) => Paired(down \o Heard(c, m).buf)
           /\ ~m.off => (CoalOK(c) => CoalOK(Heard(c, m)))
  <1> DEFINE t == Toggled(c, m.off)
             a == Acked(t, m.num)
             d == Heard(c, m)
  <1>1. /\ ConnOK(t) /\ ConnOK(a) /\ d = IF m.resync THEN DropBase(a) ELSE a
    BY HeardCases
  <1>2. m.off \in BOOLEAN /\ m.num \in Nat
    BY DEF Acks
  <1>3. /\ t.buf = c.buf /\ t.coalesce = c.coalesce /\ t.off = m.off
        /\ ~m.off => t.anchor = c.anchor
    BY <1>2, ToggledShape
  <1> HIDE DEF t
  <1>4. a.buf = t.buf /\ a.anchor = t.anchor /\ a.off = t.off /\ a.coalesce = t.coalesce
    BY <1>1, <1>2, AckedShape
  <1> HIDE DEF a
  <1>5. d.buf = a.buf /\ d.anchor = a.anchor /\ d.off = a.off /\ d.coalesce = a.coalesce
    BY <1>1, DropBaseShape
  <1> HIDE DEF d
  <1>6. /\ d.coalesce = c.coalesce
        /\ Paired(down \o c.buf) => Paired(down \o d.buf)
        /\ ~m.off => (CoalOK(c) => CoalOK(d))
    BY <1>2, <1>3, <1>4, <1>5 DEF CoalOK, Waiting
  <1> QED
    BY <1>6 DEF d

\* Nothing is buffered at the start.
LEMMA BufferInit == Init => BufferInv
  <1> SUFFICES ASSUME Init PROVE BufferInv
    OBVIOUS
  <1>1. Shapes
    BY ShapesInit
  <1>2. conn.buf = <<>> /\ conn.anchor = NoAnchor /\ conn.off = FALSE /\ down = <<>>
    BY DEF Init, NewConn
  <1>3. down \o conn.buf = <<>>
    BY <1>2, ConcatEmptySeq, EmptySeq
  <1>4. Len(<<>>) = 0
    BY EmptySeq
  <1>5. Paired(<<>>)
    BY <1>4 DEF Paired
  <1>6. CoalOK(conn)
    BY <1>2, <1>4 DEF CoalOK, Waiting, Spaced
  <1>7. Untoggled
    BY DEF Init, Untoggled, InitMsg
  <1> QED
    BY <1>1, <1>3, <1>5, <1>6, <1>7 DEF BufferInv

\* Messages that are read leave fewer, ...
LEMMA UntoggledTail ==
    ASSUME up \in Seq(Msgs), up # <<>>, up' = Tail(up), Untoggled
    PROVE  Untoggled'
  <1>1. Len(Tail(up)) = Len(up) - 1 /\ Len(up) \in Nat
        /\ \A i \in 1 .. Len(Tail(up)) : Tail(up)[i] = up[i + 1]
    BY HeadTailProperties, LenProperties
  <1>2. \A i \in 1 .. Len(Tail(up)) : i + 1 \in 1 .. Len(up)
    BY <1>1
  <1> QED
    BY <1>1, <1>2 DEF Untoggled

\* ... and those that do not toggle may be sent.
LEMMA UntoggledAppend ==
    ASSUME up \in Seq(Msgs), NEW m \in Msgs, up' = Append(up, m), Untoggled,
           m.kind = "ack" => ~m.off
    PROVE  Untoggled'
  <1>1. /\ Len(Append(up, m)) = Len(up) + 1 /\ Len(up) \in Nat
        /\ \A i \in 1 .. Len(up) : Append(up, m)[i] = up[i]
        /\ Append(up, m)[Len(up) + 1] = m
    BY AppendProperties, LenProperties
  <1>2. \A i \in 1 .. Len(up) + 1 : i \in 1 .. Len(up) \/ i = Len(up) + 1
    BY <1>1
  <1> QED
    BY <1>1, <1>2 DEF Untoggled

\* Without the toggle no acknowledgement turns coalescing off.
LEMMA HeadUntoggled ==
    ASSUME up \in Seq(Msgs), up # <<>>, Untoggled, Head(up).kind = "ack"
    PROVE  ~Head(up).off
  <1>1. Len(up) \in Nat \ {0} /\ Head(up) = up[1]
    BY EmptySeq
  <1> QED
    BY <1>1 DEF Untoggled

\* The frame and the rows that a drained byte goes with stay where they are.
LEMMA DrainStream ==
    ASSUME NEW s \in Seq(ByteSet), NEW b \in Seq(ByteSet), NEW n \in 0 .. Len(b)
    PROVE  (s \o SubSeq(b, 1, n)) \o SubSeq(b, n + 1, Len(b)) = s \o b
  <1> DEFINE p == SubSeq(b, 1, n)
             q == SubSeq(b, n + 1, Len(b))
             t == p \o q
  <1>1. Len(b) \in Nat
    BY LenProperties
  <1>2. p \in Seq(ByteSet) /\ Len(p) = n /\ \A i \in 1 .. n : p[i] = b[i]
    BY Prefixes
  <1>3. /\ q \in Seq(ByteSet) /\ Len(q) = Len(b) - n
        /\ \A i \in 1 .. Len(b) - n : q[i] = b[n + i]
    BY Suffixes
  <1> HIDE DEF p, q
  <1>4. /\ t \in Seq(ByteSet) /\ Len(t) = Len(p) + Len(q)
        /\ \A i \in 1 .. Len(p) + Len(q) : t[i] = IF i <= Len(p) THEN p[i] ELSE q[i - Len(p)]
    BY <1>2, <1>3, ConcatProperties
  <1> HIDE DEF t
  <1>5. \A i \in 1 .. Len(b) : t[i] = b[i]
    <2> SUFFICES ASSUME NEW i \in 1 .. Len(b)
                 PROVE  t[i] = b[i]
      OBVIOUS
    <2>1. CASE i <= n
      BY <1>1, <1>2, <1>3, <1>4, <2>1
    <2>2. CASE ~(i <= n)
      <3>1. i - n \in 1 .. Len(b) - n /\ n + (i - n) = i
        BY <1>1, <2>2
      <3> QED
        BY <1>1, <1>2, <1>3, <1>4, <2>2, <3>1
    <2> QED
      BY <2>1, <2>2
  <1>6. Len(t) = Len(b)
    BY <1>1, <1>2, <1>3, <1>4
  <1>7. t = b
    BY <1>4, <1>5, <1>6, SeqEqual
  <1>8. (s \o p) \o q = s \o (p \o q)
    <2>1. s \in Seq(ByteSet) /\ p \in Seq(ByteSet) /\ q \in Seq(ByteSet)
      BY <1>2, <1>3
    <2> QED
      BY <2>1, ConcatAssociative
  <1> QED
    BY <1>7, <1>8 DEF t, p, q

\* The viewport takes a record off the front.
LEMMA TakeStream ==
    ASSUME NEW s \in Seq(ByteSet), NEW b \in Seq(ByteSet), Len(s) >= 2, Paired(s \o b),
           NEW t \in Seq(ByteSet), Len(t) = Len(s) - 2, \A i \in 1 .. Len(s) - 2 : t[i] = s[2 + i]
    PROVE  Paired(t \o b)
  <1> DEFINE v == s \o b
             w == t \o b
  <1>1. Len(b) \in Nat /\ Len(s) \in Nat
    BY LenProperties
  <1>2. /\ Len(v) = Len(s) + Len(b)
        /\ \A i \in 1 .. Len(s) + Len(b) : v[i] = IF i <= Len(s) THEN s[i] ELSE b[i - Len(s)]
    BY ConcatProperties
  <1>3. /\ Len(w) = Len(t) + Len(b)
        /\ \A i \in 1 .. Len(t) + Len(b) : w[i] = IF i <= Len(t) THEN t[i] ELSE b[i - Len(t)]
    BY ConcatProperties
  <1>4. Paired(v)
    OBVIOUS
  <1> HIDE DEF v, w
  <1>5. Len(w) = Len(v) - 2 /\ Len(v) >= 2
    BY <1>1, <1>2, <1>3
  <1>6. \A i \in 1 .. Len(v) - 2 : w[i] = v[i + 2]
    <2> SUFFICES ASSUME NEW i \in 1 .. Len(v) - 2
                 PROVE  w[i] = v[i + 2]
      OBVIOUS
    <2>1. i \in 1 .. Len(t) + Len(b) /\ i + 2 \in 1 .. Len(s) + Len(b)
      BY <1>1, <1>2
    <2>2. CASE i <= Len(t)
      <3>1. i \in 1 .. Len(s) - 2 /\ i + 2 <= Len(s) /\ 2 + i = i + 2
        BY <1>1, <2>1, <2>2
      <3> QED
        BY <1>2, <1>3, <2>1, <2>2, <3>1
    <2>3. CASE ~(i <= Len(t))
      <3>1. ~(i + 2 <= Len(s)) /\ i + 2 - Len(s) = i - Len(t)
        BY <1>1, <2>1, <2>3
      <3>2. v[i + 2] = b[i + 2 - Len(s)]
        BY <1>2, <2>1, <3>1
      <3>3. w[i] = b[i - Len(t)]
        BY <1>3, <2>1, <2>3
      <3> QED
        BY <3>1, <3>2, <3>3
    <2> QED
      BY <2>2, <2>3
  <1>7. Paired(w)
    BY <1>4, <1>5, <1>6, PairedTake
  <1> QED
    BY <1>7 DEF w

\* Every step keeps the buffer sound.
LEMMA BufferStep == BufferInv /\ [Next]_vars => BufferInv'
  <1> SUFFICES ASSUME BufferInv, [Next]_vars PROVE BufferInv'
    OBVIOUS
  <1>1. Shapes /\ Shapes'
    BY ShapesStep DEF BufferInv
  <1>2. /\ Sources /\ Sources' /\ ConnOK(conn) /\ down \in Seq(ByteSet) /\ up \in Seq(Msgs)
        /\ conn.buf \in Seq(ByteSet) /\ Len(conn.buf) \in Nat
    BY <1>1, LenProperties DEF Shapes, Sources, Msgs, ConnOK, Conns
  <1>3. /\ ~ended => Paired(down \o conn.buf)
        /\ ~toggled /\ conn.coalesce => CoalOK(conn) /\ Untoggled
    BY DEF BufferInv
  <1>5. ASSUME BufferKept(conn, conn'), UNCHANGED <<down, up, toggled, ended>>
        PROVE  BufferInv'
    BY <1>1, <1>3, <1>5 DEF BufferKept, BufferInv, Untoggled
  <1>6. ASSUME BufferKept(conn, conn'), UNCHANGED <<down, toggled, ended>>,
               up # <<>>, up' = Tail(up)
        PROVE  BufferInv'
    BY <1>1, <1>2, <1>3, <1>6, UntoggledTail DEF BufferKept, BufferInv
  <1>7. ASSUME NEW scrolls \in BOOLEAN, NEW alt \in BOOLEAN, Output(scrolls, alt)
        PROVE  BufferInv'
    <2>1. conn' = conn \/ Broadcast(conn)
      BY <1>7 DEF Output
    <2>2. BufferKept(conn, conn')
      BY <1>2, <2>1, BufferBroadcast, BufferSame
    <2> QED
      BY <1>5, <1>7, <2>2 DEF Output
  <1>8. ASSUME NEW scrolls \in BOOLEAN, OverlayOutput(scrolls)
        PROVE  BufferInv'
    BY <1>2, <1>5, <1>8, BufferBroadcast DEF OverlayOutput
  <1>9. BufferKept(conn, DropBase(conn)) /\ ConnOK(DropBase(conn))
    BY <1>2, DropBaseShape, BufferSame
  <1>10. CASE CloseOverlay
    <2>1. BufferKept(DropBase(conn), conn')
      BY <1>2, <1>9, <1>10, BufferBroadcast DEF CloseOverlay
    <2>2. BufferKept(conn, conn')
      BY <1>9, <2>1 DEF BufferKept
    <2> QED
      BY <1>5, <1>10, <2>2 DEF CloseOverlay
  <1>11. CASE HearInit
    <2> DEFINE c == IF conn.framed THEN conn ELSE Attached(conn, session.rows)
    <2>1. session.rows \in Nat
      BY <1>2 DEF Sources
    <2>2. ConnOK(c) /\ BufferKept(conn, c)
      <3>1. ConnOK(Attached(conn, session.rows)) /\ BufferKept(conn, Attached(conn, session.rows))
        <4> DEFINE a == Attached(conn, session.rows)
        <4>1. /\ ConnOK(a) /\ a.buf = conn.buf /\ a.anchor = conn.anchor /\ a.off = conn.off
              /\ a.coalesce = conn.coalesce
          BY <1>2, <2>1, AttachedShape
        <4> HIDE DEF a
        <4>2. BufferKept(conn, a)
          BY <4>1, BufferSame
        <4> QED
          BY <4>1, <4>2 DEF a
      <3>2. BufferKept(conn, conn)
        BY BufferSame
      <3> QED
        BY <1>2, <3>1, <3>2
    <2>3. Request(c) \/ conn' = c
      BY <1>11 DEF HearInit, Attached
    <2> HIDE DEF c
    <2>4. BufferKept(c, conn')
      BY <1>2, <2>2, <2>3, BufferRequest, BufferSame
    <2>5. BufferKept(conn, conn')
      BY <2>2, <2>4 DEF BufferKept
    <2> QED
      BY <1>6, <1>11, <2>5 DEF HearInit
  <1>12. CASE HearShell
    <2>1. conn' = conn \/ Broadcast(DropBase(conn))
      BY <1>12 DEF HearShell
    <2>2. BufferKept(conn, conn')
      <3>1. CASE conn' = conn
        BY <3>1, BufferSame
      <3>2. CASE Broadcast(DropBase(conn))
        <4>1. BufferKept(DropBase(conn), conn')
          BY <1>2, <1>9, <3>2, BufferBroadcast
        <4> QED
          BY <1>9, <4>1 DEF BufferKept
      <3> QED
        BY <2>1, <3>1, <3>2
    <2> QED
      BY <1>6, <1>12, <2>2 DEF HearShell
  <1>13. CASE HearAck
    <2> DEFINE m == Head(up)
               h == Heard(conn, m)
    <2>1. m \in Acks /\ up # <<>> /\ up' = Tail(up) /\ UNCHANGED <<down, toggled, ended>>
      BY <1>2, <1>13, HeadMsg DEF HearAck
    <2>2. CASE conn' = conn
      <3>1. BufferKept(conn, conn')
        BY <2>2, BufferSame
      <3> QED
        BY <1>6, <2>1, <3>1
    <2>3. CASE conn' = h \/ Request(h)
      <3>1. /\ ConnOK(h) /\ h.coalesce = conn.coalesce
            /\ Paired(down \o conn.buf) => Paired(down \o h.buf)
            /\ ~m.off => (CoalOK(conn) => CoalOK(h))
        BY <1>2, <2>1, HeardCases, BufferHeard
      <3> HIDE DEF h
      <3>2. BufferKept(h, conn')
        BY <1>2, <2>3, <3>1, BufferRequest, BufferSame
      <3>3. ~toggled /\ conn.coalesce => ~m.off
        BY <1>2, <1>3, <1>13, <2>1, HeadUntoggled DEF HearAck
      <3>4. Untoggled => Untoggled'
        BY <1>2, <2>1, UntoggledTail
      <3> HIDE DEF m
      <3> QED
        BY <1>1, <1>3, <2>1, <3>1, <3>2, <3>3, <3>4 DEF BufferKept, BufferInv
    <2> QED
      BY <1>13, <2>2, <2>3 DEF HearAck
  <1>14. ASSUME NEW n \in 1 .. SockCap, Drain(n)
         PROVE  BufferInv'
    <2>1. n \in 1 .. Len(conn.buf) /\ n \in 0 .. Len(conn.buf)
      BY <1>2, <1>14, LocalBounds DEF Drain, LocalBounds
    <2>2. conn' = Drained(conn, n)
      BY <1>2, <1>14 DEF Drain, Drained, ConnOK, Conns
    <2>3. down' \o conn'.buf = down \o conn.buf
      <3>1. conn'.buf = SubSeq(conn.buf, n + 1, Len(conn.buf))
        BY <1>2, <2>1, <2>2, DrainedShape
      <3>2. down' = down \o SubSeq(conn.buf, 1, n)
        BY <1>14 DEF Drain
      <3> QED
        BY <1>2, <2>1, <3>1, <3>2, DrainStream
    <2>4. CoalOK(conn) => CoalOK(conn')
      BY <1>2, <2>1, <2>2, WaitingDrained, DrainedShape DEF CoalOK
    <2>5. conn'.coalesce = conn.coalesce
      BY <1>2, <2>1, <2>2, DrainedShape
    <2>6. UNCHANGED <<up, toggled, ended>>
      BY <1>14 DEF Drain
    <2> QED
      BY <1>1, <1>3, <2>3, <2>4, <2>5, <2>6 DEF BufferInv, Untoggled
  <1>15. ASSUME NEW n \in 0 .. Len(conn.buf) + 2, End(n)
         PROVE  BufferInv'
    <2>1. conn' = Closed(conn) /\ up' = <<>> /\ ended' /\ toggled' = toggled
      BY <1>15 DEF End, Closed
    <2>2. /\ conn'.off = conn.off /\ conn'.coalesce = conn.coalesce
          /\ conn'.buf = <<>> /\ conn'.anchor = NoAnchor
      BY <1>2, <2>1, ClosedShape
    <2>3. Len(<<>>) = 0
      BY EmptySeq
    <2>4. CoalOK(conn) => CoalOK(conn')
      BY <2>2, <2>3 DEF CoalOK, Waiting, Spaced
    <2>5. Untoggled'
      BY <2>1, <2>3 DEF Untoggled
    <2> QED
      BY <1>1, <1>3, <2>1, <2>2, <2>4, <2>5 DEF BufferInv
  <1>16. CASE Take
    <2>1. UNCHANGED <<conn, toggled, ended>> /\ Len(down) >= 2
      BY <1>16 DEF Take
    <2>2. /\ down' \in Seq(ByteSet) /\ Len(down') = Len(down) - 2
          /\ \A i \in 1 .. Len(down) - 2 : down'[i] = down[2 + i]
      BY <1>1, <1>16, TakeShape
    <2>3. ~ended => Paired(down' \o conn'.buf)
      BY <1>2, <1>3, <2>1, <2>2, TakeStream
    <2>4. up' = up \/ \E k, r : Ack(k, r, FALSE) \in Msgs /\ up' = Append(up, Ack(k, r, FALSE))
      <3> DEFINE a == Ack(view'.num, Behind(down[1][1]), FALSE)
      <3>1. up' = up \/ up' = Append(up, a)
        BY <1>1, <1>16, TakeShape
      <3>2. a \in Msgs
        <4>1. view' \in Views
          BY <1>1, <1>16, TakeShape
        <4> QED
          BY <4>1 DEF Ack, Msgs, Acks, Views, Behind
      <3> QED
        BY <3>1, <3>2
    <2>5. Untoggled => Untoggled'
      <3>1. CASE up' = up
        BY <3>1 DEF Untoggled
      <3>2. ASSUME NEW k, NEW r, Ack(k, r, FALSE) \in Msgs, up' = Append(up, Ack(k, r, FALSE))
            PROVE  Untoggled => Untoggled'
        <4>1. ~Ack(k, r, FALSE).off
          BY DEF Ack
        <4> QED
          BY <1>2, <3>2, <4>1, UntoggledAppend
      <3> QED
        BY <2>4, <3>1, <3>2
    <2> QED
      BY <1>1, <1>3, <2>1, <2>3, <2>5 DEF BufferInv
  <1>17. ASSUME NEW m \in {InitMsg, ShellMsg}, up' = Append(up, m),
                UNCHANGED <<conn, down, toggled, ended>>
         PROVE  BufferInv'
    <2>1. m \in Msgs /\ m.kind # "ack"
      BY <1>17 DEF Msgs, InitMsg, ShellMsg
    <2>2. Untoggled => Untoggled'
      BY <1>2, <1>17, <2>1, UntoggledAppend
    <2> QED
      BY <1>1, <1>3, <1>17, <2>2 DEF BufferInv
  <1>18. CASE Resume
    BY <1>17, <1>18 DEF Resume
  <1>19. CASE Escape
    BY <1>17, <1>19 DEF Escape
  <1>20. CASE Toggle
    BY <1>1, <1>3, <1>20 DEF Toggle, BufferInv
  <1>21. CASE UNCHANGED vars
    BY <1>5, <1>21, BufferSame DEF vars
  <1> QED
    BY <1>7, <1>8, <1>10, <1>11, <1>12, <1>13, <1>14, <1>15, <1>16, <1>18, <1>19, <1>20, <1>21
    DEF Next

\* Replacing a frame in the write buffer cuts nothing short and leaves no more
\* than one waiting, whatever is drained, acknowledged, resynced or toggled
\* meanwhile (daemon.rs:1023, :1036, :2755).
THEOREM BufferCorrect == Spec => []BufferSound
  <1>1. BufferInv => BufferSound
    <2> SUFFICES ASSUME BufferInv PROVE BufferSound
      OBVIOUS
    <2>1. /\ down \in Seq(ByteSet) /\ conn.buf \in Seq(ByteSet) /\ Len(conn.buf) \in Nat
      BY LenProperties DEF BufferInv, Shapes, ConnOK, Conns
    <2>2. down \o conn.buf \in Seq(ByteSet)
      BY <2>1, ConcatProperties
    <2>3. WholeRecords
      BY <2>2, PairedWhole DEF BufferInv, WholeRecords
    <2>4. conn.coalesce /\ ~toggled => Spaced(conn.buf)
      BY DEF BufferInv, CoalOK, Waiting
    <2>5. Coalesced
      BY <2>1, <2>4, SpacedCoalesced DEF Coalesced
    <2> QED
      BY <2>3, <2>5 DEF BufferSound
  <1> QED
    BY <1>1, BufferInit, BufferStep, PTL DEF Spec

-----------------------------------------------------------------------------
(* The mirror.  To a number belongs one screen, the one its frame was made  *)
(* of; rows are numbered like a frame of the screen that is out already.    *)
(* The viewport shows the screen of the number it is at, whichever frames   *)
(* it took to get there.                                                    *)

NotOlder(a, b) == Mirror!NotOlder(a, b)

Screenings == [Nat -> Nat \X Nat]

\* Later numbers are of later screens.
Chron(sc, n, latest) ==
    /\ sc[0] = Blank
    /\ \A i, j \in 0 .. n : i <= j => NotOlder(sc[j], sc[i])
    /\ NotOlder(latest, sc[n])

\* Records as they are made, up to number n.
Made(sc, n) ==
    {r \in Recs :
        /\ r.num <= n /\ r.base <= n
        /\ r.kind \in {"full", "diff"} => r.to = sc[r.num]
        /\ r.kind = "diff" => r.from = sc[r.base]
        /\ r.kind = "rows" => sc[r.num] = sc[r.base]}
MadeBytes(sc, n) == Made(sc, n) \X {1, 2}

Tracks(sc, c) ==
    /\ \A f \in c.producer.sent : f.screen = sc[f.num]
    /\ c.producer.base # NoBase => c.producer.base = sc[c.producer.acked]
    /\ \A i \in c.producer.visible .. c.producer.num : sc[i] = sc[c.producer.num]
    /\ c.buf \in Seq(MadeBytes(sc, c.producer.num))

MirrorAt(sc) ==
    /\ Chron(sc, conn.producer.num, Latest) /\ Tracks(sc, conn)
    /\ down \in Seq(MadeBytes(sc, conn.producer.num))
    /\ view.num <= conn.producer.num /\ view.screen = sc[view.num]

MirrorInv == \E sc \in Screenings : MirrorAt(sc)

\* sd names what sc names, and goes on where sc ends.
Goes(sc, sd, n) == \A i \in 0 .. n : sd[i] = sc[i]

\* Bytes of made records are bytes.
LEMMA MadeBytesIn ==
    ASSUME NEW sc, NEW n
    PROVE  MadeBytes(sc, n) \subseteq ByteSet
  BY DEF MadeBytes, Made, ByteSet

\* What was made of numbers up to n stays so as the numbers go on.
LEMMA MadeGoes ==
    ASSUME NEW sc, NEW sd, NEW n \in Nat, NEW k \in Nat, n <= k, Goes(sc, sd, n),
           NEW s \in Seq(MadeBytes(sc, n))
    PROVE  s \in Seq(MadeBytes(sd, k))
  <1>1. Made(sc, n) \subseteq Made(sd, k)
    BY DEF Made, Goes, Recs
  <1>2. MadeBytes(sc, n) \subseteq MadeBytes(sd, k)
    BY <1>1 DEF MadeBytes
  <1>3. \A i \in 1 .. Len(s) : s[i] \in MadeBytes(sd, k)
    BY <1>2, ElementOfSeq
  <1> QED
    BY <1>3, Wider

\* NotOlder of the mirror is an order.
LEMMA Ordered ==
    /\ \A a \in Nat \X Nat : NotOlder(a, a)
    /\ \A a, b, c \in Nat \X Nat : NotOlder(a, b) /\ NotOlder(b, c) => NotOlder(a, c)
  BY DEF NotOlder, Mirror!NotOlder

\* A number more, for a screen no older than those before.
LEMMA ChronGoes ==
    ASSUME NEW sc \in Screenings, NEW n \in Nat, NEW latest \in Nat \X Nat,
           Chron(sc, n, latest), NEW screen \in Nat \X Nat, NotOlder(screen, sc[n]),
           NEW next \in Nat \X Nat, NotOlder(next, screen)
    PROVE  LET sd == [sc EXCEPT ![n + 1] = screen]
           IN  /\ sd \in Screenings /\ Goes(sc, sd, n) /\ sd[n + 1] = screen
               /\ Chron(sd, n + 1, next)
  <1> DEFINE sd == [sc EXCEPT ![n + 1] = screen]
  <1>1. sd \in Screenings /\ sd[n + 1] = screen /\ \A i \in 0 .. n : sd[i] = sc[i]
    BY DEF Screenings
  <1> HIDE DEF sd
  <1>2. \A i \in 0 .. n : sc[i] \in Nat \X Nat
    BY DEF Screenings
  <1>3. sd[0] = Blank
    BY <1>1 DEF Chron
  <1>4. \A i, j \in 0 .. n + 1 : i <= j => NotOlder(sd[j], sd[i])
    <2> SUFFICES ASSUME NEW i \in 0 .. n + 1, NEW j \in 0 .. n + 1, i <= j
                 PROVE  NotOlder(sd[j], sd[i])
      OBVIOUS
    <2>1. CASE j <= n
      BY <1>1, <2>1 DEF Chron
    <2>2. CASE j = n + 1 /\ i = n + 1
      BY <1>1, <2>2, Ordered
    <2>3. CASE j = n + 1 /\ i <= n
      <3>1. NotOlder(sc[n], sc[i]) /\ sc[i] \in Nat \X Nat /\ sc[n] \in Nat \X Nat
        BY <1>2, <2>3 DEF Chron
      <3>2. NotOlder(screen, sc[i])
        BY <3>1, Ordered
      <3> QED
        BY <1>1, <2>3, <3>2
    <2> QED
      BY <2>1, <2>2, <2>3
  <1>5. Chron(sd, n + 1, next)
    BY <1>1, <1>3, <1>4 DEF Chron
  <1> QED
    BY <1>1, <1>5 DEF sd, Goes

\* A record that fits its number.
LEMMA MadeRecord ==
    ASSUME NEW sc, NEW n, NEW r \in Made(sc, n)
    PROVE  Bytes(r) \in Seq(MadeBytes(sc, n))
  <1>1. <<r, 1>> \in MadeBytes(sc, n) /\ <<r, 2>> \in MadeBytes(sc, n)
    BY DEF MadeBytes
  <1> QED
    BY <1>1 DEF Bytes

\* What is true of the numbers of c is true, with those that are new, of d.
MirrorKept(c, d, latest, next) ==
    /\ c.producer.num <= d.producer.num
    /\ \A sc \in Screenings :
          Chron(sc, c.producer.num, latest) /\ Tracks(sc, c) =>
              \E sd \in Screenings :
                  /\ Goes(sc, sd, c.producer.num)
                  /\ Chron(sd, d.producer.num, next) /\ Tracks(sd, d)

\* A frame takes the next number, ...
LEMMA MirrorFrame ==
    ASSUME NEW c, ConnOK(c), NEW latest \in Nat \X Nat, NEW next \in Nat \X Nat,
           NotOlder(next, latest), NEW m \in Recs, NEW d, FrameStep(c, next, m, d)
    PROVE  MirrorKept(c, d, latest, next)
  <1> DEFINE n == c.producer.num
  <1>1. /\ n \in Nat /\ c.producer.acked \in Nat /\ c.producer.acked <= n
        /\ \A f \in c.producer.sent : f.num \in 0 .. n
    BY DEF ConnOK, Conns, Producers, Holds, Slots
  <1>2. d.producer.num = n + 1 /\ m.num = n + 1 /\ m.to = next /\ d.producer.visible = n + 1
    BY DEF FrameStep
  <1> SUFFICES ASSUME NEW sc \in Screenings, Chron(sc, n, latest), Tracks(sc, c)
               PROVE  \E sd \in Screenings :
                          /\ Goes(sc, sd, n) /\ Chron(sd, n + 1, next) /\ Tracks(sd, d)
    BY <1>1, <1>2 DEF MirrorKept
  <1> DEFINE sd == [sc EXCEPT ![n + 1] = next]
  <1>3. sc[n] \in Nat \X Nat /\ NotOlder(next, sc[n])
    <2>1. sc[n] \in Nat \X Nat
      BY <1>1 DEF Screenings
    <2> QED
      BY <2>1, Ordered DEF Chron
  <1>4. NotOlder(next, next)
    BY Ordered
  <1>5. sd \in Screenings /\ Goes(sc, sd, n) /\ sd[n + 1] = next /\ Chron(sd, n + 1, next)
    BY <1>1, <1>3, <1>4, ChronGoes
  <1> HIDE DEF sd, n
  <1>6. \A f \in d.producer.sent : f.screen = sd[f.num]
    BY <1>1, <1>2, <1>5 DEF FrameStep, Tracks, Goes
  <1>7. d.producer.base # NoBase => d.producer.base = sd[d.producer.acked]
    <2>1. CASE Coalescing(c)
      <3>1. d.producer.acked = c.producer.acked /\ d.producer.base = c.producer.base
        BY <2>1 DEF FrameStep
      <3>2. c.producer.acked \in 0 .. n
        BY <1>1
      <3> QED
        BY <1>5, <3>1, <3>2 DEF Tracks, Goes
    <2>2. CASE ~Coalescing(c)
      BY <1>2, <1>5, <2>2 DEF FrameStep
    <2> QED
      BY <2>1, <2>2
  <1>8. \A i \in d.producer.visible .. d.producer.num : sd[i] = sd[d.producer.num]
    BY <1>1, <1>2
  <1>9. m \in Made(sd, n + 1)
    <2>1. m.base \in Nat /\ m.kind \in {"full", "diff"}
      BY DEF Recs, FrameStep
    <2>2. m.base <= n + 1
      <3>1. CASE m.kind = "diff"
        BY <1>1, <3>1 DEF FrameStep
      <3>2. CASE m.kind = "full"
        BY <1>1, <3>2 DEF FrameStep
      <3> QED
        BY <2>1, <3>1, <3>2
    <2>3. m.kind = "diff" => m.from = sd[m.base]
      <3> SUFFICES ASSUME m.kind = "diff" PROVE m.from = sd[m.base]
        OBVIOUS
      <3>1. c.producer.base # NoBase /\ m.base = c.producer.acked /\ m.from = c.producer.base
        BY DEF FrameStep
      <3>2. c.producer.acked \in 0 .. n
        BY <1>1
      <3> QED
        BY <1>5, <3>1, <3>2 DEF Tracks, Goes
    <2> QED
      BY <1>1, <1>2, <1>5, <2>1, <2>2, <2>3 DEF Made
  <1>10. d.buf \in Seq(MadeBytes(sd, n + 1))
    <2> DEFINE p == SubSeq(c.buf, 1, Cut(c))
    <2>1. c.buf \in Seq(MadeBytes(sc, n)) /\ Cut(c) \in 0 .. Len(c.buf)
      BY DEF Tracks, FrameStep, n
    <2>2. p \in Seq(MadeBytes(sc, n))
      BY <2>1, Prefixes
    <2> HIDE DEF p
    <2>3. n + 1 \in Nat /\ n <= n + 1
      BY <1>1
    <2>4. p \in Seq(MadeBytes(sd, n + 1))
      BY <1>1, <1>5, <2>2, <2>3, MadeGoes
    <2>5. Bytes(m) \in Seq(MadeBytes(sd, n + 1))
      BY <1>9, MadeRecord
    <2>6. p \o Bytes(m) \in Seq(MadeBytes(sd, n + 1))
      BY <2>4, <2>5, ConcatProperties
    <2> QED
      BY <2>6 DEF FrameStep, p
  <1>11. Tracks(sd, d)
    BY <1>2, <1>6, <1>7, <1>8, <1>10 DEF Tracks
  <1> QED
    BY <1>5, <1>11

\* ... rows another one, for the screen that is out, ...
LEMMA MirrorRows ==
    ASSUME NEW c, ConnOK(c), NEW latest \in Nat \X Nat,
           NEW of, NEW total, NEW m \in Recs, NEW f \in c.producer.sent, NEW d,
           RowsStep(c, of, total, m, f, d)
    PROVE  MirrorKept(c, d, latest, latest)
  <1> DEFINE n == c.producer.num
  <1>1. /\ n \in Nat /\ c.producer.acked \in Nat /\ c.producer.acked <= n
        /\ c.producer.visible \in Nat /\ c.producer.visible <= n
        /\ \A g \in c.producer.sent : g.num \in 0 .. n
    BY DEF ConnOK, Conns, Producers, Holds, Slots
  <1>2. d.producer.num = n + 1 /\ m.num = n + 1 /\ m.kind = "rows"
        /\ m.base = c.producer.visible /\ d.producer.visible = c.producer.visible
        /\ f.num = n
    BY DEF RowsStep
  <1> SUFFICES ASSUME NEW sc \in Screenings, Chron(sc, n, latest), Tracks(sc, c)
               PROVE  \E sd \in Screenings :
                          /\ Goes(sc, sd, n) /\ Chron(sd, n + 1, latest) /\ Tracks(sd, d)
    BY <1>1, <1>2 DEF MirrorKept
  <1> DEFINE sd == [sc EXCEPT ![n + 1] = sc[n]]
  <1>3. sc[n] \in Nat \X Nat /\ NotOlder(sc[n], sc[n]) /\ NotOlder(latest, sc[n])
    <2>1. sc[n] \in Nat \X Nat
      BY <1>1 DEF Screenings
    <2> QED
      BY <2>1, Ordered DEF Chron
  <1>4. sd \in Screenings /\ Goes(sc, sd, n) /\ sd[n + 1] = sc[n] /\ Chron(sd, n + 1, latest)
    BY <1>1, <1>3, ChronGoes
  <1> HIDE DEF sd, n
  <1>5. f.screen = sc[n]
    BY <1>2 DEF Tracks
  <1>6. \A g \in d.producer.sent : g.screen = sd[g.num]
    BY <1>1, <1>2, <1>4, <1>5 DEF RowsStep, Tracks, Goes
  <1>7. d.producer.base # NoBase => d.producer.base = sd[d.producer.acked]
    BY <1>1, <1>2, <1>4, <1>5 DEF RowsStep, Tracks, Goes
  <1>8. \A i \in c.producer.visible .. n + 1 : sd[i] = sc[n]
    <2> SUFFICES ASSUME NEW i \in c.producer.visible .. n + 1
                 PROVE  sd[i] = sc[n]
      OBVIOUS
    <2>1. i = n + 1 \/ (i \in c.producer.visible .. n /\ i \in 0 .. n)
      BY <1>1
    <2> QED
      BY <1>4, <2>1 DEF Tracks, Goes, n
  <1>9. m \in Made(sd, n + 1)
    <2>1. m.base <= n + 1 /\ sd[m.base] = sc[n]
      BY <1>1, <1>2, <1>8
    <2> QED
      BY <1>1, <1>2, <1>4, <2>1 DEF Made
  <1>10. d.buf \in Seq(MadeBytes(sd, n + 1))
    <2>1. c.buf \in Seq(MadeBytes(sc, n))
      BY DEF Tracks, n
    <2>2. n + 1 \in Nat /\ n <= n + 1
      BY <1>1
    <2>3. c.buf \in Seq(MadeBytes(sd, n + 1))
      BY <1>1, <1>4, <2>1, <2>2, MadeGoes
    <2>4. Bytes(m) \in Seq(MadeBytes(sd, n + 1))
      BY <1>9, MadeRecord
    <2>5. c.buf \o Bytes(m) \in Seq(MadeBytes(sd, n + 1))
      BY <2>3, <2>4, ConcatProperties
    <2> QED
      BY <2>5 DEF RowsStep
  <1>11. Tracks(sd, d)
    BY <1>1, <1>2, <1>4, <1>6, <1>7, <1>8, <1>10 DEF Tracks
  <1> QED
    BY <1>4, <1>11

\* A connection whose frames are those of c, or some of them.
LEMMA MirrorSame ==
    ASSUME NEW c, ConnOK(c), NEW d, NEW latest \in Nat \X Nat, NEW next \in Nat \X Nat,
           NotOlder(next, latest),
           d.producer.num = c.producer.num, d.producer.visible = c.producer.visible,
           d.buf = c.buf, \A f \in d.producer.sent : f \in c.producer.sent,
           \/ d.producer.base = NoBase
           \/ d.producer.base = c.producer.base /\ d.producer.acked = c.producer.acked
           \/ \E f \in c.producer.sent :
                 d.producer.base = f.screen /\ d.producer.acked = f.num
    PROVE  MirrorKept(c, d, latest, next)
  <1>1. c.producer.num \in Nat
    BY DEF ConnOK, Conns, Producers
  <1> SUFFICES ASSUME NEW sc \in Screenings, Chron(sc, c.producer.num, latest), Tracks(sc, c)
               PROVE  Goes(sc, sc, c.producer.num) /\ Chron(sc, c.producer.num, next)
                      /\ Tracks(sc, d)
    BY <1>1 DEF MirrorKept
  <1>2. sc[c.producer.num] \in Nat \X Nat
    BY <1>1 DEF Screenings
  <1>3. Chron(sc, c.producer.num, next)
    BY <1>2, Ordered DEF Chron
  <1>4. Tracks(sc, d)
    BY DEF Tracks
  <1> QED
    BY <1>3, <1>4 DEF Goes

\* ... and one extension after another is an extension: ...
LEMMA MirrorThrough ==
    ASSUME NEW c, NEW d, NEW e, c.producer.num \in Nat, d.producer.num \in Nat,
           e.producer.num \in Nat, NEW latest, NEW next, NEW final,
           MirrorKept(c, d, latest, next), MirrorKept(d, e, next, final)
    PROVE  MirrorKept(c, e, latest, final)
  <1>1. c.producer.num <= d.producer.num /\ d.producer.num <= e.producer.num
    BY DEF MirrorKept
  <1>2. SUFFICES ASSUME NEW sc \in Screenings, Chron(sc, c.producer.num, latest), Tracks(sc, c)
                 PROVE  \E sd \in Screenings :
                            /\ Goes(sc, sd, c.producer.num)
                            /\ Chron(sd, e.producer.num, final) /\ Tracks(sd, e)
    BY <1>1 DEF MirrorKept
  <1>3. PICK sd \in Screenings :
           /\ Goes(sc, sd, c.producer.num)
           /\ Chron(sd, d.producer.num, next) /\ Tracks(sd, d)
    BY <1>2 DEF MirrorKept
  <1>4. PICK se \in Screenings :
           /\ Goes(sd, se, d.producer.num)
           /\ Chron(se, e.producer.num, final) /\ Tracks(se, e)
    BY <1>3 DEF MirrorKept
  <1>5. Goes(sc, se, c.producer.num)
    BY <1>1, <1>3, <1>4 DEF Goes
  <1> QED
    BY <1>4, <1>5

\* The newest number is a number.
LEMMA NumIn ==
    ASSUME NEW c, ConnOK(c)
    PROVE  c.producer.num \in Nat
  BY DEF ConnOK, Conns, Producers

\* ... a broadcast, ...
LEMMA MirrorBroadcast ==
    ASSUME NEW c, ConnOK(c), Sources', Broadcast(c), NEW latest \in Nat \X Nat,
           NotOlder(Latest', latest)
    PROVE  MirrorKept(c, conn', latest, Latest')
  <1>1. Latest' \in Nat \X Nat
    BY DEF Sources, Latest
  <1>2. CASE ~c.framed
    <2>1. conn' = c
      BY <1>2, BroadcastCases
    <2> QED
      BY <1>1, <2>1, MirrorSame
  <1>3. CASE c.framed
    <2>1. Broadcasted(c, Latest', SourceOf', SourceTotal', SourceAlt', conn')
      BY <1>3, BroadcastCases
    <2>2. PICK m \in Recs, d \in Conns :
             /\ FrameStep(c, Latest', m, d)
             /\ \/ conn' = d
                \/ \E r \in Recs, f \in d.producer.sent :
                      RowsStep(d, SourceOf', SourceTotal', r, f, conn')
      BY <2>1 DEF Broadcasted
    <2>3. ConnOK(d)
      BY <2>2 DEF FrameStep
    <2>4. MirrorKept(c, d, latest, Latest')
      BY <1>1, <2>2, MirrorFrame
    <2>5. ASSUME NEW r \in Recs, NEW f \in d.producer.sent,
                 RowsStep(d, SourceOf', SourceTotal', r, f, conn')
          PROVE  MirrorKept(c, conn', latest, Latest')
      <3>1. MirrorKept(d, conn', Latest', Latest')
        BY <1>1, <2>3, <2>5, MirrorRows
      <3>2. ConnOK(conn')
        BY <2>5 DEF RowsStep
      <3>3. c.producer.num \in Nat /\ d.producer.num \in Nat /\ conn'.producer.num \in Nat
        BY <2>3, <3>2, NumIn
      <3> QED
        BY <2>4, <3>1, <3>3, MirrorThrough
    <2> QED
      BY <2>2, <2>4, <2>5
  <1> QED
    BY <1>2, <1>3

\* ... a requested frame, ...
LEMMA MirrorRequest ==
    ASSUME NEW c, ConnOK(c), Sources, Request(c)
    PROVE  MirrorKept(c, conn', Latest, Latest)
  <1>1. Latest \in Nat \X Nat
    BY SourceTypes
  <1>2. NotOlder(Latest, Latest)
    BY <1>1, Ordered
  <1> QED
    BY <1>1, <1>2, RequestCases, MirrorFrame

\* ... the base given up, ...
LEMMA MirrorDropBase ==
    ASSUME NEW c, ConnOK(c), NEW latest \in Nat \X Nat
    PROVE  MirrorKept(c, DropBase(c), latest, latest)
  <1> DEFINE d == DropBase(c)
  <1>1. /\ d.producer.base = NoBase /\ d.producer.sent = c.producer.sent
        /\ d.producer.num = c.producer.num /\ d.producer.visible = c.producer.visible
        /\ d.buf = c.buf
    BY DropBaseShape
  <1> HIDE DEF d
  <1>2. MirrorKept(c, d, latest, latest)
    BY <1>1, Ordered, MirrorSame
  <1> QED
    BY <1>2 DEF d

\* ... and an acknowledgement.
LEMMA MirrorHeard ==
    ASSUME NEW c, ConnOK(c), NEW m \in Acks, NEW latest \in Nat \X Nat
    PROVE  MirrorKept(c, Heard(c, m), latest, latest)
  <1> DEFINE t == Toggled(c, m.off)
             a == Acked(t, m.num)
             d == Heard(c, m)
  <1>1. /\ ConnOK(t) /\ ConnOK(a) /\ ConnOK(d) /\ d = IF m.resync THEN DropBase(a) ELSE a
    BY HeardCases
  <1>2. m.off \in BOOLEAN /\ m.num \in Nat
    BY DEF Acks
  <1>3. t.producer = c.producer /\ t.buf = c.buf
    BY <1>2, ToggledShape
  <1> HIDE DEF t
  <1>4. /\ a.producer.num = t.producer.num /\ a.producer.visible = t.producer.visible
        /\ a.buf = t.buf /\ \A f \in a.producer.sent : f \in t.producer.sent
    BY <1>1, <1>2, AckedShape
  <1>5. \/ a.producer.base = NoBase
        \/ a.producer.base = t.producer.base /\ a.producer.acked = t.producer.acked
        \/ \E f \in t.producer.sent : a.producer.base = f.screen /\ a.producer.acked = f.num
    <2>1. CASE m.num <= t.producer.acked \/ m.num > t.producer.num
      BY <1>1, <1>2, <2>1, AckedShape
    <2>2. CASE ~(m.num <= t.producer.acked \/ m.num > t.producer.num)
      <3>1. t.producer.num \in Nat /\ t.producer.acked \in Nat
        BY <1>1 DEF ConnOK, Conns, Producers
      <3>2. m.num > t.producer.acked /\ m.num <= t.producer.num
        BY <1>2, <2>2, <3>1
      <3>3. /\ a.producer.acked = m.num
            /\ \/ a.producer.base = NoBase
               \/ \E f \in t.producer.sent : f.num = m.num /\ a.producer.base = f.screen
        <4> DEFINE k == m.num
        <4>1. k \in Nat /\ k > t.producer.acked /\ k <= t.producer.num
          BY <1>2, <3>2
        <4>2. a = Acked(t, k)
          BY DEF a
        <4> HIDE DEF k
        <4>3. /\ Acked(t, k).producer.acked = k
              /\ \/ /\ Acked(t, k).producer.base = NoBase
                    /\ Acked(t, k).sb_acked = t.sb_acked
                    /\ \A f \in t.producer.sent : f.num # k
                 \/ \E f \in t.producer.sent :
                       /\ f.num = k /\ Acked(t, k).producer.base = f.screen
                       /\ Acked(t, k).sb_acked =
                             IF f.total > t.sb_acked THEN f.total ELSE t.sb_acked
          BY <1>1, <4>1, AckedShape
        <4>4. /\ a.producer.acked = k
              /\ \/ a.producer.base = NoBase
                 \/ \E f \in t.producer.sent : f.num = k /\ a.producer.base = f.screen
          BY <4>2, <4>3
        <4> QED
          BY <4>4 DEF k
      <3> QED
        BY <3>3
    <2> QED
      BY <2>1, <2>2
  <1> HIDE DEF a
  <1>6. MirrorKept(c, a, latest, latest)
    BY <1>3, <1>4, <1>5, Ordered, MirrorSame
  <1>7. MirrorKept(a, DropBase(a), latest, latest)
    BY <1>1, MirrorDropBase
  <1>8. c.producer.num \in Nat /\ a.producer.num \in Nat /\ d.producer.num \in Nat
    BY <1>1, NumIn
  <1> HIDE DEF d
  <1>9. MirrorKept(c, d, latest, latest)
    BY <1>1, <1>6, <1>7, <1>8, MirrorThrough
  <1> QED
    BY <1>9 DEF d

\* Frame 0 is the blank.
LEMMA MirrorInit == Init => MirrorInv
  <1> SUFFICES ASSUME Init PROVE MirrorInv
    OBVIOUS
  <1> DEFINE sc == [n \in Nat |-> Blank]
             slot == [num |-> 0, screen |-> Blank, total |-> 0]
  <1>1. sc \in Screenings /\ \A n \in Nat : sc[n] = Blank
    BY DEF Screenings, Blank
  <1> HIDE DEF sc
  <1>2. /\ conn.producer = NewProducer /\ conn.buf = <<>> /\ down = <<>>
        /\ view.num = 0 /\ view.screen = Blank
        /\ Latest = <<0, 1>>
    BY DEF Init, NewConn, Latest
  <1>3. /\ conn.producer.num = 0 /\ conn.producer.acked = 0 /\ conn.producer.base = Blank
        /\ conn.producer.visible = 0 /\ conn.producer.sent = {slot}
    BY <1>2 DEF NewProducer
  <1>4. slot.screen = Blank /\ slot.num = 0
    OBVIOUS
  <1> HIDE DEF slot
  <1>5. <<>> \in Seq(MadeBytes(sc, 0))
    BY EmptySeq
  <1>6. \A i \in 0 .. 0 : i = 0
    OBVIOUS
  <1>7. NotOlder(Blank, Blank) /\ NotOlder(<<0, 1>>, Blank)
    BY DEF NotOlder, Mirror!NotOlder, Blank
  <1>8. Chron(sc, 0, Latest)
    BY <1>1, <1>2, <1>6, <1>7 DEF Chron
  <1>9. Tracks(sc, conn)
    BY <1>1, <1>2, <1>3, <1>4, <1>5 DEF Tracks
  <1>10. MirrorAt(sc)
    BY <1>1, <1>2, <1>3, <1>5, <1>8, <1>9 DEF MirrorAt
  <1> QED
    BY <1>1, <1>10 DEF MirrorInv

\* A step of the daemon: what was sent stays what it was.
LEMMA MirrorConn ==
    ASSUME Shapes, MirrorInv, MirrorKept(conn, conn', Latest, Latest'), ConnOK(conn'),
           down' = down, view'.num = view.num, view'.screen = view.screen
    PROVE  MirrorInv'
  <1>1. PICK sc \in Screenings : MirrorAt(sc)
    BY DEF MirrorInv
  <1>2. PICK sd \in Screenings :
           /\ Goes(sc, sd, conn.producer.num)
           /\ Chron(sd, conn'.producer.num, Latest') /\ Tracks(sd, conn')
    BY <1>1 DEF MirrorKept, MirrorAt
  <1> DEFINE n == conn.producer.num
             k == conn'.producer.num
  <1>3. n \in Nat /\ k \in Nat /\ n <= k /\ view.num \in Nat
    BY NumIn DEF Shapes, MirrorKept, Views
  <1>4. down \in Seq(MadeBytes(sc, n)) /\ view.num <= n /\ view.screen = sc[view.num]
    BY <1>1 DEF MirrorAt
  <1> HIDE DEF n, k
  <1>5. down \in Seq(MadeBytes(sd, k))
    BY <1>2, <1>3, <1>4, MadeGoes DEF n
  <1>6. view.num <= k /\ view.screen = sd[view.num]
    BY <1>2, <1>3, <1>4 DEF n, Goes
  <1>7. MirrorAt(sd)'
    BY <1>2, <1>5, <1>6 DEF MirrorAt, k
  <1> QED
    BY <1>7 DEF MirrorInv

\* What the viewport shows is of a number it had been sent.
LEMMA MirrorTake ==
    ASSUME Shapes, MirrorInv, Take
    PROVE  /\ MirrorInv'
           /\ NotOlder(view'.screen, view.screen) /\ NotOlder(Latest, view'.screen)
  <1> DEFINE m == down[1][1]
             n == conn.producer.num
  <1>1. PICK sc \in Screenings : MirrorAt(sc)
    BY DEF MirrorInv
  <1>2. /\ n \in Nat /\ view.num \in Nat /\ view \in Views
        /\ down \in Seq(MadeBytes(sc, n)) /\ Len(down) \in Nat /\ Len(down) >= 2
    BY <1>1, NumIn, LenProperties DEF Shapes, MirrorAt, Views, Take
  <1>3. m \in Made(sc, n)
    <2>1. down[1] \in MadeBytes(sc, n)
      BY <1>2, ElementOfSeq
    <2> QED
      BY <2>1 DEF MadeBytes
  <1>4. view' = [view EXCEPT !.exited = TRUE] \/ (view' = Shown(m) /\ m.kind # "exit")
    BY DEF Take
  <1>5. down' \in Seq(MadeBytes(sc, n))
    <2>1. 2 \in 0 .. Len(down)
      BY <1>2
    <2>2. SubSeq(down, 2 + 1, Len(down)) \in Seq(MadeBytes(sc, n))
      BY <1>2, <2>1, Suffixes
    <2> QED
      BY <2>2 DEF Take
  <1> HIDE DEF m
  <1>6. m.kind \in {"full", "diff", "rows", "exit"} /\ m.num \in Nat
    BY <1>3 DEF Made, Recs
  <1>7. view'.num <= n /\ view'.screen = sc[view'.num] /\ view.num <= view'.num
        /\ view'.num \in Nat
    <2>1. view.num <= n /\ view.screen = sc[view.num]
      BY <1>1 DEF MirrorAt
    <2>2. CASE view'.num = view.num /\ view'.screen = view.screen
      BY <1>2, <2>1, <2>2
    <2>3. CASE Fits(m) /\ m.kind # "exit" /\ view' = Shown(m)
      <3>1. m.num > view.num /\ m.num <= n
        BY <1>3, <2>3 DEF Fits, Made
      <3>2. CASE m.kind = "rows"
        <4>1. view'.num = m.num /\ view'.screen = view.screen
          BY <1>2, <2>3, <3>2 DEF Shown, Views
        <4>2. sc[m.num] = sc[view.num]
          BY <1>3, <2>3, <3>2 DEF Made, Fits
        <4> QED
          BY <1>2, <1>6, <2>1, <3>1, <4>1, <4>2
      <3>3. CASE m.kind # "rows"
        <4>1. view'.num = m.num /\ view'.screen = Rebuilt(m)
          BY <1>2, <2>3, <3>3 DEF Shown, Views
        <4>2. m.kind \in {"full", "diff"} /\ m.to = sc[m.num]
          BY <1>3, <1>6, <2>3, <3>3 DEF Made
        <4>3. Rebuilt(m) = m.to
          <5>1. CASE m.kind = "diff"
            <6>1. m.from = sc[m.base] /\ m.base = view.num
              BY <1>3, <2>3, <5>1 DEF Made, Fits
            <6> QED
              BY <2>1, <6>1 DEF Rebuilt
          <5>2. CASE m.kind # "diff"
            BY <5>2 DEF Rebuilt
          <5> QED
            BY <5>1, <5>2
        <4> QED
          BY <1>2, <1>6, <3>1, <4>1, <4>2, <4>3
      <3> QED
        BY <3>2, <3>3
    <2>4. view' = [view EXCEPT !.exited = TRUE] => view'.num = view.num /\ view'.screen = view.screen
      BY <1>2 DEF Views
    <2>5. view' = Shown(m) /\ ~Fits(m) => view'.num = view.num /\ view'.screen = view.screen
      BY DEF Shown
    <2> QED
      BY <1>4, <2>2, <2>3, <2>4, <2>5
  <1>8. UNCHANGED <<conn, Latest>>
    BY DEF Take, Latest
  <1>9. MirrorAt(sc)'
    BY <1>1, <1>5, <1>7, <1>8 DEF MirrorAt
  <1>10. MirrorInv'
    BY <1>9 DEF MirrorInv
  <1>11. Chron(sc, n, Latest) /\ view.screen = sc[view.num]
    BY <1>1 DEF MirrorAt
  <1>12. NotOlder(view'.screen, view.screen)
    BY <1>2, <1>7, <1>11 DEF Chron
  <1>13. NotOlder(Latest, view'.screen)
    <2>1. Latest \in Nat \X Nat
      BY SourceTypes DEF Shapes, Sources
    <2>2. sc[n] \in Nat \X Nat /\ sc[view'.num] \in Nat \X Nat
      BY <1>2, <1>7 DEF Screenings
    <2>3. NotOlder(sc[n], sc[view'.num]) /\ NotOlder(Latest, sc[n])
      BY <1>2, <1>7, <1>11 DEF Chron
    <2> QED
      BY <1>7, <2>1, <2>2, <2>3, Ordered
  <1> QED
    BY <1>10, <1>12, <1>13

\* Every step keeps the mirror, and shows nothing older.
LEMMA MirrorStep ==
    ASSUME Shapes, MirrorInv, [Next]_vars
    PROVE  MirrorInv' /\ [Mirror!Next]_<<Latest, view.screen>>
  <1>1. Shapes'
    BY ShapesStep
  <1>2. /\ Sources /\ Sources' /\ ConnOK(conn) /\ ConnOK(conn') /\ up \in Seq(Msgs)
        /\ Latest \in Nat \X Nat /\ view \in Views
        /\ session.gen \in Nat /\ overlay.gen \in Nat /\ session.rows \in Nat /\ epoch \in Nat
    BY <1>1, SourceTypes DEF Shapes, Sources, Msgs
  <1>3. NotOlder(Latest, Latest)
    BY <1>2, Ordered
  <1>4. MirrorKept(conn, conn, Latest, Latest)
    BY <1>2, <1>3, MirrorSame
  <1>5. ASSUME NotOlder(Latest', Latest), MirrorKept(conn, conn', Latest, Latest'), down' = down,
               view'.num = view.num, view'.screen = view.screen
        PROVE  MirrorInv' /\ [Mirror!Next]_<<Latest, view.screen>>
    <2>1. MirrorInv'
      BY <1>2, <1>5, MirrorConn
    <2>2. Mirror!Change
      BY <1>5 DEF Mirror!Change, NotOlder
    <2> QED
      BY <2>1, <2>2 DEF Mirror!Next
  <1>6. ASSUME Latest' = Latest, MirrorKept(conn, conn', Latest, Latest), down' = down,
               view'.num = view.num, view'.screen = view.screen
        PROVE  MirrorInv' /\ [Mirror!Next]_<<Latest, view.screen>>
    BY <1>3, <1>5, <1>6
  <1>7. ASSUME NEW scrolls \in BOOLEAN, NEW alt \in BOOLEAN, Output(scrolls, alt)
        PROVE  MirrorInv' /\ [Mirror!Next]_<<Latest, view.screen>>
    <2>1. UNCHANGED <<overlay, epoch, down, view>> /\ session'.gen = session.gen + 1
      BY <1>7 DEF Output
    <2>2. NotOlder(Latest', Latest)
      BY <1>2, <2>1 DEF NotOlder, Mirror!NotOlder, Latest
    <2>3. CASE overlay.up
      <3>1. conn' = conn /\ Latest' = Latest
        BY <1>7, <2>1, <2>3 DEF Output, Latest
      <3> QED
        BY <1>4, <1>6, <2>1, <3>1
    <2>4. CASE ~overlay.up
      <3>1. Broadcast(conn)
        BY <1>7, <2>4 DEF Output
      <3> QED
        BY <1>2, <1>5, <2>1, <2>2, <3>1, MirrorBroadcast
    <2> QED
      BY <2>3, <2>4
  <1>8. ASSUME NEW scrolls \in BOOLEAN, OverlayOutput(scrolls)
        PROVE  MirrorInv' /\ [Mirror!Next]_<<Latest, view.screen>>
    <2>1. UNCHANGED <<session, epoch, down, view>> /\ overlay.up /\ Broadcast(conn)
      BY <1>8 DEF OverlayOutput
    <2>2. overlay'.up = overlay.up /\ overlay'.gen = overlay.gen + 1
      BY <1>2, <1>8 DEF OverlayOutput, Sources
    <2>3. NotOlder(Latest', Latest)
      BY <1>2, <2>1, <2>2 DEF NotOlder, Mirror!NotOlder, Latest
    <2> QED
      BY <1>2, <1>5, <2>1, <2>3, MirrorBroadcast
  <1> DEFINE dropped == DropBase(conn)
  <1>9. ConnOK(dropped) /\ MirrorKept(conn, dropped, Latest, Latest)
    BY <1>2, DropBaseShape, MirrorDropBase
  <1>10. ASSUME Broadcast(dropped), NotOlder(Latest', Latest), UNCHANGED <<down, view>>
         PROVE  MirrorInv' /\ [Mirror!Next]_<<Latest, view.screen>>
    <2> HIDE DEF dropped
    <2>1. MirrorKept(dropped, conn', Latest, Latest')
      BY <1>2, <1>9, <1>10, MirrorBroadcast
    <2>2. conn.producer.num \in Nat /\ dropped.producer.num \in Nat /\ conn'.producer.num \in Nat
      BY <1>2, <1>9, NumIn
    <2>3. MirrorKept(conn, conn', Latest, Latest')
      BY <1>9, <2>1, <2>2, MirrorThrough
    <2> QED
      BY <1>5, <1>10, <2>3
  <1>11. ASSUME epoch' = epoch + 1
         PROVE  NotOlder(Latest', Latest)
    BY <1>2, <1>11 DEF NotOlder, Mirror!NotOlder, Latest
  <1>12. CASE CloseOverlay
    BY <1>10, <1>11, <1>12 DEF CloseOverlay
  <1>13. CASE HearInit
    <2> DEFINE a == Attached(conn, session.rows)
               c == IF conn.framed THEN conn ELSE a
    <2>1. /\ ConnOK(a) /\ a.producer = conn.producer /\ a.buf = conn.buf
      BY <1>2, AttachedShape
    <2>2. Request(c) \/ conn' = c
      BY <1>13 DEF HearInit, Attached
    <2> HIDE DEF a
    <2>3. MirrorKept(conn, a, Latest, Latest)
      BY <1>2, <1>3, <2>1, MirrorSame
    <2>4. ConnOK(c) /\ MirrorKept(conn, c, Latest, Latest)
      BY <1>2, <1>4, <2>1, <2>3
    <2> HIDE DEF c
    <2>5. MirrorKept(c, conn', Latest, Latest)
      BY <1>2, <1>3, <2>2, <2>4, MirrorRequest, MirrorSame
    <2>6. conn.producer.num \in Nat /\ c.producer.num \in Nat /\ conn'.producer.num \in Nat
      BY <1>2, <2>4, NumIn
    <2>7. MirrorKept(conn, conn', Latest, Latest)
      BY <2>4, <2>5, <2>6, MirrorThrough
    <2>8. UNCHANGED <<down, view>> /\ Latest' = Latest
      BY <1>13 DEF HearInit, Latest
    <2> QED
      BY <1>6, <2>7, <2>8
  <1>14. CASE HearShell
    <2>1. CASE overlay.up
      <3>1. UNCHANGED <<down, view, conn>> /\ Latest' = Latest
        BY <1>14, <2>1 DEF HearShell, Latest
      <3> QED
        BY <1>4, <1>6, <3>1
    <2>2. CASE ~overlay.up
      BY <1>10, <1>11, <1>14, <2>2 DEF HearShell
    <2> QED
      BY <2>1, <2>2
  <1>15. CASE HearAck
    <2> DEFINE m == Head(up)
               h == Heard(conn, m)
    <2>1. m \in Acks
      BY <1>2, <1>15, HeadMsg DEF HearAck
    <2>2. UNCHANGED <<down, view>> /\ Latest' = Latest
      BY <1>15 DEF HearAck, Latest
    <2>3. conn' = conn \/ conn' = h \/ Request(h)
      BY <1>15 DEF HearAck
    <2>4. ConnOK(h) /\ MirrorKept(conn, h, Latest, Latest)
      BY <1>2, <2>1, HeardCases, MirrorHeard
    <2> HIDE DEF h
    <2>5. ASSUME Request(h) PROVE MirrorKept(conn, conn', Latest, Latest)
      <3>1. MirrorKept(h, conn', Latest, Latest)
        BY <1>2, <2>4, <2>5, MirrorRequest
      <3>2. conn.producer.num \in Nat /\ h.producer.num \in Nat /\ conn'.producer.num \in Nat
        BY <1>2, <2>4, NumIn
      <3> QED
        BY <2>4, <3>1, <3>2, MirrorThrough
    <2>6. MirrorKept(conn, conn', Latest, Latest)
      BY <1>4, <2>3, <2>4, <2>5
    <2> QED
      BY <1>6, <2>2, <2>6
  <1>16. PICK sc \in Screenings : MirrorAt(sc)
    BY DEF MirrorInv
  <1> DEFINE bytes == MadeBytes(sc, conn.producer.num)
  <1>17. /\ conn.buf \in Seq(bytes) /\ down \in Seq(bytes) /\ Len(conn.buf) \in Nat
         /\ Len(down) \in Nat
    BY <1>16, LenProperties DEF MirrorAt, Tracks
  <1>18. ASSUME conn'.producer = conn.producer, conn'.buf \in Seq(bytes), down' \in Seq(bytes),
                UNCHANGED <<session, overlay, epoch, view>>
         PROVE  MirrorInv' /\ [Mirror!Next]_<<Latest, view.screen>>
    <2>1. Latest' = Latest
      BY <1>18 DEF Latest
    <2>2. MirrorAt(sc)'
      BY <1>16, <1>18, <2>1 DEF MirrorAt, Tracks
    <2>3. MirrorInv'
      BY <2>2 DEF MirrorInv
    <2> QED
      BY <1>18, <2>1, <2>3
  <1> HIDE DEF bytes
  <1>19. ASSUME NEW n \in 1 .. SockCap, Drain(n)
         PROVE  MirrorInv' /\ [Mirror!Next]_<<Latest, view.screen>>
    <2>1. n \in 0 .. Len(conn.buf)
      BY <1>17, <1>19, LocalBounds DEF Drain, LocalBounds
    <2>2. /\ SubSeq(conn.buf, 1, n) \in Seq(bytes)
          /\ SubSeq(conn.buf, n + 1, Len(conn.buf)) \in Seq(bytes)
      BY <1>17, <2>1, Prefixes, Suffixes
    <2>3. down' \in Seq(bytes)
      BY <1>17, <1>19, <2>2, ConcatProperties DEF Drain
    <2>4. conn'.producer = conn.producer /\ conn'.buf = SubSeq(conn.buf, n + 1, Len(conn.buf))
      BY <1>2, <1>19 DEF Drain, ConnOK, Conns
    <2> QED
      BY <1>18, <1>19, <2>2, <2>3, <2>4 DEF Drain
  <1>20. ASSUME NEW n \in 0 .. Len(conn.buf) + 2, End(n)
         PROVE  MirrorInv' /\ [Mirror!Next]_<<Latest, view.screen>>
    <2> DEFINE s == SubSeq(conn.buf \o Bytes(Exit), 1, n)
    <2>1. /\ s \in Seq(ByteSet) /\ Len(s) = n
          /\ \A i \in 1 .. n : IF i <= Len(conn.buf) THEN s[i] = conn.buf[i] ELSE s[i][1] = Exit
      BY <1>2, EndBytes
    <2> HIDE DEF s
    <2>2. Exit \in Made(sc, conn.producer.num)
      <3>1. Exit \in Recs /\ Exit.num = 0 /\ Exit.base = 0 /\ Exit.kind = "exit"
        BY ConstantPairs, EmptySeq DEF Exit, Recs
      <3>2. conn.producer.num \in Nat
        BY <1>2, NumIn
      <3> QED
        BY <3>1, <3>2 DEF Made
    <2>3. \A i \in 1 .. n : s[i] \in bytes
      <3> SUFFICES ASSUME NEW i \in 1 .. n PROVE s[i] \in bytes
        OBVIOUS
      <3>1. CASE i <= Len(conn.buf)
        <4>1. i \in 1 .. Len(conn.buf) /\ s[i] = conn.buf[i]
          BY <1>17, <2>1, <3>1
        <4> QED
          BY <1>17, <4>1, ElementOfSeq
      <3>2. CASE ~(i <= Len(conn.buf))
        <4>1. s[i] \in ByteSet /\ s[i][1] = Exit
          BY <2>1, <3>2, ElementOfSeq
        <4> QED
          BY <2>2, <4>1 DEF ByteSet, bytes, MadeBytes
      <3> QED
        BY <3>1, <3>2
    <2>4. s \in Seq(bytes)
      BY <2>1, <2>3, Wider
    <2>5. down' \in Seq(bytes)
      BY <1>17, <1>20, <2>4, ConcatProperties DEF End, s
    <2>6. conn'.producer = conn.producer /\ conn'.buf = <<>> /\ <<>> \in Seq(bytes)
      BY <1>2, <1>20, EmptySeq DEF End, ConnOK, Conns
    <2> QED
      BY <1>18, <1>20, <2>5, <2>6 DEF End
  <1>21. CASE Take
    <2>1. MirrorInv' /\ NotOlder(view'.screen, view.screen) /\ NotOlder(Latest, view'.screen)
      BY <1>21, MirrorTake
    <2>2. Latest' = Latest
      BY <1>21 DEF Take, Latest
    <2>3. Mirror!Show
      BY <2>1, <2>2 DEF Mirror!Show, NotOlder
    <2> QED
      BY <2>1, <2>3 DEF Mirror!Next
  <1>22. CASE Resume \/ Escape \/ Toggle
    <2>1. UNCHANGED <<conn, down>> /\ Latest' = Latest
      BY <1>22 DEF Resume, Escape, Toggle, Latest
    <2>2. view'.num = view.num /\ view'.screen = view.screen
      BY <1>2, <1>22 DEF Resume, Escape, Toggle, Views
    <2> QED
      BY <1>4, <1>6, <2>1, <2>2
  <1>23. CASE UNCHANGED vars
    <2>1. UNCHANGED <<conn, down, view>> /\ Latest' = Latest
      BY <1>23 DEF vars, Latest
    <2> QED
      BY <1>4, <1>6, <2>1
  <1> QED
    BY <1>7, <1>8, <1>12, <1>13, <1>14, <1>15, <1>19, <1>20, <1>21, <1>22, <1>23 DEF Next

\* The viewport shows only screens the source had and never goes back, however
\* frames are replaced in the buffer, refused and repaired, with coalescing
\* on, off or toggled (client.rs:742-866, daemon.rs:938-1051).
THEOREM MirrorCorrect == Spec => MirrorSpec
  <1>1. Init => Mirror!Init
    BY DEF Init, Mirror!Init, Latest, Blank
  <1>2. Shapes /\ MirrorInv /\ [Next]_vars => MirrorInv' /\ [Mirror!Next]_<<Latest, view.screen>>
    BY MirrorStep
  <1> QED
    BY <1>1, <1>2, ShapesInit, ShapesStep, MirrorInit, PTL DEF Spec, MirrorSpec, Mirror!Spec

-----------------------------------------------------------------------------
(* Nothing is lost.  First what holds of the daemon's side: once the        *)
(* viewport is attached, the newest frame is of the newest screen.          *)

FreshConn(c, latest) ==
    /\ c.producer.num > 0
    /\ \A f \in c.producer.sent : f.num = c.producer.num => f.screen = latest

\* Nothing goes out before the viewport is attached.
Virgin ==
    /\ up # <<>> /\ Head(up) = InitMsg
    /\ conn.producer.num = 0 /\ conn.sb_floor = 0 /\ conn.sb_acked = 0
    /\ conn.buf = <<>> /\ down = <<>> /\ view.num = 0 /\ view.ring = <<>>

\* The daemon's side, and what the viewport does with its acknowledgements.
Served ==
    /\ ended => up = <<>> /\ conn.buf = <<>>
    /\ ~conn.framed /\ ~ended => Virgin
    /\ session.gen >= 1
    /\ Sent => FreshConn(conn, Latest)
    /\ ~toggled => (view.acks <=> conn.coalesce)
    /\ toggled => conn.coalesce
    /\ MaxOverlayRows = 0 => overlay.rows = 0

\* A frame leaves its screen the newest, ...
LEMMA FreshFrame ==
    ASSUME NEW c, ConnOK(c), NEW screen, NEW m \in Recs, NEW d, FrameStep(c, screen, m, d)
    PROVE  FreshConn(d, screen)
  <1>1. c.producer.num \in Nat /\ \A f \in c.producer.sent : f.num \in Nat /\ f.num <= c.producer.num
    BY DEF ConnOK, Conns, Producers, Holds, Slots
  <1>2. d.producer.num = c.producer.num + 1
    BY DEF FrameStep
  <1> QED
    BY <1>1, <1>2 DEF FreshConn, FrameStep

\* ... rows leave the screen of the frame before them, ...
LEMMA FreshRows ==
    ASSUME NEW c, ConnOK(c), NEW screen, FreshConn(c, screen), NEW of, NEW total,
           NEW m \in Recs, NEW f \in c.producer.sent, NEW d, RowsStep(c, of, total, m, f, d)
    PROVE  FreshConn(d, screen)
  <1>1. c.producer.num \in Nat /\ \A g \in c.producer.sent : g.num \in Nat /\ g.num <= c.producer.num
    BY DEF ConnOK, Conns, Producers, Holds, Slots
  <1>2. d.producer.num = c.producer.num + 1 /\ f.screen = screen
    BY DEF RowsStep, FreshConn
  <1> QED
    BY <1>1, <1>2 DEF FreshConn, RowsStep

\* ... and so does a broadcast of both.
LEMMA FreshBroadcast ==
    ASSUME NEW c, ConnOK(c), NEW screen, NEW of, NEW total, NEW alt, NEW k,
           Broadcasted(c, screen, of, total, alt, k)
    PROVE  FreshConn(k, screen) /\ k.framed = c.framed /\ k.coalesce = c.coalesce
  <1>1. PICK m \in Recs, d \in Conns :
           /\ FrameStep(c, screen, m, d)
           /\ \/ k = d
              \/ \E r \in Recs, f \in d.producer.sent : RowsStep(d, of, total, r, f, k)
    BY DEF Broadcasted
  <1>2. ConnOK(d) /\ d.framed = c.framed /\ d.coalesce = c.coalesce
    BY <1>1 DEF FrameStep
  <1>3. FreshConn(d, screen)
    BY <1>1, FreshFrame
  <1>4. ASSUME NEW r \in Recs, NEW f \in d.producer.sent, RowsStep(d, of, total, r, f, k)
        PROVE  FreshConn(k, screen) /\ k.framed = c.framed /\ k.coalesce = c.coalesce
    <2>1. FreshConn(k, screen)
      BY <1>2, <1>3, <1>4, FreshRows
    <2> QED
      BY <1>2, <1>4, <2>1 DEF RowsStep
  <1> QED
    BY <1>1, <1>2, <1>3, <1>4

\* An acknowledgement, up to its answer.
LEMMA HeardShape ==
    ASSUME NEW c, ConnOK(c), NEW m \in Acks
    PROVE  LET d == Heard(c, m)
           IN  /\ ConnOK(d)
               /\ d.framed = c.framed /\ d.coalesce = c.coalesce /\ d.off = m.off
               /\ d.sb_floor = c.sb_floor /\ d.buf = c.buf
               /\ d.producer.num = c.producer.num /\ d.producer.visible = c.producer.visible
               /\ \A f \in d.producer.sent : f \in c.producer.sent
               /\ \/ d.producer.acked = c.producer.acked /\ d.sb_acked = c.sb_acked
                  \/ /\ d.producer.acked = m.num /\ m.num <= c.producer.num
                     /\ \/ d.sb_acked = c.sb_acked
                        \/ \E f \in c.producer.sent : f.num = m.num /\ d.sb_acked = f.total
               /\ m.resync => d.producer.base = NoBase
  <1> DEFINE t == Toggled(c, m.off)
             a == Acked(t, m.num)
             d == Heard(c, m)
  <1>1. /\ ConnOK(t) /\ ConnOK(a) /\ ConnOK(d) /\ d = IF m.resync THEN DropBase(a) ELSE a
    BY HeardCases
  <1>2. m.off \in BOOLEAN /\ m.num \in Nat
    BY DEF Acks
  <1>3. /\ t.producer = c.producer /\ t.buf = c.buf /\ t.framed = c.framed
        /\ t.coalesce = c.coalesce /\ t.off = m.off
        /\ t.sb_floor = c.sb_floor /\ t.sb_acked = c.sb_acked
    BY <1>2, ToggledShape
  <1> HIDE DEF t
  <1>4. /\ a.producer.num = t.producer.num /\ a.producer.visible = t.producer.visible
        /\ \A f \in a.producer.sent : f \in t.producer.sent
        /\ a.framed = t.framed /\ a.coalesce = t.coalesce
        /\ a.off = t.off /\ a.sb_floor = t.sb_floor
        /\ a.buf = t.buf
    BY <1>1, <1>2, AckedShape
  <1>5. \/ a.producer.acked = t.producer.acked /\ a.sb_acked = t.sb_acked
        \/ /\ a.producer.acked = m.num /\ m.num <= t.producer.num
           /\ \/ a.sb_acked = t.sb_acked
              \/ \E f \in t.producer.sent : f.num = m.num /\ a.sb_acked = f.total
    <2>1. CASE m.num <= t.producer.acked \/ m.num > t.producer.num
      BY <1>1, <1>2, <2>1, AckedShape
    <2>2. CASE ~(m.num <= t.producer.acked \/ m.num > t.producer.num)
      <3> DEFINE k == m.num
      <3>1. t.producer.num \in Nat /\ t.producer.acked \in Nat
        BY <1>1 DEF ConnOK, Conns, Producers
      <3>2. k \in Nat /\ k > t.producer.acked /\ k <= t.producer.num
        BY <1>2, <2>2, <3>1
      <3>3. a = Acked(t, k)
        BY DEF a
      <3> HIDE DEF k
      <3>4. /\ Acked(t, k).producer.acked = k
            /\ \/ /\ Acked(t, k).producer.base = NoBase
                  /\ Acked(t, k).sb_acked = t.sb_acked
                  /\ \A f \in t.producer.sent : f.num # k
               \/ \E f \in t.producer.sent :
                     /\ f.num = k /\ Acked(t, k).producer.base = f.screen
                     /\ Acked(t, k).sb_acked =
                           IF f.total > t.sb_acked THEN f.total ELSE t.sb_acked
        BY <1>1, <3>2, AckedShape
      <3>5. /\ a.producer.acked = k
            /\ \/ a.sb_acked = t.sb_acked
               \/ \E f \in t.producer.sent : f.num = k /\ a.sb_acked = f.total
        BY <3>3, <3>4
      <3> QED
        BY <3>2, <3>5 DEF k
    <2> QED
      BY <2>1, <2>2
  <1> HIDE DEF a
  <1> DEFINE b == DropBase(a)
  <1>6. /\ b.producer.base = NoBase /\ b.producer.sent = a.producer.sent
        /\ b.producer.num = a.producer.num /\ b.producer.acked = a.producer.acked
        /\ b.producer.visible = a.producer.visible
        /\ b.framed = a.framed /\ b.coalesce = a.coalesce /\ b.off = a.off
        /\ b.sb_floor = a.sb_floor /\ b.sb_acked = a.sb_acked /\ b.buf = a.buf
    BY <1>1, DropBaseShape
  <1>7. d = IF m.resync THEN b ELSE a
    BY <1>1
  <1> HIDE DEF b, d
  <1>8. /\ d.framed = c.framed /\ d.coalesce = c.coalesce /\ d.off = m.off
        /\ d.sb_floor = c.sb_floor /\ d.buf = c.buf
        /\ d.producer.num = c.producer.num /\ d.producer.visible = c.producer.visible
        /\ \A f \in d.producer.sent : f \in c.producer.sent
    BY <1>3, <1>4, <1>6, <1>7
  <1>9. d.producer.acked = a.producer.acked /\ d.sb_acked = a.sb_acked
        /\ (m.resync => d.producer.base = NoBase)
    BY <1>6, <1>7
  <1> QED
    BY <1>1, <1>3, <1>5, <1>8, <1>9 DEF d

\* The connection a step of the daemon's starts from: ...
Starts(c) ==
    \/ c = conn
    \/ c = DropBase(conn)
    \/ ~conn.framed /\ c = Attached(conn, session.rows)
    \/ conn.coalesce /\ up # <<>> /\ Head(up) \in Acks /\ c = Heard(conn, Head(up))

\* ... and what it queues: a frame with the rows of its source, a frame, or
\* nothing, before the viewport is attached or with nothing new to show.
Answers(c) ==
    \/ c.framed /\ Broadcasted(c, Latest', SourceOf', SourceTotal', SourceAlt', conn')
    \/ /\ c.framed /\ \E m \in Recs : FrameStep(c, Latest', m, conn')
       /\ UNCHANGED <<session, overlay>>
    \/ conn' = c /\ ~c.framed /\ UNCHANGED up
    \/ /\ conn' = c /\ Latest' = Latest /\ (Sent' => Sent) /\ (c.framed \/ up' = up)
       /\ overlay'.up \/ UNCHANGED <<session, overlay>>

Daemon ==
    \/ \E scrolls, alt \in BOOLEAN : Output(scrolls, alt)
    \/ \E scrolls \in BOOLEAN : OverlayOutput(scrolls)
    \/ CloseOverlay \/ HearInit \/ HearShell \/ HearAck

\* Every step of the daemon is such an answer.
LEMMA DaemonCases ==
    ASSUME Shapes, Served, Daemon
    PROVE  /\ ~ended /\ UNCHANGED <<down, view, toggled, ended>>
           /\ up' = up \/ (up # <<>> /\ up' = Tail(up))
           /\ \E c : /\ ConnOK(c) /\ Starts(c) /\ Answers(c)
                     /\ \/ up' = up \/ Head(up).kind # "ack" \/ ~conn.coalesce
                        \/ ~Head(up).resync \/ \E m \in Recs : FrameStep(c, Latest', m, conn')
  <1>1. Shapes'
    <2>1. [Next]_vars
      BY DEF Daemon, Next
    <2> QED
      BY <2>1, ShapesStep
  <1>2. /\ Sources /\ Sources' /\ ConnOK(conn) /\ up \in Seq(Msgs)
        /\ session.rows \in Nat
    BY <1>1 DEF Shapes, Sources, Msgs
  <1> DEFINE dropped == DropBase(conn)
  <1>3. ConnOK(dropped) /\ dropped.framed = conn.framed
    BY <1>2, DropBaseShape
  <1>4. ASSUME NEW c, ConnOK(c), Broadcast(c)
        PROVE  \/ c.framed /\ Broadcasted(c, Latest', SourceOf', SourceTotal', SourceAlt', conn')
               \/ conn' = c /\ ~c.framed
    BY <1>2, <1>4, BroadcastCases
  <1>5. ASSUME NEW scrolls \in BOOLEAN, NEW alt \in BOOLEAN, Output(scrolls, alt)
        PROVE  /\ ~ended /\ UNCHANGED <<down, view, toggled, ended, up>>
               /\ Starts(conn) /\ Answers(conn)
    <2>1. ~ended /\ UNCHANGED <<overlay, epoch, down, up, view, toggled, ended>>
          /\ IF overlay.up THEN conn' = conn ELSE Broadcast(conn)
      BY <1>5 DEF Output
    <2>2. CASE overlay.up
      <3>1. Latest' = Latest /\ overlay'.up /\ conn' = conn
        BY <2>1, <2>2 DEF Latest
      <3> QED
        BY <2>1, <2>2, <3>1 DEF Starts, Answers, Sent
    <2>3. CASE ~overlay.up
      BY <1>2, <1>4, <2>1, <2>3 DEF Starts, Answers
    <2> QED
      BY <2>2, <2>3
  <1>6. ASSUME NEW scrolls \in BOOLEAN, OverlayOutput(scrolls)
        PROVE  /\ ~ended /\ UNCHANGED <<down, view, toggled, ended, up>>
               /\ Starts(conn) /\ Answers(conn)
    BY <1>2, <1>4, <1>6 DEF OverlayOutput, Starts, Answers
  <1>7. CASE CloseOverlay
    <2>1. /\ ~ended /\ UNCHANGED <<down, view, toggled, ended, up>> /\ Broadcast(dropped)
      BY <1>7 DEF CloseOverlay
    <2>2. Starts(dropped)
      BY DEF Starts
    <2> HIDE DEF dropped
    <2>3. Answers(dropped)
      BY <1>3, <1>4, <2>1 DEF Answers
    <2> QED
      BY <1>3, <2>1, <2>2, <2>3
  <1>8. up # <<>> => ~ended
    BY DEF Served
  <1>9. up # <<>> /\ Head(up) # InitMsg => conn.framed
    BY <1>8 DEF Served, Virgin
  <1>10. CASE HearInit
    <2> DEFINE a == Attached(conn, session.rows)
               c == IF conn.framed THEN conn ELSE a
    <2>1. ConnOK(a) /\ a.framed
      BY <1>2, AttachedShape
    <2>2. /\ up # <<>> /\ Head(up) = InitMsg /\ up' = Tail(up)
          /\ UNCHANGED <<session, overlay, epoch, down, view, toggled, ended>>
          /\ IF session.gen > 1 \/ overlay.up THEN Request(c) ELSE conn' = c
      BY <1>10 DEF HearInit, Attached
    <2>3. ConnOK(c) /\ Starts(c) /\ c.framed
      BY <1>2, <2>1 DEF Starts
    <2>4. Latest' = Latest
      BY <2>2 DEF Latest
    <2> HIDE DEF a, c
    <2>5. Answers(c)
      <3>1. CASE session.gen > 1 \/ overlay.up
        <4>1. \E m \in Recs : FrameStep(c, Latest, m, conn')
          BY <1>2, <2>2, <2>3, <3>1, RequestCases
        <4> QED
          BY <2>2, <2>3, <2>4, <4>1 DEF Answers
      <3>2. CASE ~(session.gen > 1 \/ overlay.up)
        <4>1. conn' = c /\ ~Sent'
          BY <2>2, <3>2 DEF Sent
        <4> QED
          BY <2>2, <2>3, <2>4, <4>1 DEF Answers
      <3> QED
        BY <3>1, <3>2
    <2>6. Head(up).kind # "ack"
      BY <2>2 DEF InitMsg
    <2> QED
      BY <1>8, <2>2, <2>3, <2>5, <2>6
  <1>11. CASE HearShell
    <2>1. /\ up # <<>> /\ Head(up) = ShellMsg /\ up' = Tail(up)
          /\ UNCHANGED <<session, down, view, toggled, ended>>
          /\ IF overlay.up THEN UNCHANGED <<overlay, epoch, conn>> ELSE Broadcast(dropped)
      BY <1>11 DEF HearShell
    <2>2. Head(up).kind # "ack" /\ conn.framed
      BY <1>9, <2>1 DEF ShellMsg, InitMsg
    <2>3. CASE overlay.up
      <3>1. Starts(conn)
        BY DEF Starts
      <3>2. Answers(conn)
        <4>1. conn' = conn /\ Latest' = Latest /\ UNCHANGED <<session, overlay>>
          BY <2>1, <2>3 DEF Latest
        <4> QED
          BY <2>2, <4>1 DEF Answers, Sent
      <3> QED
        BY <1>2, <1>8, <2>1, <2>2, <3>1, <3>2
    <2>4. CASE ~overlay.up
      <3>1. Starts(dropped)
        BY DEF Starts
      <3> HIDE DEF dropped
      <3>2. Answers(dropped)
        BY <1>3, <1>4, <2>1, <2>2, <2>4 DEF Answers
      <3> QED
        BY <1>3, <1>8, <2>1, <2>2, <3>1, <3>2
    <2> QED
      BY <2>3, <2>4
  <1>12. CASE HearAck
    <2> DEFINE m == Head(up)
               h == Heard(conn, m)
    <2>1. /\ up # <<>> /\ m.kind = "ack" /\ up' = Tail(up)
          /\ UNCHANGED <<session, overlay, epoch, down, view, toggled, ended>>
          /\ IF ~conn.coalesce THEN conn' = conn
             ELSE IF m.resync THEN Request(h) ELSE conn' = h
      BY <1>12 DEF HearAck
    <2>2. m \in Acks /\ conn.framed
      BY <1>2, <1>9, <2>1, HeadMsg DEF InitMsg
    <2>3. Latest' = Latest
      BY <2>1 DEF Latest
    <2>4. ConnOK(h) /\ h.framed = conn.framed
      BY <1>2, <2>2, HeardShape
    <2>5. CASE ~conn.coalesce
      <3>1. Starts(conn)
        BY DEF Starts
      <3>2. Answers(conn)
        BY <2>1, <2>2, <2>3, <2>5 DEF Answers, Sent
      <3> QED
        BY <1>2, <1>8, <2>1, <2>5, <3>1, <3>2
    <2>6. CASE conn.coalesce
      <3>1. Starts(h)
        BY <2>1, <2>2, <2>6 DEF Starts
      <3> HIDE DEF h
      <3>2. ASSUME m.resync PROVE \E r \in Recs : FrameStep(h, Latest', r, conn')
        <4>1. Request(h)
          BY <2>1, <2>6, <3>2
        <4> QED
          BY <1>2, <2>3, <2>4, <4>1, RequestCases
      <3>3. Answers(h)
        <4>1. CASE m.resync
          BY <2>1, <2>2, <2>4, <3>2, <4>1 DEF Answers
        <4>2. CASE ~m.resync
          <5>1. conn' = h
            BY <2>1, <2>6, <4>2
          <5>2. Sent' => Sent
            BY <2>1, <2>4, <5>1 DEF Sent
          <5> QED
            BY <2>1, <2>2, <2>3, <2>4, <5>1, <5>2 DEF Answers
        <4> QED
          BY <4>1, <4>2
      <3> QED
        BY <1>8, <2>1, <2>4, <3>1, <3>2, <3>3
    <2> QED
      BY <2>5, <2>6
  <1> QED
    BY <1>2, <1>5, <1>6, <1>7, <1>10, <1>11, <1>12 DEF Daemon

\* What the daemon starts from has the buffer, the numbers and the slots as
\* they were; only an Init moves the floor, only an Ack what is confirmed.
LEMMA StartsShape ==
    ASSUME Shapes, NEW c, Starts(c)
    PROVE  /\ c.buf = conn.buf /\ c.producer.num = conn.producer.num
           /\ c.producer.visible = conn.producer.visible
           /\ \A f \in c.producer.sent : f \in conn.producer.sent
           /\ c.coalesce = conn.coalesce /\ (~conn.coalesce => c.off = conn.off)
           /\ (conn.framed \/ ~c.framed) => c.framed = conn.framed /\ c.sb_floor = conn.sb_floor
           /\ ~conn.coalesce \/ Head(up) = InitMsg =>
                 c.sb_acked = conn.sb_acked /\ c.producer.acked = conn.producer.acked
  <1>1. /\ ConnOK(conn) /\ session.rows \in Nat
    BY DEF Shapes
  <1>2. CASE c = conn
    BY <1>2
  <1>3. CASE c = DropBase(conn)
    BY <1>1, <1>3, DropBaseShape
  <1>4. CASE ~conn.framed /\ c = Attached(conn, session.rows)
    BY <1>1, <1>4, AttachedShape
  <1>5. CASE conn.coalesce /\ Head(up) \in Acks /\ c = Heard(conn, Head(up))
    <2> DEFINE m == Head(up)
    <2>1. m \in Acks /\ c = Heard(conn, m) /\ Head(up) # InitMsg
      BY <1>5 DEF Acks, InitMsg
    <2> HIDE DEF m
    <2>2. /\ c.buf = conn.buf /\ c.producer.num = conn.producer.num
          /\ c.producer.visible = conn.producer.visible
          /\ \A f \in c.producer.sent : f \in conn.producer.sent
          /\ c.coalesce = conn.coalesce /\ c.framed = conn.framed
          /\ c.sb_floor = conn.sb_floor
      BY <1>1, <2>1, HeardShape
    <2> QED
      BY <1>5, <2>1, <2>2
  <1> QED
    BY <1>2, <1>3, <1>4, <1>5 DEF Starts

\* The daemon has attached nobody at the start.
LEMMA ServedInit == Init => Served
  <1> SUFFICES ASSUME Init PROVE Served
    OBVIOUS
  <1>1. PICK coalesce \in BOOLEAN :
           /\ conn = NewConn(coalesce)
           /\ view = [num |-> 0, screen |-> Blank, ring |-> <<>>, acks |-> coalesce,
                      exited |-> FALSE]
    BY DEF Init
  <1>2. /\ up = <<InitMsg>> /\ down = <<>> /\ ~ended /\ ~toggled
        /\ session = [gen |-> 1, rows |-> 0, alt |-> FALSE]
        /\ overlay = [up |-> FALSE, gen |-> 0, rows |-> 0]
    BY DEF Init
  <1>3. /\ ~conn.framed /\ conn.producer.num = 0 /\ conn.sb_floor = 0 /\ conn.sb_acked = 0
        /\ conn.buf = <<>> /\ conn.coalesce = coalesce
    BY <1>1 DEF NewConn, NewProducer
  <1>4. up # <<>> /\ Head(up) = InitMsg
    BY <1>2
  <1> QED
    BY <1>1, <1>2, <1>3, <1>4 DEF Served, Virgin, Sent

\* A step of the daemon leaves the newest frame of the newest screen, ...
LEMMA ServedDaemon ==
    ASSUME Shapes, Served, Daemon
    PROVE  Served'
  <1>1. Shapes'
    <2>1. [Next]_vars
      BY DEF Daemon, Next
    <2> QED
      BY <2>1, ShapesStep
  <1>2. ConnOK(conn) /\ Sources /\ Sources' /\ MaxOverlayRows \in Nat
    BY <1>1, LocalBounds DEF Shapes, Sources, LocalBounds
  <1>3. /\ ~ended /\ UNCHANGED <<down, view, toggled, ended>>
        /\ up' = up \/ (up # <<>> /\ up' = Tail(up))
    BY DaemonCases
  <1>4. PICK c : ConnOK(c) /\ Starts(c) /\ Answers(c)
    BY DaemonCases
  <1>5. /\ c.buf = conn.buf /\ c.producer.num = conn.producer.num
        /\ \A f \in c.producer.sent : f \in conn.producer.sent
        /\ c.coalesce = conn.coalesce
        /\ conn.framed \/ ~c.framed => c.framed = conn.framed /\ c.sb_floor = conn.sb_floor
        /\ Head(up) = InitMsg => c.sb_acked = conn.sb_acked
    BY <1>4, StartsShape DEF Shapes
  <1>6. /\ Sent' => FreshConn(conn', Latest')
        /\ conn'.framed = c.framed /\ conn'.coalesce = conn.coalesce
        /\ ~c.framed => conn' = c /\ up' = up
    <2>1. CASE c.framed /\ Broadcasted(c, Latest', SourceOf', SourceTotal', SourceAlt', conn')
      BY <1>4, <1>5, <2>1, FreshBroadcast
    <2>2. CASE c.framed /\ \E m \in Recs : FrameStep(c, Latest', m, conn')
      <3>1. PICK m \in Recs : FrameStep(c, Latest', m, conn')
        BY <2>2
      <3>2. FreshConn(conn', Latest')
        BY <1>4, <3>1, FreshFrame
      <3> QED
        BY <1>5, <2>2, <3>1, <3>2 DEF FrameStep
    <2>3. CASE conn' = c /\ ~c.framed /\ UNCHANGED up
      BY <1>5, <2>3 DEF Sent
    <2>4. CASE conn' = c /\ Latest' = Latest /\ (Sent' => Sent) /\ (c.framed \/ up' = up)
      <3>1. Sent' => FreshConn(conn, Latest)
        BY <2>4 DEF Served
      <3> QED
        BY <1>5, <2>4, <3>1 DEF FreshConn
    <2> QED
      BY <1>4, <2>1, <2>2, <2>3, <2>4 DEF Answers
  <1>7. ~conn'.framed => Virgin'
    <2> SUFFICES ASSUME ~conn'.framed PROVE Virgin'
      OBVIOUS
    <2>1. ~c.framed /\ conn' = c /\ up' = up /\ ~conn.framed
      BY <1>5, <1>6
    <2>2. Virgin
      BY <1>3, <2>1 DEF Served
    <2>3. Head(up) = InitMsg
      BY <2>2 DEF Virgin
    <2> QED
      BY <1>3, <1>5, <2>1, <2>2, <2>3 DEF Virgin
  <1>8. session'.gen >= 1
    <2>1. session' = session \/ session'.gen = session.gen + 1
      <3>1. ASSUME NEW scrolls \in BOOLEAN, NEW alt \in BOOLEAN, Output(scrolls, alt)
            PROVE  session'.gen = session.gen + 1
        BY <3>1 DEF Output
      <3>2. CASE (\E scrolls \in BOOLEAN : OverlayOutput(scrolls)) \/ CloseOverlay \/ HearInit
                 \/ HearShell \/ HearAck
        BY <3>2 DEF OverlayOutput, CloseOverlay, HearInit, HearShell, HearAck
      <3> QED
        BY <3>1, <3>2 DEF Daemon
    <2> QED
      BY <1>2, <2>1 DEF Served, Sources
  <1>9. MaxOverlayRows = 0 => overlay'.rows = 0
    <2> SUFFICES ASSUME MaxOverlayRows = 0 PROVE overlay'.rows = 0
      OBVIOUS
    <2>1. overlay.rows = 0
      BY DEF Served
    <2>2. ASSUME NEW scrolls \in BOOLEAN, OverlayOutput(scrolls) PROVE overlay'.rows = 0
      BY <1>2, <2>1, <2>2 DEF OverlayOutput, Sources
    <2>3. CASE CloseOverlay
      BY <1>2, <2>1, <2>3 DEF CloseOverlay, Sources
    <2>4. CASE HearShell
      BY <2>1, <2>4 DEF HearShell
    <2>5. CASE (\E scrolls, alt \in BOOLEAN : Output(scrolls, alt)) \/ HearInit \/ HearAck
      BY <2>1, <2>5 DEF Output, HearInit, HearAck
    <2> QED
      BY <2>2, <2>3, <2>4, <2>5 DEF Daemon
  <1> QED
    BY <1>3, <1>6, <1>7, <1>8, <1>9 DEF Served

\* ... and no other step touches either.
LEMMA ServedStep ==
    ASSUME Shapes, Served, [Next]_vars
    PROVE  Served'
  <1>1. /\ ConnOK(conn) /\ up \in Seq(Msgs) /\ down \in Seq(ByteSet) /\ view \in Views
        /\ toggled \in BOOLEAN /\ LocalBounds
    BY LocalBounds DEF Shapes, Msgs
  <1>2. CASE Daemon
    BY <1>2, ServedDaemon
  <1>3. ASSUME UNCHANGED <<session, overlay, epoch, toggled>>, view'.acks = view.acks,
               conn'.producer = conn.producer, conn'.framed = conn.framed,
               conn'.coalesce = conn.coalesce, ended' => up' = <<>> /\ conn'.buf = <<>>,
               ~conn'.framed /\ ~ended' => Virgin'
        PROVE  Served'
    <2>1. Latest' = Latest /\ Sent' = Sent
      BY <1>3 DEF Latest, Sent
    <2>2. FreshConn(conn, Latest) => FreshConn(conn', Latest')
      BY <1>3, <2>1 DEF FreshConn
    <2> QED
      BY <1>3, <2>1, <2>2 DEF Served
  <1>4. ASSUME NEW n \in 1 .. SockCap, Drain(n)
        PROVE  Served'
    <2>1. conn.buf \in Seq(ByteSet) /\ Len(conn.buf) \in Nat
      BY <1>1, LenProperties DEF ConnOK, Conns
    <2>2. n \in 1 .. Len(conn.buf)
      BY <1>4, <2>1, LocalBounds DEF Drain, LocalBounds
    <2>3. conn' = Drained(conn, n)
      BY <1>1, <1>4 DEF Drain, Drained, ConnOK, Conns
    <2>4. /\ conn'.producer = conn.producer /\ conn'.framed = conn.framed
          /\ conn'.coalesce = conn.coalesce
      BY <1>1, <2>2, <2>3, DrainedShape
    <2>5. conn.framed
      <3>1. conn.buf # <<>>
        BY <2>2, EmptySeq
      <3> QED
        BY <1>4, <3>1 DEF Drain, Served, Virgin
    <2>6. ~ended' /\ UNCHANGED <<session, overlay, epoch, toggled, view>>
      BY <1>4 DEF Drain
    <2> QED
      BY <1>3, <2>4, <2>5, <2>6
  <1>5. ASSUME NEW n \in 0 .. Len(conn.buf) + 2, End(n)
        PROVE  Served'
    <2>1. conn' = Closed(conn)
      BY <1>5 DEF End, Closed
    <2>2. /\ conn'.producer = conn.producer /\ conn'.framed = conn.framed
          /\ conn'.coalesce = conn.coalesce /\ conn'.buf = <<>>
      BY <1>1, <2>1, ClosedShape
    <2>3. ended' /\ up' = <<>> /\ UNCHANGED <<session, overlay, epoch, toggled, view>>
      BY <1>5 DEF End
    <2> QED
      BY <1>3, <2>2, <2>3
  <1>6. CASE Take
    <2>1. Len(down) >= 2 /\ UNCHANGED <<session, overlay, epoch, conn, toggled, ended>>
      BY <1>6 DEF Take
    <2>2. view'.acks = view.acks
      BY <1>1, <1>6 DEF Take, Shown, Views
    <2>3. up' = up \/ ~ended
      BY <1>6 DEF Take
    <2>4. conn.framed \/ ended
      BY <2>1, EmptySeq DEF Served, Virgin
    <2>5. ended' => up' = <<>> /\ conn'.buf = <<>>
      BY <2>1, <2>3 DEF Served
    <2> QED
      BY <1>3, <2>1, <2>2, <2>4, <2>5
  <1>7. ASSUME NEW m \in Msgs, up' = Append(up, m), ~ended, ~ended', UNCHANGED <<conn, down>>,
               view'.num = view.num, view'.ring = view.ring
        PROVE  ~conn'.framed /\ ~ended' => Virgin'
    <2> SUFFICES ASSUME ~conn.framed PROVE Virgin'
      BY <1>7
    <2>1. Virgin
      BY <1>7 DEF Served
    <2>2. up # <<>> /\ Head(up) = InitMsg
      BY <2>1 DEF Virgin
    <2>3. up' # <<>> /\ Head(up') = Head(up)
      <3>1. Len(up) \in Nat /\ Len(up) # 0
        BY <1>1, <2>2, LenProperties, EmptySeq
      <3>2. Len(up') = Len(up) + 1 /\ \A i \in 1 .. Len(up) : up'[i] = up[i]
        BY <1>1, <1>7, AppendProperties
      <3>3. up'[1] = up[1] /\ Len(up') # 0
        BY <3>1, <3>2
      <3> QED
        BY <3>3, EmptySeq
    <2> QED
      BY <1>7, <2>1, <2>2, <2>3 DEF Virgin
  <1>8. CASE Resume \/ Escape
    <2>1. PICK m \in {InitMsg, ShellMsg} : up' = Append(up, m)
      BY <1>8 DEF Resume, Escape
    <2>2. m \in Msgs
      BY DEF Msgs
    <2>3. ~ended /\ UNCHANGED <<session, overlay, epoch, conn, down, view, toggled, ended>>
      BY <1>8 DEF Resume, Escape
    <2>4. ~conn'.framed /\ ~ended' => Virgin'
      BY <1>7, <2>1, <2>2, <2>3
    <2> QED
      BY <1>3, <2>3, <2>4
  <1>9. CASE Toggle
    <2>1. /\ ~ended /\ conn.coalesce /\ toggled'
          /\ UNCHANGED <<session, overlay, epoch, conn, down, ended>>
          /\ up' = Append(up, Ack(0, FALSE, view.acks))
      BY <1>9 DEF Toggle
    <2>2. Ack(0, FALSE, view.acks) \in Msgs
      BY <1>1 DEF Ack, Acks, Views, Msgs
    <2>3. view'.num = view.num /\ view'.ring = view.ring
      BY <1>1, <1>9 DEF Toggle, Views
    <2>4. ~conn'.framed /\ ~ended' => Virgin'
      BY <1>7, <2>1, <2>2, <2>3
    <2>5. Latest' = Latest /\ Sent' = Sent
      BY <2>1 DEF Latest, Sent
    <2> QED
      BY <2>1, <2>4, <2>5 DEF Served
  <1>10. CASE UNCHANGED vars
    BY <1>3, <1>10 DEF vars, Served, Virgin
  <1> QED
    BY <1>2, <1>4, <1>5, <1>6, <1>8, <1>9, <1>10 DEF Next, Daemon

-----------------------------------------------------------------------------
(* The stream: the bytes of the socket, then those of the buffer.           *)

Size(s, b) == Len(s) + Len(b)
Byte(s, b, i) == IF i <= Len(s) THEN s[i] ELSE b[i - Len(s)]

\* q is p with the record m behind it.
Onto(q, p, m) == q = p \o Bytes(m)

\* A record behind a prefix of the buffer.
LEMMA ByteQueue ==
    ASSUME NEW s \in Seq(ByteSet), NEW b \in Seq(ByteSet), NEW p \in Seq(ByteSet),
           Len(p) <= Len(b), \A i \in 1 .. Len(p) : p[i] = b[i], NEW m \in Recs,
           NEW q, Onto(q, p, m)
    PROVE  /\ Len(s) \in Nat /\ Len(b) \in Nat /\ Len(p) \in Nat
           /\ Size(s, q) = Len(s) + Len(p) + 2
           /\ \A i \in 1 .. Len(s) + Len(p) : Byte(s, q, i) = Byte(s, b, i)
           /\ Byte(s, q, Len(s) + Len(p) + 1) = <<m, 1>>
           /\ Byte(s, q, Len(s) + Len(p) + 2) = <<m, 2>>
  <1>1. Len(s) \in Nat /\ Len(b) \in Nat /\ Len(p) \in Nat
    BY LenProperties
  <1> DEFINE w == Bytes(m)
             t == p \o w
             k == Len(p)
             h == Len(s)
  <1>2. w \in Seq(ByteSet) /\ Len(w) = 2 /\ w[1] = <<m, 1>> /\ w[2] = <<m, 2>>
    BY BytesType
  <1> HIDE DEF w
  <1>3. /\ Len(t) = Len(p) + Len(w)
        /\ \A i \in 1 .. Len(p) + Len(w) : t[i] = IF i <= Len(p) THEN p[i] ELSE w[i - Len(p)]
    <2>1. p \in Seq(ByteSet) /\ w \in Seq(ByteSet)
      BY <1>2
    <2> QED
      BY ONLY <2>1, ConcatProperties
  <1> HIDE DEF t
  <1>4. /\ Len(t) = k + 2 /\ \A i \in 1 .. k : t[i] = b[i]
        /\ t[k + 1] = <<m, 1>> /\ t[k + 2] = <<m, 2>>
    <2>1. k \in Nat /\ k = Len(p) /\ \A i \in 1 .. k : p[i] = b[i]
      BY <1>1
    <2> HIDE DEF k
    <2>2. Len(t) = k + 2
      BY <1>2, <1>3, <2>1
    <2>3. \A i \in 1 .. k : t[i] = p[i]
      BY <1>2, <1>3, <2>1
    <2>4. t[k + 1] = w[1] /\ t[k + 2] = w[2]
      BY <1>2, <1>3, <2>1
    <2> QED
      BY <1>2, <2>1, <2>2, <2>3, <2>4
  <1>5. q = t
    BY DEF Onto, t, w
  <1> HIDE DEF t, k, h
  <1>6. h \in Nat /\ k \in Nat /\ h = Len(s) /\ k = Len(p)
    BY <1>1 DEF h, k
  <1>7. Size(s, q) = h + k + 2
    <2>1. Len(q) = k + 2
      BY <1>4, <1>5
    <2>2. h + (k + 2) = h + k + 2
      BY <1>6
    <2> QED
      BY <1>6, <2>1, <2>2, Zenon DEF Size
  <1>8. ASSUME NEW i \in 1 .. h + k PROVE Byte(s, q, i) = Byte(s, b, i)
    <2>1. CASE i <= h
      BY <1>6, <2>1 DEF Byte
    <2>2. CASE ~(i <= h)
      <3>1. i - h \in 1 .. k
        BY <1>6, <2>2
      <3> QED
        BY <1>4, <1>5, <1>6, <2>2, <3>1 DEF Byte
    <2> QED
      BY <2>1, <2>2
  <1>9. Byte(s, q, h + k + 1) = <<m, 1>> /\ Byte(s, q, h + k + 2) = <<m, 2>>
    <2>1. h + k + 1 - h = k + 1 /\ h + k + 2 - h = k + 2
          /\ ~(h + k + 1 <= h) /\ ~(h + k + 2 <= h)
      BY <1>6
    <2> QED
      BY <1>4, <1>5, <1>6, <2>1 DEF Byte
  <1> QED
    BY <1>1, <1>6, <1>7, <1>8, <1>9

\* The stream as d leaves it: the first `at` bytes of the stream of c, and m.
Puts(s, c, d, at, m) ==
    /\ at \in Nat /\ Size(s, d.buf) = at + 2
    /\ \A i \in 1 .. at : Byte(s, d.buf, i) = Byte(s, c.buf, i)
    /\ Byte(s, d.buf, at + 1) = <<m, 1>> /\ Byte(s, d.buf, at + 2) = <<m, 2>>

\* A frame is put where the buffer is cut, ...
LEMMA PutsFrame ==
    ASSUME NEW c, ConnOK(c), NEW s \in Seq(ByteSet),
           NEW screen, NEW m \in Recs, NEW d, FrameStep(c, screen, m, d)
    PROVE  /\ Puts(s, c, d, Len(s) + Cut(c), m)
           /\ Len(s) + Cut(c) <= Size(s, c.buf)
           /\ ~Coalescing(c) => Len(s) + Cut(c) = Size(s, c.buf)
  <1> DEFINE p == SubSeq(c.buf, 1, Cut(c))
  <1>1. c.buf \in Seq(ByteSet) /\ Len(s) \in Nat
    BY LenProperties DEF ConnOK, Conns
  <1>2. Len(c.buf) \in Nat /\ Cut(c) \in 0 .. Len(c.buf)
    BY CutAt
  <1>3. p \in Seq(ByteSet) /\ Len(p) = Cut(c) /\ \A i \in 1 .. Cut(c) : p[i] = c.buf[i]
    BY <1>1, <1>2, Prefixes
  <1>4. Onto(d.buf, p, m)
    BY DEF FrameStep, Onto
  <1> DEFINE b == c.buf
             q == d.buf
  <1> HIDE DEF p
  <1>5. /\ Size(s, d.buf) = Len(s) + Len(p) + 2
        /\ \A i \in 1 .. Len(s) + Len(p) : Byte(s, d.buf, i) = Byte(s, c.buf, i)
        /\ Byte(s, d.buf, Len(s) + Len(p) + 1) = <<m, 1>>
        /\ Byte(s, d.buf, Len(s) + Len(p) + 2) = <<m, 2>>
    <2>1. Len(p) <= Len(b) /\ \A i \in 1 .. Len(p) : p[i] = b[i]
      BY <1>2, <1>3
    <2>2. s \in Seq(ByteSet) /\ b \in Seq(ByteSet) /\ p \in Seq(ByteSet) /\ Onto(q, p, m)
          /\ m \in Recs
      BY <1>1, <1>3, <1>4
    <2> HIDE DEF b, q
    <2>3. /\ Size(s, q) = Len(s) + Len(p) + 2
          /\ \A i \in 1 .. Len(s) + Len(p) : Byte(s, q, i) = Byte(s, b, i)
          /\ Byte(s, q, Len(s) + Len(p) + 1) = <<m, 1>>
          /\ Byte(s, q, Len(s) + Len(p) + 2) = <<m, 2>>
      BY ONLY <2>1, <2>2, ByteQueue
    <2> QED
      BY <2>3 DEF b, q
  <1>6. ~Coalescing(c) => Cut(c) = Len(c.buf)
    BY DEF Cut
  <1> QED
    BY <1>1, <1>2, <1>3, <1>5, <1>6 DEF Puts, Size

\* ... and rows at the end.
LEMMA PutsRows ==
    ASSUME NEW c, ConnOK(c), NEW s \in Seq(ByteSet),
           NEW of, NEW total, NEW m \in Recs, NEW f, NEW d, RowsStep(c, of, total, m, f, d)
    PROVE  Puts(s, c, d, Size(s, c.buf), m)
  <1>1. c.buf \in Seq(ByteSet) /\ Len(s) \in Nat /\ Len(c.buf) \in Nat
    BY LenProperties DEF ConnOK, Conns
  <1>2. Onto(d.buf, c.buf, m)
    BY DEF RowsStep, Onto
  <1>3. /\ Size(s, d.buf) = Len(s) + Len(c.buf) + 2
        /\ \A i \in 1 .. Len(s) + Len(c.buf) : Byte(s, d.buf, i) = Byte(s, c.buf, i)
        /\ Byte(s, d.buf, Len(s) + Len(c.buf) + 1) = <<m, 1>>
        /\ Byte(s, d.buf, Len(s) + Len(c.buf) + 2) = <<m, 2>>
    <2> DEFINE b == c.buf
               q == d.buf
    <2>1. /\ s \in Seq(ByteSet) /\ b \in Seq(ByteSet) /\ Onto(q, b, m) /\ m \in Recs
          /\ Len(b) <= Len(b) /\ \A i \in 1 .. Len(b) : b[i] = b[i]
      BY <1>1, <1>2
    <2> HIDE DEF b, q
    <2>2. /\ Size(s, q) = Len(s) + Len(b) + 2
          /\ \A i \in 1 .. Len(s) + Len(b) : Byte(s, q, i) = Byte(s, b, i)
          /\ Byte(s, q, Len(s) + Len(b) + 1) = <<m, 1>>
          /\ Byte(s, q, Len(s) + Len(b) + 2) = <<m, 2>>
      BY ONLY <2>1, ByteQueue
    <2> QED
      BY <2>2 DEF b, q
  <1> QED
    BY <1>1, <1>3 DEF Puts, Size

\* What is drained stays where it is in the stream, ...
LEMMA ByteDrain ==
    ASSUME NEW s \in Seq(ByteSet), NEW b \in Seq(ByteSet), NEW n \in 0 .. Len(b)
    PROVE  LET t == s \o SubSeq(b, 1, n)
               d == SubSeq(b, n + 1, Len(b))
           IN  /\ Size(t, d) = Size(s, b)
               /\ \A i \in 1 .. Size(s, b) : Byte(t, d, i) = Byte(s, b, i)
  <1> DEFINE p == SubSeq(b, 1, n)
             d == SubSeq(b, n + 1, Len(b))
             t == s \o p
             h == Len(s)
  <1>1. Len(b) \in Nat /\ h \in Nat
    BY LenProperties
  <1>2. p \in Seq(ByteSet) /\ Len(p) = n /\ \A i \in 1 .. n : p[i] = b[i]
    BY Prefixes
  <1>3. /\ d \in Seq(ByteSet) /\ Len(d) = Len(b) - n
        /\ \A i \in 1 .. Len(b) - n : d[i] = b[n + i]
    BY Suffixes
  <1> HIDE DEF p, d
  <1>4. /\ Len(t) = Len(s) + Len(p)
        /\ \A i \in 1 .. Len(s) + Len(p) : t[i] = IF i <= Len(s) THEN s[i] ELSE p[i - Len(s)]
    BY <1>2, ConcatProperties
  <1>5. /\ Len(t) = h + n
        /\ \A i \in 1 .. h + n : t[i] = IF i <= h THEN s[i] ELSE p[i - h]
    BY <1>2, <1>4
  <1> HIDE DEF t
  <1>6. h = Len(s)
    OBVIOUS
  <1> HIDE DEF h
  <1>7. Size(t, d) = Size(s, b)
    BY <1>1, <1>3, <1>5, <1>6 DEF Size
  <1>8. ASSUME NEW i \in 1 .. Size(s, b) PROVE Byte(t, d, i) = Byte(s, b, i)
    <2>1. i \in 1 .. h + Len(b)
      BY <1>6 DEF Size
    <2>2. CASE i <= h
      BY <1>1, <1>5, <1>6, <2>1, <2>2 DEF Byte
    <2>3. CASE ~(i <= h) /\ i <= h + n
      <3>1. i - h \in 1 .. n /\ i \in 1 .. h + n
        BY <1>1, <2>1, <2>3
      <3> QED
        BY <1>2, <1>5, <1>6, <2>3, <3>1 DEF Byte
    <2>4. CASE ~(i <= h + n)
      <3>1. /\ i - (h + n) \in 1 .. Len(b) - n /\ n + (i - (h + n)) = i - h /\ ~(i <= h)
        BY <1>1, <2>1, <2>4
      <3>2. d[i - (h + n)] = b[i - h]
        BY <1>3, <3>1
      <3> QED
        BY <1>5, <1>6, <2>4, <3>1, <3>2 DEF Byte
    <2> QED
      BY <2>2, <2>3, <2>4
  <1> QED
    BY <1>7, <1>8 DEF t, p, d

\* ... and the viewport takes the first record.
LEMMA ByteTake ==
    ASSUME NEW s \in Seq(ByteSet), NEW b \in Seq(ByteSet), Len(s) >= 2,
           NEW t \in Seq(ByteSet), Len(t) = Len(s) - 2,
           \A i \in 1 .. Len(s) - 2 : t[i] = s[2 + i]
    PROVE  /\ Size(t, b) \in Nat /\ Size(s, b) = Size(t, b) + 2
           /\ \A i \in 1 .. Size(t, b) : Byte(t, b, i) = Byte(s, b, i + 2)
           /\ Byte(s, b, 1) = s[1] /\ Byte(s, b, 2) = s[2]
  <1> DEFINE h == Len(s)
  <1>1. Len(b) \in Nat /\ h \in Nat /\ h = Len(s) /\ h >= 2 /\ Len(t) = h - 2
    BY LenProperties
  <1>2. \A i \in 1 .. h - 2 : t[i] = s[i + 2]
    <2> SUFFICES ASSUME NEW i \in 1 .. h - 2 PROVE t[i] = s[i + 2]
      OBVIOUS
    <2>1. t[i] = s[2 + i] /\ 2 + i = i + 2
      OBVIOUS
    <2> QED
      BY <2>1
  <1> HIDE DEF h
  <1>3. ASSUME NEW i \in 1 .. Size(t, b) PROVE Byte(t, b, i) = Byte(s, b, i + 2)
    <2>1. i \in 1 .. (h - 2) + Len(b)
      BY <1>1 DEF Size
    <2>2. CASE i <= h - 2
      <3>1. i \in 1 .. h - 2 /\ i + 2 <= h
        BY <1>1, <2>1, <2>2
      <3> QED
        BY <1>1, <1>2, <2>2, <3>1 DEF Byte
    <2>3. CASE ~(i <= h - 2)
      <3>1. ~(i + 2 <= h) /\ i + 2 - h = i - (h - 2)
        BY <1>1, <2>1, <2>3
      <3> QED
        BY <1>1, <2>3, <3>1 DEF Byte
    <2> QED
      BY <2>2, <2>3
  <1> QED
    BY <1>1, <1>3 DEF Size, Byte

\* What the daemon leaves as it ends is the stream, or part of it, and Exit.
LEMMA ByteEnd ==
    ASSUME NEW c, ConnOK(c), NEW s \in Seq(ByteSet), NEW n \in 0 .. Len(c.buf) + 2
    PROVE  LET t == s \o SubSeq(c.buf \o Bytes(Exit), 1, n)
           IN  /\ t \in Seq(ByteSet)
               /\ \A i \in 1 .. Size(t, <<>>) :
                     IF i <= Size(s, c.buf) THEN Byte(t, <<>>, i) = Byte(s, c.buf, i)
                     ELSE Byte(t, <<>>, i)[1] = Exit
  <1> DEFINE w == SubSeq(c.buf \o Bytes(Exit), 1, n)
             t == s \o w
             b == c.buf
             h == Len(s)
             l == Len(b)
  <1>1. h \in Nat /\ l \in Nat /\ h = Len(s) /\ l = Len(b)
    BY LenProperties DEF ConnOK, Conns
  <1>2. /\ w \in Seq(ByteSet) /\ Len(w) = n
        /\ \A i \in 1 .. n : IF i <= l THEN w[i] = b[i] ELSE w[i][1] = Exit
    BY EndBytes
  <1> HIDE DEF w
  <1>3. /\ t \in Seq(ByteSet) /\ Len(t) = Len(s) + Len(w)
        /\ \A i \in 1 .. Len(s) + Len(w) : t[i] = IF i <= Len(s) THEN s[i] ELSE w[i - Len(s)]
    BY <1>2, ConcatProperties
  <1>4. /\ Len(t) = h + n
        /\ \A i \in 1 .. h + n : t[i] = IF i <= h THEN s[i] ELSE w[i - h]
    BY <1>2, <1>3
  <1> HIDE DEF t, b, h, l
  <1>5. Size(t, <<>>) = h + n /\ Size(s, b) = h + l
    BY <1>1, <1>4 DEF Size
  <1>6. ASSUME NEW i \in 1 .. h + n
        PROVE  IF i <= h + l THEN Byte(t, <<>>, i) = Byte(s, b, i)
               ELSE Byte(t, <<>>, i)[1] = Exit
    <2>1. Byte(t, <<>>, i) = t[i]
      BY <1>1, <1>4 DEF Byte
    <2>2. CASE i <= h
      BY <1>1, <1>4, <2>1, <2>2 DEF Byte
    <2>3. CASE ~(i <= h)
      <3>1. i - h \in 1 .. n /\ (i - h <= l <=> i <= h + l)
        BY <1>1, <2>3
      <3>2. t[i] = w[i - h]
        BY <1>4, <2>3
      <3>3. Byte(s, b, i) = b[i - h]
        BY <1>1, <2>3 DEF Byte
      <3> QED
        BY <1>2, <2>1, <3>1, <3>2, <3>3
    <2> QED
      BY <2>2, <2>3
  <1>7. \A i \in 1 .. Size(t, <<>>) :
           IF i <= Size(s, b) THEN Byte(t, <<>>, i) = Byte(s, b, i)
           ELSE Byte(t, <<>>, i)[1] = Exit
    BY <1>5, <1>6
  <1> QED
    BY <1>3, <1>7 DEF t, w, b

-----------------------------------------------------------------------------
(* A viewport that is confirmed by the daemon takes every number in turn:   *)
(* the records of the stream have those it has not taken, in order, and     *)
(* Exit is behind the last.                                                 *)

Numbered(r, n, last) ==
    IF n > last THEN r.kind = "exit"
    ELSE /\ r.kind # "exit" /\ r.num = n
         /\ r.kind \in {"diff", "rows"} => r.base = n - 1

\* The viewport is at number v; the daemon has left if fin.
Exact(c, s, v, fin) ==
    /\ c.producer.acked = c.producer.num /\ v <= c.producer.num
    /\ ~fin => Size(s, c.buf) = 2 * (c.producer.num - v)
    /\ \A k \in Nat : 2 * k + 1 <= Size(s, c.buf) =>
          Numbered(Byte(s, c.buf, 2 * k + 1)[1], v + k + 1, c.producer.num)

ExactInv ==
    ~conn.coalesce =>
        /\ Exact(conn, down, view.num, ended)
        /\ view.exited => ended /\ view.num = conn.producer.num

\* The next number behind the stream.
LEMMA ExactPut ==
    ASSUME NEW c, c.producer.num \in Nat, NEW s, NEW v \in Nat, Exact(c, s, v, FALSE),
           NEW m, Numbered(m, c.producer.num + 1, c.producer.num + 1),
           NEW d, Puts(s, c, d, Size(s, c.buf), m),
           d.producer.num = c.producer.num + 1, d.producer.acked = d.producer.num
    PROVE  Exact(d, s, v, FALSE)
  <1> DEFINE n == c.producer.num
             z == Size(s, c.buf)
  <1>1. n \in Nat /\ d.producer.num = n + 1 /\ d.producer.acked = n + 1
    OBVIOUS
  <1>2. v <= n /\ z = 2 * (n - v)
    BY DEF Exact
  <1>3. \A k \in Nat : 2 * k + 1 <= z => Numbered(Byte(s, c.buf, 2 * k + 1)[1], v + k + 1, n)
    BY DEF Exact
  <1>4. /\ Size(s, d.buf) = z + 2
        /\ \A i \in 1 .. z : Byte(s, d.buf, i) = Byte(s, c.buf, i)
        /\ Byte(s, d.buf, z + 1) = <<m, 1>>
    BY DEF Puts
  <1> HIDE DEF n, z
  <1>5. ASSUME NEW k \in Nat, 2 * k + 1 <= z + 2
        PROVE  Numbered(Byte(s, d.buf, 2 * k + 1)[1], v + k + 1, n + 1)
    <2>1. CASE 2 * k + 1 <= z
      <3>1. 2 * k + 1 \in 1 .. z /\ v + k + 1 <= n
        BY <1>1, <1>2, <2>1
      <3>2. Byte(s, d.buf, 2 * k + 1) = Byte(s, c.buf, 2 * k + 1)
        BY <1>4, <3>1
      <3>3. Numbered(Byte(s, c.buf, 2 * k + 1)[1], v + k + 1, n)
        BY <1>3, <2>1
      <3> QED
        BY <1>1, <3>1, <3>2, <3>3 DEF Numbered
    <2>2. CASE ~(2 * k + 1 <= z)
      <3>1. k = n - v /\ 2 * k + 1 = z + 1 /\ v + k + 1 = n + 1
        BY <1>1, <1>2, <1>5, <2>2
      <3>2. Numbered(m, n + 1, n + 1)
        BY DEF n
      <3> QED
        BY <1>4, <3>1, <3>2
    <2> QED
      BY <2>1, <2>2
  <1>6. v <= n + 1 /\ z + 2 = 2 * (n + 1 - v)
    BY <1>1, <1>2
  <1> QED
    BY <1>1, <1>4, <1>5, <1>6 DEF Exact

\* A frame has it, ...
LEMMA ExactFrame ==
    ASSUME NEW c, ConnOK(c), ~c.coalesce, NEW s \in Seq(ByteSet), NEW v \in Nat,
           Exact(c, s, v, FALSE), NEW screen, NEW m \in Recs, NEW d, FrameStep(c, screen, m, d)
    PROVE  Exact(d, s, v, FALSE) /\ ConnOK(d) /\ ~d.coalesce /\ d.producer.visible = d.producer.num
  <1>1. c.producer.num \in Nat
    BY DEF ConnOK, Conns, Producers
  <1>2. ~Coalescing(c)
    BY DEF Coalescing
  <1>3. Puts(s, c, d, Size(s, c.buf), m)
    BY <1>2, PutsFrame
  <1>4. /\ d.producer.num = c.producer.num + 1 /\ d.producer.acked = d.producer.num
        /\ m.num = c.producer.num + 1 /\ m.kind \in {"full", "diff"}
        /\ m.kind = "diff" => m.base = c.producer.num
        /\ ConnOK(d) /\ ~d.coalesce /\ d.producer.visible = d.producer.num
    BY <1>2 DEF FrameStep, Exact
  <1>5. Numbered(m, c.producer.num + 1, c.producer.num + 1)
    BY <1>1, <1>4 DEF Numbered
  <1> QED
    BY <1>1, <1>3, <1>4, <1>5, ExactPut

\* ... and so have the rows behind it.
LEMMA ExactRows ==
    ASSUME NEW c, ConnOK(c), ~c.coalesce, NEW s \in Seq(ByteSet), NEW v \in Nat,
           Exact(c, s, v, FALSE), c.producer.visible = c.producer.num,
           NEW of, NEW total, NEW m \in Recs, NEW f, NEW d, RowsStep(c, of, total, m, f, d)
    PROVE  Exact(d, s, v, FALSE)
  <1>1. c.producer.num \in Nat
    BY DEF ConnOK, Conns, Producers
  <1>2. ~Coalescing(c)
    BY DEF Coalescing
  <1>3. Puts(s, c, d, Size(s, c.buf), m)
    BY PutsRows
  <1>4. /\ d.producer.num = c.producer.num + 1 /\ d.producer.acked = d.producer.num
        /\ m.num = c.producer.num + 1 /\ m.kind = "rows" /\ m.base = c.producer.num
    BY <1>2 DEF RowsStep
  <1>5. Numbered(m, c.producer.num + 1, c.producer.num + 1)
    BY <1>1, <1>4 DEF Numbered
  <1> QED
    BY <1>1, <1>3, <1>4, <1>5, ExactPut

\* What a connection says to it is its numbers and its buffer.
LEMMA ExactSame ==
    ASSUME NEW c, NEW s, NEW v, NEW fin, Exact(c, s, v, fin),
           NEW d, d.producer.num = c.producer.num, d.producer.acked = c.producer.acked,
           NEW t, Size(t, d.buf) = Size(s, c.buf),
           \A i \in 1 .. Size(s, c.buf) : Byte(t, d.buf, i) = Byte(s, c.buf, i),
           Size(s, c.buf) \in Nat
    PROVE  Exact(d, t, v, fin)
  <1>1. ASSUME NEW k \in Nat, 2 * k + 1 <= Size(s, c.buf)
        PROVE  Byte(t, d.buf, 2 * k + 1) = Byte(s, c.buf, 2 * k + 1)
    <2>1. 2 * k + 1 \in 1 .. Size(s, c.buf)
      BY <1>1
    <2> QED
      BY <2>1
  <1> QED
    BY <1>1 DEF Exact

\* A step of the daemon keeps the numbers in turn.
LEMMA ExactDaemon ==
    ASSUME Shapes, Served, ExactInv, Daemon
    PROVE  ExactInv'
  <1>1. /\ ConnOK(conn) /\ down \in Seq(ByteSet) /\ view.num \in Nat
    BY DEF Shapes, Views
  <1>2. ~ended /\ UNCHANGED <<down, view, ended>>
    BY DaemonCases
  <1>3. PICK c : ConnOK(c) /\ Starts(c) /\ Answers(c)
    BY DaemonCases
  <1>4. /\ c.buf = conn.buf /\ c.producer.num = conn.producer.num
        /\ c.coalesce = conn.coalesce
        /\ ~conn.coalesce => c.producer.acked = conn.producer.acked
    BY <1>3, StartsShape
  <1>5. conn'.coalesce = conn.coalesce /\ (~conn.coalesce => Exact(conn', down, view.num, FALSE))
    <2>1. ~conn.coalesce => Exact(c, down, view.num, FALSE)
      BY <1>2, <1>4 DEF ExactInv, Exact
    <2>2. ASSUME Broadcasted(c, Latest', SourceOf', SourceTotal', SourceAlt', conn')
          PROVE  conn'.coalesce = conn.coalesce
                 /\ (~conn.coalesce => Exact(conn', down, view.num, FALSE))
      <3>1. PICK m \in Recs, d \in Conns :
               /\ FrameStep(c, Latest', m, d)
               /\ \/ conn' = d
                  \/ \E r \in Recs, f \in d.producer.sent :
                        RowsStep(d, SourceOf', SourceTotal', r, f, conn')
        BY <2>2 DEF Broadcasted
      <3>2. conn'.coalesce = d.coalesce /\ d.coalesce = c.coalesce
        BY <3>1 DEF FrameStep, RowsStep
      <3>3. ASSUME ~conn.coalesce PROVE Exact(conn', down, view.num, FALSE)
        <4>1. Exact(d, down, view.num, FALSE) /\ ConnOK(d) /\ ~d.coalesce
              /\ d.producer.visible = d.producer.num
          <5>1. FrameStep(c, Latest', m, d) /\ ~c.coalesce /\ Exact(c, down, view.num, FALSE)
                /\ ConnOK(c)
            BY <1>3, <1>4, <2>1, <3>1, <3>3
          <5> DEFINE scr == Latest'
                     v == view.num
          <5> HIDE DEF scr, v
          <5>2. FrameStep(c, scr, m, d) /\ Exact(c, down, v, FALSE) /\ v \in Nat
                /\ down \in Seq(ByteSet) /\ m \in Recs /\ ~c.coalesce /\ ConnOK(c)
            BY <1>1, <5>1 DEF scr, v
          <5>3. Exact(d, down, v, FALSE) /\ ConnOK(d) /\ ~d.coalesce
                /\ d.producer.visible = d.producer.num
            BY ONLY <5>2, ExactFrame
          <5> QED
            BY <5>3 DEF v
        <4> QED
          BY <1>1, <3>1, <4>1, ExactRows
      <3> QED
        BY <1>4, <3>2, <3>3
    <2>3. ASSUME NEW m \in Recs, FrameStep(c, Latest', m, conn')
          PROVE  conn'.coalesce = conn.coalesce
                 /\ (~conn.coalesce => Exact(conn', down, view.num, FALSE))
      <3>1. conn'.coalesce = c.coalesce
        BY <2>3 DEF FrameStep
      <3>2. ASSUME ~conn.coalesce PROVE Exact(conn', down, view.num, FALSE)
        BY <1>1, <1>3, <1>4, <2>1, <2>3, <3>2, ExactFrame
      <3> QED
        BY <1>4, <3>1, <3>2
    <2> QED
      BY <1>3, <1>4, <2>1, <2>2, <2>3 DEF Answers
  <1>6. ended = FALSE /\ ended' = FALSE /\ view'.num = view.num /\ view'.exited = view.exited
    BY <1>2 DEF Shapes
  <1> QED
    BY <1>2, <1>5, <1>6 DEF ExactInv

\* The viewport takes the next number, or reads Exit behind the last.
LEMMA ExactTake ==
    ASSUME Shapes, Served, ExactInv, Take
    PROVE  ExactInv'
  <1> SUFFICES ASSUME ~conn.coalesce
               PROVE  /\ Exact(conn, down', view'.num, ended)
                      /\ view'.exited => ended /\ view'.num = conn.producer.num
    <2>1. UNCHANGED <<conn, ended>>
      BY DEF Take
    <2> QED
      BY <2>1 DEF ExactInv
  <1> DEFINE r == down[1][1]
             n == conn.producer.num
             v == view.num
             b == conn.buf
             z == Size(down', b)
  <1>1. /\ n \in Nat /\ v \in Nat /\ view \in Views /\ b \in Seq(ByteSet)
        /\ down \in Seq(ByteSet) /\ Len(down) >= 2
    BY DEF Shapes, ConnOK, Conns, Producers, Views, Take
  <1>2. /\ z \in Nat /\ Size(down, b) = z + 2
        /\ \A i \in 1 .. z : Byte(down', b, i) = Byte(down, b, i + 2)
        /\ Byte(down, b, 1) = down[1]
    <2>1. /\ down' \in Seq(ByteSet) /\ Len(down') = Len(down) - 2
          /\ \A i \in 1 .. Len(down) - 2 : down'[i] = down[2 + i]
      BY TakeShape
    <2> QED
      BY <1>1, <2>1, ByteTake
  <1>3. /\ conn.producer.acked = n /\ v <= n
        /\ ~ended => z + 2 = 2 * (n - v)
        /\ \A k \in Nat : 2 * k + 1 <= z + 2 =>
              Numbered(Byte(down, b, 2 * k + 1)[1], v + k + 1, n)
    BY <1>2 DEF ExactInv, Exact
  <1>4. Numbered(r, v + 1, n)
    <2>1. 0 \in Nat /\ 2 * 0 + 1 <= z + 2 /\ 2 * 0 + 1 = 1 /\ v + 0 + 1 = v + 1
      BY <1>1, <1>2
    <2> QED
      BY <1>2, <1>3, <2>1
  <1> HIDE DEF r, z
  <1>5. ASSUME NEW k \in Nat, 2 * k + 1 <= z
        PROVE  Numbered(Byte(down', b, 2 * k + 1)[1], v + 1 + k + 1, n)
    <2>0. v \in Nat /\ z \in Nat
      BY <1>1, <1>2
    <2> HIDE DEF v, n, b
    <2>1. /\ 2 * k + 1 \in 1 .. z /\ k + 1 \in Nat /\ 2 * (k + 1) + 1 <= z + 2
          /\ 2 * k + 1 + 2 = 2 * (k + 1) + 1 /\ v + 1 + k + 1 = v + (k + 1) + 1
      BY <1>5, <2>0
    <2> QED
      BY <1>2, <1>3, <2>1
  <1>6. CASE v + 1 > n
    <2>1. r.kind = "exit" /\ v = n
      BY <1>1, <1>3, <1>4, <1>6 DEF Numbered
    <2>2. view' = [view EXCEPT !.exited = TRUE]
      BY <2>1 DEF Take, r
    <2>3. view'.num = v
      BY <1>1, <2>2 DEF Views
    <2>4. ended
      BY <1>1, <1>2, <1>3, <2>1
    <2>5. ASSUME NEW k \in Nat, 2 * k + 1 <= z
          PROVE  Numbered(Byte(down', b, 2 * k + 1)[1], v + k + 1, n)
      BY <1>1, <1>5, <2>1, <2>5 DEF Numbered
    <2>6. Exact(conn, down', v, ended)
      BY <1>3, <2>4, <2>5 DEF Exact, z
    <2> QED
      BY <2>1, <2>3, <2>4, <2>6
  <1>7. CASE ~(v + 1 > n)
    <2>1. /\ r.kind # "exit" /\ r.num = v + 1
          /\ r.kind \in {"diff", "rows"} => r.base = v
      BY <1>1, <1>4, <1>7 DEF Numbered
    <2>2. Fits(r)
      BY <1>1, <2>1 DEF Fits
    <2>3. view' = Shown(r)
      BY <2>1 DEF Take, r
    <2>4. view'.num = v + 1 /\ view'.exited = view.exited
      BY <1>1, <2>1, <2>2, <2>3 DEF Shown, Views
    <2>5. ~view.exited
      BY DEF Take
    <2>6. ~ended => z = 2 * (n - (v + 1))
      <3>1. v \in Nat /\ n \in Nat /\ z \in Nat /\ (~ended => z + 2 = 2 * (n - v))
        BY <1>1, <1>2, <1>3
      <3> HIDE DEF v, n
      <3> QED
        BY <3>1
    <2>7. v + 1 <= n
      BY <1>1, <1>7
    <2>8. Exact(conn, down', v + 1, ended)
      BY <1>3, <1>5, <2>6, <2>7 DEF Exact, z
    <2> QED
      BY <2>4, <2>5, <2>8
  <1> QED
    BY <1>6, <1>7

\* Every step keeps the numbers in turn.
LEMMA ExactStep ==
    ASSUME Shapes, Served, ExactInv, [Next]_vars
    PROVE  ExactInv'
  <1>1. /\ ConnOK(conn) /\ down \in Seq(ByteSet) /\ view \in Views /\ ended \in BOOLEAN
        /\ conn.buf \in Seq(ByteSet) /\ conn.producer.num \in Nat /\ view.num \in Nat
    BY DEF Shapes, ConnOK, Conns, Producers, Views
  <1>2. Len(conn.buf) \in Nat /\ Len(down) \in Nat /\ Size(down, conn.buf) \in Nat
    <2>1. Len(conn.buf) \in Nat /\ Len(down) \in Nat
      BY <1>1, LenProperties
    <2> QED
      BY <2>1 DEF Size
  <1>3. CASE Daemon
    BY <1>3, ExactDaemon
  <1>4. ASSUME NEW n \in 1 .. SockCap, Drain(n)
        PROVE  ExactInv'
    <2>1. n \in 1 .. Len(conn.buf) /\ n \in 0 .. Len(conn.buf)
      BY <1>2, <1>4, LocalBounds DEF Drain, LocalBounds
    <2>2. conn' = Drained(conn, n) /\ UNCHANGED <<view, ended>>
      BY <1>1, <1>4 DEF Drain, Drained, ConnOK, Conns
    <2>3. /\ conn'.producer = conn.producer /\ conn'.coalesce = conn.coalesce
          /\ conn'.buf = SubSeq(conn.buf, n + 1, Len(conn.buf))
      BY <1>1, <2>1, <2>2, DrainedShape
    <2>4. /\ Size(down', conn'.buf) = Size(down, conn.buf)
          /\ \A i \in 1 .. Size(down, conn.buf) :
                Byte(down', conn'.buf, i) = Byte(down, conn.buf, i)
      <3> DEFINE t == down \o SubSeq(conn.buf, 1, n)
                 d == SubSeq(conn.buf, n + 1, Len(conn.buf))
      <3>1. /\ Size(t, d) = Size(down, conn.buf)
            /\ \A i \in 1 .. Size(down, conn.buf) : Byte(t, d, i) = Byte(down, conn.buf, i)
        BY <1>1, <2>1, ByteDrain
      <3>2. down' = t /\ conn'.buf = d
        BY <1>4, <2>3 DEF Drain
      <3> HIDE DEF t, d
      <3> QED
        BY <3>1, <3>2
    <2>5. ~conn.coalesce => Exact(conn', down', view.num, ended)
      BY <1>2, <2>3, <2>4, ExactSame DEF ExactInv
    <2> QED
      BY <2>2, <2>3, <2>5 DEF ExactInv
  <1>5. ASSUME NEW n \in 0 .. Len(conn.buf) + 2, End(n)
        PROVE  ExactInv'
    <2> SUFFICES ASSUME ~conn.coalesce
                 PROVE  /\ Exact(conn', down', view.num, TRUE) /\ ~view.exited
      <3>1. conn'.coalesce = conn.coalesce
        BY <1>1, <1>5, ClosedShape DEF End, Closed
      <3>2. view' = view /\ ended' = TRUE
        BY <1>5 DEF End
      <3> QED
        BY <3>1, <3>2 DEF ExactInv
    <2>1. /\ conn'.producer = conn.producer /\ conn'.buf = <<>>
      BY <1>1, <1>5, ClosedShape DEF End, Closed
    <2>2. /\ down' \in Seq(ByteSet)
          /\ \A i \in 1 .. Size(down', <<>>) :
                IF i <= Size(down, conn.buf) THEN Byte(down', <<>>, i) = Byte(down, conn.buf, i)
                ELSE Byte(down', <<>>, i)[1] = Exit
      <3> DEFINE t == down \o SubSeq(conn.buf \o Bytes(Exit), 1, n)
      <3>1. /\ t \in Seq(ByteSet)
            /\ \A i \in 1 .. Size(t, <<>>) :
                  IF i <= Size(down, conn.buf) THEN Byte(t, <<>>, i) = Byte(down, conn.buf, i)
                  ELSE Byte(t, <<>>, i)[1] = Exit
        BY <1>1, ByteEnd
      <3>2. down' = t
        BY <1>5 DEF End
      <3> HIDE DEF t
      <3> QED
        BY <3>1, <3>2
    <2> DEFINE l == conn.producer.num
               v == view.num
               z == Size(down, conn.buf)
    <2>3. /\ conn.producer.acked = l /\ v <= l /\ ~ended /\ z = 2 * (l - v)
          /\ \A k \in Nat : 2 * k + 1 <= z =>
                Numbered(Byte(down, conn.buf, 2 * k + 1)[1], v + k + 1, l)
          /\ ~view.exited
      BY <1>5 DEF ExactInv, Exact, End
    <2>4. l \in Nat /\ v \in Nat /\ z \in Nat
      BY <1>1, <1>2
    <2> HIDE DEF z
    <2>5. ASSUME NEW k \in Nat, 2 * k + 1 <= Size(down', <<>>)
          PROVE  Numbered(Byte(down', <<>>, 2 * k + 1)[1], v + k + 1, l)
      <3>1. 2 * k + 1 \in 1 .. Size(down', <<>>)
        <4>1. Size(down', <<>>) \in Nat
          <5>1. Len(down') \in Nat /\ Len(<<>>) = 0
            BY <2>2, LenProperties, EmptySeq
          <5> QED
            BY <5>1 DEF Size
        <4> QED
          BY <2>5, <4>1
      <3>2. CASE 2 * k + 1 <= z
        BY <2>2, <2>3, <3>1, <3>2 DEF z
      <3>3. CASE ~(2 * k + 1 <= z)
        <4>1. Byte(down', <<>>, 2 * k + 1)[1] = Exit
          BY <2>2, <3>1, <3>3 DEF z
        <4>2. v + k + 1 > l
          BY <2>3, <2>4, <3>3
        <4> QED
          BY <4>1, <4>2 DEF Numbered, Exit
      <3> QED
        BY <3>2, <3>3
    <2>6. Exact(conn', down', v, TRUE)
      BY <2>1, <2>3, <2>5 DEF Exact
    <2> QED
      BY <2>3, <2>6
  <1>6. CASE Take
    BY <1>6, ExactTake
  <1>7. CASE Resume \/ Escape
    BY <1>7 DEF Resume, Escape, ExactInv
  <1>8. CASE Toggle
    BY <1>8 DEF Toggle, ExactInv
  <1>9. CASE UNCHANGED vars
    BY <1>9 DEF vars, ExactInv
  <1> QED
    BY <1>3, <1>4, <1>5, <1>6, <1>7, <1>8, <1>9 DEF Next, Daemon

\* Nothing is sent at the start.
LEMMA ExactInit == Init => ExactInv
  <1> SUFFICES ASSUME Init PROVE ExactInv
    OBVIOUS
  <1>1. /\ conn.producer = NewProducer /\ conn.buf = <<>> /\ down = <<>> /\ ~view.exited
        /\ view.num = 0
    BY DEF Init, NewConn
  <1>2. conn.producer.num = 0 /\ conn.producer.acked = 0
    BY <1>1 DEF NewProducer
  <1>3. Size(down, conn.buf) = 0
    <2>1. Len(<<>>) = 0
      BY EmptySeq
    <2> QED
      BY <1>1, <2>1 DEF Size
  <1>4. \A k \in Nat : ~(2 * k + 1 <= 0)
    OBVIOUS
  <1> QED
    BY <1>1, <1>2, <1>3, <1>4 DEF ExactInv, Exact

-----------------------------------------------------------------------------
(* A viewport that coalesces: no diff is of a base it has not reached, and  *)
(* until it is at the newest frame either that frame is on its way or the   *)
(* daemon is asked for another.                                             *)

Coal(c, s, v) ==
    /\ \E h \in Nat : Size(s, c.buf) = 2 * h
    /\ c.producer.acked <= v
    /\ \A i \in 1 .. Size(s, c.buf) :
          Byte(s, c.buf, i)[1].kind = "diff" => Byte(s, c.buf, i)[1].base <= v

Newest(r, c) == r.kind \in {"full", "diff"} /\ r.num = c.producer.visible
Renews(c, s) ==
    \E k \in Nat : 2 * k + 1 <= Size(s, c.buf) /\ Newest(Byte(s, c.buf, 2 * k + 1)[1], c)

Resyncs(u) == \E i \in 1 .. Len(u) : u[i].kind = "ack" /\ u[i].resync
Timely(u, v) == \A i \in 1 .. Len(u) : u[i].kind = "ack" => u[i].num <= v

CoalInv ==
    conn.coalesce /\ ~toggled /\ ~ended =>
        /\ Coal(conn, down, view.num) /\ Timely(up, view.num)
        /\ \/ view.num >= conn.producer.visible
           \/ Renews(conn, down) \/ Resyncs(up)

\* A record at the end of the stream, or in place of the last.
LEMMA CoalPut ==
    ASSUME NEW c, NEW s, NEW v \in Nat, Coal(c, s, v), NEW at,
           at = Size(s, c.buf) \/ at = Size(s, c.buf) - 2,
           NEW m, m.kind = "diff" => m.base <= v,
           NEW d, Puts(s, c, d, at, m), d.producer.acked <= v
    PROVE  /\ Coal(d, s, v)
           /\ Newest(m, d) => Renews(d, s)
           /\ at = Size(s, c.buf) /\ d.producer.visible = c.producer.visible
              /\ Renews(c, s) => Renews(d, s)
  <1> DEFINE z == Size(s, c.buf)
  <1>1. PICK h \in Nat : z = 2 * h
    BY DEF Coal
  <1>2. /\ at \in Nat /\ Size(s, d.buf) = at + 2
        /\ \A i \in 1 .. at : Byte(s, d.buf, i) = Byte(s, c.buf, i)
        /\ Byte(s, d.buf, at + 1) = <<m, 1>> /\ Byte(s, d.buf, at + 2) = <<m, 2>>
    BY DEF Puts
  <1>3. at = z \/ at = z - 2
    OBVIOUS
  <1> HIDE DEF z
  <1>4. PICK k \in Nat : at = 2 * k
    <2> DEFINE k == IF at = z THEN h ELSE h - 1
    <2>1. k \in Nat /\ at = 2 * k
      BY <1>1, <1>2, <1>3
    <2> QED
      BY <2>1
  <1>5. \E j \in Nat : Size(s, d.buf) = 2 * j
    <2>1. k + 1 \in Nat /\ Size(s, d.buf) = 2 * (k + 1)
      BY <1>2, <1>4
    <2> QED
      BY <2>1
  <1>6. ASSUME NEW i \in 1 .. Size(s, d.buf), Byte(s, d.buf, i)[1].kind = "diff"
        PROVE  Byte(s, d.buf, i)[1].base <= v
    <2>1. i \in 1 .. at \/ i = at + 1 \/ i = at + 2
      BY <1>2
    <2>2. CASE i \in 1 .. at
      <3>1. i \in 1 .. z
        BY <1>1, <1>2, <1>3, <2>2
      <3>2. Byte(s, c.buf, i)[1].kind = "diff" => Byte(s, c.buf, i)[1].base <= v
        BY <3>1 DEF Coal, z
      <3> QED
        BY <1>2, <1>6, <2>2, <3>2
    <2>3. CASE i = at + 1 \/ i = at + 2
      <3>1. Byte(s, d.buf, i)[1] = m
        BY <1>2, <2>3
      <3> QED
        BY <1>6, <3>1
    <2> QED
      BY <2>1, <2>2, <2>3
  <1>7. Coal(d, s, v)
    BY <1>5, <1>6 DEF Coal
  <1>8. Newest(m, d) => Renews(d, s)
    <2> SUFFICES ASSUME Newest(m, d) PROVE Renews(d, s)
      OBVIOUS
    <2>1. 2 * k + 1 = at + 1 /\ 2 * k + 1 <= Size(s, d.buf)
      BY <1>2, <1>4
    <2>2. Byte(s, d.buf, 2 * k + 1)[1] = m
      BY <1>2, <2>1
    <2> QED
      BY <2>1, <2>2 DEF Renews
  <1>9. ASSUME at = z, d.producer.visible = c.producer.visible, Renews(c, s)
        PROVE  Renews(d, s)
    <2>1. PICK j \in Nat : 2 * j + 1 <= z /\ Newest(Byte(s, c.buf, 2 * j + 1)[1], c)
      BY <1>9 DEF Renews, z
    <2>2. 2 * j + 1 \in 1 .. at /\ 2 * j + 1 <= Size(s, d.buf)
      BY <1>2, <1>9, <2>1
    <2>3. Byte(s, d.buf, 2 * j + 1) = Byte(s, c.buf, 2 * j + 1)
      BY <1>2, <2>2
    <2>4. Newest(Byte(s, d.buf, 2 * j + 1)[1], d)
      BY <1>9, <2>1, <2>3 DEF Newest
    <2> QED
      BY <2>2, <2>4 DEF Renews
  <1> QED
    BY <1>7, <1>8, <1>9 DEF z

\* A frame is on its way, and a diff is of what is acknowledged, ...
LEMMA CoalFrame ==
    ASSUME NEW c, ConnOK(c), NEW s \in Seq(ByteSet), NEW v \in Nat, Coal(c, s, v),
           Coalescing(c), NEW screen, NEW m \in Recs, NEW d, FrameStep(c, screen, m, d)
    PROVE  Coal(d, s, v) /\ Renews(d, s) /\ ConnOK(d) /\ Coalescing(d)
  <1> DEFINE at == Len(s) + Cut(c)
  <1>1. Puts(s, c, d, at, m)
    BY PutsFrame
  <1>2. at = Size(s, c.buf) \/ at = Size(s, c.buf) - 2
    <2>1. Len(s) \in Nat /\ Len(c.buf) \in Nat /\ (Cut(c) = Len(c.buf) \/ Cut(c) = Len(c.buf) - 2)
      BY CutAt, LenProperties
    <2> QED
      BY <2>1 DEF Size
  <1>3. /\ d.producer.acked = c.producer.acked /\ d.producer.visible = m.num
        /\ m.kind \in {"full", "diff"} /\ (m.kind = "diff" => m.base = c.producer.acked)
        /\ ConnOK(d) /\ d.coalesce = c.coalesce /\ d.off = c.off
    BY DEF FrameStep
  <1>4. c.producer.acked <= v
    BY DEF Coal
  <1> HIDE DEF at
  <1>5. Newest(m, d)
    BY <1>3 DEF Newest
  <1>6. Coal(d, s, v) /\ Renews(d, s)
    <2>1. (m.kind = "diff" => m.base <= v) /\ d.producer.acked <= v
      BY <1>3, <1>4
    <2> QED
      BY <1>1, <1>2, <1>5, <2>1, CoalPut
  <1> QED
    BY <1>3, <1>6 DEF Coalescing

\* ... and rows leave it on its way.
LEMMA CoalRows ==
    ASSUME NEW c, ConnOK(c), NEW s \in Seq(ByteSet), NEW v \in Nat, Coal(c, s, v),
           Coalescing(c), Renews(c, s),
           NEW of, NEW total, NEW m \in Recs, NEW f, NEW d, RowsStep(c, of, total, m, f, d)
    PROVE  Coal(d, s, v) /\ Renews(d, s)
  <1>1. Puts(s, c, d, Size(s, c.buf), m)
    BY PutsRows
  <1>2. /\ d.producer.acked = c.producer.acked /\ d.producer.visible = c.producer.visible
        /\ m.kind = "rows"
    BY DEF RowsStep
  <1>3. c.producer.acked <= v
    BY DEF Coal
  <1>4. (m.kind = "diff" => m.base <= v) /\ d.producer.acked <= v
    BY <1>2, <1>3
  <1> QED
    BY <1>1, <1>2, <1>4, CoalPut

\* Both, for a broadcast.
LEMMA CoalBroadcasted ==
    ASSUME NEW c, ConnOK(c), NEW s \in Seq(ByteSet), NEW v \in Nat, Coal(c, s, v),
           Coalescing(c), NEW screen, NEW of, NEW total, NEW alt, NEW k,
           Broadcasted(c, screen, of, total, alt, k)
    PROVE  Coal(k, s, v) /\ Renews(k, s)
  <1>1. PICK m \in Recs, d \in Conns :
           /\ FrameStep(c, screen, m, d)
           /\ k = d \/ \E r \in Recs, f \in d.producer.sent : RowsStep(d, of, total, r, f, k)
    BY DEF Broadcasted
  <1>2. Coal(d, s, v) /\ Renews(d, s) /\ ConnOK(d) /\ Coalescing(d)
    <2>1. FrameStep(c, screen, m, d)
      BY <1>1
    <2> QED
      BY <2>1, CoalFrame
  <1>3. ASSUME NEW r \in Recs, NEW f \in d.producer.sent, RowsStep(d, of, total, r, f, k)
        PROVE  Coal(k, s, v) /\ Renews(k, s)
    BY <1>2, <1>3, CoalRows
  <1> QED
    BY <1>1, <1>2, <1>3

\* What the daemon starts from is acknowledged by the viewport as it stands.
LEMMA StartsCoal ==
    ASSUME Shapes, NEW c, Starts(c), NEW v \in Nat, conn.coalesce, ~conn.off, Untoggled,
           Timely(up, v), Coal(conn, down, v)
    PROVE  Coal(c, down, v) /\ Coalescing(c)
  <1>1. /\ ConnOK(conn) /\ session.rows \in Nat /\ up \in Seq(Msgs)
    BY DEF Shapes, Msgs
  <1>2. c.buf = conn.buf /\ c.coalesce = conn.coalesce
    BY StartsShape
  <1>3. conn.producer.acked <= v
    BY DEF Coal
  <1>4. c.producer.acked <= v /\ ~c.off
    <2>1. CASE c = conn
      BY <1>3, <2>1
    <2>2. CASE c = DropBase(conn)
      BY <1>1, <1>3, <2>2, DropBaseShape
    <2>3. CASE ~conn.framed /\ c = Attached(conn, session.rows)
      <3> DEFINE a == Attached(conn, session.rows)
      <3>1. a.producer = conn.producer /\ a.off = conn.off
        BY <1>1, AttachedShape
      <3> HIDE DEF a
      <3>2. c = a
        BY <2>3 DEF a
      <3> QED
        BY <1>3, <3>1, <3>2
    <2>4. CASE up # <<>> /\ Head(up) \in Acks /\ c = Heard(conn, Head(up))
      <3> DEFINE m == Head(up)
      <3>1. m \in Acks /\ c = Heard(conn, m)
        BY <2>4
      <3>2. m.kind = "ack" /\ ~m.off
        <4>1. Head(up).kind = "ack"
          BY <2>4 DEF Acks
        <4> QED
          BY <1>1, <2>4, <4>1, HeadUntoggled
      <3>3. m.num <= v
        <4>1. 1 \in 1 .. Len(up) /\ m = up[1]
          <5>1. Len(up) \in Nat \ {0} /\ Head(up) = up[1]
            BY <1>1, <2>4, EmptySeq
          <5> QED
            BY <5>1
        <4> QED
          BY <3>2, <4>1 DEF Timely
      <3> HIDE DEF m
      <3>4. /\ c.off = m.off
            /\ c.producer.acked = conn.producer.acked \/ c.producer.acked = m.num
        BY <1>1, <3>1, HeardShape
      <3> QED
        BY <1>3, <3>2, <3>3, <3>4
    <2> QED
      BY <2>1, <2>2, <2>3, <2>4 DEF Starts
  <1> QED
    BY <1>2, <1>4 DEF Coal, Coalescing

\* A message that is read leaves the others.
LEMMA TailHas ==
    ASSUME up \in Seq(Msgs), up # <<>>
    PROVE  /\ \A v : Timely(up, v) => Timely(Tail(up), v)
           /\ Resyncs(up) => Resyncs(Tail(up)) \/ (Head(up).kind = "ack" /\ Head(up).resync)
  <1>1. /\ Len(Tail(up)) = Len(up) - 1 /\ Len(up) \in Nat \ {0} /\ Head(up) = up[1]
        /\ \A i \in 1 .. Len(Tail(up)) : Tail(up)[i] = up[i + 1]
    BY HeadTailProperties, LenProperties, EmptySeq
  <1> DEFINE t == Tail(up)
             n == Len(up)
  <1>2. /\ n \in Nat /\ Len(t) = n - 1 /\ \A i \in 1 .. n - 1 : t[i] = up[i + 1]
    BY <1>1
  <1> HIDE DEF t
  <1>3. \A i \in 1 .. n - 1 : i + 1 \in 1 .. n
    BY <1>2
  <1>4. ASSUME NEW v, Timely(up, v) PROVE Timely(t, v)
    BY <1>2, <1>3, <1>4 DEF Timely
  <1>5. ASSUME Resyncs(up) PROVE Resyncs(t) \/ (Head(up).kind = "ack" /\ Head(up).resync)
    <2>1. PICK i \in 1 .. n : up[i].kind = "ack" /\ up[i].resync
      BY <1>5 DEF Resyncs
    <2>2. CASE i = 1
      BY <1>1, <2>1, <2>2
    <2>3. CASE i # 1
      <3>1. i - 1 \in 1 .. n - 1 /\ i - 1 + 1 = i
        BY <1>2, <2>3
      <3>2. t[i - 1] = up[i]
        BY <1>2, <3>1
      <3> QED
        BY <1>2, <2>1, <3>1, <3>2 DEF Resyncs
    <2> QED
      BY <2>2, <2>3
  <1> QED
    BY <1>4, <1>5 DEF t

\* A message that is sent is behind the others.
LEMMA AppendHas ==
    ASSUME up \in Seq(Msgs), NEW m \in Msgs
    PROVE  /\ \A v : Timely(up, v) /\ (m.kind = "ack" => m.num <= v) => Timely(Append(up, m), v)
           /\ Resyncs(up) \/ (m.kind = "ack" /\ m.resync) => Resyncs(Append(up, m))
  <1> DEFINE n == Len(up)
             t == Append(up, m)
  <1>1. /\ n \in Nat /\ Len(t) = n + 1 /\ t[n + 1] = m /\ \A i \in 1 .. n : t[i] = up[i]
    BY AppendProperties, LenProperties
  <1> HIDE DEF t
  <1>2. /\ \A i \in 1 .. n + 1 : i \in 1 .. n \/ i = n + 1
        /\ \A i \in 1 .. n : i \in 1 .. n + 1
        /\ n + 1 \in 1 .. n + 1
    BY <1>1
  <1>3. ASSUME NEW v, Timely(up, v), m.kind = "ack" => m.num <= v PROVE Timely(t, v)
    BY <1>1, <1>2, <1>3 DEF Timely
  <1>4. ASSUME Resyncs(up) \/ (m.kind = "ack" /\ m.resync) PROVE Resyncs(t)
    <2>1. CASE Resyncs(up)
      <3>1. PICK i \in 1 .. n : up[i].kind = "ack" /\ up[i].resync
        BY <2>1 DEF Resyncs
      <3>2. i \in 1 .. n + 1 /\ t[i] = up[i]
        BY <1>1, <1>2
      <3> QED
        BY <1>1, <3>1, <3>2 DEF Resyncs
    <2>2. CASE m.kind = "ack" /\ m.resync
      BY <1>1, <1>2, <2>2 DEF Resyncs
    <2> QED
      BY <1>4, <2>1, <2>2
  <1> QED
    BY <1>3, <1>4 DEF t

\* A step of the daemon leaves a frame on its way, or as it was.
LEMMA CoalDaemon ==
    ASSUME BufferInv, Served, CoalInv, Daemon
    PROVE  CoalInv'
  <1>0. Shapes
    BY DEF BufferInv
  <1>1. /\ ConnOK(conn) /\ down \in Seq(ByteSet) /\ view.num \in Nat /\ up \in Seq(Msgs)
    BY <1>0 DEF Shapes, Views, Msgs
  <1> DEFINE v == view.num
  <1>2. /\ ~ended /\ UNCHANGED <<down, view, toggled, ended>>
        /\ up' = up \/ (up # <<>> /\ up' = Tail(up))
    BY <1>0, DaemonCases
  <1>3. PICK c : /\ ConnOK(c) /\ Starts(c) /\ Answers(c)
                 /\ \/ up' = up \/ Head(up).kind # "ack" \/ ~conn.coalesce
                    \/ ~Head(up).resync \/ \E m \in Recs : FrameStep(c, Latest', m, conn')
    BY <1>0, DaemonCases
  <1>4. /\ c.buf = conn.buf /\ c.producer.visible = conn.producer.visible
        /\ c.coalesce = conn.coalesce
    BY <1>0, <1>3, StartsShape
  <1>5. conn'.coalesce = c.coalesce
    <2>1. CASE Broadcasted(c, Latest', SourceOf', SourceTotal', SourceAlt', conn')
      BY <1>3, <2>1, FreshBroadcast
    <2>2. CASE \E m \in Recs : FrameStep(c, Latest', m, conn')
      BY <2>2 DEF FrameStep
    <2> QED
      BY <1>3, <2>1, <2>2 DEF Answers
  <1> SUFFICES ASSUME conn.coalesce, ~toggled
               PROVE  /\ Coal(conn', down, v) /\ Timely(up', v)
                      /\ v >= conn'.producer.visible \/ Renews(conn', down) \/ Resyncs(up')
    BY <1>2, <1>4, <1>5 DEF CoalInv
  <1>6. /\ Coal(conn, down, v) /\ Timely(up, v)
        /\ v >= conn.producer.visible \/ Renews(conn, down) \/ Resyncs(up)
    BY <1>2 DEF CoalInv
  <1>7. ~conn.off /\ Untoggled
    BY DEF BufferInv, CoalOK
  <1>8. Coal(c, down, v) /\ Coalescing(c)
    BY <1>0, <1>1, <1>3, <1>6, <1>7, StartsCoal
  <1>9. Timely(up', v)
    BY <1>1, <1>2, <1>6, TailHas
  <1> HIDE DEF v
  <1>10. v \in Nat
    BY <1>1 DEF v
  <1>11. CASE Broadcasted(c, Latest', SourceOf', SourceTotal', SourceAlt', conn')
    <2>1. Coal(conn', down, v) /\ Renews(conn', down)
      BY <1>1, <1>3, <1>8, <1>10, <1>11, CoalBroadcasted
    <2> QED
      BY <1>9, <2>1
  <1>12. CASE \E m \in Recs : FrameStep(c, Latest', m, conn')
    <2>1. Coal(conn', down, v) /\ Renews(conn', down)
      BY <1>1, <1>3, <1>8, <1>10, <1>12, CoalFrame
    <2> QED
      BY <1>9, <2>1
  <1>13. CASE conn' = c /\ ~\E m \in Recs : FrameStep(c, Latest', m, conn')
    <2>1. Renews(conn, down) => Renews(conn', down)
      BY <1>4, <1>13 DEF Renews, Newest
    <2>2. Resyncs(up) => Resyncs(up')
      BY <1>1, <1>2, <1>3, <1>13, TailHas
    <2> QED
      BY <1>4, <1>6, <1>8, <1>9, <1>13, <2>1, <2>2
  <1> QED
    BY <1>3, <1>11, <1>12, <1>13 DEF Answers

\* The viewport takes the newest frame, or asks for another.
LEMMA CoalTake ==
    ASSUME BufferInv, Served, CoalInv, Take
    PROVE  CoalInv'
  <1>0. Shapes
    BY DEF BufferInv
  <1>1. UNCHANGED <<conn, toggled, ended>>
    BY DEF Take
  <1> SUFFICES ASSUME conn.coalesce, ~toggled, ~ended
               PROVE  /\ Coal(conn, down', view'.num) /\ Timely(up', view'.num)
                      /\ \/ view'.num >= conn.producer.visible
                         \/ Renews(conn, down') \/ Resyncs(up')
    BY <1>1 DEF CoalInv
  <1> DEFINE r == down[1][1]
             v == view.num
             w == view'.num
             b == conn.buf
             z == Size(down', b)
  <1>2. /\ v \in Nat /\ view \in Views /\ b \in Seq(ByteSet) /\ up \in Seq(Msgs)
        /\ down \in Seq(ByteSet) /\ Len(down) >= 2 /\ conn.producer.visible \in Nat
    BY <1>0 DEF Shapes, ConnOK, Conns, Producers, Views, Take, Msgs
  <1>3. /\ down' \in Seq(ByteSet) /\ Len(down') = Len(down) - 2
        /\ \A i \in 1 .. Len(down) - 2 : down'[i] = down[2 + i]
        /\ r \in Recs /\ view' \in Views
    BY <1>0, TakeShape
  <1>4. /\ z \in Nat /\ Size(down, b) = z + 2
        /\ \A i \in 1 .. z : Byte(down', b, i) = Byte(down, b, i + 2)
        /\ Byte(down, b, 1) = down[1]
    BY <1>2, <1>3, ByteTake
  <1>5. /\ Coal(conn, down, v) /\ Timely(up, v)
        /\ v >= conn.producer.visible \/ Renews(conn, down) \/ Resyncs(up)
    BY DEF CoalInv
  <1>6. view.acks
    BY DEF Served
  <1>7. /\ r.kind = "exit" => w = v /\ up' = up
        /\ r.kind # "exit" => view' = Shown(r) /\ up' = Append(up, Ack(w, Behind(r), FALSE))
    BY <1>2, <1>6 DEF Take, Views
  <1>8. r.kind = "diff" => r.base <= v
    <2>1. 1 \in 1 .. Size(down, b)
      BY <1>4
    <2>2. Byte(down, b, 1)[1] = r
      BY <1>4
    <2> QED
      BY <1>5, <2>1, <2>2 DEF Coal
  <1> HIDE DEF r, z
  <1>9. /\ r.kind \in {"full", "diff", "rows", "exit"} /\ r.num \in Nat /\ r.base \in Nat
    BY <1>3 DEF Recs
  <1>10. /\ w \in Nat /\ w >= v
         /\ r.kind # "exit" => w = IF Fits(r) THEN r.num ELSE v
    <2>1. r.kind # "exit" => w = IF Fits(r) THEN r.num ELSE v
      BY <1>2, <1>7 DEF Shown, Views
    <2>2. Fits(r) => r.num > v
      BY DEF Fits
    <2> QED
      BY <1>2, <1>7, <1>9, <2>1, <2>2
  <1> HIDE DEF v, w
  <1>11. Coal(conn, down', w)
    <2>1. PICK h \in Nat : Size(down, b) = 2 * h
      BY <1>5 DEF Coal
    <2>2. h - 1 \in Nat /\ z = 2 * (h - 1)
      BY <1>4, <2>1
    <2>3. conn.producer.acked <= w
      <3>1. conn.producer.acked <= v /\ conn.producer.acked \in Nat /\ v \in Nat
        BY <1>0, <1>2, <1>5 DEF Coal, Shapes, ConnOK, Conns, Producers
      <3> QED
        BY <1>10, <3>1
    <2>4. ASSUME NEW i \in 1 .. z, Byte(down', b, i)[1].kind = "diff"
          PROVE  Byte(down', b, i)[1].base <= w
      <3>1. i + 2 \in 1 .. Size(down, b) /\ Byte(down', b, i) = Byte(down, b, i + 2)
        BY <1>4
      <3> DEFINE q == Byte(down', b, i)[1]
      <3>2. q.base <= v
        BY <1>5, <2>4, <3>1 DEF Coal
      <3>3. q.base \in Nat
        <4>1. Byte(down', b, i) \in ByteSet
          <5>1. Len(down') \in Nat /\ Len(b) \in Nat
            BY <1>2, <1>3, LenProperties
          <5>2. CASE i <= Len(down')
            <6>1. i \in 1 .. Len(down')
              BY <5>1, <5>2
            <6>2. down'[i] \in ByteSet
              BY <1>3, <6>1, ElementOfSeq
            <6> QED
              BY <5>2, <6>2 DEF Byte
          <5>3. CASE ~(i <= Len(down'))
            <6>1. i - Len(down') \in 1 .. Len(b)
              BY <5>1, <5>3 DEF z, Size
            <6>2. b[i - Len(down')] \in ByteSet
              BY <1>2, <6>1, ElementOfSeq
            <6> QED
              BY <5>3, <6>2 DEF Byte
          <5> QED
            BY <5>2, <5>3
        <4> QED
          BY <4>1 DEF ByteSet, Recs
      <3> HIDE DEF q
      <3>4. q.base <= w
        BY <1>2, <1>10, <3>2, <3>3 DEF v
      <3> QED
        BY <3>4 DEF q
    <2> QED
      BY <2>2, <2>3, <2>4 DEF Coal, z
  <1>12. Timely(up, w)
    <2>1. \A i \in 1 .. Len(up) : up[i].kind = "ack" => up[i].num \in Nat
      <3> SUFFICES ASSUME NEW i \in 1 .. Len(up), up[i].kind = "ack" PROVE up[i].num \in Nat
        OBVIOUS
      <3>1. up[i] \in Msgs
        BY <1>2, ElementOfSeq
      <3> QED
        BY <3>1 DEF Msgs, InitMsg, ShellMsg, Acks
    <2> QED
      BY <1>2, <1>5, <1>10, <2>1 DEF Timely, v
  <1> DEFINE a == Ack(w, Behind(r), FALSE)
  <1>13. a \in Msgs /\ a.kind = "ack" /\ a.num = w /\ (a.resync <=> Behind(r))
    BY <1>10 DEF Ack, Acks, Msgs, Behind
  <1> HIDE DEF a
  <1>14. up' = up \/ up' = Append(up, a)
    BY <1>7 DEF a
  <1>15. Timely(up', w) /\ (Resyncs(up) => Resyncs(up'))
    <2>1. CASE up' = up
      BY <1>12, <2>1
    <2>2. CASE up' = Append(up, a)
      <3>1. \A x : Timely(up, x) /\ (a.kind = "ack" => a.num <= x) => Timely(Append(up, a), x)
        BY <1>2, <1>13, AppendHas
      <3>2. Timely(up', w)
        BY <1>10, <1>12, <1>13, <2>2, <3>1
      <3>3. Resyncs(up) => Resyncs(up')
        BY <1>2, <1>13, <2>2, AppendHas
      <3> QED
        BY <3>2, <3>3
    <2> QED
      BY <1>14, <2>1, <2>2
  <1>16. ASSUME Renews(conn, down)
         PROVE  w >= conn.producer.visible \/ Renews(conn, down') \/ Resyncs(up')
    <2>1. PICK k \in Nat : 2 * k + 1 <= z + 2 /\ Newest(Byte(down, b, 2 * k + 1)[1], conn)
      BY <1>4, <1>16 DEF Renews
    <2>2. CASE k = 0
      <3>1. Byte(down, b, 2 * k + 1)[1] = r
        <4>1. 2 * k + 1 = 1
          BY <2>2
        <4> QED
          BY <1>4, <4>1 DEF r
      <3>2. r.kind \in {"full", "diff"} /\ r.num = conn.producer.visible
        BY <2>1, <3>1 DEF Newest
      <3>3. CASE Fits(r)
        BY <1>2, <1>10, <3>2, <3>3
      <3>4. CASE ~Fits(r) /\ ~(r.num > v)
        BY <1>2, <1>10, <3>2, <3>4 DEF v
      <3>5. CASE ~Fits(r) /\ r.num > v
        <4>1. r.kind = "diff" /\ r.base # v
          BY <3>2, <3>5 DEF Fits, v
        <4>2. r.base < v /\ r.num >= v
          BY <1>2, <1>8, <1>9, <3>5, <4>1 DEF v
        <4>3. Behind(r)
          BY <4>1, <4>2 DEF Behind, v
        <4>4. up' = Append(up, a)
          BY <1>7, <4>1 DEF a
        <4> QED
          BY <1>2, <1>13, <4>3, <4>4, AppendHas
      <3> QED
        BY <3>3, <3>4, <3>5
    <2>3. CASE k # 0
      <3>1. /\ k - 1 \in Nat /\ 2 * (k - 1) + 1 <= z /\ 2 * (k - 1) + 1 \in 1 .. z
            /\ 2 * (k - 1) + 1 + 2 = 2 * k + 1
        BY <1>4, <2>1, <2>3
      <3>2. Byte(down', b, 2 * (k - 1) + 1) = Byte(down, b, 2 * k + 1)
        BY <1>4, <3>1
      <3>3. Renews(conn, down')
        BY <2>1, <3>1, <3>2 DEF Renews, z
      <3> QED
        BY <3>3
    <2> QED
      BY <2>2, <2>3
  <1>17. v >= conn.producer.visible => w >= conn.producer.visible
    BY <1>2, <1>10 DEF v
  <1> QED
    BY <1>5, <1>11, <1>15, <1>16, <1>17 DEF w

\* Every step keeps the newest frame on its way.
LEMMA CoalStep ==
    ASSUME BufferInv, Served, CoalInv, [Next]_vars
    PROVE  CoalInv'
  <1>1. /\ Shapes /\ ConnOK(conn) /\ down \in Seq(ByteSet) /\ view \in Views /\ up \in Seq(Msgs)
        /\ conn.buf \in Seq(ByteSet)
    BY DEF BufferInv, Shapes, ConnOK, Conns, Msgs
  <1>2. Len(conn.buf) \in Nat /\ Len(down) \in Nat /\ Size(down, conn.buf) \in Nat
    <2>1. Len(conn.buf) \in Nat /\ Len(down) \in Nat
      BY <1>1, LenProperties
    <2> QED
      BY <2>1 DEF Size
  <1>3. CASE Daemon
    BY <1>3, CoalDaemon
  <1>4. ASSUME NEW n \in 1 .. SockCap, Drain(n)
        PROVE  CoalInv'
    <2>1. n \in 1 .. Len(conn.buf) /\ n \in 0 .. Len(conn.buf)
      BY <1>2, <1>4, LocalBounds DEF Drain, LocalBounds
    <2>2. conn' = Drained(conn, n) /\ UNCHANGED <<view, up, toggled, ended>>
      BY <1>1, <1>4 DEF Drain, Drained, ConnOK, Conns
    <2>3. /\ conn'.producer = conn.producer /\ conn'.coalesce = conn.coalesce
          /\ conn'.buf = SubSeq(conn.buf, n + 1, Len(conn.buf))
      BY <1>1, <2>1, <2>2, DrainedShape
    <2> DEFINE z == Size(down, conn.buf)
    <2>4. /\ Size(down', conn'.buf) = z
          /\ \A i \in 1 .. z : Byte(down', conn'.buf, i) = Byte(down, conn.buf, i)
      <3> DEFINE t == down \o SubSeq(conn.buf, 1, n)
                 d == SubSeq(conn.buf, n + 1, Len(conn.buf))
      <3>1. /\ Size(t, d) = Size(down, conn.buf)
            /\ \A i \in 1 .. Size(down, conn.buf) : Byte(t, d, i) = Byte(down, conn.buf, i)
        BY <1>1, <2>1, ByteDrain
      <3>2. down' = t /\ conn'.buf = d
        BY <1>4, <2>3 DEF Drain
      <3> HIDE DEF t, d
      <3> QED
        BY <3>1, <3>2
    <2>5. Coal(conn, down, view.num) => Coal(conn', down', view.num)
      BY <2>3, <2>4 DEF Coal
    <2>6. Renews(conn, down) => Renews(conn', down')
      <3> SUFFICES ASSUME Renews(conn, down) PROVE Renews(conn', down')
        OBVIOUS
      <3>1. PICK k \in Nat : 2 * k + 1 <= z /\ Newest(Byte(down, conn.buf, 2 * k + 1)[1], conn)
        BY DEF Renews
      <3>2. 2 * k + 1 \in 1 .. z
        BY <1>2, <3>1
      <3>3. Newest(Byte(down', conn'.buf, 2 * k + 1)[1], conn')
        BY <2>3, <2>4, <3>1, <3>2 DEF Newest
      <3> QED
        BY <2>4, <3>1, <3>3 DEF Renews
    <2> QED
      BY <2>2, <2>3, <2>5, <2>6 DEF CoalInv
  <1>5. ASSUME NEW n \in 0 .. Len(conn.buf) + 2, End(n)
        PROVE  CoalInv'
    BY <1>5 DEF End, CoalInv
  <1>6. CASE Take
    BY <1>6, CoalTake
  <1>7. CASE Resume \/ Escape
    <2>1. PICK m \in {InitMsg, ShellMsg} : up' = Append(up, m)
      BY <1>7 DEF Resume, Escape
    <2>2. m \in Msgs /\ m.kind # "ack"
      BY DEF Msgs, InitMsg, ShellMsg
    <2>3. UNCHANGED <<conn, down, view, toggled, ended>>
      BY <1>7 DEF Resume, Escape
    <2>4. /\ Timely(up, view.num) => Timely(up', view.num)
          /\ Resyncs(up) => Resyncs(up')
      BY <1>1, <2>1, <2>2, AppendHas
    <2> QED
      BY <2>3, <2>4 DEF CoalInv
  <1>8. CASE Toggle
    BY <1>8 DEF Toggle, CoalInv
  <1>9. CASE UNCHANGED vars
    BY <1>9 DEF vars, CoalInv
  <1> QED
    BY <1>3, <1>4, <1>5, <1>6, <1>7, <1>8, <1>9 DEF Next, Daemon

\* Nothing is on its way at the start, and there is nothing to send.
LEMMA CoalInit == Init => CoalInv
  <1> SUFFICES ASSUME Init PROVE CoalInv
    OBVIOUS
  <1>1. /\ conn.producer = NewProducer /\ conn.buf = <<>> /\ down = <<>> /\ up = <<InitMsg>>
        /\ view.num = 0
    BY DEF Init, NewConn
  <1>2. conn.producer.visible = 0 /\ conn.producer.acked = 0
    BY <1>1 DEF NewProducer
  <1>3. Size(down, conn.buf) = 2 * 0
    <2>1. Len(<<>>) = 0
      BY EmptySeq
    <2> QED
      BY <1>1, <2>1 DEF Size
  <1>4. Coal(conn, down, view.num)
    BY <1>1, <1>2, <1>3 DEF Coal
  <1>5. Timely(up, view.num)
    BY <1>1 DEF Timely, InitMsg
  <1> QED
    BY <1>1, <1>2, <1>4, <1>5 DEF CoalInv

\* A viewport at the newest frame shows the source.
LEMMA NewestShown ==
    ASSUME Shapes, MirrorInv, Served, Sent, view.num >= conn.producer.visible
    PROVE  view.screen = Latest
  <1>1. PICK sc \in Screenings : MirrorAt(sc)
    BY DEF MirrorInv
  <1> DEFINE n == conn.producer.num
  <1>2. n \in Nat /\ view.num \in Nat /\ conn.producer.visible \in Nat
    BY DEF Shapes, ConnOK, Conns, Producers, Views
  <1>3. PICK f \in conn.producer.sent : f.num = n
    BY DEF Shapes, ConnOK, Holds
  <1>4. f.screen = Latest
    BY <1>3 DEF Served, FreshConn
  <1>5. f.screen = sc[n]
    BY <1>1, <1>3 DEF MirrorAt, Tracks
  <1>6. view.num \in conn.producer.visible .. n /\ view.screen = sc[view.num]
    BY <1>1, <1>2 DEF MirrorAt
  <1>7. sc[view.num] = sc[n]
    BY <1>1, <1>6 DEF MirrorAt, Tracks
  <1> QED
    BY <1>4, <1>5, <1>6, <1>7

LastInv == BufferInv /\ MirrorInv /\ Served /\ ExactInv /\ CoalInv

\* What is known of the newest frame says that it is shown.
LEMMA LastShown == LastInv => LastScreen
  <1> SUFFICES ASSUME LastInv PROVE LastScreen
    OBVIOUS
  <1>1. Shapes /\ MirrorInv /\ Served /\ ExactInv /\ CoalInv
    BY DEF LastInv, BufferInv
  <1>2. /\ conn.producer.num \in Nat /\ conn.producer.visible \in Nat /\ view.num \in Nat
        /\ conn.producer.visible <= conn.producer.num
    BY <1>1 DEF Shapes, ConnOK, Conns, Producers, Holds, Views
  <1>3. ASSUME ~toggled, Quiet, Sent PROVE view.screen = Latest
    <2>1. /\ Size(down, conn.buf) = 0 /\ Len(up) = 0 /\ ~ended
      <3>1. Len(<<>>) = 0
        BY EmptySeq
      <3> QED
        BY <1>3, <3>1 DEF Quiet, Size
    <2>2. CASE conn.coalesce
      <3>1. ~Renews(conn, down) /\ ~Resyncs(up)
        BY <2>1 DEF Renews, Resyncs
      <3>2. view.num >= conn.producer.visible
        BY <1>1, <1>3, <2>1, <2>2, <3>1 DEF CoalInv
      <3> QED
        BY <1>1, <1>3, <3>2, NewestShown
    <2>3. CASE ~conn.coalesce
      <3>1. 2 * (conn.producer.num - view.num) = 0
        BY <1>1, <2>1, <2>3 DEF ExactInv, Exact
      <3>2. view.num >= conn.producer.visible
        BY <1>2, <3>1
      <3> QED
        BY <1>1, <1>3, <3>2, NewestShown
    <2> QED
      BY <2>2, <2>3
  <1>4. ASSUME view.exited, ~conn.coalesce, Sent PROVE view.screen = Latest
    <2>1. view.num >= conn.producer.visible
      BY <1>1, <1>2, <1>4 DEF ExactInv
    <2> QED
      BY <1>1, <1>4, <2>1, NewestShown
  <1> QED
    BY <1>3, <1>4 DEF LastScreen, QuietIsCurrent, EndsCurrent

\* A viewport that has read and answered everything shows the screen, and one
\* that read Exit ended on it: no frame that was replaced in the buffer,
\* refused or repaired was the last one needed (daemon.rs:1022-1029, :1387,
\* :2118).
THEOREM LastScreenCorrect == Spec => []LastScreen
  <1>1. Init => LastInv
    BY BufferInit, MirrorInit, ServedInit, ExactInit, CoalInit DEF LastInv
  <1>2. LastInv /\ [Next]_vars => LastInv'
    <2> SUFFICES ASSUME LastInv, [Next]_vars PROVE LastInv'
      OBVIOUS
    <2>1. Shapes /\ BufferInv /\ MirrorInv /\ Served /\ ExactInv /\ CoalInv
      BY DEF LastInv, BufferInv
    <2> QED
      BY <2>1, BufferStep, MirrorStep, ServedStep, ExactStep, CoalStep DEF LastInv
  <1> QED
    BY <1>1, <1>2, LastShown, PTL DEF Spec

-----------------------------------------------------------------------------
(* The rows of a viewport that is confirmed by the daemon: the ring and,    *)
(* behind it, the rows of the stream go on without a gap from the attach to *)
(* what the daemon counts as acknowledged.                                  *)

Totals == [Nat -> Nat]

\* The ring has the rows from `floor` up to `total`, in order.
Ringed(ring, floor, total) ==
    /\ floor <= total /\ Len(ring) = total - floor
    /\ \A i \in 1 .. total - floor : ring[i] = <<0, floor + i>>

\* A record takes the rows from the first `low` to the first `high`.
Adds(r, low, high) ==
    /\ low <= high
    /\ r.kind \in {"full", "diff"} => low = high
    /\ r.kind = "rows" => low < high /\ r.rows = Rows(0, low + 1, high)

InTurn(tot, c, s, v, ring) ==
    /\ tot[c.producer.num] = Floor(c)
    /\ Ringed(ring, c.sb_floor, tot[v])
    /\ \A k \in Nat : 2 * k + 1 <= Size(s, c.buf) /\ v + k + 1 <= c.producer.num =>
          Adds(Byte(s, c.buf, 2 * k + 1)[1], tot[v + k], tot[v + k + 1])

Turned(c, s, v, ring) == \E tot \in Totals : InTurn(tot, c, s, v, ring)

\* The primary screen is shown: its rows have been sent.
Paid(c, up_, alt, rows) == c.framed /\ ~up_ /\ ~alt => rows <= Floor(c)

TurnInv ==
    ~conn.coalesce =>
        /\ Turned(conn, down, view.num, view.ring)
        /\ Paid(conn, overlay.up, session.alt, session.rows)

\* The rows of a terminal, and the ring with them.
LEMMA RowsAre ==
    ASSUME NEW a \in Nat, NEW b \in Nat, a < b
    PROVE  LET w == Rows(0, a + 1, b)
           IN  /\ w \in Seq(Pairs) /\ Len(w) = b - a
               /\ \A i \in 1 .. b - a : w[i] = <<0, a + i>>
  <1> DEFINE w == Rows(0, a + 1, b)
  <1>1. /\ w \in Seq(Pairs) /\ Len(w) = b - (a + 1) + 1
        /\ \A i \in 1 .. b - (a + 1) + 1 : w[i] = <<0, a + 1 + i - 1>>
    <2> DEFINE f == a + 1
    <2>1. 0 \in Nat /\ f \in Nat /\ b \in Nat /\ f <= b
      OBVIOUS
    <2> HIDE DEF f
    <2>2. /\ Rows(0, f, b) \in Seq(Pairs) /\ Len(Rows(0, f, b)) = b - f + 1
          /\ \A i \in 1 .. b - f + 1 : Rows(0, f, b)[i] = <<0, f + i - 1>>
      <3> DEFINE of == 0
      <3>1. of \in Nat /\ f \in Nat /\ b \in Nat /\ f <= b
        BY <2>1
      <3> HIDE DEF of
      <3>2. Rows(of, f, b) \in Seq(Pairs) /\ Len(Rows(of, f, b)) = b - f + 1
        BY ONLY <3>1, RowsType
      <3>3. \A i \in 1 .. b - f + 1 : Rows(of, f, b)[i] = <<of, f + i - 1>>
        BY ONLY <3>1, RowsType
      <3> QED
        BY <3>2, <3>3 DEF of
    <2> QED
      BY <2>2 DEF f
  <1> HIDE DEF w
  <1>2. b - (a + 1) + 1 = b - a
    OBVIOUS
  <1>3. ASSUME NEW i \in 1 .. b - a PROVE w[i] = <<0, a + i>>
    <2>1. a + 1 + i - 1 = a + i
      OBVIOUS
    <2> QED
      BY <1>1, <1>2, <2>1
  <1> QED
    BY <1>1, <1>2, <1>3 DEF w

\* A ring with rows behind it.
LEMMA RingRows ==
    ASSUME NEW ring \in Seq(Pairs), NEW a \in Nat, NEW b \in Nat, a < b
    PROVE  LET q == ring \o Rows(0, a + 1, b)
               l == Len(ring)
           IN  /\ l \in Nat /\ Len(q) = l + (b - a)
               /\ \A i \in 1 .. l : q[i] = ring[i]
               /\ \A i \in l + 1 .. l + (b - a) : q[i] = <<0, a + (i - l)>>
  <1> DEFINE w == Rows(0, a + 1, b)
             q == ring \o w
             l == Len(ring)
  <1>1. w \in Seq(Pairs) /\ Len(w) = b - a /\ \A i \in 1 .. b - a : w[i] = <<0, a + i>>
    BY RowsAre
  <1> HIDE DEF w
  <1>2. l \in Nat /\ l = Len(ring)
    BY LenProperties
  <1>3. /\ Len(q) = Len(ring) + Len(w)
        /\ \A i \in 1 .. Len(ring) + Len(w) :
              q[i] = IF i <= Len(ring) THEN ring[i] ELSE w[i - Len(ring)]
    BY <1>1, ConcatProperties
  <1> HIDE DEF q, l
  <1>4. /\ Len(q) = l + (b - a)
        /\ \A i \in 1 .. l + (b - a) : q[i] = IF i <= l THEN ring[i] ELSE w[i - l]
    BY <1>1, <1>2, <1>3
  <1>5. \A i \in 1 .. l : q[i] = ring[i]
    BY <1>2, <1>4
  <1>6. ASSUME NEW i \in l + 1 .. l + (b - a) PROVE q[i] = <<0, a + (i - l)>>
    <2>1. i \in 1 .. l + (b - a) /\ ~(i <= l) /\ i - l \in 1 .. b - a
      BY <1>2
    <2>2. q[i] = w[i - l]
      BY <1>4, <2>1
    <2> QED
      BY <1>1, <2>1, <2>2
  <1> QED
    BY <1>2, <1>4, <1>5, <1>6 DEF q, l, w

\* A record that adds rows up to `total`, behind the stream.
LEMMA TurnPut ==
    ASSUME NEW c, c.producer.num \in Nat, NEW s, NEW v \in Nat, Exact(c, s, v, FALSE),
           NEW ring, Turned(c, s, v, ring), Floor(c) \in Nat,
           NEW total \in Nat, Floor(c) <= total,
           NEW m, m.kind \in {"full", "diff"} => total = Floor(c),
           m.kind = "rows" => Floor(c) < total /\ m.rows = Rows(0, Floor(c) + 1, total),
           NEW d, Puts(s, c, d, Size(s, c.buf), m),
           d.producer.num = c.producer.num + 1, Floor(d) = total, d.sb_floor = c.sb_floor
    PROVE  Turned(d, s, v, ring)
  <1> DEFINE n == c.producer.num
             z == Size(s, c.buf)
  <1>1. PICK tot \in Totals : InTurn(tot, c, s, v, ring)
    BY DEF Turned
  <1> DEFINE td == [tot EXCEPT ![n + 1] = total]
  <1>2. n \in Nat /\ v <= n /\ z = 2 * (n - v)
    BY DEF Exact
  <1>3. td \in Totals /\ td[n + 1] = total /\ \A i \in Nat : i # n + 1 => td[i] = tot[i]
    BY <1>2 DEF Totals
  <1>4. /\ tot[n] = Floor(c) /\ Ringed(ring, c.sb_floor, tot[v])
        /\ \A k \in Nat : 2 * k + 1 <= z /\ v + k + 1 <= n =>
              Adds(Byte(s, c.buf, 2 * k + 1)[1], tot[v + k], tot[v + k + 1])
    BY <1>1 DEF InTurn
  <1>5. /\ Size(s, d.buf) = z + 2
        /\ \A i \in 1 .. z : Byte(s, d.buf, i) = Byte(s, c.buf, i)
        /\ Byte(s, d.buf, z + 1) = <<m, 1>>
    BY DEF Puts
  <1> HIDE DEF td, n, z
  <1>6. ASSUME NEW k \in Nat, 2 * k + 1 <= z + 2, v + k + 1 <= n + 1
        PROVE  Adds(Byte(s, d.buf, 2 * k + 1)[1], td[v + k], td[v + k + 1])
    <2>1. CASE v + k + 1 <= n
      <3>1. 2 * k + 1 <= z /\ 2 * k + 1 \in 1 .. z
        BY <1>2, <2>1
      <3>2. Byte(s, d.buf, 2 * k + 1) = Byte(s, c.buf, 2 * k + 1)
        BY <1>5, <3>1
      <3>3. Adds(Byte(s, c.buf, 2 * k + 1)[1], tot[v + k], tot[v + k + 1])
        BY <1>4, <2>1, <3>1
      <3>4. td[v + k + 1] = tot[v + k + 1] /\ td[v + k] = tot[v + k]
        <4>1. /\ v + k + 1 \in Nat /\ v + k + 1 # n + 1
              /\ v + k \in Nat /\ v + k # n + 1
          BY <1>2, <2>1
        <4> QED
          BY <1>3, <4>1
      <3> QED
        BY <3>2, <3>3, <3>4
    <2>2. CASE ~(v + k + 1 <= n)
      <3>1. v + k + 1 = n + 1 /\ 2 * k + 1 = z + 1 /\ v + k = n
        BY <1>2, <1>6, <2>2
      <3>2. td[n + 1] = total /\ td[n] = Floor(c)
        BY <1>2, <1>3, <1>4
      <3>3. Adds(m, td[n], td[n + 1])
        <4>1. Adds(m, Floor(c), total)
          BY DEF Adds
        <4> QED
          BY <3>2, <4>1
      <3> QED
        BY <1>5, <3>1, <3>3
    <2> QED
      BY <2>1, <2>2
  <1>7. td[v] = tot[v]
    BY <1>2, <1>3
  <1>8. InTurn(td, d, s, v, ring)
    BY <1>2, <1>3, <1>4, <1>5, <1>6, <1>7 DEF InTurn, n
  <1> QED
    BY <1>3, <1>8 DEF Turned

\* What is confirmed is a number of rows.
LEMMA FloorIs ==
    ASSUME NEW c, ConnOK(c)
    PROVE  /\ Floor(c) \in Nat /\ c.sb_floor <= Floor(c) /\ c.sb_acked <= Floor(c)
           /\ c.sb_floor \in Nat /\ c.sb_acked \in Nat
           /\ Floor(c) = c.sb_acked \/ Floor(c) = c.sb_floor
           /\ c.producer.num \in Nat
  BY DEF Floor, ConnOK, Conns, Producers

\* A frame leaves confirmed what was.
LEMMA FloorFrame ==
    ASSUME NEW c, NEW screen, NEW m, NEW d, FrameStep(c, screen, m, d)
    PROVE  Floor(d) = Floor(c) /\ d.framed = c.framed
  BY DEF FrameStep, Floor

\* What rows leave confirmed.
LEMMA FloorRows ==
    ASSUME NEW c, ConnOK(c), ~c.coalesce, NEW of, NEW total \in Nat, NEW m, NEW f, NEW d,
           RowsStep(c, of, total, m, f, d)
    PROVE  Floor(d) = total /\ d.framed = c.framed
  <1>1. Floor(c) \in Nat /\ c.sb_floor <= Floor(c) /\ c.sb_floor \in Nat
    BY FloorIs
  <1>2. /\ Floor(c) < total /\ d.sb_floor = c.sb_floor /\ d.sb_acked = total
        /\ d.framed = c.framed
    BY <1>1 DEF RowsStep, Coalescing
  <1> QED
    BY <1>1, <1>2 DEF Floor

\* A broadcast leaves no row out, but on the alternate screen.
LEMMA FloorBroadcasted ==
    ASSUME NEW c, ConnOK(c), ~c.coalesce, NEW s \in Seq(ByteSet), NEW v \in Nat,
           Exact(c, s, v, FALSE), NEW screen \in Nat \X Nat, NEW of, NEW total \in Nat,
           NEW alt, ~alt, NEW k, Broadcasted(c, screen, of, total, alt, k)
    PROVE  total <= Floor(k)
  <1>1. PICK m \in Recs, d \in Conns :
           /\ FrameStep(c, screen, m, d)
           /\ \/ k = d /\ (alt \/ total <= Floor(d) \/ d.producer.base = NoBase)
              \/ ~alt /\ \E r \in Recs, f \in d.producer.sent : RowsStep(d, of, total, r, f, k)
    BY DEF Broadcasted
  <1>2. FrameStep(c, screen, m, d)
    BY <1>1
  <1>3. ConnOK(d) /\ ~d.coalesce
    BY <1>2, ExactFrame
  <1>4. d.producer.base # NoBase
    BY <1>2 DEF FrameStep, Coalescing, NoBase
  <1>5. ASSUME NEW r \in Recs, NEW f \in d.producer.sent, RowsStep(d, of, total, r, f, k)
        PROVE  total <= Floor(k)
    <2>1. Floor(k) = total
      BY <1>3, <1>5, FloorRows
    <2> QED
      BY <2>1
  <1> QED
    BY <1>1, <1>4, <1>5

\* A frame adds no row, ...
LEMMA TurnFrame ==
    ASSUME NEW c, ConnOK(c), ~c.coalesce, NEW s \in Seq(ByteSet), NEW v \in Nat,
           Exact(c, s, v, FALSE), NEW ring, Turned(c, s, v, ring),
           NEW screen, NEW m \in Recs, NEW d, FrameStep(c, screen, m, d)
    PROVE  Turned(d, s, v, ring)
  <1>1. Floor(c) \in Nat /\ c.producer.num \in Nat
    BY FloorIs
  <1>2. ~Coalescing(c)
    BY DEF Coalescing
  <1>3. Puts(s, c, d, Size(s, c.buf), m)
    BY <1>2, PutsFrame
  <1>4. /\ d.producer.num = c.producer.num + 1 /\ m.kind \in {"full", "diff"}
        /\ d.sb_floor = c.sb_floor /\ d.sb_acked = c.sb_acked /\ d.framed = c.framed
    BY DEF FrameStep
  <1>5. Floor(d) = Floor(c)
    BY <1>4 DEF Floor
  <1> DEFINE total == Floor(c)
  <1>6. /\ total \in Nat /\ Floor(c) <= total /\ Floor(d) = total /\ m.kind # "rows"
        /\ total = Floor(c)
    BY <1>1, <1>4, <1>5
  <1> HIDE DEF total
  <1> QED
    BY <1>1, <1>3, <1>4, <1>6, TurnPut

\* ... and rows of the session those that are not there.
LEMMA TurnRows ==
    ASSUME NEW c, ConnOK(c), ~c.coalesce, NEW s \in Seq(ByteSet), NEW v \in Nat,
           Exact(c, s, v, FALSE), NEW ring, Turned(c, s, v, ring),
           NEW total \in Nat, NEW m \in Recs, NEW f, NEW d, RowsStep(c, 0, total, m, f, d)
    PROVE  Turned(d, s, v, ring)
  <1>1. Floor(c) \in Nat /\ c.producer.num \in Nat /\ c.sb_floor <= Floor(c) /\ c.sb_floor \in Nat
    BY FloorIs
  <1>2. ~Coalescing(c)
    BY DEF Coalescing
  <1>3. Puts(s, c, d, Size(s, c.buf), m)
    BY PutsRows
  <1>4. /\ d.producer.num = c.producer.num + 1 /\ m.kind = "rows"
        /\ m.rows = Rows(0, Floor(c) + 1, total) /\ Floor(c) < total
        /\ d.sb_floor = c.sb_floor /\ d.sb_acked = total /\ d.framed = c.framed
    BY <1>1, <1>2 DEF RowsStep
  <1>5. Floor(d) = total
    BY <1>1, <1>4 DEF Floor
  <1>6. Floor(c) <= total /\ m.kind \notin {"full", "diff"}
    BY <1>1, <1>4
  <1> QED
    BY <1>1, <1>3, <1>4, <1>5, <1>6, TurnPut

\* ... so that the rows of a broadcast go on from those before.
LEMMA TurnBroadcasted ==
    ASSUME NEW c, ConnOK(c), ~c.coalesce, NEW s \in Seq(ByteSet), NEW v \in Nat,
           Exact(c, s, v, FALSE), NEW ring, Turned(c, s, v, ring),
           NEW screen \in Nat \X Nat, NEW of, NEW total \in Nat, of = 0 \/ total = 0,
           NEW alt, NEW k, Broadcasted(c, screen, of, total, alt, k)
    PROVE  Turned(k, s, v, ring)
  <1>1. PICK m \in Recs, d \in Conns :
           /\ FrameStep(c, screen, m, d)
           /\ \/ k = d
              \/ ~alt /\ \E r \in Recs, f \in d.producer.sent : RowsStep(d, of, total, r, f, k)
    BY DEF Broadcasted
  <1>2. FrameStep(c, screen, m, d)
    BY <1>1
  <1>3. /\ Exact(d, s, v, FALSE) /\ ConnOK(d) /\ ~d.coalesce
    BY <1>2, ExactFrame
  <1>4. Turned(d, s, v, ring)
    BY <1>2, TurnFrame
  <1>5. ASSUME NEW r \in Recs, NEW f \in d.producer.sent, RowsStep(d, of, total, r, f, k)
        PROVE  Turned(k, s, v, ring)
    <2>1. of = 0
      <3>1. Floor(d) \in Nat /\ total > Floor(d)
        BY <1>3, <1>5, FloorIs DEF RowsStep
      <3> QED
        BY <3>1
    <2>2. RowsStep(d, 0, total, r, f, k)
      BY <1>5, <2>1
    <2> QED
      BY <1>3, <1>4, <2>2, TurnRows
  <1> QED
    BY <1>1, <1>4, <1>5

\* What a connection says of rows, it says of its numbers, counts and buffer.
LEMMA TurnSame ==
    ASSUME NEW c, NEW s, NEW v, NEW ring, Turned(c, s, v, ring),
           NEW d, d.producer.num = c.producer.num, d.sb_floor = c.sb_floor,
           d.sb_acked = c.sb_acked, NEW t, Size(t, d.buf) = Size(s, c.buf),
           \A i \in 1 .. Size(s, c.buf) : Byte(t, d.buf, i) = Byte(s, c.buf, i),
           Size(s, c.buf) \in Nat
    PROVE  Turned(d, t, v, ring)
  <1>1. PICK tot \in Totals : InTurn(tot, c, s, v, ring)
    BY DEF Turned
  <1>2. ASSUME NEW k \in Nat, 2 * k + 1 <= Size(s, c.buf)
        PROVE  Byte(t, d.buf, 2 * k + 1) = Byte(s, c.buf, 2 * k + 1)
    <2>1. 2 * k + 1 \in 1 .. Size(s, c.buf)
      BY <1>2
    <2> QED
      BY <2>1
  <1>3. Floor(d) = Floor(c)
    BY DEF Floor
  <1>4. InTurn(tot, d, t, v, ring)
    BY <1>1, <1>2, <1>3 DEF InTurn
  <1> QED
    BY <1>4 DEF Turned

\* The daemon starts from no gap; the first rows are those after the attach.
LEMMA StartsTurn ==
    ASSUME Shapes, Served, ExactInv, TurnInv, ~ended, ~conn.coalesce, NEW c, ConnOK(c), Starts(c)
    PROVE  /\ Exact(c, down, view.num, FALSE) /\ Turned(c, down, view.num, view.ring)
           /\ Paid(c, overlay.up, session.alt, session.rows)
  <1>1. /\ ConnOK(conn) /\ session.rows \in Nat /\ ended = FALSE /\ down \in Seq(ByteSet)
        /\ conn.buf \in Seq(ByteSet)
    BY DEF Shapes, ConnOK, Conns
  <1>2. /\ c.buf = conn.buf /\ c.producer.num = conn.producer.num
        /\ c.producer.acked = conn.producer.acked /\ c.sb_acked = conn.sb_acked
        /\ (conn.framed \/ ~c.framed) => c.framed = conn.framed /\ c.sb_floor = conn.sb_floor
    BY StartsShape
  <1>3. Exact(c, down, view.num, FALSE)
    BY <1>1, <1>2 DEF ExactInv, Exact
  <1>4. CASE conn.framed \/ ~c.framed
    <2>1. Floor(c) = Floor(conn) /\ c.framed = conn.framed /\ c.sb_floor = conn.sb_floor
      BY <1>2, <1>4 DEF Floor
    <2>2. Turned(c, down, view.num, view.ring)
      <3>1. PICK tot \in Totals : InTurn(tot, conn, down, view.num, view.ring)
        BY DEF TurnInv, Turned
      <3>2. InTurn(tot, c, down, view.num, view.ring)
        BY <1>2, <2>1, <3>1 DEF InTurn
      <3> QED
        BY <3>2 DEF Turned
    <2>3. Paid(c, overlay.up, session.alt, session.rows)
      BY <2>1 DEF TurnInv, Paid
    <2> QED
      BY <1>3, <2>2, <2>3
  <1>5. CASE ~conn.framed /\ c.framed
    <2>1. c = Attached(conn, session.rows)
      <3>1. ~DropBase(conn).framed
        BY <1>1, <1>5, DropBaseShape
      <3> QED
        BY <1>5, <3>1 DEF Starts
    <2>2. c.sb_floor = session.rows
      BY <1>1, <2>1, AttachedShape
    <2>3. /\ conn.producer.num = 0 /\ conn.sb_acked = 0 /\ view.num = 0 /\ view.ring = <<>>
          /\ conn.buf = <<>> /\ down = <<>>
      BY <1>5 DEF Served, Virgin
    <2>4. Floor(c) = session.rows
      BY <1>1, <1>2, <2>2, <2>3 DEF Floor
    <2> DEFINE tot == [i \in Nat |-> session.rows]
    <2>5. tot \in Totals /\ tot[0] = session.rows
      BY <1>1 DEF Totals
    <2> HIDE DEF tot
    <2>6. Ringed(view.ring, c.sb_floor, tot[0])
      <3>1. Len(<<>>) = 0 /\ session.rows - session.rows = 0 /\ session.rows <= session.rows
        BY <1>1, EmptySeq
      <3> QED
        BY <2>2, <2>3, <2>5, <3>1 DEF Ringed
    <2>7. ASSUME NEW k \in Nat, view.num + k + 1 <= c.producer.num PROVE FALSE
      BY <1>2, <2>3, <2>7
    <2>8. InTurn(tot, c, down, view.num, view.ring)
      BY <1>2, <2>3, <2>4, <2>5, <2>6, <2>7 DEF InTurn
    <2>9. Turned(c, down, view.num, view.ring)
      BY <2>5, <2>8 DEF Turned
    <2>10. Paid(c, overlay.up, session.alt, session.rows)
      BY <1>1, <2>4 DEF Paid
    <2> QED
      BY <1>3, <2>9, <2>10
  <1>6. c.framed \in BOOLEAN /\ conn.framed \in BOOLEAN
    BY <1>1 DEF ConnOK, Conns
  <1> QED
    BY <1>4, <1>5, <1>6

\* A step of the daemon leaves no gap.
LEMMA TurnDaemon ==
    ASSUME Shapes, Served, ExactInv, TurnInv, Daemon, MaxOverlayRows = 0
    PROVE  TurnInv'
  <1>1. Shapes' /\ Served'
    <2>1. [Next]_vars
      BY DEF Daemon, Next
    <2> QED
      BY <2>1, ShapesStep, ServedStep
  <1>2. /\ ConnOK(conn) /\ down \in Seq(ByteSet) /\ view.num \in Nat /\ Sources' /\ ConnOK(conn')
        /\ conn.coalesce \in BOOLEAN
    BY <1>1 DEF Shapes, Views, Sources, ConnOK, Conns
  <1>3. ~ended /\ UNCHANGED <<down, view, ended>>
    BY DaemonCases
  <1>4. PICK c : ConnOK(c) /\ Starts(c) /\ Answers(c)
    BY DaemonCases
  <1>5. c.coalesce = conn.coalesce
    BY <1>4, StartsShape
  <1>6. conn'.coalesce = c.coalesce
    <2>1. CASE Broadcasted(c, Latest', SourceOf', SourceTotal', SourceAlt', conn')
      BY <1>4, <2>1, FreshBroadcast
    <2>2. CASE \E m \in Recs : FrameStep(c, Latest', m, conn')
      BY <2>2 DEF FrameStep
    <2> QED
      BY <1>4, <2>1, <2>2 DEF Answers
  <1> SUFFICES ASSUME ~conn.coalesce
               PROVE  /\ Turned(conn', down, view.num, view.ring)
                      /\ Paid(conn', overlay'.up, session'.alt, session'.rows)
    BY <1>3, <1>5, <1>6 DEF TurnInv
  <1>7. /\ Exact(c, down, view.num, FALSE) /\ Turned(c, down, view.num, view.ring)
        /\ Paid(c, overlay.up, session.alt, session.rows) /\ ~c.coalesce
    BY <1>3, <1>4, <1>5, StartsTurn
  <1>8. CASE Broadcasted(c, Latest', SourceOf', SourceTotal', SourceAlt', conn')
    <2> DEFINE screen == Latest'
               of == SourceOf'
               total == SourceTotal'
               alt == SourceAlt'
    <2>1. screen \in Nat \X Nat /\ total \in Nat
      BY <1>2 DEF Sources, Latest, SourceTotal
    <2>2. of = 0 \/ total = 0
      BY <1>1 DEF Served, SourceOf, SourceTotal
    <2>3. /\ overlay'.up \/ total = session'.rows
          /\ overlay'.up \/ (alt <=> session'.alt)
      BY DEF SourceTotal, SourceAlt
    <2>4. Broadcasted(c, screen, of, total, alt, conn')
      BY <1>8
    <2> HIDE DEF screen, of, total, alt
    <2>5. Turned(conn', down, view.num, view.ring) /\ (alt \/ total <= Floor(conn'))
      <3> DEFINE v == view.num
                 ring == view.ring
                 k == conn'
      <3>1. v \in Nat
        BY <1>2
      <3>2. Exact(c, down, v, FALSE) /\ Turned(c, down, v, ring)
            /\ Broadcasted(c, screen, of, total, alt, k)
        BY <1>7, <2>4
      <3> HIDE DEF v, ring, k
      <3>3. /\ ConnOK(c) /\ ~c.coalesce /\ down \in Seq(ByteSet)
        BY <1>2, <1>4, <1>7
      <3>4. Turned(k, down, v, ring)
        BY <2>1, <2>2, <3>1, <3>2, <3>3, TurnBroadcasted
      <3>5. ASSUME ~alt PROVE total <= Floor(k)
        BY <3>5, <2>1, <3>1, <3>2, <3>3, FloorBroadcasted
      <3> QED
        BY <3>4, <3>5 DEF v, ring, k
    <2> QED
      BY <2>3, <2>5 DEF Paid
  <1>9. ASSUME NEW m \in Recs, FrameStep(c, Latest', m, conn'), UNCHANGED <<session, overlay>>
        PROVE  /\ Turned(conn', down, view.num, view.ring)
               /\ Paid(conn', overlay'.up, session'.alt, session'.rows)
    <2>1. /\ Turned(conn', down, view.num, view.ring) /\ Floor(conn') = Floor(c)
          /\ conn'.framed = c.framed
      <3> DEFINE v == view.num
                 ring == view.ring
                 k == conn'
                 screen == Latest'
      <3>1. v \in Nat /\ m \in Recs
        BY <1>2
      <3>2. Exact(c, down, v, FALSE) /\ Turned(c, down, v, ring) /\ FrameStep(c, screen, m, k)
        BY <1>7, <1>9
      <3> HIDE DEF v, ring, k, screen
      <3>3. /\ ConnOK(c) /\ ~c.coalesce /\ down \in Seq(ByteSet)
        BY <1>2, <1>4, <1>7
      <3>4. Turned(k, down, v, ring)
        BY <3>1, <3>2, <3>3, TurnFrame
      <3>5. Floor(k) = Floor(c) /\ k.framed = c.framed
        BY <3>2, FloorFrame
      <3> QED
        BY <3>4, <3>5 DEF v, ring, k
    <2> QED
      BY <1>7, <1>9, <2>1 DEF Paid
  <1>10. CASE conn' = c /\ (~c.framed \/ overlay'.up \/ UNCHANGED <<session, overlay>>)
    BY <1>7, <1>10 DEF Paid
  <1> QED
    BY <1>4, <1>8, <1>9, <1>10 DEF Answers

\* The ring goes on with the rows of a record.
LEMMA RingedOn ==
    ASSUME NEW ring \in Seq(Pairs), NEW floor \in Nat, NEW a \in Nat, NEW b \in Nat, a < b,
           Ringed(ring, floor, a)
    PROVE  Ringed(ring \o Rows(0, a + 1, b), floor, b)
  <1> DEFINE q == ring \o Rows(0, a + 1, b)
             l == Len(ring)
  <1>1. /\ l \in Nat /\ Len(q) = l + (b - a)
        /\ \A i \in 1 .. l : q[i] = ring[i]
        /\ \A i \in l + 1 .. l + (b - a) : q[i] = <<0, a + (i - l)>>
    BY RingRows
  <1>2. floor <= a /\ l = a - floor /\ \A i \in 1 .. a - floor : ring[i] = <<0, floor + i>>
    BY DEF Ringed
  <1> HIDE DEF q, l
  <1>3. Len(q) = b - floor
    BY <1>1, <1>2
  <1>4. ASSUME NEW i \in 1 .. b - floor PROVE q[i] = <<0, floor + i>>
    <2>1. CASE i <= l
      BY <1>1, <1>2, <2>1
    <2>2. CASE ~(i <= l)
      <3>1. i \in l + 1 .. l + (b - a) /\ a + (i - l) = floor + i
        BY <1>1, <1>2, <2>2
      <3> QED
        BY <1>1, <3>1
    <2> QED
      BY <2>1, <2>2
  <1>5. Ringed(q, floor, b)
    BY <1>2, <1>3, <1>4 DEF Ringed
  <1> QED
    BY <1>5 DEF q

\* The viewport takes the next rows, or a frame.
LEMMA TurnTake ==
    ASSUME Shapes, Served, ExactInv, TurnInv, Take
    PROVE  TurnInv'
  <1>0. UNCHANGED <<session, overlay, conn, ended>>
    BY DEF Take
  <1> SUFFICES ASSUME ~conn.coalesce
               PROVE  Turned(conn, down', view'.num, view'.ring)
    BY <1>0 DEF TurnInv
  <1> DEFINE r == down[1][1]
             n == conn.producer.num
             v == view.num
             b == conn.buf
             z == Size(down', b)
  <1>1. /\ n \in Nat /\ v \in Nat /\ view \in Views /\ b \in Seq(ByteSet)
        /\ down \in Seq(ByteSet) /\ Len(down) >= 2 /\ r \in Recs
        /\ conn.sb_floor \in Nat
    BY TakeShape DEF Shapes, ConnOK, Conns, Producers, Views, Take
  <1>2. /\ z \in Nat /\ Size(down, b) = z + 2
        /\ \A i \in 1 .. z : Byte(down', b, i) = Byte(down, b, i + 2)
        /\ Byte(down, b, 1) = down[1]
    <2>1. /\ down' \in Seq(ByteSet) /\ Len(down') = Len(down) - 2
          /\ \A i \in 1 .. Len(down) - 2 : down'[i] = down[2 + i]
      BY TakeShape
    <2> QED
      BY <1>1, <2>1, ByteTake
  <1>3. v <= n /\ Numbered(r, v + 1, n)
    <2>1. /\ v <= n
          /\ \A k \in Nat : 2 * k + 1 <= z + 2 =>
                Numbered(Byte(down, b, 2 * k + 1)[1], v + k + 1, n)
      BY <1>2 DEF ExactInv, Exact
    <2>2. 0 \in Nat /\ 2 * 0 + 1 <= z + 2 /\ 2 * 0 + 1 = 1 /\ v + 0 + 1 = v + 1
      BY <1>1, <1>2
    <2> QED
      BY <1>2, <2>1, <2>2
  <1>4. PICK tot \in Totals : InTurn(tot, conn, down, v, view.ring)
    BY DEF TurnInv, Turned
  <1>5. /\ tot[n] = Floor(conn) /\ Ringed(view.ring, conn.sb_floor, tot[v])
        /\ \A k \in Nat : 2 * k + 1 <= z + 2 /\ v + k + 1 <= n =>
              Adds(Byte(down, b, 2 * k + 1)[1], tot[v + k], tot[v + k + 1])
    BY <1>2, <1>4 DEF InTurn
  <1> HIDE DEF r, z
  <1>6. CASE v + 1 > n
    <2>1. r.kind = "exit" /\ v = n
      BY <1>1, <1>3, <1>6 DEF Numbered
    <2>2. view' = [view EXCEPT !.exited = TRUE]
      BY <2>1 DEF Take, r
    <2>3. view'.num = v /\ view'.ring = view.ring
      BY <1>1, <2>2 DEF Views
    <2>4. ASSUME NEW k \in Nat, v + k + 1 <= n PROVE FALSE
      BY <1>1, <2>1, <2>4
    <2>5. InTurn(tot, conn, down', v, view.ring)
      BY <1>5, <2>4 DEF InTurn
    <2> QED
      BY <2>3, <2>5 DEF Turned
  <1>7. CASE ~(v + 1 > n)
    <2>1. /\ r.kind # "exit" /\ r.num = v + 1
          /\ r.kind \in {"diff", "rows"} => r.base = v
      BY <1>1, <1>3, <1>7 DEF Numbered
    <2>2. Fits(r)
      BY <1>1, <2>1 DEF Fits
    <2>3. view' = Shown(r)
      BY <2>1 DEF Take, r
    <2>4. /\ view'.num = v + 1
          /\ view'.ring = IF r.kind = "rows" THEN view.ring \o r.rows ELSE view.ring
      BY <1>1, <2>1, <2>2, <2>3 DEF Shown, Views
    <2>5. v + 1 \in Nat /\ tot[v] \in Nat /\ tot[v + 1] \in Nat /\ view.ring \in Seq(Pairs)
      <3>1. \A i \in Nat : tot[i] \in Nat
        BY <1>4 DEF Totals
      <3>2. v \in Nat /\ v + 1 \in Nat /\ view.ring \in Seq(Pairs)
        BY <1>1 DEF Views
      <3> HIDE DEF v
      <3> QED
        BY <3>1, <3>2
    <2>6. Adds(r, tot[v], tot[v + 1])
      <3>1. 0 \in Nat /\ 2 * 0 + 1 <= z + 2 /\ 2 * 0 + 1 = 1 /\ v + 0 + 1 = v + 1 /\ v + 0 = v
        BY <1>1, <1>2
      <3>2. Byte(down, b, 2 * 0 + 1)[1] = r
        BY <1>2, <3>1 DEF r
      <3>3. v + 0 + 1 <= n
        BY <1>1, <1>7
      <3> QED
        BY <1>5, <3>1, <3>2, <3>3
    <2>7. Ringed(view'.ring, conn.sb_floor, tot[v + 1])
      <3> DEFINE low == tot[v]
                 high == tot[v + 1]
                 ring == view.ring
                 f == conn.sb_floor
      <3>1. /\ low \in Nat /\ high \in Nat /\ ring \in Seq(Pairs) /\ f \in Nat
            /\ Ringed(ring, f, low)
        BY <1>1, <1>5, <2>5
      <3>2. /\ low <= high
            /\ r.kind \in {"full", "diff"} => low = high
            /\ r.kind = "rows" => low < high /\ r.rows = Rows(0, low + 1, high)
        BY <2>6 DEF Adds
      <3> HIDE DEF low, high, ring, f
      <3>3. CASE r.kind = "rows"
        <4>1. Ringed(ring \o Rows(0, low + 1, high), f, high)
          BY <3>1, <3>2, <3>3, RingedOn
        <4>2. view'.ring = ring \o Rows(0, low + 1, high)
          BY <2>4, <3>2, <3>3 DEF ring
        <4> QED
          BY <4>1, <4>2 DEF f, high
      <3>4. CASE r.kind # "rows"
        <4>1. r.kind \in {"full", "diff"}
          BY <1>1, <2>1, <3>4 DEF Recs
        <4>2. view'.ring = ring
          BY <2>4, <3>4 DEF ring
        <4>3. low = high
          BY <3>2, <4>1
        <4> QED
          BY <3>1, <4>2, <4>3 DEF f, high
      <3> QED
        BY <3>3, <3>4
    <2>8. ASSUME NEW k \in Nat, 2 * k + 1 <= z, v + 1 + k + 1 <= n
          PROVE  Adds(Byte(down', b, 2 * k + 1)[1], tot[v + 1 + k], tot[v + 1 + k + 1])
      <3>0. v \in Nat /\ z \in Nat /\ n \in Nat
        BY <1>1, <1>2
      <3> HIDE DEF v, n, b
      <3>1. /\ 2 * k + 1 \in 1 .. z /\ k + 1 \in Nat /\ 2 * (k + 1) + 1 <= z + 2
            /\ 2 * k + 1 + 2 = 2 * (k + 1) + 1 /\ v + 1 + k + 1 = v + (k + 1) + 1
            /\ v + 1 + k = v + (k + 1)
        BY <2>8, <3>0
      <3>2. Byte(down', b, 2 * k + 1) = Byte(down, b, 2 * (k + 1) + 1)
        BY <1>2, <3>1
      <3>3. Adds(Byte(down, b, 2 * (k + 1) + 1)[1], tot[v + (k + 1)], tot[v + (k + 1) + 1])
        BY <1>5, <2>8, <3>1
      <3> QED
        BY <3>1, <3>2, <3>3
    <2>9. InTurn(tot, conn, down', v + 1, view'.ring)
      BY <1>5, <2>7, <2>8 DEF InTurn, z
    <2> QED
      BY <2>4, <2>9 DEF Turned
  <1> QED
    BY <1>6, <1>7

\* Every step keeps the rows in turn.
LEMMA TurnStep ==
    ASSUME Shapes, Served, ExactInv, TurnInv, [Next]_vars, MaxOverlayRows = 0
    PROVE  TurnInv'
  <1>1. /\ ConnOK(conn) /\ down \in Seq(ByteSet) /\ view \in Views /\ ended \in BOOLEAN
        /\ conn.buf \in Seq(ByteSet) /\ conn.producer.num \in Nat /\ view.num \in Nat
    BY DEF Shapes, ConnOK, Conns, Producers, Views
  <1>2. Len(conn.buf) \in Nat /\ Len(down) \in Nat /\ Size(down, conn.buf) \in Nat
    <2>1. Len(conn.buf) \in Nat /\ Len(down) \in Nat
      BY <1>1, LenProperties
    <2> QED
      BY <2>1 DEF Size
  <1>3. CASE Daemon
    BY <1>3, TurnDaemon
  <1>4. ASSUME NEW n \in 1 .. SockCap, Drain(n)
        PROVE  TurnInv'
    <2>1. n \in 1 .. Len(conn.buf) /\ n \in 0 .. Len(conn.buf)
      BY <1>2, <1>4, LocalBounds DEF Drain, LocalBounds
    <2>2. conn' = Drained(conn, n) /\ UNCHANGED <<view, session, overlay>>
      BY <1>1, <1>4 DEF Drain, Drained, ConnOK, Conns
    <2>3. /\ conn'.producer = conn.producer /\ conn'.coalesce = conn.coalesce
          /\ conn'.framed = conn.framed /\ conn'.sb_floor = conn.sb_floor
          /\ conn'.sb_acked = conn.sb_acked
          /\ conn'.buf = SubSeq(conn.buf, n + 1, Len(conn.buf))
      BY <1>1, <2>1, <2>2, DrainedShape
    <2>4. /\ Size(down', conn'.buf) = Size(down, conn.buf)
          /\ \A i \in 1 .. Size(down, conn.buf) :
                Byte(down', conn'.buf, i) = Byte(down, conn.buf, i)
      <3> DEFINE t == down \o SubSeq(conn.buf, 1, n)
                 d == SubSeq(conn.buf, n + 1, Len(conn.buf))
      <3>1. /\ Size(t, d) = Size(down, conn.buf)
            /\ \A i \in 1 .. Size(down, conn.buf) : Byte(t, d, i) = Byte(down, conn.buf, i)
        BY <1>1, <2>1, ByteDrain
      <3>2. down' = t /\ conn'.buf = d
        BY <1>4, <2>3 DEF Drain
      <3> HIDE DEF t, d
      <3> QED
        BY <3>1, <3>2
    <2>5. ~conn.coalesce => Turned(conn', down', view.num, view.ring)
      BY <1>2, <2>3, <2>4, TurnSame DEF TurnInv
    <2>6. Floor(conn') = Floor(conn)
      BY <2>3 DEF Floor
    <2> QED
      BY <2>2, <2>3, <2>5, <2>6 DEF TurnInv, Paid
  <1>5. ASSUME NEW n \in 0 .. Len(conn.buf) + 2, End(n)
        PROVE  TurnInv'
    <2>1. /\ conn'.producer = conn.producer /\ conn'.buf = <<>>
          /\ conn'.coalesce = conn.coalesce /\ conn'.framed = conn.framed
          /\ conn'.sb_floor = conn.sb_floor /\ conn'.sb_acked = conn.sb_acked
      BY <1>1, <1>5, ClosedShape DEF End, Closed
    <2>2. UNCHANGED <<view, session, overlay>>
      BY <1>5 DEF End
    <2>3. Floor(conn') = Floor(conn)
      BY <2>1 DEF Floor
    <2> SUFFICES ASSUME ~conn.coalesce
                 PROVE  Turned(conn', down', view.num, view.ring)
      BY <2>1, <2>2, <2>3 DEF TurnInv, Paid
    <2>4. /\ down' \in Seq(ByteSet)
          /\ \A i \in 1 .. Size(down', <<>>) :
                IF i <= Size(down, conn.buf) THEN Byte(down', <<>>, i) = Byte(down, conn.buf, i)
                ELSE Byte(down', <<>>, i)[1] = Exit
      <3> DEFINE t == down \o SubSeq(conn.buf \o Bytes(Exit), 1, n)
      <3>1. /\ t \in Seq(ByteSet)
            /\ \A i \in 1 .. Size(t, <<>>) :
                  IF i <= Size(down, conn.buf) THEN Byte(t, <<>>, i) = Byte(down, conn.buf, i)
                  ELSE Byte(t, <<>>, i)[1] = Exit
        BY <1>1, ByteEnd
      <3>2. down' = t
        BY <1>5 DEF End
      <3> HIDE DEF t
      <3> QED
        BY <3>1, <3>2
    <2> DEFINE l == conn.producer.num
               v == view.num
               z == Size(down, conn.buf)
    <2>5. v <= l /\ z = 2 * (l - v)
      BY <1>5 DEF ExactInv, Exact, End
    <2>6. l \in Nat /\ v \in Nat /\ z \in Nat
      BY <1>1, <1>2
    <2>7. PICK tot \in Totals : InTurn(tot, conn, down, v, view.ring)
      BY DEF TurnInv, Turned
    <2> HIDE DEF z
    <2>8. ASSUME NEW k \in Nat, 2 * k + 1 <= Size(down', <<>>), v + k + 1 <= l
          PROVE  Adds(Byte(down', <<>>, 2 * k + 1)[1], tot[v + k], tot[v + k + 1])
      <3>1. 2 * k + 1 \in 1 .. Size(down', <<>>)
        <4>1. Size(down', <<>>) \in Nat
          <5>1. Len(down') \in Nat /\ Len(<<>>) = 0
            BY <2>4, LenProperties, EmptySeq
          <5> QED
            BY <5>1 DEF Size
        <4> QED
          BY <2>8, <4>1
      <3>2. 2 * k + 1 <= z
        BY <2>5, <2>6, <2>8
      <3>3. Byte(down', <<>>, 2 * k + 1) = Byte(down, conn.buf, 2 * k + 1)
        BY <2>4, <3>1, <3>2 DEF z
      <3> QED
        BY <2>7, <2>8, <3>2, <3>3 DEF InTurn, z
    <2>9. InTurn(tot, conn', down', v, view.ring)
      BY <2>1, <2>3, <2>7, <2>8 DEF InTurn
    <2> QED
      BY <2>9 DEF Turned
  <1>6. CASE Take
    BY <1>6, TurnTake
  <1>7. CASE Resume \/ Escape
    BY <1>7 DEF Resume, Escape, TurnInv
  <1>8. CASE Toggle
    BY <1>8 DEF Toggle, TurnInv
  <1>9. CASE UNCHANGED vars
    BY <1>9 DEF vars, TurnInv
  <1> QED
    BY <1>3, <1>4, <1>5, <1>6, <1>7, <1>8, <1>9 DEF Next, Daemon

\* No row is sent at the start, nor has any been.
LEMMA TurnInit == Init => TurnInv
  <1> SUFFICES ASSUME Init PROVE TurnInv
    OBVIOUS
  <1>1. /\ conn.producer = NewProducer /\ conn.buf = <<>> /\ down = <<>>
        /\ view.num = 0 /\ view.ring = <<>> /\ conn.sb_floor = 0 /\ conn.sb_acked = 0
        /\ conn.framed = FALSE
    BY DEF Init, NewConn
  <1>2. conn.producer.num = 0
    BY <1>1 DEF NewProducer
  <1> DEFINE tot == [i \in Nat |-> 0]
  <1>3. tot \in Totals /\ tot[0] = 0
    BY DEF Totals
  <1> HIDE DEF tot
  <1>4. Floor(conn) = 0
    BY <1>1 DEF Floor
  <1>5. Ringed(view.ring, 0, 0)
    <2>1. Len(<<>>) = 0
      BY EmptySeq
    <2> QED
      BY <1>1, <2>1 DEF Ringed
  <1>6. ASSUME NEW k \in Nat, 0 + k + 1 <= 0 PROVE FALSE
    BY <1>6
  <1>7. InTurn(tot, conn, down, view.num, view.ring)
    BY <1>1, <1>2, <1>3, <1>4, <1>5, <1>6 DEF InTurn
  <1> QED
    BY <1>1, <1>3, <1>7 DEF TurnInv, Turned, Paid

-----------------------------------------------------------------------------
(* The rows of a viewport that coalesces: it has every row the daemon       *)
(* counts as acknowledged, or may still come to, and the rows on their way  *)
(* go on from rows that it has.                                             *)

\* The ring has the rows after `floor` up to `total`.
Has(ring, floor, total) ==
    \A j \in floor + 1 .. total : \E i \in 1 .. Len(ring) : ring[i] = <<0, j>>

\* Rows are of the session, none before the one above it.
InOrder(ring, floor) ==
    \A i \in 1 .. Len(ring) :
        /\ ring[i][1] = 0
        /\ ring[i][2] = floor + 1 \/ \E j \in 1 .. i - 1 : ring[j] = <<0, ring[i][2] - 1>>

\* At number n the viewport has the rows that n would acknowledge.
Slotted(c, ring, n) ==
    /\ n <= c.producer.num
    /\ \A f \in c.producer.sent : f.num = n => Has(ring, c.sb_floor, f.total)

\* Rows go on from those of the ring, up to what they would acknowledge; a
\* frame acknowledges none.
Follows(c, ring, r, a, t) ==
    /\ a < t /\ c.sb_floor <= a /\ Has(ring, c.sb_floor, a) /\ r.rows = Rows(0, a + 1, t)
    /\ \A f \in c.producer.sent : f.num = r.num => f.total = t

Carries(c, ring, r) ==
    r.kind # "exit" =>
        /\ r.num <= c.producer.num
        /\ r.kind = "rows" => \E a, t \in Nat : Follows(c, ring, r, a, t)
        /\ r.kind # "rows" => \A f \in c.producer.sent : f.num = r.num => f.total = 0

Held(c, s, ring) ==
    /\ Has(ring, c.sb_floor, c.sb_acked)
    /\ \A i \in 1 .. Size(s, c.buf) : Carries(c, ring, Byte(s, c.buf, i)[1])

Counted(c, u, ring) == \A i \in 1 .. Len(u) : u[i].kind = "ack" => Slotted(c, ring, u[i].num)

HeldInv ==
    conn.coalesce /\ ~toggled =>
        /\ InOrder(view.ring, conn.sb_floor) /\ Held(conn, down, view.ring)
        /\ Slotted(conn, view.ring, view.num) /\ Counted(conn, up, view.ring)

\* d is c with a number more, and the slot of it.
NewSlot(c, d, total) ==
    /\ d.producer.num = c.producer.num + 1
    /\ d.sb_floor = c.sb_floor /\ d.sb_acked = c.sb_acked
    /\ \A f \in d.producer.sent :
          f \in c.producer.sent \/ (f.num = c.producer.num + 1 /\ f.total = total)

\* What was held of the numbers so far is held still.
LEMMA SlottedOn ==
    ASSUME NEW c, ConnOK(c), NEW d, NEW total, NewSlot(c, d, total), NEW ring
    PROVE  /\ \A n \in Nat : Slotted(c, ring, n) => Slotted(d, ring, n)
           /\ \A r \in Recs : Carries(c, ring, r) => Carries(d, ring, r)
  <1>1. c.producer.num \in Nat
    BY FloorIs
  <1>2. ASSUME NEW n \in Nat, n <= c.producer.num
        PROVE  /\ n <= d.producer.num
               /\ \A f \in d.producer.sent : f.num = n => f \in c.producer.sent
    BY <1>1, <1>2 DEF NewSlot
  <1>3. d.sb_floor = c.sb_floor
    BY DEF NewSlot
  <1>4. ASSUME NEW n \in Nat, Slotted(c, ring, n) PROVE Slotted(d, ring, n)
    BY <1>2, <1>3, <1>4 DEF Slotted
  <1>5. ASSUME NEW r \in Recs, Carries(c, ring, r) PROVE Carries(d, ring, r)
    <2>1. CASE r.kind = "exit"
      BY <2>1 DEF Carries
    <2>2. CASE r.kind # "exit"
      <3>1. r.num \in Nat /\ r.num <= c.producer.num
        BY <1>5, <2>2 DEF Carries, Recs
      <3>2. /\ r.num <= d.producer.num
            /\ \A f \in d.producer.sent : f.num = r.num => f \in c.producer.sent
        BY <1>2, <3>1
      <3>3. ASSUME r.kind = "rows" PROVE \E a, t \in Nat : Follows(d, ring, r, a, t)
        <4>1. PICK a \in Nat, t \in Nat : Follows(c, ring, r, a, t)
          BY <1>5, <2>2, <3>3 DEF Carries
        <4>2. Follows(d, ring, r, a, t)
          BY <1>3, <3>2, <4>1 DEF Follows
        <4> QED
          BY <4>2
      <3>4. ASSUME r.kind # "rows"
            PROVE  \A f \in d.producer.sent : f.num = r.num => f.total = 0
        BY <1>5, <2>2, <3>2, <3>4 DEF Carries
      <3> QED
        BY <3>2, <3>3, <3>4 DEF Carries
    <2> QED
      BY <2>1, <2>2
  <1> QED
    BY <1>4, <1>5

\* A record at the end of the stream, or in place of the last.
LEMMA HeldPut ==
    ASSUME NEW c, ConnOK(c), NEW s \in Seq(ByteSet), NEW ring, Held(c, s, ring),
           NEW d, NEW total, NewSlot(c, d, total), NEW m \in Recs, Carries(d, ring, m),
           NEW at, Puts(s, c, d, at, m), at <= Size(s, c.buf)
    PROVE  Held(d, s, ring)
  <1> DEFINE z == Size(s, c.buf)
  <1>1. z \in Nat /\ c.buf \in Seq(ByteSet)
    <2>1. c.buf \in Seq(ByteSet)
      BY DEF ConnOK, Conns
    <2>2. Len(s) \in Nat /\ Len(c.buf) \in Nat
      BY <2>1, LenProperties
    <2> QED
      BY <2>1, <2>2 DEF Size
  <1>2. /\ at \in Nat /\ Size(s, d.buf) = at + 2
        /\ \A i \in 1 .. at : Byte(s, d.buf, i) = Byte(s, c.buf, i)
        /\ Byte(s, d.buf, at + 1) = <<m, 1>> /\ Byte(s, d.buf, at + 2) = <<m, 2>>
    BY DEF Puts
  <1>3. at <= z /\ \A i \in 1 .. z : Carries(c, ring, Byte(s, c.buf, i)[1])
    BY DEF Held
  <1>4. \A i \in 1 .. z : Byte(s, c.buf, i)[1] \in Recs
    <2> SUFFICES ASSUME NEW i \in 1 .. z PROVE Byte(s, c.buf, i) \in ByteSet
      BY DEF ByteSet
    <2>1. Len(s) \in Nat /\ Len(c.buf) \in Nat
      BY <1>1, LenProperties
    <2>2. CASE i <= Len(s)
      <3>1. i \in 1 .. Len(s)
        BY <1>1, <2>1, <2>2
      <3>2. s[i] \in ByteSet
        BY <3>1, ElementOfSeq
      <3> QED
        BY <2>2, <3>2 DEF Byte
    <2>3. CASE ~(i <= Len(s))
      <3>1. i - Len(s) \in 1 .. Len(c.buf)
        BY <1>1, <2>1, <2>3 DEF Size
      <3>2. c.buf[i - Len(s)] \in ByteSet
        BY <1>1, <3>1, ElementOfSeq
      <3> QED
        BY <2>3, <3>2 DEF Byte
    <2> QED
      BY <2>2, <2>3
  <1> HIDE DEF z
  <1>5. ASSUME NEW i \in 1 .. at + 2 PROVE Carries(d, ring, Byte(s, d.buf, i)[1])
    <2>1. CASE i <= at
      <3>1. i \in 1 .. at /\ i \in 1 .. z
        BY <1>1, <1>2, <1>3, <2>1
      <3> DEFINE r == Byte(s, c.buf, i)[1]
      <3>2. r \in Recs /\ Carries(c, ring, r) /\ Byte(s, d.buf, i)[1] = r
        BY <1>2, <1>3, <1>4, <3>1
      <3> HIDE DEF r
      <3>3. Carries(d, ring, r)
        BY <3>2, SlottedOn
      <3> QED
        BY <3>2, <3>3
    <2>2. CASE ~(i <= at)
      <3>1. i = at + 1 \/ i = at + 2
        BY <1>2, <2>2
      <3> QED
        BY <1>2, <3>1
    <2> QED
      BY <2>1, <2>2
  <1>6. Has(ring, d.sb_floor, d.sb_acked)
    BY DEF Held, NewSlot
  <1> QED
    BY <1>2, <1>5, <1>6 DEF Held

\* A frame, ...
LEMMA HeldFrame ==
    ASSUME NEW c, ConnOK(c), Coalescing(c), NEW s \in Seq(ByteSet), NEW ring, Held(c, s, ring),
           NEW screen, NEW m \in Recs, NEW d, FrameStep(c, screen, m, d)
    PROVE  Held(d, s, ring) /\ NewSlot(c, d, 0) /\ ConnOK(d) /\ Coalescing(d)
  <1>1. /\ m.kind \in {"full", "diff"} /\ m.num = c.producer.num + 1 /\ d.producer.num = m.num
        /\ d.sb_floor = c.sb_floor /\ d.sb_acked = c.sb_acked
        /\ \A f \in d.producer.sent :
              f \in c.producer.sent \/ (f.num = c.producer.num + 1 /\ f.total = 0)
        /\ ConnOK(d) /\ d.coalesce = c.coalesce /\ d.off = c.off
    BY DEF FrameStep
  <1>2. NewSlot(c, d, 0)
    BY <1>1 DEF NewSlot
  <1>3. Carries(d, ring, m)
    <2>1. /\ c.producer.num \in Nat
          /\ \A f \in c.producer.sent : f.num \in Nat /\ f.num <= c.producer.num
      BY DEF ConnOK, Conns, Producers, Holds, Slots
    <2>2. \A f \in d.producer.sent : f.num = m.num => f.total = 0
      BY <1>1, <2>1
    <2>3. m.num <= d.producer.num
      BY <1>1, <2>1
    <2> QED
      BY <1>1, <2>2, <2>3 DEF Carries
  <1> DEFINE at == Len(s) + Cut(c)
  <1>4. Puts(s, c, d, at, m) /\ at <= Size(s, c.buf)
    BY PutsFrame
  <1> HIDE DEF at
  <1>5. Held(d, s, ring)
    BY <1>2, <1>3, <1>4, HeldPut
  <1> QED
    BY <1>1, <1>2, <1>5 DEF Coalescing

\* ... and rows of the session that are not there.
LEMMA HeldRows ==
    ASSUME NEW c, ConnOK(c), Coalescing(c), NEW s \in Seq(ByteSet), NEW ring, Held(c, s, ring),
           NEW total \in Nat, NEW m \in Recs, NEW f, NEW d, RowsStep(c, 0, total, m, f, d)
    PROVE  Held(d, s, ring) /\ NewSlot(c, d, total)
  <1>1. /\ m.kind = "rows" /\ m.num = c.producer.num + 1 /\ d.producer.num = m.num
        /\ m.rows = Rows(0, Floor(c) + 1, total) /\ Floor(c) < total
        /\ d.sb_floor = c.sb_floor /\ d.sb_acked = c.sb_acked
        /\ \A g \in d.producer.sent :
              g \in c.producer.sent \/ (g.num = c.producer.num + 1 /\ g.total = total)
    <2>1. Floor(c) \in Nat
      BY FloorIs
    <2> QED
      BY <2>1 DEF RowsStep
  <1>2. NewSlot(c, d, total)
    BY <1>1 DEF NewSlot
  <1>3. Carries(d, ring, m)
    <2>1. /\ c.producer.num \in Nat
          /\ \A g \in c.producer.sent : g.num \in Nat /\ g.num <= c.producer.num
      BY DEF ConnOK, Conns, Producers, Holds, Slots
    <2>2. \A g \in d.producer.sent : g.num = m.num => g.total = total
      BY <1>1, <2>1
    <2>3. /\ Floor(c) \in Nat /\ c.sb_floor <= Floor(c) /\ c.sb_floor \in Nat
          /\ Floor(c) = c.sb_acked \/ Floor(c) = c.sb_floor
      BY FloorIs
    <2>4. Has(ring, c.sb_floor, Floor(c))
      <3>1. CASE Floor(c) = c.sb_acked
        BY <3>1 DEF Held
      <3>2. CASE Floor(c) = c.sb_floor
        <4>1. \A j \in c.sb_floor + 1 .. c.sb_floor : FALSE
          BY <2>3
        <4> QED
          BY <3>2, <4>1 DEF Has
      <3> QED
        BY <2>3, <3>1, <3>2
    <2>5. Follows(d, ring, m, Floor(c), total)
      BY <1>1, <2>2, <2>3, <2>4 DEF Follows
    <2>6. m.num <= d.producer.num
      BY <1>1, <2>1
    <2> QED
      BY <1>1, <2>3, <2>5, <2>6 DEF Carries
  <1> DEFINE at == Size(s, c.buf)
  <1>4. Puts(s, c, d, at, m)
    BY PutsRows
  <1>5. at <= at
    BY <1>4 DEF Puts
  <1>6. Held(d, s, ring)
    BY <1>2, <1>3, <1>4, <1>5, HeldPut
  <1> QED
    BY <1>2, <1>6

\* What a step of the daemon leaves of all that.
HeldStill(c, d, s, ring) ==
    /\ Held(d, s, ring) /\ d.sb_floor = c.sb_floor
    /\ \A n \in Nat : Slotted(c, ring, n) => Slotted(d, ring, n)

\* Both, for a broadcast.
LEMMA HeldBroadcasted ==
    ASSUME NEW c, ConnOK(c), Coalescing(c), NEW s \in Seq(ByteSet), NEW ring, Held(c, s, ring),
           NEW screen, NEW of, NEW total \in Nat, of = 0 \/ total = 0,
           NEW alt, NEW k, Broadcasted(c, screen, of, total, alt, k)
    PROVE  HeldStill(c, k, s, ring)
  <1>1. PICK m \in Recs, d \in Conns :
           /\ FrameStep(c, screen, m, d)
           /\ k = d \/ \E r \in Recs, f \in d.producer.sent : RowsStep(d, of, total, r, f, k)
    BY DEF Broadcasted
  <1>2. Held(d, s, ring) /\ NewSlot(c, d, 0) /\ ConnOK(d) /\ Coalescing(d)
    <2>1. FrameStep(c, screen, m, d)
      BY <1>1
    <2> QED
      BY <2>1, HeldFrame
  <1>3. /\ \A n \in Nat : Slotted(c, ring, n) => Slotted(d, ring, n)
        /\ d.sb_floor = c.sb_floor
    BY <1>2, SlottedOn DEF NewSlot
  <1>4. HeldStill(c, d, s, ring)
    BY <1>2, <1>3 DEF HeldStill
  <1>5. ASSUME NEW r \in Recs, NEW f \in d.producer.sent, RowsStep(d, of, total, r, f, k)
        PROVE  HeldStill(c, k, s, ring)
    <2>1. of = 0
      <3>1. Floor(d) \in Nat /\ total > Floor(d)
        BY <1>2, <1>5, FloorIs DEF RowsStep
      <3> QED
        BY <3>1
    <2>2. RowsStep(d, 0, total, r, f, k)
      BY <1>5, <2>1
    <2>3. Held(k, s, ring) /\ NewSlot(d, k, total)
      BY <1>2, <2>2, HeldRows
    <2>4. /\ \A n \in Nat : Slotted(d, ring, n) => Slotted(k, ring, n)
          /\ k.sb_floor = d.sb_floor
      BY <1>2, <2>3, SlottedOn DEF NewSlot
    <2> QED
      BY <1>3, <2>3, <2>4 DEF HeldStill
  <1> QED
    BY <1>1, <1>4, <1>5

\* An empty ring has the rows up to the floor.
LEMMA HasNone ==
    ASSUME NEW total \in Nat, NEW floor \in Nat, Has(<<>>, 0, total)
    PROVE  total = 0 /\ Has(<<>>, floor, total)
  <1>1. Len(<<>>) = 0
    BY EmptySeq
  <1>2. total = 0
    <2> SUFFICES ASSUME total # 0 PROVE FALSE
      OBVIOUS
    <2>1. 1 \in 0 + 1 .. total
      OBVIOUS
    <2>2. PICK i \in 1 .. Len(<<>>) : <<>>[i] = <<0, 1>>
      BY <2>1 DEF Has
    <2> QED
      BY <1>1, <2>2
  <1>3. \A j \in floor + 1 .. 0 : FALSE
    OBVIOUS
  <1> QED
    BY <1>2, <1>3 DEF Has

\* What the daemon starts from holds the same; the rows begin at the attach.
LEMMA StartsHeld ==
    ASSUME Shapes, Served, ~ended, Untoggled, conn.coalesce, ~conn.off,
           NEW ring, ring = view.ring, InOrder(ring, conn.sb_floor), Held(conn, down, ring),
           Slotted(conn, ring, view.num), Counted(conn, up, ring),
           NEW c, ConnOK(c), Starts(c)
    PROVE  /\ InOrder(ring, c.sb_floor) /\ Held(c, down, ring) /\ Coalescing(c)
           /\ \A n \in Nat : Slotted(conn, ring, n) => Slotted(c, ring, n)
  <1>1. /\ ConnOK(conn) /\ session.rows \in Nat /\ up \in Seq(Msgs)
        /\ \A f \in conn.producer.sent : f.total \in Nat /\ f.num <= conn.producer.num
        /\ conn.sb_floor \in Nat
    BY DEF Shapes, Msgs, ConnOK, Conns, Producers, Slots, Holds
  <1>2. /\ c.buf = conn.buf /\ c.coalesce = conn.coalesce
        /\ c.producer.num = conn.producer.num
        /\ \A f \in c.producer.sent : f \in conn.producer.sent
    BY StartsShape
  <1>3. ASSUME c.sb_floor = conn.sb_floor
        PROVE  /\ \A n \in Nat : Slotted(conn, ring, n) => Slotted(c, ring, n)
               /\ \A r : Carries(conn, ring, r) => Carries(c, ring, r)
    <2>1. \A n \in Nat : Slotted(conn, ring, n) => Slotted(c, ring, n)
      BY <1>2, <1>3 DEF Slotted
    <2>2. \A r, a, t : Follows(conn, ring, r, a, t) => Follows(c, ring, r, a, t)
      BY <1>2, <1>3 DEF Follows
    <2>3. ASSUME NEW r, Carries(conn, ring, r) PROVE Carries(c, ring, r)
      BY <1>2, <2>2, <2>3 DEF Carries
    <2> QED
      BY <2>1, <2>3
  <1>4. ASSUME c.sb_floor = conn.sb_floor, Has(ring, c.sb_floor, c.sb_acked), ~c.off
        PROVE  /\ InOrder(ring, c.sb_floor) /\ Held(c, down, ring) /\ Coalescing(c)
               /\ \A n \in Nat : Slotted(conn, ring, n) => Slotted(c, ring, n)
    BY <1>2, <1>3, <1>4 DEF Held, Coalescing
  <1>5. CASE c = conn
    BY <1>4, <1>5 DEF Held
  <1>6. CASE c = DropBase(conn)
    <2> DEFINE d == DropBase(conn)
    <2>1. d.sb_floor = conn.sb_floor /\ d.sb_acked = conn.sb_acked /\ d.off = conn.off
      BY <1>1, DropBaseShape
    <2> HIDE DEF d
    <2>2. c = d
      BY <1>6 DEF d
    <2> QED
      BY <1>4, <2>1, <2>2 DEF Held
  <1>7. CASE up # <<>> /\ Head(up) \in Acks /\ c = Heard(conn, Head(up))
    <2> DEFINE m == Head(up)
    <2>1. m \in Acks /\ m.kind = "ack" /\ ~m.off /\ m.num \in Nat
      <3>1. Head(up).kind = "ack" /\ Head(up).num \in Nat
        BY <1>7 DEF Acks
      <3> QED
        BY <1>1, <1>7, <3>1, HeadUntoggled
    <2>2. Slotted(conn, ring, m.num)
      <3>1. 1 \in 1 .. Len(up) /\ m = up[1]
        <4>1. Len(up) \in Nat \ {0} /\ Head(up) = up[1]
          BY <1>1, <1>7, EmptySeq
        <4> QED
          BY <4>1
      <3> QED
        BY <2>1, <3>1 DEF Counted
    <2> HIDE DEF m
    <2>3. c = Heard(conn, m)
      BY <1>7 DEF m
    <2>4. /\ c.off = m.off /\ c.sb_floor = conn.sb_floor
          /\ \/ c.sb_acked = conn.sb_acked
             \/ \E f \in conn.producer.sent : f.num = m.num /\ c.sb_acked = f.total
      BY <1>1, <2>1, <2>3, HeardShape
    <2>5. Has(ring, c.sb_floor, c.sb_acked)
      <3>1. CASE c.sb_acked = conn.sb_acked
        BY <2>4, <3>1 DEF Held
      <3>2. CASE \E f \in conn.producer.sent : f.num = m.num /\ c.sb_acked = f.total
        BY <2>2, <2>4, <3>2 DEF Slotted
      <3> QED
        BY <2>4, <3>1, <3>2
    <2> QED
      BY <1>4, <2>1, <2>4, <2>5
  <1>8. CASE ~conn.framed /\ c = Attached(conn, session.rows)
    <2> DEFINE d == Attached(conn, session.rows)
    <2>1. /\ d.sb_floor = session.rows /\ d.sb_acked = conn.sb_acked /\ d.off = conn.off
          /\ d.producer = conn.producer
      BY <1>1, AttachedShape
    <2> HIDE DEF d
    <2>2. c = d
      BY <1>8 DEF d
    <2>3. /\ conn.sb_acked = 0 /\ conn.sb_floor = 0 /\ ring = <<>>
          /\ conn.buf = <<>> /\ down = <<>>
      BY <1>8 DEF Served, Virgin
    <2>4. Len(<<>>) = 0
      BY EmptySeq
    <2>5. InOrder(ring, c.sb_floor)
      BY <2>3, <2>4 DEF InOrder
    <2>6. Held(c, down, ring)
      <3>1. Has(ring, c.sb_floor, 0)
        <4>1. \A j \in session.rows + 1 .. 0 : FALSE
          BY <1>1
        <4> QED
          BY <2>1, <2>2, <4>1 DEF Has
      <3>2. \A i \in 1 .. Size(down, c.buf) : FALSE
        BY <1>2, <2>3, <2>4 DEF Size
      <3>3. c.sb_acked = 0
        BY <2>1, <2>2, <2>3
      <3> QED
        BY <3>1, <3>2, <3>3 DEF Held
    <2>7. ASSUME NEW n \in Nat, Slotted(conn, ring, n) PROVE Slotted(c, ring, n)
      <3>1. ASSUME NEW f \in conn.producer.sent, f.num = n
            PROVE  Has(ring, session.rows, f.total)
        <4>1. Has(<<>>, 0, f.total)
          BY <2>3, <2>7, <3>1 DEF Slotted
        <4> DEFINE t == f.total
                   w == session.rows
        <4>2. t \in Nat /\ w \in Nat /\ Has(<<>>, 0, t)
          BY <1>1, <4>1
        <4> HIDE DEF t, w
        <4>3. Has(<<>>, w, t)
          BY <4>2, HasNone
        <4> QED
          BY <2>3, <4>3 DEF t, w
      <3>2. c.producer = conn.producer /\ c.sb_floor = session.rows
        BY <2>1, <2>2
      <3> QED
        BY <2>7, <3>1, <3>2 DEF Slotted
    <2>8. Coalescing(c)
      BY <1>2, <2>1, <2>2 DEF Coalescing
    <2> QED
      BY <2>5, <2>6, <2>7, <2>8
  <1> QED
    BY <1>5, <1>6, <1>7, <1>8 DEF Starts

Grows(ring, q, a, b) == q = ring \o Rows(0, a + 1, b)

\* Rows that go on from the ring keep it, and its order.
LEMMA RingOn ==
    ASSUME NEW ring \in Seq(Pairs), NEW floor \in Nat, NEW a \in Nat, NEW b \in Nat, a < b,
           floor <= a, Has(ring, floor, a), NEW q, Grows(ring, q, a, b)
    PROVE  /\ Has(q, floor, b)
           /\ InOrder(ring, floor) => InOrder(q, floor)
           /\ \A t \in Nat : Has(ring, floor, t) => Has(q, floor, t)
  <1> DEFINE l == Len(ring)
             p == ring \o Rows(0, a + 1, b)
  <1>1. /\ l \in Nat /\ Len(p) = l + (b - a)
        /\ \A i \in 1 .. l : p[i] = ring[i]
        /\ \A i \in l + 1 .. l + (b - a) : p[i] = <<0, a + (i - l)>>
    BY RingRows
  <1>2. q = p
    BY DEF Grows
  <1> HIDE DEF l, p
  <1>3. /\ l \in Nat /\ Len(q) = l + (b - a) /\ l = Len(ring)
        /\ \A i \in 1 .. l : q[i] = ring[i]
        /\ \A i \in l + 1 .. l + (b - a) : q[i] = <<0, a + (i - l)>>
    BY <1>1, <1>2 DEF l
  <1>4. ASSUME NEW t \in Nat, Has(ring, floor, t) PROVE Has(q, floor, t)
    <2> SUFFICES ASSUME NEW j \in floor + 1 .. t
                 PROVE  \E i \in 1 .. l + (b - a) : q[i] = <<0, j>>
      BY <1>3 DEF Has
    <2>1. PICK i \in 1 .. l : ring[i] = <<0, j>>
      BY <1>3, <1>4 DEF Has
    <2>2. i \in 1 .. l + (b - a) /\ q[i] = <<0, j>>
      BY <1>3, <2>1
    <2> QED
      BY <2>2
  <1>5. Has(q, floor, b)
    <2> SUFFICES ASSUME NEW j \in floor + 1 .. b
                 PROVE  \E i \in 1 .. l + (b - a) : q[i] = <<0, j>>
      BY <1>3 DEF Has
    <2>1. CASE j <= a
      <3>1. j \in floor + 1 .. a
        BY <2>1
      <3>2. PICK i \in 1 .. l : ring[i] = <<0, j>>
        BY <1>3, <3>1 DEF Has
      <3>3. i \in 1 .. l + (b - a) /\ q[i] = <<0, j>>
        BY <1>3, <3>2
      <3> QED
        BY <3>3
    <2>2. CASE ~(j <= a)
      <3> DEFINE i == l + (j - a)
      <3>1. i \in l + 1 .. l + (b - a) /\ i \in 1 .. l + (b - a) /\ a + (i - l) = j
        BY <1>3, <2>2
      <3>2. q[i] = <<0, j>>
        BY <1>3, <3>1
      <3> QED
        BY <3>1, <3>2
    <2> QED
      BY <2>1, <2>2
  <1>6. ASSUME InOrder(ring, floor) PROVE InOrder(q, floor)
    <2> SUFFICES ASSUME NEW i \in 1 .. l + (b - a)
                 PROVE  /\ q[i][1] = 0
                        /\ \/ q[i][2] = floor + 1
                           \/ \E j \in 1 .. i - 1 : q[j] = <<0, q[i][2] - 1>>
      BY <1>3 DEF InOrder
    <2>1. CASE i <= l
      <3>1. i \in 1 .. l /\ q[i] = ring[i]
        BY <1>3, <2>1
      <3>2. /\ ring[i][1] = 0
            /\ ring[i][2] = floor + 1 \/ \E j \in 1 .. i - 1 : ring[j] = <<0, ring[i][2] - 1>>
        BY <1>3, <1>6, <3>1 DEF InOrder
      <3>3. ASSUME NEW j \in 1 .. i - 1, ring[j] = <<0, ring[i][2] - 1>>
            PROVE  q[j] = <<0, q[i][2] - 1>>
        <4>1. j \in 1 .. l
          BY <1>3, <3>1
        <4>2. q[j] = ring[j]
          BY <1>3, <4>1
        <4> QED
          BY <3>1, <3>3, <4>2
      <3> QED
        BY <3>1, <3>2, <3>3
    <2>2. CASE ~(i <= l)
      <3> DEFINE k == a + (i - l)
      <3>0. i \in l + 1 .. l + (b - a) /\ k = a + (i - l) /\ k \in Int
        BY <1>3, <2>2
      <3> HIDE DEF k
      <3>1. i \in l + 1 .. l + (b - a) /\ k \in Int /\ q[i] = <<0, k>>
        BY <1>3, <3>0
      <3>2. q[i][1] = 0 /\ q[i][2] = k
        <4>1. <<0, k>>[1] = 0 /\ <<0, k>>[2] = k
          OBVIOUS
        <4> QED
          BY <3>1, <4>1
      <3>3. CASE i = l + 1
        <4>1. k = a + 1
          BY <1>3, <3>0, <3>3
        <4>2. CASE a = floor
          BY <3>2, <4>1, <4>2
        <4>3. CASE a # floor
          <5>1. a \in floor + 1 .. a
            BY <4>3
          <5>2. PICK j \in 1 .. l : ring[j] = <<0, a>>
            BY <1>3, <5>1 DEF Has
          <5>3. j \in 1 .. i - 1 /\ q[j] = <<0, a>> /\ k - 1 = a
            BY <1>3, <3>3, <4>1, <5>2
          <5> QED
            BY <3>2, <5>3
        <4> QED
          BY <4>2, <4>3
      <3>4. CASE i # l + 1
        <4> DEFINE j == i - 1
        <4>1. j \in l + 1 .. l + (b - a) /\ j \in 1 .. i - 1 /\ a + (j - l) = k - 1
          BY <1>3, <3>0, <3>1, <3>4
        <4>2. q[j] = <<0, k - 1>>
          BY <1>3, <4>1
        <4> QED
          BY <3>2, <4>1, <4>2
      <3> QED
        BY <3>3, <3>4
    <2> QED
      BY <2>1, <2>2
  <1> QED
    BY <1>4, <1>5, <1>6

\* A ring that grew holds what it held.
LEMMA HeldGrown ==
    ASSUME NEW c, ConnOK(c), NEW ring, NEW q,
           \A t \in Nat : Has(ring, c.sb_floor, t) => Has(q, c.sb_floor, t)
    PROVE  /\ \A n : Slotted(c, ring, n) => Slotted(c, q, n)
           /\ \A r : Carries(c, ring, r) => Carries(c, q, r)
  <1>1. \A f \in c.producer.sent : f.total \in Nat
    BY DEF ConnOK, Conns, Producers, Slots
  <1>2. \A n : Slotted(c, ring, n) => Slotted(c, q, n)
    BY <1>1 DEF Slotted
  <1>3. \A r : \A a, t \in Nat : Follows(c, ring, r, a, t) => Follows(c, q, r, a, t)
    BY DEF Follows
  <1>4. ASSUME NEW r, Carries(c, ring, r) PROVE Carries(c, q, r)
    BY <1>3, <1>4 DEF Carries
  <1> QED
    BY <1>2, <1>4

\* What the messages would acknowledge, as they are read, ...
LEMMA CountedTail ==
    ASSUME up \in Seq(Msgs), up # <<>>, NEW c, NEW ring, Counted(c, up, ring)
    PROVE  Counted(c, Tail(up), ring)
  <1> DEFINE t == Tail(up)
             n == Len(up)
  <1>1. /\ n \in Nat \ {0} /\ Len(t) = n - 1 /\ \A i \in 1 .. Len(t) : t[i] = up[i + 1]
    BY HeadTailProperties, LenProperties, EmptySeq
  <1> HIDE DEF t
  <1>2. \A i \in 1 .. n - 1 : i + 1 \in 1 .. n /\ t[i] = up[i + 1]
    BY <1>1
  <1>3. Counted(c, t, ring)
    BY <1>1, <1>2 DEF Counted
  <1> QED
    BY <1>3 DEF t

\* ... and as they are sent.
LEMMA CountedAppend ==
    ASSUME up \in Seq(Msgs), NEW m \in Msgs, NEW c, NEW ring, Counted(c, up, ring),
           m.kind = "ack" => Slotted(c, ring, m.num)
    PROVE  Counted(c, Append(up, m), ring)
  <1> DEFINE n == Len(up)
             t == Append(up, m)
  <1>1. /\ n \in Nat /\ Len(t) = n + 1 /\ t[n + 1] = m /\ \A i \in 1 .. n : t[i] = up[i]
    BY AppendProperties, LenProperties
  <1> HIDE DEF t
  <1>2. \A i \in 1 .. n + 1 : i \in 1 .. n \/ i = n + 1
    BY <1>1
  <1>3. Counted(c, t, ring)
    BY <1>1, <1>2 DEF Counted
  <1> QED
    BY <1>3 DEF t

\* A step of the daemon holds on to what the viewport has.
LEMMA HeldDaemon ==
    ASSUME BufferInv, Served, HeldInv, Daemon, MaxOverlayRows = 0
    PROVE  HeldInv'
  <1>0. Shapes
    BY DEF BufferInv
  <1>1. Sources' /\ Served'
    <2>1. [Next]_vars
      BY DEF Daemon, Next
    <2>2. Shapes' /\ Served'
      BY <1>0, <2>1, ShapesStep, ServedStep
    <2> QED
      BY <2>2 DEF Shapes, Sources
  <1>2. /\ ConnOK(conn) /\ down \in Seq(ByteSet) /\ view.num \in Nat /\ up \in Seq(Msgs)
        /\ \A i \in 1 .. Len(up) : up[i].kind = "ack" => up[i].num \in Nat
    <2>1. up \in Seq(Msgs)
      BY <1>0 DEF Shapes, Msgs
    <2>2. \A i \in 1 .. Len(up) : up[i] \in Msgs
      BY <2>1, ElementOfSeq
    <2>3. \A m \in Msgs : m.kind = "ack" => m.num \in Nat
      BY DEF Msgs, Acks, InitMsg, ShellMsg
    <2> QED
      BY <1>0, <2>1, <2>2, <2>3 DEF Shapes, Views
  <1>3. /\ ~ended /\ UNCHANGED <<down, view, toggled, ended>>
        /\ up' = up \/ (up # <<>> /\ up' = Tail(up))
    BY <1>0, DaemonCases
  <1>4. PICK c : ConnOK(c) /\ Starts(c) /\ Answers(c)
    BY <1>0, DaemonCases
  <1>5. c.coalesce = conn.coalesce
    BY <1>0, <1>4, StartsShape
  <1>6. conn'.coalesce = c.coalesce
    <2>1. CASE Broadcasted(c, Latest', SourceOf', SourceTotal', SourceAlt', conn')
      BY <1>4, <2>1, FreshBroadcast
    <2>2. CASE \E m \in Recs : FrameStep(c, Latest', m, conn')
      BY <2>2 DEF FrameStep
    <2> QED
      BY <1>4, <2>1, <2>2 DEF Answers
  <1> DEFINE ring == view.ring
             v == view.num
             k == conn'
  <1> SUFFICES ASSUME conn.coalesce, ~toggled
               PROVE  /\ InOrder(ring, k.sb_floor) /\ Held(k, down, ring)
                      /\ Slotted(k, ring, v) /\ Counted(k, up', ring)
    BY <1>3, <1>5, <1>6 DEF HeldInv
  <1>7. /\ InOrder(ring, conn.sb_floor) /\ Held(conn, down, ring)
        /\ Slotted(conn, ring, v) /\ Counted(conn, up, ring) /\ v \in Nat /\ ring = view.ring
    BY <1>2 DEF HeldInv
  <1>8. ~conn.off /\ Untoggled
    BY DEF BufferInv, CoalOK
  <1> HIDE DEF ring, v, k
  <1>9. /\ InOrder(ring, c.sb_floor) /\ Held(c, down, ring) /\ Coalescing(c)
        /\ \A n \in Nat : Slotted(conn, ring, n) => Slotted(c, ring, n)
    <2>1. Slotted(conn, ring, view.num)
      BY <1>7 DEF v
    <2> QED
      BY <1>0, <1>3, <1>4, <1>7, <1>8, <2>1, StartsHeld
  <1>10. HeldStill(c, k, down, ring)
    <2>1. CASE Broadcasted(c, Latest', SourceOf', SourceTotal', SourceAlt', conn')
      <3> DEFINE screen == Latest'
                 of == SourceOf'
                 total == SourceTotal'
                 alt == SourceAlt'
      <3>1. total \in Nat /\ (of = 0 \/ total = 0)
        BY <1>1 DEF Sources, SourceOf, SourceTotal, Served
      <3>2. Broadcasted(c, screen, of, total, alt, k)
        BY <2>1 DEF k
      <3> HIDE DEF screen, of, total, alt
      <3> QED
        BY <1>2, <1>4, <1>9, <3>1, <3>2, HeldBroadcasted
    <2>2. ASSUME NEW m \in Recs, FrameStep(c, Latest', m, conn') PROVE HeldStill(c, k, down, ring)
      <3> DEFINE screen == Latest'
      <3>1. FrameStep(c, screen, m, k)
        BY <2>2 DEF k
      <3> HIDE DEF screen
      <3>2. Held(k, down, ring) /\ NewSlot(c, k, 0)
        BY <1>2, <1>4, <1>9, <3>1, HeldFrame
      <3>3. /\ \A n \in Nat : Slotted(c, ring, n) => Slotted(k, ring, n)
            /\ k.sb_floor = c.sb_floor
        BY <1>4, <3>2, SlottedOn DEF NewSlot
      <3> QED
        BY <3>2, <3>3 DEF HeldStill
    <2>3. CASE conn' = c
      BY <1>9, <2>3 DEF HeldStill, k
    <2> QED
      BY <1>4, <2>1, <2>2, <2>3 DEF Answers
  <1>11. \A n \in Nat : Slotted(conn, ring, n) => Slotted(k, ring, n)
    BY <1>9, <1>10 DEF HeldStill
  <1>12. Counted(k, up, ring)
    BY <1>2, <1>7, <1>11 DEF Counted
  <1>13. Counted(k, up', ring)
    <2>1. CASE up' = up
      BY <1>12, <2>1
    <2>2. CASE up # <<>> /\ up' = Tail(up)
      BY <1>2, <1>12, <2>2, CountedTail
    <2> QED
      BY <1>3, <2>1, <2>2
  <1> QED
    BY <1>7, <1>9, <1>10, <1>11, <1>13 DEF HeldStill

\* The viewport takes rows that go on from its own, or a frame.
LEMMA HeldTake ==
    ASSUME Shapes, Served, HeldInv, Take
    PROVE  HeldInv'
  <1>0. UNCHANGED <<conn, toggled, ended>>
    BY DEF Take
  <1> SUFFICES ASSUME conn.coalesce, ~toggled
               PROVE  /\ InOrder(view'.ring, conn.sb_floor) /\ Held(conn, down', view'.ring)
                      /\ Slotted(conn, view'.ring, view'.num) /\ Counted(conn, up', view'.ring)
    BY <1>0 DEF HeldInv
  <1> DEFINE r == down[1][1]
             ring == view.ring
             q == view'.ring
             b == conn.buf
             z == Size(down', b)
             floor == conn.sb_floor
  <1>1. /\ ConnOK(conn) /\ view \in Views /\ b \in Seq(ByteSet) /\ up \in Seq(Msgs)
        /\ down \in Seq(ByteSet) /\ Len(down) >= 2 /\ floor \in Nat /\ ring \in Seq(Pairs)
    BY DEF Shapes, ConnOK, Conns, Views, Take, Msgs
  <1>2. /\ down' \in Seq(ByteSet) /\ Len(down') = Len(down) - 2
        /\ \A i \in 1 .. Len(down) - 2 : down'[i] = down[2 + i]
        /\ r \in Recs /\ view' \in Views
        /\ up' = up \/ up' = Append(up, Ack(view'.num, Behind(r), FALSE))
        /\ up' \in Seq(Msgs)
    BY TakeShape
  <1>3. /\ z \in Nat /\ Size(down, b) = z + 2
        /\ \A i \in 1 .. z : Byte(down', b, i) = Byte(down, b, i + 2)
        /\ Byte(down, b, 1) = down[1]
    BY <1>1, <1>2, ByteTake
  <1>4. /\ InOrder(ring, floor) /\ Held(conn, down, ring)
        /\ Slotted(conn, ring, view.num) /\ Counted(conn, up, ring)
    BY DEF HeldInv
  <1>5. Carries(conn, ring, r)
    <2>1. 1 \in 1 .. Size(down, b) /\ Byte(down, b, 1)[1] = r
      BY <1>3
    <2> QED
      BY <1>4, <2>1 DEF Held
  <1>6. /\ r.kind = "exit" => view'.num = view.num /\ q = ring
        /\ r.kind # "exit" => view' = Shown(r)
    BY <1>1 DEF Take, Views
  <1> HIDE DEF r, z
  <1>7. /\ InOrder(q, floor) /\ Slotted(conn, q, view'.num)
        /\ \A t \in Nat : Has(ring, floor, t) => Has(q, floor, t)
    <2>1. CASE r.kind = "exit"
      BY <1>4, <1>6, <2>1
    <2>2. CASE r.kind # "exit" /\ ~Fits(r)
      <3>1. view' = view
        BY <1>6, <2>2 DEF Shown
      <3> QED
        BY <1>4, <3>1
    <2>3. CASE r.kind = "rows" /\ Fits(r)
      <3>1. view'.num = r.num /\ q = ring \o r.rows
        BY <1>1, <1>6, <2>3 DEF Shown, Views
      <3>2. r.num <= conn.producer.num /\ \E a, t \in Nat : Follows(conn, ring, r, a, t)
        BY <1>5, <2>3 DEF Carries
      <3>3. PICK a \in Nat, t \in Nat : Follows(conn, ring, r, a, t)
        BY <3>2
      <3>4. /\ a < t /\ floor <= a /\ Has(ring, floor, a) /\ r.rows = Rows(0, a + 1, t)
            /\ \A f \in conn.producer.sent : f.num = r.num => f.total = t
        BY <3>3 DEF Follows
      <3>5. Grows(ring, q, a, t)
        BY <3>1, <3>4 DEF Grows
      <3> HIDE DEF ring, q, floor
      <3>6. ring \in Seq(Pairs) /\ floor \in Nat /\ a < t /\ floor <= a /\ Has(ring, floor, a)
        BY <1>1, <3>4
      <3>7. Has(q, floor, t)
        BY <3>5, <3>6, RingOn
      <3>8. InOrder(q, floor)
        BY <1>4, <3>5, <3>6, RingOn
      <3>9. \A n \in Nat : Has(ring, floor, n) => Has(q, floor, n)
        BY <3>5, <3>6, RingOn
      <3>10. Slotted(conn, q, view'.num)
        BY <3>1, <3>2, <3>4, <3>7 DEF Slotted, floor
      <3> QED
        BY <3>8, <3>9, <3>10
    <2>4. CASE r.kind \notin {"rows", "exit"} /\ Fits(r)
      <3>1. view'.num = r.num /\ q = ring
        BY <1>1, <1>6, <2>4 DEF Shown, Views
      <3>2. /\ r.num <= conn.producer.num
            /\ \A f \in conn.producer.sent : f.num = r.num => f.total = 0
        BY <1>5, <2>4 DEF Carries
      <3>3. Has(ring, floor, 0)
        <4>1. \A j \in floor + 1 .. 0 : FALSE
          BY <1>1
        <4> QED
          BY <4>1 DEF Has
      <3>4. Slotted(conn, ring, r.num)
        BY <3>2, <3>3 DEF Slotted
      <3> QED
        BY <1>4, <3>1, <3>4
    <2> QED
      BY <2>1, <2>2, <2>3, <2>4
  <1> HIDE DEF ring, q
  <1>8. /\ \A n : Slotted(conn, ring, n) => Slotted(conn, q, n)
        /\ \A m : Carries(conn, ring, m) => Carries(conn, q, m)
    BY <1>1, <1>7, HeldGrown
  <1>9. Held(conn, down', q)
    <2>1. Has(q, floor, conn.sb_acked)
      <3>1. conn.sb_acked \in Nat /\ Has(ring, floor, conn.sb_acked)
        BY <1>1, <1>4, FloorIs DEF Held
      <3> QED
        BY <1>7, <3>1
    <2>2. ASSUME NEW i \in 1 .. z PROVE Carries(conn, q, Byte(down', b, i)[1])
      <3>1. i + 2 \in 1 .. z + 2
        BY <1>3
      <3>2. Carries(conn, ring, Byte(down, b, i + 2)[1])
        BY <1>3, <1>4, <3>1 DEF Held
      <3>3. Byte(down', b, i) = Byte(down, b, i + 2)
        BY <1>3
      <3> QED
        BY <1>8, <3>2, <3>3
    <2> QED
      BY <2>1, <2>2 DEF Held, z
  <1>10. Counted(conn, up', q)
    <2>1. Counted(conn, up, q)
      BY <1>4, <1>8 DEF Counted
    <2>2. CASE up' = up
      BY <2>1, <2>2
    <2>3. CASE up' = Append(up, Ack(view'.num, Behind(r), FALSE))
      <3> DEFINE m == Ack(view'.num, Behind(r), FALSE)
      <3>1. m \in Msgs
        <4>1. view'.num \in Nat /\ Behind(r) \in BOOLEAN
          BY <1>2 DEF Views, Behind
        <4> QED
          BY <4>1 DEF Ack, Msgs, Acks
      <3>2. m.num = view'.num
        BY DEF Ack
      <3> HIDE DEF m
      <3>3. up' = Append(up, m)
        BY <2>3 DEF m
      <3>4. Slotted(conn, q, m.num)
        BY <1>7, <3>2
      <3> QED
        BY <1>1, <2>1, <3>1, <3>3, <3>4, CountedAppend
    <2> QED
      BY <1>2, <2>2, <2>3
  <1> QED
    BY <1>7, <1>9, <1>10 DEF q

\* Every step holds on to what the viewport has.
LEMMA HeldStep ==
    ASSUME BufferInv, Served, HeldInv, [Next]_vars, MaxOverlayRows = 0
    PROVE  HeldInv'
  <1>1. /\ Shapes /\ ConnOK(conn) /\ down \in Seq(ByteSet) /\ view \in Views /\ up \in Seq(Msgs)
        /\ conn.buf \in Seq(ByteSet)
    BY DEF BufferInv, Shapes, ConnOK, Conns, Msgs
  <1>2. Len(conn.buf) \in Nat /\ Len(down) \in Nat /\ Size(down, conn.buf) \in Nat
    <2>1. Len(conn.buf) \in Nat /\ Len(down) \in Nat
      BY <1>1, LenProperties
    <2> QED
      BY <2>1 DEF Size
  <1>3. ASSUME conn'.producer = conn.producer, conn'.sb_floor = conn.sb_floor
        PROVE  /\ \A ring, n : Slotted(conn, ring, n) => Slotted(conn', ring, n)
               /\ \A ring, r : Carries(conn, ring, r) => Carries(conn', ring, r)
    <2>1. \A ring, n : Slotted(conn, ring, n) => Slotted(conn', ring, n)
      BY <1>3 DEF Slotted
    <2>2. \A ring, r, a, t : Follows(conn, ring, r, a, t) => Follows(conn', ring, r, a, t)
      BY <1>3 DEF Follows
    <2>3. ASSUME NEW ring, NEW r, Carries(conn, ring, r) PROVE Carries(conn', ring, r)
      BY <1>3, <2>2, <2>3 DEF Carries
    <2> QED
      BY <2>1, <2>3
  <1>4. CASE Daemon
    BY <1>4, HeldDaemon
  <1>5. ASSUME NEW n \in 1 .. SockCap, Drain(n)
        PROVE  HeldInv'
    <2>1. n \in 1 .. Len(conn.buf) /\ n \in 0 .. Len(conn.buf)
      BY <1>2, <1>5, LocalBounds DEF Drain, LocalBounds
    <2>2. conn' = Drained(conn, n) /\ UNCHANGED <<view, up, toggled>>
      BY <1>1, <1>5 DEF Drain, Drained, ConnOK, Conns
    <2>3. /\ conn'.producer = conn.producer /\ conn'.coalesce = conn.coalesce
          /\ conn'.sb_floor = conn.sb_floor /\ conn'.sb_acked = conn.sb_acked
          /\ conn'.buf = SubSeq(conn.buf, n + 1, Len(conn.buf))
      BY <1>1, <2>1, <2>2, DrainedShape
    <2> DEFINE z == Size(down, conn.buf)
    <2>4. /\ Size(down', conn'.buf) = z
          /\ \A i \in 1 .. z : Byte(down', conn'.buf, i) = Byte(down, conn.buf, i)
      <3> DEFINE t == down \o SubSeq(conn.buf, 1, n)
                 d == SubSeq(conn.buf, n + 1, Len(conn.buf))
      <3>1. /\ Size(t, d) = Size(down, conn.buf)
            /\ \A i \in 1 .. Size(down, conn.buf) : Byte(t, d, i) = Byte(down, conn.buf, i)
        BY <1>1, <2>1, ByteDrain
      <3>2. down' = t /\ conn'.buf = d
        BY <1>5, <2>3 DEF Drain
      <3> HIDE DEF t, d
      <3> QED
        BY <3>1, <3>2
    <2> SUFFICES ASSUME conn.coalesce, ~toggled
                 PROVE  /\ InOrder(view.ring, conn'.sb_floor) /\ Held(conn', down', view.ring)
                        /\ Slotted(conn', view.ring, view.num) /\ Counted(conn', up, view.ring)
      BY <2>2, <2>3 DEF HeldInv
    <2>5. /\ InOrder(view.ring, conn.sb_floor) /\ Held(conn, down, view.ring)
          /\ Slotted(conn, view.ring, view.num) /\ Counted(conn, up, view.ring)
      BY DEF HeldInv
    <2>6. Held(conn', down', view.ring)
      <3>1. ASSUME NEW i \in 1 .. z
            PROVE  Carries(conn', view.ring, Byte(down', conn'.buf, i)[1])
        <4>1. Carries(conn, view.ring, Byte(down, conn.buf, i)[1])
          BY <2>5 DEF Held
        <4>2. Byte(down', conn'.buf, i) = Byte(down, conn.buf, i)
          BY <2>4
        <4> QED
          BY <1>3, <2>3, <4>1, <4>2
      <3>2. Has(view.ring, conn'.sb_floor, conn'.sb_acked)
        BY <2>3, <2>5 DEF Held
      <3> QED
        BY <2>4, <3>1, <3>2 DEF Held
    <2>7. Slotted(conn', view.ring, view.num) /\ Counted(conn', up, view.ring)
      BY <1>3, <2>3, <2>5 DEF Counted
    <2> QED
      BY <2>3, <2>5, <2>6, <2>7
  <1>6. ASSUME NEW n \in 0 .. Len(conn.buf) + 2, End(n)
        PROVE  HeldInv'
    <2>1. /\ conn'.producer = conn.producer /\ conn'.buf = <<>>
          /\ conn'.coalesce = conn.coalesce
          /\ conn'.sb_floor = conn.sb_floor /\ conn'.sb_acked = conn.sb_acked
      BY <1>1, <1>6, ClosedShape DEF End, Closed
    <2>2. UNCHANGED <<view, toggled>> /\ up' = <<>>
      BY <1>6 DEF End
    <2>3. \A i \in 1 .. Size(down', <<>>) :
             IF i <= Size(down, conn.buf) THEN Byte(down', <<>>, i) = Byte(down, conn.buf, i)
             ELSE Byte(down', <<>>, i)[1] = Exit
      <3> DEFINE t == down \o SubSeq(conn.buf \o Bytes(Exit), 1, n)
      <3>1. \A i \in 1 .. Size(t, <<>>) :
               IF i <= Size(down, conn.buf) THEN Byte(t, <<>>, i) = Byte(down, conn.buf, i)
               ELSE Byte(t, <<>>, i)[1] = Exit
        BY <1>1, ByteEnd
      <3>2. down' = t
        BY <1>6 DEF End
      <3> HIDE DEF t
      <3> QED
        BY <3>1, <3>2
    <2> SUFFICES ASSUME conn.coalesce, ~toggled
                 PROVE  /\ InOrder(view.ring, conn'.sb_floor) /\ Held(conn', down', view.ring)
                        /\ Slotted(conn', view.ring, view.num) /\ Counted(conn', <<>>, view.ring)
      BY <2>1, <2>2 DEF HeldInv
    <2>4. /\ InOrder(view.ring, conn.sb_floor) /\ Held(conn, down, view.ring)
          /\ Slotted(conn, view.ring, view.num)
      BY DEF HeldInv
    <2> DEFINE z == Size(down, conn.buf)
    <2>5. z \in Nat
      BY <1>2
    <2>6. ASSUME NEW i \in 1 .. Size(down', <<>>)
          PROVE  Carries(conn', view.ring, Byte(down', <<>>, i)[1])
      <3>1. CASE i <= z
        <4>1. i \in 1 .. z
          BY <2>5, <3>1
        <4>2. Carries(conn, view.ring, Byte(down, conn.buf, i)[1])
          BY <2>4, <4>1 DEF Held
        <4>3. Byte(down', <<>>, i) = Byte(down, conn.buf, i)
          BY <2>3, <3>1
        <4> QED
          BY <1>3, <2>1, <4>2, <4>3
      <3>2. CASE ~(i <= z)
        <4>1. Byte(down', <<>>, i)[1] = Exit
          BY <2>3, <3>2
        <4>2. Exit.kind = "exit"
          BY DEF Exit
        <4> QED
          BY <4>1, <4>2 DEF Carries
      <3> QED
        BY <3>1, <3>2
    <2>7. Held(conn', down', view.ring)
      BY <2>1, <2>4, <2>6 DEF Held
    <2>8. Counted(conn', <<>>, view.ring)
      <3>1. Len(<<>>) = 0
        BY EmptySeq
      <3> QED
        BY <3>1 DEF Counted
    <2>9. Slotted(conn', view.ring, view.num)
      BY <1>3, <2>1, <2>4
    <2> QED
      BY <2>1, <2>4, <2>7, <2>8, <2>9
  <1>7. CASE Take
    BY <1>1, <1>7, HeldTake
  <1>8. CASE Resume \/ Escape
    <2>1. PICK m \in {InitMsg, ShellMsg} : up' = Append(up, m)
      BY <1>8 DEF Resume, Escape
    <2>2. m \in Msgs /\ m.kind # "ack"
      BY DEF Msgs, InitMsg, ShellMsg
    <2>3. UNCHANGED <<conn, down, view, toggled>>
      BY <1>8 DEF Resume, Escape
    <2>4. Counted(conn, up, view.ring) => Counted(conn, up', view.ring)
      BY <1>1, <2>1, <2>2, CountedAppend
    <2> QED
      BY <2>3, <2>4 DEF HeldInv
  <1>9. CASE Toggle
    BY <1>9 DEF Toggle, HeldInv
  <1>10. CASE UNCHANGED vars
    BY <1>10 DEF vars, HeldInv
  <1> QED
    BY <1>4, <1>5, <1>6, <1>7, <1>8, <1>9, <1>10 DEF Next, Daemon

\* Nothing is held at the start.
LEMMA HeldInit == Init => HeldInv
  <1> SUFFICES ASSUME Init PROVE HeldInv
    OBVIOUS
  <1>1. /\ conn.producer = NewProducer /\ conn.buf = <<>> /\ down = <<>> /\ up = <<InitMsg>>
        /\ view.num = 0 /\ view.ring = <<>> /\ conn.sb_floor = 0 /\ conn.sb_acked = 0
    BY DEF Init, NewConn
  <1>2. conn.producer.num = 0 /\ \A f \in conn.producer.sent : f.total = 0
    BY <1>1 DEF NewProducer
  <1>3. Len(<<>>) = 0
    BY EmptySeq
  <1>4. Has(view.ring, 0, 0)
    <2>1. \A j \in 0 + 1 .. 0 : FALSE
      OBVIOUS
    <2> QED
      BY <2>1 DEF Has
  <1>5. InOrder(view.ring, 0)
    BY <1>1, <1>3 DEF InOrder
  <1>6. Size(down, conn.buf) = 0
    BY <1>1, <1>3 DEF Size
  <1>7. Held(conn, down, view.ring)
    BY <1>1, <1>4, <1>6 DEF Held
  <1>8. Slotted(conn, view.ring, 0)
    BY <1>1, <1>2, <1>4 DEF Slotted
  <1>9. Counted(conn, up, view.ring)
    <2>1. Len(up) = 1 /\ up[1].kind = "init"
      BY <1>1 DEF InitMsg
    <2> QED
      BY <2>1 DEF Counted
  <1> QED
    BY <1>1, <1>5, <1>7, <1>8, <1>9 DEF HeldInv

-----------------------------------------------------------------------------
(* Both together.                                                          *)

\* With nothing queued, the ring of a viewport that is confirmed by the daemon
\* goes to what the daemon counts as acknowledged.
LEMMA RowsShown ==
    ASSUME Shapes, ExactInv, TurnInv, HeldInv
    PROVE  RowsHeld
  <1> DEFINE floor == conn.sb_floor
             ring == view.ring
             l == Len(ring)
             v == view.num
             n == conn.producer.num
  <1>1. /\ ring \in Seq(Pairs) /\ floor \in Nat /\ v \in Nat /\ n \in Nat
        /\ l \in Nat /\ DOMAIN ring = 1 .. l /\ l = Len(ring)
    <2>1. ring \in Seq(Pairs) /\ floor \in Nat /\ v \in Nat /\ n \in Nat
      BY FloorIs DEF Shapes, Views
    <2> QED
      BY <2>1, LenProperties
  <1>2. ASSUME ~conn.coalesce
        PROVE  \E tot \in Totals : InTurn(tot, conn, down, v, ring)
    BY <1>2 DEF TurnInv, Turned
  <1>3. RowsInOrder
    <2> SUFFICES ASSUME ~toggled, NEW i \in 1 .. l
                 PROVE  /\ ring[i][1] = 0
                        /\ \/ ring[i][2] = floor + 1
                           \/ \E j \in 1 .. i - 1 : ring[j] = <<0, ring[i][2] - 1>>
                        /\ conn.coalesce \/ \A j \in 1 .. i - 1 : ring[j] # ring[i]
      BY <1>1 DEF RowsInOrder
    <2>1. CASE conn.coalesce
      <3>1. InOrder(ring, floor)
        BY <2>1 DEF HeldInv
      <3> QED
        BY <1>1, <2>1, <3>1 DEF InOrder
    <2>2. CASE ~conn.coalesce
      <3>1. PICK tot \in Totals : InTurn(tot, conn, down, v, ring)
        BY <1>2, <2>2
      <3> DEFINE t == tot[v]
      <3>2. t \in Nat /\ Ringed(ring, floor, t)
        BY <1>1, <3>1 DEF InTurn, Totals
      <3> HIDE DEF t, ring, floor, l
      <3>3. l = t - floor /\ floor <= t /\ \A j \in 1 .. l : ring[j] = <<0, floor + j>>
        BY <1>1, <3>2 DEF Ringed
      <3> DEFINE k == floor + i
      <3>4. ring[i] = <<0, k>> /\ k \in Int /\ k = floor + i
        BY <1>1, <3>3
      <3> HIDE DEF k
      <3>5. ring[i][1] = 0 /\ ring[i][2] = k
        <4>1. <<0, k>>[1] = 0 /\ <<0, k>>[2] = k
          OBVIOUS
        <4> QED
          BY <3>4, <4>1
      <3>6. k = floor + 1 \/ \E j \in 1 .. i - 1 : ring[j] = <<0, k - 1>>
        <4>1. CASE i = 1
          BY <3>4, <4>1
        <4>2. CASE i # 1
          <5>1. /\ i - 1 \in 1 .. i - 1 /\ i - 1 \in 1 .. l
                /\ floor + (i - 1) = k - 1
            BY <1>1, <3>4, <4>2
          <5>2. ring[i - 1] = <<0, k - 1>>
            BY <3>3, <5>1
          <5> QED
            BY <5>1, <5>2
        <4> QED
          BY <4>1, <4>2
      <3>7. ASSUME NEW j \in 1 .. i - 1 PROVE ring[j] # ring[i]
        <4> DEFINE h == floor + j
        <4>1. j \in 1 .. l /\ h = floor + j /\ h # k /\ h \in Int
          BY <1>1, <3>4
        <4>2. ring[j] = <<0, h>>
          BY <3>3, <4>1
        <4> HIDE DEF h
        <4>3. <<0, h>> # <<0, k>>
          BY <4>1
        <4> QED
          BY <3>4, <4>2, <4>3
      <3> QED
        BY <3>5, <3>6, <3>7
    <2> QED
      BY <2>1, <2>2
  <1>4. RowsArrive
    <2> SUFFICES ASSUME Quiet, conn.framed, ~conn.coalesce, ~overlay.up, ~session.alt,
                        NEW k \in floor + 1 .. session.rows
                 PROVE  \E i \in 1 .. l : ring[i] = <<0, k>>
      BY <1>1 DEF RowsArrive
    <2>1. PICK tot \in Totals : InTurn(tot, conn, down, v, ring)
      BY <1>2
    <2>2. v = n
      <3>1. Size(down, conn.buf) = 0
        <4>1. Len(<<>>) = 0
          BY EmptySeq
        <4> QED
          BY <4>1 DEF Quiet, Size
      <3>2. ~ended /\ v <= n /\ Size(down, conn.buf) = 2 * (n - v)
        BY DEF Quiet, ExactInv, Exact
      <3> QED
        BY <1>1, <3>1, <3>2
    <2>3. session.rows <= Floor(conn)
      BY DEF TurnInv, Paid
    <2> DEFINE t == Floor(conn)
               w == session.rows
    <2>4. Ringed(ring, floor, t)
      BY <2>1, <2>2 DEF InTurn
    <2>5. t \in Nat /\ w \in Nat /\ w <= t
      BY <2>3, FloorIs DEF Shapes
    <2> HIDE DEF t, w, ring, floor, l
    <2>6. l = t - floor /\ \A j \in 1 .. t - floor : ring[j] = <<0, floor + j>>
      BY <1>1, <2>4 DEF Ringed
    <2>7. k \in floor + 1 .. w
      BY DEF w, floor
    <2>8. k - floor \in 1 .. t - floor /\ floor + (k - floor) = k
      BY <1>1, <2>5, <2>7
    <2>9. ring[k - floor] = <<0, k>>
      BY <2>6, <2>8
    <2> QED
      BY <2>6, <2>8, <2>9
  <1> QED
    BY <1>3, <1>4 DEF RowsHeld

\* The invariant of both parts.
NothingInv == LastInv /\ TurnInv /\ HeldInv

\* Nothing of the session is lost on the way to its viewport: neither the last
\* screen nor a row, none twice and none out of order, whatever was replaced,
\* refused or repaired.  That is as long as the overlay scrolls nothing off, of
\* whose rows the daemon keeps the same count (daemon.rs:219-238).
THEOREM NothingCorrect ==
    ASSUME MaxOverlayRows = 0
    PROVE  Spec => []NothingLost
  <1>1. Init => NothingInv
    BY BufferInit, MirrorInit, ServedInit, ExactInit, CoalInit, TurnInit, HeldInit
       DEF NothingInv, LastInv
  <1>2. NothingInv /\ [Next]_vars => NothingInv'
    <2> SUFFICES ASSUME NothingInv, [Next]_vars PROVE NothingInv'
      OBVIOUS
    <2>1. /\ Shapes /\ BufferInv /\ MirrorInv /\ Served /\ ExactInv /\ CoalInv
          /\ TurnInv /\ HeldInv
      BY DEF NothingInv, LastInv, BufferInv
    <2>2. LastInv'
      BY <2>1, BufferStep, MirrorStep, ServedStep, ExactStep, CoalStep DEF LastInv
    <2>3. TurnInv'
      BY <2>1, TurnStep
    <2>4. HeldInv'
      BY <2>1, HeldStep
    <2> QED
      BY <2>2, <2>3, <2>4 DEF NothingInv
  <1>3. NothingInv => NothingLost
    <2> SUFFICES ASSUME NothingInv PROVE NothingLost
      OBVIOUS
    <2>1. LastScreen
      BY LastShown DEF NothingInv
    <2>2. Shapes /\ ExactInv /\ TurnInv /\ HeldInv
      BY DEF NothingInv, LastInv, BufferInv
    <2>3. RowsHeld
      BY <2>2, RowsShown
    <2> QED
      BY <2>1, <2>3 DEF NothingLost
  <1> QED
    BY <1>1, <1>2, <1>3, PTL DEF Spec
=============================================================================
