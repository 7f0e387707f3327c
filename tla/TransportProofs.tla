--------------------------- MODULE TransportProofs ---------------------------
(***************************************************************************)
(* The transport: the path a datagram takes, and the history stream.       *)
(*                                                                         *)
(* DatagramPath, for any window, any bounds on fragments, assemblies and   *)
(* bytes, any number of wires and any loss, duplication and order: the     *)
(* replay window is exact, the reply address follows the newest datagram,  *)
(* an instruction whose pieces all arrived comes out unless it was         *)
(* evicted, and none comes out cut, joined or twice (InstructionChannel).  *)
(*                                                                         *)
(* History, for any ring, window, body and bound on what is held back, and *)
(* any loss, duplication, order, resize and reattachment: the viewport     *)
(* holds, in order, the rows the sender means by their numbers.            *)
(***************************************************************************)
EXTENDS DatagramPath, History, FiniteSetTheorems, SequenceTheorems, WellFoundedInduction,
        TLAPS

-----------------------------------------------------------------------------
(* The datagram path: the inductive invariant. *)

\* A datagram is a piece of an instruction of this wire, and its number and
\* its place in the instruction are its own.
Cut(m) ==
    /\ m.wire = wire /\ m.seq < sender.seq
    /\ m.id \in DOMAIN sender.sizes /\ m.num < sender.sizes[m.id]
    /\ m.last <=> m.num + 1 = sender.sizes[m.id]
CutOK ==
    /\ \A m \in net \cup opened : Cut(m)
    /\ \A m, o \in net \cup opened :
          m.seq = o.seq \/ (m.id = o.id /\ m.num = o.num) => m = o

\* The bitmap is the history of the wire, as far as it reaches.
ReplayOK ==
    /\ ~replay.initialized => opened = {}
    /\ replay.initialized =>
          /\ replay.highest \in OpenedNumbers
          /\ \A s \in OpenedNumbers : s =< replay.highest
          /\ \A d \in 0 .. Window - 1 :
                d \in replay.bitmap <=> replay.highest - d \in OpenedNumbers

\* The expected number is one above the newest datagram, which moved the
\* address last.
TargetOK ==
    /\ opened = {} => expected = 0
    /\ opened # {} => \E m \in opened : m.seq + 1 = expected
    /\ \A m \in opened : /\ m.seq < expected
                         /\ is_server /\ m.seq + 1 = expected => remote = m.from

Has(id, k) == \E o \in opened : o.id = id /\ o.num = k

\* What came out is an instruction of the wire, all of its pieces opened.
WholeOK(x) ==
    \E id \in DOMAIN sender.sizes :
        /\ x = Instruction(wire, id, sender.sizes[id])
        /\ \A k \in 0 .. sender.sizes[id] - 1 : Has(id, k)
Pieced == {Instruction(w, id, n) : w \in Wires, id \in 1 .. MaxSeq, n \in Sizes}
DeliveredOK ==
    delivered \in Seq(Pieced) /\ \A i \in 1 .. Len(delivered) : WholeOK(delivered[i])

\* A part holds pieces that were opened; without an old one among them, its
\* total is the size of its instruction, known as soon as the last piece is in.
PartOK(p) ==
    /\ \A k \in DOMAIN p.pieces : /\ p.pieces[k] =< wire
                                  /\ p.pieces[k] = wire => Has(p.id, k)
    /\ p.total # 0 => DOMAIN p.pieces # {}
    /\ ~Old(p) /\ p.total # 0 => p.id \in DOMAIN sender.sizes /\ p.total = sender.sizes[p.id]
    /\ ~Old(p) => \A k \in DOMAIN p.pieces : k + 1 = sender.sizes[p.id] => p.total = k + 1
    /\ ~Complete(p)

\* One part to an id, and the untouched ones first.
Tidy(ps) ==
    \A i, j \in 1 .. Len(ps) :
        i < j => /\ ps[i].id # ps[j].id
                 /\ DOMAIN ps[j].pieces = {} => DOMAIN ps[i].pieces = {}
PartsOK ==
    /\ Tidy(assembly.parts)
    /\ \A i \in 1 .. Len(assembly.parts) : PartOK(assembly.parts[i])

\* Nothing of an instruction that is not spoiled was lost.
HeldIn(ps, id, k) == \E i \in 1 .. Len(ps) : ps[i].id = id /\ k \in DOMAIN ps[i].pieces
Undelivered(id) == \A i \in 1 .. Len(delivered) : delivered[i].id # id
HeldOK ==
    ~reconnecting =>
       /\ \A i \in 1 .. Len(assembly.parts) :
             Old(assembly.parts[i]) => assembly.parts[i].id \in spoiled
       /\ \A id \in (DOMAIN sender.sizes) \ spoiled :
             sender.sizes[id] =< MaxFragments /\ Undelivered(id)
             => \A o \in opened : o.id = id => HeldIn(assembly.parts, id, o.num)

\* A condemned wire leaves a new one to dial.
SpareOK == reconnecting => wire < MaxWires

IndInv ==
    /\ TypeOK /\ CutOK /\ ReplayOK /\ TargetOK
    /\ DeliveredOK /\ PartsOK /\ HeldOK /\ SpareOK

-----------------------------------------------------------------------------
(* Sending. *)

\* make_fragments gives an instruction the next id and leaves the others alone.
LEMMA SentTypes ==
  ASSUME SenderTypes, ReceiverTypes, NEW n \in Sizes, Send(n)
  PROVE  /\ SenderTypes'
         /\ Len(sender.sizes)' = Len(sender.sizes) + 1
         /\ \A id \in DOMAIN sender.sizes : sender'.sizes[id] = sender.sizes[id]
         /\ sender'.sizes[Len(sender.sizes) + 1] = n
         /\ DOMAIN sender.sizes = 1 .. Len(sender.sizes)
         /\ DOMAIN sender'.sizes = 1 .. Len(sender.sizes) + 1
         /\ sender'.seq = sender.seq + n
         /\ Len(sender.sizes) + 1 \in 1 .. MaxSeq
  <1> USE PathBounds
  <1> DEFINE z == sender.sizes
  <1>1. z \in Seq(Sizes) /\ Len(z) \in Nat /\ Len(z) =< sender.seq /\ sender.seq \in Nat
    BY DEF SenderTypes, Numbers
  <1>2. /\ sender'.sizes = Append(z, n) /\ sender'.seq = sender.seq + n
        /\ sender'.addr = sender.addr /\ sender'.seq =< MaxSeq
        /\ n >= 1 /\ n =< MaxFragments + 1 /\ n \in Nat
        /\ sender' = [seq |-> sender'.seq, sizes |-> sender'.sizes, addr |-> sender'.addr]
    <2>1. sender' = [sender EXCEPT !.seq = @ + n, !.sizes = Append(@, n)]
      BY DEF Send
    <2>2. sender \in [seq : Numbers, sizes : Seq(Sizes), addr : 1 .. MaxAddr]
      BY DEF SenderTypes
    <2>3. sender' = [seq |-> sender.seq + n, sizes |-> Append(z, n), addr |-> sender.addr]
      BY <2>1, <2>2
    <2>4. sender.seq + n =< MaxSeq
      BY DEF Send
    <2> QED BY <2>3, <2>4 DEF Sizes
  <1>3. /\ Append(z, n) \in Seq(Sizes) /\ Len(Append(z, n)) = Len(z) + 1
        /\ \A i \in 1 .. Len(z) : Append(z, n)[i] = z[i]
        /\ Append(z, n)[Len(z) + 1] = n
    BY <1>1, AppendProperties
  <1>4. net' \subseteq Datagrams
    <2>1. \A k \in 0 .. n - 1 : Datagram(k, n) \in Datagrams
      <3> TAKE k \in 0 .. n - 1
      <3>1. wire \in Wires /\ sender.addr \in 1 .. MaxAddr
        BY DEF SenderTypes, ReceiverTypes
      <3>2. /\ sender.seq + k \in 0 .. MaxSeq - 1 /\ Len(sender.sizes) + 1 \in 1 .. MaxSeq
            /\ k \in 0 .. MaxFragments
        <4>1. /\ Len(z) \in Nat /\ Len(z) =< sender.seq /\ sender.seq \in Nat
              /\ sender.seq + n =< MaxSeq /\ n \in Nat /\ n >= 1 /\ n =< MaxFragments + 1
          BY <1>1, <1>2
        <4> QED BY <4>1
      <3>3. (k = n - 1) \in BOOLEAN
        OBVIOUS
      <3> QED BY <3>1, <3>2, <3>3 DEF Datagram, Datagrams
    <2> QED BY <2>1 DEF Send, SenderTypes
  <1>5. copies' = copies BY DEF Send
  <1>7. sender'.sizes \in Seq(Sizes) /\ sender'.seq \in Numbers /\ sender'.addr \in 1 .. MaxAddr
    BY <1>1, <1>2, <1>3 DEF SenderTypes, Numbers
  <1>8. SenderTypes'
    <2>1. sender' \in [seq : Numbers, sizes : Seq(Sizes), addr : 1 .. MaxAddr]
      BY <1>2, <1>7
    <2>2. Len(sender'.sizes) =< sender'.seq
      BY <1>1, <1>2, <1>3
    <2>3. copies' \in 0 .. MaxCopies
      BY <1>5 DEF SenderTypes
    <2> QED BY <2>1, <2>2, <2>3, <1>4 DEF SenderTypes
  <1>6. DOMAIN z = 1 .. Len(z) /\ DOMAIN sender'.sizes = 1 .. Len(z) + 1
    BY <1>1, <1>2, <1>3, LenProperties
  <1>9. Len(sender'.sizes) = Len(z) + 1 /\ sender'.sizes[Len(z) + 1] = n
    BY <1>2, <1>3
  <1>10. \A id \in 1 .. Len(z) : sender'.sizes[id] = z[id]
    BY <1>2, <1>3
  <1>11. Len(z) + 1 \in 1 .. MaxSeq
    <2>1. /\ Len(z) \in Nat /\ sender.seq \in Nat /\ n \in Nat /\ n >= 1
          /\ Len(z) =< sender.seq
      BY <1>1, <1>2
    <2>2. sender.seq + n =< MaxSeq BY <1>2
    <2> QED BY <2>1, <2>2
  <1>12. sender'.seq = sender.seq + n BY <1>2
  <1> QED
    BY <1>6, <1>8, <1>9, <1>10, <1>11, <1>12

\* The pieces of a new instruction have numbers and an id of their own.
LEMMA SentCut ==
  ASSUME SenderTypes, ReceiverTypes, CutOK, NEW n \in Sizes, Send(n)
  PROVE  CutOK'
  <1> USE PathBounds
  <1> DEFINE z == sender.sizes
             new == {Datagram(k, n) : k \in 0 .. n - 1}
  <1>1. /\ \A id \in DOMAIN z : sender'.sizes[id] = z[id]
        /\ sender'.sizes[Len(z) + 1] = n
        /\ DOMAIN z = 1 .. Len(z) /\ DOMAIN sender'.sizes = 1 .. Len(z) + 1
        /\ sender'.seq = sender.seq + n /\ Len(z) \in Nat
        /\ n \in Nat /\ n >= 1 /\ sender.seq \in Nat
    BY SentTypes DEF Sizes, SenderTypes, Numbers
  <1>2. net' = net \cup new /\ opened' = opened /\ wire' = wire
    BY DEF Send, ghosts
  <1>3. \A m \in net \cup opened : m.seq \in Nat /\ m.num \in Nat /\ m.id \in Nat
    BY DEF SenderTypes, ReceiverTypes, Datagrams
  <1>4. ASSUME NEW m \in new
        PROVE  \E k \in 0 .. n - 1 : /\ m.seq = sender.seq + k /\ m.num = k /\ m.id = Len(z) + 1
                                     /\ m = Datagram(k, n) /\ m.wire = wire
                                     /\ m.last <=> k = n - 1
    <2>1. PICK k \in 0 .. n - 1 : m = Datagram(k, n)
      BY <1>4
    <2>2. /\ m.seq = sender.seq + k /\ m.num = k /\ m.id = Len(z) + 1 /\ m.wire = wire
          /\ m.last = (k = n - 1)
      BY <2>1 DEF Datagram
    <2> QED BY <2>1, <2>2
  <1>5. ASSUME NEW m \in net \cup opened PROVE Cut(m)'
    <2>1. /\ m.wire = wire /\ m.seq < sender.seq
          /\ m.id \in DOMAIN z /\ m.num < z[m.id]
          /\ m.last <=> m.num + 1 = z[m.id]
      BY DEF CutOK, Cut
    <2>2. sender'.sizes[m.id] = z[m.id] /\ m.id \in DOMAIN sender'.sizes
      BY <2>1, <1>1
    <2>3. m.seq < sender'.seq
      BY <2>1, <1>1, <1>3
    <2> QED BY <2>1, <2>2, <2>3, <1>2 DEF Cut
  <1>6. ASSUME NEW m \in new PROVE Cut(m)'
    <2>1. PICK k \in 0 .. n - 1 : /\ m.seq = sender.seq + k /\ m.num = k /\ m.id = Len(z) + 1
                                  /\ m.wire = wire
                                  /\ m.last <=> k = n - 1
      BY <1>4
    <2>2. m.wire = wire' /\ m.seq < sender'.seq
      BY <2>1, <1>1, <1>2
    <2>3. m.id \in DOMAIN sender'.sizes /\ sender'.sizes[m.id] = n
      BY <2>1, <1>1
    <2>4. m.num < n /\ (m.last <=> m.num + 1 = n)
      BY <2>1, <1>1
    <2> QED BY <2>2, <2>3, <2>4 DEF Cut
  <1>7. ASSUME NEW m \in (net \cup opened)', NEW o \in (net \cup opened)',
               m.seq = o.seq \/ (m.id = o.id /\ m.num = o.num)
        PROVE  m = o
    <2>1. CASE m \in new /\ o \in new
      <3>1. PICK k \in 0 .. n - 1 : m.seq = sender.seq + k /\ m.num = k /\ m = Datagram(k, n)
        BY <2>1, <1>4
      <3>2. PICK l \in 0 .. n - 1 : o.seq = sender.seq + l /\ o.num = l /\ o = Datagram(l, n)
        BY <2>1, <1>4
      <3>3. k = l BY <3>1, <3>2, <1>1, <1>7
      <3> QED BY <3>1, <3>2, <3>3
    <2>2. ASSUME NEW a \in net \cup opened, NEW b \in new
          PROVE  a.seq # b.seq /\ a.id # b.id
      <3>1. PICK k \in 0 .. n - 1 : b.seq = sender.seq + k /\ b.id = Len(z) + 1
        BY <2>2, <1>4
      <3>2. a.seq < sender.seq /\ a.id \in 1 .. Len(z)
        BY <2>2, <1>1 DEF CutOK, Cut
      <3> QED BY <3>1, <3>2, <1>1, <1>3
    <2> QED BY <2>1, <2>2, <1>2, <1>7 DEF CutOK
  <1> QED BY <1>2, <1>5, <1>6, <1>7 DEF CutOK

-----------------------------------------------------------------------------
(* The memories of the wire: the replay window and the reply address. *)

\* A number is let through when it was not opened and is within the window.
LEMMA FreshMeans ==
  ASSUME ReceiverTypes, ReplayOK, NEW s \in 0 .. MaxSeq - 1
  PROVE  Fresh(replay, s) <=> /\ s \notin OpenedNumbers
                              /\ \A t \in OpenedNumbers : s + Window > t
  <1> USE PathBounds
  <1>1. OpenedNumbers \subseteq Nat
    BY DEF OpenedNumbers, ReceiverTypes, Datagrams
  <1>2. replay.highest \in Nat /\ replay.bitmap \subseteq 0 .. Window - 1
    BY DEF ReceiverTypes, Numbers
  <1>3. CASE ~replay.initialized
    BY <1>3 DEF ReplayOK, OpenedNumbers, Fresh
  <1>4. CASE replay.initialized
    <2>1. /\ replay.highest \in OpenedNumbers
          /\ \A t \in OpenedNumbers : t =< replay.highest
          /\ \A d \in 0 .. Window - 1 : d \in replay.bitmap <=> replay.highest - d \in OpenedNumbers
      BY <1>4 DEF ReplayOK
    <2>2. CASE s > replay.highest
      BY <2>1, <2>2, <1>1, <1>2 DEF Fresh
    <2>3. CASE s =< replay.highest /\ replay.highest - s < Window
      <3>1. replay.highest - s \in 0 .. Window - 1 /\ replay.highest - (replay.highest - s) = s
        BY <2>3, <1>2
      <3>2. (replay.highest - s) \in replay.bitmap <=> s \in OpenedNumbers
        BY <3>1, <2>1
      <3> QED BY <3>2, <2>1, <2>3, <1>1, <1>2, <1>4 DEF Fresh
    <2>4. CASE s =< replay.highest /\ replay.highest - s >= Window
      BY <2>1, <2>4, <1>1, <1>2, <1>4 DEF Fresh
    <2> QED BY <2>2, <2>3, <2>4, <1>2
  <1> QED BY <1>3, <1>4

\* The bitmap after a number that was let through, case by case.
LEMMA SlideTypes ==
  ASSUME NEW r \in [highest : Numbers, bitmap : SUBSET (0 .. Window - 1), initialized : BOOLEAN],
         NEW s \in 0 .. MaxSeq - 1, Fresh(r, s)
  PROVE  /\ Slide(r, s) \in [highest : Numbers, bitmap : SUBSET (0 .. Window - 1),
                             initialized : BOOLEAN]
         /\ Slide(r, s).initialized = TRUE
         /\ ~r.initialized => Slide(r, s).highest = s /\ Slide(r, s).bitmap = {0}
         /\ r.initialized /\ s > r.highest =>
               /\ Slide(r, s).highest = s
               /\ Slide(r, s).bitmap = {0} \cup {b \in 0 .. Window - 1 : b - (s - r.highest) \in r.bitmap}
         /\ r.initialized /\ s =< r.highest =>
               /\ Slide(r, s).highest = r.highest
               /\ Slide(r, s).bitmap = r.bitmap \cup {r.highest - s}
               /\ r.highest - s \in 0 .. Window - 1
  <1> USE PathBounds DEF Numbers
  <1>1. CASE ~r.initialized BY <1>1 DEF Slide
  <1>2. CASE r.initialized /\ s > r.highest
    <2> DEFINE bits == {0} \cup {b \in 0 .. Window - 1 : b - (s - r.highest) \in r.bitmap}
    <2>1. Slide(r, s) = [r EXCEPT !.highest = s, !.bitmap = bits]
      BY <1>2 DEF Slide
    <2>2. bits \in SUBSET (0 .. Window - 1) OBVIOUS
    <2> HIDE DEF bits
    <2>3. /\ Slide(r, s) \in [highest : Numbers, bitmap : SUBSET (0 .. Window - 1),
                             initialized : BOOLEAN]
          /\ Slide(r, s).highest = s /\ Slide(r, s).bitmap = bits /\ Slide(r, s).initialized = TRUE
      <3>1. s \in Numbers OBVIOUS
      <3>2. Slide(r, s) = [highest |-> s, bitmap |-> bits, initialized |-> r.initialized]
        BY <2>1
      <3> QED BY <3>1, <3>2, <2>2, <1>2
    <2> QED BY <2>3, <1>2 DEF bits
  <1>3. CASE r.initialized /\ s =< r.highest
    <2>1. r.highest - s \in 0 .. Window - 1 BY <1>3 DEF Fresh
    <2>2. Slide(r, s) = [r EXCEPT !.bitmap = r.bitmap \cup {r.highest - s}]
      BY <1>3 DEF Slide
    <2>3. r.bitmap \cup {r.highest - s} \in SUBSET (0 .. Window - 1)
      BY <2>1
    <2>4. Slide(r, s) = [highest |-> r.highest, bitmap |-> r.bitmap \cup {r.highest - s},
                         initialized |-> r.initialized]
      BY <2>2
    <2> QED BY <1>3, <2>1, <2>3, <2>4
  <1>4. ~r.initialized \/ (r.initialized /\ s > r.highest) \/ (r.initialized /\ s =< r.highest)
    BY r.highest \in Nat /\ s \in Nat
  <1> QED BY <1>1, <1>2, <1>3, <1>4, Zenon

\* ReplayWindow::check keeps the bitmap equal to the history.
LEMMA SlideExact ==
  ASSUME ReceiverTypes, ReplayOK, NEW m \in Datagrams, Opened(m)
  PROVE  ReplayOK'
  <1> USE PathBounds
  <1> DEFINE s == m.seq
  <1>1. s \in 0 .. MaxSeq - 1 /\ s \in Nat BY DEF Datagrams
  <1>2. Fresh(replay, s) /\ replay' = Slide(replay, s) /\ opened' = opened \cup {m}
    BY DEF Opened
  <1>3. OpenedNumbers' = OpenedNumbers \cup {s}
    BY <1>2 DEF OpenedNumbers
  <1>4. OpenedNumbers \subseteq Nat
    BY DEF OpenedNumbers, ReceiverTypes, Datagrams
  <1>5. /\ replay'.initialized = TRUE
        /\ ~replay.initialized => replay'.highest = s /\ replay'.bitmap = {0}
        /\ replay.initialized /\ s > replay.highest =>
               /\ replay'.highest = s
               /\ replay'.bitmap = {0} \cup {b \in 0 .. Window - 1 :
                                               b - (s - replay.highest) \in replay.bitmap}
        /\ replay.initialized /\ s =< replay.highest =>
               /\ replay'.highest = replay.highest
               /\ replay'.bitmap = replay.bitmap \cup {replay.highest - s}
               /\ replay.highest - s \in 0 .. Window - 1
    BY <1>1, <1>2, SlideTypes DEF ReceiverTypes
  <1>6. replay.highest \in Nat /\ replay.bitmap \subseteq 0 .. Window - 1
    BY DEF ReceiverTypes, Numbers
  <1> HIDE DEF s
  <1>7. CASE ~replay.initialized
    <2>1. OpenedNumbers = {} BY <1>7 DEF ReplayOK, OpenedNumbers
    <2> QED BY <2>1, <1>1, <1>3, <1>5, <1>7 DEF ReplayOK
  <1>8. CASE replay.initialized
    <2>1. /\ replay.highest \in OpenedNumbers
          /\ \A t \in OpenedNumbers : t =< replay.highest
          /\ \A d \in 0 .. Window - 1 : d \in replay.bitmap <=> replay.highest - d \in OpenedNumbers
      BY <1>8 DEF ReplayOK
    <2>2. CASE s > replay.highest
      <3>1. \A d \in 0 .. Window - 1 : d \in replay'.bitmap <=> s - d \in OpenedNumbers \cup {s}
        <4> TAKE d \in 0 .. Window - 1
        <4>1. CASE d = 0 BY <4>1, <2>2, <1>1, <1>5, <1>8
        <4>2. CASE d # 0
          <5>1. d \in replay'.bitmap <=> d - (s - replay.highest) \in replay.bitmap
            BY <4>2, <2>2, <1>5, <1>8
          <5>2. CASE d - (s - replay.highest) \in 0 .. Window - 1
            <6>1. replay.highest - (d - (s - replay.highest)) = s - d
              BY <1>1, <1>6
            <6>2. s - d # s BY <4>2, <1>1
            <6> QED BY <5>1, <5>2, <6>1, <6>2, <2>1
          <5>3. CASE d - (s - replay.highest) \notin 0 .. Window - 1
            <6>1. d - (s - replay.highest) < 0 BY <5>3, <1>1, <1>6, <2>2
            <6>2. s - d > replay.highest BY <6>1, <1>1, <1>6
            <6> QED BY <5>1, <5>3, <6>2, <2>1, <1>4, <1>6, <1>1, <4>2
          <5> QED BY <5>2, <5>3
        <4> QED BY <4>1, <4>2
      <3> QED BY <3>1, <2>1, <2>2, <1>1, <1>3, <1>4, <1>5, <1>6, <1>8 DEF ReplayOK
    <2>3. CASE s =< replay.highest
      <3>1. \A d \in 0 .. Window - 1 :
               d \in replay'.bitmap <=> replay.highest - d \in OpenedNumbers \cup {s}
        BY <2>1, <2>3, <1>1, <1>5, <1>6, <1>8
      <3> QED BY <3>1, <2>1, <2>3, <1>1, <1>3, <1>4, <1>5, <1>6, <1>8 DEF ReplayOK
    <2> QED BY <2>2, <2>3, <1>1, <1>6
  <1> QED BY <1>7, <1>8

\* The reply address is where the newest datagram came from.
LEMMA TargetFollows ==
  ASSUME ReceiverTypes, CutOK, TargetOK, NEW m \in net, net \subseteq Datagrams, Opened(m),
         is_server' = is_server
  PROVE  TargetOK' /\ expected' \in Numbers /\ remote' \in 0 .. MaxAddr
  <1> USE PathBounds
  <1>1. /\ opened' = opened \cup {m} /\ Target(m) /\ m.seq \in Nat /\ m.seq =< MaxSeq - 1
        /\ m.from \in 1 .. MaxAddr
    BY DEF Opened, Datagrams
  <1>2. /\ \A o \in opened : o.seq \in Nat
        /\ expected \in Nat /\ expected =< MaxSeq /\ remote \in 0 .. MaxAddr
    BY DEF ReceiverTypes, Datagrams, Numbers
  <1>3. CASE m.seq >= expected
    <2>1. expected' = m.seq + 1 /\ remote' = IF is_server THEN m.from ELSE remote
      BY <1>1, <1>3 DEF Target
    <2>2. \A o \in opened : o.seq < m.seq
      BY <1>1, <1>2, <1>3 DEF TargetOK
    <2> QED BY <1>1, <1>2, <2>1, <2>2 DEF TargetOK, Numbers
  <1>4. CASE m.seq < expected
    <2>1. expected' = expected /\ remote' = remote
      BY <1>1, <1>2, <1>4 DEF Target
    <2>2. opened # {}
      BY <1>1, <1>2, <1>4 DEF TargetOK
    <2>3. PICK o \in opened : o.seq + 1 = expected
      BY <2>2 DEF TargetOK
    <2>4. is_server /\ m.seq + 1 = expected => remote = m.from
      <3> SUFFICES ASSUME is_server, m.seq + 1 = expected PROVE remote = m.from
        OBVIOUS
      <3>1. m = o BY <2>3, <1>1, <1>2 DEF CutOK
      <3> QED BY <3>1, <2>3 DEF TargetOK
    <2> QED BY <1>1, <1>2, <1>4, <2>1, <2>3, <2>4 DEF TargetOK, Numbers
  <1> QED BY <1>1, <1>2, <1>3, <1>4

-----------------------------------------------------------------------------
(* The parts of an assembly, and the bytes they hold. *)

\* A set of natural numbers has a least element.
LEMMA LeastOf ==
  ASSUME NEW T, T \subseteq Nat, T # {}
  PROVE  \E x \in T : \A y \in T : x =< y
  <1> DEFINE F == {0 .. t : t \in T}
  <1>1. IsWellFoundedOn(StrictSubsetOrdering(Nat), FiniteSubsetsOf(Nat))
    BY FS_StrictSubsetOrderingWellFounded
  <1>2. F \subseteq FiniteSubsetsOf(Nat) /\ F # {}
    <2>1. ASSUME NEW t \in T PROVE 0 .. t \in FiniteSubsetsOf(Nat)
      <3>1. t \in Int /\ 0 \in Int /\ 0 .. t \subseteq Nat OBVIOUS
      <3>2. IsFiniteSet(0 .. t) BY <3>1, FS_Interval
      <3> QED BY <3>1, <3>2 DEF FiniteSubsetsOf
    <2> QED BY <2>1
  <1>3. PICK x \in F : \A y \in F : ~(<<y, x>> \in StrictSubsetOrdering(Nat))
    <2> HIDE DEF F
    <2> QED BY <1>1, <1>2, WFMin
  <1>4. PICK t \in T : x = 0 .. t
    OBVIOUS
  <1>5. ASSUME NEW y \in T, y < t PROVE FALSE
    <2>1. /\ 0 .. y \in F /\ 0 .. y \subseteq Nat /\ 0 .. t \subseteq Nat
          /\ 0 .. y \subseteq 0 .. t /\ t \in 0 .. t /\ t \notin 0 .. y
      BY <1>5
    <2> QED BY <1>3, <1>4, <2>1 DEF StrictSubsetOrdering
  <1> QED BY <1>4, <1>5

\* What the fields of a part are.
LEMMA PartTypes ==
  ASSUME NEW p \in Parts
  PROVE  /\ p.id \in 1 .. MaxSeq /\ p.total \in 0 .. MaxFragments
         /\ DOMAIN p.pieces \subseteq 0 .. MaxFragments - 1
         /\ \A k \in DOMAIN p.pieces : p.pieces[k] \in Wires
         /\ IsFiniteSet(DOMAIN p.pieces)
         /\ Cardinality(DOMAIN p.pieces) \in Nat
         /\ p = [id |-> p.id, total |-> p.total, pieces |-> p.pieces]
         /\ p.pieces = [k \in DOMAIN p.pieces |-> p.pieces[k]]
  <1> USE PathBounds
  <1>1. PICK D \in SUBSET (0 .. MaxFragments - 1) : p.pieces \in [D -> Wires]
    BY DEF Parts
  <1>2. IsFiniteSet(0 .. MaxFragments - 1)
    BY FS_Interval
  <1>3. IsFiniteSet(D)
    BY <1>2, FS_Subset
  <1>4. Cardinality(D) \in Nat
    BY <1>3, FS_CardinalityType
  <1>5. DOMAIN p.pieces = D
    BY <1>1
  <1> QED BY <1>1, <1>3, <1>4, <1>5 DEF Parts

Cells(ps) == UNION {{<<i, k>> : k \in DOMAIN ps[i].pieces} : i \in DOMAIN ps}

\* The bytes of an assembly are finitely many.
LEMMA CellsOf ==
  ASSUME NEW ps \in Seq(Parts)
  PROVE  /\ \A c : c \in Cells(ps) <=>
                      \E i \in 1 .. Len(ps) : \E k \in DOMAIN ps[i].pieces : c = <<i, k>>
         /\ Cells(ps) \subseteq (1 .. Len(ps)) \X (0 .. MaxFragments - 1)
         /\ IsFiniteSet(Cells(ps)) /\ Bytes(ps) = Cardinality(Cells(ps)) /\ Bytes(ps) \in Nat
  <1> USE PathBounds
  <1>1. Len(ps) \in Nat /\ DOMAIN ps = 1 .. Len(ps) /\ \A i \in 1 .. Len(ps) : ps[i] \in Parts
    BY LenProperties, ElementOfSeq
  <1>2. \A c : c \in Cells(ps) <=>
                \E i \in 1 .. Len(ps) : \E k \in DOMAIN ps[i].pieces : c = <<i, k>>
    BY <1>1 DEF Cells
  <1>3. Cells(ps) \subseteq (1 .. Len(ps)) \X (0 .. MaxFragments - 1)
    <2>1. \A i \in 1 .. Len(ps) : DOMAIN ps[i].pieces \subseteq 0 .. MaxFragments - 1
      BY <1>1, PartTypes
    <2> QED BY <1>2, <2>1
  <1>4. IsFiniteSet((1 .. Len(ps)) \X (0 .. MaxFragments - 1))
    <2>1. IsFiniteSet(1 .. Len(ps)) BY <1>1, FS_Interval
    <2>2. IsFiniteSet(0 .. MaxFragments - 1) BY FS_Interval
    <2> QED BY <2>1, <2>2, FS_Product
  <1>5. IsFiniteSet(Cells(ps))
    BY <1>3, <1>4, FS_Subset
  <1>6. Bytes(ps) = Cardinality(Cells(ps)) BY DEF Bytes, Cells
  <1> QED BY <1>2, <1>3, <1>5, <1>6, FS_CardinalityType

\* An empty assembly holds nothing.
LEMMA BytesNone == Bytes(<<>>) = 0
  <1>1. Bytes(<<>>) = Cardinality({}) BY DEF Bytes
  <1> QED BY <1>1, FS_EmptySet

\* A part holds a byte for each of its pieces.
LEMMA BytesOne ==
  ASSUME NEW p \in Parts
  PROVE  <<p>> \in Seq(Parts) /\ Bytes(<<p>>) = Cardinality(DOMAIN p.pieces)
  <1> DEFINE D == DOMAIN p.pieces
             f == [k \in D |-> <<1, k>>]
  <1>1. <<p>> \in Seq(Parts) /\ Len(<<p>>) = 1 /\ <<p>>[1] = p
    OBVIOUS
  <1>2. \A c : c \in Cells(<<p>>) <=> \E k \in D : c = <<1, k>>
    <2> DEFINE q == <<p>>
    <2>1. q \in Seq(Parts) /\ Len(q) = 1 /\ q[1] = p BY <1>1
    <2> HIDE DEF q
    <2>2. \A c : c \in Cells(q) <=>
             \E i \in 1 .. Len(q) : \E k \in DOMAIN q[i].pieces : c = <<i, k>>
      BY <2>1, CellsOf
    <2>3. \A c : c \in Cells(q) <=> \E k \in DOMAIN q[1].pieces : c = <<1, k>>
      BY <2>1, <2>2
    <2> QED BY <2>1, <2>3 DEF q
  <1>3. f \in Bijection(D, Cells(<<p>>))
    <2>1. f \in [D -> Cells(<<p>>)] BY <1>2
    <2>2. \A a, b \in D : f[a] = f[b] => a = b OBVIOUS
    <2>3. \A c \in Cells(<<p>>) : \E k \in D : f[k] = c BY <1>2
    <2> QED BY <2>1, <2>2, <2>3 DEF Bijection, Injection, Surjection, IsInjective
  <1>4. IsFiniteSet(D) BY PartTypes
  <1>5. Cardinality(Cells(<<p>>)) = Cardinality(D)
    BY <1>3, <1>4, FS_Bijection DEF ExistsBijection
  <1> QED BY <1>1, <1>5, CellsOf

\* What two lists of parts hold together is the sum.
LEMMA BytesConcat ==
  ASSUME NEW s \in Seq(Parts), NEW t \in Seq(Parts)
  PROVE  s \o t \in Seq(Parts) /\ Bytes(s \o t) = Bytes(s) + Bytes(t)
  <1> DEFINE n == Len(s)
             f == [c \in Cells(t) |-> <<c[1] + n, c[2]>>]
             moved == {f[c] : c \in Cells(t)}
  <1>1. /\ s \o t \in Seq(Parts) /\ Len(s \o t) = n + Len(t) /\ n \in Nat /\ Len(t) \in Nat
        /\ \A i \in 1 .. n + Len(t) : (s \o t)[i] = IF i =< n THEN s[i] ELSE t[i - n]
    BY ConcatProperties, LenProperties
  <1>2. \A c : c \in Cells(s) <=> \E i \in 1 .. n : \E k \in DOMAIN s[i].pieces : c = <<i, k>>
    BY CellsOf
  <1>3. \A c : c \in Cells(t) <=> \E i \in 1 .. Len(t) : \E k \in DOMAIN t[i].pieces : c = <<i, k>>
    BY CellsOf
  <1>4. \A c : c \in Cells(s \o t) <=>
           \E i \in 1 .. n + Len(t) : \E k \in DOMAIN (s \o t)[i].pieces : c = <<i, k>>
    <2> DEFINE q == s \o t
    <2>1. q \in Seq(Parts) /\ Len(q) = n + Len(t) BY <1>1
    <2> HIDE DEF q
    <2>2. \A c : c \in Cells(q) <=>
             \E i \in 1 .. Len(q) : \E k \in DOMAIN q[i].pieces : c = <<i, k>>
      BY <2>1, CellsOf
    <2> QED BY <2>1, <2>2 DEF q
  <1>5. \A c : c \in moved <=>
           \E i \in 1 .. Len(t) : \E k \in DOMAIN t[i].pieces : c = <<i + n, k>>
    <2>1. ASSUME NEW i \in 1 .. Len(t), NEW k \in DOMAIN t[i].pieces
          PROVE  <<i, k>> \in Cells(t) /\ f[<<i, k>>] = <<i + n, k>>
      BY <1>3
    <2>2. ASSUME NEW c \in moved
          PROVE  \E i \in 1 .. Len(t) : \E k \in DOMAIN t[i].pieces : c = <<i + n, k>>
      <3>1. PICK d \in Cells(t) : c = f[d]
        <4> HIDE DEF f
        <4> QED OBVIOUS
      <3>2. PICK i \in 1 .. Len(t) : \E k \in DOMAIN t[i].pieces : d = <<i, k>> BY <1>3
      <3>3. PICK k \in DOMAIN t[i].pieces : d = <<i, k>> BY <3>2
      <3> QED BY <3>1, <3>3, <2>1
    <2>3. ASSUME NEW i \in 1 .. Len(t), NEW k \in DOMAIN t[i].pieces
          PROVE  <<i + n, k>> \in moved
      <3>1. <<i, k>> \in Cells(t) /\ f[<<i, k>>] = <<i + n, k>> BY <2>1
      <3>2. f[<<i, k>>] \in moved
        <4> HIDE DEF f
        <4> QED BY <3>1
      <3> QED BY <3>1, <3>2
    <2> HIDE DEF moved
    <2> QED BY <2>2, <2>3
  <1>6. Cells(s \o t) = Cells(s) \cup moved
    <2> HIDE DEF moved
    <2>1. ASSUME NEW c \in Cells(s \o t) PROVE c \in Cells(s) \cup moved
      <3>1. PICK i \in 1 .. n + Len(t) : \E k \in DOMAIN (s \o t)[i].pieces : c = <<i, k>>
        BY <1>4
      <3>2. CASE i =< n
        BY <3>1, <3>2, <1>1, <1>2
      <3>3. CASE i > n
        <4>1. i - n \in 1 .. Len(t) /\ (s \o t)[i] = t[i - n] /\ (i - n) + n = i
          BY <3>3, <1>1
        <4> QED BY <3>1, <4>1, <1>5
      <3> QED BY <3>2, <3>3, <1>1
    <2>2. ASSUME NEW c \in Cells(s) PROVE c \in Cells(s \o t)
      <3>1. PICK i \in 1 .. n : \E k \in DOMAIN s[i].pieces : c = <<i, k>>
        BY <1>2
      <3>2. i \in 1 .. n + Len(t) /\ (s \o t)[i] = s[i] BY <1>1
      <3> QED BY <3>1, <3>2, <1>4
    <2>3. ASSUME NEW c \in moved PROVE c \in Cells(s \o t)
      <3>1. PICK i \in 1 .. Len(t) : \E k \in DOMAIN t[i].pieces : c = <<i + n, k>>
        BY <1>5
      <3>2. /\ i + n \in 1 .. n + Len(t) /\ ~(i + n =< n) /\ (i + n) - n = i
        BY <1>1
      <3>3. (s \o t)[i + n] = t[i] BY <3>2, <1>1
      <3> QED BY <3>1, <3>2, <3>3, <1>4
    <2> QED BY <2>1, <2>2, <2>3
  <1>7. Cells(s) \cap moved = {}
    <2> HIDE DEF moved
    <2> QED BY <1>1, <1>2, <1>5
  <1>8. f \in Bijection(Cells(t), moved)
    <2>1. f \in [Cells(t) -> moved] OBVIOUS
    <2>2. \A a, b \in Cells(t) : f[a] = f[b] => a = b
      <3> TAKE a, b \in Cells(t)
      <3>1. PICK i \in 1 .. Len(t) : \E k \in DOMAIN t[i].pieces : a = <<i, k>> BY <1>3
      <3>2. PICK j \in 1 .. Len(t) : \E l \in DOMAIN t[j].pieces : b = <<j, l>> BY <1>3
      <3>3. PICK k \in DOMAIN t[i].pieces : a = <<i, k>> BY <3>1
      <3>4. PICK l \in DOMAIN t[j].pieces : b = <<j, l>> BY <3>2
      <3>5. f[a] = <<i + n, k>> /\ f[b] = <<j + n, l>> BY <3>3, <3>4
      <3> QED BY <3>3, <3>4, <3>5, <1>1
    <2>3. \A c \in moved : \E d \in Cells(t) : f[d] = c OBVIOUS
    <2> HIDE DEF f, moved
    <2> QED BY <2>1, <2>2, <2>3 DEF Bijection, Injection, Surjection, IsInjective
  <1>9. IsFiniteSet(Cells(s)) /\ IsFiniteSet(Cells(t))
    BY CellsOf
  <1>10. IsFiniteSet(moved) /\ Cardinality(moved) = Cardinality(Cells(t))
    <2> HIDE DEF f, moved
    <2> QED BY <1>8, <1>9, FS_Bijection DEF ExistsBijection
  <1>11. Cardinality(Cells(s) \cup moved) = Cardinality(Cells(s)) + Cardinality(moved)
    <2> HIDE DEF moved
    <2>1. Cardinality(Cells(s) \cap moved) = 0 BY <1>7, FS_EmptySet
    <2>2. /\ Cardinality(Cells(s)) \in Nat /\ Cardinality(moved) \in Nat
      BY <1>9, <1>10, FS_CardinalityType
    <2>3. Cardinality(Cells(s) \cup moved)
            = Cardinality(Cells(s)) + Cardinality(moved) - Cardinality(Cells(s) \cap moved)
      BY <1>9, <1>10, FS_Union
    <2> QED BY <2>1, <2>2, <2>3
  <1>12. /\ Bytes(s) = Cardinality(Cells(s)) /\ Bytes(t) = Cardinality(Cells(t))
         /\ Bytes(s \o t) = Cardinality(Cells(s \o t))
    BY <1>1, CellsOf
  <1> HIDE DEF moved
  <1> QED BY <1>1, <1>6, <1>10, <1>11, <1>12

-----------------------------------------------------------------------------
(* Taking parts out of an assembly and putting one in. *)

\* The parts of t are parts of s, in the order they have there.
Among(t, s) ==
    /\ \A j \in 1 .. Len(t) : \E i \in 1 .. Len(s) : t[j] = s[i]
    /\ Tidy(s) => Tidy(t)

\* An id that has a part has a place in the list.
LEMMA PositionIs ==
  ASSUME NEW ps \in Seq(Parts), NEW id \in Ids(ps)
  PROVE  Position(ps, id) \in 1 .. Len(ps) /\ ps[Position(ps, id)].id = id
  <1>1. DOMAIN ps = 1 .. Len(ps) BY LenProperties
  <1>2. \E i \in DOMAIN ps : ps[i].id = id BY DEF Ids
  <1> QED BY <1>1, <1>2 DEF Position

\* Evicting the first parts leaves the rest in order, and takes their bytes.
LEMMA SuffixIs ==
  ASSUME NEW ps \in Seq(Parts), NEW k \in 0 .. Len(ps)
  PROVE  LET t == SubSeq(ps, k + 1, Len(ps))
         IN  /\ t \in Seq(Parts) /\ Len(t) = Len(ps) - k
             /\ \A j \in 1 .. Len(t) : t[j] = ps[j + k]
             /\ Among(t, ps)
             /\ SubSeq(ps, 1, k) \in Seq(Parts)
             /\ Bytes(ps) = Bytes(SubSeq(ps, 1, k)) + Bytes(t)
  <1> DEFINE t == SubSeq(ps, k + 1, Len(ps))
             h == SubSeq(ps, 1, k)
  <1>1. Len(ps) \in Nat /\ k \in Nat /\ \A i \in 1 .. Len(ps) : ps[i] \in Parts
    BY LenProperties, ElementOfSeq
  <1>2. /\ t \in Seq(Parts) /\ Len(t) = Len(ps) - k
        /\ \A j \in 1 .. Len(ps) - k : t[j] = ps[j + k]
    <2>1. \A i \in k + 1 .. Len(ps) : ps[i] \in Parts BY <1>1
    <2>2. /\ t \in Seq(Parts) /\ Len(t) = IF k + 1 <= Len(ps) THEN Len(ps) - (k + 1) + 1 ELSE 0
          /\ \A j \in 1 .. Len(ps) - (k + 1) + 1 : t[j] = ps[(k + 1) + j - 1]
      BY <1>1, <2>1, k + 1 \in Int, Len(ps) \in Int, SubSeqProperties
    <2> HIDE DEF t
    <2> QED BY <1>1, <2>2
  <1>3. /\ h \in Seq(Parts) /\ Len(h) = k
        /\ \A j \in 1 .. k : h[j] = ps[j]
    <2>1. \A i \in 1 .. k : ps[i] \in Parts BY <1>1
    <2>2. /\ h \in Seq(Parts) /\ Len(h) = IF 1 <= k THEN k - 1 + 1 ELSE 0
          /\ \A j \in 1 .. k - 1 + 1 : h[j] = ps[1 + j - 1]
      BY <1>1, <2>1, 1 \in Int, k \in Int, SubSeqProperties
    <2> HIDE DEF h
    <2> QED BY <1>1, <2>2
  <1> HIDE DEF t, h
  <1>4. ps = h \o t
    <2>1. /\ h \o t \in Seq(Parts) /\ Len(h \o t) = k + (Len(ps) - k)
          /\ \A i \in 1 .. Len(h) + Len(t) : (h \o t)[i] = IF i <= Len(h) THEN h[i] ELSE t[i - Len(h)]
      BY <1>2, <1>3, ConcatProperties
    <2>2. Len(h \o t) = Len(ps) BY <1>1, <2>1
    <2>3. ASSUME NEW i \in 1 .. Len(ps) PROVE ps[i] = (h \o t)[i]
      BY <1>1, <1>2, <1>3, <2>1
    <2> QED BY <2>1, <2>2, <2>3, SeqEqual
  <1>5. Bytes(ps) = Bytes(h) + Bytes(t)
    BY <1>2, <1>3, <1>4, BytesConcat
  <1>6. Among(t, ps)
    <2>1. \A j \in 1 .. Len(t) : j + k \in 1 .. Len(ps) /\ t[j] = ps[j + k]
      BY <1>1, <1>2
    <2>2. ASSUME Tidy(ps), NEW i \in 1 .. Len(t), NEW j \in 1 .. Len(t), i < j
          PROVE  t[i].id # t[j].id /\ (DOMAIN t[j].pieces = {} => DOMAIN t[i].pieces = {})
      <3>1. i + k \in 1 .. Len(ps) /\ j + k \in 1 .. Len(ps) /\ i + k < j + k
        BY <2>1, <2>2, <1>1
      <3>2. t[i] = ps[i + k] /\ t[j] = ps[j + k]
        BY <2>1
      <3> QED BY <3>1, <3>2, <2>2 DEF Tidy
    <2> QED BY <2>1, <2>2 DEF Among, Tidy
  <1> QED BY <1>1, <1>2, <1>3, <1>5, <1>6 DEF t, h

\* Taking a part out takes its bytes and leaves the others in order.
LEMMA WithoutIs ==
  ASSUME NEW ps \in Seq(Parts), NEW id \in Ids(ps)
  PROVE  LET t == Without(ps, id)
             p == ps[Position(ps, id)]
         IN  /\ t \in Seq(Parts) /\ Len(t) = Len(ps) - 1
             /\ Among(t, ps)
             /\ \A i \in 1 .. Len(ps) : ps[i].id # id => \E j \in 1 .. Len(t) : t[j] = ps[i]
             /\ Tidy(ps) => \A j \in 1 .. Len(t) : t[j].id # id
             /\ Bytes(ps) = Bytes(t) + Cardinality(DOMAIN p.pieces)
  <1> DEFINE n == Position(ps, id)
             h == SubSeq(ps, 1, n - 1)
             u == SubSeq(ps, n + 1, Len(ps))
             t == h \o u
             p == ps[n]
  <1>1. /\ n \in 1 .. Len(ps) /\ p.id = id /\ p \in Parts /\ Len(ps) \in Nat
        /\ Without(ps, id) = t
    BY PositionIs, LenProperties, ElementOfSeq DEF Without
  <1> HIDE DEF n
  <1>2. /\ h \in Seq(Parts) /\ Len(h) = n - 1
        /\ \A j \in 1 .. n - 1 : h[j] = ps[j]
    <2>1. \A i \in 1 .. n - 1 : ps[i] \in Parts BY <1>1, ElementOfSeq
    <2>2. /\ h \in Seq(Parts) /\ Len(h) = IF 1 <= n - 1 THEN (n - 1) - 1 + 1 ELSE 0
          /\ \A j \in 1 .. (n - 1) - 1 + 1 : h[j] = ps[1 + j - 1]
      BY <1>1, <2>1, 1 \in Int, n - 1 \in Int, SubSeqProperties
    <2> HIDE DEF h
    <2> QED BY <1>1, <2>2
  <1>3. /\ u \in Seq(Parts) /\ Len(u) = Len(ps) - n
        /\ \A j \in 1 .. Len(ps) - n : u[j] = ps[j + n]
    BY <1>1, n \in 0 .. Len(ps), SuffixIs
  <1> HIDE DEF h, u
  <1>4. /\ t \in Seq(Parts) /\ Len(t) = Len(ps) - 1
        /\ \A j \in 1 .. Len(ps) - 1 : t[j] = IF j < n THEN ps[j] ELSE ps[j + 1]
    <2>1. /\ t \in Seq(Parts) /\ Len(t) = Len(h) + Len(u)
          /\ \A i \in 1 .. Len(h) + Len(u) : t[i] = IF i <= Len(h) THEN h[i] ELSE u[i - Len(h)]
      BY <1>2, <1>3, ConcatProperties
    <2> HIDE DEF t
    <2>2. Len(t) = Len(ps) - 1 BY <1>1, <1>2, <1>3, <2>1
    <2>3. ASSUME NEW j \in 1 .. Len(ps) - 1 PROVE t[j] = IF j < n THEN ps[j] ELSE ps[j + 1]
      <3>1. j \in 1 .. Len(h) + Len(u) BY <1>1, <1>2, <1>3
      <3>2. CASE j < n BY <3>1, <3>2, <2>1, <1>1, <1>2
      <3>3. CASE j >= n
        <4>1. j - (n - 1) \in 1 .. Len(ps) - n /\ (j - (n - 1)) + n = j + 1
          BY <3>3, <1>1
        <4>2. ~(j <= n - 1) /\ ~(j < n) /\ Len(h) = n - 1
          BY <3>3, <1>1, <1>2
        <4>3. t[j] = u[j - (n - 1)]
          BY <3>1, <4>2, <2>1
        <4>4. u[j - (n - 1)] = ps[j + 1]
          BY <4>1, <1>3
        <4> QED BY <4>2, <4>3, <4>4
      <3> QED BY <3>2, <3>3, <1>1
    <2> QED BY <2>1, <2>2, <2>3
  <1>5. Bytes(ps) = Bytes(t) + Cardinality(DOMAIN p.pieces)
    <2>1. n \in 0 .. Len(ps) /\ n - 1 \in 0 .. Len(ps) BY <1>1
    <2>2. Bytes(ps) = Bytes(h) + Bytes(SubSeq(ps, (n - 1) + 1, Len(ps)))
      BY <2>1, SuffixIs DEF h
    <2> DEFINE v == SubSeq(ps, (n - 1) + 1, Len(ps))
    <2>3. v \in Seq(Parts) /\ Len(v) = Len(ps) - (n - 1) /\ \A j \in 1 .. Len(v) : v[j] = ps[j + (n - 1)]
      BY <2>1, SuffixIs
    <2> HIDE DEF v
    <2>4. v = <<p>> \o u
      <3>1. <<p>> \in Seq(Parts) /\ Len(<<p>>) = 1 /\ <<p>>[1] = p BY <1>1
      <3>2. /\ <<p>> \o u \in Seq(Parts) /\ Len(<<p>> \o u) = 1 + (Len(ps) - n)
            /\ \A i \in 1 .. Len(<<p>>) + Len(u) :
                  (<<p>> \o u)[i] = IF i <= Len(<<p>>) THEN <<p>>[i] ELSE u[i - Len(<<p>>)]
        BY <1>3, <3>1, ConcatProperties
      <3>3. Len(<<p>> \o u) = Len(v) BY <3>2, <2>3, <1>1
      <3>4. ASSUME NEW i \in 1 .. Len(v) PROVE v[i] = (<<p>> \o u)[i]
        <4>1. i \in 1 .. Len(<<p>>) + Len(u) /\ v[i] = ps[i + (n - 1)]
          BY <3>1, <2>3, <1>1, <1>3
        <4>2. CASE i = 1
          <5>1. (<<p>> \o u)[i] = p BY <4>1, <4>2, <3>1, <3>2
          <5>2. 1 + (n - 1) = n BY <1>1
          <5> QED BY <4>1, <4>2, <5>1, <5>2
        <4>3. CASE i > 1
          <5>1. (<<p>> \o u)[i] = u[i - 1] BY <4>1, <4>3, <3>1, <3>2
          <5>2. i - 1 \in 1 .. Len(ps) - n /\ (i - 1) + n = i + (n - 1)
            BY <4>3, <2>3, <1>1
          <5>3. u[i - 1] = ps[(i - 1) + n] BY <5>2, <1>3
          <5> QED BY <4>1, <5>1, <5>2, <5>3
        <4>4. i = 1 \/ i > 1 OBVIOUS
        <4> QED BY <4>2, <4>3, <4>4, Zenon
      <3> QED BY <3>2, <3>3, <3>4, <2>3, SeqEqual
    <2>5. Bytes(v) = Cardinality(DOMAIN p.pieces) + Bytes(u)
      <3>1. <<p>> \in Seq(Parts) /\ u \in Seq(Parts) /\ p \in Parts BY <1>1, <1>3
      <3>2. Bytes(<<p>> \o u) = Bytes(<<p>>) + Bytes(u) BY <3>1, BytesConcat
      <3>3. Bytes(<<p>>) = Cardinality(DOMAIN p.pieces) BY <3>1, BytesOne
      <3> QED BY <2>4, <3>2, <3>3
    <2>6. Bytes(t) = Bytes(h) + Bytes(u)
      BY <1>2, <1>3, BytesConcat
    <2>7. Bytes(h) \in Nat /\ Bytes(u) \in Nat /\ Cardinality(DOMAIN p.pieces) \in Nat
      BY <1>1, <1>2, <1>3, CellsOf, PartTypes
    <2>8. Bytes(ps) = Bytes(h) + Bytes(v) BY <2>2 DEF v
    <2> HIDE DEF t
    <2> QED BY <2>5, <2>6, <2>7, <2>8
  <1> HIDE DEF t
  <1>6. Among(t, ps)
    <2> DEFINE at(j) == IF j < n THEN j ELSE j + 1
    <2>1. \A j \in 1 .. Len(t) : at(j) \in 1 .. Len(ps) /\ t[j] = ps[at(j)]
      BY <1>1, <1>4
    <2>2. ASSUME Tidy(ps), NEW i \in 1 .. Len(t), NEW j \in 1 .. Len(t), i < j
          PROVE  t[i].id # t[j].id /\ (DOMAIN t[j].pieces = {} => DOMAIN t[i].pieces = {})
      <3>1. at(i) < at(j)
        BY <2>2, <1>1
      <3>2. at(i) \in 1 .. Len(ps) /\ at(j) \in 1 .. Len(ps) /\ t[i] = ps[at(i)] /\ t[j] = ps[at(j)]
        BY <2>1
      <3> HIDE DEF at
      <3> QED BY <3>1, <3>2, <2>2 DEF Tidy
    <2> HIDE DEF at
    <2> QED BY <2>1, <2>2 DEF Among, Tidy
  <1>7. \A i \in 1 .. Len(ps) : ps[i].id # id => \E j \in 1 .. Len(t) : t[j] = ps[i]
    <2> SUFFICES ASSUME NEW i \in 1 .. Len(ps), ps[i].id # id
                 PROVE  \E j \in 1 .. Len(t) : t[j] = ps[i]
      OBVIOUS
    <2>1. i # n BY <1>1
    <2>2. CASE i < n
      <3>1. i \in 1 .. Len(ps) - 1 BY <2>2, <1>1
      <3> QED BY <3>1, <2>2, <1>4
    <2>3. CASE i > n
      <3>1. i - 1 \in 1 .. Len(ps) - 1 /\ ~(i - 1 < n) /\ (i - 1) + 1 = i BY <2>3, <1>1
      <3> QED BY <3>1, <1>4
    <2> QED BY <2>1, <2>2, <2>3, <1>1
  <1>8. ASSUME Tidy(ps), NEW j \in 1 .. Len(t) PROVE t[j].id # id
    <2>1. CASE j < n BY <2>1, <1>1, <1>4, <1>8 DEF Tidy
    <2>2. CASE j >= n
      <3>1. t[j] = ps[j + 1] /\ j + 1 \in 1 .. Len(ps) /\ n < j + 1 BY <2>2, <1>1, <1>4
      <3> QED BY <3>1, <1>1, <1>8 DEF Tidy
    <2> QED BY <2>1, <2>2, <1>1
  <1> QED BY <1>1, <1>4, <1>5, <1>6, <1>7, <1>8 DEF n

\* A part that was never touched is put behind the others of its kind.
LEMMA InsertIs ==
  ASSUME NEW ps \in Seq(Parts), Tidy(ps), NEW p \in Parts, p.id \notin Ids(ps),
         DOMAIN p.pieces = {}
  PROVE  LET k == Untouched(ps)
             t == SubSeq(ps, 1, k) \o <<p>> \o SubSeq(ps, k + 1, Len(ps))
         IN  /\ t \in Seq(Parts) /\ Len(t) = Len(ps) + 1 /\ Tidy(t)
             /\ \A j \in 1 .. Len(t) : t[j] = p \/ \E i \in 1 .. Len(ps) : t[j] = ps[i]
             /\ \A i \in 1 .. Len(ps) : \E j \in 1 .. Len(t) : t[j] = ps[i]
             /\ Bytes(t) = Bytes(ps)
  <1> DEFINE k == Untouched(ps)
             h == SubSeq(ps, 1, k)
             u == SubSeq(ps, k + 1, Len(ps))
             q == h \o <<p>>
             t == q \o u
  <1>1. /\ Len(ps) \in Nat /\ DOMAIN ps = 1 .. Len(ps)
        /\ \A i \in 1 .. Len(ps) : ps[i] \in Parts /\ ps[i].id # p.id
    BY LenProperties, ElementOfSeq DEF Ids
  <1>2. /\ k \in 0 .. Len(ps)
        /\ \A i \in 1 .. Len(ps) : i =< k <=> DOMAIN ps[i].pieces = {}
    <2>1. \E x \in 0 .. Len(ps) : \A i \in DOMAIN ps : i =< x <=> DOMAIN ps[i].pieces = {}
      <3> DEFINE T == {i \in 1 .. Len(ps) : DOMAIN ps[i].pieces # {}} \cup {Len(ps) + 1}
      <3>1. T \subseteq Nat /\ T # {} BY <1>1
      <3>2. PICK x \in T : \A y \in T : x =< y BY <3>1, LeastOf
      <3>3. x - 1 \in 0 .. Len(ps) BY <3>2, <1>1
      <3>4. ASSUME NEW i \in 1 .. Len(ps) PROVE i =< x - 1 <=> DOMAIN ps[i].pieces = {}
        <4>1. CASE i < x BY <4>1, <3>2, <1>1
        <4>2. CASE i >= x
          <5>1. x \in 1 .. Len(ps) /\ DOMAIN ps[x].pieces # {} BY <4>2, <3>2, <1>1
          <5>2. DOMAIN ps[i].pieces # {}
            <6>1. CASE i = x BY <6>1, <5>1
            <6>2. CASE i > x BY <6>2, <5>1 DEF Tidy
            <6>3. i = x \/ i > x BY <4>2, <5>1
            <6> QED BY <6>1, <6>2, <6>3
          <5> QED BY <5>1, <5>2, <4>2
        <4> QED BY <4>1, <4>2, <3>2, <1>1
      <3> QED BY <3>3, <3>4, <1>1
    <2> QED BY <2>1, <1>1 DEF Untouched
  <1> HIDE DEF k
  <1>3. /\ h \in Seq(Parts) /\ Len(h) = k
        /\ \A j \in 1 .. k : h[j] = ps[j]
    <2>1. \A i \in 1 .. k : ps[i] \in Parts BY <1>1, <1>2
    <2>2. /\ h \in Seq(Parts) /\ Len(h) = IF 1 <= k THEN k - 1 + 1 ELSE 0
          /\ \A j \in 1 .. k - 1 + 1 : h[j] = ps[1 + j - 1]
      <3>1. 1 \in Int /\ k \in Int BY <1>2
      <3> QED BY <2>1, <3>1, SubSeqProperties
    <2> HIDE DEF h
    <2> QED BY <1>2, <2>2
  <1>4. /\ u \in Seq(Parts) /\ Len(u) = Len(ps) - k
        /\ \A j \in 1 .. Len(ps) - k : u[j] = ps[j + k]
        /\ Bytes(ps) = Bytes(h) + Bytes(u)
    BY <1>2, SuffixIs
  <1> HIDE DEF h, u
  <1>5. /\ <<p>> \in Seq(Parts) /\ Len(<<p>>) = 1 /\ <<p>>[1] = p
        /\ Bytes(<<p>>) = Cardinality(DOMAIN p.pieces)
    BY BytesOne
  <1>6. /\ q \in Seq(Parts) /\ Len(q) = k + 1
        /\ \A j \in 1 .. k + 1 : q[j] = IF j =< k THEN ps[j] ELSE p
        /\ Bytes(q) = Bytes(h) + Bytes(<<p>>)
    <2>1. /\ q \in Seq(Parts) /\ Len(q) = Len(h) + Len(<<p>>)
          /\ \A i \in 1 .. Len(h) + Len(<<p>>) : q[i] = IF i <= Len(h) THEN h[i] ELSE <<p>>[i - Len(h)]
      BY <1>3, <1>5, ConcatProperties
    <2>2. Bytes(q) = Bytes(h) + Bytes(<<p>>)
      BY <1>3, <1>5, BytesConcat
    <2> HIDE DEF q
    <2>3. Len(q) = k + 1 BY <2>1, <1>3, <1>5
    <2>4. ASSUME NEW j \in 1 .. k + 1 PROVE q[j] = IF j =< k THEN ps[j] ELSE p
      <3>1. q[j] = IF j <= k THEN h[j] ELSE <<p>>[j - k] BY <2>1, <1>3, <1>5
      <3>2. CASE j =< k BY <3>1, <3>2, <1>2, <1>3
      <3>3. CASE j = k + 1
        <4>1. j - k = 1 /\ ~(j =< k) BY <3>3, <1>2
        <4> QED BY <3>1, <4>1, <1>5
      <3>4. j =< k \/ j = k + 1 BY <1>2
      <3> QED BY <3>2, <3>3, <3>4
    <2> QED BY <2>1, <2>2, <2>3, <2>4
  <1> HIDE DEF q
  <1>7. /\ t \in Seq(Parts) /\ Len(t) = Len(ps) + 1
        /\ \A j \in 1 .. Len(ps) + 1 :
              t[j] = IF j =< k THEN ps[j] ELSE IF j = k + 1 THEN p ELSE ps[j - 1]
        /\ Bytes(t) = Bytes(q) + Bytes(u)
    <2>1. /\ t \in Seq(Parts) /\ Len(t) = Len(q) + Len(u)
          /\ \A i \in 1 .. Len(q) + Len(u) : t[i] = IF i <= Len(q) THEN q[i] ELSE u[i - Len(q)]
      BY <1>4, <1>6, ConcatProperties
    <2>2. Bytes(t) = Bytes(q) + Bytes(u)
      BY <1>4, <1>6, BytesConcat
    <2> HIDE DEF t
    <2>3. Len(t) = Len(ps) + 1 BY <2>1, <1>1, <1>2, <1>4, <1>6
    <2>4. ASSUME NEW j \in 1 .. Len(ps) + 1
          PROVE  t[j] = IF j =< k THEN ps[j] ELSE IF j = k + 1 THEN p ELSE ps[j - 1]
      <3>1. t[j] = IF j <= k + 1 THEN q[j] ELSE u[j - (k + 1)]
        BY <2>1, <1>1, <1>2, <1>4, <1>6
      <3>2. CASE j =< k + 1
        <4>1. t[j] = q[j] /\ j \in 1 .. k + 1 BY <3>1, <3>2, <1>2
        <4>2. j =< k \/ (~(j =< k) /\ j = k + 1) BY <4>1, <1>2
        <4> QED BY <4>1, <4>2, <1>6
      <3>3. CASE j > k + 1
        <4>1. t[j] = u[j - (k + 1)] BY <3>1, <3>3, <1>2
        <4>2. /\ j - (k + 1) \in 1 .. Len(ps) - k /\ (j - (k + 1)) + k = j - 1
              /\ ~(j =< k) /\ j # k + 1
          BY <3>3, <1>1, <1>2
        <4>3. u[j - (k + 1)] = ps[j - 1] BY <4>2, <1>4
        <4> QED BY <4>1, <4>2, <4>3
      <3>4. j =< k + 1 \/ j > k + 1 BY <1>2
      <3> QED BY <3>2, <3>3, <3>4, Zenon
    <2> QED BY <2>1, <2>2, <2>3, <2>4
  <1>8. Bytes(t) = Bytes(ps)
    <2>1. Cardinality(DOMAIN p.pieces) = 0 BY FS_EmptySet
    <2>2. Bytes(h) \in Nat /\ Bytes(u) \in Nat BY <1>3, <1>4, CellsOf
    <2> HIDE DEF t
    <2> QED BY <2>1, <2>2, <1>4, <1>5, <1>6, <1>7
  <1> HIDE DEF t
  <1>9. ASSUME NEW j \in 1 .. Len(t)
        PROVE  t[j] = p \/ \E i \in 1 .. Len(ps) : t[j] = ps[i]
    <2>1. CASE j =< k BY <2>1, <1>1, <1>2, <1>7
    <2>2. CASE j = k + 1 BY <2>2, <1>1, <1>2, <1>7
    <2>3. CASE j > k + 1
      <3>1. j - 1 \in 1 .. Len(ps) /\ t[j] = ps[j - 1] BY <2>3, <1>1, <1>2, <1>7
      <3> QED BY <3>1
    <2>4. j =< k \/ j = k + 1 \/ j > k + 1 BY <1>2
    <2> QED BY <2>1, <2>2, <2>3, <2>4, Zenon
  <1>10. ASSUME NEW i \in 1 .. Len(ps) PROVE \E j \in 1 .. Len(t) : t[j] = ps[i]
    <2>1. CASE i =< k
      <3>1. i \in 1 .. Len(t) /\ t[i] = ps[i] BY <2>1, <1>1, <1>2, <1>7
      <3> QED BY <3>1
    <2>2. CASE i > k
      <3>1. /\ i + 1 \in 1 .. Len(ps) + 1 /\ ~(i + 1 =< k) /\ i + 1 # k + 1 /\ (i + 1) - 1 = i
        BY <2>2, <1>1, <1>2
      <3>2. t[i + 1] = ps[i] BY <3>1, <1>7
      <3> QED BY <3>1, <3>2, <1>7
    <2>3. i =< k \/ i > k BY <1>2
    <2> QED BY <2>1, <2>2, <2>3, Zenon
  <1>11. Tidy(t)
    <2> SUFFICES ASSUME NEW i \in 1 .. Len(t), NEW j \in 1 .. Len(t), i < j
                 PROVE  t[i].id # t[j].id /\ (DOMAIN t[j].pieces = {} => DOMAIN t[i].pieces = {})
      BY DEF Tidy
    <2>1. CASE j =< k
      <3>1. t[i] = ps[i] /\ t[j] = ps[j] /\ i \in 1 .. Len(ps) /\ j \in 1 .. Len(ps)
        BY <2>1, <1>1, <1>2, <1>7
      <3> QED BY <3>1 DEF Tidy
    <2>2. CASE j = k + 1
      <3>1. t[i] = ps[i] /\ t[j] = p /\ i \in 1 .. Len(ps) /\ i =< k
        BY <2>2, <1>1, <1>2, <1>7
      <3> QED BY <3>1, <1>1, <1>2
    <2>3. CASE j > k + 1
      <3>1. t[j] = ps[j - 1] /\ j - 1 \in 1 .. Len(ps) /\ j - 1 > k BY <2>3, <1>1, <1>2, <1>7
      <3>2. DOMAIN t[j].pieces # {} BY <3>1, <1>2
      <3>3. t[i].id # ps[j - 1].id
        <4>1. CASE i =< k
          <5>1. t[i] = ps[i] /\ i \in 1 .. Len(ps) /\ i < j - 1 BY <4>1, <3>1, <1>1, <1>2, <1>7
          <5> QED BY <5>1, <3>1 DEF Tidy
        <4>2. CASE i = k + 1
          <5>1. t[i] = p BY <4>2, <1>1, <1>2, <1>7
          <5> QED BY <5>1, <3>1, <1>1
        <4>3. CASE i > k + 1
          <5>1. t[i] = ps[i - 1] /\ i - 1 \in 1 .. Len(ps) /\ i - 1 < j - 1
            BY <4>3, <1>1, <1>2, <1>7
          <5> QED BY <5>1, <3>1 DEF Tidy
        <4>4. i =< k \/ i = k + 1 \/ i > k + 1 BY <1>2
        <4> QED BY <4>1, <4>2, <4>3, <4>4, Zenon
      <3> QED BY <3>1, <3>2, <3>3
    <2>4. j =< k \/ j = k + 1 \/ j > k + 1 BY <1>2
    <2> QED BY <2>1, <2>2, <2>3, <2>4, Zenon
  <1> QED BY <1>7, <1>8, <1>9, <1>10, <1>11 DEF t, q, h, u, k

\* Partial::add, for a piece that was not rejected: within MAX_FRAGMENTS, and one byte
\* more unless the piece was there already.
LEMMA PutIs ==
  ASSUME NEW part \in Parts, NEW m \in Datagrams, ~Rejects(part, m)
  PROVE  LET put == Put(part, m)
         IN  /\ put \in Parts /\ put.id = part.id /\ m.num < MaxFragments
             /\ put.total = IF m.last THEN m.num + 1 ELSE part.total
             /\ DOMAIN put.pieces = DOMAIN part.pieces \cup {m.num}
             /\ \A k \in DOMAIN put.pieces :
                   put.pieces[k] = IF k \in DOMAIN part.pieces THEN part.pieces[k] ELSE m.wire
             /\ Cardinality(DOMAIN put.pieces) =
                   IF m.num \in DOMAIN part.pieces THEN Cardinality(DOMAIN part.pieces)
                   ELSE Cardinality(DOMAIN part.pieces) + 1
  <1> USE PathBounds
  <1> DEFINE D == DOMAIN part.pieces
             T == IF m.last THEN m.num + 1 ELSE part.total
             P == [k \in D \cup {m.num} |-> IF k \in D THEN part.pieces[k] ELSE m.wire]
  <1>1. /\ part.id \in 1 .. MaxSeq /\ part.total \in 0 .. MaxFragments
        /\ D \subseteq 0 .. MaxFragments - 1 /\ \A k \in D : part.pieces[k] \in Wires
        /\ IsFiniteSet(D)
    BY PartTypes
  <1>2. m.num \in 0 .. MaxFragments - 1 /\ m.wire \in Wires
    BY DEF Rejects, Datagrams
  <1>3. part = [id |-> part.id, total |-> part.total, pieces |-> part.pieces]
    BY PartTypes
  <1>4. Put(part, m) = [part EXCEPT !.total = T, !.pieces = P]
    BY DEF Put
  <1>5. T \in 0 .. MaxFragments
    BY <1>1, <1>2
  <1>6. P \in [D \cup {m.num} -> Wires] /\ DOMAIN P = D \cup {m.num}
    BY <1>1, <1>2
  <1>7. D \cup {m.num} \in SUBSET (0 .. MaxFragments - 1)
    BY <1>1, <1>2
  <1>8. \A k \in D \cup {m.num} : P[k] = IF k \in D THEN part.pieces[k] ELSE m.wire
    OBVIOUS
  <1> HIDE DEF T, P, D
  <1>9. /\ Put(part, m) = [id |-> part.id, total |-> T, pieces |-> P]
    BY <1>3, <1>4
  <1>10. Put(part, m) \in Parts
    BY <1>1, <1>5, <1>6, <1>7, <1>9 DEF Parts
  <1>11. Cardinality(D \cup {m.num}) = IF m.num \in D THEN Cardinality(D) ELSE Cardinality(D) + 1
    BY <1>1, FS_AddElement
  <1> QED BY <1>2, <1>6, <1>8, <1>9, <1>10, <1>11 DEF T, D

\* A new part holds nothing.
LEMMA NewPartIs ==
  ASSUME NEW id \in 1 .. MaxSeq
  PROVE  /\ NewPart(id) \in Parts /\ NewPart(id).id = id /\ NewPart(id).total = 0
         /\ DOMAIN NewPart(id).pieces = {} /\ Cardinality(DOMAIN NewPart(id).pieces) = 0
  <1> USE PathBounds
  <1>1. [k \in {} |-> 0] \in [{} -> Wires] /\ DOMAIN [k \in {} |-> 0] = {}
    OBVIOUS
  <1>2. {} \in SUBSET (0 .. MaxFragments - 1) OBVIOUS
  <1> DEFINE none == [k \in {} |-> 0]
  <1>3. none \in UNION {[D -> Wires] : D \in SUBSET (0 .. MaxFragments - 1)} /\ DOMAIN none = {}
    BY <1>1, <1>2
  <1>4. NewPart(id) = [id |-> id, pieces |-> none, total |-> 0] BY DEF NewPart
  <1> HIDE DEF none
  <1> QED BY <1>3, <1>4, FS_EmptySet DEF Parts

\* FragmentAssembly::add: the part a piece goes to, what becomes of the others
\* and what comes out.
LEMMA FedIs ==
  ASSUME AssemblySound, Tidy(assembly.parts), NEW m \in Datagrams
  PROVE  LET old  == assembly.parts
             fed  == Fed(assembly, m)
             part == PartOf(Admitted(old, m.id), m.id)
             put  == Put(part, m)
             no   == Rejects(part, m)
         IN  /\ part \in Parts /\ part.id = m.id
             /\ \/ part = NewPart(m.id) /\ m.id \notin Ids(old)
                \/ \E i \in 1 .. Len(old) : part = old[i]
             /\ fed.parts \in Seq(Parts) /\ Len(fed.parts) =< MaxAssemblies /\ Tidy(fed.parts)
             /\ fed.buffered = Bytes(fed.parts) /\ fed.buffered \in 0 .. MaxBytes
             /\ fed.out = NewPart(0) \/ (fed.out = put /\ Complete(put) /\ ~no)
             /\ \A j \in 1 .. Len(fed.parts) :
                   \/ fed.parts[j] = NewPart(m.id)
                   \/ fed.parts[j] = put /\ ~Complete(put) /\ ~no
                   \/ /\ fed.parts[j].id # m.id \/ no
                      /\ \E i \in 1 .. Len(old) : fed.parts[j] = old[i]
             /\ ~no => fed.out = put \/ \E j \in 1 .. Len(fed.parts) : fed.parts[j] = put
  <1> USE PathBounds
  <1> DEFINE old    == assembly.parts
             fed    == Fed(assembly, m)
             ps     == Admitted(old, m.id)
             held   == assembly.buffered - (Bytes(old) - Bytes(ps))
             part   == PartOf(ps, m.id)
             others == Without(ps, m.id)
             known  == m.num \in DOMAIN part.pieces
             stay   == IF known THEN others ELSE Room(held, others)
             left   == held - (Bytes(others) - Bytes(stay))
             put    == Put(part, m)
             no     == Rejects(part, m)
             card   == Cardinality(DOMAIN part.pieces)
             k      == Untouched(ps)
             nofit  == ~known /\ \A l \in 0 .. Len(others) : ~Fits(held, others, l)
  <1>1. fed = IF no
              THEN [parts |-> IF m.id \in Ids(ps) THEN ps
                              ELSE SubSeq(ps, 1, k) \o <<part>> \o SubSeq(ps, k + 1, Len(ps)),
                    buffered |-> held, out |-> NewPart(0)]
              ELSE IF nofit THEN [parts |-> <<>>, buffered |-> 0, out |-> NewPart(0)]
              ELSE IF Complete(put)
              THEN [parts |-> stay, buffered |-> left - Released(part), out |-> put]
              ELSE [parts |-> Append(stay, put), buffered |-> IF known THEN left ELSE left + 1,
                    out |-> NewPart(0)]
    BY DEF Fed
  <1>2. /\ old \in Seq(Parts) /\ Len(old) =< MaxAssemblies /\ Len(old) \in Nat
        /\ assembly.buffered = Bytes(old) /\ Bytes(old) \in Nat /\ Bytes(old) =< MaxBytes
        /\ Tidy(old) /\ m.id \in 1 .. MaxSeq
    BY CellsOf, LenProperties DEF AssemblySound, Datagrams
  <1> HIDE DEF fed
  <1>3. /\ ps \in Seq(Parts) /\ Among(ps, old) /\ Bytes(ps) =< Bytes(old) /\ Bytes(ps) \in Nat
        /\ Len(ps) =< MaxAssemblies
        /\ m.id \in Ids(old) => ps = old
        /\ m.id \notin Ids(old) => Len(ps) < MaxAssemblies
    <2>1. CASE m.id \in Ids(old) \/ Len(old) < MaxAssemblies
      <3>1. ps = old BY <2>1 DEF Admitted
      <3> HIDE DEF ps
      <3> QED BY <3>1, <2>1, <1>2 DEF Among
    <2>2. CASE m.id \notin Ids(old) /\ Len(old) >= MaxAssemblies
      <3> DEFINE c == Len(old) - MaxAssemblies + 1
      <3>1. Len(old) = MaxAssemblies /\ c = 1 /\ c \in 0 .. Len(old)
        BY <2>2, <1>2
      <3>2. ps = SubSeq(old, c + 1, Len(old)) BY <2>2, <3>1, <1>2 DEF Admitted
      <3> HIDE DEF ps, c
      <3>3. /\ ps \in Seq(Parts) /\ Len(ps) = Len(old) - c /\ Among(ps, old)
            /\ SubSeq(old, 1, c) \in Seq(Parts) /\ Bytes(old) = Bytes(SubSeq(old, 1, c)) + Bytes(ps)
        BY <3>1, <3>2, <1>2, SuffixIs
      <3>4. Bytes(ps) \in Nat /\ Bytes(SubSeq(old, 1, c)) \in Nat BY <3>3, CellsOf
      <3> QED BY <2>2, <3>1, <3>3, <3>4, <1>2
    <2> QED BY <2>1, <2>2, <1>2
  <1>4. held = Bytes(ps) BY <1>2, <1>3
  <1>5. /\ Tidy(ps) /\ \A j \in 1 .. Len(ps) : \E i \in 1 .. Len(old) : ps[j] = old[i]
    BY <1>2, <1>3 DEF Among
  <1>6. \A id : id \in Ids(ps) <=> \E i \in 1 .. Len(ps) : ps[i].id = id
    BY <1>3, LenProperties DEF Ids
  <1> HIDE DEF ps, held
  <1>7. /\ part \in Parts /\ part.id = m.id /\ card \in Nat
        /\ others \in Seq(Parts) /\ Among(others, ps) /\ Len(others) =< Len(ps)
        /\ m.id \in Ids(ps) => Len(others) = Len(ps) - 1
        /\ Bytes(ps) = Bytes(others) + card /\ Bytes(others) \in Nat
        /\ \A j \in 1 .. Len(others) : others[j].id # m.id
        /\ \/ part = NewPart(m.id) /\ m.id \notin Ids(ps)
           \/ m.id \in Ids(ps) /\ \E i \in 1 .. Len(ps) : part = ps[i]
    <2>1. CASE m.id \in Ids(ps)
      <3>1. part = ps[Position(ps, m.id)] BY <2>1 DEF PartOf
      <3>2. Position(ps, m.id) \in 1 .. Len(ps) /\ part.id = m.id
        BY <2>1, <3>1, <1>3, PositionIs
      <3>3. part \in Parts BY <3>1, <3>2, <1>3, ElementOfSeq
      <3>4. /\ others \in Seq(Parts) /\ Len(others) = Len(ps) - 1 /\ Among(others, ps)
            /\ \A j \in 1 .. Len(others) : others[j].id # m.id
            /\ Bytes(ps) = Bytes(others) + card
        BY <2>1, <3>1, <1>3, <1>5, WithoutIs
      <3>5. Bytes(others) \in Nat /\ card \in Nat /\ Len(ps) \in Nat
        BY <3>3, <3>4, <1>3, CellsOf, PartTypes, LenProperties
      <3> HIDE DEF part, others, card
      <3> QED BY <2>1, <3>1, <3>2, <3>3, <3>4, <3>5
    <2>2. CASE m.id \notin Ids(ps)
      <3>1. part = NewPart(m.id) /\ others = ps BY <2>2 DEF PartOf, Without
      <3>2. part \in Parts /\ part.id = m.id /\ card = 0 BY <3>1, <1>2, NewPartIs
      <3> HIDE DEF part, others, card
      <3>3. Among(others, ps) BY <3>1 DEF Among
      <3> QED BY <2>2, <3>1, <3>2, <3>3, <1>3, <1>6, LenProperties
    <2> QED BY <2>1, <2>2
  <1>8. ~no => /\ put \in Parts /\ put.id = m.id /\ m.num < MaxFragments
               /\ DOMAIN put.pieces = DOMAIN part.pieces \cup {m.num}
               /\ Cardinality(DOMAIN put.pieces) = IF known THEN card ELSE card + 1
    BY <1>7, PutIs
  <1>9. DOMAIN NewPart(m.id).pieces = {} /\ card = Cardinality(DOMAIN part.pieces)
    BY <1>2, NewPartIs
  <1>a. part = NewPart(m.id) => DOMAIN part.pieces = {} BY <1>9
  <1> HIDE DEF part, others, put, card
  <1>10. ~no => ~nofit
    <2> SUFFICES ASSUME ~no, ~known PROVE Fits(held, others, Len(others))
      BY <1>7, LenProperties
    <2>1. SubSeq(others, 1, Len(others)) = others BY <1>7, SubSeqFull
    <2>2. card + 1 =< MaxFragments
      <3>1. put \in Parts /\ Cardinality(DOMAIN put.pieces) = card + 1
        BY <1>8
      <3>2. DOMAIN put.pieces \subseteq 0 .. MaxFragments - 1 BY <3>1, PartTypes
      <3>3. /\ IsFiniteSet(0 .. MaxFragments - 1)
            /\ Cardinality(0 .. MaxFragments - 1) = MaxFragments
        <4>1. 0 \in Int /\ MaxFragments - 1 \in Int /\ ~(0 > MaxFragments - 1) OBVIOUS
        <4>2. Cardinality(0 .. MaxFragments - 1)
                = IF 0 > MaxFragments - 1 THEN 0 ELSE (MaxFragments - 1) - 0 + 1
          BY <4>1, FS_Interval
        <4>3. IsFiniteSet(0 .. MaxFragments - 1) BY <4>1, FS_Interval
        <4> QED BY <4>1, <4>2, <4>3
      <3>4. Cardinality(DOMAIN put.pieces) =< MaxFragments
        BY <3>2, <3>3, FS_Subset
      <3> QED BY <3>1, <3>4
    <2>3. held - Bytes(others) + 1 = card + 1 BY <1>4, <1>7
    <2>4. card \in Nat BY <1>7
    <2>5. card + 1 =< MaxBytes BY <2>2, <2>4
    <2>6. held - Bytes(SubSeq(others, 1, Len(others))) + 1 =< MaxBytes
      BY <2>1, <2>3, <2>5
    <2> QED BY <2>6 DEF Fits
  <1>11. ~no => /\ stay \in Seq(Parts) /\ Among(stay, others) /\ Len(stay) =< Len(others)
                /\ Bytes(stay) \in Nat /\ left = card + Bytes(stay)
                /\ IF known THEN left =< MaxBytes ELSE left + 1 =< MaxBytes
    <2> SUFFICES ASSUME ~no
                 PROVE  /\ stay \in Seq(Parts) /\ Among(stay, others) /\ Len(stay) =< Len(others)
                        /\ Bytes(stay) \in Nat /\ left = card + Bytes(stay)
                        /\ IF known THEN left =< MaxBytes ELSE left + 1 =< MaxBytes
      OBVIOUS
    <2>1. CASE known
      <3>1. stay = others BY <2>1
      <3>2. Among(others, others) BY DEF Among
      <3>3. left = held BY <3>1, <1>4, <1>7
      <3> HIDE DEF stay, left
      <3> QED BY <2>1, <3>1, <3>2, <3>3, <1>2, <1>3, <1>4, <1>7, LenProperties
    <2>2. CASE ~known
      <3> DEFINE T == {l \in 0 .. Len(others) : Fits(held, others, l)}
      <3>1. T \subseteq Nat /\ T # {}
        BY <2>2, <1>10, <1>7, LenProperties
      <3>2. PICK x \in T : \A y \in T : x =< y BY <3>1, LeastOf
      <3> DEFINE good(l) == Fits(held, others, l) /\ \A j \in 0 .. l - 1 : ~Fits(held, others, j)
                 c == CHOOSE l \in 0 .. Len(others) : good(l)
      <3>3. c \in 0 .. Len(others) /\ Fits(held, others, c)
        <4>1. x \in 0 .. Len(others) /\ good(x)
          BY <3>2, <1>7, LenProperties
        <4>2. c \in 0 .. Len(others) /\ good(c)
          <5> HIDE DEF good
          <5> QED BY <4>1
        <4> QED BY <4>2
      <3>4. stay = SubSeq(others, c + 1, Len(others))
        BY <2>2 DEF Room
      <3> HIDE DEF stay, c, left
      <3>5. /\ stay \in Seq(Parts) /\ Len(stay) = Len(others) - c /\ Among(stay, others)
            /\ SubSeq(others, 1, c) \in Seq(Parts)
            /\ Bytes(others) = Bytes(SubSeq(others, 1, c)) + Bytes(stay)
        BY <3>3, <3>4, <1>7, SuffixIs
      <3>6. Bytes(stay) \in Nat /\ Bytes(SubSeq(others, 1, c)) \in Nat BY <3>5, CellsOf
      <3>7. held - Bytes(SubSeq(others, 1, c)) + 1 =< MaxBytes BY <3>3 DEF Fits
      <3>8. left = held - (Bytes(others) - Bytes(stay)) BY DEF left
      <3>9. left = card + Bytes(stay) /\ left + 1 =< MaxBytes
        <4>1. /\ held \in Nat /\ held = Bytes(others) + card
              /\ Bytes(others) \in Nat /\ card \in Nat
          BY <1>4, <1>7
        <4>2. PICK gone \in Nat : gone = Bytes(SubSeq(others, 1, c)) BY <3>6
        <4>3. Bytes(others) = gone + Bytes(stay) /\ held - gone + 1 =< MaxBytes
          BY <4>2, <3>5, <3>7
        <4>4. left = held - gone BY <4>1, <4>2, <4>3, <3>6, <3>8
        <4>5. left + 1 =< MaxBytes BY <4>3, <4>4
        <4>6. left = card + Bytes(stay)
          <5>1. \A a, b, d, e \in Nat : a = b + e => a - (b - d) = e + d OBVIOUS
          <5>2. Bytes(stay) \in Nat BY <3>6
          <5>3. held - (Bytes(others) - Bytes(stay)) = card + Bytes(stay) BY <5>1, <5>2, <4>1
          <5> QED BY <5>3, <3>8
        <4> QED BY <4>5, <4>6
      <3>10. Len(stay) =< Len(others)
        <4>1. Len(others) \in Nat BY <1>7, LenProperties
        <4> QED BY <4>1, <3>3, <3>5
      <3> QED BY <2>2, <3>5, <3>6, <3>9, <3>10
    <2> QED BY <2>1, <2>2
  <1> HIDE DEF stay, left, nofit, known
  <1>12. ASSUME ~no
         PROVE  /\ Tidy(stay)
                /\ \A j \in 1 .. Len(stay) :
                      stay[j].id # m.id /\ \E i \in 1 .. Len(old) : stay[j] = old[i]
    <2>1. Among(stay, others) /\ Among(others, ps) /\ Among(ps, old)
      BY <1>3, <1>7, <1>11, <1>12
    <2>2. Tidy(stay) BY <2>1, <1>2 DEF Among
    <2>3. ASSUME NEW j \in 1 .. Len(stay)
          PROVE  stay[j].id # m.id /\ \E i \in 1 .. Len(old) : stay[j] = old[i]
      <3>1. PICK a \in 1 .. Len(others) : stay[j] = others[a] BY <2>1 DEF Among
      <3>2. PICK b \in 1 .. Len(ps) : others[a] = ps[b] BY <2>1 DEF Among
      <3> QED BY <3>1, <3>2, <1>5, <1>7
    <2> QED BY <2>2, <2>3
  <1> DEFINE Goal ==
       /\ fed.parts \in Seq(Parts) /\ Len(fed.parts) =< MaxAssemblies /\ Tidy(fed.parts)
       /\ fed.buffered = Bytes(fed.parts) /\ fed.buffered \in 0 .. MaxBytes
       /\ fed.out = NewPart(0) \/ (fed.out = put /\ Complete(put) /\ ~no)
       /\ \A j \in 1 .. Len(fed.parts) :
             \/ fed.parts[j] = NewPart(m.id)
             \/ fed.parts[j] = put /\ ~Complete(put) /\ ~no
             \/ /\ fed.parts[j].id # m.id \/ no
                /\ \E i \in 1 .. Len(old) : fed.parts[j] = old[i]
       /\ ~no => fed.out = put \/ \E j \in 1 .. Len(fed.parts) : fed.parts[j] = put
  <1>13. ASSUME no /\ m.id \in Ids(ps) PROVE Goal
    <2>1. fed = [parts |-> ps, buffered |-> held, out |-> NewPart(0)] BY <1>1, <1>13
    <2>2. fed.parts = ps /\ fed.buffered = Bytes(ps) /\ fed.out = NewPart(0) BY <2>1, <1>4
    <2> HIDE DEF no
    <2> QED BY <2>2, <1>13, <1>2, <1>3, <1>5
  <1>14. ASSUME no /\ m.id \notin Ids(ps) PROVE Goal
    <2> DEFINE t == SubSeq(ps, 1, k) \o <<part>> \o SubSeq(ps, k + 1, Len(ps))
    <2>1. fed = [parts |-> t, buffered |-> held, out |-> NewPart(0)] BY <1>1, <1>14
    <2>2. part = NewPart(m.id) /\ DOMAIN part.pieces = {} /\ part.id = m.id
      BY <1>7, <1>14, <1>a
    <2>3. /\ t \in Seq(Parts) /\ Len(t) = Len(ps) + 1 /\ Tidy(t)
          /\ \A j \in 1 .. Len(t) : t[j] = part \/ \E i \in 1 .. Len(ps) : t[j] = ps[i]
          /\ Bytes(t) = Bytes(ps)
      BY <2>2, <1>3, <1>5, <1>7, <1>14, InsertIs
    <2>4. Len(ps) < MaxAssemblies /\ Len(ps) \in Nat
      BY <1>14, <1>2, <1>3, LenProperties
    <2> HIDE DEF t, no
    <2>5. fed.parts = t /\ fed.buffered = Bytes(t) /\ fed.out = NewPart(0) BY <2>1, <2>3, <1>4
    <2>6. ASSUME NEW j \in 1 .. Len(t)
          PROVE  t[j] = NewPart(m.id) \/ \E i \in 1 .. Len(old) : t[j] = old[i]
      <3>1. CASE t[j] = part BY <3>1, <2>2
      <3>2. CASE \E i \in 1 .. Len(ps) : t[j] = ps[i]
        <4>1. PICK i \in 1 .. Len(ps) : t[j] = ps[i] BY <3>2
        <4> QED BY <4>1, <1>5
      <3> QED BY <3>1, <3>2, <2>3
    <2>7. Len(t) =< MaxAssemblies BY <2>3, <2>4
    <2>8. Bytes(t) \in 0 .. MaxBytes BY <2>3, <1>2, <1>3
    <2>9. no BY <1>14
    <2> QED BY <2>3, <2>5, <2>6, <2>7, <2>8, <2>9
  <1>15. ASSUME ~no /\ Complete(put) PROVE Goal
    <2>1. fed = [parts |-> stay, buffered |-> left - Released(part), out |-> put]
      BY <1>1, <1>10, <1>15
    <2>2. Released(part) = card BY <1>9 DEF Released
    <2>3. fed.parts = stay /\ fed.buffered = Bytes(stay) /\ fed.out = put
      BY <2>1, <2>2, <1>7, <1>11, <1>15
    <2>4. Len(stay) =< MaxAssemblies /\ Bytes(stay) =< MaxBytes
      BY <1>2, <1>3, <1>7, <1>11, <1>15, LenProperties
    <2> HIDE DEF no
    <2> QED BY <2>3, <2>4, <1>11, <1>12, <1>15
  <1>16. ASSUME ~no /\ ~Complete(put) PROVE Goal
    <2> DEFINE t == Append(stay, put)
    <2>1. fed = [parts |-> t, buffered |-> IF known THEN left ELSE left + 1, out |-> NewPart(0)]
      BY <1>1, <1>10, <1>16
    <2>2. /\ t \in Seq(Parts) /\ Len(t) = Len(stay) + 1 /\ Len(stay) \in Nat
          /\ \A j \in 1 .. Len(stay) : t[j] = stay[j]
          /\ t[Len(stay) + 1] = put
      BY <1>8, <1>11, <1>16, AppendProperties, LenProperties
    <2>3. Bytes(t) = Bytes(stay) + Cardinality(DOMAIN put.pieces)
      <3>1. t = stay \o <<put>> BY <1>8, <1>11, <1>16, AppendIsConcat
      <3> QED BY <3>1, <1>8, <1>11, <1>16, BytesOne, BytesConcat
    <2> HIDE DEF t
    <2>4. fed.parts = t /\ fed.buffered = Bytes(t) /\ fed.out = NewPart(0)
      BY <2>1, <2>3, <1>7, <1>8, <1>11, <1>16
    <2>5. Bytes(t) \in 0 .. MaxBytes
      BY <2>3, <1>7, <1>8, <1>11, <1>16
    <2>6. Len(t) =< MaxAssemblies
      <3>1. CASE m.id \in Ids(ps)
        BY <3>1, <2>2, <1>3, <1>7, <1>11, <1>16, LenProperties
      <3>2. CASE m.id \notin Ids(ps)
        <4>1. m.id \notin Ids(old) BY <3>2, <1>3
        <4>2. Len(ps) < MaxAssemblies BY <4>1, <1>3
        <4> QED BY <4>2, <2>2, <1>3, <1>7, <1>11, <1>16, LenProperties
      <3> QED BY <3>1, <3>2
    <2>7. Tidy(t)
      <3>1. DOMAIN put.pieces # {} /\ put.id = m.id BY <1>8, <1>16
      <3>2. Tidy(stay) /\ \A j \in 1 .. Len(stay) : stay[j].id # m.id BY <1>12, <1>16
      <3> SUFFICES ASSUME NEW i \in 1 .. Len(t), NEW j \in 1 .. Len(t), i < j
                   PROVE  t[i].id # t[j].id /\ (DOMAIN t[j].pieces = {} => DOMAIN t[i].pieces = {})
        BY DEF Tidy
      <3>3. i \in 1 .. Len(stay) /\ t[i] = stay[i] BY <2>2
      <3>4. CASE j \in 1 .. Len(stay)
        BY <3>2, <3>3, <3>4, <2>2 DEF Tidy
      <3>5. CASE j = Len(stay) + 1
        BY <3>1, <3>2, <3>3, <3>5, <2>2
      <3>6. j \in 1 .. Len(stay) \/ j = Len(stay) + 1 BY <2>2
      <3> QED BY <3>4, <3>5, <3>6
    <2>8. \A j \in 1 .. Len(t) :
             \/ t[j] = put
             \/ t[j].id # m.id /\ \E i \in 1 .. Len(old) : t[j] = old[i]
      BY <2>2, <1>12, <1>16
    <2>9. \E j \in 1 .. Len(t) : t[j] = put
      BY <2>2
    <2> HIDE DEF no
    <2> QED BY <2>2, <2>4, <2>5, <2>6, <2>7, <2>8, <2>9, <1>16
  <1>17. Goal
    BY <1>13, <1>14, <1>15, <1>16
  <1>18. \/ part = NewPart(m.id) /\ m.id \notin Ids(old)
         \/ \E i \in 1 .. Len(old) : part = old[i]
    <2>1. CASE part = NewPart(m.id) /\ m.id \notin Ids(ps)
      BY <2>1, <1>3
    <2>2. CASE \E i \in 1 .. Len(ps) : part = ps[i]
      BY <2>2, <1>5
    <2> QED BY <2>1, <2>2, <1>7
  <1> HIDE DEF no
  <1>19. Goal /\ part \in Parts /\ part.id = m.id
    BY <1>17, <1>7
  <1> QED BY <1>18, <1>19 DEF fed, part, put, no, ps

-----------------------------------------------------------------------------
(* What keeps its place when the wire goes on: nothing but an instruction    *)
(* more was sent, or a datagram more was opened.                             *)

\* A piece that was opened belongs to an instruction that was sent.
LEMMA SentBefore ==
  ASSUME SenderTypes, ReceiverTypes, CutOK, NEW id \in 1 .. MaxSeq, NEW k, Has(id, k)
  PROVE  id \in DOMAIN sender.sizes /\ k < sender.sizes[id] /\ k \in Nat
  BY DEF Has, CutOK, Cut, ReceiverTypes, Datagrams

\* An instruction more is sent.
LEMMA SendStep ==
  ASSUME IndInv, NEW n \in Sizes, Send(n)
  PROVE  IndInv'
  <1> USE PathBounds
  <1> DEFINE z == sender.sizes
  <1>1. /\ SenderTypes /\ ReceiverTypes /\ AssemblySound /\ CutOK /\ ReplayOK /\ TargetOK
        /\ DeliveredOK /\ PartsOK /\ HeldOK
    BY DEF IndInv, TypeOK
  <1>2. /\ is_server' = is_server /\ wire' = wire /\ reconnecting' = reconnecting
        /\ replay' = replay /\ expected' = expected /\ remote' = remote /\ assembly' = assembly
        /\ opened' = opened /\ delivered' = delivered /\ spoiled' = spoiled
    BY DEF Send, conn_vars, ghosts
  <1>3. /\ SenderTypes'
        /\ \A id \in DOMAIN z : sender'.sizes[id] = z[id]
        /\ DOMAIN z \subseteq DOMAIN sender'.sizes
        /\ DOMAIN sender'.sizes = DOMAIN z \cup {Len(z) + 1}
        /\ DOMAIN z = 1 .. Len(z) /\ Len(z) \in Nat
    BY <1>1, SentTypes DEF SenderTypes
  <1>4. CutOK' BY <1>1, SentCut
  <1>5. ReceiverTypes' /\ AssemblySound' /\ ReplayOK' /\ TargetOK'
    BY <1>1, <1>2 DEF ReceiverTypes, AssemblySound, ReplayOK, TargetOK, OpenedNumbers
  <1>6. DeliveredOK'
    <2> SUFFICES ASSUME NEW i \in 1 .. Len(delivered) PROVE WholeOK(delivered[i])'
      BY <1>1, <1>2 DEF DeliveredOK
    <2>1. PICK id \in DOMAIN z :
             /\ delivered[i] = Instruction(wire, id, z[id])
             /\ \A k \in 0 .. z[id] - 1 : Has(id, k)
      BY <1>1 DEF DeliveredOK, WholeOK
    <2> QED BY <2>1, <1>2, <1>3 DEF WholeOK, Has
  <1>7. PartsOK'
    <2> SUFFICES ASSUME NEW i \in 1 .. Len(assembly.parts) PROVE PartOK(assembly.parts[i])'
      BY <1>1, <1>2 DEF PartsOK
    <2> DEFINE p == assembly.parts[i]
    <2>1. PartOK(p) BY <1>1 DEF PartsOK
    <2>2. p.id \in 1 .. MaxSeq
      BY <1>1, ElementOfSeq, PartTypes DEF AssemblySound
    <2>3. \A k \in DOMAIN p.pieces : p.pieces[k] = wire => p.id \in DOMAIN z
      BY <2>1, <2>2, <1>1, SentBefore DEF PartOK
    <2>4. ~Old(p) => \A k \in DOMAIN p.pieces : p.pieces[k] = wire BY DEF Old
    <2>5. Old(p)' <=> Old(p) BY <1>2 DEF Old
    <2> HIDE DEF p
    <2>6. p' = p BY <1>2 DEF p
    <2>7. \A k : Has(p.id, k) => Has(p.id, k)' BY <1>2, <2>6 DEF Has
    <2>8. PartOK(p)'
      BY <1>2, <1>3, <2>1, <2>3, <2>4, <2>5, <2>6, <2>7 DEF PartOK, Complete
    <2> QED BY <2>8 DEF p
  <1>8. HeldOK'
    <2> SUFFICES ASSUME ~reconnecting, NEW id \in (DOMAIN sender'.sizes) \ spoiled,
                        sender'.sizes[id] =< MaxFragments, Undelivered(id),
                        NEW o \in opened, o.id = id
                 PROVE  HeldIn(assembly.parts, id, o.num)
      BY <1>1, <1>2 DEF HeldOK, Old, HeldIn, Undelivered
    <2>1. id \in DOMAIN z /\ sender'.sizes[id] = z[id]
      BY <1>1, <1>3 DEF CutOK, Cut
    <2> QED BY <2>1, <1>1 DEF HeldOK
  <1>9. SpareOK' BY <1>2 DEF IndInv, SpareOK
  <1> QED BY <1>3, <1>4, <1>5, <1>6, <1>7, <1>8, <1>9 DEF IndInv, TypeOK

\* A datagram that is not opened, a roam, and the loss of what was in flight.
LEMMA QuietStep ==
  ASSUME IndInv,
         \/ Roam
         \/ \E m \in net, kept \in BOOLEAN : Receive(m, kept) /\ Refused(m)
         \/ UNCHANGED vars
  PROVE  IndInv'
  <1> USE PathBounds
  <1>1. /\ is_server' = is_server /\ wire' = wire /\ reconnecting' = reconnecting
        /\ replay' = replay /\ expected' = expected /\ remote' = remote /\ assembly' = assembly
        /\ opened' = opened /\ delivered' = delivered /\ spoiled' = spoiled
    BY DEF Roam, Receive, Refused, conn_vars, ghosts, vars, net_vars
  <1>2. /\ sender'.sizes = sender.sizes /\ sender'.seq = sender.seq /\ net' \subseteq net
        /\ SenderTypes'
    <2>1. CASE Roam
      BY <2>1 DEF Roam, SenderTypes, IndInv, TypeOK, Numbers
    <2>2. CASE \E m \in net, kept \in BOOLEAN : Receive(m, kept) /\ Refused(m)
      BY <2>2 DEF Receive, SenderTypes, IndInv, TypeOK
    <2>3. CASE UNCHANGED vars
      BY <2>3 DEF vars, net_vars, SenderTypes, IndInv, TypeOK
    <2> QED BY <2>1, <2>2, <2>3
  <1>3. ReceiverTypes' /\ AssemblySound' /\ ReplayOK' /\ TargetOK'
    BY <1>1 DEF IndInv, TypeOK, ReceiverTypes, AssemblySound, ReplayOK, TargetOK, OpenedNumbers
  <1>4. CutOK'
    BY <1>1, <1>2 DEF IndInv, CutOK, Cut
  <1>5. DeliveredOK'
    BY <1>1, <1>2 DEF IndInv, DeliveredOK, WholeOK, Has
  <1>6. PartsOK'
    BY <1>1, <1>2 DEF IndInv, PartsOK, PartOK, Old, Has, Complete
  <1>7. HeldOK'
    BY <1>1, <1>2 DEF IndInv, HeldOK, Old, HeldIn, Undelivered
  <1>8. SpareOK'
    BY <1>1 DEF IndInv, SpareOK
  <1> QED BY <1>2, <1>3, <1>4, <1>5, <1>6, <1>7, <1>8 DEF IndInv, TypeOK

\* Throwing the assembly away is sound.
LEMMA NoParts ==
  ASSUME assembly' = NewAssembly
  PROVE  AssemblySound' /\ PartsOK'
  <1> USE PathBounds
  <1>1. assembly'.parts = <<>> /\ assembly'.buffered = 0 /\ <<>> \in Seq(Parts) /\ Len(<<>>) = 0
    BY EmptySeq DEF NewAssembly
  <1>2. AssemblySound'
    BY <1>1, BytesNone DEF AssemblySound, NewAssembly
  <1> QED BY <1>1, <1>2 DEF PartsOK, Tidy

\* The start of a wire.
LEMMA InitStep ==
  ASSUME Init
  PROVE  IndInv
  <1> USE PathBounds
  <1>1. /\ sender = [seq |-> 0, sizes |-> <<>>, addr |-> 1] /\ net = {} /\ copies = 0
        /\ opened = {} /\ delivered = <<>> /\ spoiled = {} /\ wire = 1 /\ reconnecting = FALSE
        /\ replay = [highest |-> 0, bitmap |-> {}, initialized |-> FALSE] /\ expected = 0
        /\ is_server \in BOOLEAN /\ remote \in 0 .. MaxAddr
        /\ assembly = NewAssembly
    BY DEF Init, NewSender, NewWindow
  <1>2. SenderTypes
    BY <1>1, EmptySeq DEF SenderTypes, Numbers
  <1>3. ReceiverTypes
    <2>1. replay \in [highest : Numbers, bitmap : SUBSET (0 .. Window - 1), initialized : BOOLEAN]
      <3>1. 0 \in Numbers /\ {} \in SUBSET (0 .. Window - 1) BY DEF Numbers
      <3> QED BY <3>1, <1>1
    <2>2. wire \in Wires /\ expected \in Numbers BY <1>1 DEF Wires, Numbers
    <2> QED BY <1>1, <2>1, <2>2 DEF ReceiverTypes
  <1>4. AssemblySound
    BY <1>1, BytesNone, EmptySeq DEF AssemblySound, NewAssembly
  <1>5. DOMAIN sender.sizes = {}
    BY <1>1
  <1>6. CutOK /\ ReplayOK /\ TargetOK
    BY <1>1 DEF CutOK, ReplayOK, TargetOK, OpenedNumbers
  <1>7. DeliveredOK
    BY <1>1, EmptySeq DEF DeliveredOK
  <1>8. PartsOK
    BY <1>1, EmptySeq DEF PartsOK, Tidy, NewAssembly
  <1>9. HeldOK
    BY <1>1, <1>5 DEF HeldOK, NewAssembly
  <1>10. SpareOK
    BY <1>1 DEF SpareOK
  <1> QED BY <1>2, <1>3, <1>4, <1>6, <1>7, <1>8, <1>9, <1>10 DEF IndInv, TypeOK

\* mux_loop's verdict on a dead wire.
LEMMA CondemnStep ==
  ASSUME IndInv, Condemn
  PROVE  IndInv'
  <1> USE PathBounds
  <1>1. /\ is_server' = is_server /\ wire' = wire /\ reconnecting' = TRUE
        /\ replay' = replay /\ expected' = expected /\ remote' = remote /\ assembly' = NewAssembly
        /\ opened' = opened /\ delivered' = delivered /\ spoiled' = {}
        /\ sender' = sender /\ net' = net /\ copies' = copies
    BY DEF Condemn, net_vars, conn_vars
  <1>2. AssemblySound' /\ PartsOK'
    BY <1>1, NoParts
  <1>3. SenderTypes' /\ ReceiverTypes'
    BY <1>1 DEF IndInv, TypeOK, SenderTypes, ReceiverTypes
  <1>4. CutOK' /\ ReplayOK' /\ TargetOK'
    BY <1>1 DEF IndInv, CutOK, Cut, ReplayOK, TargetOK, OpenedNumbers
  <1>5. DeliveredOK'
    BY <1>1 DEF IndInv, DeliveredOK, WholeOK, Has
  <1>6. HeldOK'
    BY <1>1 DEF HeldOK
  <1>7. SpareOK'
    BY <1>1 DEF Condemn, SpareOK
  <1> QED BY <1>2, <1>3, <1>4, <1>5, <1>6, <1>7 DEF IndInv, TypeOK

\* A new wire: what was left in the assembly is old on it.
LEMMA ReestablishStep ==
  ASSUME IndInv, Reestablish
  PROVE  IndInv'
  <1> USE PathBounds
  <1>0. wire < MaxWires BY DEF IndInv, SpareOK, Reestablish
  <1>1. /\ is_server' = is_server /\ wire' = wire + 1 /\ reconnecting' = FALSE
        /\ replay' = [highest |-> 0, bitmap |-> {}, initialized |-> FALSE]
        /\ expected' = 0 /\ remote' = 1 /\ assembly' = assembly
        /\ opened' = {} /\ delivered' = <<>> /\ spoiled' = Ids(assembly.parts)
        /\ sender' = [seq |-> 0, sizes |-> <<>>, addr |-> 1] /\ net' = {} /\ copies' = copies
    BY DEF Reestablish, NewSender, NewWindow
  <1>2. SenderTypes'
    BY <1>1, EmptySeq DEF SenderTypes, Numbers, IndInv, TypeOK
  <1>3. /\ assembly.parts \in Seq(Parts)
        /\ \A i \in 1 .. Len(assembly.parts) : assembly.parts[i].id \in 1 .. MaxSeq
        /\ \A id : id \in Ids(assembly.parts) <=>
                     \E i \in 1 .. Len(assembly.parts) : assembly.parts[i].id = id
    BY LenProperties, ElementOfSeq, PartTypes DEF IndInv, TypeOK, AssemblySound, Ids
  <1>4. ReceiverTypes'
    <2>1. replay' \in [highest : Numbers, bitmap : SUBSET (0 .. Window - 1), initialized : BOOLEAN]
      <3>1. 0 \in Numbers /\ {} \in SUBSET (0 .. Window - 1) BY DEF Numbers
      <3> QED BY <3>1, <1>1
    <2>2. wire' \in Wires /\ expected' \in Numbers /\ is_server \in BOOLEAN
      BY <1>0, <1>1 DEF Wires, Numbers, IndInv, TypeOK, ReceiverTypes
    <2>3. spoiled' \subseteq 1 .. MaxSeq BY <1>1, <1>3
    <2>4. is_server' \in BOOLEAN BY <1>1, <2>2
    <2>5. reconnecting' \in BOOLEAN BY <1>1
    <2>6. remote' \in 0 .. MaxAddr BY <1>1
    <2>7. opened' \subseteq Datagrams BY <1>1
    <2> QED BY <2>1, <2>2, <2>3, <2>4, <2>5, <2>6, <2>7 DEF ReceiverTypes
  <1>5. AssemblySound'
    BY <1>1 DEF AssemblySound, IndInv, TypeOK
  <1>6. CutOK' /\ ReplayOK' /\ TargetOK'
    BY <1>1 DEF CutOK, ReplayOK, TargetOK, OpenedNumbers
  <1>7. DeliveredOK'
    BY <1>1, EmptySeq DEF DeliveredOK
  <1>8. PartsOK'
    <2> SUFFICES ASSUME NEW i \in 1 .. Len(assembly.parts) PROVE PartOK(assembly.parts[i])'
      BY <1>1 DEF PartsOK, IndInv
    <2> DEFINE p == assembly.parts[i]
    <2>1. PartOK(p) BY DEF IndInv, PartsOK
    <2>2. p \in Parts BY <1>3, ElementOfSeq
    <2>3. \A k \in DOMAIN p.pieces : p.pieces[k] \in Nat /\ p.pieces[k] =< wire
      <3>1. \A k \in DOMAIN p.pieces : p.pieces[k] \in Wires BY <2>2, PartTypes
      <3> HIDE DEF p
      <3> QED BY <2>1, <3>1 DEF PartOK, Wires
    <2>4. wire \in Nat BY DEF IndInv, TypeOK, ReceiverTypes, Wires
    <2>5. p' = p BY <1>1
    <2> HIDE DEF p
    <2>6. PartOK(p)'
      BY <1>1, <2>1, <2>3, <2>4, <2>5 DEF PartOK, Old, Complete
    <2> QED BY <2>6 DEF p
  <1>9. HeldOK'
    BY <1>1, <1>3 DEF HeldOK, HeldIn
  <1>10. SpareOK'
    BY <1>1 DEF SpareOK
  <1> QED BY <1>2, <1>4, <1>5, <1>6, <1>7, <1>8, <1>9, <1>10 DEF IndInv, TypeOK

-----------------------------------------------------------------------------
(* A datagram is opened. *)

\* A part with one more piece of its instruction in it.
LEMMA PutPart ==
  ASSUME IndInv, NEW m \in net, Opened(m), UNCHANGED <<wire, sender>>,
         NEW part \in Parts, part.id = m.id, PartOK(part), ~Rejects(part, m)
  PROVE  LET put == Put(part, m)
         IN  /\ \A k \in DOMAIN put.pieces : put.pieces[k] =< wire /\ (put.pieces[k] = wire => Has(m.id, k)')
             /\ Old(put) <=> Old(part)
             /\ put.id = m.id /\ m.num \in DOMAIN put.pieces
             /\ DOMAIN part.pieces \subseteq DOMAIN put.pieces
             /\ ~Old(put) /\ put.total # 0 => put.total = sender.sizes[m.id]
             /\ ~Old(put) => \A k \in DOMAIN put.pieces : k + 1 = sender.sizes[m.id] => put.total = k + 1
  <1> DEFINE put == Put(part, m)
  <1>1. /\ put.id = part.id
        /\ put.total = IF m.last THEN m.num + 1 ELSE part.total
        /\ DOMAIN put.pieces = DOMAIN part.pieces \cup {m.num}
        /\ \A k \in DOMAIN put.pieces :
              put.pieces[k] = IF k \in DOMAIN part.pieces THEN part.pieces[k] ELSE m.wire
    BY PutIs DEF IndInv, TypeOK, SenderTypes
  <1> HIDE DEF put
  <1>2. /\ m.wire = wire /\ m.id \in DOMAIN sender.sizes
        /\ m.last <=> m.num + 1 = sender.sizes[m.id]
    BY DEF IndInv, CutOK, Cut
  <1>3. opened' = opened \cup {m} BY DEF Opened
  <1>4. Has(m.id, m.num)' BY <1>3 DEF Has
  <1>5. \A k : Has(m.id, k) => Has(m.id, k)' BY <1>3 DEF Has
  <1>6. wire \in Nat BY DEF IndInv, TypeOK, ReceiverTypes, Wires
  <1>7. ASSUME NEW k \in DOMAIN put.pieces
        PROVE  put.pieces[k] =< wire /\ (put.pieces[k] = wire => Has(m.id, k)')
    <2>1. CASE k \in DOMAIN part.pieces
      BY <2>1, <1>1, <1>5 DEF PartOK
    <2>2. CASE k \notin DOMAIN part.pieces
      BY <2>2, <1>1, <1>2, <1>4, <1>6
    <2> QED BY <2>1, <2>2
  <1>8. Old(put) <=> Old(part)
    BY <1>1, <1>2 DEF Old
  <1>9. ~Old(put) /\ put.total # 0 => put.total = sender.sizes[m.id]
    BY <1>1, <1>2, <1>8 DEF PartOK
  <1>10. ASSUME ~Old(put), NEW k \in DOMAIN put.pieces, k + 1 = sender.sizes[m.id]
         PROVE  put.total = k + 1
    <2>1. CASE m.last BY <2>1, <1>1, <1>2, <1>10
    <2>2. CASE ~m.last
      <3>1. k # m.num BY <2>2, <1>2, <1>10
      <3>2. k \in DOMAIN part.pieces BY <3>1, <1>1
      <3> QED BY <2>2, <3>2, <1>1, <1>8, <1>10 DEF PartOK
    <2> QED BY <2>1, <2>2
  <1> QED BY <1>1, <1>7, <1>8, <1>9, <1>10 DEF put

\* A new part is sound.
LEMMA NewPartOK ==
  ASSUME NEW id \in 1 .. MaxSeq
  PROVE  PartOK(NewPart(id)) /\ ~Old(NewPart(id))
  BY NewPartIs DEF PartOK, Old, Complete

\* Connection::recv and FragmentAssembly::add: the invariant is kept, and what comes
\* out is an instruction of this wire that had not come out before.
LEMMA OpenedStep ==
  ASSUME IndInv, NEW m \in net, NEW kept \in BOOLEAN, Receive(m, kept), Opened(m)
  PROVE  /\ IndInv'
         /\ \/ delivered' = delivered
            \/ \E x \in {Instruction(wire, id, sender.sizes[id]) : id \in DOMAIN sender.sizes} :
                  /\ delivered' = Append(delivered, x)
                  /\ \A i \in 1 .. Len(delivered) : delivered[i] # x
  <1> USE PathBounds
  <1> DEFINE old  == assembly.parts
             fed  == Fed(assembly, m)
             part == PartOf(Admitted(old, m.id), m.id)
             put  == Put(part, m)
             no   == Rejects(part, m)
             z    == sender.sizes
  <1>1. /\ SenderTypes /\ ReceiverTypes /\ AssemblySound /\ CutOK /\ ReplayOK /\ TargetOK
        /\ DeliveredOK /\ PartsOK /\ HeldOK
    BY DEF IndInv, TypeOK
  <1>2. /\ is_server' = is_server /\ wire' = wire /\ reconnecting' = reconnecting
        /\ sender' = sender /\ net' \subseteq net /\ opened' = opened \cup {m}
        /\ copies' \in 0 .. MaxCopies
    BY <1>1 DEF Receive, Opened, SenderTypes
  <1>3. /\ assembly' = [parts |-> fed.parts, buffered |-> fed.buffered]
        /\ delivered' = IF fed.out.total = 0 \/ Old(fed.out) THEN delivered
                        ELSE Append(delivered, fed.out)
        /\ spoiled' = spoiled \cup Gone(old, fed.parts, m.id)
    BY DEF Opened
  <1>4. m \in Datagrams /\ m.id \in 1 .. MaxSeq /\ m.id \in DOMAIN z /\ m.num < z[m.id] /\ m.num \in Nat
    BY <1>1 DEF SenderTypes, Datagrams, CutOK, Cut
  <1>5. /\ part \in Parts /\ part.id = m.id
        /\ \/ part = NewPart(m.id) /\ m.id \notin Ids(old)
           \/ \E i \in 1 .. Len(old) : part = old[i]
        /\ fed.parts \in Seq(Parts) /\ Len(fed.parts) =< MaxAssemblies /\ Tidy(fed.parts)
        /\ fed.buffered = Bytes(fed.parts) /\ fed.buffered \in 0 .. MaxBytes
        /\ fed.out = NewPart(0) \/ (fed.out = put /\ Complete(put) /\ ~no)
        /\ \A j \in 1 .. Len(fed.parts) :
              \/ fed.parts[j] = NewPart(m.id)
              \/ fed.parts[j] = put /\ ~Complete(put) /\ ~no
              \/ /\ fed.parts[j].id # m.id \/ no
                 /\ \E i \in 1 .. Len(old) : fed.parts[j] = old[i]
        /\ ~no => fed.out = put \/ \E j \in 1 .. Len(fed.parts) : fed.parts[j] = put
    BY <1>1, <1>4, FedIs DEF PartsOK
  <1>6. PartOK(part)
    BY <1>1, <1>4, <1>5, NewPartOK DEF PartsOK
  <1>7. ~no => /\ \A k \in DOMAIN put.pieces : put.pieces[k] =< wire /\ (put.pieces[k] = wire => Has(m.id, k)')
               /\ Old(put) <=> Old(part)
               /\ put.id = m.id /\ m.num \in DOMAIN put.pieces
               /\ DOMAIN part.pieces \subseteq DOMAIN put.pieces
               /\ ~Old(put) /\ put.total # 0 => put.total = z[m.id]
               /\ ~Old(put) => \A k \in DOMAIN put.pieces : k + 1 = z[m.id] => put.total = k + 1
    BY <1>2, <1>5, <1>6, PutPart
  <1>8. ~no => put \in Parts
    BY <1>4, <1>5, PutIs
  <1>9. /\ old \in Seq(Parts) /\ Tidy(old) /\ \A i \in 1 .. Len(old) : PartOK(old[i])
        /\ \A i \in 1 .. Len(old) : old[i].id \in 1 .. MaxSeq
        /\ \A id : id \in Ids(old) <=> \E i \in 1 .. Len(old) : old[i].id = id
        /\ \A id : id \in Ids(fed.parts) <=> \E i \in 1 .. Len(fed.parts) : fed.parts[i].id = id
    <2>1. old \in Seq(Parts) /\ Tidy(old) /\ \A i \in 1 .. Len(old) : PartOK(old[i])
      BY <1>1 DEF AssemblySound, PartsOK
    <2>2. DOMAIN old = 1 .. Len(old) /\ DOMAIN fed.parts = 1 .. Len(fed.parts)
      BY <2>1, <1>5, LenProperties
    <2>3. \A i \in 1 .. Len(old) : old[i].id \in 1 .. MaxSeq
      BY <2>1, ElementOfSeq, PartTypes
    <2> HIDE DEF old, fed
    <2> QED BY <2>1, <2>2, <2>3 DEF Ids
  <1> HIDE DEF fed, part, put, no
  <1>10. SenderTypes' BY <1>1, <1>2 DEF SenderTypes
  <1>11. CutOK' BY <1>1, <1>2 DEF CutOK, Cut
  <1>12. ReplayOK' BY <1>1, <1>4, SlideExact
  <1>13. TargetOK' /\ expected' \in Numbers /\ remote' \in 0 .. MaxAddr
    BY <1>1, <1>2, TargetFollows DEF SenderTypes
  <1>14. ReceiverTypes'
    <2>1. replay' \in [highest : Numbers, bitmap : SUBSET (0 .. Window - 1), initialized : BOOLEAN]
      <3>1. Fresh(replay, m.seq) /\ replay' = Slide(replay, m.seq) /\ m.seq \in 0 .. MaxSeq - 1
        BY <1>4 DEF Opened, Datagrams
      <3> QED BY <3>1, <1>1, SlideTypes DEF ReceiverTypes
    <2>2. spoiled' \subseteq 1 .. MaxSeq
      <3>1. Ids(old) \subseteq 1 .. MaxSeq BY <1>9
      <3> HIDE DEF old
      <3> QED BY <3>1, <1>1, <1>3 DEF ReceiverTypes, Gone
    <2>3. opened' \subseteq Datagrams
      BY <1>1, <1>2, <1>4 DEF ReceiverTypes
    <2> QED BY <2>1, <2>2, <2>3, <1>1, <1>2, <1>13 DEF ReceiverTypes
  <1>15. assembly'.parts = fed.parts /\ assembly'.buffered = fed.buffered
    BY <1>3
  <1>16. AssemblySound'
    BY <1>3, <1>5, <1>15 DEF AssemblySound
  <1>17. \A id, k : Has(id, k) => Has(id, k)'
    BY <1>2 DEF Has
  <1>18. ASSUME NEW p, PartOK(p) PROVE PartOK(p)'
    BY <1>2, <1>17, <1>18 DEF PartOK, Old, Complete
  <1>19. PartsOK'
    <2>1. ASSUME NEW p, NEW j \in 1 .. Len(fed.parts), p = fed.parts[j] PROVE PartOK(p)'
      <3>1. CASE p = NewPart(m.id)
        <4>1. PartOK(p) BY <3>1, <1>4, NewPartOK
        <4> QED BY <4>1, <1>18
      <3>2. CASE p = put /\ ~Complete(put) /\ ~no
        <4>1. /\ \A k \in DOMAIN p.pieces : p.pieces[k] =< wire /\ (p.pieces[k] = wire => Has(m.id, k)')
              /\ p.id = m.id /\ m.num \in DOMAIN p.pieces /\ ~Complete(p)
              /\ ~Old(p) /\ p.total # 0 => p.total = z[m.id]
              /\ ~Old(p) => \A k \in DOMAIN p.pieces : k + 1 = z[m.id] => p.total = k + 1
          BY <3>2, <1>7
        <4>2. Old(p)' <=> Old(p) BY <1>2 DEF Old
        <4>3. Complete(p)' <=> Complete(p) BY DEF Complete
        <4> QED BY <4>1, <4>2, <4>3, <1>2, <1>4 DEF PartOK
      <3>3. CASE \E i \in 1 .. Len(old) : p = old[i]
        <4>1. PartOK(p) BY <3>3, <1>9
        <4> QED BY <4>1, <1>18
      <3> HIDE DEF old
      <3> QED BY <3>1, <3>2, <3>3, <2>1, <1>5
    <2>2. \A j \in 1 .. Len(assembly'.parts) : PartOK(assembly.parts[j])'
      BY <2>1, <1>15
    <2> QED BY <2>2, <1>5, <1>15 DEF PartsOK
  <1>20. \A o \in opened : o.id = m.id => o.num # m.num
    <2>1. m.seq \notin OpenedNumbers
      <3>1. m.seq \in 0 .. MaxSeq - 1 /\ Fresh(replay, m.seq) BY <1>4 DEF Datagrams, Opened
      <3> QED BY <3>1, <1>1, FreshMeans
    <2> QED BY <2>1, <1>1 DEF CutOK, OpenedNumbers
  <1>21. ASSUME fed.out = put, Complete(put), ~no, ~Old(put)
         PROVE  /\ put = Instruction(wire, m.id, z[m.id])
                /\ \A k \in 0 .. z[m.id] - 1 : Has(m.id, k)'
    <2>1. put.total = z[m.id] /\ DOMAIN put.pieces = 0 .. z[m.id] - 1 /\ put.id = m.id
      BY <1>7, <1>21 DEF Complete
    <2>2. \A k \in DOMAIN put.pieces : put.pieces[k] = wire
      BY <1>21 DEF Old
    <2>3. /\ put = [id |-> put.id, total |-> put.total, pieces |-> put.pieces]
          /\ put.pieces = [k \in DOMAIN put.pieces |-> put.pieces[k]]
      BY <1>8, <1>21, PartTypes
    <2>4. put.pieces = [k \in 0 .. z[m.id] - 1 |-> wire]
      BY <2>1, <2>2, <2>3
    <2>5. put = Instruction(wire, m.id, z[m.id])
      BY <2>1, <2>3, <2>4 DEF Instruction
    <2> QED BY <2>1, <2>2, <2>5, <1>7, <1>21
  <1>22. fed.out.total # 0 => fed.out = put /\ Complete(put) /\ ~no
    <2>1. NewPart(0).total = 0 BY DEF NewPart
    <2> QED BY <2>1, <1>5
  <1>23. ASSUME NEW x, WholeOK(x) PROVE WholeOK(x)'
    BY <1>2, <1>17, <1>23 DEF WholeOK
  <1>24. ASSUME fed.out.total = 0 \/ Old(fed.out)
         PROVE  delivered' = delivered /\ DeliveredOK'
    <2>1. delivered' = delivered BY <1>3, <1>24
    <2>2. ASSUME NEW x, NEW i \in 1 .. Len(delivered), x = delivered[i] PROVE WholeOK(x)'
      <3>1. WholeOK(x) BY <2>2, <1>1 DEF DeliveredOK
      <3> QED BY <3>1, <1>23
    <2>3. \A i \in 1 .. Len(delivered') : WholeOK(delivered[i])'
      BY <2>1, <2>2
    <2>4. delivered' \in Seq(Pieced)
      BY <2>1, <1>1 DEF DeliveredOK
    <2> QED BY <2>1, <2>3, <2>4 DEF DeliveredOK, Pieced
  <1>25. ASSUME ~(fed.out.total = 0 \/ Old(fed.out)),
                NEW x, x = Instruction(wire, m.id, z[m.id])
         PROVE  /\ delivered' = Append(delivered, x) /\ DeliveredOK'
                /\ \A i \in 1 .. Len(delivered) : delivered[i] # x
                /\ x.id = m.id
    <2>1. fed.out = put /\ Complete(put) /\ ~no /\ ~Old(put) BY <1>22, <1>25
    <2>2. put = x /\ \A k \in 0 .. z[m.id] - 1 : Has(m.id, k)'
      BY <2>1, <1>21, <1>25
    <2>3. WholeOK(x)'
      BY <2>2, <1>2, <1>4, <1>25 DEF WholeOK
    <2>4. x \in Pieced
      <3>1. wire \in Wires /\ z[m.id] \in Sizes
        BY <1>1, <1>4, LenProperties, ElementOfSeq DEF SenderTypes, ReceiverTypes
      <3> QED BY <3>1, <1>4, <1>25 DEF Pieced
    <2>5. delivered' = Append(delivered, x)
      BY <1>3, <1>25, <2>1, <2>2
    <2>6. /\ delivered \in Seq(Pieced) /\ Len(delivered) \in Nat
          /\ delivered' \in Seq(Pieced) /\ Len(delivered') = Len(delivered) + 1
          /\ \A i \in 1 .. Len(delivered) : delivered'[i] = delivered[i]
          /\ delivered'[Len(delivered) + 1] = x
      <3>1. delivered \in Seq(Pieced) BY <1>1 DEF DeliveredOK
      <3> QED BY <3>1, <2>4, <2>5, AppendProperties, LenProperties
    <2>7. ASSUME NEW y, NEW i \in 1 .. Len(delivered'), y = delivered'[i] PROVE WholeOK(y)'
      <3>1. CASE i = Len(delivered) + 1 BY <3>1, <2>3, <2>6, <2>7
      <3>2. CASE i \in 1 .. Len(delivered)
        <4>1. WholeOK(y) BY <3>2, <2>6, <2>7, <1>1 DEF DeliveredOK
        <4> QED BY <4>1, <1>23
      <3>3. i = Len(delivered) + 1 \/ i \in 1 .. Len(delivered) BY <2>6, <2>7
      <3> QED BY <3>1, <3>2, <3>3
    <2>8. \A i \in 1 .. Len(delivered') : WholeOK(delivered[i])'
      BY <2>7
    <2>9. DeliveredOK'
      BY <2>6, <2>8 DEF DeliveredOK, Pieced
    <2>10. x.id = m.id BY <1>25 DEF Instruction
    <2>11. ASSUME NEW i \in 1 .. Len(delivered), delivered[i] = x PROVE FALSE
      <3>1. PICK id \in DOMAIN z : /\ x = Instruction(wire, id, z[id])
                                   /\ \A k \in 0 .. z[id] - 1 : Has(id, k)
        BY <2>11, <1>1 DEF DeliveredOK, WholeOK
      <3>2. id = m.id BY <3>1, <2>10 DEF Instruction
      <3>3. z[m.id] \in Nat
        BY <1>1, <1>4, LenProperties, ElementOfSeq DEF SenderTypes, Sizes
      <3>4. Has(m.id, m.num) BY <3>1, <3>2, <3>3, <1>4
      <3> QED BY <3>4, <1>20 DEF Has
    <2> QED BY <2>5, <2>9, <2>10, <2>11
  <1>26. DeliveredOK'
    BY <1>24, <1>25
  <1>27. ~Old(part) \/ \E i \in 1 .. Len(old) : part = old[i] /\ Old(old[i])
    BY <1>4, <1>5, NewPartOK
  <1>28. ASSUME ~reconnecting, NEW p, NEW j \in 1 .. Len(fed.parts), p = fed.parts[j], Old(p)
         PROVE  p.id \in spoiled'
    <2>1. \A i \in 1 .. Len(old) : Old(old[i]) => old[i].id \in spoiled
      BY <1>1, <1>28 DEF HeldOK
    <2>2. CASE p = NewPart(m.id) BY <2>2, <1>4, <1>28, NewPartOK
    <2>3. CASE p = put /\ ~no
      <3>1. Old(part) /\ p.id = m.id BY <2>3, <1>7, <1>28
      <3> HIDE DEF old
      <3> QED BY <3>1, <2>1, <1>3, <1>5, <1>27
    <2>4. CASE \E i \in 1 .. Len(old) : p = old[i]
      <3> HIDE DEF old
      <3> QED BY <2>1, <2>4, <1>3, <1>28
    <2> HIDE DEF old
    <2> QED BY <2>2, <2>3, <2>4, <1>5, <1>28
  <1>29. ASSUME ~reconnecting, NEW id \in (DOMAIN z) \ spoiled', z[id] =< MaxFragments,
                Undelivered(id)', NEW o \in opened', o.id = id
         PROVE  HeldIn(fed.parts, id, o.num)
    <2>1. id \notin spoiled /\ id \notin Gone(old, fed.parts, m.id)
      BY <1>3, <1>29
    <2>2. Undelivered(id)
      <3>1. CASE delivered' = delivered BY <3>1, <1>29 DEF Undelivered
      <3>2. CASE \E x : delivered' = Append(delivered, x) /\ x.id = m.id
        <4>1. /\ Len(delivered) \in Nat /\ Len(delivered') = Len(delivered) + 1
              /\ \A i \in 1 .. Len(delivered) : delivered'[i] = delivered[i]
          BY <3>2, <1>1, AppendProperties, LenProperties DEF DeliveredOK
        <4> QED BY <4>1, <1>29 DEF Undelivered
      <3> QED BY <3>1, <3>2, <1>24, <1>25
    <2>3. ASSUME NEW q \in opened, q.id = id PROVE HeldIn(old, id, q.num)
      BY <2>1, <2>2, <2>3, <1>1, <1>29 DEF HeldOK
    <2>4. \A i, j \in 1 .. Len(old) : old[i].id = old[j].id => old[i] = old[j]
      <3>1. Len(old) \in Nat BY <1>9, LenProperties
      <3>2. \A i, j \in 1 .. Len(old) : i < j => old[i].id # old[j].id BY <1>9 DEF Tidy
      <3>3. \A i, j \in 1 .. Len(old) : i < j \/ j < i \/ i = j BY <3>1
      <3> HIDE DEF old
      <3> QED BY <3>2, <3>3
    <2> HIDE DEF old
    <2>5. CASE id # m.id
      <3>1. o \in opened BY <2>5, <1>2, <1>29
      <3>2. PICK i \in 1 .. Len(old) : old[i].id = id /\ o.num \in DOMAIN old[i].pieces
        BY <3>1, <2>3, <1>29 DEF HeldIn
      <3>3. PICK j \in 1 .. Len(fed.parts) : fed.parts[j].id = id
        BY <3>2, <2>1, <2>5, <1>9 DEF Gone
      <3>4. NewPart(m.id).id = m.id /\ (~no => put.id = m.id)
        BY <1>4, <1>7, NewPartIs
      <3>5. PICK i2 \in 1 .. Len(old) : fed.parts[j] = old[i2]
        BY <3>3, <3>4, <2>5, <1>5
      <3>6. old[i2] = old[i] BY <3>2, <3>3, <3>5, <2>4
      <3> QED BY <3>2, <3>5, <3>6 DEF HeldIn
    <2>6. CASE id = m.id
      <3>1. ~Old(part)
        <4>1. \A i \in 1 .. Len(old) : Old(old[i]) => old[i].id \in spoiled
          BY <1>1, <1>29 DEF HeldOK, old
        <4> QED BY <4>1, <2>1, <2>6, <1>5, <1>27
      <3>2. z[m.id] \in Nat
        BY <1>1, <1>4, LenProperties, ElementOfSeq DEF SenderTypes, Sizes
      <3>3. \A k \in DOMAIN part.pieces : k < z[m.id] /\ k \in Nat
        <4> TAKE k \in DOMAIN part.pieces
        <4>1. part.pieces[k] = wire BY <3>1 DEF Old
        <4>2. Has(m.id, k) BY <4>1, <1>5, <1>6 DEF PartOK
        <4> QED BY <4>2, <1>1, <1>4, SentBefore
      <3>4. part.total # 0 => part.total = z[m.id]
        BY <3>1, <1>5, <1>6 DEF PartOK
      <3>5. m.last <=> m.num + 1 = z[m.id]
        BY <1>1 DEF CutOK, Cut
      <3>6. ~no
        <4>1. ~(m.num >= MaxFragments) BY <3>2, <1>4, <1>29, <2>6
        <4>2. ~(part.total # 0 /\ m.num >= part.total) BY <3>2, <3>4, <1>4
        <4>3. m.last => part.total \in {0, m.num + 1} BY <3>4, <3>5
        <4>4. m.last => ~\E k \in DOMAIN part.pieces : k > m.num BY <3>3, <3>5, <1>4
        <4> QED BY <4>1, <4>2, <4>3, <4>4 DEF Rejects, no
      <3>7. fed.out # put
        <4> SUFFICES ASSUME fed.out = put PROVE FALSE OBVIOUS
        <4>1. Complete(put)
          <5>1. DOMAIN NewPart(0).pieces = {} BY DEF NewPart
          <5>2. put # NewPart(0) BY <5>1, <3>6, <1>7
          <5> QED BY <5>2, <1>5
        <4>2. ~Old(put) /\ put.total # 0 BY <4>1, <3>1, <3>6, <1>7 DEF Complete
        <4>3. PICK x : x = Instruction(wire, m.id, z[m.id]) OBVIOUS
        <4>4. delivered' = Append(delivered, x) /\ x.id = m.id
          BY <4>2, <4>3, <1>25
        <4>5. /\ Len(delivered) \in Nat /\ Len(delivered') = Len(delivered) + 1
              /\ delivered'[Len(delivered) + 1] = x
          <5>1. delivered \in Seq(Pieced) BY <1>1 DEF DeliveredOK
          <5>2. x \in Pieced
            <6>1. wire \in Wires /\ z[m.id] \in Sizes
              BY <1>1, <1>4, LenProperties, ElementOfSeq DEF SenderTypes, ReceiverTypes
            <6> QED BY <6>1, <1>4, <4>3 DEF Pieced
          <5> QED BY <4>4, <5>1, <5>2, AppendProperties, LenProperties
        <4> QED BY <4>4, <4>5, <2>6, <1>29 DEF Undelivered
      <3>8. PICK j \in 1 .. Len(fed.parts) : fed.parts[j] = put
        BY <3>6, <3>7, <1>5
      <3>9. o.num \in DOMAIN put.pieces
        <4>1. CASE o = m BY <4>1, <3>6, <1>7
        <4>2. CASE o \in opened
          <5>1. PICK i \in 1 .. Len(old) : old[i].id = m.id /\ o.num \in DOMAIN old[i].pieces
            BY <4>2, <2>3, <2>6, <1>29 DEF HeldIn
          <5>2. part = old[i] BY <5>1, <2>4, <1>5, <1>9
          <5> QED BY <5>1, <5>2, <3>6, <1>7
        <4> QED BY <4>1, <4>2, <1>2, <1>29
      <3> QED BY <3>6, <3>8, <3>9, <2>6, <1>7 DEF HeldIn
    <2> QED BY <2>5, <2>6
  <1>30. HeldOK'
    <2>1. \A j \in 1 .. Len(assembly'.parts) :
             ~reconnecting /\ Old(assembly'.parts[j]) => assembly'.parts[j].id \in spoiled'
      BY <1>15, <1>28
    <2>2. \A p : Old(p)' <=> Old(p) BY <1>2 DEF Old
    <2>3. \A id \in (DOMAIN sender'.sizes) \ spoiled' :
             ~reconnecting /\ sender'.sizes[id] =< MaxFragments /\ Undelivered(id)'
             => \A o \in opened' : o.id = id => HeldIn(assembly'.parts, id, o.num)
      BY <1>2, <1>15, <1>29
    <2>4. \A j \in 1 .. Len(assembly'.parts) :
             ~reconnecting /\ Old(assembly.parts[j])' => assembly'.parts[j].id \in spoiled'
      BY <2>1, <2>2, <1>2 DEF Old
    <2> QED BY <2>3, <2>4, <1>2 DEF HeldOK, HeldIn, Undelivered
  <1>31. SpareOK' BY <1>2 DEF IndInv, SpareOK, Receive
  <1>32. IndInv'
    BY <1>10, <1>11, <1>12, <1>13, <1>14, <1>16, <1>19, <1>26, <1>30, <1>31 DEF IndInv, TypeOK
  <1>33. \/ delivered' = delivered
         \/ \E x \in {Instruction(wire, id, z[id]) : id \in DOMAIN z} :
               /\ delivered' = Append(delivered, x)
               /\ \A i \in 1 .. Len(delivered) : delivered[i] # x
    <2>1. CASE fed.out.total = 0 \/ Old(fed.out) BY <2>1, <1>24
    <2>2. CASE ~(fed.out.total = 0 \/ Old(fed.out))
      BY <2>2, <1>4, <1>25
    <2> QED BY <2>1, <2>2
  <1> QED BY <1>32, <1>33

-----------------------------------------------------------------------------
(* The theorems. *)

\* Every step of the path keeps the invariant.
LEMMA PathStep == IndInv /\ [Next]_vars => IndInv'
  <1> SUFFICES ASSUME IndInv, [Next]_vars PROVE IndInv'
    OBVIOUS
  <1>1. ASSUME NEW n \in 1 .. MaxFragments + 1, Send(n) PROVE IndInv'
    BY <1>1, SendStep DEF Sizes
  <1>2. CASE Roam BY <1>2, QuietStep
  <1>3. ASSUME NEW m \in net, NEW kept \in BOOLEAN, Receive(m, kept) PROVE IndInv'
    <2>1. CASE Opened(m) BY <2>1, <1>3, OpenedStep
    <2>2. CASE Refused(m) BY <2>2, <1>3, QuietStep
    <2> QED BY <2>1, <2>2, <1>3 DEF Receive
  <1>4. CASE Condemn BY <1>4, CondemnStep
  <1>5. CASE Reestablish BY <1>5, ReestablishStep
  <1>6. CASE UNCHANGED vars BY <1>6, QuietStep
  <1> QED BY <1>1, <1>2, <1>3, <1>4, <1>5, <1>6 DEF Next

\* The invariant holds throughout.
LEMMA PathInvariant == Spec => []IndInv
  BY InitStep, PathStep, PTL DEF Spec

\* The replay window, the parts and the count of what they hold stay within
\* the bounds of the code, and the count is exact: a subtraction of
\* FragmentAssembly::add never goes below zero (sync.rs:206-330).
THEOREM TypeCorrect == Spec => []TypeOK
  <1>1. IndInv => TypeOK BY DEF IndInv
  <1> QED BY <1>1, PathInvariant, PTL

\* ReplayWindow::check takes every datagram once, whatever the order they
\* arrive in, and the reply goes to where the newest came from, whatever the
\* client roams through (crypto.rs:114-139, datagram.rs:351-369).
THEOREM WireCorrect == Spec => []WireRemembered
  <1>1. IndInv => WireRemembered
    <2> SUFFICES ASSUME IndInv PROVE WindowExact /\ NewestTarget
      BY DEF WireRemembered
    <2>1. /\ ReceiverTypes /\ ReplayOK /\ TargetOK
      BY DEF IndInv, TypeOK
    <2>2. WindowExact
      BY <2>1, FreshMeans DEF WindowExact
    <2>3. NewestTarget
      <3> SUFFICES ASSUME NEW m \in opened, is_server, \A o \in opened : o.seq =< m.seq
                   PROVE  remote = m.from
        BY DEF NewestTarget
      <3>1. PICK o \in opened : o.seq + 1 = expected
        BY <2>1 DEF TargetOK
      <3>2. m.seq \in Nat /\ o.seq \in Nat /\ expected \in Nat
        BY <2>1 DEF ReceiverTypes, Datagrams, Numbers
      <3>3. m.seq + 1 = expected
        BY <2>1, <3>1, <3>2 DEF TargetOK
      <3> QED BY <2>1, <3>3 DEF TargetOK
    <2> QED BY <2>2, <2>3
  <1> QED BY <1>1, PathInvariant, PTL

\* n different pieces of an instruction of n are all of them.
LEMMA EveryPiece ==
  ASSUME IndInv, NEW id \in DOMAIN sender.sizes,
         Cardinality({m \in opened : m.id = id}) = sender.sizes[id]
  PROVE  \A k \in 0 .. sender.sizes[id] - 1 : Has(id, k)
  <1> DEFINE n == sender.sizes[id]
             S == {m \in opened : m.id = id}
             T == 0 .. n - 1
             f == [m \in S |-> m.num]
  <1>1. SenderTypes /\ ReceiverTypes /\ CutOK
    BY DEF IndInv, TypeOK
  <1>2. n \in Nat
    <2>1. n \in Sizes BY <1>1, LenProperties, ElementOfSeq DEF SenderTypes
    <2> QED BY <2>1, PathBounds DEF Sizes
  <1>3. \A m \in S : m.num \in T
    BY <1>1, <1>2 DEF CutOK, Cut, ReceiverTypes, Datagrams
  <1>4. \A m, o \in S : m.num = o.num => m = o
    BY <1>1 DEF CutOK
  <1>5. IsFiniteSet(T) /\ Cardinality(T) = n
    <2>1. 0 \in Int /\ n - 1 \in Int BY <1>2
    <2>2. Cardinality(T) = IF 0 > n - 1 THEN 0 ELSE (n - 1) - 0 + 1
      BY <2>1, FS_Interval
    <2>3. IsFiniteSet(T) BY <2>1, FS_Interval
    <2> HIDE DEF T
    <2> QED BY <2>2, <2>3, <1>2
  <1>6. Cardinality(S) = n OBVIOUS
  <1> HIDE DEF n, S, T
  <1>7. f \in Injection(S, T)
    BY <1>3, <1>4 DEF Injection, IsInjective
  <1>8. f \in Surjection(S, T)
    BY <1>5, <1>6, <1>7, FS_Injection
  <1>9. \A k \in T : \E m \in S : f[m] = k
    BY <1>8 DEF Surjection
  <1> QED BY <1>9 DEF Has, S, T, n

\* Every order in which the pieces of an instruction arrive puts it together,
\* unless the bounds on parts and bytes evicted it or a reconnect left an old
\* part under its id (FragmentAssembly::add).
THEOREM ReassemblyCorrect == Spec => []Reassembles
  <1>1. IndInv => Reassembles
    <2> SUFFICES ASSUME IndInv, NEW id \in DOMAIN sender.sizes,
                        ~reconnecting, id \notin spoiled, sender.sizes[id] =< MaxFragments,
                        Cardinality({m \in opened : m.id = id}) = sender.sizes[id],
                        \A i \in DOMAIN delivered : delivered[i].id # id
                 PROVE  FALSE
      BY DEF Reassembles
    <2> DEFINE n == sender.sizes[id]
               ps == assembly.parts
    <2>1. /\ SenderTypes /\ ReceiverTypes /\ AssemblySound /\ CutOK /\ DeliveredOK
          /\ PartsOK /\ HeldOK
      BY DEF IndInv, TypeOK
    <2>2. n \in Nat /\ n >= 1 /\ id \in 1 .. MaxSeq
      <3>1. n \in Sizes BY <2>1, LenProperties, ElementOfSeq DEF SenderTypes
      <3>2. /\ Len(sender.sizes) \in Nat /\ DOMAIN sender.sizes = 1 .. Len(sender.sizes)
            /\ Len(sender.sizes) =< MaxSeq
        BY <2>1, LenProperties, PathBounds DEF SenderTypes, Numbers
      <3> QED BY <3>1, <3>2, PathBounds DEF Sizes
    <2>3. Undelivered(id)
      BY <2>1, LenProperties DEF DeliveredOK, Undelivered
    <2>4. \A k \in 0 .. n - 1 : Has(id, k)
      BY EveryPiece
    <2>5. \A k \in 0 .. n - 1 : HeldIn(ps, id, k)
      BY <2>1, <2>3, <2>4 DEF HeldOK, Has
    <2>6. PICK i \in 1 .. Len(ps) : ps[i].id = id
      BY <2>2, <2>5 DEF HeldIn
    <2>7. \A j \in 1 .. Len(ps) : ps[j].id = id => j = i
      <3>1. Len(ps) \in Nat BY <2>1, LenProperties DEF AssemblySound
      <3>2. \A j \in 1 .. Len(ps) : j < i \/ i < j \/ i = j BY <3>1
      <3> QED BY <2>1, <2>6, <3>2 DEF PartsOK, Tidy
    <2> HIDE DEF n
    <2>8. \A k \in 0 .. n - 1 : k \in DOMAIN ps[i].pieces
      BY <2>5, <2>7 DEF HeldIn
    <2>9. ~Old(ps[i])
      BY <2>1, <2>6 DEF HeldOK
    <2>10. PartOK(ps[i]) /\ ps[i] \in Parts
      BY <2>1, ElementOfSeq DEF PartsOK, AssemblySound
    <2> DEFINE p == ps[i]
    <2>11. p.id = id /\ PartOK(p) /\ ~Old(p) /\ p \in Parts
      BY <2>6, <2>9, <2>10
    <2>12. \A k \in 0 .. n - 1 : k \in DOMAIN p.pieces
      BY <2>8
    <2> HIDE DEF p, ps
    <2>13. p.total = n
      <3>1. n - 1 \in DOMAIN p.pieces /\ (n - 1) + 1 = n BY <2>2, <2>12
      <3> QED BY <3>1, <2>11 DEF PartOK, n
    <2>14. ASSUME NEW k \in DOMAIN p.pieces PROVE k \in 0 .. n - 1
      <3>1. p.pieces[k] = wire BY <2>11 DEF Old
      <3>2. Has(id, k) BY <3>1, <2>11 DEF PartOK
      <3>3. k < n /\ k \in Nat BY <3>2, <2>1, <2>2, SentBefore DEF n
      <3> QED BY <3>3, <2>2
    <2>15. Complete(p)
      <3>1. DOMAIN p.pieces = 0 .. n - 1 BY <2>12, <2>14
      <3> QED BY <3>1, <2>2, <2>13 DEF Complete
    <2> QED BY <2>11, <2>15 DEF PartOK
  <1> QED BY <1>1, PathInvariant, PTL

\* The path implements the channel: loss, duplication, reordering, eviction
\* and reconnects never cut, join, invent or repeat an instruction.
THEOREM ChannelCorrect == Spec => ChannelSpec
  <1>1. Init => Channel!Init
    BY DEF Init, NewSender, Channel!Init
  <1>2. IndInv /\ [Next]_vars =>
          [Channel!Next]_<<{Instruction(wire, id, sender.sizes[id]) : id \in DOMAIN sender.sizes},
                           delivered>>
    <2> DEFINE z == sender.sizes
               Sent == {Instruction(wire, id, z[id]) : id \in DOMAIN z}
    <2> SUFFICES ASSUME IndInv, [Next]_vars
                 PROVE  Channel!Next \/ (Sent' = Sent /\ delivered' = delivered)
      OBVIOUS
    <2>0. SenderTypes /\ ReceiverTypes /\ CutOK
      BY DEF IndInv, TypeOK
    <2>a. ASSUME wire' = wire, sender'.sizes = z PROVE Sent' = Sent
      BY <2>a
    <2>b. \A id \in DOMAIN z : Instruction(wire, id, z[id])
             \in {Instruction(w, j, n) : w \in Wires, j \in 1 .. MaxSeq, n \in Sizes}
      <3>1. wire \in Wires /\ \A id \in DOMAIN z : z[id] \in Sizes
        BY <2>0, LenProperties, ElementOfSeq DEF SenderTypes, ReceiverTypes
      <3>2. DOMAIN z \subseteq 1 .. MaxSeq
        <4>1. /\ Len(z) \in Nat /\ DOMAIN z = 1 .. Len(z) /\ Len(z) =< MaxSeq
          BY <2>0, LenProperties, PathBounds DEF SenderTypes, Numbers
        <4> QED BY <4>1, PathBounds
      <3> QED BY <3>1, <3>2
    <2>1. ASSUME NEW n \in 1 .. MaxFragments + 1, Send(n) PROVE Channel!Next
      <3>1. /\ wire' = wire /\ delivered' = delivered BY <2>1 DEF Send, ghosts
      <3>2. /\ \A id \in DOMAIN z : sender'.sizes[id] = z[id]
            /\ sender'.sizes[Len(z) + 1] = n
            /\ DOMAIN z = 1 .. Len(z) /\ DOMAIN sender'.sizes = 1 .. Len(z) + 1
            /\ Len(z) + 1 \in 1 .. MaxSeq /\ Len(z) \in Nat
        BY <2>0, <2>1, SentTypes DEF Sizes, SenderTypes
      <3>3. PICK x : x = Instruction(wire, Len(z) + 1, n) OBVIOUS
      <3>4. x \in {Instruction(w, j, l) : w \in Wires, j \in 1 .. MaxSeq, l \in Sizes}
        BY <3>2, <3>3, <2>0 DEF ReceiverTypes, Sizes
      <3>5. x \notin Sent
        <4>1. x.id = Len(z) + 1 /\ \A id \in DOMAIN z : Instruction(wire, id, z[id]).id = id
          BY <3>3 DEF Instruction
        <4> QED BY <4>1, <3>2
      <3>6. DOMAIN sender'.sizes = DOMAIN z \cup {Len(z) + 1} BY <3>2
      <3>7. Sent' = Sent \cup {x}
        BY <3>1, <3>2, <3>3, <3>6
      <3>8. Channel!Send(x) BY <3>1, <3>5, <3>7 DEF Channel!Send
      <3> QED BY <3>4, <3>8 DEF Channel!Next
    <2>2. CASE Roam
      <3>1. sender'.sizes = z /\ wire' = wire /\ delivered' = delivered
        BY <2>0, <2>2 DEF Roam, SenderTypes, ghosts
      <3> QED BY <3>1, <2>a
    <2>3. ASSUME NEW m \in net, NEW kept \in BOOLEAN, Receive(m, kept)
          PROVE  Channel!Next \/ (Sent' = Sent /\ delivered' = delivered)
      <3>1. sender' = sender /\ wire' = wire BY <2>3 DEF Receive
      <3>2. Sent' = Sent BY <3>1, <2>a
      <3>3. CASE Refused(m) BY <3>2, <3>3 DEF Refused, ghosts
      <3>4. CASE Opened(m)
        <4>1. \/ delivered' = delivered
              \/ \E x \in Sent : /\ delivered' = Append(delivered, x)
                                 /\ \A i \in 1 .. Len(delivered) : delivered[i] # x
          BY <2>3, <3>4, OpenedStep
        <4>2. ASSUME NEW x \in Sent, delivered' = Append(delivered, x),
                     \A i \in 1 .. Len(delivered) : delivered[i] # x
              PROVE  Channel!Next
          <5>1. DOMAIN delivered = 1 .. Len(delivered)
            BY LenProperties DEF IndInv, DeliveredOK
          <5>2. Channel!Deliver(x)
            BY <3>2, <4>2, <5>1 DEF Channel!Deliver
          <5> QED BY <2>b, <5>2 DEF Channel!Next
        <4> QED BY <4>1, <4>2, <3>2
      <3> QED BY <3>3, <3>4, <2>3 DEF Receive
    <2>4. CASE Condemn
      <3>1. sender' = sender /\ wire' = wire /\ delivered' = delivered
        BY <2>4 DEF Condemn, net_vars
      <3> QED BY <3>1, <2>a
    <2>5. CASE Reestablish
      <3>1. DOMAIN sender'.sizes = {} /\ delivered' = <<>>
        BY <2>5 DEF Reestablish, NewSender
      <3>2. Sent' = {} BY <3>1
      <3> QED BY <3>1, <3>2 DEF Channel!Next, Channel!Renew
    <2>6. CASE UNCHANGED vars
      <3>1. sender' = sender /\ wire' = wire /\ delivered' = delivered
        BY <2>6 DEF vars, net_vars, ghosts
      <3> QED BY <3>1, <2>a
    <2> QED BY <2>1, <2>2, <2>3, <2>4, <2>5, <2>6 DEF Next
  <1> QED BY <1>1, <1>2, PathInvariant, PTL DEF Spec, ChannelSpec, Channel!Spec

-----------------------------------------------------------------------------
(* The history stream: numbers. *)

\* A set of naturals that is bounded has a greatest member.
LEMMA GreatestOf ==
    ASSUME NEW S \in SUBSET Nat, S # {}, NEW bound \in Nat, \A k \in S : k <= bound
    PROVE  \E n \in S : \A k \in S : k <= n
  <1> DEFINE D == {bound - k : k \in S}
  <1>1. \A k \in S : bound - k \in Nat
    OBVIOUS
  <1>2. D \in SUBSET Nat /\ D # {}
    BY <1>1
  <1>3. PICK d \in D : \A e \in D : d <= e
    <2> HIDE DEF D
    <2> QED
      BY <1>2, LeastOf
  <1>4. PICK n \in S : d = bound - n
    BY <1>3
  <1>5. \A k \in S : bound - n <= bound - k
    BY <1>3, <1>4
  <1> QED
    BY <1>4, <1>5

\* Min of FiniteSetsExt is the least one.
LEMMA MinIsLeast ==
    ASSUME NEW S \in SUBSET Nat, S # {}
    PROVE  Min(S) \in S /\ \A k \in S : Min(S) <= k
  <1>1. \E n \in S : \A k \in S : n =< k
    BY LeastOf
  <1> QED
    BY <1>1 DEF Min

-----------------------------------------------------------------------------
(* Types: the sender. *)

\* The row space starts again where it is told to.
LEMMA StartAtType ==
    ASSUME NEW c \in CursorSet, NEW e \in 1 .. LastEpoch, NEW r \in Nat, NEW total \in Nat
    PROVE  StartAt(c, e, r, total) \in CursorSet /\ StartAt(c, e, r, total).abs = total
  BY DEF StartAt, CursorSet

\* A bump opens another epoch at the total, or does nothing.
LEMMA BumpType ==
    ASSUME NEW c \in CursorSet, NEW total \in Nat, c.abs <= total
    PROVE  BumpEpoch(c, total) \in CursorSet /\ BumpEpoch(c, total).abs <= total
  <1> DEFINE e == IF c.epoch = LastEpoch THEN 1 ELSE c.epoch + 1
  <1>1. e \in 1 .. LastEpoch
    BY DEF CursorSet, LastEpoch
  <1>2. CASE c.active
    <2>1. BumpEpoch(c, total) = StartAt(c, e, 0, total)
      BY <1>2 DEF BumpEpoch
    <2> HIDE DEF e
    <2> QED
      BY <1>1, <2>1, StartAtType
  <1>3. CASE ~c.active
    BY <1>3 DEF BumpEpoch
  <1> QED
    BY <1>2, <1>3

\* An acknowledgement moves the count, opens an epoch, or is ignored.
LEMMA OnAckType ==
    ASSUME NEW c \in CursorSet, NEW m \in MessageSet, NEW total \in Nat, c.abs <= total
    PROVE  OnAck(c, m, total) \in CursorSet /\ OnAck(c, m, total).abs <= total
  <1>1. [c EXCEPT !.acked = Maximum(@, m.acked)] \in CursorSet
    BY DEF CursorSet, MessageSet, Maximum
  <1>2. [c EXCEPT !.acked = Maximum(@, m.acked)].abs = c.abs
    BY DEF CursorSet
  <1> QED
    BY <1>1, <1>2, BumpType DEF OnAck

\* A message with another size is told to the cursor.
LEMMA OnSizeType ==
    ASSUME NEW c \in CursorSet, NEW s \in ViewSizes, NEW total \in Nat, c.abs <= total
    PROVE  OnSize(c, s, total) \in CursorSet /\ OnSize(c, s, total).abs <= total
  <1> DEFINE d == [c EXCEPT !.size = s]
  <1>1. d \in CursorSet /\ d.abs <= total
    BY DEF CursorSet
  <1>2. OnSize(c, s, total) \in {c, BumpEpoch(d, total)}
    BY DEF OnSize
  <1> HIDE DEF d
  <1> QED
    BY <1>1, <1>2, BumpType

\* A new cursor has its type.
LEMMA NewCursorType ==
    ASSUME NEW s \in ViewSizes
    PROVE  NewCursor(s) \in CursorSet /\ NewCursor(s).abs = 0 /\ ~NewCursor(s).active
  BY DEF NewCursor, CursorSet, LastEpoch

\* The Init opens it or leaves it closed.
LEMMA OpenType ==
    ASSUME NEW c \in CursorSet, NEW m \in MessageSet, NEW total \in Nat, c.abs <= total
    PROVE  Open(c, m, total) \in CursorSet /\ Open(c, m, total).abs <= total
  <1> DEFINE here == [NewCursor(m.size) EXCEPT !.linked = TRUE]
  <1>1. here \in CursorSet /\ here.abs = 0
    <2>1. m.size \in ViewSizes
      BY DEF MessageSet
    <2> QED
      BY <2>1, NewCursorType DEF CursorSet
  <1>2. m.epoch \in 0 .. LastEpoch /\ m.acked \in Nat
    BY DEF MessageSet, Epochs, NoEpoch
  <1>3. 1 \in 1 .. LastEpoch
    BY DEF LastEpoch
  <1>4. Open(c, m, total) =
            IF c.linked THEN c ELSE IF ~m.entry THEN here
            ELSE IF m.epoch = NoEpoch THEN StartAt(here, 1, 0, total)
            ELSE StartAt(here, m.epoch, m.acked, total)
    BY DEF Open
  <1>5. m.epoch # NoEpoch => m.epoch \in 1 .. LastEpoch
    BY <1>2 DEF NoEpoch, LastEpoch
  <1> HIDE DEF here
  <1>6. StartAt(here, 1, 0, total) \in CursorSet /\ StartAt(here, 1, 0, total).abs = total
    BY <1>1, <1>3, StartAtType
  <1>7. m.epoch # NoEpoch =>
            /\ StartAt(here, m.epoch, m.acked, total) \in CursorSet
            /\ StartAt(here, m.epoch, m.acked, total).abs = total
    BY <1>1, <1>2, <1>5, StartAtType
  <1> QED
    BY <1>1, <1>4, <1>6, <1>7

\* Whatever the sender hears, its cursor stays one.
LEMMA HeardType ==
    ASSUME daemon \in BOOLEAN,
           NEW c \in CursorSet, NEW m \in MessageSet, NEW total \in Nat, c.abs <= total
    PROVE  Heard(c, m, total) \in CursorSet /\ Heard(c, m, total).abs <= total
  <1> DEFINE begun == IF c.active THEN c ELSE StartAt(c, c.epoch, 0, total)
             told == IF daemon
                     THEN IF m.entry THEN OnAck(Open(c, m, total), m, total)
                          ELSE Open(c, m, total)
                     ELSE IF m.entry THEN OnEntry(c, m, total) ELSE c
  <1>1. c.epoch \in 1 .. LastEpoch /\ m.size \in ViewSizes
    BY DEF CursorSet, MessageSet
  <1>2. begun \in CursorSet /\ begun.abs <= total
    <2>1. StartAt(c, c.epoch, 0, total) \in CursorSet
          /\ StartAt(c, c.epoch, 0, total).abs = total
      BY <1>1, StartAtType
    <2> QED
      BY <2>1
  <1>3. OnEntry(c, m, total) = OnAck(begun, m, total)
    BY DEF OnEntry
  <1>4. told \in CursorSet /\ told.abs <= total
    <2> HIDE DEF begun
    <2> QED
      BY <1>2, <1>3, OpenType, OnAckType
  <1>5. Heard(c, m, total) = OnSize(told, m.size, total)
    BY DEF Heard
  <1> HIDE DEF told
  <1> QED
    BY <1>1, <1>4, <1>5, OnSizeType

\* Numbers of the row space are numbers, and the floor is one of them.
LEMMA SpaceType ==
    ASSUME SizesAssumption, NEW c \in CursorSet, NEW t \in TermSet, c.abs <= t.total
    PROVE  /\ Avail(c, t) \in Nat /\ Floor(c, t) \in Nat
           /\ c.rel <= Floor(c, t) /\ Floor(c, t) <= Avail(c, t)
           /\ Avail(c, t) - c.rel <= t.total
  BY DEF SizesAssumption, CursorSet, TermSet, Avail, Floor, Maximum, Minimum

\* The row behind a number that can be sent.
LEMMA RowType ==
    ASSUME SizesAssumption, NEW c \in CursorSet, NEW t \in TermSet, c.abs <= t.total,
           NEW r \in Nat, c.rel <= r, r < Avail(c, t)
    PROVE  Row(c, t, r) \in RowSet
  BY DEF SizesAssumption, CursorSet, TermSet, Avail, Row, RowSet

\* What the sender puts in a datagram.
LEMMA FrameType ==
    ASSUME SizesAssumption, HistoryTypeOK, NEW start \in Nat, NEW rows \in Seq(RowSet)
    PROVE  Frame(cursor, start, rows) \in FrameSet
  <1>1. Avail(cursor, term) \in Nat /\ Floor(cursor, term) \in Nat
    BY SpaceType DEF HistoryTypeOK
  <1>2. /\ cursor.active \in BOOLEAN /\ asks \in BOOLEAN
        /\ cursor.epoch \in Epochs /\ NoEpoch \in Epochs
    BY DEF HistoryTypeOK, CursorSet, Epochs, NoEpoch, LastEpoch
  <1>3. NoExtent \in ExtentSet
        /\ [avail |-> Avail(cursor, term), floor |-> Floor(cursor, term)] \in ExtentSet
    BY <1>1 DEF NoExtent, ExtentSet
  <1> QED
    BY <1>2, <1>3 DEF Frame, FrameSet

-----------------------------------------------------------------------------
(* Types: the viewport. *)

\* The bodies held back end somewhere.
HeldBounded(v) == \E n \in Nat : \A b \in v.held : End(b) <= n

\* Where the count can stop, and where it does.
Stops(v) == {Count(v), v.extent.floor} \cup {End(b) : b \in v.held}
Halts(v) ==
    {s \in Stops(v) : /\ s >= Count(v) /\ s >= v.extent.floor
                      /\ \A b \in v.held : ~Covers(b, s)}

\* The number of rows in hand is a number.
LEMMA CountType ==
    ASSUME NEW v \in ViewportSet
    PROVE  Count(v) \in Nat /\ v.extent.floor \in Nat /\ v.held \in SUBSET BodySet
  BY DEF ViewportSet, ExtentSet, Count

\* A body ends at a number.
LEMMA EndType ==
    ASSUME NEW b \in BodySet
    PROVE  /\ End(b) \in Nat /\ b.start \in Nat /\ b.rows \in Seq(RowSet)
           /\ Len(b.rows) \in Nat /\ End(b) = b.start + Len(b.rows)
  BY DEF BodySet, End

\* Stops are numbers.
LEMMA StopsType ==
    ASSUME NEW v \in ViewportSet
    PROVE  Stops(v) \in SUBSET Nat /\ Halts(v) \in SUBSET Nat
  <1>1. \A b \in v.held : End(b) \in Nat
    BY CountType, EndType
  <1> QED
    BY <1>1, CountType DEF Stops, Halts

\* From any number that is past the floor and in no held body, the count
\* has stopped before.
LEMMA HaltBefore ==
    ASSUME NEW v \in ViewportSet, NEW r \in Nat, r >= Count(v), r >= v.extent.floor,
           \A b \in v.held : ~Covers(b, r)
    PROVE  \E s \in Halts(v) : s <= r
  <1> DEFINE S == {s \in Stops(v) : s <= r}
  <1>1. S \in SUBSET Nat /\ Count(v) \in S /\ v.extent.floor \in S /\ \A k \in S : k <= r
    BY StopsType DEF Stops
  <1>2. PICK s \in S : \A k \in S : k <= s
    <2> HIDE DEF S
    <2> QED
      BY <1>1, GreatestOf
  <1>3. s \in Nat /\ s <= r /\ s >= Count(v) /\ s >= v.extent.floor
    BY <1>1, <1>2, CountType
  <1>4. ASSUME NEW b \in v.held, Covers(b, s)
        PROVE  FALSE
    <2>1. End(b) \in Nat /\ b.start \in Nat /\ b.start <= s /\ s < End(b)
      BY <1>4, CountType, EndType DEF Covers
    <2>2. CASE End(b) <= r
      <3>1. End(b) \in S
        BY <2>2 DEF Stops
      <3> QED
        BY <3>1, <2>1, <1>2, <1>3
    <2>3. CASE ~(End(b) <= r)
      <3>1. b.start <= r /\ r < End(b)
        BY <2>1, <2>3, <1>3
      <3> QED
        BY <3>1 DEF Covers
    <2> QED
      BY <2>2, <2>3
  <1>5. s \in Halts(v)
    BY <1>2, <1>3, <1>4 DEF Halts
  <1> QED
    BY <1>3, <1>5

\* What settle_history does: it moves the count to a stop past every row
\* that is held or gone.
SettledAt(v, t) ==
    [v EXCEPT !.ring = Grown(v, t, v.held), !.held = {b \in v.held : b.start > t}]

\* It does: the least of the stops that halt it is one.
LEMMA SettledStops ==
    ASSUME NEW v \in ViewportSet, HeldBounded(v)
    PROVE  \E t \in Nat :
              /\ Settled(v) = SettledAt(v, t)
              /\ t \in Halts(v)
              /\ \A r \in Nat : Count(v) <= r /\ r < t =>
                    r < v.extent.floor \/ \E b \in v.held : Covers(b, r)
  <1>1. Halts(v) # {}
    <2>1. PICK n \in Nat : \A b \in v.held : End(b) <= n
      BY DEF HeldBounded
    <2> DEFINE r == Maximum(Maximum(Count(v), v.extent.floor), n)
    <2>2. r \in Nat /\ r >= Count(v) /\ r >= v.extent.floor /\ r >= n
      BY CountType DEF Maximum
    <2> HIDE DEF r
    <2>3. \A b \in v.held : End(b) \in Nat /\ End(b) <= n
      BY <2>1, CountType, EndType
    <2>4. \A b \in v.held : ~Covers(b, r)
      BY <2>2, <2>3 DEF Covers
    <2> QED
      BY <2>2, <2>4, HaltBefore
  <1> DEFINE t == Min(Halts(v))
  <1>2. t \in Halts(v) /\ \A k \in Halts(v) : t <= k
    BY <1>1, StopsType, MinIsLeast
  <1>3. Settled(v) = SettledAt(v, t)
    BY DEF Settled, SettledAt, Halts, Stops
  <1> HIDE DEF t
  <1>4. t \in Nat
    BY <1>2, StopsType
  <1>5. ASSUME NEW r \in Nat, Count(v) <= r, r < t, ~(r < v.extent.floor),
               ~ \E b \in v.held : Covers(b, r)
        PROVE  FALSE
    <2>1. r >= Count(v) /\ r >= v.extent.floor
      BY <1>5, CountType
    <2>2. PICK s \in Halts(v) : s <= r
      BY <2>1, <1>5, HaltBefore
    <2>3. s \in Nat /\ t <= s
      BY <2>2, <1>2, StopsType
    <2> QED
      BY <2>2, <2>3, <1>4, <1>5
  <1> QED
    BY <1>2, <1>3, <1>4, <1>5

\* The row of a body that covers a number.
LEMMA RowOfType ==
    ASSUME NEW b \in BodySet, NEW r \in Nat, Covers(b, r)
    PROVE  /\ RowOf(b, r) \in RowSet
           /\ r - b.start + 1 \in 1 .. Len(b.rows)
  <1>1. r - b.start + 1 \in 1 .. Len(b.rows)
    BY EndType DEF Covers
  <1> QED
    BY <1>1, EndType DEF RowOf

\* A grown ring has the length it is grown to.
LEMMA GrownType ==
    ASSUME NEW v \in ViewportSet, NEW t \in Nat, NEW bodies \in SUBSET BodySet
    PROVE  Grown(v, t, bodies) \in Seq(RowSet) /\ Len(Grown(v, t, bodies)) = t
  <1>1. ASSUME NEW n \in 1 .. t
        PROVE  (IF n <= Count(v) THEN v.ring[n]
                ELSE IF \E b \in bodies : Covers(b, n - 1)
                THEN RowOf(CHOOSE b \in bodies : Covers(b, n - 1), n - 1)
                ELSE Gap) \in RowSet
    <2>1. CASE n <= Count(v)
      <3>1. v.ring \in Seq(RowSet) /\ n \in 1 .. Len(v.ring)
        BY <2>1, CountType DEF ViewportSet, Count
      <3> QED
        BY <2>1, <3>1
    <2>2. CASE ~(n <= Count(v)) /\ \E b \in bodies : Covers(b, n - 1)
      <3> DEFINE x == CHOOSE b \in bodies : Covers(b, n - 1)
      <3>1. x \in BodySet /\ Covers(x, n - 1) /\ n - 1 \in Nat
        BY <2>2
      <3> HIDE DEF x
      <3>2. RowOf(x, n - 1) \in RowSet
        BY <3>1, RowOfType
      <3> QED
        BY <2>2, <3>2 DEF x
    <2>3. Gap \in RowSet
      BY DEF Gap, RowSet
    <2> QED
      BY <2>1, <2>2, <2>3
  <1>2. Grown(v, t, bodies) \in [1 .. t -> RowSet]
    BY <1>1 DEF Grown
  <1> QED
    BY <1>2

\* A viewport with its history settled is one.
LEMMA SettledAtType ==
    ASSUME NEW v \in ViewportSet, HeldBounded(v), NEW t \in Nat
    PROVE  SettledAt(v, t) \in ViewportSet /\ HeldBounded(SettledAt(v, t))
  <1>1. Grown(v, t, v.held) \in Seq(RowSet)
    BY CountType, GrownType
  <1>2. SettledAt(v, t) \in ViewportSet
    BY <1>1 DEF SettledAt, ViewportSet
  <1>3. SettledAt(v, t).held \subseteq v.held
    BY DEF SettledAt, ViewportSet
  <1> QED
    BY <1>2, <1>3 DEF HeldBounded

\* Settling keeps the types.
LEMMA SettledType ==
    ASSUME NEW v \in ViewportSet, HeldBounded(v)
    PROVE  Settled(v) \in ViewportSet /\ HeldBounded(Settled(v))
  BY SettledStops, SettledAtType

\* A body more is held back, or not.
LEMMA HoldType ==
    ASSUME NEW v \in ViewportSet, HeldBounded(v), NEW body \in BodySet
    PROVE  /\ Hold(v, body) \in ViewportSet /\ HeldBounded(Hold(v, body))
           /\ \/ Hold(v, body) = v
              \/ \E held \in SUBSET v.held : Hold(v, body) = [v EXCEPT !.held = held \cup {body}]
  <1> DEFINE others == {b \in v.held : b.start # body.start}
             w == [v EXCEPT !.held = others \cup {body}]
  <1>1. Hold(v, body) = v \/ Hold(v, body) = w
    BY DEF Hold
  <1>2. w \in ViewportSet /\ w.held = others \cup {body}
    BY DEF ViewportSet
  <1>3. HeldBounded(w)
    <2>1. PICK n \in Nat : \A b \in v.held : End(b) <= n
      BY DEF HeldBounded
    <2> DEFINE k == Maximum(n, End(body))
    <2>2. k \in Nat /\ n <= k /\ End(body) <= k
      BY EndType DEF Maximum
    <2>3. \A b \in v.held : End(b) \in Nat
      BY CountType, EndType
    <2> HIDE DEF k
    <2>4. \A b \in w.held : End(b) <= k
      BY <2>1, <2>2, <2>3, <1>2
    <2> QED
      BY <2>2, <2>4 DEF HeldBounded
  <1> HIDE DEF w
  <1>4. \E held \in SUBSET v.held : w = [v EXCEPT !.held = held \cup {body}]
    BY DEF w
  <1> QED
    BY <1>1, <1>2, <1>3, <1>4

\* A viewport without rows is one.
LEMMA ClearedType ==
    ASSUME NEW v \in ViewportSet, NEW e \in Epochs
    PROVE  Cleared(v, e) \in ViewportSet /\ HeldBounded(Cleared(v, e))
  <1>1. Cleared(v, e) \in ViewportSet /\ Cleared(v, e).held = {}
    <2>1. NoExtent \in ExtentSet /\ <<>> \in Seq(RowSet) /\ {} \in SUBSET BodySet
      BY DEF NoExtent, ExtentSet
    <2> QED
      BY <2>1 DEF Cleared, ViewportSet
  <1> QED
    BY <1>1 DEF HeldBounded

\* The epoch of a frame is taken on.
LEMMA AdoptedType ==
    ASSUME NEW v \in ViewportSet, HeldBounded(v), NEW m \in FrameSet
    PROVE  Adopted(v, m) \in ViewportSet /\ HeldBounded(Adopted(v, m))
  BY ClearedType DEF Adopted, FrameSet

\* Its extent is noted.
Told(v, m) ==
    [v EXCEPT !.seen = TRUE,
              !.extent = [avail |-> Maximum(@.avail, m.extent.avail),
                          floor |-> Maximum(@.floor, m.extent.floor)]]

\* Noting an extent keeps them.
LEMMA ToldType ==
    ASSUME NEW v \in ViewportSet, HeldBounded(v), NEW m \in FrameSet
    PROVE  Told(v, m) \in ViewportSet /\ HeldBounded(Told(v, m))
  <1> DEFINE x == [avail |-> Maximum(v.extent.avail, m.extent.avail),
                   floor |-> Maximum(v.extent.floor, m.extent.floor)]
  <1>1. x \in ExtentSet
    BY DEF ViewportSet, FrameSet, ExtentSet, Maximum
  <1>2. Told(v, m) = [v EXCEPT !.seen = TRUE, !.extent = x]
    BY DEF Told
  <1> HIDE DEF x
  <1>3. Told(v, m) \in ViewportSet /\ Told(v, m).held = v.held
    BY <1>1, <1>2 DEF ViewportSet
  <1> QED
    BY <1>3 DEF HeldBounded

\* So does a frame's extent.
LEMMA ExtendedType ==
    ASSUME NEW v \in ViewportSet, HeldBounded(v), NEW m \in FrameSet
    PROVE  Extended(v, m) \in ViewportSet /\ HeldBounded(Extended(v, m))
  <1>1. Extended(v, m) = v \/ Extended(v, m) = Settled(Told(v, m))
    BY DEF Extended, Told
  <1> QED
    BY <1>1, ToldType, SettledType

\* The ring takes the rows of a body.
Joined(v, body) == [v EXCEPT !.ring = Grown(v, End(body), {body})]

\* So do the rows of a body.
LEMMA JoinedType ==
    ASSUME NEW v \in ViewportSet, HeldBounded(v), NEW body \in BodySet
    PROVE  Joined(v, body) \in ViewportSet /\ HeldBounded(Joined(v, body))
  <1>1. Grown(v, End(body), {body}) \in Seq(RowSet)
    BY EndType, GrownType
  <1>2. Joined(v, body) \in ViewportSet /\ Joined(v, body).held = v.held
    BY <1>1 DEF Joined, ViewportSet
  <1> QED
    BY <1>2 DEF HeldBounded

BodyOf(m) == [start |-> m.start, rows |-> m.rows]

\* So does a body, applied, held back or too late.
LEMMA AppliedType ==
    ASSUME NEW v \in ViewportSet, HeldBounded(v), NEW m \in FrameSet
    PROVE  Applied(v, m) \in ViewportSet /\ HeldBounded(Applied(v, m))
  <1>1. BodyOf(m) \in BodySet
    BY DEF BodyOf, FrameSet, BodySet
  <1>2. \/ Applied(v, m) = v
        \/ Applied(v, m) = Settled(Hold(v, BodyOf(m)))
        \/ Applied(v, m) = Settled(Joined(v, BodyOf(m)))
    BY DEF Applied, BodyOf, Joined
  <1> QED
    BY <1>1, <1>2, SettledType, HoldType, JoinedType

-----------------------------------------------------------------------------
(* Types: the steps. *)

Typed == HistoryTypeOK /\ HeldBounded(viewport)

\* What next_body sends.
LEMMA SendBodyShape ==
    ASSUME SizesAssumption, Typed, NEW from \in Nat, NEW cap \in Nat, SendBody(from, cap)
    PROVE  \E start, count \in Nat, rows \in Seq(RowSet) :
              /\ start >= cursor.rel /\ start >= from /\ start >= Floor(cursor, term)
              /\ start + count <= Maximum(from, Avail(cursor, term))
              /\ Len(rows) = count
              /\ \A k \in 1 .. count : /\ start + k - 1 < Avail(cursor, term)
                                       /\ rows[k] = Row(cursor, term, start + k - 1)
              /\ cursor' = [cursor EXCEPT !.sent = start + count]
              /\ down' = down \cup {Frame(cursor, start, rows)}
              /\ UNCHANGED <<env_vars, term, viewport, up, spent>>
  <1> DEFINE avail == Avail(cursor, term)
             start == Maximum(from, Floor(cursor, term))
             left == IF avail > start THEN avail - start ELSE 0
             count == Minimum(left, cap)
             rows == [k \in 1 .. count |-> Row(cursor, term, start + k - 1)]
  <1>1. /\ avail \in Nat /\ Floor(cursor, term) \in Nat /\ cursor.rel \in Nat
        /\ cursor.rel <= Floor(cursor, term) /\ Floor(cursor, term) <= avail
    BY SpaceType DEF Typed, HistoryTypeOK, CursorSet
  <1>2. /\ cursor' = [cursor EXCEPT !.sent = start + count]
        /\ down' = down \cup {Frame(cursor, start, rows)}
        /\ UNCHANGED <<env_vars, term, viewport, up, spent>>
    BY DEF SendBody
  <1> HIDE DEF avail
  <1>3. /\ start \in Nat /\ start >= from /\ start >= Floor(cursor, term)
        /\ start >= cursor.rel /\ start <= Maximum(from, avail)
    BY <1>1 DEF Maximum
  <1> HIDE DEF start
  <1>4. /\ count \in Nat /\ count <= left
        /\ count > 0 => start + count <= avail
    BY <1>1, <1>3 DEF Minimum
  <1> HIDE DEF count
  <1>5. start + count <= Maximum(from, avail)
    BY <1>1, <1>3, <1>4 DEF Maximum
  <1>6. ASSUME NEW k \in 1 .. count
        PROVE  /\ start + k - 1 < avail /\ start + k - 1 \in Nat
               /\ Row(cursor, term, start + k - 1) \in RowSet
    <2>1. start + k - 1 < avail /\ start + k - 1 \in Nat /\ cursor.rel <= start + k - 1
      BY <1>1, <1>3, <1>4
    <2> QED
      BY <2>1, RowType DEF avail, Typed, HistoryTypeOK
  <1>7. rows \in [1 .. count -> RowSet]
    BY <1>6
  <1>8. rows \in Seq(RowSet) /\ Len(rows) = count
    BY <1>7, <1>4
  <1>9. \A k \in 1 .. count : rows[k] = Row(cursor, term, start + k - 1)
    OBVIOUS
  <1> HIDE DEF rows
  <1> QED
    BY <1>2, <1>3, <1>4, <1>5, <1>6, <1>8, <1>9 DEF avail

\* A fresh body starts behind everything sent, a resend at the count that is
\* acknowledged.
LEMMA BodySteps ==
    ASSUME SizesAssumption, BoundsAssumption, Typed, SendFresh \/ Resend
    PROVE  /\ cursor.active
           /\ \E from, cap \in Nat :
                 /\ SendBody(from, cap)
                 /\ \/ from = NextFresh(cursor) /\ from < Avail(cursor, term)
                    \/ from = cursor.acked /\ from < cursor.sent
  <1>1. /\ cursor.acked \in Nat /\ cursor.sent \in Nat
        /\ Avail(cursor, term) \in Nat
        /\ InFlight(cursor) \in Nat /\ NextFresh(cursor) \in Nat
    BY SpaceType DEF Typed, HistoryTypeOK, CursorSet, InFlight, NextFresh, Maximum
  <1>2. CASE SendFresh
    <2> DEFINE cap == Minimum(BodyRows, HistoryWindow - InFlight(cursor))
    <2>1. HistoryWindow \in Nat /\ BodyRows \in Nat
      BY DEF HistoryWindow, SizesAssumption, BoundsAssumption
    <2>2. /\ cursor.active /\ Avail(cursor, term) > NextFresh(cursor)
          /\ InFlight(cursor) < HistoryWindow /\ SendBody(NextFresh(cursor), cap)
      BY <1>2 DEF SendFresh
    <2>3. cap \in Nat
      BY <1>1, <2>1, <2>2 DEF Minimum
    <2> HIDE DEF cap
    <2> QED
      BY <1>1, <2>2, <2>3
  <1>3. CASE Resend
    <2>1. cursor.active /\ InFlight(cursor) > 0 /\ SendBody(cursor.acked, BodyRows)
      BY <1>3 DEF Resend
    <2>2. cursor.acked < cursor.sent
      BY <1>1, <2>1 DEF InFlight
    <2> QED
      BY <1>1, <2>1, <2>2 DEF SizesAssumption
  <1> QED
    BY <1>2, <1>3

\* The types hold at the start.
LEMMA TypeInit ==
    ASSUME SizesAssumption, HistoryInit
    PROVE  Typed
  <1>1. cursor \in CursorSet /\ cursor.abs = 0
    BY NewCursorType DEF HistoryInit, ViewSizes
  <1>2. term \in TermSet /\ term.total = 0
    BY DEF SizesAssumption, HistoryInit, TermSet
  <1>3. viewport \in ViewportSet /\ viewport.held = {}
    BY DEF HistoryInit, ViewportSet, NoExtent, ExtentSet, NoEpoch, LastEpoch, Epochs, ViewSizes
  <1>4. HeldBounded(viewport)
    BY <1>3 DEF HeldBounded
  <1> QED
    BY <1>1, <1>2, <1>3, <1>4 DEF HistoryInit, Typed, HistoryTypeOK

\* A ring laid out anew is a ring.
LEMMA LaidType ==
    ASSUME SizesAssumption, NEW t \in TermSet, NEW u \in Laid(t)
    PROVE  u \in TermSet /\ u.total = t.total /\ u.layout > t.layout
  <1>1. PICK n \in 0 .. RingCap : u = [t EXCEPT !.layout = t.layout + 1, !.len = n]
    BY DEF Laid
  <1>2. t.layout + 1 \in Nat \ {0} /\ t.layout + 1 > t.layout
    BY DEF TermSet
  <1> QED
    BY <1>1, <1>2 DEF TermSet

\* A cursor that is anchored anew is one.
LEMMA ReanchorType ==
    ASSUME SizesAssumption, NEW c \in CursorSet, NEW t \in TermSet, c.abs <= t.total
    PROVE  /\ Reanchor(c, t) \in CursorSet
           /\ Reanchor(c, t).abs <= t.total
  <1>1. Avail(c, t) \in Nat /\ t.total \in Nat
    BY SpaceType DEF TermSet
  <1>2. [c EXCEPT !.abs = t.total, !.rel = Avail(c, t)] \in CursorSet
    BY <1>1 DEF CursorSet
  <1>3. [c EXCEPT !.abs = t.total, !.rel = Avail(c, t)].abs = t.total
    BY DEF CursorSet
  <1> QED
    BY <1>1, <1>2, <1>3 DEF Reanchor

\* Every step keeps the types.
LEMMA TypeSession ==
    ASSUME SizesAssumption, BoundsAssumption, Typed, Session
    PROVE  Typed'
  <1>1. /\ UNCHANGED <<env_vars, viewport, down, up>>
        /\ term' \in TermSet /\ cursor' \in CursorSet /\ cursor'.abs <= term'.total
    <2>1. CASE Scroll
      <3>1. term' \in TermSet /\ term'.total >= term.total
        <4>1. /\ term \in TermSet /\ term.total + 1 \in Nat
              /\ Minimum(term.len + 1, RingCap) \in 0 .. RingCap
          BY DEF TermSet, SizesAssumption, Minimum, Typed, HistoryTypeOK
        <4>2. term' = [term EXCEPT !.total = term.total + 1,
                                   !.len = Minimum(term.len + 1, RingCap)]
          BY <2>1 DEF Scroll
        <4> HIDE DEF Minimum
        <4>3. term' \in TermSet
          BY <4>1, <4>2 DEF TermSet
        <4> QED
          BY <4>1, <4>2, <4>3 DEF TermSet
      <3> QED
        BY <2>1, <3>1 DEF Scroll, Typed, HistoryTypeOK, CursorSet, TermSet
    <2>2. CASE ClearRing
      <3>1. term' \in TermSet /\ term'.total = term.total
        BY <2>2 DEF ClearRing, TermSet, SizesAssumption, Typed, HistoryTypeOK
      <3> QED
        BY <2>2, <3>1 DEF ClearRing, Typed, HistoryTypeOK
    <2>3. CASE SessionResize
      <3>1. term' \in TermSet /\ term'.total = term.total
        BY <2>3, LaidType DEF SessionResize, Typed, HistoryTypeOK
      <3>2. cursor' \in CursorSet /\ cursor'.abs <= term.total
        BY <2>3, ReanchorType DEF SessionResize, Typed, HistoryTypeOK
      <3> QED
        BY <2>3, <3>1, <3>2 DEF SessionResize
    <2> QED
      BY <2>1, <2>2, <2>3 DEF Session
  <1> QED
    BY <1>1 DEF Typed, HistoryTypeOK, HeldBounded, End, env_vars

\* The sender hears.
LEMMA TypeHear ==
    ASSUME SizesAssumption, BoundsAssumption, Typed, NEW m \in up, Hear(m)
    PROVE  Typed'
  <1>1. m \in MessageSet /\ daemon \in BOOLEAN /\ term.total \in Nat
    BY DEF Typed, HistoryTypeOK, TermSet
  <1>2. term' \in TermSet /\ term'.total = term.total
    BY LaidType DEF Hear, Typed, HistoryTypeOK
  <1>3. cursor' \in CursorSet /\ cursor'.abs <= term.total
    BY <1>1, HeardType DEF Hear, Typed, HistoryTypeOK
  <1> QED
    BY <1>2, <1>3 DEF Hear, Typed, HistoryTypeOK, HeldBounded, End, env_vars

\* The sender sends or hears.
LEMMA TypeSender ==
    ASSUME SizesAssumption, BoundsAssumption, Typed, Sender
    PROVE  Typed'
  <1>1. CASE SendFrame
    <2>1. <<>> \in Seq(RowSet) /\ 0 \in Nat
      OBVIOUS
    <2>2. Frame(cursor, 0, <<>>) \in FrameSet
      BY <2>1, FrameType DEF Typed
    <2> QED
      BY <1>1, <2>2 DEF SendFrame, Typed, HistoryTypeOK, HeldBounded, End, env_vars
  <1>2. CASE SendFresh \/ Resend
    <2>1. PICK from, cap \in Nat : SendBody(from, cap)
      BY <1>2, BodySteps
    <2>2. PICK start, count \in Nat, rows \in Seq(RowSet) :
              /\ cursor' = [cursor EXCEPT !.sent = start + count]
              /\ down' = down \cup {Frame(cursor, start, rows)}
              /\ UNCHANGED <<env_vars, term, viewport, up, spent>>
      BY <2>1, SendBodyShape
    <2>3. Frame(cursor, start, rows) \in FrameSet
      BY FrameType DEF Typed
    <2>4. cursor' \in CursorSet /\ cursor'.abs = cursor.abs
      <3>1. start + count \in Nat /\ cursor \in CursorSet
        BY DEF Typed, HistoryTypeOK
      <3> QED
        BY <2>2, <3>1 DEF CursorSet
    <2> QED
      BY <2>2, <2>3, <2>4 DEF Typed, HistoryTypeOK, HeldBounded, End, env_vars
  <1>3. ASSUME NEW m \in up, Hear(m)
        PROVE  Typed'
    BY <1>3, TypeHear
  <1> QED
    BY <1>1, <1>2, <1>3 DEF Sender

\* The viewport receives, speaks or changes its size.
LEMMA TypeViewport ==
    ASSUME SizesAssumption, BoundsAssumption, Typed, Viewport
    PROVE  Typed'
  <1>1. ASSUME NEW m \in down, NEW again \in BOOLEAN, ReceiveFrame(m, again)
        PROVE  Typed'
    <2>1. m \in FrameSet
      BY DEF Typed, HistoryTypeOK
    <2>2. viewport' = Applied(Extended(Adopted(viewport, m), m), m)
      BY <1>1 DEF ReceiveFrame
    <2>3. viewport' \in ViewportSet /\ HeldBounded(viewport')
      BY <2>1, <2>2, AdoptedType, ExtendedType, AppliedType DEF Typed, HistoryTypeOK
    <2>4. UNCHANGED <<env_vars, term, cursor, up>> /\ down' \subseteq down
      BY <1>1 DEF ReceiveFrame
    <2> QED
      BY <2>3, <2>4 DEF Typed, HistoryTypeOK, HeldBounded, env_vars
  <1>2. CASE SendMessage
    <2> DEFINE m == [size |-> viewport.size, entry |-> ~viewport.suppress,
             epoch |-> IF viewport.suppress THEN NoEpoch ELSE viewport.epoch,
             acked |-> IF viewport.suppress THEN 0 ELSE Count(viewport)]
    <2>1. m \in MessageSet
      BY CountType DEF Typed, HistoryTypeOK, ViewportSet, MessageSet, Epochs, NoEpoch, LastEpoch
    <2>2. viewport' \in ViewportSet /\ viewport'.held = viewport.held
      BY <1>2 DEF SendMessage, Typed, HistoryTypeOK, ViewportSet
    <2>3. up' = up \cup {m} /\ UNCHANGED <<env_vars, term, cursor, down, spent>>
      BY <1>2 DEF SendMessage
    <2> HIDE DEF m
    <2> QED
      BY <2>1, <2>2, <2>3 DEF Typed, HistoryTypeOK, HeldBounded, env_vars
  <1>3. CASE Resize
    <2> DEFINE w == Cleared(viewport, NoEpoch)
    <2>1. w \in ViewportSet /\ w.held = {}
      <3>1. NoEpoch \in Epochs
        BY DEF NoEpoch, Epochs, LastEpoch
      <3> QED
        BY <3>1, ClearedType DEF Typed, HistoryTypeOK, Cleared, ViewportSet
    <2>2. viewport' = [w EXCEPT !.suppress = TRUE, !.size = 1 - @]
      BY <1>3 DEF Resize
    <2> HIDE DEF w
    <2>3. viewport' \in ViewportSet /\ viewport'.held = {}
      <3>1. 1 - w.size \in ViewSizes
        BY <2>1 DEF ViewportSet, ViewSizes
      <3> QED
        BY <2>1, <2>2, <3>1 DEF ViewportSet
    <2>4. HeldBounded(viewport')
      BY <2>3 DEF HeldBounded
    <2> QED
      BY <1>3, <2>3, <2>4 DEF Resize, Typed, HistoryTypeOK, HeldBounded, env_vars
  <1> QED
    BY <1>1, <1>2, <1>3 DEF Viewport

\* Every step of the history stream keeps its types.
LEMMA TypeStep ==
    ASSUME SizesAssumption, BoundsAssumption, Typed, [HistoryNext]_history_vars
    PROVE  Typed'
  <1>1. CASE Reattach
    <2>1. cursor' \in CursorSet /\ cursor'.abs = 0
      BY <1>1, NewCursorType DEF Reattach, ViewSizes
    <2> QED
      BY <1>1, <2>1 DEF Reattach, Typed, HistoryTypeOK, TermSet, HeldBounded, End, env_vars
  <1>2. CASE Lose
    BY <1>2 DEF Lose, Typed, HistoryTypeOK, HeldBounded, End, env_vars
  <1>3. CASE UNCHANGED history_vars
    BY <1>3 DEF history_vars, Typed, HistoryTypeOK, HeldBounded, End, env_vars
  <1> QED
    BY <1>1, <1>2, <1>3, TypeSession, TypeSender, TypeViewport DEF HistoryNext

\* With the bound on what is held back the types are inductive.
LEMMA TypedInvariant == HistorySpec => []Typed
  BY TypeInit, TypeStep, SizesAssumption, BoundsAssumption, PTL DEF HistorySpec

\* HistoryTypeOK: cursor, viewport and datagrams keep their types, whatever
\* is sent, lost, repeated or resized (HistoryCursor, apply_scrollback2_rows,
\* settle_history).
THEOREM HistoryTypeCorrect == HistorySpec => []HistoryTypeOK
  BY TypedInvariant, PTL DEF Typed

-----------------------------------------------------------------------------
(* What a row number means.  Each epoch has a log of the rows that were ever *)
(* numbered in it; who holds a number holds the row of the log.              *)

Now(t) == [layout |-> t.layout, at |-> t.total]
Logs == [1 .. LastEpoch -> Seq(RowSet)]

\* Rows of a log come in the order they were scrolled, before the next one.
LogOK(log, t) ==
    /\ \A i, j \in DOMAIN log : i < j => Before(log[i], log[j])
    /\ \A i \in DOMAIN log : log[i] # Gap /\ Before(log[i], Now(t))

\* Rows that start at a number are the log's.
LogFits(log, start, rows) ==
    /\ start + Len(rows) <= Len(log)
    /\ \A k \in 1 .. Len(rows) : rows[k] = log[start + k]

\* So are those of a viewport, held back or not, but for the gaps.
ViewFits(v, log) ==
    /\ Count(v) <= Len(log) /\ v.extent.floor <= Len(log)
    /\ \A n \in 1 .. Count(v) : v.ring[n] \in {Gap, log[n]}
    /\ \A b \in v.held : LogFits(log, b.start, b.rows)

\* Gaps are rows the sender cannot send.
GapsBelow(v, floor) ==
    /\ v.extent.floor <= floor
    /\ v.seen => \A n \in 1 .. Count(v) : v.ring[n] = Gap => n <= floor

\* The row a fitting body has at a number is the log's.
LEMMA RowOfFits ==
    ASSUME NEW log \in Seq(RowSet), NEW b \in BodySet, LogFits(log, b.start, b.rows),
           NEW n \in Nat, n > 0, Covers(b, n - 1)
    PROVE  RowOf(b, n - 1) = log[n] /\ n \in DOMAIN log
  <1> DEFINE k == n - 1 - b.start + 1
  <1>1. b.start \in Nat /\ Len(b.rows) \in Nat /\ n - 1 \in Nat /\ Len(log) \in Nat
    BY EndType
  <1>2. k \in 1 .. Len(b.rows)
    BY <1>1, RowOfType
  <1>3. b.start + k = n
    BY <1>1
  <1>4. RowOf(b, n - 1) = b.rows[k]
    BY DEF RowOf
  <1> HIDE DEF k
  <1>5. b.rows[k] = log[b.start + k] /\ b.start + Len(b.rows) <= Len(log)
    BY <1>2 DEF LogFits
  <1>6. n <= Len(log)
    BY <1>1, <1>2, <1>3, <1>5
  <1> QED
    BY <1>1, <1>3, <1>4, <1>5, <1>6

\* A ring grown out of fitting bodies fits, with new gaps only where none of
\* them reaches.
LEMMA GrownFits ==
    ASSUME NEW log \in Seq(RowSet), \A i \in DOMAIN log : log[i] # Gap,
           NEW v \in ViewportSet, \A n \in 1 .. Count(v) : v.ring[n] \in {Gap, log[n]},
           NEW t \in Nat, NEW bodies \in SUBSET BodySet,
           \A b \in bodies : LogFits(log, b.start, b.rows),
           NEW n \in 1 .. t
    PROVE  /\ Grown(v, t, bodies)[n] \in {Gap, log[n]}
           /\ Grown(v, t, bodies)[n] = Gap =>
                 \/ n <= Count(v) /\ v.ring[n] = Gap
                 \/ n > Count(v) /\ ~ \E b \in bodies : Covers(b, n - 1)
  <1>1. Count(v) \in Nat /\ n \in Nat /\ n > 0
    BY CountType
  <1>2. CASE n <= Count(v)
    <2>1. Grown(v, t, bodies)[n] = v.ring[n]
      BY <1>2 DEF Grown
    <2> QED
      BY <1>1, <1>2, <2>1
  <1>3. CASE ~(n <= Count(v)) /\ \E b \in bodies : Covers(b, n - 1)
    <2> DEFINE x == CHOOSE b \in bodies : Covers(b, n - 1)
    <2>1. x \in bodies /\ Covers(x, n - 1)
      BY <1>3
    <2>2. Grown(v, t, bodies)[n] = RowOf(x, n - 1)
      BY <1>3 DEF Grown
    <2> HIDE DEF x
    <2>3. RowOf(x, n - 1) = log[n] /\ n \in DOMAIN log
      BY <1>1, <2>1, RowOfFits
    <2> QED
      BY <2>2, <2>3
  <1>4. CASE ~(n <= Count(v)) /\ ~ \E b \in bodies : Covers(b, n - 1)
    <2>1. Grown(v, t, bodies)[n] = Gap
      BY <1>4 DEF Grown
    <2> QED
      BY <1>1, <1>4, <2>1
  <1> QED
    BY <1>2, <1>3, <1>4

\* A viewport that has settled fits as it did before, stands past the floor,
\* and gave up no row above it.
LEMMA SettledFits ==
    ASSUME NEW log \in Seq(RowSet), \A i \in DOMAIN log : log[i] # Gap,
           NEW v \in ViewportSet, HeldBounded(v), ViewFits(v, log),
           NEW floor \in Nat
    PROVE  /\ ViewFits(Settled(v), log)
           /\ Settled(v).extent.floor <= Count(Settled(v))
           /\ GapsBelow(v, floor) => GapsBelow(Settled(v), floor)
           /\ Settled(v).epoch = v.epoch /\ Settled(v).seen = v.seen
  <1>1. PICK t \in Nat :
            /\ Settled(v) = SettledAt(v, t)
            /\ t \in Halts(v)
            /\ \A r \in Nat : Count(v) <= r /\ r < t =>
                  r < v.extent.floor \/ \E b \in v.held : Covers(b, r)
    BY SettledStops
  <1> DEFINE w == Settled(v)
             g == Grown(v, t, v.held)
  <1>2. /\ Count(v) \in Nat /\ v.extent.floor \in Nat /\ v.held \in SUBSET BodySet
        /\ Len(log) \in Nat
    BY CountType
  <1>3. g \in Seq(RowSet) /\ Len(g) = t
    BY <1>2, GrownType
  <1>4. /\ w.ring = g /\ w.held = {b \in v.held : b.start > t}
        /\ w.extent = v.extent /\ w.epoch = v.epoch /\ w.seen = v.seen
        /\ Count(w) = t
    BY <1>1, <1>3 DEF SettledAt, ViewportSet, Count
  <1>5. t >= v.extent.floor /\ t >= Count(v)
    BY <1>1 DEF Halts
  <1>6. t <= Len(log)
    <2>1. \A b \in v.held : End(b) <= Len(log)
      BY <1>2, EndType DEF ViewFits, LogFits
    <2> QED
      BY <1>1, <2>1 DEF Halts, Stops, ViewFits
  <1>7. ASSUME NEW n \in 1 .. t
        PROVE  /\ g[n] \in {Gap, log[n]}
               /\ g[n] = Gap =>
                     \/ n <= Count(v) /\ v.ring[n] = Gap
                     \/ n > Count(v) /\ ~ \E b \in v.held : Covers(b, n - 1)
    BY <1>2, GrownFits DEF ViewFits
  <1> HIDE DEF w, g
  <1>8. ViewFits(w, log)
    BY <1>2, <1>4, <1>5, <1>6, <1>7 DEF ViewFits
  <1>9. w.extent.floor <= Count(w)
    BY <1>4, <1>5
  <1>10. ASSUME GapsBelow(v, floor)
         PROVE  GapsBelow(w, floor)
    <2>1. ASSUME w.seen, NEW n \in 1 .. t, g[n] = Gap
          PROVE  n <= floor
      <3>1. CASE n <= Count(v) /\ v.ring[n] = Gap
        BY <1>10, <2>1, <3>1, <1>2, <1>4 DEF GapsBelow
      <3>2. CASE n > Count(v) /\ ~ \E b \in v.held : Covers(b, n - 1)
        <4>1. n - 1 \in Nat /\ Count(v) <= n - 1 /\ n - 1 < t
          BY <3>2, <1>2
        <4>2. n - 1 < v.extent.floor
          BY <4>1, <3>2, <1>1
        <4> QED
          BY <4>2, <1>10, <1>2 DEF GapsBelow
      <3> QED
        BY <2>1, <3>1, <3>2, <1>7
    <2> QED
      BY <2>1, <1>4, <1>10 DEF GapsBelow
  <1> QED
    BY <1>4, <1>8, <1>9, <1>10 DEF w

\* A body that is held back changes nothing else.
LEMMA HoldFits ==
    ASSUME NEW log \in Seq(RowSet), NEW v \in ViewportSet, HeldBounded(v), ViewFits(v, log),
           NEW body \in BodySet, LogFits(log, body.start, body.rows), NEW floor \in Nat
    PROVE  /\ ViewFits(Hold(v, body), log)
           /\ GapsBelow(v, floor) => GapsBelow(Hold(v, body), floor)
           /\ Hold(v, body).epoch = v.epoch /\ Hold(v, body).seen = v.seen
  <1>1. CASE Hold(v, body) = v
    BY <1>1
  <1>2. ASSUME NEW held \in SUBSET v.held, Hold(v, body) = [v EXCEPT !.held = held \cup {body}]
        PROVE  /\ ViewFits(Hold(v, body), log)
               /\ GapsBelow(v, floor) => GapsBelow(Hold(v, body), floor)
               /\ Hold(v, body).epoch = v.epoch /\ Hold(v, body).seen = v.seen
    <2> DEFINE w == Hold(v, body)
    <2>1. /\ w.ring = v.ring /\ w.extent = v.extent /\ w.epoch = v.epoch /\ w.seen = v.seen
          /\ w.held = held \cup {body}
      BY <1>2 DEF ViewportSet
    <2> HIDE DEF w
    <2>2. Count(w) = Count(v)
      BY <2>1 DEF Count
    <2>3. ViewFits(w, log)
      BY <2>1, <2>2 DEF ViewFits
    <2>4. GapsBelow(v, floor) => GapsBelow(w, floor)
      BY <2>1, <2>2 DEF GapsBelow
    <2> QED
      BY <2>1, <2>3, <2>4 DEF w
  <1> QED
    BY <1>1, <1>2, HoldType

\* A body that goes on from the count, or comes to a viewport that gives up
\* what is missing, joins the ring.
LEMMA JoinedFits ==
    ASSUME NEW log \in Seq(RowSet), \A i \in DOMAIN log : log[i] # Gap,
           NEW v \in ViewportSet, ViewFits(v, log),
           NEW body \in BodySet, LogFits(log, body.start, body.rows), NEW floor \in Nat,
           End(body) > Count(v), body.start <= Count(v) \/ ~v.seen
    PROVE  /\ ViewFits(Joined(v, body), log)
           /\ GapsBelow(v, floor) => GapsBelow(Joined(v, body), floor)
           /\ Joined(v, body).epoch = v.epoch /\ Joined(v, body).seen = v.seen
  <1> DEFINE w == Joined(v, body)
             t == End(body)
             g == Grown(v, t, {body})
  <1>1. /\ Count(v) \in Nat /\ t \in Nat /\ Len(log) \in Nat /\ body.start \in Nat
        /\ t <= Len(log) /\ t > Count(v)
    BY CountType, EndType DEF LogFits
  <1>2. g \in Seq(RowSet) /\ Len(g) = t
    BY <1>1, GrownType
  <1>3. /\ w.ring = g /\ w.extent = v.extent /\ w.epoch = v.epoch /\ w.seen = v.seen
        /\ w.held = v.held /\ Count(w) = t
    BY <1>2 DEF Joined, ViewportSet, Count
  <1>4. ASSUME NEW n \in 1 .. t
        PROVE  /\ g[n] \in {Gap, log[n]}
               /\ g[n] = Gap =>
                     \/ n <= Count(v) /\ v.ring[n] = Gap
                     \/ n > Count(v) /\ ~ \E b \in {body} : Covers(b, n - 1)
    BY <1>1, GrownFits DEF ViewFits
  <1>5. ASSUME v.seen, NEW n \in 1 .. t, n > Count(v)
        PROVE  \E b \in {body} : Covers(b, n - 1)
    <2>1. body.start <= n - 1 /\ n - 1 < t
      BY <1>1, <1>5
    <2> QED
      BY <2>1 DEF Covers
  <1> HIDE DEF w, t, g
  <1>6. ViewFits(w, log)
    BY <1>1, <1>3, <1>4 DEF ViewFits
  <1>7. ASSUME GapsBelow(v, floor)
        PROVE  GapsBelow(w, floor)
    <2>1. ASSUME w.seen, NEW n \in 1 .. t, g[n] = Gap
          PROVE  n <= floor
      <3>1. n <= Count(v) /\ v.ring[n] = Gap
        BY <2>1, <1>3, <1>4, <1>5
      <3> QED
        BY <3>1, <2>1, <1>1, <1>3, <1>7 DEF GapsBelow
    <2> QED
      BY <2>1, <1>3, <1>7 DEF GapsBelow
  <1> QED
    BY <1>3, <1>6, <1>7 DEF w

\* What each datagram says, and what the viewport holds, of the logs.
DownOK(m, c, t, logs) ==
    /\ m.epoch = NoEpoch => m.start = 0 /\ m.rows = <<>> /\ ~m.told
    /\ m.epoch # NoEpoch =>
          /\ c.active
          /\ LogFits(logs[m.epoch], m.start, m.rows)
          /\ m.extent.floor <= Len(logs[m.epoch])
    /\ c.active /\ m.epoch = c.epoch => m.extent.floor <= Floor(c, t)
ViewOK(v, c, t, logs) ==
    /\ v.epoch = NoEpoch =>
          v.ring = <<>> /\ v.held = {} /\ ~v.seen /\ v.extent = NoExtent
    /\ v.epoch # NoEpoch => ViewFits(v, logs[v.epoch]) /\ v.extent.floor <= Count(v)
    /\ c.active /\ v.epoch = c.epoch => GapsBelow(v, Floor(c, t))

\* The viewport after a frame of the epoch in hand.
LEMMA ExtendedOK ==
    ASSUME NEW log \in Seq(RowSet), \A i \in DOMAIN log : log[i] # Gap,
           NEW v \in ViewportSet, HeldBounded(v), NEW m \in FrameSet, NEW floor \in Nat,
           m.epoch = v.epoch, m.extent.floor <= Len(log), ViewFits(v, log),
           m.told \/ (~v.seen /\ v.extent.floor <= Count(v))
    PROVE  /\ ViewFits(Extended(v, m), log)
           /\ Extended(v, m).extent.floor <= Count(Extended(v, m))
           /\ m.extent.floor <= floor /\ GapsBelow(v, floor) /\ (m.told => v.seen \/ v.ring = <<>>)
                 => GapsBelow(Extended(v, m), floor)
           /\ Extended(v, m).epoch = v.epoch /\ (Extended(v, m).seen <=> m.told)
  <1>1. CASE ~m.told
    <2>1. Extended(v, m) = v
      BY <1>1 DEF Extended
    <2> QED
      BY <1>1, <2>1 DEF ViewportSet
  <1>2. CASE m.told
    <2> DEFINE u == Told(v, m)
    <2>1. Extended(v, m) = Settled(u)
      BY <1>2 DEF Extended, Told
    <2>2. u \in ViewportSet /\ HeldBounded(u)
      BY ToldType
    <2>3. /\ u.ring = v.ring /\ u.held = v.held /\ u.epoch = v.epoch /\ u.seen = TRUE
          /\ u.extent.floor = Maximum(v.extent.floor, m.extent.floor)
      BY DEF Told, ViewportSet
    <2>4. v.extent.floor \in Nat /\ m.extent.floor \in Nat /\ Len(log) \in Nat
      BY CountType DEF FrameSet, ExtentSet
    <2> HIDE DEF u
    <2>5. Count(u) = Count(v)
      BY <2>3 DEF Count
    <2>6. ViewFits(u, log)
      BY <2>3, <2>4, <2>5 DEF ViewFits, Maximum
    <2>7. ASSUME m.extent.floor <= floor, GapsBelow(v, floor), v.seen \/ v.ring = <<>>
          PROVE  GapsBelow(u, floor)
      <3>1. v.ring = <<>> => Count(u) = 0
        BY <2>3 DEF Count
      <3>2. u.extent.floor <= floor
        BY <2>3, <2>4, <2>7 DEF GapsBelow, Maximum
      <3> QED
        BY <3>1, <3>2, <2>3, <2>5, <2>7 DEF GapsBelow
    <2> QED
      BY <1>2, <2>1, <2>2, <2>3, <2>6, <2>7, SettledFits
  <1> QED
    BY <1>1, <1>2

\* And after its rows.
LEMMA AppliedOK ==
    ASSUME NEW log \in Seq(RowSet), \A i \in DOMAIN log : log[i] # Gap,
           NEW v \in ViewportSet, HeldBounded(v), NEW m \in FrameSet, NEW floor \in Nat,
           LogFits(log, m.start, m.rows), ViewFits(v, log), v.extent.floor <= Count(v)
    PROVE  /\ ViewFits(Applied(v, m), log)
           /\ Applied(v, m).extent.floor <= Count(Applied(v, m))
           /\ GapsBelow(v, floor) => GapsBelow(Applied(v, m), floor)
           /\ Applied(v, m).epoch = v.epoch /\ Applied(v, m).seen = v.seen
  <1> DEFINE body == BodyOf(m)
             w == Applied(v, m)
  <1>1. body \in BodySet /\ body.start = m.start /\ body.rows = m.rows
    BY DEF BodyOf, FrameSet, BodySet
  <1>2. \/ w = v
        \/ w = Settled(Hold(v, body))
        \/ w = Settled(Joined(v, body)) /\ ~(End(body) <= Count(v))
              /\ ~(body.start > Count(v) /\ v.seen)
    BY DEF Applied, BodyOf, Joined
  <1>3. /\ End(body) \in Nat /\ Count(v) \in Nat /\ body.start \in Nat
        /\ v.seen \in BOOLEAN
    BY <1>1, CountType, EndType DEF ViewportSet
  <1> HIDE DEF body, w
  <1>4. LogFits(log, body.start, body.rows)
    BY <1>1
  <1>5. CASE w = v
    BY <1>5 DEF w
  <1>6. CASE w = Settled(Hold(v, body))
    <2> DEFINE u == Hold(v, body)
    <2>1. u \in ViewportSet /\ HeldBounded(u)
      BY <1>1, HoldType
    <2>2. /\ ViewFits(u, log) /\ (GapsBelow(v, floor) => GapsBelow(u, floor))
          /\ u.epoch = v.epoch /\ u.seen = v.seen
      BY <1>1, <1>4, HoldFits
    <2> HIDE DEF u
    <2>3. w = Settled(u)
      BY <1>6 DEF u
    <2> QED
      BY <2>1, <2>2, <2>3, SettledFits DEF w
  <1>7. CASE w = Settled(Joined(v, body)) /\ ~(End(body) <= Count(v))
             /\ ~(body.start > Count(v) /\ v.seen)
    <2> DEFINE u == Joined(v, body)
    <2>1. u \in ViewportSet /\ HeldBounded(u)
      BY <1>1, JoinedType
    <2>2. End(body) > Count(v) /\ (body.start <= Count(v) \/ ~v.seen)
      BY <1>3, <1>7
    <2>3. /\ ViewFits(u, log) /\ (GapsBelow(v, floor) => GapsBelow(u, floor))
          /\ u.epoch = v.epoch /\ u.seen = v.seen
      BY <1>1, <1>4, <2>2, JoinedFits
    <2> HIDE DEF u
    <2>4. w = Settled(u)
      BY <1>7 DEF u
    <2> QED
      BY <2>1, <2>3, <2>4, SettledFits DEF w
  <1> QED
    BY <1>2, <1>5, <1>6, <1>7

\* A frame that names no epoch leaves the viewport as it is.
LEMMA BlankFrame ==
    ASSUME NEW v \in ViewportSet, NEW m \in FrameSet, m.epoch = NoEpoch,
           m.start = 0, m.rows = <<>>, ~m.told
    PROVE  Applied(Extended(Adopted(v, m), m), m) = v
  <1>1. Extended(Adopted(v, m), m) = v
    BY DEF Adopted, Extended
  <1>2. End(BodyOf(m)) = 0
    BY DEF End, BodyOf
  <1>3. Count(v) \in Nat
    BY CountType
  <1> QED
    BY <1>1, <1>2, <1>3 DEF Applied, BodyOf

\* One that names an epoch leaves it fitting the log of that epoch.
LEMMA ReceiveOK ==
    ASSUME NEW logs \in Logs, \A e \in 1 .. LastEpoch : \A i \in DOMAIN logs[e] : logs[e][i] # Gap,
           NEW v \in ViewportSet, HeldBounded(v), NEW m \in FrameSet, m.epoch # NoEpoch,
           NEW c \in CursorSet, NEW t, Floor(c, t) \in Nat,
           DownOK(m, c, t, logs), ViewOK(v, c, t, logs),
           v.epoch # NoEpoch => v.seen = m.told
    PROVE  /\ ViewOK(Applied(Extended(Adopted(v, m), m), m), c, t, logs)
           /\ Applied(Extended(Adopted(v, m), m), m).epoch = m.epoch
           /\ Applied(Extended(Adopted(v, m), m), m).seen = m.told
  <1> DEFINE log == logs[m.epoch]
             floor == Floor(c, t)
             x == Adopted(v, m)
             y == Extended(x, m)
             z == Applied(y, m)
  <1>1. m.epoch \in 1 .. LastEpoch /\ m.told \in BOOLEAN
    BY DEF FrameSet, Epochs, NoEpoch, LastEpoch
  <1>2. log \in Seq(RowSet) /\ \A i \in DOMAIN log : log[i] # Gap
    BY <1>1 DEF Logs
  <1>3. /\ c.active /\ LogFits(log, m.start, m.rows) /\ m.extent.floor <= Len(log)
        /\ m.epoch = c.epoch => m.extent.floor <= floor
    BY DEF DownOK
  <1>4. x \in ViewportSet /\ HeldBounded(x)
    BY AdoptedType
  <1>5. /\ x.epoch = m.epoch /\ ViewFits(x, log) /\ x.extent.floor <= Count(x)
        /\ m.epoch = c.epoch => GapsBelow(x, floor)
        /\ x.seen = m.told \/ (~x.seen /\ x.ring = <<>>)
    <2>1. CASE m.epoch = v.epoch
      <3>1. x = v
        BY <2>1 DEF Adopted
      <3> QED
        BY <1>3, <2>1, <3>1 DEF ViewOK
    <2>2. CASE m.epoch # v.epoch
      <3>1. x = Cleared(v, m.epoch)
        BY <2>2 DEF Adopted
      <3>2. /\ x.epoch = m.epoch /\ x.ring = <<>> /\ ~x.seen /\ x.extent.floor = 0
            /\ x.held = {}
        BY <3>1 DEF Cleared, NoExtent, ViewportSet
      <3>3. Count(x) = 0 /\ Len(log) \in Nat
        BY <1>2, <3>2 DEF Count
      <3>4. ViewFits(x, log) /\ GapsBelow(x, floor)
        BY <3>2, <3>3 DEF ViewFits, GapsBelow
      <3> QED
        BY <3>2, <3>3, <3>4
    <2> QED
      BY <2>1, <2>2
  <1>6. x.seen \in BOOLEAN
    BY <1>4 DEF ViewportSet
  <1> HIDE DEF x, log, floor
  <1>7. /\ ViewFits(y, log) /\ y.extent.floor <= Count(y)
        /\ m.epoch = c.epoch => GapsBelow(y, floor)
        /\ y.epoch = m.epoch /\ (y.seen <=> m.told)
    <2>1. floor \in Nat
      BY DEF floor
    <2> QED
      BY <1>1, <1>2, <1>3, <1>4, <1>5, <1>6, <2>1, ExtendedOK
  <1>8. y \in ViewportSet /\ HeldBounded(y)
    BY <1>4, ExtendedType
  <1>9. y.seen \in BOOLEAN
    BY <1>8 DEF ViewportSet
  <1> HIDE DEF y
  <1>10. /\ ViewFits(z, log) /\ z.extent.floor <= Count(z)
         /\ m.epoch = c.epoch => GapsBelow(z, floor)
         /\ z.epoch = m.epoch /\ z.seen = m.told
    <2>1. floor \in Nat
      BY DEF floor
    <2> QED
      BY <1>1, <1>2, <1>3, <1>7, <1>8, <1>9, <2>1, AppliedOK
  <1> HIDE DEF z
  <1>11. ViewOK(z, c, t, logs)
    BY <1>10 DEF ViewOK, log, floor
  <1> QED
    BY <1>10, <1>11 DEF x, y, z

-----------------------------------------------------------------------------
(* What the sender hears. *)

NextEpoch(e) == IF e = LastEpoch THEN 1 ELSE e + 1

\* The row space of d is that of c.
SameSpace(c, d) ==
    /\ d.active = c.active /\ d.linked = c.linked /\ d.epoch = c.epoch
    /\ d.abs = c.abs /\ d.rel = c.rel /\ d.sent = c.sent

\* The row space of d is new.
FreshSpace(d, total) ==
    /\ d.active /\ d.abs = total /\ d.rel = 0 /\ d.sent = 0

\* A bump of an open cursor.
LEMMA BumpFresh ==
    ASSUME NEW c \in CursorSet, NEW total \in Nat, c.active
    PROVE  /\ FreshSpace(BumpEpoch(c, total), total)
           /\ BumpEpoch(c, total).epoch = NextEpoch(c.epoch)
           /\ BumpEpoch(c, total).linked = c.linked
           /\ BumpEpoch(c, total).size = c.size
           /\ BumpEpoch(c, total).acked = 0
  BY DEF BumpEpoch, StartAt, FreshSpace, NextEpoch, CursorSet

\* An acknowledgement leaves the row space alone or opens the next one.
LEMMA OnAckSpace ==
    ASSUME NEW c \in CursorSet, NEW m \in MessageSet, NEW total \in Nat
    PROVE  /\ OnAck(c, m, total).size = c.size
           /\ \/ SameSpace(c, OnAck(c, m, total))
              \/ /\ c.active /\ c.acked > 0
                 /\ FreshSpace(OnAck(c, m, total), total)
                 /\ OnAck(c, m, total).epoch = NextEpoch(c.epoch)
                 /\ OnAck(c, m, total).linked = c.linked
  <1> DEFINE d == [c EXCEPT !.acked = Maximum(@, m.acked)]
  <1>1. SameSpace(c, d) /\ d.size = c.size
    BY DEF SameSpace, CursorSet
  <1>2. \/ OnAck(c, m, total) = c
        \/ OnAck(c, m, total) = d
        \/ OnAck(c, m, total) = BumpEpoch(c, total) /\ c.active /\ c.acked > 0
    BY DEF OnAck
  <1>3. SameSpace(c, c)
    BY DEF SameSpace
  <1> HIDE DEF d
  <1> QED
    BY <1>1, <1>2, <1>3, BumpFresh

\* So does a size, and it is noted.
LEMMA OnSizeSpace ==
    ASSUME NEW c \in CursorSet, NEW s \in ViewSizes, NEW total \in Nat
    PROVE  \/ OnSize(c, s, total) = c /\ s = c.size
           \/ /\ s # c.size /\ ~c.active
              /\ SameSpace(c, OnSize(c, s, total))
           \/ /\ s # c.size /\ c.active
              /\ FreshSpace(OnSize(c, s, total), total)
              /\ OnSize(c, s, total).epoch = NextEpoch(c.epoch)
              /\ OnSize(c, s, total).linked = c.linked
  <1> DEFINE d == [c EXCEPT !.size = s]
  <1>1. d \in CursorSet /\ SameSpace(c, d)
    BY DEF SameSpace, CursorSet
  <1>2. OnSize(c, s, total) = IF s = c.size THEN c ELSE BumpEpoch(d, total)
    BY DEF OnSize
  <1>3. ~d.active => BumpEpoch(d, total) = d
    BY DEF BumpEpoch
  <1> HIDE DEF d
  <1>4. d.active = c.active /\ d.epoch = c.epoch /\ d.linked = c.linked /\ c.active \in BOOLEAN
    BY <1>1 DEF SameSpace, CursorSet
  <1> QED
    BY <1>1, <1>2, <1>3, <1>4, BumpFresh

\* A message to an open cursor.
LEMMA HeardOpen ==
    ASSUME daemon \in BOOLEAN, NEW c \in CursorSet, NEW m \in MessageSet, NEW total \in Nat,
           c.abs <= total, c.active, daemon => c.linked
    PROVE  /\ Heard(c, m, total).active
           /\ Heard(c, m, total).linked = c.linked
           /\ \/ SameSpace(c, Heard(c, m, total)) /\ m.size = c.size
              \/ /\ FreshSpace(Heard(c, m, total), total)
                 /\ Heard(c, m, total).epoch \in
                       {NextEpoch(c.epoch), NextEpoch(NextEpoch(c.epoch))}
  <1> DEFINE told == IF m.entry THEN OnAck(c, m, total) ELSE c
  <1>1. Heard(c, m, total) = OnSize(told, m.size, total)
    <2>1. CASE daemon
      <3>1. Open(c, m, total) = c
        BY <2>1 DEF Open
      <3> QED
        BY <2>1, <3>1 DEF Heard
    <2>2. CASE ~daemon
      <3>1. OnEntry(c, m, total) = OnAck(c, m, total)
        BY DEF OnEntry
      <3> QED
        BY <2>2, <3>1 DEF Heard
    <2> QED
      BY <2>1, <2>2
  <1>2. told \in CursorSet /\ m.size \in ViewSizes
    BY OnAckType DEF MessageSet
  <1>3. SameSpace(c, c)
    BY DEF SameSpace
  <1>4. /\ told.size = c.size
        /\ \/ SameSpace(c, told)
           \/ /\ FreshSpace(told, total) /\ told.epoch = NextEpoch(c.epoch)
              /\ told.linked = c.linked
    BY <1>3, OnAckSpace
  <1> HIDE DEF told
  <1>5. told.active /\ told.linked = c.linked
    BY <1>4 DEF SameSpace, FreshSpace
  <1>6. CASE SameSpace(c, told)
    <2>1. told.epoch = c.epoch
      BY <1>6 DEF SameSpace
    <2> QED
      BY <1>1, <1>2, <1>4, <1>5, <1>6, <2>1, OnSizeSpace DEF FreshSpace
  <1>7. CASE FreshSpace(told, total) /\ told.epoch = NextEpoch(c.epoch)
    BY <1>1, <1>2, <1>5, <1>7, OnSizeSpace DEF FreshSpace
  <1> QED
    BY <1>4, <1>6, <1>7

\* A message to a closed one opens it at the count it carries, at zero, or
\* not at all.
LEMMA HeardClosed ==
    ASSUME daemon \in BOOLEAN, NEW c \in CursorSet, NEW m \in MessageSet, NEW total \in Nat,
           c.abs <= total, ~c.active
    PROVE  \/ ~Heard(c, m, total).active
           \/ /\ FreshSpace(Heard(c, m, total), total)
              /\ daemon => Heard(c, m, total).linked
              /\ m.entry /\ (~daemon \/ m.epoch = NoEpoch)
           \/ /\ daemon /\ m.entry /\ m.epoch # NoEpoch
              /\ Heard(c, m, total).active /\ Heard(c, m, total).linked
              /\ Heard(c, m, total).epoch = m.epoch
              /\ Heard(c, m, total).abs = total /\ Heard(c, m, total).rel = m.acked
              /\ Heard(c, m, total).sent = m.acked
  <1> DEFINE d == Heard(c, m, total)
             here == [NewCursor(m.size) EXCEPT !.linked = TRUE]
  <1>1. /\ m.size \in ViewSizes /\ m.epoch \in 0 .. LastEpoch /\ m.acked \in Nat
        /\ c.active \in BOOLEAN /\ c.epoch \in 1 .. LastEpoch
    BY DEF MessageSet, CursorSet, Epochs, NoEpoch
  <1>2. here \in CursorSet /\ here.linked = TRUE /\ here.active = FALSE /\ here.size = m.size
    <2>1. NewCursor(m.size) \in CursorSet
      BY <1>1, NewCursorType
    <2> QED
      BY <2>1 DEF NewCursor, CursorSet
  <1> HIDE DEF here
  <1>3. CASE daemon /\ c.linked
    <2>1. Open(c, m, total) = c
      BY <1>3 DEF Open
    <2>2. OnAck(c, m, total) = c
      BY DEF OnAck
    <2>3. d = OnSize(c, m.size, total)
      BY <1>3, <2>1, <2>2 DEF Heard
    <2>4. ~d.active
      BY <2>3, <1>1, OnSizeSpace DEF SameSpace
    <2> QED
      BY <2>4
  <1>4. CASE daemon /\ ~c.linked /\ ~m.entry
    <2>1. Open(c, m, total) = here
      BY <1>4 DEF Open, here
    <2>2. d = OnSize(here, m.size, total)
      BY <1>4, <2>1 DEF Heard
    <2>3. d = here
      BY <1>2, <2>2 DEF OnSize
    <2> QED
      BY <1>2, <2>3
  <1>5. CASE daemon /\ ~c.linked /\ m.entry
    <2> DEFINE e == IF m.epoch = NoEpoch THEN 1 ELSE m.epoch
               r == IF m.epoch = NoEpoch THEN 0 ELSE m.acked
               o == StartAt(here, e, r, total)
               a == OnAck(o, m, total)
    <2>1. e \in 1 .. LastEpoch /\ r \in Nat
      BY <1>1 DEF NoEpoch, LastEpoch
    <2>2. Open(c, m, total) = o
      BY <1>5 DEF Open, here
    <2>3. /\ o.active = TRUE /\ o.linked = TRUE /\ o.epoch = e /\ o.abs = total
          /\ o.rel = r /\ o.sent = r /\ o.acked = r /\ o.size = m.size
      BY <1>2, <2>1 DEF StartAt, CursorSet
    <2>4. o \in CursorSet
      BY <1>2, <2>1, StartAtType
    <2>5. d = OnSize(a, m.size, total)
      BY <1>5, <2>2 DEF Heard
    <2> HIDE DEF o
    <2>6. m.epoch = e => ~(m.acked = 0 /\ o.acked > 0)
      BY <1>1, <2>3 DEF NoEpoch
    <2> HIDE DEF e, r
    <2>7. \/ a = o
          \/ a = [o EXCEPT !.acked = Maximum(@, m.acked)]
      BY <2>3, <2>6 DEF OnAck
    <2>8. a.size = m.size /\ SameSpace(o, a)
      BY <2>3, <2>4, <2>7 DEF SameSpace, CursorSet
    <2>9. d = a
      BY <2>5, <2>8 DEF OnSize
    <2>10. /\ d.active /\ d.linked /\ d.epoch = e /\ d.abs = total /\ d.rel = r /\ d.sent = r
      BY <2>3, <2>8, <2>9 DEF SameSpace
    <2> QED
      BY <1>5, <2>10 DEF FreshSpace, e, r
  <1>6. CASE ~daemon /\ ~m.entry
    <2>1. d = OnSize(c, m.size, total)
      BY <1>6 DEF Heard
    <2> QED
      BY <2>1, <1>1, OnSizeSpace DEF SameSpace
  <1>7. CASE ~daemon /\ m.entry
    <2> DEFINE o == StartAt(c, c.epoch, 0, total)
               a == OnAck(o, m, total)
    <2>1. o \in CursorSet /\ FreshSpace(o, total)
      BY <1>1, StartAtType DEF StartAt, FreshSpace, CursorSet
    <2>2. d = OnSize(a, m.size, total)
      BY <1>7 DEF Heard, OnEntry
    <2>3. o.abs <= total
      BY <2>1 DEF FreshSpace
    <2> HIDE DEF o
    <2>4. a \in CursorSet /\ FreshSpace(a, total)
      BY <2>1, <2>3, OnAckType, OnAckSpace DEF SameSpace, FreshSpace
    <2> HIDE DEF a
    <2>5. FreshSpace(d, total)
      BY <1>1, <2>2, <2>4, OnSizeSpace DEF FreshSpace
    <2> QED
      BY <1>7, <2>5
  <1> QED
    BY <1>3, <1>4, <1>5, <1>6, <1>7 DEF CursorSet

-----------------------------------------------------------------------------
(* The invariant, and what leaves it alone. *)

\* The log of an open epoch is as long as there are rows, and above the
\* anchor it is the session's ring.
SenderOK(c, t, log) ==
    /\ c.sent <= Avail(c, t)
    /\ Len(log) = Avail(c, t)
    /\ \A n \in 1 .. Len(log) : n > c.rel => log[n] = Row(c, t, n - 1)

\* A message that may open a cursor speaks of the viewport's rows.
UpOK(m, v, logs) ==
    /\ m.epoch # NoEpoch =>
          /\ m.entry /\ m.acked <= Len(logs[m.epoch])
          /\ v.epoch # NoEpoch => m.epoch = v.epoch /\ m.acked = Count(v)
    /\ m.epoch = NoEpoch /\ m.entry => v.epoch = NoEpoch
Unopened(logs) ==
    /\ \A m \in up : UpOK(m, viewport, logs)
    /\ viewport.held = {}
    /\ daemon \/ (viewport.epoch = NoEpoch /\ \A m \in up : m.epoch = NoEpoch)

\* Only an Init opens the cursor of a daemon.
Linked == daemon /\ cursor.active => cursor.linked

\* With the extent asked for, whoever names an epoch tells it or has seen it.
Asked ==
    /\ \A m \in down : m.epoch # NoEpoch => m.told = asks
    /\ viewport.epoch # NoEpoch => viewport.seen = asks

RowsBy(logs) ==
    /\ \A e \in 1 .. LastEpoch : LogOK(logs[e], term)
    /\ cursor.active => SenderOK(cursor, term, logs[cursor.epoch])
    /\ \A m \in down : DownOK(m, cursor, term, logs)
    /\ ViewOK(viewport, cursor, term, logs)
    /\ ~cursor.active => Unopened(logs)
    /\ Linked /\ Asked
RowsInv == \E logs \in Logs : RowsBy(logs)

\* A log that goes on.
GoesOn(log, more) ==
    /\ Len(log) <= Len(more)
    /\ \A i \in 1 .. Len(log) : more[i] = log[i]

\* A ring that goes on, or was laid out anew.
Later(t, u) ==
    u.layout > t.layout \/ (u.layout = t.layout /\ u.total >= t.total)

\* A log stays one as the ring goes on.
LEMMA LogLater ==
    ASSUME NEW log \in Seq(RowSet), NEW t \in TermSet, NEW u \in TermSet, Later(t, u),
           LogOK(log, t)
    PROVE  LogOK(log, u)
  <1>1. ASSUME NEW i \in DOMAIN log
        PROVE  Before(log[i], Now(u))
    <2>1. log[i] \in RowSet
      OBVIOUS
    <2>2. Before(log[i], Now(t))
      BY DEF LogOK
    <2> QED
      BY <2>1, <2>2 DEF Before, Now, Later, RowSet, TermSet
  <1> QED
    BY <1>1 DEF LogOK

\* Rows that fit a log fit it as it goes on.
LEMMA FitsOn ==
    ASSUME NEW log \in Seq(RowSet), NEW more \in Seq(RowSet), GoesOn(log, more),
           NEW start \in Nat, NEW rows \in Seq(RowSet), LogFits(log, start, rows)
    PROVE  LogFits(more, start, rows)
  <1>1. Len(log) \in Nat /\ Len(more) \in Nat /\ Len(rows) \in Nat
    OBVIOUS
  <1>2. start + Len(rows) <= Len(log) /\ Len(log) <= Len(more)
    BY DEF LogFits, GoesOn
  <1>3. ASSUME NEW k \in 1 .. Len(rows)
        PROVE  rows[k] = more[start + k]
    <2>1. start + k \in 1 .. Len(log)
      BY <1>1, <1>2
    <2> QED
      BY <2>1 DEF LogFits, GoesOn
  <1> QED
    BY <1>1, <1>2, <1>3 DEF LogFits

\* So do those of a viewport.
LEMMA ViewFitsOn ==
    ASSUME NEW log \in Seq(RowSet), NEW more \in Seq(RowSet), GoesOn(log, more),
           NEW v \in ViewportSet, ViewFits(v, log)
    PROVE  ViewFits(v, more)
  <1>1. Count(v) \in Nat /\ v.extent.floor \in Nat /\ Len(log) \in Nat /\ Len(more) \in Nat
    BY CountType
  <1>2. \A b \in v.held : LogFits(more, b.start, b.rows)
    BY CountType, EndType, FitsOn DEF ViewFits
  <1>3. \A n \in 1 .. Count(v) : n \in 1 .. Len(log)
    BY <1>1 DEF ViewFits
  <1> QED
    BY <1>1, <1>2, <1>3 DEF ViewFits, GoesOn

\* An epoch that is one is between the first and the last.
LEMMA EpochNamed ==
    ASSUME NEW e \in Epochs, e # NoEpoch
    PROVE  e \in 1 .. LastEpoch
  BY DEF Epochs, NoEpoch, LastEpoch

\* What follows for frames and viewports while an epoch stays open.
LEMMA DownOn ==
    ASSUME NEW logs \in Logs, NEW more \in Logs,
           \A e \in 1 .. LastEpoch : GoesOn(logs[e], more[e]),
           NEW c, NEW d, NEW t, NEW u, d.active, d.epoch = c.epoch,
           Floor(c, t) \in Nat, Floor(d, u) \in Nat, Floor(c, t) <= Floor(d, u),
           NEW m \in FrameSet, DownOK(m, c, t, logs), c.active
    PROVE  DownOK(m, d, u, more)
  <1>1. m.start \in Nat /\ m.rows \in Seq(RowSet) /\ m.extent.floor \in Nat
    BY DEF FrameSet, ExtentSet
  <1>2. m.epoch # NoEpoch => m.epoch \in 1 .. LastEpoch
    <2>1. m.epoch \in Epochs
      BY DEF FrameSet
    <2> QED
      BY <2>1, EpochNamed
  <1>3. ASSUME m.epoch # NoEpoch
        PROVE  LogFits(more[m.epoch], m.start, m.rows) /\ m.extent.floor <= Len(more[m.epoch])
    <2> DEFINE log == logs[m.epoch]
               next == more[m.epoch]
    <2>1. log \in Seq(RowSet) /\ next \in Seq(RowSet) /\ GoesOn(log, next)
      BY <1>2, <1>3 DEF Logs
    <2>2. LogFits(log, m.start, m.rows) /\ m.extent.floor <= Len(log)
      BY <1>3 DEF DownOK
    <2> HIDE DEF log, next
    <2>3. Len(log) \in Nat /\ Len(next) \in Nat /\ Len(log) <= Len(next)
      BY <2>1 DEF GoesOn
    <2>4. m.extent.floor <= Len(next)
      BY <1>1, <2>2, <2>3
    <2>5. LogFits(next, m.start, m.rows)
      BY <1>1, <2>1, <2>2, FitsOn
    <2> QED
      BY <2>4, <2>5 DEF next
  <1>4. m.epoch = d.epoch => m.extent.floor <= Floor(d, u)
    BY <1>1 DEF DownOK
  <1> QED
    BY <1>3, <1>4 DEF DownOK

\* And so does what the viewport holds.
LEMMA ViewOn ==
    ASSUME NEW logs \in Logs, NEW more \in Logs,
           \A e \in 1 .. LastEpoch : GoesOn(logs[e], more[e]),
           NEW c, NEW d, NEW t, NEW u, d.active => c.active /\ d.epoch = c.epoch,
           Floor(c, t) \in Nat, Floor(d, u) \in Nat, Floor(c, t) <= Floor(d, u),
           NEW v \in ViewportSet, ViewOK(v, c, t, logs)
    PROVE  ViewOK(v, d, u, more)
  <1>1. Count(v) \in Nat /\ v.extent.floor \in Nat
    BY CountType
  <1>2. v.epoch # NoEpoch => v.epoch \in 1 .. LastEpoch
    <2>1. v.epoch \in Epochs
      BY DEF ViewportSet
    <2> QED
      BY <2>1, EpochNamed
  <1>3. ASSUME v.epoch # NoEpoch
        PROVE  ViewFits(v, more[v.epoch])
    <2> DEFINE log == logs[v.epoch]
               next == more[v.epoch]
    <2>1. log \in Seq(RowSet) /\ next \in Seq(RowSet) /\ GoesOn(log, next)
      BY <1>2, <1>3 DEF Logs
    <2>2. ViewFits(v, log)
      BY <1>3 DEF ViewOK
    <2> HIDE DEF log, next
    <2>3. ViewFits(v, next)
      BY <2>1, <2>2, ViewFitsOn
    <2> QED
      BY <2>3 DEF next
  <1>4. d.active /\ v.epoch = d.epoch => GapsBelow(v, Floor(d, u))
    BY <1>1 DEF ViewOK, GapsBelow
  <1> QED
    BY <1>3, <1>4 DEF ViewOK

\* A log goes on as it is.
LEMMA SameGoesOn ==
    ASSUME NEW log \in Seq(RowSet)
    PROVE  GoesOn(log, log)
  <1>1. Len(log) <= Len(log)
    OBVIOUS
  <1> QED
    BY <1>1 DEF GoesOn

-----------------------------------------------------------------------------
(* The steps. *)

\* The floor of what is there is a number.
LEMMA FloorType ==
    ASSUME SizesAssumption, Typed
    PROVE  Floor(cursor, term) \in Nat /\ Avail(cursor, term) \in Nat
  BY SpaceType DEF Typed, HistoryTypeOK

\* An epoch stays open: it is enough to look at the cursor, its log, and what
\* is sent.
LEMMA OpenStep ==
    ASSUME SizesAssumption, Typed, Typed', NEW logs \in Logs, RowsBy(logs), NEW more \in Logs,
           \A e \in 1 .. LastEpoch : GoesOn(logs[e], more[e]) /\ LogOK(more[e], term'),
           cursor.active, cursor'.active, cursor'.epoch = cursor.epoch,
           cursor'.linked = cursor.linked,
           SenderOK(cursor', term', more[cursor.epoch]),
           Floor(cursor, term) <= Floor(cursor', term'),
           UNCHANGED <<daemon, asks, viewport>>,
           \A m \in down' : \/ m \in down
                            \/ /\ DownOK(m, cursor', term', more)
                               /\ m.epoch # NoEpoch => m.told = asks
    PROVE  RowsBy(more)'
  <1>1. Floor(cursor, term) \in Nat /\ Floor(cursor', term') \in Nat
    <2>1. Floor(cursor', term') \in Nat
      BY SpaceType DEF Typed, HistoryTypeOK
    <2> QED
      BY <2>1, FloorType
  <1>2. ASSUME NEW m \in down'
        PROVE  DownOK(m, cursor', term', more) /\ (m.epoch # NoEpoch => m.told = asks)
    <2>1. CASE m \in down
      <3>1. m \in FrameSet
        BY <2>1 DEF Typed, HistoryTypeOK
      <3>2. DownOK(m, cursor, term, logs) /\ (m.epoch # NoEpoch => m.told = asks)
        BY <2>1 DEF RowsBy, Asked
      <3> QED
        BY <1>1, <3>1, <3>2, DownOn
    <2> QED
      BY <2>1
  <1>3. ViewOK(viewport, cursor', term', more)
    <2>1. viewport \in ViewportSet /\ ViewOK(viewport, cursor, term, logs)
      BY DEF Typed, HistoryTypeOK, RowsBy
    <2> QED
      BY <1>1, <2>1, ViewOn
  <1>4. Asked' /\ Linked'
    BY <1>2 DEF RowsBy, Asked, Linked
  <1> QED
    BY <1>2, <1>3, <1>4 DEF RowsBy

\* Nothing is open, and nothing new is said.
LEMMA ClosedStep ==
    ASSUME SizesAssumption, Typed, Typed', NEW logs \in Logs, RowsBy(logs), ~cursor'.active,
           \A e \in 1 .. LastEpoch : LogOK(logs[e], term'),
           UNCHANGED <<daemon, asks, viewport>>,
           \A m \in down' : m.epoch = NoEpoch /\ m.start = 0 /\ m.rows = <<>> /\ ~m.told,
           Unopened(logs)'
    PROVE  RowsBy(logs)'
  <1>1. NoEpoch \notin 1 .. LastEpoch
    BY DEF NoEpoch
  <1>2. \A m \in down' : DownOK(m, cursor', term', logs)
    BY DEF DownOK
  <1>3. ViewOK(viewport', cursor', term', logs)
    BY DEF RowsBy, ViewOK
  <1>4. Asked' /\ Linked'
    BY DEF RowsBy, Asked, Linked
  <1> QED
    BY <1>2, <1>3, <1>4 DEF RowsBy

\* While nothing is open no datagram to the viewport says anything.
LEMMA ClosedBlank ==
    ASSUME NEW logs, RowsBy(logs), ~cursor.active, NEW m \in down
    PROVE  m.epoch = NoEpoch /\ m.start = 0 /\ m.rows = <<>> /\ ~m.told
  BY DEF RowsBy, DownOK

\* The logs stay logs as the ring goes on.
LEMMA LogsLater ==
    ASSUME NEW logs \in Logs, NEW t \in TermSet, NEW u \in TermSet, Later(t, u),
           \A e \in 1 .. LastEpoch : LogOK(logs[e], t)
    PROVE  \A e \in 1 .. LastEpoch : GoesOn(logs[e], logs[e]) /\ LogOK(logs[e], u)
  <1> TAKE e \in 1 .. LastEpoch
  <1>1. logs[e] \in Seq(RowSet)
    BY DEF Logs
  <1> QED
    BY <1>1, LogLater, SameGoesOn

\* A row scrolls off: it is the next of the open log.
LEMMA ScrollRows ==
    ASSUME SizesAssumption, Typed, Typed', NEW logs \in Logs, RowsBy(logs), Scroll
    PROVE  RowsInv'
  <1>1. /\ term \in TermSet /\ term' \in TermSet /\ cursor \in CursorSet
        /\ cursor.abs <= term.total
        /\ term'.layout = term.layout /\ term'.total = term.total + 1
        /\ term'.len = Minimum(term.len + 1, RingCap)
        /\ UNCHANGED <<env_vars, cursor, viewport, down, up, spent>>
    BY DEF Scroll, Typed, HistoryTypeOK, TermSet
  <1>2. Later(term, term')
    BY <1>1 DEF Later, TermSet
  <1>3. \A e \in 1 .. LastEpoch : GoesOn(logs[e], logs[e]) /\ LogOK(logs[e], term')
    BY <1>1, <1>2, LogsLater DEF RowsBy
  <1>4. CASE ~cursor.active
    <2>1. Unopened(logs)'
      BY <1>1, <1>4 DEF RowsBy, Unopened, UpOK, env_vars, Count
    <2>2. RowsBy(logs)'
      BY <1>1, <1>3, <1>4, <2>1, ClosedBlank, ClosedStep DEF env_vars
    <2> QED
      BY <2>2 DEF RowsInv
  <1>5. CASE cursor.active
    <2> DEFINE e == cursor.epoch
               log == logs[e]
               next == Append(log, Now(term))
    <2>1. /\ e \in 1 .. LastEpoch /\ log \in Seq(RowSet) /\ LogOK(log, term)
          /\ SenderOK(cursor, term, log) /\ Now(term) \in RowSet /\ Now(term) # Gap
      BY <1>1, <1>5 DEF CursorSet, Logs, RowsBy, Now, Gap, RowSet, TermSet
    <2>2. /\ next \in Seq(RowSet) /\ Len(next) = Len(log) + 1
          /\ \A i \in 1 .. Len(log) : next[i] = log[i]
          /\ next[Len(log) + 1] = Now(term)
      BY <2>1
    <2> HIDE DEF log, next
    <2>3. GoesOn(log, next)
      BY <2>1, <2>2 DEF GoesOn
    <2>4. LogOK(next, term')
      <3>1. LogOK(log, term')
        BY <1>3, <2>1 DEF log
      <3>2. Before(Now(term), Now(term'))
        BY <1>1 DEF Before, Now, TermSet
      <3>3. ASSUME NEW i \in DOMAIN next
            PROVE  next[i] # Gap /\ Before(next[i], Now(term'))
        <4>1. CASE i \in 1 .. Len(log)
          BY <2>2, <3>1, <4>1, <2>1 DEF LogOK
        <4>2. CASE i = Len(log) + 1
          BY <2>1, <2>2, <3>2, <4>2
        <4> QED
          BY <2>1, <2>2, <4>1, <4>2
      <3>4. ASSUME NEW i \in DOMAIN next, NEW j \in DOMAIN next, i < j
            PROVE  Before(next[i], next[j])
        <4>1. i \in 1 .. Len(log)
          BY <2>1, <2>2, <3>4
        <4>2. CASE j \in 1 .. Len(log)
          BY <2>1, <2>2, <3>4, <4>1, <4>2 DEF LogOK
        <4>3. CASE j = Len(log) + 1
          BY <2>1, <2>2, <4>1, <4>3 DEF LogOK
        <4> QED
          BY <2>1, <2>2, <4>2, <4>3
      <3> QED
        BY <3>3, <3>4 DEF LogOK
    <2>5. PICK more \in Logs :
              more[e] = next /\ \A x \in 1 .. LastEpoch : x # e => more[x] = logs[x]
      <3>1. [logs EXCEPT ![e] = next] \in Logs
        BY <2>1, <2>2 DEF Logs
      <3> QED
        BY <3>1, <2>1 DEF Logs
    <2>6. \A x \in 1 .. LastEpoch : GoesOn(logs[x], more[x]) /\ LogOK(more[x], term')
      BY <1>3, <2>3, <2>4, <2>5 DEF log
    <2>7. /\ Avail(cursor, term') = Avail(cursor, term) + 1
          /\ Avail(cursor, term) \in Nat
          /\ Floor(cursor, term) <= Floor(cursor, term')
      BY <1>1 DEF Avail, Floor, Maximum, Minimum, CursorSet, TermSet, SizesAssumption
    <2>8. SenderOK(cursor, term', next)
      <3>1. /\ cursor.sent \in Nat /\ cursor.rel \in Nat /\ Len(log) \in Nat
            /\ cursor.sent <= Avail(cursor, term) /\ Len(log) = Avail(cursor, term)
        BY <1>1, <2>1 DEF SenderOK, CursorSet
      <3>2. ASSUME NEW n \in 1 .. Len(next), n > cursor.rel
            PROVE  next[n] = Row(cursor, term', n - 1)
        <4>1. Row(cursor, term', n - 1) = Row(cursor, term, n - 1)
          BY <1>1, <2>7 DEF Row, TermSet
        <4>2. CASE n \in 1 .. Len(log)
          BY <2>1, <2>2, <3>2, <4>1, <4>2 DEF SenderOK
        <4>3. CASE n = Len(log) + 1
          <5>1. Row(cursor, term', n - 1) = Now(term)
            BY <1>1, <2>7, <3>1, <4>3 DEF Row, Now, TermSet
          <5> QED
            BY <2>2, <4>3, <5>1
        <4> QED
          BY <2>2, <3>1, <4>2, <4>3
      <3> QED
        BY <2>2, <2>7, <3>1, <3>2 DEF SenderOK
    <2>9. RowsBy(more)'
      BY <1>1, <1>5, <2>5, <2>6, <2>7, <2>8, OpenStep DEF env_vars
    <2> QED
      BY <2>5, <2>9 DEF RowsInv
  <1> QED
    BY <1>4, <1>5

\* An emptied ring and one laid out anew raise the floor, and no number
\* above the anchor changes its row.
LEMMA RingRows ==
    ASSUME SizesAssumption, Typed, Typed', NEW logs \in Logs, RowsBy(logs),
           ClearRing \/ SessionResize
    PROVE  RowsInv'
  <1>1. /\ term \in TermSet /\ term' \in TermSet /\ cursor \in CursorSet
        /\ cursor.abs <= term.total /\ UNCHANGED <<env_vars, viewport, down, up>>
    BY DEF ClearRing, SessionResize, Typed, HistoryTypeOK
  <1>2. Later(term, term') /\ term'.total = term.total
    <2>1. CASE ClearRing
      BY <1>1, <2>1 DEF ClearRing, Later, TermSet
    <2>2. CASE SessionResize
      BY <1>1, <2>2, LaidType DEF SessionResize, Later
    <2> QED
      BY <2>1, <2>2
  <1>3. \A e \in 1 .. LastEpoch : GoesOn(logs[e], logs[e]) /\ LogOK(logs[e], term')
    BY <1>1, <1>2, LogsLater DEF RowsBy
  <1>4. CASE ~cursor.active
    <2>1. cursor' = cursor
      BY <1>4 DEF ClearRing, SessionResize, Reanchor
    <2>2. Unopened(logs)'
      BY <1>1, <1>4 DEF RowsBy, Unopened, UpOK, env_vars, Count
    <2>3. RowsBy(logs)'
      BY <1>1, <1>3, <1>4, <2>1, <2>2, ClosedBlank, ClosedStep DEF env_vars
    <2> QED
      BY <2>3 DEF RowsInv
  <1>5. CASE cursor.active
    <2> DEFINE log == logs[cursor.epoch]
    <2>1. SenderOK(cursor, term, log) /\ log \in Seq(RowSet)
      BY <1>1, <1>5 DEF RowsBy, CursorSet, Logs
    <2>2. /\ Avail(cursor, term) \in Nat /\ Floor(cursor, term) \in Nat
          /\ Floor(cursor, term) <= Avail(cursor, term)
      BY <1>1, SpaceType
    <2>3. /\ cursor'.active /\ cursor'.epoch = cursor.epoch /\ cursor'.linked = cursor.linked
          /\ SenderOK(cursor', term', log)
          /\ Floor(cursor, term) <= Floor(cursor', term')
      <3>1. CASE ClearRing
        <4>1. cursor' = cursor /\ term' = [term EXCEPT !.len = 0]
          BY <3>1 DEF ClearRing
        <4>2. Avail(cursor, term') = Avail(cursor, term)
          BY <1>1, <1>2 DEF Avail
        <4>3. Floor(cursor, term) <= Floor(cursor, term')
          BY <1>1, <4>1 DEF Avail, Floor, Maximum, Minimum, CursorSet, TermSet, SizesAssumption
        <4>4. \A n \in 1 .. Len(log) : Row(cursor, term', n - 1) = Row(cursor, term, n - 1)
          BY <1>1, <1>2, <4>1, <4>2 DEF Row, TermSet
        <4> QED
          BY <1>5, <2>1, <4>1, <4>2, <4>3, <4>4 DEF SenderOK
      <3>2. CASE SessionResize
        <4>1. cursor' = [cursor EXCEPT !.abs = term.total, !.rel = Avail(cursor, term)]
          BY <1>5, <3>2 DEF SessionResize, Reanchor
        <4>2. /\ cursor'.abs = term.total /\ cursor'.rel = Avail(cursor, term)
              /\ cursor'.sent = cursor.sent /\ cursor'.epoch = cursor.epoch
              /\ cursor'.active = cursor.active /\ cursor'.linked = cursor.linked
          BY <1>1, <4>1 DEF CursorSet
        <4>3. Avail(cursor', term') = Avail(cursor, term)
          BY <1>1, <1>2, <2>2, <4>2 DEF Avail, TermSet
        <4>4. Floor(cursor, term) <= Floor(cursor', term')
          <5>1. cursor' \in CursorSet /\ cursor'.abs <= term'.total
            BY DEF Typed, HistoryTypeOK
          <5>2. cursor'.rel <= Floor(cursor', term')
            BY <1>1, <5>1, SpaceType
          <5>3. Floor(cursor', term') \in Nat
            BY <1>1, <5>1, SpaceType
          <5> QED
            BY <2>2, <4>2, <5>2, <5>3
        <4>5. \A n \in 1 .. Len(log) : ~(n > cursor'.rel)
          BY <2>1, <2>2, <4>2 DEF SenderOK
        <4> QED
          BY <1>5, <2>1, <4>2, <4>3, <4>4, <4>5 DEF SenderOK
      <3> QED
        BY <3>1, <3>2
    <2> HIDE DEF log
    <2>4. RowsBy(logs)'
      BY <1>1, <1>3, <1>5, <2>3, OpenStep DEF env_vars, log
    <2> QED
      BY <2>4 DEF RowsInv
  <1> QED
    BY <1>4, <1>5

\* What a frame says of the open epoch.
LEMMA FrameSays ==
    ASSUME SizesAssumption, Typed, NEW logs \in Logs, RowsBy(logs), cursor.active,
           NEW start \in Nat, NEW rows \in Seq(RowSet),
           LogFits(logs[cursor.epoch], start, rows)
    PROVE  /\ Frame(cursor, start, rows).epoch # NoEpoch
           /\ Frame(cursor, start, rows).told = asks
           /\ DownOK(Frame(cursor, start, rows), cursor, term, logs)
  <1> DEFINE m == Frame(cursor, start, rows)
  <1>1. /\ cursor.epoch \in 1 .. LastEpoch /\ asks \in BOOLEAN
        /\ Floor(cursor, term) \in Nat /\ Floor(cursor, term) <= Avail(cursor, term)
        /\ Len(logs[cursor.epoch]) = Avail(cursor, term)
    BY SpaceType DEF Typed, HistoryTypeOK, CursorSet, RowsBy, SenderOK
  <1>2. m.epoch = cursor.epoch /\ m.told = asks /\ m.start = start /\ m.rows = rows
    BY <1>1 DEF Frame
  <1>3. m.extent.floor <= Floor(cursor, term) /\ m.extent.floor \in Nat
    BY <1>1 DEF Frame, NoExtent
  <1>4. Avail(cursor, term) \in Nat
    BY FloorType
  <1> HIDE DEF m
  <1>5. cursor.epoch # NoEpoch
    BY <1>1 DEF NoEpoch
  <1>6. m.extent.floor <= Len(logs[cursor.epoch])
    BY <1>1, <1>3, <1>4
  <1> QED
    BY <1>2, <1>3, <1>5, <1>6 DEF DownOK, m

\* A frame without rows.
LEMMA FrameRows ==
    ASSUME SizesAssumption, Typed, Typed', NEW logs \in Logs, RowsBy(logs), SendFrame
    PROVE  RowsInv'
  <1> DEFINE m == Frame(cursor, 0, <<>>)
  <1>1. down' = down \cup {m} /\ UNCHANGED <<env_vars, term, cursor, viewport, up, spent>>
    BY DEF SendFrame
  <1>2. term \in TermSet
    BY DEF Typed, HistoryTypeOK
  <1>3. \A e \in 1 .. LastEpoch : GoesOn(logs[e], logs[e]) /\ LogOK(logs[e], term)
    BY SameGoesOn DEF RowsBy, Logs
  <1>4. CASE ~cursor.active
    <2>1. m.epoch = NoEpoch /\ m.start = 0 /\ m.rows = <<>> /\ ~m.told
      BY <1>4 DEF Frame, Typed, HistoryTypeOK
    <2>2. Unopened(logs)'
      BY <1>1, <1>4 DEF RowsBy, Unopened, UpOK, env_vars, Count
    <2> HIDE DEF m
    <2>3. RowsBy(logs)'
      BY <1>1, <1>3, <1>4, <2>1, <2>2, ClosedBlank, ClosedStep DEF env_vars
    <2> QED
      BY <2>3 DEF RowsInv
  <1>5. CASE cursor.active
    <2>1. SenderOK(cursor, term, logs[cursor.epoch]) /\ logs[cursor.epoch] \in Seq(RowSet)
      BY <1>5 DEF RowsBy, Typed, HistoryTypeOK, CursorSet, Logs
    <2>2. LogFits(logs[cursor.epoch], 0, <<>>)
      <3>1. Len(logs[cursor.epoch]) \in Nat
        BY <2>1
      <3> QED
        BY <3>1 DEF LogFits
    <2>3. m.epoch # NoEpoch /\ m.told = asks /\ DownOK(m, cursor, term, logs)
      <3>1. 0 \in Nat /\ <<>> \in Seq(RowSet)
        OBVIOUS
      <3> QED
        BY <1>5, <2>2, <3>1, FrameSays
    <2> HIDE DEF m
    <2>4. Floor(cursor, term) <= Floor(cursor, term)
      BY FloorType
    <2>5. RowsBy(logs)'
      BY <1>1, <1>3, <1>5, <2>1, <2>3, <2>4, OpenStep DEF env_vars
    <2> QED
      BY <2>5 DEF RowsInv
  <1> QED
    BY <1>4, <1>5

\* A body.
LEMMA BodyStepRows ==
    ASSUME SizesAssumption, BoundsAssumption, Typed, Typed', NEW logs \in Logs, RowsBy(logs),
           SendFresh \/ Resend
    PROVE  RowsInv'
  <1>1. cursor.active
    BY BodySteps
  <1> DEFINE log == logs[cursor.epoch]
             avail == Avail(cursor, term)
  <1>2. /\ SenderOK(cursor, term, log) /\ log \in Seq(RowSet) /\ avail \in Nat
        /\ cursor \in CursorSet
    BY <1>1, FloorType DEF RowsBy, Typed, HistoryTypeOK, CursorSet, Logs
  <1>3. PICK from, cap \in Nat : SendBody(from, cap) /\ from <= avail
    <2>1. PICK from, cap \in Nat :
              /\ SendBody(from, cap)
              /\ \/ from = NextFresh(cursor) /\ from < Avail(cursor, term)
                 \/ from = cursor.acked /\ from < cursor.sent
      BY BodySteps
    <2>2. cursor.sent \in Nat /\ cursor.sent <= avail
      BY <1>2 DEF SenderOK, CursorSet
    <2>3. from <= avail
      BY <1>2, <2>1, <2>2
    <2> QED
      BY <2>1, <2>3
  <1>4. PICK start, count \in Nat, rows \in Seq(RowSet) :
              /\ start >= cursor.rel /\ start >= from /\ start >= Floor(cursor, term)
              /\ start + count <= Maximum(from, Avail(cursor, term))
              /\ Len(rows) = count
              /\ \A k \in 1 .. count : /\ start + k - 1 < Avail(cursor, term)
                                       /\ rows[k] = Row(cursor, term, start + k - 1)
              /\ cursor' = [cursor EXCEPT !.sent = start + count]
              /\ down' = down \cup {Frame(cursor, start, rows)}
              /\ UNCHANGED <<env_vars, term, viewport, up, spent>>
    BY <1>3, SendBodyShape
  <1>5. start + count <= avail
    BY <1>2, <1>3, <1>4 DEF Maximum
  <1>6. LogFits(log, start, rows)
    <2>1. start + Len(rows) <= Len(log)
      BY <1>2, <1>4, <1>5 DEF SenderOK
    <2>2. ASSUME NEW k \in 1 .. Len(rows)
          PROVE  rows[k] = log[start + k]
      <3> DEFINE n == start + k
      <3>1. n \in 1 .. Len(log) /\ n > cursor.rel
        <4>1. Len(log) \in Nat
          BY <1>2
        <4>2. cursor.rel \in Nat
          BY <1>2 DEF CursorSet
        <4>3. start >= cursor.rel /\ Len(rows) = count
          BY <1>4
        <4>4. start + count <= Len(log) /\ k \in Nat /\ k > 0 /\ k <= count
          BY <2>1, <4>3
        <4> QED
          BY <4>1, <4>2, <4>3, <4>4
      <3>2. rows[k] = Row(cursor, term, n - 1)
        BY <1>4, <2>2
      <3> HIDE DEF n
      <3>3. log[n] = Row(cursor, term, n - 1)
        BY <1>2, <3>1 DEF SenderOK
      <3> QED
        BY <3>2, <3>3 DEF n
    <2> QED
      BY <2>1, <2>2 DEF LogFits
  <1> DEFINE m == Frame(cursor, start, rows)
  <1>7. m.epoch # NoEpoch /\ m.told = asks /\ DownOK(m, cursor, term, logs)
    BY <1>1, <1>6, FrameSays
  <1>8. /\ cursor'.active = cursor.active /\ cursor'.epoch = cursor.epoch
        /\ cursor'.linked = cursor.linked /\ cursor'.abs = cursor.abs
        /\ cursor'.rel = cursor.rel /\ cursor'.sent = start + count
    BY <1>2, <1>4 DEF CursorSet
  <1>9. /\ Avail(cursor', term) = avail /\ Floor(cursor', term) = Floor(cursor, term)
        /\ \A n \in 1 .. Len(log) : Row(cursor', term, n - 1) = Row(cursor, term, n - 1)
    BY <1>8 DEF Avail, Floor, Row
  <1>10. SenderOK(cursor', term, log)
    BY <1>2, <1>5, <1>8, <1>9 DEF SenderOK
  <1>11. DownOK(m, cursor', term, logs)
    BY <1>7, <1>8, <1>9 DEF DownOK
  <1>12. Floor(cursor, term) <= Floor(cursor', term)
    BY <1>9, FloorType
  <1>13. \A e \in 1 .. LastEpoch : GoesOn(logs[e], logs[e]) /\ LogOK(logs[e], term)
    BY SameGoesOn DEF RowsBy, Logs
  <1>14. down' = down \cup {m} /\ UNCHANGED <<env_vars, term, viewport>>
    BY <1>4
  <1> HIDE DEF m, log, avail
  <1>15. RowsBy(logs)'
    BY <1>1, <1>7, <1>8, <1>10, <1>11, <1>12, <1>13, <1>14, OpenStep DEF env_vars, log
  <1> QED
    BY <1>15 DEF RowsInv

\* The sender does nothing.
LEMMA QuietRows ==
    ASSUME NEW logs, RowsBy(logs), UNCHANGED <<daemon, asks, term, cursor>>,
           \A m \in down' : m \in down,
           ViewOK(viewport', cursor, term, logs),
           viewport'.epoch # NoEpoch => viewport'.seen = asks,
           ~cursor.active => Unopened(logs)'
    PROVE  RowsBy(logs)'
  <1>1. Asked' /\ Linked'
    BY DEF RowsBy, Asked, Linked
  <1> QED
    BY <1>1 DEF RowsBy

\* A frame arrives.
LEMMA ReceiveRows ==
    ASSUME SizesAssumption, Typed, Typed', NEW logs \in Logs, RowsBy(logs),
           NEW m \in down, NEW again \in BOOLEAN, ReceiveFrame(m, again)
    PROVE  RowsInv'
  <1> DEFINE w == Applied(Extended(Adopted(viewport, m), m), m)
  <1>1. /\ UNCHANGED <<env_vars, term, cursor, up>> /\ viewport' = w
        /\ \A x \in down' : x \in down
    BY DEF ReceiveFrame
  <1>2. /\ m \in FrameSet /\ viewport \in ViewportSet /\ HeldBounded(viewport)
        /\ cursor \in CursorSet
    BY DEF Typed, HistoryTypeOK
  <1>3. DownOK(m, cursor, term, logs) /\ ViewOK(viewport, cursor, term, logs) /\ Asked
    BY DEF RowsBy
  <1>4. CASE m.epoch = NoEpoch
    <2>1. w = viewport
      <3>1. m.start = 0 /\ m.rows = <<>> /\ ~m.told
        BY <1>3, <1>4 DEF DownOK
      <3> QED
        BY <1>2, <1>4, <3>1, BlankFrame
    <2>2. ~cursor.active => Unopened(logs)'
      BY <1>1, <2>1 DEF RowsBy, Unopened, UpOK, env_vars, Count
    <2>3. RowsBy(logs)'
      BY <1>1, <1>3, <2>1, <2>2, QuietRows DEF env_vars, Asked
    <2> QED
      BY <2>3 DEF RowsInv
  <1>5. CASE m.epoch # NoEpoch
    <2>1. \A e \in 1 .. LastEpoch : \A i \in DOMAIN logs[e] : logs[e][i] # Gap
      BY DEF RowsBy, LogOK
    <2>2. m.told = asks /\ (viewport.epoch # NoEpoch => viewport.seen = m.told)
      BY <1>3, <1>5 DEF Asked
    <2>3. ViewOK(w, cursor, term, logs) /\ w.seen = m.told
      BY <1>2, <1>3, <1>5, <2>1, <2>2, FloorType, ReceiveOK
    <2>4. cursor.active
      BY <1>3, <1>5 DEF DownOK
    <2> HIDE DEF w
    <2>5. RowsBy(logs)'
      BY <1>1, <2>2, <2>3, <2>4, QuietRows DEF env_vars
    <2> QED
      BY <2>5 DEF RowsInv
  <1> QED
    BY <1>4, <1>5

\* The viewport speaks.
LEMMA MessageRows ==
    ASSUME SizesAssumption, Typed, Typed', NEW logs \in Logs, RowsBy(logs), SendMessage
    PROVE  RowsInv'
  <1> DEFINE m == [size |-> viewport.size, entry |-> ~viewport.suppress,
                   epoch |-> IF viewport.suppress THEN NoEpoch ELSE viewport.epoch,
                   acked |-> IF viewport.suppress THEN 0 ELSE Count(viewport)]
             v == viewport
             w == viewport'
  <1>1. /\ up' = up \cup {m} /\ w = [v EXCEPT !.suppress = FALSE]
        /\ UNCHANGED <<env_vars, term, cursor, down>>
    BY DEF SendMessage
  <1>2. v \in ViewportSet /\ v.epoch \in Epochs
    BY DEF Typed, HistoryTypeOK, ViewportSet
  <1>3. /\ w.epoch = v.epoch /\ w.ring = v.ring /\ w.seen = v.seen /\ w.extent = v.extent
        /\ w.held = v.held
    BY <1>1, <1>2 DEF ViewportSet
  <1>4. Count(w) = Count(v)
    BY <1>3 DEF Count
  <1>5. ViewOK(v, cursor, term, logs) /\ (v.epoch # NoEpoch => v.seen = asks)
    BY DEF RowsBy, Asked
  <1>6. /\ m.epoch # NoEpoch => m.epoch = v.epoch /\ m.acked = Count(v) /\ m.entry
        /\ m.epoch = NoEpoch /\ m.entry => v.epoch = NoEpoch
        /\ v.epoch = NoEpoch => m.epoch = NoEpoch
    BY <1>2 DEF ViewportSet
  <1> HIDE DEF m, v, w
  <1>7. ViewOK(w, cursor, term, logs)
    BY <1>3, <1>4, <1>5 DEF ViewOK, ViewFits, GapsBelow
  <1>8. ASSUME ~cursor.active
        PROVE  Unopened(logs)'
    <2>1. Unopened(logs)
      BY <1>8 DEF RowsBy
    <2>2. UpOK(m, w, logs)
      BY <1>3, <1>4, <1>5, <1>6 DEF UpOK, ViewOK, ViewFits
    <2>3. \A x \in up : UpOK(x, w, logs)
      BY <1>3, <1>4, <2>1 DEF UpOK, Unopened, v
    <2>4. w.held = {} /\ (daemon \/ (w.epoch = NoEpoch /\ \A x \in up \cup {m} : x.epoch = NoEpoch))
      BY <1>3, <1>6, <2>1 DEF Unopened, v
    <2> QED
      BY <1>1, <2>2, <2>3, <2>4 DEF Unopened, env_vars, w
  <1>9. RowsBy(logs)'
    BY <1>1, <1>3, <1>5, <1>7, <1>8, QuietRows DEF env_vars, w
  <1> QED
    BY <1>9 DEF RowsInv

\* The viewport forgets.
LEMMA ResizeRows ==
    ASSUME SizesAssumption, Typed, Typed', NEW logs \in Logs, RowsBy(logs), Resize
    PROVE  RowsInv'
  <1> DEFINE w == viewport'
  <1>1. UNCHANGED <<env_vars, term, cursor, down, up>>
    BY DEF Resize
  <1>2. /\ w.epoch = NoEpoch /\ w.ring = <<>> /\ w.held = {} /\ w.seen = FALSE
        /\ w.extent = NoExtent
    BY DEF Resize, Cleared, Typed, HistoryTypeOK, ViewportSet
  <1> HIDE DEF w
  <1>3. NoEpoch # cursor.epoch
    BY DEF Typed, HistoryTypeOK, CursorSet, NoEpoch
  <1>4. ViewOK(w, cursor, term, logs)
    BY <1>2, <1>3 DEF ViewOK
  <1>5. ASSUME ~cursor.active
        PROVE  Unopened(logs)'
    <2>1. Unopened(logs)
      BY <1>5 DEF RowsBy
    <2>2. \A x \in up : UpOK(x, w, logs)
      BY <1>2, <2>1 DEF UpOK, Unopened
    <2> QED
      BY <1>1, <1>2, <2>1, <2>2 DEF Unopened, env_vars, w
  <1>6. RowsBy(logs)'
    BY <1>1, <1>2, <1>4, <1>5, QuietRows DEF env_vars, w
  <1> QED
    BY <1>6 DEF RowsInv

\* The daemon has a new client, which knows nothing.
LEMMA ReattachRows ==
    ASSUME SizesAssumption, Typed, Typed', NEW logs \in Logs, RowsBy(logs), Reattach
    PROVE  RowsInv'
  <1>1. /\ ~cursor'.active /\ down' = {} /\ up' = {} /\ daemon /\ viewport.held = {}
        /\ UNCHANGED <<env_vars, term, viewport>>
    BY DEF Reattach, NewCursor
  <1>2. Unopened(logs)'
    BY <1>1 DEF Unopened, env_vars
  <1>3. \A e \in 1 .. LastEpoch : LogOK(logs[e], term')
    BY <1>1 DEF RowsBy
  <1>4. RowsBy(logs)'
    BY <1>1, <1>2, <1>3, ClosedStep DEF env_vars
  <1> QED
    BY <1>4 DEF RowsInv

\* The network loses.
LEMMA LoseRows ==
    ASSUME SizesAssumption, Typed, Typed', NEW logs \in Logs, RowsBy(logs), Lose
    PROVE  RowsInv'
  <1>1. /\ UNCHANGED <<env_vars, term, cursor, viewport>>
        /\ \A m \in down' : m \in down
        /\ \A m \in up' : m \in up
    BY DEF Lose
  <1>2. ~cursor.active => Unopened(logs)'
    BY <1>1 DEF RowsBy, Unopened, UpOK, env_vars, Count
  <1>3. ViewOK(viewport', cursor, term, logs) /\ (viewport'.epoch # NoEpoch => viewport'.seen = asks)
    BY <1>1 DEF RowsBy, Asked
  <1>4. RowsBy(logs)'
    BY <1>1, <1>2, <1>3, QuietRows DEF env_vars
  <1> QED
    BY <1>4 DEF RowsInv

\* An epoch that nothing names is opened: its log starts with what the
\* viewport has of it.
LEMMA FreshStep ==
    ASSUME SizesAssumption, Typed, Typed', NEW logs \in Logs, RowsBy(logs),
           NEW e \in 1 .. LastEpoch, NEW log \in Seq(RowSet), LogOK(log, term'),
           Later(term, term'), cursor'.active, cursor'.epoch = e, daemon => cursor'.linked,
           SenderOK(cursor', term', log),
           \A m \in down : m.epoch # e,
           viewport.epoch = e =>
              /\ ViewFits(viewport, log) /\ GapsBelow(viewport, Floor(cursor', term')),
           UNCHANGED <<daemon, asks, viewport, down>>
    PROVE  RowsInv'
  <1>1. PICK more \in Logs :
            more[e] = log /\ \A x \in 1 .. LastEpoch : x # e => more[x] = logs[x]
    <2>1. [logs EXCEPT ![e] = log] \in Logs
      BY DEF Logs
    <2> QED
      BY <2>1 DEF Logs
  <1>2. \A x \in 1 .. LastEpoch : LogOK(more[x], term')
    <2>1. \A x \in 1 .. LastEpoch : LogOK(logs[x], term')
      BY LogsLater DEF Typed, HistoryTypeOK, RowsBy
    <2> QED
      BY <1>1, <2>1
  <1>3. ASSUME NEW m \in down
        PROVE  DownOK(m, cursor', term', more)
    <2>1. m.epoch # e /\ DownOK(m, cursor, term, logs)
      BY DEF RowsBy
    <2>2. m.epoch # NoEpoch => m.epoch \in 1 .. LastEpoch
      BY DEF Typed, HistoryTypeOK, FrameSet, Epochs, NoEpoch, LastEpoch
    <2> QED
      BY <1>1, <2>1, <2>2 DEF DownOK
  <1>4. ViewOK(viewport, cursor', term', more)
    <2>1. ViewOK(viewport, cursor, term, logs)
      BY DEF RowsBy
    <2>2. viewport.epoch # NoEpoch => viewport.epoch \in 1 .. LastEpoch
      BY DEF Typed, HistoryTypeOK, ViewportSet, Epochs, NoEpoch, LastEpoch
    <2> QED
      BY <1>1, <2>1, <2>2 DEF ViewOK
  <1>5. Asked' /\ Linked'
    BY DEF RowsBy, Asked, Linked
  <1>6. RowsBy(more)'
    BY <1>1, <1>2, <1>3, <1>4, <1>5 DEF RowsBy
  <1> QED
    BY <1>6 DEF RowsInv

\* A row space that is new at the total has as many rows as were acknowledged.
LEMMA FreshSender ==
    ASSUME NEW c \in CursorSet, NEW t \in TermSet, c.abs = t.total, c.sent = c.rel,
           NEW log \in Seq(RowSet), Len(log) = c.rel
    PROVE  SenderOK(c, t, log)
  <1>1. Avail(c, t) = c.rel /\ c.rel \in Nat
    BY DEF Avail, CursorSet, TermSet
  <1>2. \A n \in 1 .. Len(log) : ~(n > c.rel)
    BY <1>1
  <1> QED
    BY <1>1, <1>2 DEF SenderOK

\* No epoch that a message may open next is still in use.  The byte comes
\* round after 255 epochs: that many fall between a datagram's departure and
\* its arrival nowhere (bump_epoch).
EpochFresh ==
    cursor.active =>
        \A e \in {NextEpoch(cursor.epoch), NextEpoch(NextEpoch(cursor.epoch))} :
            viewport.epoch # e /\ \A m \in down : m.epoch # e

\* The sender hears.
LEMMA HearRows ==
    ASSUME SizesAssumption, Typed, Typed', NEW logs \in Logs, RowsBy(logs), EpochFresh,
           NEW m \in up, Hear(m)
    PROVE  RowsInv'
  <1> DEFINE c == cursor
             d == cursor'
             total == term.total
  <1>1. /\ m \in MessageSet /\ daemon \in BOOLEAN /\ c \in CursorSet /\ d \in CursorSet
        /\ c.abs <= total /\ total \in Nat /\ term \in TermSet /\ term' \in TermSet
        /\ d.epoch \in 1 .. LastEpoch /\ d.abs <= term'.total
    BY DEF Typed, HistoryTypeOK, TermSet, CursorSet
  <1>2. /\ UNCHANGED <<env_vars, viewport, down, spent>>
        /\ d = Heard(c, m, total) /\ up' = up \ {m}
        /\ m.size = c.size => term' = term
        /\ term' = term \/ term' \in Laid(term)
    BY DEF Hear
  <1>3. Later(term, term') /\ term'.total = total
    BY <1>1, <1>2, LaidType DEF Later, TermSet
  <1>4. \A e \in 1 .. LastEpoch : GoesOn(logs[e], logs[e]) /\ LogOK(logs[e], term')
    BY <1>1, <1>3, LogsLater DEF RowsBy
  <1>5. <<>> \in Seq(RowSet) /\ LogOK(<<>>, term') /\ Len(<<>>) = 0
    BY DEF LogOK
  <1>6. CASE c.active
    <2>1. daemon => c.linked
      BY <1>6 DEF RowsBy, Linked
    <2>2. /\ d.active /\ d.linked = c.linked
          /\ \/ SameSpace(c, d) /\ m.size = c.size
             \/ /\ FreshSpace(d, total)
                /\ d.epoch \in {NextEpoch(c.epoch), NextEpoch(NextEpoch(c.epoch))}
      BY <1>1, <1>2, <1>6, <2>1, HeardOpen
    <2>3. CASE SameSpace(c, d) /\ m.size = c.size
      <3>1. term' = term
        BY <1>2, <2>3
      <3>2. /\ d.epoch = c.epoch /\ Avail(d, term) = Avail(c, term)
            /\ Floor(d, term) = Floor(c, term)
            /\ \A n : Row(d, term, n) = Row(c, term, n)
        BY <2>3 DEF SameSpace, Avail, Floor, Row
      <3>3. SenderOK(d, term, logs[c.epoch])
        BY <1>6, <2>3, <3>2 DEF RowsBy, SenderOK, SameSpace
      <3>4. Floor(c, term) <= Floor(d, term)
        BY <3>2, FloorType
      <3>5. RowsBy(logs)'
        BY <1>2, <1>4, <1>6, <2>2, <3>1, <3>2, <3>3, <3>4, OpenStep DEF env_vars
      <3> QED
        BY <3>5 DEF RowsInv
    <2>4. CASE /\ FreshSpace(d, total)
               /\ d.epoch \in {NextEpoch(c.epoch), NextEpoch(NextEpoch(c.epoch))}
      <3>1. viewport.epoch # d.epoch /\ \A x \in down : x.epoch # d.epoch
        BY <1>6, <2>4 DEF EpochFresh
      <3>2. SenderOK(d, term', <<>>)
        BY <1>1, <1>3, <1>5, <2>4, FreshSender DEF FreshSpace
      <3> QED
        BY <1>1, <1>2, <1>3, <1>5, <2>1, <2>2, <3>1, <3>2, FreshStep DEF env_vars
    <2> QED
      BY <2>2, <2>3, <2>4
  <1>7. CASE ~c.active
    <2>1. Unopened(logs)
      BY <1>7 DEF RowsBy
    <2>2. \A x \in down : x.epoch = NoEpoch /\ x.start = 0 /\ x.rows = <<>> /\ ~x.told
      BY <1>7, ClosedBlank
    <2>3. \A x \in down : x.epoch # d.epoch
      BY <1>1, <2>2 DEF NoEpoch
    <2>4. CASE ~d.active
      <3>1. Unopened(logs)'
        BY <1>2, <2>1 DEF Unopened, UpOK, env_vars, Count
      <3>2. RowsBy(logs)'
        BY <1>2, <1>4, <2>2, <2>4, <3>1, ClosedStep DEF env_vars
      <3> QED
        BY <3>2 DEF RowsInv
    <2>5. CASE /\ FreshSpace(d, total)
               /\ daemon => d.linked
               /\ m.entry /\ (~daemon \/ m.epoch = NoEpoch)
      <3>1. viewport.epoch = NoEpoch
        BY <2>1, <2>5 DEF Unopened, UpOK
      <3>2. viewport.epoch # d.epoch
        BY <1>1, <3>1 DEF NoEpoch
      <3>3. SenderOK(d, term', <<>>) /\ d.active
        BY <1>1, <1>3, <1>5, <2>5, FreshSender DEF FreshSpace
      <3> QED
        BY <1>1, <1>2, <1>3, <1>5, <2>3, <2>5, <3>2, <3>3, FreshStep DEF env_vars
    <2>6. CASE /\ daemon /\ m.entry /\ m.epoch # NoEpoch
               /\ d.active /\ d.linked /\ d.epoch = m.epoch
               /\ d.abs = total /\ d.rel = m.acked /\ d.sent = m.acked
      <3> DEFINE e == m.epoch
                 r == m.acked
                 log == logs[e]
                 kept == SubSeq(log, 1, r)
                 v == viewport
      <3>1. e \in 1 .. LastEpoch /\ r \in Nat /\ v \in ViewportSet
        BY <1>1, <2>6 DEF MessageSet, Typed, HistoryTypeOK
      <3>2. log \in Seq(RowSet) /\ Len(log) \in Nat
        BY <3>1 DEF Logs
      <3>3. UpOK(m, v, logs) /\ v.held = {}
        BY <2>1 DEF Unopened
      <3>4. r <= Len(log) /\ (v.epoch = NoEpoch \/ (v.epoch = e /\ Count(v) = r))
        BY <2>6, <3>3 DEF UpOK
      <3>5. /\ kept \in Seq(RowSet) /\ Len(kept) = r
            /\ \A i \in 1 .. r : kept[i] = log[i]
        BY <3>1, <3>2, <3>4
      <3>6. LogOK(log, term')
        BY <1>4, <3>1
      <3>7. ViewOK(v, c, term, logs)
        BY DEF RowsBy
      <3>8. Floor(d, term') \in Nat /\ r <= Floor(d, term')
        <4>1. /\ d \in CursorSet /\ term' \in TermSet /\ d.abs <= term'.total
          BY <1>1
        <4> QED
          BY <2>6, <4>1, SpaceType
      <3> HIDE DEF e, r, log, kept, v
      <3>9. LogOK(kept, term')
        <4>1. DOMAIN kept = 1 .. r /\ 1 .. r \subseteq DOMAIN log
          BY <3>1, <3>2, <3>4, <3>5
        <4> QED
          BY <3>5, <3>6, <4>1 DEF LogOK
      <3>10. SenderOK(d, term', kept)
        BY <1>1, <1>3, <2>6, <3>5, FreshSender DEF r
      <3>11. ASSUME v.epoch = e
             PROVE  ViewFits(v, kept) /\ GapsBelow(v, Floor(d, term'))
        <4>1. e # NoEpoch
          BY <3>1 DEF NoEpoch
        <4>2. Count(v) = r /\ ViewFits(v, log) /\ v.extent.floor <= r
          BY <3>4, <3>7, <3>11, <4>1 DEF ViewOK, log
        <4>3. v.extent.floor \in Nat
          BY <3>1, CountType
        <4>4. ViewFits(v, kept)
          BY <3>1, <3>3, <3>5, <4>2, <4>3 DEF ViewFits
        <4>5. GapsBelow(v, Floor(d, term'))
          BY <3>1, <3>8, <4>2, <4>3 DEF GapsBelow
        <4> QED
          BY <4>4, <4>5
      <3>12. d.epoch = e
        BY <2>6 DEF e
      <3> QED
        BY <1>1, <1>2, <1>3, <2>3, <2>6, <3>1, <3>5, <3>9, <3>10, <3>11, <3>12, FreshStep
           DEF env_vars, v
    <2>7. \/ ~d.active
          \/ /\ FreshSpace(d, total)
             /\ daemon => d.linked
             /\ m.entry /\ (~daemon \/ m.epoch = NoEpoch)
          \/ /\ daemon /\ m.entry /\ m.epoch # NoEpoch
             /\ d.active /\ d.linked /\ d.epoch = m.epoch
             /\ d.abs = total /\ d.rel = m.acked /\ d.sent = m.acked
      BY <1>1, <1>2, <1>7, HeardClosed
    <2> QED
      BY <2>4, <2>5, <2>6, <2>7
  <1> QED
    BY <1>6, <1>7

\* The invariant holds at the start, and every step keeps it.
LEMMA RowsInit ==
    ASSUME HistoryInit
    PROVE  RowsInv
  <1>1. PICK logs \in Logs : \A e \in 1 .. LastEpoch : logs[e] = <<>>
    <2>1. [e \in 1 .. LastEpoch |-> <<>>] \in Logs
      BY DEF Logs
    <2> QED
      BY <2>1
  <1>2. \A e \in 1 .. LastEpoch : LogOK(logs[e], term)
    BY <1>1 DEF LogOK
  <1>3. ~cursor.active /\ viewport.epoch = NoEpoch /\ cursor.epoch # NoEpoch
    BY DEF HistoryInit, NewCursor, NoEpoch
  <1>4. ViewOK(viewport, cursor, term, logs)
    BY <1>3 DEF HistoryInit, ViewOK
  <1>5. Unopened(logs) /\ Linked /\ Asked
    BY <1>3 DEF HistoryInit, Unopened, Linked, Asked
  <1>6. RowsBy(logs)
    BY <1>2, <1>3, <1>4, <1>5 DEF HistoryInit, RowsBy
  <1> QED
    BY <1>6 DEF RowsInv

\* Every step keeps it, while no epoch is opened that is still in use.
LEMMA RowsStep ==
    ASSUME SizesAssumption, BoundsAssumption, Typed, Typed', RowsInv, EpochFresh,
           [HistoryNext]_history_vars
    PROVE  RowsInv'
  <1>1. PICK logs \in Logs : RowsBy(logs)
    BY DEF RowsInv
  <1>2. CASE Session
    BY <1>1, <1>2, ScrollRows, RingRows DEF Session
  <1>3. CASE Sender
    BY <1>1, <1>3, FrameRows, BodyStepRows, HearRows DEF Sender
  <1>4. CASE Viewport
    BY <1>1, <1>4, ReceiveRows, MessageRows, ResizeRows DEF Viewport
  <1>5. CASE Reattach
    BY <1>1, <1>5, ReattachRows
  <1>6. CASE Lose
    BY <1>1, <1>6, LoseRows
  <1>7. CASE UNCHANGED history_vars
    BY <1>1, <1>7
       DEF history_vars, env_vars, RowsInv, RowsBy, Asked, Linked, Unopened, UpOK, Count
  <1> QED
    BY <1>2, <1>3, <1>4, <1>5, <1>6, <1>7 DEF HistoryNext

\* What the invariant says of the viewport's rows.
LEMMA RowsAgreeFromInv ==
    ASSUME SizesAssumption, Typed, RowsInv
    PROVE  RowsAgree
  <1> DEFINE v == viewport
             e == v.epoch
  <1>1. PICK logs \in Logs : RowsBy(logs)
    BY DEF RowsInv
  <1>2. /\ v \in ViewportSet /\ e \in Epochs /\ v.ring \in Seq(RowSet) /\ Count(v) \in Nat
        /\ DOMAIN v.ring = 1 .. Count(v)
        /\ cursor \in CursorSet
    BY CountType DEF Typed, HistoryTypeOK, ViewportSet, Count
  <1>3. ViewOK(v, cursor, term, logs)
    BY <1>1 DEF RowsBy
  <1>4. ASSUME e # NoEpoch
        PROVE  /\ logs[e] \in Seq(RowSet) /\ LogOK(logs[e], term)
               /\ Count(v) <= Len(logs[e])
               /\ \A n \in 1 .. Count(v) : n \in DOMAIN logs[e] /\ v.ring[n] \in {Gap, logs[e][n]}
    <2>1. e \in 1 .. LastEpoch
      BY <1>2, <1>4 DEF Epochs, NoEpoch
    <2>2. logs[e] \in Seq(RowSet) /\ LogOK(logs[e], term)
      BY <1>1, <2>1 DEF Logs, RowsBy
    <2>3. ViewFits(v, logs[e])
      BY <1>3, <1>4 DEF ViewOK
    <2>4. Len(logs[e]) \in Nat /\ DOMAIN logs[e] = 1 .. Len(logs[e])
      BY <2>2
    <2> HIDE DEF v, e
    <2> QED
      BY <1>2, <2>2, <2>3, <2>4 DEF ViewFits
  <1>5. RowsInOrder
    <2> SUFFICES ASSUME NEW i \in DOMAIN v.ring, NEW j \in DOMAIN v.ring,
                        i < j, v.ring[i] # Gap, v.ring[j] # Gap
                 PROVE  Before(v.ring[i], v.ring[j])
      BY DEF RowsInOrder
    <2>1. v.ring # <<>>
      OBVIOUS
    <2>2. e # NoEpoch
      BY <1>3, <2>1 DEF ViewOK
    <2> QED
      BY <1>2, <1>4, <2>2 DEF LogOK
  <1>6. ASSUME Together
        PROVE  cursor.active /\ e = cursor.epoch /\ e # NoEpoch
    BY <1>2, <1>6 DEF Together, CursorSet, NoEpoch
  <1>7. NumbersAgree
    <2> SUFFICES ASSUME Together
                 PROVE  /\ Count(v) <= Avail(cursor, term)
                        /\ \A n \in cursor.rel + 1 .. Count(v) :
                               v.ring[n] \in {Gap, Row(cursor, term, n - 1)}
      BY DEF NumbersAgree
    <2>1. SenderOK(cursor, term, logs[e])
      BY <1>1, <1>6 DEF RowsBy
    <2>2. Count(v) <= Avail(cursor, term) /\ Len(logs[e]) = Avail(cursor, term)
      BY <1>4, <1>6, <2>1 DEF SenderOK
    <2>3. cursor.rel \in Nat /\ Avail(cursor, term) \in Nat
      BY <1>2, FloorType DEF CursorSet
    <2>4. ASSUME NEW n \in cursor.rel + 1 .. Count(v)
          PROVE  v.ring[n] \in {Gap, Row(cursor, term, n - 1)}
      <3>1. n \in 1 .. Count(v) /\ n \in 1 .. Len(logs[e]) /\ n > cursor.rel
        BY <1>2, <2>2, <2>3
      <3> QED
        BY <1>4, <1>6, <2>1, <3>1 DEF SenderOK
    <2> QED
      BY <2>2, <2>4
  <1>8. GapsGone
    <2> SUFFICES ASSUME Together, v.seen, NEW n \in DOMAIN v.ring, v.ring[n] = Gap
                 PROVE  n <= Floor(cursor, term)
      BY DEF GapsGone
    <2>1. GapsBelow(v, Floor(cursor, term))
      BY <1>3, <1>6 DEF ViewOK
    <2> QED
      BY <1>2, <2>1 DEF GapsBelow
  <1> QED
    BY <1>5, <1>7, <1>8 DEF RowsAgree

\* RowsAgree: as long as no epoch is opened that something still names, the
\* viewport holds the rows the sender means by their numbers, in order and
\* none of them twice, and with the extent it gives up only rows that the
\* sender can never send (apply_scrollback2_rows, settle_history, reanchor).
THEOREM HistoryRowsCorrect == HistorySpec /\ []EpochFresh => []RowsAgree
  <1>1. HistoryInit => Typed /\ RowsInv
    BY TypeInit, RowsInit, SizesAssumption
  <1>2. Typed /\ RowsInv /\ EpochFresh /\ [HistoryNext]_history_vars => (Typed /\ RowsInv)'
    <2> SUFFICES ASSUME Typed, RowsInv, EpochFresh, [HistoryNext]_history_vars
                 PROVE  (Typed /\ RowsInv)'
      OBVIOUS
    <2>1. Typed'
      BY TypeStep, SizesAssumption, BoundsAssumption
    <2> QED
      BY <2>1, RowsStep, SizesAssumption, BoundsAssumption
  <1>3. Typed /\ RowsInv => RowsAgree
    BY RowsAgreeFromInv, SizesAssumption
  <1> QED
    BY <1>1, <1>2, <1>3, PTL DEF HistorySpec

-----------------------------------------------------------------------------
(* Before the epochs come round. *)

\* A message can open two more epochs without starting again at the first.
EpochsLeft == cursor.epoch + 2 <= LastEpoch

\* No epoch is named that the sender has not reached.
Past ==
    cursor.active =>
        viewport.epoch <= cursor.epoch /\ \A m \in down : m.epoch <= cursor.epoch

\* Epochs are numbers.
LEMMA EpochsTyped ==
    ASSUME Typed
    PROVE  /\ cursor.epoch \in Nat /\ viewport.epoch \in Nat
           /\ \A m \in down : m.epoch \in Nat
  <1>1. Epochs \subseteq Nat
    BY DEF Epochs, NoEpoch, LastEpoch
  <1>2. cursor.epoch \in 1 .. LastEpoch /\ viewport.epoch \in Epochs
    BY DEF Typed, HistoryTypeOK, CursorSet, ViewportSet
  <1>3. \A m \in down : m \in FrameSet
    BY DEF Typed, HistoryTypeOK
  <1>4. \A m \in FrameSet : m.epoch \in Epochs
    BY DEF FrameSet
  <1>5. ASSUME NEW m \in down
        PROVE  m.epoch \in Nat
    BY <1>1, <1>3, <1>4
  <1>6. viewport.epoch \in Nat
    BY <1>1, <1>2
  <1>7. cursor.epoch \in Nat
    BY <1>2 DEF LastEpoch
  <1> QED
    BY <1>5, <1>6, <1>7

\* What is in use is not opened next.
LEMMA PastFresh ==
    ASSUME Typed, Past, EpochsLeft
    PROVE  EpochFresh
  <1>1. /\ cursor.epoch \in Nat /\ viewport.epoch \in Nat
        /\ \A m \in down : m.epoch \in Nat
    BY EpochsTyped
  <1>2. ASSUME NEW e \in {NextEpoch(cursor.epoch), NextEpoch(NextEpoch(cursor.epoch))}
        PROVE  e \in Nat /\ e > cursor.epoch
    BY <1>1 DEF EpochsLeft, NextEpoch, LastEpoch
  <1>3. ASSUME cursor.active,
               NEW e \in {NextEpoch(cursor.epoch), NextEpoch(NextEpoch(cursor.epoch))}
        PROVE  viewport.epoch # e /\ \A m \in down : m.epoch # e
    BY <1>1, <1>2, <1>3 DEF Past
  <1> QED
    BY <1>3 DEF EpochFresh

\* No step names an epoch that the sender has not reached.
LEMMA PastStep ==
    ASSUME SizesAssumption, BoundsAssumption, Typed, Typed', RowsInv, Past, EpochsLeft,
           [HistoryNext]_history_vars
    PROVE  Past'
  <1>1. /\ cursor \in CursorSet /\ cursor.epoch \in Nat /\ viewport.epoch \in Nat
        /\ daemon \in BOOLEAN /\ \A m \in down : m.epoch \in Nat
    BY EpochsTyped DEF Typed, HistoryTypeOK
  <1> cursor'.epoch \in Nat
    BY DEF Typed, HistoryTypeOK, CursorSet
  <1>2. PICK logs \in Logs : RowsBy(logs)
    BY DEF RowsInv
  <1>3. CASE Scroll \/ ClearRing \/ Lose \/ UNCHANGED history_vars
    BY <1>3 DEF Scroll, ClearRing, Lose, history_vars, Past
  <1>4. CASE SessionResize
    <2>1. cursor'.active = cursor.active /\ cursor'.epoch = cursor.epoch
      BY <1>1, <1>4 DEF SessionResize, Reanchor, CursorSet
    <2> QED
      BY <1>4, <2>1 DEF SessionResize, Past
  <1>5. CASE SendFrame
    <2>1. Frame(cursor, 0, <<>>).epoch \in {cursor.epoch, NoEpoch}
      BY DEF Frame
    <2> QED
      BY <1>1, <1>5, <2>1 DEF SendFrame, Past, NoEpoch
  <1>6. CASE SendFresh \/ Resend
    <2>1. PICK from \in Nat, cap \in Nat : SendBody(from, cap)
      BY <1>6, BodySteps
    <2>2. PICK start \in Nat, rows \in Seq(RowSet) :
             /\ cursor'.active = cursor.active /\ cursor'.epoch = cursor.epoch
             /\ down' = down \cup {Frame(cursor, start, rows)}
             /\ viewport' = viewport
      BY <1>1, <2>1, SendBodyShape DEF CursorSet
    <2>3. Frame(cursor, start, rows).epoch \in {cursor.epoch, NoEpoch}
      BY DEF Frame
    <2> QED
      BY <1>1, <2>2, <2>3 DEF Past, NoEpoch
  <1>7. ASSUME NEW m \in up, Hear(m)
        PROVE  Past'
    <2> DEFINE d == cursor'
    <2>1. /\ m \in MessageSet /\ m.epoch \in Nat /\ cursor.abs <= term.total /\ term.total \in Nat
          /\ d = Heard(cursor, m, term.total) /\ viewport' = viewport /\ down' = down
      BY <1>7 DEF Hear, Typed, HistoryTypeOK, TermSet, MessageSet, Epochs, NoEpoch, LastEpoch
    <2>2. CASE cursor.active
      <3>1. daemon => cursor.linked
        BY <1>2, <2>2 DEF RowsBy, Linked
      <3>2. d.epoch \in {cursor.epoch, NextEpoch(cursor.epoch), NextEpoch(NextEpoch(cursor.epoch))}
        BY <1>1, <2>1, <2>2, <3>1, HeardOpen DEF SameSpace
      <3>3. d.epoch >= cursor.epoch
        BY <1>1, <3>2 DEF EpochsLeft, NextEpoch, LastEpoch
      <3>4. viewport.epoch <= cursor.epoch /\ \A x \in down : x.epoch <= cursor.epoch
        BY <2>2 DEF Past
      <3> QED
        BY <1>1, <2>1, <3>3, <3>4 DEF Past
    <2>3. CASE ~cursor.active
      <3>1. Unopened(logs) /\ UpOK(m, viewport, logs)
        BY <1>2, <2>3 DEF RowsBy, Unopened
      <3>2. \A x \in down : x.epoch = NoEpoch
        BY <1>2, <2>3, ClosedBlank
      <3>3. \/ ~d.active
            \/ m.entry /\ (~daemon \/ m.epoch = NoEpoch)
            \/ m.epoch # NoEpoch /\ d.epoch = m.epoch
        BY <1>1, <2>1, <2>3, HeardClosed
      <3>4. d.active => viewport.epoch = NoEpoch \/ viewport.epoch = d.epoch
        BY <3>1, <3>3 DEF Unopened, UpOK
      <3> QED
        BY <1>1, <2>1, <3>2, <3>4 DEF Past, NoEpoch
    <2> QED
      BY <2>2, <2>3
  <1>8. ASSUME NEW m \in down, NEW again \in BOOLEAN, ReceiveFrame(m, again)
        PROVE  Past'
    <2> DEFINE w == Applied(Extended(Adopted(viewport, m), m), m)
    <2>1. /\ cursor' = cursor /\ viewport' = w /\ \A x \in down' : x \in down
      BY <1>8 DEF ReceiveFrame
    <2>2. /\ m \in FrameSet /\ viewport \in ViewportSet /\ HeldBounded(viewport)
      BY DEF Typed, HistoryTypeOK
    <2>3. DownOK(m, cursor, term, logs) /\ ViewOK(viewport, cursor, term, logs) /\ Asked
      BY <1>2 DEF RowsBy
    <2>4. CASE m.epoch = NoEpoch
      <3>1. m.start = 0 /\ m.rows = <<>> /\ ~m.told
        BY <2>3, <2>4 DEF DownOK
      <3>2. w = viewport
        BY <2>2, <2>4, <3>1, BlankFrame
      <3> QED
        BY <2>1, <3>2 DEF Past
    <2>5. CASE m.epoch # NoEpoch
      <3>1. \A e \in 1 .. LastEpoch : \A i \in DOMAIN logs[e] : logs[e][i] # Gap
        BY <1>2 DEF RowsBy, LogOK
      <3>2. viewport.epoch # NoEpoch => viewport.seen = m.told
        BY <2>3, <2>5 DEF Asked
      <3>3. w.epoch = m.epoch
        BY <1>1, <2>2, <2>3, <2>5, <3>1, <3>2, FloorType, ReceiveOK
      <3> QED
        BY <2>1, <3>3 DEF Past
    <2> QED
      BY <2>4, <2>5
  <1>9. CASE SendMessage
    <2>1. viewport'.epoch = viewport.epoch
      BY <1>9 DEF SendMessage, Typed, HistoryTypeOK, ViewportSet
    <2> QED
      BY <1>9, <2>1 DEF SendMessage, Past
  <1>10. CASE Resize
    <2>1. viewport'.epoch = NoEpoch
      BY <1>10 DEF Resize, Cleared, Typed, HistoryTypeOK, ViewportSet
    <2> QED
      BY <1>1, <1>10, <2>1 DEF Resize, Past, NoEpoch
  <1>11. CASE Reattach
    <2>1. ~cursor'.active
      BY <1>11 DEF Reattach, NewCursor
    <2> QED
      BY <2>1 DEF Past
  <1> QED
    BY <1>3, <1>4, <1>5, <1>6, <1>7, <1>8, <1>9, <1>10, <1>11
       DEF HistoryNext, Session, Sender, Viewport

\* So the viewport's rows are the sender's, without a word about what is in
\* flight, until the epoch byte is about to come round (bump_epoch).
THEOREM HistoryEpochsCorrect == HistorySpec /\ []EpochsLeft => []RowsAgree
  <1>1. HistoryInit => Typed /\ RowsInv /\ Past
    BY TypeInit, RowsInit, SizesAssumption DEF HistoryInit, NewCursor, Past
  <1>2. Typed /\ RowsInv /\ Past /\ EpochsLeft /\ [HistoryNext]_history_vars
           => (Typed /\ RowsInv /\ Past)'
    <2> SUFFICES ASSUME Typed, RowsInv, Past, EpochsLeft, [HistoryNext]_history_vars
                 PROVE  (Typed /\ RowsInv /\ Past)'
      OBVIOUS
    <2>1. Typed'
      BY TypeStep, SizesAssumption, BoundsAssumption
    <2>2. RowsInv'
      BY <2>1, PastFresh, RowsStep, SizesAssumption, BoundsAssumption
    <2>3. Past'
      BY <2>1, PastStep, SizesAssumption, BoundsAssumption
    <2> QED
      BY <2>1, <2>2, <2>3
  <1>3. Typed /\ RowsInv => RowsAgree
    BY RowsAgreeFromInv, SizesAssumption
  <1> QED
    BY <1>1, <1>2, <1>3, PTL DEF HistorySpec
=============================================================================
