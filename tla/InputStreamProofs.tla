------------------------- MODULE InputStreamProofs -------------------------
(***************************************************************************)
(* The input stream for any number of keystrokes, wires, re-homes and      *)
(* losses: types, the resume cursor, what becomes of an acknowledged byte, *)
(* when an echo is acknowledged, and on one wire the exact typed stream at *)
(* the shells.                                                             *)
(***************************************************************************)
EXTENDS InputStream, SequenceTheorems, FiniteSetTheorems, TLAPS

-----------------------------------------------------------------------------
(* The operators of the two ends. *)

LEMMA LastIn ==
    ASSUME NEW S, NEW s \in Seq(S), s # <<>>
    PROVE  Last(s) \in S
  BY LenProperties, EmptySeq, ElementOfSeq DEF Last

\* A suffix of a sequence, from any of its places on.
LEMMA Suffix ==
    ASSUME NEW S, NEW s \in Seq(S), NEW n \in 0..Len(s)
    PROVE  LET t == SubSeq(s, n + 1, Len(s))
           IN  /\ t \in Seq(S) /\ Len(t) = Len(s) - n
               /\ \A i \in 1..Len(t) : t[i] = s[n + i]
  <1> DEFINE t == SubSeq(s, n + 1, Len(s))
  <1>1. Len(s) \in Nat /\ \A i \in n + 1 .. Len(s) : s[i] \in S
    BY LenProperties, ElementOfSeq
  <1>2. /\ t \in Seq(S)
        /\ Len(t) = IF n + 1 <= Len(s) THEN Len(s) - (n + 1) + 1 ELSE 0
        /\ \A i \in 1 .. Len(s) - (n + 1) + 1 : t[i] = s[n + 1 + i - 1]
    BY <1>1, SubSeqProperties
  <1>3. Len(t) = Len(s) - n
    BY <1>1, <1>2
  <1>4. \A i \in 1..Len(t) : t[i] = s[n + i]
    BY <1>1, <1>2, <1>3
  <1> QED
    BY <1>2, <1>3, <1>4

\* Acknowledging drops a prefix of the tail and no more.
LEMMA AckOutboxKeeps ==
    ASSUME NEW o \in [base : 0..MaxTyped, buf : Seq(Bytes)], NEW upto \in 0..MaxTyped,
           o.base + Len(o.buf) <= MaxTyped
    PROVE  LET p == AckOutbox(o, upto)
           IN  /\ p \in [base : 0..MaxTyped, buf : Seq(Bytes)]
               /\ p.base + Len(p.buf) = o.base + Len(o.buf)
               /\ p.base >= o.base /\ (p.base <= upto \/ p.base = o.base)
               /\ \A i \in 1..Len(p.buf) : p.buf[i] = o.buf[p.base - o.base + i]
  <1> DEFINE n == IF upto > o.base THEN Smaller(upto - o.base, Len(o.buf)) ELSE 0
             t == SubSeq(o.buf, n + 1, Len(o.buf))
  <1>1. Len(o.buf) \in Nat /\ o.buf \in Seq(Bytes) /\ o.base \in Nat /\ MaxTyped \in Nat
    BY LenProperties, BoundsAssumption
  <1>2. n \in 0..Len(o.buf) /\ (n = 0 \/ o.base + n <= upto)
    BY <1>1 DEF Smaller
  <1>3. t \in Seq(Bytes) /\ Len(t) = Len(o.buf) - n /\ \A i \in 1..Len(t) : t[i] = o.buf[n + i]
    <2> HIDE DEF n
    <2> QED
      BY <1>1, <1>2, Suffix
  <1>4. AckOutbox(o, upto) = [base |-> o.base + n, buf |-> t]
    BY DEF AckOutbox
  <1> HIDE DEF n, t
  <1>5. o.base + n \in 0..MaxTyped
    BY <1>1, <1>2
  <1>6. AckOutbox(o, upto).base = o.base + n /\ AckOutbox(o, upto).buf = t
    BY <1>4
  <1> DEFINE p == AckOutbox(o, upto)
  <1>7. p.base + Len(p.buf) = o.base + Len(o.buf)
    <2>1. Len(p.buf) = Len(o.buf) - n
      BY <1>3, <1>6
    <2>2. p.base = o.base + n
      BY <1>6
    <2> HIDE DEF p
    <2> QED
      BY <1>1, <1>2, <2>1, <2>2
  <1>8. \A i \in 1..Len(p.buf) : p.buf[i] = o.buf[p.base - o.base + i]
    <2>1. p.base - o.base = n
      BY <1>1, <1>2, <1>6
    <2> QED
      BY <1>3, <1>6, <2>1
  <1>9. p.base >= o.base /\ (p.base <= upto \/ p.base = o.base)
    BY <1>1, <1>2, <1>6
  <1>10. p \in [base : 0..MaxTyped, buf : Seq(Bytes)]
    BY <1>3, <1>4, <1>5
  <1> HIDE DEF p
  <1> QED
    BY <1>7, <1>8, <1>9, <1>10 DEF p

\* The fresh part of a message is what lies beyond the bytes accepted so far.
LEMMA FreshPart ==
    ASSUME NEW b \in BridgesDuring, NEW m \in Messages
    PROVE  LET f == Fresh(b, m)
           IN  /\ f \in Seq(Bytes)
               /\ f # <<>> =>
                      /\ m.base <= b.next /\ b.next < m.base + Len(m.data)
                      /\ Len(f) = m.base + Len(m.data) - b.next
                      /\ \A i \in 1..Len(f) : f[i] = m.data[b.next - m.base + i]
  <1>1. /\ Len(m.data) \in Nat /\ m.data \in Seq(Bytes) /\ m.base \in Nat /\ b.next \in Nat
        /\ MaxTyped \in Nat
    BY LenProperties, BoundsAssumption DEF BridgesDuring, Messages
  <1>2. CASE m.base > b.next
    BY <1>2, EmptySeq DEF Fresh
  <1>3. CASE m.base <= b.next /\ b.next < m.base + Len(m.data)
    <2> DEFINE n == b.next - m.base
    <2>1. n \in 0..Len(m.data) /\ ~(m.base > b.next)
      BY <1>1, <1>3
    <2>2. Fresh(b, m) = SubSeq(m.data, n + 1, Len(m.data))
      BY <2>1 DEF Fresh
    <2>3. /\ Fresh(b, m) \in Seq(Bytes) /\ Len(Fresh(b, m)) = Len(m.data) - n
          /\ \A i \in 1..Len(Fresh(b, m)) : Fresh(b, m)[i] = m.data[n + i]
      <3> HIDE DEF n
      <3> QED
        BY <1>1, <2>1, <2>2, Suffix
    <2> QED
      BY <1>1, <1>3, <2>3
  <1>4. CASE m.base <= b.next /\ b.next >= m.base + Len(m.data)
    <2>1. Fresh(b, m) = SubSeq(m.data, b.next - m.base + 1, Len(m.data))
      BY <1>1, <1>4 DEF Fresh
    <2>2. b.next - m.base + 1 > Len(m.data) /\ b.next - m.base + 1 \in Int /\ Len(m.data) \in Int
      BY <1>1, <1>4
    <2>3. SubSeq(m.data, b.next - m.base + 1, Len(m.data)) = <<>>
      BY <1>1, <2>2, SubSeqEmpty
    <2> QED
      BY <2>1, <2>3, EmptySeq
  <1> QED
    BY <1>1, <1>2, <1>3, <1>4

Same(a, b) == a \in BridgesDuring /\ a.next = b.next /\ a.write = b.write

LEMMA RecordKeeps ==
    ASSUME now \in 0..MaxTime, NEW b \in BridgesDuring, NEW offset \in 0..MaxTyped
    PROVE  Same(Record(b, offset), b)
  <1> DEFINE newest == IF b.pending = <<>> THEN b.acked ELSE Last(b.pending).offset
  <1>0. b.pending \in Seq(Stamp)
    BY DEF BridgesDuring
  <1>1. newest \in Nat
    <2>1. CASE b.pending = <<>>
      BY <2>1, BoundsAssumption DEF BridgesDuring
    <2>2. CASE b.pending # <<>>
      <3>1. Last(b.pending) \in Stamp
        BY <1>0, <2>2, LastIn
      <3> QED
        BY <2>2, <3>1, BoundsAssumption DEF Stamp, Bytes
    <2> QED
      BY <2>1, <2>2
  <1>2. CASE offset > newest
    <2>1. [offset |-> offset, at |-> now] \in Stamp
      <3>1. offset \in Bytes
        BY <1>1, <1>2, BoundsAssumption DEF Bytes
      <3> QED
        BY <3>1 DEF Stamp
    <2>2. Append(b.pending, [offset |-> offset, at |-> now]) \in Seq(Stamp)
      BY <1>0, <2>1, AppendProperties
    <2>3. Record(b, offset) =
              [b EXCEPT !.pending = Append(b.pending, [offset |-> offset, at |-> now])]
      BY <1>2 DEF Record
    <2> QED
      BY <2>2, <2>3 DEF Same, BridgesDuring
  <1>3. CASE ~(offset > newest)
    BY <1>3 DEF Record, Same
  <1> QED
    BY <1>2, <1>3

LEMMA MatureKeeps ==
    ASSUME NEW b \in BridgesDuring
    PROVE  Same(Mature(b), b)
  <1> DEFINE due == {i \in DOMAIN b.pending : now >= b.pending[i].at + EchoTimeout}
             n == Cardinality(due)
             t == SubSeq(b.pending, n + 1, Len(b.pending))
  <1>0. b.pending \in Seq(Stamp)
    BY DEF BridgesDuring
  <1>1. Len(b.pending) \in Nat /\ DOMAIN b.pending = 1..Len(b.pending)
    BY <1>0, LenProperties
  <1>2. n \in 0..Len(b.pending)
    <2>1. due \in SUBSET (1..Len(b.pending))
      BY <1>1
    <2>2. IsFiniteSet(1..Len(b.pending)) /\ Cardinality(1..Len(b.pending)) = Len(b.pending)
      BY <1>1, FS_Interval
    <2> HIDE DEF due
    <2>3. IsFiniteSet(due) /\ n <= Len(b.pending)
      BY <2>1, <2>2, FS_Subset
    <2>4. n \in Nat
      BY <2>3, FS_CardinalityType
    <2> QED
      BY <1>1, <2>3, <2>4
  <1>3. CASE n = 0
    BY <1>3 DEF Mature, Same
  <1>4. CASE n # 0
    <2>1. Mature(b) = [b EXCEPT !.acked = b.pending[n].offset, !.pending = t, !.ack_due = TRUE]
      BY <1>4 DEF Mature
    <2> HIDE DEF n
    <2>2. b.pending[n] \in Stamp
      BY <1>0, <1>1, <1>2, <1>4, ElementOfSeq
    <2>3. b.pending[n].offset \in 0..MaxTyped
      BY <2>2, BoundsAssumption DEF Stamp, Bytes
    <2>4. t \in Seq(Stamp)
      BY <1>0, <1>2, Suffix
    <2> HIDE DEF t
    <2> QED
      BY <2>1, <2>3, <2>4 DEF Same, BridgesDuring
  <1> QED
    BY <1>3, <1>4

LEMMA RestampKeeps ==
    ASSUME now \in 0..MaxTime, NEW b \in BridgesDuring
    PROVE  Same(Restamp(b), b)
  <1>1. CASE b.pending = <<>>
    BY <1>1 DEF Restamp, Same
  <1>2. CASE b.pending # <<>>
    <2>1. Last(b.pending) \in Stamp
      BY <1>2, LastIn DEF BridgesDuring
    <2>2. [offset |-> Last(b.pending).offset, at |-> now] \in Stamp
      BY <2>1 DEF Stamp
    <2>3. <<[offset |-> Last(b.pending).offset, at |-> now]>> \in Seq(Stamp)
      BY <2>2
    <2>4. Restamp(b) = [b EXCEPT !.pending = <<[offset |-> Last(b.pending).offset, at |-> now]>>]
      BY <1>2 DEF Restamp
    <2> QED
      BY <2>3, <2>4 DEF Same, BridgesDuring
  <1> QED
    BY <1>1, <1>2

\* A message leaves the bridge as it was or appends its fresh part.
LEMMA AcceptKeeps ==
    ASSUME now \in 0..MaxTime, NEW b \in BridgesDuring, NEW m \in Messages,
           m.base + Len(m.data) <= MaxTyped
    PROVE  LET a == Accept(b, m)
               f == Fresh(b, m)
           IN  /\ a \in BridgesDuring
               /\ \/ a = b
                  \/ /\ f # <<>> /\ a.next = m.base + Len(m.data)
                     /\ a.write = b.write \o f
  <1>1. CASE Fresh(b, m) = <<>>
    BY <1>1 DEF Accept
  <1>2. CASE Fresh(b, m) # <<>>
    <2> DEFINE upto == m.base + Len(m.data)
               w == b.write \o Fresh(b, m)
               c == [b EXCEPT !.next = upto, !.write = w, !.ack_due = TRUE]
    <2>1. upto \in 0..MaxTyped
      BY LenProperties, BoundsAssumption DEF Messages
    <2>2. w \in Seq(Bytes)
      BY FreshPart, ConcatProperties DEF BridgesDuring
    <2>3. Accept(b, m) = Record(c, upto)
      BY <1>2 DEF Accept
    <2> HIDE DEF upto, w
    <2>4. c \in BridgesDuring /\ c.next = upto /\ c.write = w
      BY <2>1, <2>2 DEF BridgesDuring
    <2> HIDE DEF c
    <2>5. Same(Accept(b, m), c)
      BY <2>1, <2>3, <2>4, RecordKeeps
    <2> QED
      BY <1>2, <2>4, <2>5 DEF Same, upto, w
  <1> QED
    BY <1>1, <1>2

-----------------------------------------------------------------------------
(* A turn of the peer's loop. *)

\* What the turn finds in the buffer: with a re-home nothing of the input.
Leg(r, cut) == IF cut THEN <<>> ELSE r.write

Given(s, k) == [i \in 1..k |-> [byte |-> s[i], at |-> now]]

Thrown(r, cut, n, k) ==
    (IF cut THEN ToSet(r.write) ELSE {}) \cup {Leg(r, cut)[i] : i \in k + 1 .. n}

\* With bridge r after the message, n bytes leave the buffer, k of them reach
\* the shell, and b is what remains.
Moves(w, r, cut, n, k, b) ==
    /\ r \in BridgesDuring /\ b \in BridgesBetween /\ cut \in BOOLEAN
    /\ n \in 0..Len(Leg(r, cut)) /\ k \in 0..n /\ (PtyStall \/ k = n)
    /\ b.next = r.next /\ b.write = SubSeq(Leg(r, cut), n + 1, Len(Leg(r, cut)))
    /\ pty' = pty \o Given(Leg(r, cut), k)
    /\ dropped' = dropped \cup Thrown(r, cut, n, k)
    /\ waited' = waited \cup ToSet(b.write)
    /\ bridges' = [bridges EXCEPT ![w] = b]
    /\ \/ s2c' = s2c
       \/ /\ w = wire
          /\ s2c' = s2c \cup {[wire |-> w, input_ack |-> r.next, echo_ack |-> b.acked]}
    /\ cut => switches < MaxSwitches
    /\ switches' = IF cut THEN switches + 1 ELSE switches
    /\ UNCHANGED <<outbox, late_ack, resume, wire, c2s, lost, now>>

\* What the turn makes of the echoes still pending: those that have matured
\* are gone, and if the buffer is not empty the rest starts afresh.
Matured(r, held) == IF held THEN r ELSE Mature(r)
Ends(c, b) ==
    /\ b.acked = c.acked
    /\ \/ b.write = <<>> /\ b.pending = c.pending /\ b.full = c.full
       \/ b.pending = Restamp(c).pending /\ b.full = now

\* Turn of bridge w, with r after the message.
Turned(w, r) ==
    \E held, cut \in BOOLEAN : \E n, k \in Nat : \E b \in BridgesBetween :
        Moves(w, r, cut, n, k, b) /\ Ends(Matured(r, held), b)

LEMMA TurnEnds ==
    ASSUME TypeOK, NEW w \in Wires, NEW r \in BridgesDuring,
           NEW held \in BOOLEAN, NEW switch \in BOOLEAN, NEW send \in BOOLEAN,
           Turn(w, r, held, switch, send),
           UNCHANGED <<outbox, late_ack, resume, wire, c2s, lost, now>>
    PROVE  Turned(w, r)
  <1> DEFINE b1 == Matured(r, held)
             b2 == IF switch THEN Rehomed(b1) ELSE b1
             bytes(k) == [i \in 1..k |-> [byte |-> b2.write[i], at |-> now]]
             was == IF switch THEN ToSet(b1.write) ELSE {}
             gone(n, k) == {b2.write[i] : i \in k + 1 .. n}
             b3(n, behind) == Flushed(b2, n, behind)
             b4(n, behind) == [b3(n, behind) EXCEPT !.ack_due = FALSE]
             sent(n, behind) == [wire |-> w, input_ack |-> b3(n, behind).next,
                                 echo_ack |-> b3(n, behind).acked]
  <1>0. now \in 0..MaxTime
    BY DEF TypeOK, ClockTypes
  <1>1. Same(b1, r)
    BY MatureKeeps DEF Same, Matured
  <1>2. \E n \in Flushes(b2), behind \in Behind : \E k \in Written(n) :
            /\ pty' = pty \o bytes(k)
            /\ dropped' = dropped \cup was \cup gone(n, k)
            /\ waited' = waited \cup ToSet(b3(n, behind).write)
            /\ b3(n, behind).ack_due => send
            /\ bridges' = [bridges EXCEPT ![w] = b4(n, behind)]
            /\ s2c' = IF send /\ w = wire THEN s2c \cup {sent(n, behind)} ELSE s2c
            /\ switch => switches < MaxSwitches
            /\ switches' = IF switch THEN switches + 1 ELSE switches
    BY Zenon DEF Turn, Matured
  <1> HIDE DEF b2, bytes, was, gone, b3, b4, sent
  <1>2a. PICK n \in Flushes(b2), behind \in Behind : \E k \in Written(n) :
            /\ pty' = pty \o bytes(k)
            /\ dropped' = dropped \cup was \cup gone(n, k)
            /\ waited' = waited \cup ToSet(b3(n, behind).write)
            /\ b3(n, behind).ack_due => send
            /\ bridges' = [bridges EXCEPT ![w] = b4(n, behind)]
            /\ s2c' = IF send /\ w = wire THEN s2c \cup {sent(n, behind)} ELSE s2c
            /\ switch => switches < MaxSwitches
            /\ switches' = IF switch THEN switches + 1 ELSE switches
    BY <1>2
  <1>3. PICK k \in Written(n) :
            /\ pty' = pty \o bytes(k)
            /\ dropped' = dropped \cup was \cup gone(n, k)
            /\ waited' = waited \cup ToSet(b3(n, behind).write)
            /\ b3(n, behind).ack_due => send
            /\ bridges' = [bridges EXCEPT ![w] = b4(n, behind)]
            /\ s2c' = IF send /\ w = wire THEN s2c \cup {sent(n, behind)} ELSE s2c
            /\ switch => switches < MaxSwitches
            /\ switches' = IF switch THEN switches + 1 ELSE switches
    BY <1>2a
  <1> USE DEF b2, bytes, was, gone, b3, b4, sent
  <1> DEFINE leg == Leg(r, switch)
  <1>4. /\ leg \in Seq(Bytes) /\ Len(leg) \in Nat
        /\ b2 \in BridgesDuring /\ b2.next = r.next /\ b2.write = leg
        /\ b2.acked = b1.acked /\ b2.pending = b1.pending /\ b2.full = b1.full
    <2>1. r.write \in Seq(Bytes) /\ <<>> \in Seq(Bytes)
      BY EmptySeq DEF BridgesDuring
    <2>2. leg \in Seq(Bytes) /\ Len(leg) \in Nat
      BY <2>1, LenProperties DEF Leg
    <2> HIDE DEF b1
    <2>3. CASE switch
      <3>1. b2 = [b1 EXCEPT !.write = <<>>, !.ack_due = FALSE]
        BY <2>3 DEF Rehomed
      <3> QED
        BY <1>1, <2>1, <2>2, <2>3, <3>1 DEF Same, BridgesDuring, Leg
    <2>4. CASE ~switch
      BY <1>1, <2>2, <2>4 DEF Same, Leg
    <2> QED
      BY <2>3, <2>4
  <1>5. b1.write = r.write /\ b1 \in BridgesDuring
    BY <1>1 DEF Same
  <1>6. bytes(k) = Given(leg, k) /\ was \cup gone(n, k) = Thrown(r, switch, n, k)
    BY <1>4, <1>5 DEF Given, Thrown
  <1>7. n \in 0..Len(leg) /\ n \in Nat
    BY <1>4 DEF Flushes
  <1> HIDE DEF b1, b2, leg, bytes, was, gone
  <1>8. k \in 0..n /\ k \in Nat /\ (PtyStall \/ k = n)
    BY <1>7 DEF Written
  <1> DEFINE t == SubSeq(leg, n + 1, Len(leg))
             c == b3(n, behind)
             d == b4(n, behind)
  <1>9. t \in Seq(Bytes)
    BY <1>4, <1>7, Suffix
  <1>10. /\ c \in BridgesDuring /\ c.next = r.next /\ c.write = t /\ c.acked = b1.acked
         /\ \/ t = <<>> /\ c.pending = b1.pending /\ c.full = b1.full
            \/ c.pending = Restamp(b1).pending /\ c.full = now
    <2> HIDE DEF t
    <2>0. t = SubSeq(b2.write, n + 1, Len(b2.write))
      BY <1>4 DEF t
    <2>1. CASE t = <<>> /\ ~behind
      <3>1. c = [b2 EXCEPT !.write = t]
        BY <2>0, <2>1 DEF Flushed
      <3> QED
        BY <1>4, <1>9, <2>1, <3>1 DEF BridgesDuring
    <2>2. CASE ~(t = <<>> /\ ~behind)
      <3>1. c = [Restamp(b2) EXCEPT !.write = t, !.full = now]
        BY <2>0, <2>2 DEF Flushed
      <3>2. Same(Restamp(b2), b2)
        BY <1>0, <1>4, RestampKeeps
      <3>3. Restamp(b2).acked = b2.acked /\ Restamp(b2).pending = Restamp(b1).pending
        BY <1>4, <1>5 DEF Restamp, BridgesDuring
      <3> QED
        BY <1>0, <1>4, <1>9, <3>1, <3>2, <3>3 DEF Same, BridgesDuring
    <2> QED
      BY <2>1, <2>2
  <1>11. d = [c EXCEPT !.ack_due = FALSE]
    OBVIOUS
  <1>12. /\ bridges' = [bridges EXCEPT ![w] = d] /\ waited' = waited \cup ToSet(c.write)
         /\ \/ s2c' = s2c
            \/ /\ w = wire
               /\ s2c' = s2c \cup {[wire |-> w, input_ack |-> c.next, echo_ack |-> c.acked]}
    BY <1>3
  <1>12a. t = SubSeq(leg, n + 1, Len(leg))
    OBVIOUS
  <1> HIDE DEF b3, b4, sent, t, c, d
  <1>13. /\ d \in BridgesBetween /\ d.next = r.next /\ d.write = t /\ d.acked = c.acked
         /\ d.pending = c.pending /\ d.full = c.full
    BY <1>10, <1>11 DEF BridgesDuring, BridgesBetween
  <1>14. Ends(b1, d)
    BY <1>10, <1>13 DEF Ends
  <1>15. Moves(w, r, switch, n, k, d)
    <2>1. pty' = pty \o Given(leg, k) /\ dropped' = dropped \cup Thrown(r, switch, n, k)
      BY <1>3, <1>6
    <2>2. /\ \/ s2c' = s2c
             \/ w = wire /\ s2c' = s2c \cup {[wire |-> w, input_ack |-> r.next, echo_ack |-> d.acked]}
          /\ waited' = waited \cup ToSet(d.write)
      BY <1>10, <1>12, <1>13
    <2> QED
      BY <1>3, <1>7, <1>8, <1>12, <1>12a, <1>13, <2>1, <2>2 DEF Moves, leg
  <1> QED
    BY <1>7, <1>8, <1>13, <1>14, <1>15 DEF Turned, b1

-----------------------------------------------------------------------------
(* Types. *)

LEMMA TypeInit == Init => TypeOK
  <1> SUFFICES ASSUME Init PROVE TypeOK
    OBVIOUS
  <1> USE BoundsAssumption DEF Init
  <1>1. ViewportTypes
    BY EmptySeq DEF ViewportTypes, Typed
  <1>2. Bridge(0, 0) \in BridgesBetween
    BY EmptySeq DEF Bridge, BridgesBetween, BridgesDuring
  <1>3. PeerTypes
    BY <1>2, EmptySeq DEF PeerTypes, Wires
  <1>4. NetTypes
    BY DEF NetTypes
  <1>5. ClockTypes
    BY DEF ClockTypes
  <1> QED
    BY <1>1, <1>3, <1>4, <1>5 DEF TypeOK

LEMMA LegBytes ==
    ASSUME NEW r \in BridgesDuring, NEW cut
    PROVE  /\ Leg(r, cut) \in Seq(Bytes) /\ Len(Leg(r, cut)) \in Nat
           /\ r.write \in Seq(Bytes) /\ Len(r.write) \in Nat
           /\ DOMAIN r.write = 1..Len(r.write)
           /\ \A i \in 1..Len(Leg(r, cut)) : Leg(r, cut)[i] \in Bytes
           /\ \A i \in 1..Len(r.write) : r.write[i] \in Bytes
  <1>1. r.write \in Seq(Bytes) /\ <<>> \in Seq(Bytes)
    BY EmptySeq DEF BridgesDuring
  <1>2. Leg(r, cut) \in Seq(Bytes)
    BY <1>1 DEF Leg
  <1> QED
    BY <1>1, <1>2, LenProperties, ElementOfSeq

\* A turn keeps the types, whatever message it began with.
LEMMA MovesType ==
    ASSUME TypeOK, NEW w \in Wires, NEW r, NEW cut, NEW n, NEW k, NEW b, Moves(w, r, cut, n, k, b)
    PROVE  TypeOK'
  <1>1. ViewportTypes'
    BY DEF Moves, TypeOK, ViewportTypes, Typed
  <1> DEFINE leg == Leg(r, cut)
  <1>2. /\ leg \in Seq(Bytes) /\ k \in Nat /\ n \in Nat /\ k \in 0..Len(leg) /\ n <= Len(leg)
        /\ r.next \in 0..MaxTyped /\ r \in BridgesDuring
        /\ \A i \in 1..Len(leg) : leg[i] \in Bytes
    BY LegBytes DEF Moves, BridgesDuring
  <1>3. PeerTypes'
    <2> DEFINE Byte == [byte : Bytes, at : 0..MaxTime]
    <2>1. \A i \in 1..k : [byte |-> leg[i], at |-> now] \in Byte
      BY <1>2 DEF TypeOK, ClockTypes
    <2>2. Given(leg, k) \in Seq(Byte)
      BY <1>2, <2>1, IsASeq DEF Given
    <2>3. pty' \in Seq(Byte)
      BY <2>2, ConcatProperties DEF Moves, TypeOK, PeerTypes
    <2>4. bridges' \in [Wires -> BridgesBetween] /\ wire' \in Wires
      BY DEF Moves, TypeOK, PeerTypes
    <2>5. Thrown(r, cut, n, k) \subseteq Bytes
      <3>1. ToSet(r.write) \subseteq Bytes
        BY <1>2, LegBytes DEF ToSet
      <3>2. \A i \in k + 1 .. n : i \in 1..Len(leg)
        BY <1>2
      <3> QED
        BY <1>2, <3>1, <3>2 DEF Thrown
    <2>6. ToSet(b.write) \subseteq Bytes
      <3>1. b.write \in Seq(Bytes)
        BY DEF Moves, BridgesBetween, BridgesDuring
      <3>2. DOMAIN b.write = 1..Len(b.write) /\ \A i \in 1..Len(b.write) : b.write[i] \in Bytes
        BY <3>1, LenProperties, ElementOfSeq
      <3> QED
        BY <3>2 DEF ToSet
    <2> HIDE DEF leg, Byte
    <2>7. dropped' \subseteq Bytes /\ waited' \subseteq Bytes
      BY <2>5, <2>6 DEF Moves, TypeOK, PeerTypes
    <2> QED
      BY <2>3, <2>4, <2>7 DEF PeerTypes, Byte
  <1>4. NetTypes'
    <2>1. b.acked \in 0..MaxTyped
      BY DEF Moves, BridgesBetween, BridgesDuring
    <2>2. [wire |-> w, input_ack |-> r.next, echo_ack |-> b.acked] \in Frames
      BY <1>2, <2>1 DEF Frames
    <2> QED
      BY <2>2 DEF Moves, TypeOK, NetTypes
  <1>5. ClockTypes'
    BY BoundsAssumption DEF Moves, TypeOK, ClockTypes
  <1> QED
    BY <1>1, <1>3, <1>4, <1>5 DEF TypeOK

\* Every turn of a peer's loop moves one bridge on, after a message meant for
\* it or without one.
LEMMA TurnsMove ==
    ASSUME TypeOK, (\E m \in c2s : PeerReceives(m)) \/ (\E w \in 1..wire : PeerTurns(w))
    PROVE  \E w \in Wires, r \in BridgesDuring :
               /\ \/ r = bridges[w] /\ w <= wire
                  \/ \E m \in c2s : m.wire = w /\ r = Accept(bridges[w], m)
               /\ Turned(w, r)
  <1>0. /\ now \in 0..MaxTime /\ wire \in Wires
        /\ \A w \in Wires : bridges[w] \in BridgesDuring
    BY DEF TypeOK, ClockTypes, PeerTypes, BridgesBetween
  <1>1. ASSUME NEW m \in c2s, PeerReceives(m)
        PROVE  /\ m.wire \in Wires /\ Accept(bridges[m.wire], m) \in BridgesDuring
               /\ Turned(m.wire, Accept(bridges[m.wire], m))
    <2>1. m \in Messages /\ m.wire \in Wires /\ m.base + Len(m.data) <= MaxTyped
      BY DEF TypeOK, NetTypes, Messages
    <2>2. Accept(bridges[m.wire], m) \in BridgesDuring
      BY <1>0, <2>1, AcceptKeeps
    <2>3. PICK held \in BOOLEAN, switch \in BOOLEAN, send \in BOOLEAN :
              /\ Turn(m.wire, Accept(bridges[m.wire], m), held, switch, send)
              /\ UNCHANGED <<outbox, late_ack, resume, wire, c2s, lost, now>>
      BY <1>1 DEF PeerReceives
    <2> QED
      BY <2>1, <2>2, <2>3, TurnEnds
  <1>2. ASSUME NEW w \in 1..wire, PeerTurns(w)
        PROVE  w \in Wires /\ w <= wire /\ Turned(w, bridges[w])
    <2>1. w \in Wires /\ w <= wire
      BY <1>0, BoundsAssumption DEF Wires
    <2>2. PICK held \in BOOLEAN, switch \in BOOLEAN, send \in BOOLEAN :
              /\ Turn(w, bridges[w], held, switch, send)
              /\ UNCHANGED <<outbox, late_ack, resume, wire, c2s, lost, now>>
      BY <1>2 DEF PeerTurns
    <2> QED
      BY <1>0, <2>1, <2>2, TurnEnds
  <1> QED
    BY <1>0, <1>1, <1>2

LEMMA TypeStep ==
    ASSUME TypeOK, [Next]_vars
    PROVE  TypeOK'
  <1>0. /\ outbox.base \in Nat /\ outbox.buf \in Seq(Bytes) /\ Len(outbox.buf) \in Nat
        /\ Typed <= MaxTyped /\ MaxTyped \in Nat
    BY LenProperties, BoundsAssumption DEF TypeOK, ViewportTypes
  <1>1. CASE Push
    <2>1. Typed + 1 \in Bytes
      BY <1>0, <1>1 DEF Push, Typed, Bytes
    <2>2. /\ Append(outbox.buf, Typed + 1) \in Seq(Bytes)
          /\ Len(Append(outbox.buf, Typed + 1)) = Len(outbox.buf) + 1
      BY <1>0, <2>1, AppendProperties
    <2>3. /\ outbox'.base = outbox.base /\ outbox'.buf = Append(outbox.buf, Typed + 1)
          /\ outbox' \in [base : 0..MaxTyped, buf : Seq(Bytes)]
      BY <1>1, <2>2 DEF Push, TypeOK, ViewportTypes
    <2>4. Typed' <= MaxTyped
      BY <1>0, <1>1, <2>2, <2>3 DEF Push, Typed
    <2>5. ViewportTypes'
      BY <1>1, <2>3, <2>4 DEF Push, TypeOK, ViewportTypes
    <2> QED
      BY <1>1, <2>5 DEF Push, TypeOK, PeerTypes, NetTypes, ClockTypes, peer
  <1>2. CASE SendMessage
    <2>1. [wire |-> wire, base |-> outbox.base, data |-> outbox.buf] \in Messages
      BY <1>0 DEF TypeOK, ViewportTypes, PeerTypes, Messages
    <2>2. NetTypes'
      BY <1>0, <1>2, <2>1 DEF SendMessage, TypeOK, NetTypes, Typed, peer
    <2> QED
      BY <1>2, <2>2 DEF SendMessage, TypeOK, ViewportTypes, Typed, PeerTypes, ClockTypes, peer
  <1>3. CASE ReceiveFrame
    <2>0. PICK f \in s2c :
              /\ resume' = [input |-> Larger(resume.input, f.input_ack),
                            echo  |-> Larger(resume.echo, f.echo_ack)]
              /\ outbox' = AckOutbox(outbox, f.input_ack)
              /\ late_ack' = Larger(late_ack, f.echo_ack)
              /\ UNCHANGED <<wire, c2s, lost, now, peer>>
      BY <1>3 DEF ReceiveFrame
    <2>1. f \in Frames /\ f.input_ack \in 0..MaxTyped /\ f.echo_ack \in 0..MaxTyped
      BY DEF TypeOK, NetTypes, Frames
    <2>2. /\ resume' \in [input : 0..MaxTyped, echo : 0..MaxTyped] /\ late_ack' \in 0..MaxTyped
      BY <2>0, <2>1 DEF TypeOK, ViewportTypes, Larger
    <2>3. /\ outbox' \in [base : 0..MaxTyped, buf : Seq(Bytes)]
          /\ outbox'.base + Len(outbox'.buf) = outbox.base + Len(outbox.buf)
      BY <1>0, <2>0, <2>1, AckOutboxKeeps DEF TypeOK, ViewportTypes, Typed
    <2>4. ViewportTypes'
      BY <1>0, <2>2, <2>3 DEF ViewportTypes, Typed
    <2> QED
      BY <2>0, <2>4 DEF TypeOK, PeerTypes, NetTypes, ClockTypes, peer
  <1>4. CASE (\E m \in c2s : PeerReceives(m)) \/ (\E w \in 1..wire : PeerTurns(w))
    BY <1>4, TurnsMove, MovesType DEF Turned
  <1>5. CASE Tick
    <2>1. now' \in 0..MaxTime /\ UNCHANGED <<lost, switches>>
      BY <1>5, BoundsAssumption DEF Tick, TypeOK, ClockTypes, peer
    <2>2. ClockTypes'
      BY <2>1 DEF TypeOK, ClockTypes
    <2> QED
      BY <1>5, <2>2 DEF Tick, TypeOK, ViewportTypes, Typed, PeerTypes, NetTypes, peer
  <1>6. CASE Reconnect
    <2>1. Bridge(resume.input, resume.echo) \in BridgesBetween
      BY EmptySeq, BoundsAssumption DEF Bridge, TypeOK, ViewportTypes, BridgesBetween, BridgesDuring
    <2>2. wire' \in Wires /\ bridges' \in [Wires -> BridgesBetween]
      BY <1>6, <2>1, BoundsAssumption DEF Reconnect, TypeOK, PeerTypes, Wires
    <2>3. PeerTypes' /\ NetTypes'
      BY <1>6, <2>2 DEF Reconnect, TypeOK, PeerTypes, NetTypes
    <2>4. ClockTypes'
      BY <1>6 DEF Reconnect, TypeOK, ClockTypes
    <2> QED
      BY <1>6, <2>3, <2>4 DEF Reconnect, TypeOK, ViewportTypes, Typed
  <1>7. CASE LoseFrame \/ LoseMessage
    <2>1. lost' \in 0..MaxLoss
      BY <1>7, BoundsAssumption DEF LoseFrame, LoseMessage, TypeOK, ClockTypes
    <2>2. NetTypes'
      BY <1>7 DEF LoseFrame, LoseMessage, TypeOK, NetTypes, peer
    <2>3. UNCHANGED <<outbox, late_ack, resume, wire, bridges, switches, pty, dropped, waited, now>>
      BY <1>7 DEF LoseFrame, LoseMessage, peer
    <2> QED
      BY <2>1, <2>2, <2>3 DEF TypeOK, ViewportTypes, Typed, PeerTypes, ClockTypes
  <1>8. CASE UNCHANGED vars
    BY <1>8 DEF vars, peer, TypeOK, ViewportTypes, Typed, PeerTypes, NetTypes, ClockTypes
  <1> QED
    BY <1>1, <1>2, <1>3, <1>4, <1>5, <1>6, <1>7, <1>8 DEF Next

\* Outbox, cursor, bridges, network and shells keep their types for any number
\* of keystrokes, wires, re-homes and losses.
THEOREM TypeCorrect == Spec => []TypeOK
  BY TypeInit, TypeStep, PTL DEF Spec
-----------------------------------------------------------------------------
(* The stream.  Every piece of it in flight or in a buffer is a stretch of  *)
(* the typed bytes in its right place, and the ends agree on the offsets.   *)

\* What the bridge has passed on: where its buffer begins.
Start(b) == b.next - Len(b.write)

Stretch(s, from) == \A i \in 1..Len(s) : s[i] = from + i

MessagesInPlace ==
    \A m \in c2s : /\ m.wire <= wire
                   /\ m.base + Len(m.data) <= Typed
                   /\ Stretch(m.data, m.base)

BridgeInPlace(b) == Len(b.write) <= b.next /\ b.next <= Typed /\ Stretch(b.write, Start(b))

\* The viewport, the cursor and the bridge of the wire in use, in this order.
OffsetsOrdered ==
    /\ outbox.base <= resume.input /\ resume.input <= bridges[wire].next
    /\ \A f \in s2c : f.wire = wire /\ f.input_ack <= bridges[wire].next

StreamInv ==
    /\ Stretch(outbox.buf, outbox.base)
    /\ MessagesInPlace
    /\ \A w \in Wires : BridgeInPlace(bridges[w]) /\ (w > wire => bridges[w].write = <<>>)
    /\ OffsetsOrdered

\* What a turn begins with carries the bridge's buffer on.
Extends(r, b) ==
    /\ BridgeInPlace(r) /\ Start(r) = Start(b)
    /\ b.next <= r.next /\ Len(b.write) <= Len(r.write)

LEMMA AppendExtends ==
    ASSUME NEW b, NEW a, NEW f \in Seq(Bytes),
           b.write \in Seq(Bytes), b.next \in Nat, BridgeInPlace(b),
           a.write = b.write \o f, a.next = b.next + Len(f), a.next <= Typed,
           Stretch(f, b.next)
    PROVE  Extends(a, b)
  <1>1. Len(b.write) \in Nat /\ Len(f) \in Nat
    BY LenProperties
  <1>2. /\ Len(a.write) = Len(b.write) + Len(f)
        /\ \A i \in 1..Len(b.write) + Len(f) :
               a.write[i] = IF i <= Len(b.write) THEN b.write[i] ELSE f[i - Len(b.write)]
    BY ConcatProperties
  <1>3. Start(a) = Start(b) /\ Start(b) \in Nat
    BY <1>1, <1>2 DEF Start, BridgeInPlace
  <1>4. ASSUME NEW i \in 1..Len(a.write)
        PROVE  a.write[i] = Start(b) + i
    <2>0. i \in 1..Len(b.write) + Len(f) /\ i \in Nat
      BY <1>1, <1>2
    <2>1. CASE i <= Len(b.write)
      <3>1. i \in 1..Len(b.write)
        BY <1>1, <2>0, <2>1
      <3> QED
        BY <1>2, <2>0, <2>1, <3>1 DEF BridgeInPlace, Stretch
    <2>2. CASE ~(i <= Len(b.write))
      <3>1. i - Len(b.write) \in 1..Len(f)
        BY <1>1, <2>0, <2>2
      <3>2. a.write[i] = f[i - Len(b.write)]
        BY <1>2, <2>0, <2>2
      <3>3. f[i - Len(b.write)] = b.next + (i - Len(b.write))
        BY <3>1 DEF Stretch
      <3> QED
        BY <1>1, <2>0, <3>2, <3>3 DEF Start
    <2> QED
      BY <2>1, <2>2
  <1>5. Stretch(a.write, Start(a))
    BY <1>3, <1>4 DEF Stretch
  <1>6. Len(a.write) <= a.next /\ b.next <= a.next /\ Len(b.write) <= Len(a.write)
    BY <1>1, <1>2 DEF BridgeInPlace
  <1> QED
    BY <1>3, <1>5, <1>6 DEF Extends, BridgeInPlace

LEMMA AcceptExtends ==
    ASSUME TypeOK, StreamInv, NEW m \in c2s
    PROVE  /\ m.wire \in Wires /\ m.wire <= wire
           /\ Extends(Accept(bridges[m.wire], m), bridges[m.wire])
  <1> DEFINE b == bridges[m.wire]
             a == Accept(b, m)
             f == Fresh(b, m)
  <1>1. m \in Messages /\ m.wire \in Wires /\ m.wire <= wire /\ m.base + Len(m.data) <= MaxTyped
    BY DEF TypeOK, NetTypes, Messages, StreamInv, MessagesInPlace
  <1>2. b \in BridgesDuring /\ BridgeInPlace(b) /\ now \in 0..MaxTime
    BY <1>1 DEF TypeOK, PeerTypes, BridgesBetween, StreamInv, ClockTypes
  <1>3. /\ b.write \in Seq(Bytes) /\ Len(b.write) \in Nat /\ b.next \in Nat
        /\ m.base \in Nat /\ Len(m.data) \in Nat
    BY <1>1, <1>2, LenProperties, BoundsAssumption DEF BridgesDuring, Messages
  <1>4. m.base + Len(m.data) <= Typed /\ Stretch(m.data, m.base)
    BY DEF StreamInv, MessagesInPlace
  <1>5. a = b \/ (f # <<>> /\ a.next = m.base + Len(m.data) /\ a.write = b.write \o f)
    BY <1>1, <1>2, AcceptKeeps
  <1>6. /\ f \in Seq(Bytes)
        /\ f # <<>> => /\ m.base <= b.next /\ b.next < m.base + Len(m.data)
                       /\ Len(f) = m.base + Len(m.data) - b.next
                       /\ \A i \in 1..Len(f) : f[i] = m.data[b.next - m.base + i]
    BY <1>1, <1>2, FreshPart
  <1> HIDE DEF a, b, f
  <1>7. ASSUME a = b
        PROVE  Extends(a, b)
    BY <1>2, <1>3, <1>7 DEF Extends, BridgeInPlace, Start, Stretch
  <1>8. ASSUME f # <<>>, a.next = m.base + Len(m.data), a.write = b.write \o f
        PROVE  Extends(a, b)
    <2>1. Len(f) = m.base + Len(m.data) - b.next /\ m.base <= b.next
      BY <1>6, <1>8
    <2>2. ASSUME NEW i \in 1..Len(f)
          PROVE  f[i] = b.next + i
      <3>1. b.next - m.base + i \in 1..Len(m.data) /\ i \in Nat
        BY <1>3, <2>1
      <3>2. m.data[b.next - m.base + i] = m.base + (b.next - m.base + i)
        BY <1>4, <3>1 DEF Stretch
      <3>3. f[i] = m.data[b.next - m.base + i]
        BY <1>6, <1>8
      <3> QED
        BY <1>3, <3>1, <3>2, <3>3
    <2>3. a.next = b.next + Len(f) /\ a.next <= Typed
      BY <1>3, <1>4, <1>8, <2>1
    <2>4. Stretch(f, b.next)
      BY <2>2 DEF Stretch
    <2> QED
      BY <1>2, <1>3, <1>6, <1>8, <2>3, <2>4, AppendExtends
  <1> QED
    BY <1>1, <1>5, <1>7, <1>8 DEF a, b

\* The turns, once more, as moves of a bridge extended by a message or not.
LEMMA TurnsExtend ==
    ASSUME TypeOK, StreamInv,
           (\E m \in c2s : PeerReceives(m)) \/ (\E w \in 1..wire : PeerTurns(w))
    PROVE  \E w \in Wires, r \in BridgesDuring :
               /\ w <= wire /\ Extends(r, bridges[w])
               /\ r = bridges[w] \/ \E m \in c2s : m.wire = w /\ r = Accept(bridges[w], m)
               /\ Turned(w, r)
  <1>1. PICK w \in Wires, r \in BridgesDuring :
            /\ \/ r = bridges[w] /\ w <= wire
               \/ \E m \in c2s : m.wire = w /\ r = Accept(bridges[w], m)
            /\ Turned(w, r)
    BY TurnsMove
  <1>2. w <= wire /\ Extends(r, bridges[w])
    <2>1. CASE r = bridges[w] /\ w <= wire
      <3>1. BridgeInPlace(bridges[w]) /\ bridges[w].next \in Nat /\ Len(bridges[w].write) \in Nat
        BY <2>1, LenProperties, BoundsAssumption DEF StreamInv, BridgesDuring
      <3> QED
        BY <2>1, <3>1 DEF Extends
    <2>2. CASE \E m \in c2s : m.wire = w /\ r = Accept(bridges[w], m)
      BY <2>2, AcceptExtends
    <2> QED
      BY <1>1, <2>1, <2>2
  <1> QED
    BY <1>1, <1>2

\* Where the turn starts to write from: behind what a re-home threw away.
From(r, cut) == r.next - Len(Leg(r, cut))

\* What is left of the buffer after n bytes is in place further on.
LEMMA Remains ==
    ASSUME TypeOK, NEW w \in Wires, NEW r, NEW cut, NEW n, NEW k, NEW b, Moves(w, r, cut, n, k, b),
           Extends(r, bridges[w])
    PROVE  LET leg == Leg(r, cut)
           IN  /\ Len(leg) \in Nat /\ r.next \in Nat /\ From(r, cut) \in Nat /\ n \in 0..Len(leg)
               /\ \A i \in 1..Len(leg) : leg[i] = From(r, cut) + i
               /\ cut => leg = <<>> /\ Len(leg) = 0 /\ From(r, cut) = r.next
               /\ ~cut => leg = r.write /\ From(r, cut) = Start(r)
               /\ Len(b.write) = Len(leg) - n /\ Start(b) = From(r, cut) + n
               /\ \A i \in 1..Len(b.write) : b.write[i] = leg[n + i]
               /\ BridgeInPlace(b)
  <1> DEFINE leg == Leg(r, cut)
  <1>1. /\ leg \in Seq(Bytes) /\ Len(leg) \in Nat /\ r.next \in Nat
        /\ n \in 0..Len(leg) /\ b.next = r.next /\ cut \in BOOLEAN
        /\ b.write = SubSeq(leg, n + 1, Len(leg))
    BY LegBytes, BoundsAssumption DEF Moves, BridgesDuring
  <1>0. /\ cut => leg = <<>> /\ Len(leg) = 0 /\ From(r, cut) = r.next
        /\ ~cut => leg = r.write /\ From(r, cut) = Start(r)
    <2>1. Len(<<>>) = 0
      BY EmptySeq
    <2>2. CASE cut
      BY <1>1, <2>1, <2>2 DEF Leg, From
    <2>3. CASE ~cut
      BY <1>1, <2>3 DEF Leg, From, Start
    <2> QED
      BY <1>1, <2>2, <2>3
  <1>2. Len(b.write) = Len(leg) - n /\ \A i \in 1..Len(b.write) : b.write[i] = leg[n + i]
    <2> DEFINE t == SubSeq(leg, n + 1, Len(leg))
    <2> HIDE DEF leg
    <2>1. Len(t) = Len(leg) - n /\ \A i \in 1..Len(t) : t[i] = leg[n + i]
      BY <1>1, Suffix
    <2>2. b.write = t
      BY <1>1
    <2> HIDE DEF t
    <2> QED
      BY <2>1, <2>2
  <1>3. Start(b) = From(r, cut) + n
    BY <1>1, <1>2 DEF Start, From
  <1>4. From(r, cut) \in Nat /\ Len(leg) <= r.next /\ \A i \in 1..Len(leg) : leg[i] = From(r, cut) + i
    <2>1. BridgeInPlace(r) /\ Len(r.write) <= r.next
      BY DEF Extends, BridgeInPlace
    <2> HIDE DEF leg
    <2>2. CASE cut
      <3>1. From(r, cut) = r.next /\ Len(leg) = 0
        BY <1>0, <2>2
      <3> QED
        BY <1>1, <3>1
    <2>3. CASE ~cut
      <3>1. From(r, cut) = Start(r) /\ leg = r.write
        BY <1>0, <2>3
      <3> QED
        BY <1>1, <2>1, <3>1 DEF Start, BridgeInPlace, Stretch
    <2> QED
      BY <1>1, <2>2, <2>3
  <1> HIDE DEF leg
  <1>5. ASSUME NEW i \in 1..Len(b.write)
        PROVE  b.write[i] = Start(b) + i
    <2>1. n + i \in 1..Len(leg) /\ i \in Nat /\ n \in Nat
      BY <1>1, <1>2
    <2>2. leg[n + i] = From(r, cut) + (n + i)
      BY <1>4, <2>1
    <2>3. b.write[i] = From(r, cut) + (n + i)
      BY <1>2, <2>2
    <2>4. \A x \in Nat : x + (n + i) = (x + n) + i
      BY <2>1
    <2> QED
      BY <1>3, <1>4, <2>3, <2>4
  <1>6. Len(b.write) <= b.next /\ b.next <= Typed
    <2>1. r.next <= Typed
      BY DEF Extends, BridgeInPlace
    <2> QED
      BY <1>1, <1>2, <1>4, <2>1
  <1>7. BridgeInPlace(b)
    BY <1>5, <1>6 DEF BridgeInPlace, Stretch
  <1> QED
    BY <1>0, <1>1, <1>2, <1>3, <1>4, <1>7 DEF leg

LEMMA MovesStream ==
    ASSUME TypeOK, StreamInv, NEW w \in Wires, NEW r, NEW cut, NEW n, NEW k, NEW b, w <= wire,
           Extends(r, bridges[w]), Moves(w, r, cut, n, k, b)
    PROVE  StreamInv'
  <1>1. UNCHANGED <<outbox, resume, wire, c2s>> /\ Typed' = Typed
    BY DEF Moves, Typed
  <1>2. Stretch(outbox.buf, outbox.base)' /\ MessagesInPlace'
    BY <1>1 DEF StreamInv, MessagesInPlace, Stretch
  <1>3. bridges'[w] = b /\ \A v \in Wires \ {w} : bridges'[v] = bridges[v]
    BY DEF Moves, TypeOK, PeerTypes
  <1>4. ASSUME NEW v \in Wires
        PROVE  BridgeInPlace(bridges[v])' /\ (v > wire => bridges[v].write = <<>>)'
    <2>1. wire \in Nat /\ w \in Nat
      BY BoundsAssumption DEF TypeOK, PeerTypes, Wires
    <2>2. CASE v = w
      <3>1. BridgeInPlace(b)
        BY Remains
      <3> QED
        BY <1>1, <1>3, <2>1, <2>2, <3>1 DEF BridgeInPlace, Stretch, Start
    <2>3. CASE v # w
      BY <1>1, <1>3, <2>3 DEF StreamInv, BridgeInPlace, Stretch, Start
    <2> QED
      BY <2>2, <2>3
  <1>5. /\ bridges[wire].next \in Nat /\ bridges'[wire].next \in Nat
        /\ bridges[wire].next <= bridges'[wire].next
        /\ w = wire => bridges'[wire].next = r.next
    <2>1. wire \in Wires /\ bridges[wire].next \in Nat /\ bridges[w].next \in Nat
      BY BoundsAssumption DEF TypeOK, PeerTypes, BridgesBetween, BridgesDuring
    <2>2. r.next \in Nat /\ b.next = r.next /\ bridges[w].next <= r.next
      <3>1. r.next \in Nat
        BY Remains
      <3> QED
        BY <3>1 DEF Moves, Extends
    <2> QED
      BY <1>3, <2>1, <2>2
  <1>6. OffsetsOrdered'
    <2>1. resume.input \in Nat /\ \A f \in s2c : f.input_ack \in Nat
      BY BoundsAssumption DEF TypeOK, ViewportTypes, NetTypes, Frames
    <2>2. outbox.base <= resume.input /\ resume.input <= bridges'[wire].next
      BY <1>5, <2>1 DEF StreamInv, OffsetsOrdered
    <2>3. ASSUME NEW f \in s2c'
          PROVE  f.wire = wire /\ f.input_ack <= bridges'[wire].next
      <3>1. CASE f \in s2c
        BY <1>5, <2>1, <3>1 DEF StreamInv, OffsetsOrdered
      <3>2. CASE f \notin s2c
        <4>1. w = wire /\ f.wire = w /\ f.input_ack = r.next
          BY <2>3, <3>2 DEF Moves
        <4> QED
          BY <1>5, <4>1
      <3> QED
        BY <3>1, <3>2
    <2> QED
      BY <1>1, <2>2, <2>3 DEF OffsetsOrdered
  <1> QED
    BY <1>2, <1>4, <1>6 DEF StreamInv

LEMMA StreamInit == Init => StreamInv
  <1> SUFFICES ASSUME Init PROVE StreamInv
    OBVIOUS
  <1> USE BoundsAssumption DEF Init
  <1>1. Len(<<>>) = 0
    BY EmptySeq
  <1>2. Stretch(outbox.buf, outbox.base) /\ MessagesInPlace
    BY <1>1 DEF Stretch, MessagesInPlace
  <1>3. \A w \in Wires : bridges[w].next = 0 /\ bridges[w].write = <<>>
    BY DEF Bridge
  <1>4. Typed = 0
    BY <1>1 DEF Typed
  <1>5. \A w \in Wires : BridgeInPlace(bridges[w])
    BY <1>1, <1>3, <1>4 DEF BridgeInPlace, Stretch, Start
  <1>6. OffsetsOrdered
    BY <1>3 DEF OffsetsOrdered, Wires
  <1> QED
    BY <1>2, <1>3, <1>5, <1>6 DEF StreamInv

LEMMA StreamStep ==
    ASSUME TypeOK, StreamInv, [Next]_vars
    PROVE  StreamInv'
  <1>0. /\ outbox.base \in Nat /\ outbox.buf \in Seq(Bytes) /\ Len(outbox.buf) \in Nat
        /\ resume.input \in Nat /\ wire \in Wires /\ wire \in Nat
        /\ \A w \in Wires : w \in Nat /\ bridges[w].next \in Nat
    BY LenProperties, BoundsAssumption DEF TypeOK, ViewportTypes, PeerTypes, Wires, BridgesBetween,
       BridgesDuring
  <1>m. \A m \in c2s : m.base \in Nat /\ Len(m.data) \in Nat
    BY LenProperties, BoundsAssumption DEF TypeOK, NetTypes, Messages
  \* Steps that leave the bridges alone and do not shorten the typed stream.
  <1>k. ASSUME UNCHANGED <<bridges, wire>>, Typed <= Typed', Typed' \in Nat,
               Stretch(outbox.buf, outbox.base)', MessagesInPlace', OffsetsOrdered'
        PROVE  StreamInv'
    <2>1. Typed \in Nat
      BY <1>0 DEF Typed
    <2>2. ASSUME NEW w \in Wires
          PROVE  BridgeInPlace(bridges[w])' /\ (w > wire => bridges[w].write = <<>>)'
      <3>1. BridgeInPlace(bridges[w]) /\ (w > wire => bridges[w].write = <<>>)
        BY DEF StreamInv
      <3>2. bridges[w].next <= Typed'
        <4>1. bridges[w].next <= Typed /\ bridges[w].next \in Nat
          BY <1>0, <3>1 DEF BridgeInPlace
        <4> QED
          BY <1>k, <2>1, <4>1
      <3>3. bridges'[w] = bridges[w] /\ wire' = wire
        BY <1>k
      <3> QED
        BY <3>1, <3>2, <3>3 DEF BridgeInPlace, Stretch, Start
    <2> QED
      BY <1>k, <2>2 DEF StreamInv
  <1>1. CASE Push
    <2>1. Typed + 1 \in Bytes
      BY <1>0, <1>1, BoundsAssumption DEF Push, Typed, TypeOK, ViewportTypes, Bytes
    <2>2. outbox'.base = outbox.base /\ outbox'.buf = Append(outbox.buf, Typed + 1)
      BY <1>1 DEF Push, TypeOK, ViewportTypes
    <2>3. /\ Len(outbox'.buf) = Len(outbox.buf) + 1
          /\ \A i \in 1..Len(outbox.buf) : outbox'.buf[i] = outbox.buf[i]
          /\ outbox'.buf[Len(outbox.buf) + 1] = outbox.base + (Len(outbox.buf) + 1)
      <3>1. Typed + 1 = outbox.base + (Len(outbox.buf) + 1)
        BY <1>0 DEF Typed
      <3> QED
        BY <1>0, <2>1, <2>2, <3>1, AppendProperties
    <2>4. Typed' = Typed + 1 /\ Typed \in Nat
      BY <1>0, <2>2, <2>3 DEF Typed
    <2>5. ASSUME NEW i \in 1..Len(outbox'.buf)
          PROVE  outbox'.buf[i] = outbox'.base + i
      <3>1. i \in 1..Len(outbox.buf) \/ i = Len(outbox.buf) + 1
        BY <1>0, <2>3
      <3> QED
        BY <2>2, <2>3, <3>1 DEF StreamInv, Stretch
    <2>6. MessagesInPlace'
      BY <1>1, <1>m, <2>4 DEF Push, StreamInv, MessagesInPlace, Stretch, peer
    <2>7. OffsetsOrdered'
      BY <1>1, <2>2 DEF Push, StreamInv, OffsetsOrdered, peer
    <2> QED
      BY <1>1, <1>k, <2>4, <2>5, <2>6, <2>7 DEF Push, Stretch, peer
  <1>2. CASE SendMessage
    <2>1. UNCHANGED <<outbox, resume, wire, bridges, s2c>> /\ Typed' = Typed /\ Typed \in Nat
      BY <1>0, <1>2 DEF SendMessage, Typed, peer
    <2>2. MessagesInPlace'
      <3>1. ASSUME NEW m \in c2s'
            PROVE  m.wire <= wire /\ m.base + Len(m.data) <= Typed /\ Stretch(m.data, m.base)
        <4>1. CASE m \in c2s
          BY <4>1 DEF StreamInv, MessagesInPlace
        <4>2. CASE m \notin c2s
          <5>1. m.wire = wire /\ m.base = outbox.base /\ m.data = outbox.buf
            BY <1>2, <3>1, <4>2 DEF SendMessage
          <5>2. wire <= wire
            BY <1>0
          <5>3. Stretch(m.data, m.base)
            BY <5>1 DEF StreamInv
          <5>4. m.base + Len(m.data) <= Typed
            BY <1>0, <5>1 DEF Typed
          <5> QED
            BY <5>1, <5>2, <5>3, <5>4
        <4> QED
          BY <4>1, <4>2
      <3> QED
        BY <2>1, <3>1 DEF MessagesInPlace, Stretch
    <2>3. Stretch(outbox.buf, outbox.base)' /\ OffsetsOrdered'
      BY <2>1 DEF StreamInv, OffsetsOrdered, Stretch
    <2> QED
      BY <1>k, <2>1, <2>2, <2>3
  <1>3. CASE ReceiveFrame
    <2>0. PICK f \in s2c :
              /\ f.wire = wire
              /\ resume' = [input |-> Larger(resume.input, f.input_ack),
                            echo  |-> Larger(resume.echo, f.echo_ack)]
              /\ outbox' = AckOutbox(outbox, f.input_ack)
              /\ UNCHANGED <<wire, bridges, c2s, s2c>>
      BY <1>3 DEF ReceiveFrame, peer
    <2>1. f.input_ack \in 0..MaxTyped /\ f.input_ack \in Nat /\ f.input_ack <= bridges[wire].next
      BY BoundsAssumption DEF TypeOK, NetTypes, Frames, StreamInv, OffsetsOrdered
    <2>2. /\ outbox' \in [base : 0..MaxTyped, buf : Seq(Bytes)]
          /\ outbox'.base + Len(outbox'.buf) = outbox.base + Len(outbox.buf)
          /\ outbox'.base >= outbox.base
          /\ outbox'.base <= f.input_ack \/ outbox'.base = outbox.base
          /\ \A i \in 1..Len(outbox'.buf) : outbox'.buf[i] = outbox.buf[outbox'.base - outbox.base + i]
      <3>1. outbox \in [base : 0..MaxTyped, buf : Seq(Bytes)] /\ outbox.base + Len(outbox.buf) <= MaxTyped
        BY DEF TypeOK, ViewportTypes, Typed
      <3>2. LET p == AckOutbox(outbox, f.input_ack)
            IN  /\ p \in [base : 0..MaxTyped, buf : Seq(Bytes)]
                /\ p.base + Len(p.buf) = outbox.base + Len(outbox.buf)
                /\ p.base >= outbox.base /\ (p.base <= f.input_ack \/ p.base = outbox.base)
                /\ \A i \in 1..Len(p.buf) : p.buf[i] = outbox.buf[p.base - outbox.base + i]
        BY <2>1, <3>1, AckOutboxKeeps
      <3> QED
        BY <2>0, <3>2
    <2>3. outbox'.base \in Nat /\ Len(outbox'.buf) \in Nat
      BY <2>2, LenProperties, BoundsAssumption
    <2>4. Typed' = Typed /\ Typed \in Nat
      BY <1>0, <2>2 DEF Typed
    <2>5. ASSUME NEW i \in 1..Len(outbox'.buf)
          PROVE  outbox'.buf[i] = outbox'.base + i
      <3>1. outbox'.base - outbox.base + i \in 1..Len(outbox.buf) /\ i \in Nat
        BY <1>0, <2>2, <2>3
      <3>2. outbox.buf[outbox'.base - outbox.base + i] = outbox.base + (outbox'.base - outbox.base + i)
        BY <3>1 DEF StreamInv, Stretch
      <3>3. outbox'.buf[i] = outbox.buf[outbox'.base - outbox.base + i]
        BY <2>2
      <3>4. outbox.base + (outbox'.base - outbox.base + i) = outbox'.base + i
        BY <1>0, <2>3, <3>1
      <3> QED
        BY <3>2, <3>3, <3>4
    <2>6. MessagesInPlace'
      BY <2>0, <2>4 DEF StreamInv, MessagesInPlace, Stretch
    <2>7. resume'.input = Larger(resume.input, f.input_ack)
      BY <2>0
    <2>8. outbox'.base <= resume'.input /\ resume'.input <= bridges[wire].next
      <3>1. outbox.base <= resume.input /\ resume.input <= bridges[wire].next
        BY DEF StreamInv, OffsetsOrdered
      <3>2. resume'.input \in {resume.input, f.input_ack}
            /\ f.input_ack <= resume'.input /\ resume.input <= resume'.input
        BY <1>0, <2>1, <2>7 DEF Larger
      <3>3. resume'.input <= bridges[wire].next
        BY <2>1, <3>1, <3>2
      <3>4. outbox'.base <= resume'.input
        BY <1>0, <2>1, <2>2, <2>3, <3>1, <3>2
      <3> QED
        BY <3>3, <3>4
    <2>9. OffsetsOrdered'
      BY <2>0, <2>8 DEF StreamInv, OffsetsOrdered
    <2> QED
      BY <2>0, <1>k, <2>4, <2>5, <2>6, <2>9 DEF Stretch
  <1>4. CASE (\E m \in c2s : PeerReceives(m)) \/ (\E w \in 1..wire : PeerTurns(w))
    BY <1>4, TurnsExtend, MovesStream DEF Turned
  <1>5. CASE Tick \/ LoseFrame \/ LoseMessage \/ UNCHANGED vars
    <2>1. UNCHANGED <<outbox, resume, wire, bridges>> /\ c2s' \subseteq c2s /\ s2c' \subseteq s2c
      BY <1>5 DEF Tick, LoseFrame, LoseMessage, vars, peer
    <2>2. Typed' = Typed /\ Typed \in Nat
      BY <1>0, <2>1 DEF Typed
    <2>3. MessagesInPlace' /\ Stretch(outbox.buf, outbox.base)' /\ OffsetsOrdered'
      BY <2>1, <2>2 DEF StreamInv, MessagesInPlace, Stretch, OffsetsOrdered
    <2> QED
      BY <1>k, <2>1, <2>2, <2>3
  <1>6. CASE Reconnect
    <2>1. /\ UNCHANGED <<outbox, resume, c2s>> /\ Typed' = Typed /\ s2c' = {} /\ wire' = wire + 1
          /\ wire + 1 \in Wires
      BY <1>0, <1>6, BoundsAssumption DEF Reconnect, Typed, Wires
    <2>2. /\ bridges'[wire + 1] = Bridge(resume.input, resume.echo)
          /\ \A v \in Wires \ {wire + 1} : bridges'[v] = bridges[v]
      BY <1>6, <2>1 DEF Reconnect, TypeOK, PeerTypes
    <2>3. bridges'[wire + 1].next = resume.input /\ bridges'[wire + 1].write = <<>>
      BY <2>2 DEF Bridge
    <2>4. resume.input <= Typed
      <3>1. bridges[wire].next <= Typed /\ resume.input <= bridges[wire].next
        BY <1>0 DEF StreamInv, BridgeInPlace, OffsetsOrdered
      <3> QED
        BY <1>0, <3>1 DEF Typed
    <2>5. ASSUME NEW v \in Wires
          PROVE  BridgeInPlace(bridges[v])' /\ (v > wire => bridges[v].write = <<>>)'
      <3>1. CASE v = wire + 1
        <4>1. Len(<<>>) = 0
          BY EmptySeq
        <4> QED
          BY <1>0, <2>1, <2>3, <2>4, <3>1, <4>1 DEF BridgeInPlace, Stretch, Start
      <3>2. CASE v # wire + 1
        <4>1. bridges'[v] = bridges[v] /\ Typed' = Typed /\ wire' = wire + 1
          BY <2>1, <2>2, <3>2
        <4>2. BridgeInPlace(bridges[v]) /\ (v > wire => bridges[v].write = <<>>)
          BY DEF StreamInv
        <4>3. BridgeInPlace(bridges[v])'
          BY <4>1, <4>2 DEF BridgeInPlace, Stretch, Start
        <4>4. v > wire' => v > wire
          <5>1. wire \in Nat /\ v \in Nat /\ wire' = wire + 1
            BY <1>0, <4>1
          <5> QED
            BY <5>1
        <4> QED
          BY <4>1, <4>2, <4>3, <4>4
      <3> QED
        BY <3>1, <3>2
    <2>6. MessagesInPlace'
      <3>1. \A m \in c2s : m.wire \in Nat
        BY BoundsAssumption DEF TypeOK, NetTypes, Messages, Wires
      <3> QED
        BY <1>0, <2>1, <3>1 DEF StreamInv, MessagesInPlace, Stretch
    <2>7. Stretch(outbox.buf, outbox.base)' /\ OffsetsOrdered'
      BY <1>0, <2>1, <2>3 DEF StreamInv, Stretch, OffsetsOrdered
    <2> QED
      BY <2>5, <2>6, <2>7 DEF StreamInv
  <1> QED
    BY <1>1, <1>2, <1>3, <1>4, <1>5, <1>6 DEF Next

LEMMA StreamInvariant == Spec => [](TypeOK /\ StreamInv)
  BY TypeInit, TypeStep, StreamInit, StreamStep, PTL DEF Spec

\* RFC 0015: the tail the viewport resends after a reconnect is never a gap to
\* the bridge resumed from the cursor, over any number of wires.
THEOREM ResumeCorrect == Spec => []NoResumeGap
  <1>1. TypeOK /\ StreamInv => NoResumeGap
    BY BoundsAssumption DEF TypeOK, ViewportTypes, PeerTypes, BridgesBetween, BridgesDuring,
       StreamInv, OffsetsOrdered, NoResumeGap
  <1> QED
    BY <1>1, StreamInvariant, PTL

-----------------------------------------------------------------------------
(* What becomes of an acknowledged byte.                                   *)

LEMMA PtyGrows ==
    ASSUME TypeOK, NEW w \in Wires, NEW r, NEW cut, NEW n, NEW k, NEW b, Moves(w, r, cut, n, k, b)
    PROVE  /\ k \in Nat /\ Len(pty) \in Nat /\ Len(pty') = Len(pty) + k
           /\ DOMAIN pty = 1..Len(pty) /\ DOMAIN pty' = 1..Len(pty')
           /\ \A i \in 1..Len(pty) : pty'[i] = pty[i]
           /\ \A i \in 1..k : pty'[Len(pty) + i].byte = Leg(r, cut)[i]
           /\ \A i \in 1..k : pty'[Len(pty) + i].at = now
  <1> DEFINE Byte == [byte : Bytes, at : 0..MaxTime]
             leg == Leg(r, cut)
             g == Given(leg, k)
  <1>1. leg \in Seq(Bytes) /\ k \in 0..Len(leg) /\ k \in Nat /\ Len(leg) \in Nat
    BY LegBytes DEF Moves
  <1>2. \A i \in 1..k : [byte |-> leg[i], at |-> now] \in Byte
    BY <1>1, ElementOfSeq DEF TypeOK, ClockTypes
  <1>3. g \in Seq(Byte) /\ g \in [1..k -> Byte]
    BY <1>1, <1>2, IsASeq DEF Given
  <1>3a. \A i \in 1..k : g[i].byte = leg[i] /\ g[i].at = now
    BY DEF Given
  <1>4. Len(g) = k
    BY <1>1, <1>3, LenProperties
  <1>5. pty \in Seq(Byte) /\ Len(pty) \in Nat /\ DOMAIN pty = 1..Len(pty) /\ pty' = pty \o g
    BY LenProperties DEF TypeOK, PeerTypes, Moves
  <1> HIDE DEF g, leg
  <1>6. /\ pty' \in Seq(Byte) /\ Len(pty') = Len(pty) + k
        /\ \A i \in 1..Len(pty) + k : pty'[i] = IF i <= Len(pty) THEN pty[i] ELSE g[i - Len(pty)]
    BY <1>3, <1>4, <1>5, ConcatProperties
  <1>7. \A i \in 1..Len(pty) : pty'[i] = pty[i]
    BY <1>1, <1>5, <1>6
  <1>8. ASSUME NEW i \in 1..k
        PROVE  pty'[Len(pty) + i].byte = leg[i] /\ pty'[Len(pty) + i].at = now
    <2>1. Len(pty) + i \in 1..Len(pty) + k /\ ~(Len(pty) + i <= Len(pty)) /\ Len(pty) + i - Len(pty) = i
      BY <1>1, <1>5
    <2>2. pty'[Len(pty) + i] = g[Len(pty) + i - Len(pty)]
      BY <1>6, <2>1
    <2> QED
      BY <1>3a, <2>1, <2>2
  <1>9. DOMAIN pty' = 1..Len(pty')
    BY <1>6, LenProperties
  <1> QED
    BY <1>1, <1>5, <1>6, <1>7, <1>8, <1>9 DEF leg


Held(x) == Read(x) \/ Buffered(x) \/ x \in dropped

\* Whatever a bridge accepted is at the shell, in a bridge's buffer, or thrown
\* away.
AllHeld == \A w \in Wires : \A x \in 1..bridges[w].next : Held(x)

\* The turn accounts for every byte it had in hand.
LEMMA TurnAccounts ==
    ASSUME TypeOK, NEW w \in Wires, NEW r, NEW cut, NEW n, NEW k, NEW b,
           Extends(r, bridges[w]), Moves(w, r, cut, n, k, b), NEW i \in 1..Len(r.write)
    PROVE  Held(r.write[i])'
  <1> DEFINE leg == Leg(r, cut)
  <1>1. /\ Len(r.write) \in Nat /\ DOMAIN r.write = 1..Len(r.write) /\ cut \in BOOLEAN
        /\ k \in 0..n /\ k \in Nat /\ n \in Nat
        /\ dropped' = dropped \cup Thrown(r, cut, n, k)
    <2>1. r.write \in Seq(Bytes) /\ Len(r.write) \in Nat /\ DOMAIN r.write = 1..Len(r.write)
      BY LenProperties DEF Moves, BridgesDuring
    <2>2. n \in Nat /\ k \in 0..n /\ cut \in BOOLEAN
      BY LegBytes DEF Moves
    <2> QED
      BY <2>1, <2>2 DEF Moves
  <1>2. CASE cut
    <2>1. r.write[i] \in ToSet(r.write)
      BY <1>1 DEF ToSet
    <2> QED
      BY <1>1, <1>2, <2>1 DEF Thrown, Held
  <1>3. CASE ~cut
    <2>1. leg = r.write
      BY <1>3 DEF Leg
    <2>2. CASE i <= k
      <3>1. /\ i \in 1..k /\ Len(pty) \in Nat /\ Len(pty') = Len(pty) + k /\ DOMAIN pty' = 1..Len(pty')
            /\ pty'[Len(pty) + i].byte = leg[i]
        BY <1>1, <2>2, PtyGrows
      <3>2. Len(pty) + i \in DOMAIN pty'
        BY <1>1, <3>1
      <3> QED
        BY <2>1, <3>1, <3>2 DEF Read, Held
    <2>3. CASE k < i /\ i <= n
      <3>1. i \in k + 1 .. n
        BY <1>1, <2>3
      <3>2. leg[i] \in {leg[j] : j \in k + 1 .. n}
        BY <3>1
      <3> QED
        BY <1>1, <2>1, <3>2 DEF Thrown, Held
    <2>4. CASE n < i
      <3>1. /\ Len(b.write) = Len(leg) - n /\ DOMAIN b.write = 1..Len(b.write)
            /\ \A j \in 1..Len(b.write) : b.write[j] = leg[n + j]
        <4>1. b.write \in Seq(Bytes)
          BY DEF Moves, BridgesBetween, BridgesDuring
        <4> QED
          BY <4>1, Remains, LenProperties
      <3>2. i - n \in 1..Len(b.write) /\ n + (i - n) = i
        BY <1>1, <2>1, <2>4, <3>1
      <3>3. bridges'[w] = b
        BY DEF Moves, TypeOK, PeerTypes
      <3>4. i - n \in DOMAIN bridges'[w].write /\ bridges'[w].write[i - n] = r.write[i]
        BY <2>1, <3>1, <3>2, <3>3
      <3> QED
        BY <3>4 DEF Buffered, Held
    <2> QED
      BY <1>1, <2>2, <2>3, <2>4
  <1> QED
    BY <1>1, <1>2, <1>3

LEMMA MovesHold ==
    ASSUME TypeOK, StreamInv, AllHeld, NEW w \in Wires, NEW r, NEW cut, NEW n, NEW k, NEW b,
           w <= wire, Extends(r, bridges[w]), Moves(w, r, cut, n, k, b)
    PROVE  AllHeld'
  <1>1. bridges'[w] = b /\ \A v \in Wires \ {w} : bridges'[v] = bridges[v]
    BY DEF Moves, TypeOK, PeerTypes
  <1>2. /\ Len(bridges[w].write) \in Nat /\ DOMAIN bridges[w].write = 1..Len(bridges[w].write)
        /\ Len(r.write) \in Nat /\ r.next \in Nat /\ Start(r) \in Nat
    <2>1. bridges[w].write \in Seq(Bytes) /\ r.write \in Seq(Bytes)
      BY DEF TypeOK, PeerTypes, BridgesBetween, BridgesDuring, Moves
    <2>2. Len(bridges[w].write) \in Nat /\ DOMAIN bridges[w].write = 1..Len(bridges[w].write)
          /\ Len(r.write) \in Nat /\ r.next \in Nat
      BY <2>1, LenProperties, Remains
    <2> QED
      BY <2>2 DEF Extends, BridgeInPlace, Start
  <1>3. /\ BridgeInPlace(r) /\ BridgeInPlace(bridges[w]) /\ Start(r) = Start(bridges[w])
        /\ Len(bridges[w].write) <= Len(r.write) /\ bridges[w].next \in Nat
    BY BoundsAssumption DEF Extends, StreamInv, TypeOK, PeerTypes, BridgesBetween, BridgesDuring
  <1>4. \A i \in 1..Len(r.write) : Held(r.write[i])'
    BY TurnAccounts
  <1>5. ASSUME NEW x, Held(x)
        PROVE  Held(x)'
    <2>1. CASE Read(x)
      <3>1. /\ Len(pty) \in Nat /\ Len(pty') = Len(pty) + k /\ k \in Nat
            /\ DOMAIN pty = 1..Len(pty) /\ DOMAIN pty' = 1..Len(pty')
            /\ \A i \in 1..Len(pty) : pty'[i] = pty[i]
        BY PtyGrows
      <3>2. PICK i \in DOMAIN pty : pty[i].byte = x
        BY <2>1 DEF Read
      <3>3. i \in DOMAIN pty' /\ pty'[i].byte = x
        BY <3>1, <3>2
      <3> QED
        BY <3>3 DEF Read, Held
    <2>2. ASSUME NEW v \in Wires, NEW i \in DOMAIN bridges[v].write, bridges[v].write[i] = x
          PROVE  Held(x)'
      <3>1. CASE v = w
        <4>1. i \in 1..Len(bridges[w].write) /\ i \in 1..Len(r.write)
          BY <1>2, <1>3, <2>2, <3>1
        <4>2. x = r.write[i]
          BY <1>3, <2>2, <3>1, <4>1 DEF BridgeInPlace, Stretch
        <4> QED
          BY <1>4, <4>1, <4>2
      <3>2. CASE v # w
        <4>1. bridges'[v] = bridges[v]
          BY <1>1, <3>2
        <4> QED
          BY <2>2, <4>1 DEF Buffered, Held
      <3> QED
        BY <3>1, <3>2
    <2>3. CASE x \in dropped
      BY <2>3 DEF Moves, Held
    <2> QED
      BY <1>5, <2>1, <2>2, <2>3 DEF Buffered, Held
  <1>6. ASSUME NEW v \in Wires, NEW x \in 1..bridges'[v].next
        PROVE  Held(x)'
    <2>1. CASE v # w \/ x <= bridges[w].next
      <3>1. \E u \in Wires : x \in 1..bridges[u].next
        BY <1>1, <1>3, <2>1
      <3> QED
        BY <1>5, <3>1 DEF AllHeld
    <2>2. CASE v = w /\ ~(x <= bridges[w].next)
      <3>1. x \in 1..r.next
        BY <1>1, <2>2 DEF Moves
      <3>2. x - Start(r) \in 1..Len(r.write)
        <4>1. Start(bridges[w]) <= bridges[w].next
          BY <1>2, <1>3 DEF Start
        <4>2. r.next = Start(r) + Len(r.write)
          BY <1>2 DEF Start
        <4>3. x \in Nat /\ bridges[w].next < x /\ x <= r.next
          BY <1>2, <1>3, <2>2, <3>1
        <4>4. Start(r) <= bridges[w].next
          BY <1>3, <4>1
        <4> HIDE DEF Start
        <4> QED
          BY <1>2, <1>3, <4>2, <4>3, <4>4
      <3>3. r.write[x - Start(r)] = x
        <4>1. r.write[x - Start(r)] = Start(r) + (x - Start(r))
          BY <1>3, <3>2 DEF BridgeInPlace, Stretch
        <4> QED
          BY <1>2, <3>1, <4>1
      <3> QED
        BY <1>4, <3>2, <3>3
    <2> QED
      BY <2>1, <2>2
  <1> QED
    BY <1>6 DEF AllHeld

LEMMA HeldStep ==
    ASSUME TypeOK, StreamInv, AllHeld, [Next]_vars
    PROVE  AllHeld'
  <1>1. CASE (\E m \in c2s : PeerReceives(m)) \/ (\E w \in 1..wire : PeerTurns(w))
    BY <1>1, TurnsExtend, MovesHold DEF Turned
  <1>2. CASE UNCHANGED <<bridges, pty, dropped>>
    BY <1>2 DEF AllHeld, Held, Read, Buffered
  <1>3. CASE Reconnect
    <2>1. /\ wire \in Wires /\ wire + 1 \in Wires /\ wire + 1 > wire /\ wire \in Nat
          /\ pty' = pty /\ dropped' = dropped
          /\ bridges'[wire + 1] = Bridge(resume.input, resume.echo)
          /\ \A v \in Wires \ {wire + 1} : bridges'[v] = bridges[v]
      BY <1>3, BoundsAssumption DEF Reconnect, TypeOK, PeerTypes, Wires
    <2>2. bridges[wire + 1].write = <<>>
      BY <2>1 DEF StreamInv
    <2>3. ASSUME NEW x, Held(x)
          PROVE  Held(x)'
      <3>1. Read(x) => Read(x)'
        BY <2>1 DEF Read
      <3>2. Buffered(x) => Buffered(x)'
        BY <2>1, <2>2, EmptySeq DEF Buffered
      <3> QED
        BY <2>1, <2>3, <3>1, <3>2 DEF Held
    <2>4. ASSUME NEW v \in Wires, NEW x \in 1..bridges'[v].next
          PROVE  \E u \in Wires : x \in 1..bridges[u].next
      <3>1. CASE v # wire + 1
        BY <2>1, <2>4, <3>1
      <3>2. CASE v = wire + 1
        <4>1. bridges'[v].next = resume.input
          BY <2>1, <3>2 DEF Bridge
        <4>2. resume.input <= bridges[wire].next /\ bridges[wire].next \in Nat /\ resume.input \in Nat
          BY <2>1, BoundsAssumption DEF StreamInv, OffsetsOrdered, TypeOK, ViewportTypes, PeerTypes,
             BridgesBetween, BridgesDuring
        <4> QED
          BY <2>1, <2>4, <4>1, <4>2
      <3> QED
        BY <3>1, <3>2
    <2> QED
      BY <2>3, <2>4 DEF AllHeld
  <1>4. ~Reconnect /\ Next => \/ (\E m \in c2s : PeerReceives(m)) \/ (\E w \in 1..wire : PeerTurns(w))
                              \/ UNCHANGED <<bridges, pty, dropped>>
    BY DEF Next, Push, SendMessage, ReceiveFrame, Tick, LoseFrame, LoseMessage, peer
  <1> QED
    BY <1>1, <1>2, <1>3, <1>4 DEF vars, peer

LEMMA HeldInvariant == Spec => [](TypeOK /\ StreamInv /\ AllHeld)
  <1>1. Init => AllHeld
    BY DEF Init, Bridge, AllHeld
  <1>2. TypeOK /\ StreamInv /\ AllHeld /\ [Next]_vars => AllHeld'
    BY HeldStep
  <1> QED
    BY <1>1, <1>2, StreamInvariant, PTL DEF Spec

LEMMA LeftOutboxHeld ==
    ASSUME TypeOK, StreamInv, AllHeld, NEW x \in 1..outbox.base
    PROVE  Held(x)
  <1>1. /\ wire \in Wires /\ bridges[wire].next \in Nat /\ outbox.base \in Nat /\ resume.input \in Nat
        /\ outbox.base <= resume.input /\ resume.input <= bridges[wire].next
    BY BoundsAssumption DEF TypeOK, ViewportTypes, PeerTypes, BridgesBetween, BridgesDuring,
       StreamInv, OffsetsOrdered
  <1>2. x \in 1..bridges[wire].next
    BY <1>1
  <1> QED
    BY <1>1, <1>2 DEF AllHeld

\* Whatever the wires, the re-homes, the socket and the pty do, a keystroke
\* that left the outbox is with the shell, in a bridge's buffer, or among those
\* a re-home or a stalled pty threw away.
THEOREM AckedCorrect == Spec => []AckedOrDropped
  <1>1. TypeOK /\ StreamInv /\ AllHeld => AckedOrDropped
    BY LeftOutboxHeld DEF AckedOrDropped, Held
  <1> QED
    BY <1>1, HeldInvariant, PTL

\* So no keystroke is forgotten: it is in the outbox, where the bridge in use
\* takes it, or with a shell or in a buffer, or it was thrown away.
THEOREM KeptCorrect == Spec => []InputKept
  <1>1. NoResumeGap /\ AckedOrDropped => InputKept
    BY DEF InputKept
  <1> QED
    BY <1>1, ResumeCorrect, AckedCorrect, PTL

NothingDropped == switches = 0 /\ dropped = {}

\* RFC 0008's "input_ack is the input it has bridged to the daemon" holds of a
\* channel that is never re-homed, while the pty takes what it is given.
THEOREM AckedUnlessSwitched ==
    ASSUME MaxSwitches = 0, ~PtyStall
    PROVE  Spec => []AckedInHand
  <1>1. Init => NothingDropped
    BY DEF Init, NothingDropped
  <1>2. ASSUME TypeOK, StreamInv, NothingDropped, [Next]_vars
        PROVE  NothingDropped'
    <2>1. CASE (\E m \in c2s : PeerReceives(m)) \/ (\E w \in 1..wire : PeerTurns(w))
      <3>1. PICK w \in Wires, r \in BridgesDuring : Turned(w, r)
        BY <1>2, <2>1, TurnsExtend
      <3>2. PICK cut \in BOOLEAN, n \in Nat, k \in Nat, b \in BridgesBetween : Moves(w, r, cut, n, k, b)
        BY <3>1 DEF Turned
      <3>3. ~cut /\ k = n /\ switches' = switches
        BY <1>2, <3>2 DEF Moves, NothingDropped
      <3>4. {Leg(r, cut)[i] : i \in k + 1 .. n} = {}
        BY <3>3
      <3>5. dropped' = dropped
        BY <3>2, <3>3, <3>4 DEF Moves, Thrown
      <3> QED
        BY <1>2, <3>3, <3>5 DEF NothingDropped
    <2>2. CASE UNCHANGED <<switches, dropped>>
      BY <1>2, <2>2 DEF NothingDropped
    <2> QED
      BY <1>2, <2>1, <2>2
      DEF Next, Push, SendMessage, ReceiveFrame, Tick, Reconnect, LoseFrame, LoseMessage, peer, vars
  <1>3. TypeOK /\ StreamInv /\ AllHeld /\ NothingDropped => AckedInHand
    BY LeftOutboxHeld DEF AckedInHand, Held, NothingDropped
  <1> QED
    BY <1>1, <1>2, <1>3, HeldInvariant, PTL DEF Spec

-----------------------------------------------------------------------------
(* One wire.  The socket is in order, so the shells have the bytes the      *)
(* bridge passed on, in their order, and the rest was thrown away.          *)

Count(n) == [i \in 1..n |-> i]

LEMMA CountGrows ==
    ASSUME NEW n \in Nat
    PROVE  Count(n + 1) = Append(Count(n), n + 1)
  <1>1. Count(n) \in Seq(Nat) /\ Count(n + 1) \in Seq(Nat)
    BY IsASeq DEF Count
  <1>2. Len(Count(n)) = n /\ Len(Count(n + 1)) = n + 1
    BY <1>1, LenProperties DEF Count
  <1>3. /\ Append(Count(n), n + 1) \in Seq(Nat) /\ Len(Append(Count(n), n + 1)) = n + 1
        /\ \A i \in 1..n : Append(Count(n), n + 1)[i] = Count(n)[i]
        /\ Append(Count(n), n + 1)[n + 1] = n + 1
    BY <1>1, <1>2, AppendProperties
  <1>4. ASSUME NEW i \in 1..n + 1
        PROVE  Count(n + 1)[i] = Append(Count(n), n + 1)[i]
    <2>1. CASE i \in 1..n
      BY <1>3, <2>1 DEF Count
    <2>2. CASE i = n + 1
      BY <1>3, <2>2 DEF Count
    <2>3. i \in 1..n \/ i = n + 1
      OBVIOUS
    <2> QED
      BY <2>1, <2>2, <2>3
  <1> QED
    BY <1>1, <1>2, <1>3, <1>4, SeqEqual

LEMMA CountPart ==
    ASSUME NEW n \in Nat, NEW a \in Nat, NEW k \in Nat, a + k <= n
    PROVE  LET p == SubSeq(Count(n), a + 1, a + k)
           IN  p \in Seq(Nat) /\ Len(p) = k /\ \A i \in 1..k : p[i] = a + i
  <1> DEFINE p == SubSeq(Count(n), a + 1, a + k)
  <1>1. a + 1 \in Int /\ a + k \in Int /\ \A i \in a + 1 .. a + k : Count(n)[i] \in Nat
    BY DEF Count
  <1>2. /\ p \in Seq(Nat)
        /\ Len(p) = IF a + 1 <= a + k THEN a + k - (a + 1) + 1 ELSE 0
        /\ \A i \in 1 .. a + k - (a + 1) + 1 : p[i] = Count(n)[a + 1 + i - 1]
    BY <1>1, SubSeqProperties
  <1>3. Len(p) = k
    BY <1>2
  <1>4. ASSUME NEW i \in 1..k
        PROVE  p[i] = a + i
    <2>1. a + 1 + i - 1 = a + i /\ a + i \in 1..n
      OBVIOUS
    <2>2. p[i] = Count(n)[a + 1 + i - 1]
      BY <1>2
    <2> QED
      BY <2>1, <2>2 DEF Count
  <1> QED
    BY <1>2, <1>3, <1>4

\* A turn deals with a prefix of the buffer: its first k bytes are for the
\* shell, and what it throws away is the rest of the prefix.
LEMMA Passed ==
    ASSUME TypeOK, NEW w \in Wires, NEW r, NEW cut, NEW n, NEW k, NEW b,
           Extends(r, bridges[w]), Moves(w, r, cut, n, k, b)
    PROVE  \E d \in k..Len(r.write) :
               /\ Start(b) = Start(r) + d
               /\ Thrown(r, cut, n, k) = {r.write[i] : i \in k + 1 .. d}
               /\ \A i \in 1..k : Leg(r, cut)[i] = r.write[i]
  <1>1. /\ r.write \in Seq(Bytes) /\ Len(r.write) \in Nat /\ DOMAIN r.write = 1..Len(r.write)
        /\ cut \in BOOLEAN /\ r.next \in Nat
    BY LenProperties, BoundsAssumption DEF Moves, BridgesDuring
  <1>2. /\ Len(Leg(r, cut)) \in Nat /\ n \in 0..Len(Leg(r, cut)) /\ k \in 0..n
        /\ cut => Len(Leg(r, cut)) = 0 /\ From(r, cut) = r.next
        /\ ~cut => Leg(r, cut) = r.write /\ From(r, cut) = Start(r)
        /\ Start(b) = From(r, cut) + n
    <2>1. k \in 0..n
      BY DEF Moves
    <2> QED
      BY <2>1, Remains
  <1>3. CASE cut
    <2>1. n = 0 /\ k = 0 /\ From(r, cut) = r.next
      <3>1. Len(Leg(r, cut)) = 0 /\ From(r, cut) = r.next
        BY <1>2, <1>3
      <3>2. n \in 0..0
        BY <1>2, <3>1
      <3> QED
        BY <1>2, <3>1, <3>2
    <2>2. {Leg(r, cut)[i] : i \in k + 1 .. n} = {}
      BY <2>1
    <2>3. Thrown(r, cut, n, k) = {r.write[i] : i \in k + 1 .. Len(r.write)}
      BY <1>1, <1>3, <2>1, <2>2 DEF Thrown, ToSet
    <2>4. Start(b) = Start(r) + Len(r.write)
      BY <1>1, <1>2, <2>1 DEF Start
    <2> QED
      BY <1>1, <2>1, <2>3, <2>4
  <1>4. CASE ~cut
    <2>1. Thrown(r, cut, n, k) = {r.write[i] : i \in k + 1 .. n}
      BY <1>2, <1>4 DEF Thrown
    <2> QED
      BY <1>2, <1>4, <2>1
  <1> QED
    BY <1>1, <1>3, <1>4

\* Only the keyboard lengthens the typed stream.
LEMMA TypedMoves ==
    ASSUME TypeOK, [Next]_vars
    PROVE  /\ Typed \in Nat
           /\ \/ Push /\ Typed + 1 \in Bytes /\ Typed' = Typed + 1 /\ peer' = peer
              \/ Typed' = Typed
  <1>0. /\ outbox.base \in Nat /\ outbox.buf \in Seq(Bytes) /\ Len(outbox.buf) \in Nat
        /\ Typed <= MaxTyped /\ MaxTyped \in Nat /\ Typed \in Nat
    BY LenProperties, BoundsAssumption DEF TypeOK, ViewportTypes, Typed
  <1>1. CASE Push
    <2>1. Typed + 1 \in Bytes
      BY <1>0, <1>1 DEF Push, Bytes
    <2>2. Len(Append(outbox.buf, Typed + 1)) = Len(outbox.buf) + 1
      BY <1>0, <2>1, AppendProperties
    <2>3. outbox'.base = outbox.base /\ outbox'.buf = Append(outbox.buf, Typed + 1) /\ peer' = peer
      BY <1>1 DEF Push, TypeOK, ViewportTypes
    <2>4. Typed' = Typed + 1
      BY <1>0, <2>2, <2>3 DEF Typed
    <2> QED
      BY <1>0, <1>1, <2>1, <2>3, <2>4
  <1>2. CASE ReceiveFrame
    <2>1. PICK f \in s2c : outbox' = AckOutbox(outbox, f.input_ack)
      BY <1>2 DEF ReceiveFrame
    <2>2. f.input_ack \in 0..MaxTyped
      BY DEF TypeOK, NetTypes, Frames
    <2>3. outbox'.base + Len(outbox'.buf) = outbox.base + Len(outbox.buf)
      BY <1>0, <2>1, <2>2, AckOutboxKeeps DEF TypeOK, ViewportTypes, Typed
    <2> QED
      BY <1>0, <2>3 DEF Typed
  <1>3. CASE UNCHANGED outbox
    BY <1>0, <1>3 DEF Typed
  <1> QED
    BY <1>1, <1>2, <1>3 DEF Next, SendMessage, PeerReceives, PeerTurns, Tick, Reconnect,
       LoseFrame, LoseMessage, vars

At == Start(bridges[1])

LEMMA TurnDelivers ==
    ASSUME MaxWires = 1, TypeOK, NEW w \in Wires, NEW r, NEW cut, NEW n, NEW k, NEW b,
           BridgeInPlace(bridges[w]), Extends(r, bridges[w]), Moves(w, r, cut, n, k, b)
    PROVE  \/ Stream!Deliver
           \/ UNCHANGED <<Count(Typed), At, PtyBytes, dropped>>
  <1>1. /\ w = 1 /\ bridges'[1] = b /\ Typed' = Typed /\ Typed \in Nat
        /\ pty \in Seq([byte : Bytes, at : 0..MaxTime])
    <2>1. w = 1 /\ 1 \in Wires
      BY DEF Wires
    <2>2. Len(outbox.buf) \in Nat /\ outbox.base \in Nat
      BY LenProperties, BoundsAssumption DEF TypeOK, ViewportTypes
    <2> QED
      BY <2>1, <2>2 DEF Moves, TypeOK, PeerTypes, Typed
  <1>2. PICK d \in k..Len(r.write) :
            /\ Start(b) = Start(r) + d
            /\ Thrown(r, cut, n, k) = {r.write[i] : i \in k + 1 .. d}
            /\ \A i \in 1..k : Leg(r, cut)[i] = r.write[i]
    BY Passed
  <1>3. /\ k \in Nat /\ Len(pty) \in Nat /\ Len(pty') = Len(pty) + k
        /\ DOMAIN pty = 1..Len(pty) /\ DOMAIN pty' = 1..Len(pty')
        /\ \A i \in 1..Len(pty) : pty'[i] = pty[i]
        /\ \A i \in 1..k : pty'[Len(pty) + i].byte = Leg(r, cut)[i]
    BY PtyGrows
  <1>4. /\ Len(r.write) \in Nat /\ r.next \in Nat /\ r.next <= Typed /\ At = Start(r) /\ At \in Nat
        /\ At + Len(r.write) = r.next
        /\ \A i \in 1..Len(r.write) : r.write[i] = At + i
    <2>1. r.write \in Seq(Bytes) /\ Len(r.write) \in Nat /\ r.next \in Nat
      BY LenProperties, BoundsAssumption DEF Moves, BridgesDuring
    <2> QED
      BY <1>1, <2>1 DEF Extends, BridgeInPlace, Stretch, Start, At
  <1>5. At' = At + d
    <2>1. At' = Start(b)
      BY <1>1 DEF At, Start
    <2> QED
      BY <1>2, <1>4, <2>1
  <1>6. d \in Nat /\ k <= d /\ d <= Len(r.write) /\ At + d <= Typed /\ At + k <= Typed
    BY <1>1, <1>2, <1>3, <1>4
  <1> HIDE DEF At
  <1>7. dropped' = dropped \cup {Count(Typed)[i] : i \in At + k + 1 .. At + d}
    <2>1. \A i \in k + 1 .. d : r.write[i] = At + i /\ At + i \in At + k + 1 .. At + d
      BY <1>3, <1>4, <1>6
    <2>2. \A j \in At + k + 1 .. At + d : j - At \in k + 1 .. d /\ At + (j - At) = j
                                          /\ Count(Typed)[j] = j
      BY <1>1, <1>3, <1>4, <1>6 DEF Count
    <2>3. {r.write[i] : i \in k + 1 .. d} \subseteq {Count(Typed)[i] : i \in At + k + 1 .. At + d}
      BY <2>1, <2>2
    <2>4. {Count(Typed)[i] : i \in At + k + 1 .. At + d} \subseteq {r.write[i] : i \in k + 1 .. d}
      <3>1. ASSUME NEW j \in At + k + 1 .. At + d
            PROVE  Count(Typed)[j] \in {r.write[i] : i \in k + 1 .. d}
        <4>1. r.write[j - At] = Count(Typed)[j] /\ j - At \in k + 1 .. d
          BY <2>1, <2>2
        <4> QED
          BY <4>1
      <3> QED
        BY <3>1
    <2>5. dropped' = dropped \cup Thrown(r, cut, n, k)
      BY DEF Moves
    <2> QED
      BY <1>2, <2>3, <2>4, <2>5
  <1>8. PtyBytes' = PtyBytes \o SubSeq(Count(Typed), At + 1, At + k)
    <2> DEFINE p == SubSeq(Count(Typed), At + 1, At + k)
               q == PtyBytes \o p
    <2>1. p \in Seq(Nat) /\ Len(p) = k /\ \A i \in 1..k : p[i] = At + i
      BY <1>1, <1>3, <1>4, <1>6, CountPart
    <2>2. PtyBytes \in Seq(Nat) /\ Len(PtyBytes) = Len(pty)
          /\ \A i \in 1..Len(pty) : PtyBytes[i] = pty[i].byte
      <3>1. \A i \in 1..Len(pty) : pty[i].byte \in Nat
        <4>1. \A i \in 1..Len(pty) : pty[i] \in [byte : Bytes, at : 0..MaxTime]
          BY <1>1, ElementOfSeq
        <4> QED
          BY <4>1, BoundsAssumption DEF Bytes
      <3>2. PtyBytes \in Seq(Nat) /\ DOMAIN PtyBytes = 1..Len(pty)
        BY <1>3, <3>1, IsASeq DEF PtyBytes
      <3> QED
        BY <1>3, <3>2, LenProperties DEF PtyBytes
    <2> HIDE DEF p
    <2>3. /\ q \in Seq(Nat) /\ Len(q) = Len(pty) + k
          /\ \A i \in 1..Len(pty) + k : q[i] = IF i <= Len(pty) THEN PtyBytes[i] ELSE p[i - Len(pty)]
      <3>1. Len(PtyBytes) + Len(p) = Len(pty) + k
        BY <2>1, <2>2
      <3>2. /\ q \in Seq(Nat) /\ Len(q) = Len(PtyBytes) + Len(p)
            /\ \A i \in 1..Len(PtyBytes) + Len(p) :
                   q[i] = IF i <= Len(PtyBytes) THEN PtyBytes[i] ELSE p[i - Len(PtyBytes)]
        <4>1. PtyBytes \in Seq(Nat) /\ p \in Seq(Nat)
          BY <2>1, <2>2
        <4> QED
          BY <4>1, ConcatProperties
      <3> HIDE DEF q
      <3> QED
        BY <2>2, <3>1, <3>2
    <2> HIDE DEF q
    <2>4. ASSUME NEW i \in 1..Len(pty) + k
          PROVE  pty'[i].byte = q[i]
      <3>1. CASE i <= Len(pty)
        <4>1. i \in 1..Len(pty)
          BY <1>3, <3>1
        <4> QED
          BY <1>3, <2>2, <2>3, <3>1, <4>1
      <3>2. CASE ~(i <= Len(pty))
        <4>1. i - Len(pty) \in 1..k /\ Len(pty) + (i - Len(pty)) = i
          BY <1>3, <3>2
        <4>2. i - Len(pty) \in 1..Len(r.write)
          BY <1>4, <1>6, <1>3, <4>1
        <4>3. q[i] = At + (i - Len(pty))
          BY <2>1, <2>3, <3>2, <4>1
        <4>4. pty'[i].byte = r.write[i - Len(pty)]
          BY <1>2, <1>3, <4>1
        <4> QED
          BY <1>4, <4>2, <4>3, <4>4
      <3> QED
        BY <3>1, <3>2
    <2>5. PtyBytes' = [i \in 1..Len(pty) + k |-> pty'[i].byte]
      BY <1>3 DEF PtyBytes
    <2>6. q = [i \in 1..Len(pty) + k |-> pty'[i].byte]
      <3>1. q = [i \in 1..Len(q) |-> q[i]]
        BY <2>3, LenProperties
      <3> QED
        BY <2>3, <2>4, <3>1
    <2> QED
      BY <2>5, <2>6 DEF q, p
  <1>9. UNCHANGED Count(Typed)
    BY <1>1 DEF Count
  <1>10. CASE d = 0
    <2>1. k = 0 /\ At + k + 1 = At + 1 /\ At + d = At
      BY <1>3, <1>4, <1>6, <1>10
    <2>2. dropped' = dropped
      <3>1. At + k + 1 .. At + d = {}
        BY <1>4, <2>1
      <3> QED
        BY <1>7, <3>1
    <2>3. PtyBytes' = PtyBytes
      <3>1. Len(pty') = Len(pty) /\ \A i \in 1..Len(pty) : pty'[i] = pty[i]
        BY <1>3, <2>1
      <3> QED
        BY <3>1 DEF PtyBytes
    <2> QED
      BY <1>4, <1>5, <1>9, <1>10, <2>2, <2>3
  <1>11. CASE d # 0
    <2>1. Len(Count(Typed)) = Typed
      <3>1. Count(Typed) \in Seq(Nat) /\ DOMAIN Count(Typed) = 1..Typed
        BY <1>1, IsASeq DEF Count
      <3> QED
        BY <1>1, <3>1, LenProperties
    <2>2. At + d \in At + 1 .. Len(Count(Typed)) /\ At + k \in At .. At + d
      BY <1>1, <1>3, <1>4, <1>6, <1>11, <2>1
    <2>3. \E x \in At + 1 .. Len(Count(Typed)) : \E y \in At .. x :
              /\ At' = x
              /\ PtyBytes' = PtyBytes \o SubSeq(Count(Typed), At + 1, y)
              /\ dropped' = dropped \cup {Count(Typed)[i] : i \in y + 1 .. x}
      BY <1>5, <1>7, <1>8, <2>2
    <2> QED
      BY <1>9, <2>3 DEF Stream!Deliver, Count, At, Start
  <1> QED
    BY <1>6, <1>10, <1>11

LEMMA StreamSteps ==
    ASSUME MaxWires = 1, TypeOK, StreamInv, [Next]_vars
    PROVE  [Stream!Next]_<<Count(Typed), At, PtyBytes, dropped>>
  <1>1. CASE Push /\ Typed + 1 \in Bytes /\ Typed' = Typed + 1 /\ peer' = peer
    <2>1. Count(Typed)' = Append(Count(Typed), Typed + 1)
      BY <1>1, TypedMoves, CountGrows DEF Count
    <2>2. UNCHANGED <<At, PtyBytes, dropped>>
      BY <1>1 DEF peer, At, Start, PtyBytes
    <2> QED
      BY <1>1, <2>1, <2>2 DEF Stream!Next, Stream!Type, Count, At, Start
  <1>2. CASE Typed' = Typed
    <2>1. CASE (\E m \in c2s : PeerReceives(m)) \/ (\E w \in 1..wire : PeerTurns(w))
      <3>1. PICK w \in Wires, r \in BridgesDuring : Extends(r, bridges[w]) /\ Turned(w, r)
        BY <2>1, TurnsExtend
      <3>2. PICK cut \in BOOLEAN, n \in Nat, k \in Nat, b \in BridgesBetween : Moves(w, r, cut, n, k, b)
        BY <3>1 DEF Turned
      <3>3. BridgeInPlace(bridges[w])
        BY DEF StreamInv
      <3> QED
        BY <3>1, <3>2, <3>3, TurnDelivers DEF Stream!Next
    <2>2. CASE UNCHANGED <<bridges, pty, dropped>>
      BY <1>2, <2>2 DEF Count, At, Start, PtyBytes
    <2>3. ~Reconnect
      BY BoundsAssumption DEF Reconnect, TypeOK, PeerTypes, Wires
    <2> QED
      BY <2>1, <2>2, <2>3
      DEF Next, Push, SendMessage, ReceiveFrame, Tick, LoseFrame, LoseMessage, vars, peer
  <1> QED
    BY <1>1, <1>2, TypedMoves

\* On one wire, over any number of keystrokes, losses, repeats and re-homes,
\* and however the socket splits the writes, the shells read the typed stream
\* in order and once, but for the bytes thrown away.
THEOREM StreamCorrect ==
    ASSUME MaxWires = 1
    PROVE  Spec => StreamSpec
  <1>1. Init => Stream!Init
    <2> SUFFICES ASSUME Init PROVE Stream!Init
      OBVIOUS
    <2>1. Len(<<>>) = 0 /\ 1 \in Wires
      BY EmptySeq DEF Wires
    <2>2. bridges[1].next = 0 /\ bridges[1].write = <<>> /\ pty = <<>> /\ dropped = {} /\ Typed = 0
      BY <2>1 DEF Init, Bridge, Typed
    <2>3. [i \in 1..0 |-> i] = <<>> /\ [i \in 1..0 |-> pty[i].byte] = <<>>
      OBVIOUS
    <2>4. PtyBytes = <<>>
      BY <2>1, <2>2, <2>3 DEF PtyBytes
    <2>5. [i \in 1..Typed |-> i] = <<>> /\ bridges[1].next - Len(bridges[1].write) = 0
      <3>1. [i \in 1..Typed |-> i] = [i \in 1..0 |-> i]
        BY <2>2
      <3>2. Len(bridges[1].write) = 0 /\ bridges[1].next = 0
        BY <2>1, <2>2
      <3>3. 0 - 0 = 0
        OBVIOUS
      <3> QED
        BY <2>3, <3>1, <3>2, <3>3
    <2> QED
      BY <2>2, <2>4, <2>5 DEF Stream!Init
  <1>2. TypeOK /\ StreamInv /\ [Next]_vars
        => [Stream!Next]_<<[i \in 1..Typed |-> i], bridges[1].next - Len(bridges[1].write),
                           PtyBytes, dropped>>
    BY StreamSteps DEF Count, At, Start
  <1> QED
    BY <1>1, <1>2, StreamInvariant, PTL DEF Spec, StreamSpec, Stream!Spec

-----------------------------------------------------------------------------
(* When an echo is acknowledged.                                           *)

\* By time t the shell had byte k, unless it had to wait or was thrown away.
Settled(k, t) ==
    k \in dropped \cup waited \/ \E i \in DOMAIN pty : pty[i].byte = k /\ pty[i].at <= t

AgedTo(x) == \A k \in 1..x : Aged(k) \/ k \in dropped \cup waited

Aging(q) == \A i, j \in DOMAIN q : i <= j => q[i].at <= q[j].at

\* The stamps of a bridge: oldest first, none from before its buffer was last
\* left with something in it, each no older than the bytes it stands for.
Stamped(q, next, full) ==
    /\ Aging(q)
    /\ \A i \in DOMAIN q : /\ q[i].offset <= next /\ full <= q[i].at /\ q[i].at <= now
                           /\ \A k \in 1..q[i].offset : Settled(k, q[i].at)

EchoSound(b) ==
    /\ AgedTo(b.acked) /\ Stamped(b.pending, b.next, b.full)
    /\ b.full <= now /\ ToSet(b.write) \subseteq waited

EchoInv ==
    /\ \A i \in DOMAIN pty : pty[i].at <= now
    /\ \A w \in Wires : EchoSound(bridges[w])
    /\ AgedTo(late_ack) /\ AgedTo(resume.echo) /\ \A f \in s2c : AgedTo(f.echo_ack)

LEMMA PendingNumbers ==
    ASSUME NEW q \in Seq(Stamp)
    PROVE  /\ Len(q) \in Nat /\ DOMAIN q = 1..Len(q)
           /\ \A i \in 1..Len(q) : q[i] \in Stamp /\ q[i].offset \in Nat /\ q[i].at \in Nat
  <1>1. Len(q) \in Nat /\ DOMAIN q = 1..Len(q)
    BY LenProperties
  <1>2. \A i \in 1..Len(q) : q[i] \in Stamp
    BY ElementOfSeq
  <1>3. \A e \in Stamp : e.offset \in Nat /\ e.at \in Nat
    BY BoundsAssumption DEF Stamp, Bytes
  <1> QED
    BY <1>1, <1>2, <1>3


LEMMA UpTo ==
    ASSUME NEW n \in Nat
    PROVE  IsFiniteSet(1..n) /\ Cardinality(1..n) = n
  BY FS_Interval


\* Maturing takes a prefix of the stamps, the last of it old enough.
LEMMA MatureEnds ==
    ASSUME now \in 0..MaxTime, NEW b \in BridgesDuring, Aging(b.pending)
    PROVE  LET c == Mature(b)
           IN  /\ c.full = b.full
               /\ \E n \in 0..Len(b.pending) :
                      /\ Len(c.pending) = Len(b.pending) - n
                      /\ \A i \in 1..Len(c.pending) : c.pending[i] = b.pending[n + i]
                      /\ \/ n = 0 /\ c.acked = b.acked
                         \/ /\ n # 0 /\ c.acked = b.pending[n].offset
                            /\ now >= b.pending[n].at + EchoTimeout
  <1> DEFINE due == {i \in DOMAIN b.pending : now >= b.pending[i].at + EchoTimeout}
             n == Cardinality(due)
             t == SubSeq(b.pending, n + 1, Len(b.pending))
  <1>0. b.pending \in Seq(Stamp) /\ now \in Nat /\ EchoTimeout \in Nat
    BY BoundsAssumption DEF BridgesDuring
  <1>1. Len(b.pending) \in Nat /\ DOMAIN b.pending = 1..Len(b.pending)
    BY <1>0, LenProperties
  <1>2. \A i \in 1..Len(b.pending) : b.pending[i].offset \in Nat /\ b.pending[i].at \in Nat
    BY <1>0, PendingNumbers
  <1>3. n \in 0..Len(b.pending)
    <2>1. due \in SUBSET (1..Len(b.pending))
      BY <1>1
    <2>2. IsFiniteSet(1..Len(b.pending)) /\ Cardinality(1..Len(b.pending)) = Len(b.pending)
      BY <1>1, UpTo
    <2> HIDE DEF due
    <2>3. IsFiniteSet(due) /\ n <= Len(b.pending)
      BY <2>1, <2>2, FS_Subset
    <2>4. n \in Nat
      BY <2>3, FS_CardinalityType
    <2> QED
      BY <1>1, <2>3, <2>4
  <1>4. ASSUME n # 0
        PROVE  n \in due
    <2> SUFFICES ASSUME n \notin due PROVE FALSE
      OBVIOUS
    <2>1. due \subseteq 1 .. n - 1
      <3> SUFFICES ASSUME NEW i \in due, ~(i <= n - 1) PROVE FALSE
        BY <1>1
      <3>1. i \in 1..Len(b.pending) /\ now >= b.pending[i].at + EchoTimeout
        BY <1>1
      <3>2. n \in 1..Len(b.pending) /\ n <= i
        BY <1>1, <1>3, <1>4, <3>1
      <3>3. b.pending[n].at <= b.pending[i].at
        BY <1>1, <3>1, <3>2 DEF Aging
      <3>4. now >= b.pending[n].at + EchoTimeout
        <4>1. b.pending[n].at \in Nat /\ b.pending[i].at \in Nat
          BY <1>2, <3>1, <3>2
        <4> HIDE DEF n
        <4>2. \A x, y \in Nat : x <= y /\ now >= y + EchoTimeout => now >= x + EchoTimeout
          BY <1>0
        <4> QED
          BY <3>1, <3>3, <4>1, <4>2
      <3> QED
        BY <1>1, <3>2, <3>4
    <2> HIDE DEF due
    <2>2. n - 1 \in Nat /\ 1 \in Nat
      BY <1>1, <1>3, <1>4
    <2>3. IsFiniteSet(1 .. n - 1) /\ Cardinality(1 .. n - 1) = n - 1
      BY <2>2, UpTo
    <2>4. Cardinality(due) <= n - 1
      BY <2>1, <2>3, FS_Subset
    <2>5. n = Cardinality(due) /\ n \in Nat
      BY <1>1, <1>3
    <2> HIDE DEF n
    <2> QED
      BY <2>4, <2>5
  <1>5. CASE n = 0
    <2>1. Mature(b) = b
      BY <1>5 DEF Mature
    <2>2. /\ 0 \in 0..Len(b.pending) /\ Len(b.pending) = Len(b.pending) - 0
          /\ \A i \in 1..Len(b.pending) : b.pending[i] = b.pending[0 + i]
      BY <1>1
    <2> QED
      BY <2>1, <2>2
  <1>6. CASE n # 0
    <2>1. Mature(b) = [b EXCEPT !.acked = b.pending[n].offset, !.pending = t, !.ack_due = TRUE]
      BY <1>6 DEF Mature
    <2>2. n \in 1..Len(b.pending) /\ now >= b.pending[n].at + EchoTimeout
      BY <1>1, <1>3, <1>4, <1>6
    <2> HIDE DEF due, n
    <2>3. Len(t) = Len(b.pending) - n /\ \A i \in 1..Len(t) : t[i] = b.pending[n + i]
      BY <1>0, <1>3, Suffix
    <2> HIDE DEF t
    <2>4. /\ Mature(b).acked = b.pending[n].offset /\ Mature(b).pending = t
          /\ Mature(b).full = b.full
      BY <2>1 DEF BridgesDuring
    <2> QED
      BY <1>3, <1>6, <2>2, <2>3, <2>4
  <1> QED
    BY <1>5, <1>6

\* A message adds one stamp at most, of this moment, for all accepted so far.
LEMMA AcceptEnds ==
    ASSUME now \in 0..MaxTime, NEW b \in BridgesDuring, NEW m \in Messages,
           m.base + Len(m.data) <= MaxTyped
    PROVE  LET a == Accept(b, m)
           IN  /\ a.acked = b.acked /\ a.full = b.full
               /\ \/ a.pending = b.pending
                  \/ /\ [offset |-> a.next, at |-> now] \in Stamp
                     /\ a.pending = Append(b.pending, [offset |-> a.next, at |-> now])
  <1> DEFINE upto == m.base + Len(m.data)
             c == [b EXCEPT !.next = upto, !.write = @ \o Fresh(b, m), !.ack_due = TRUE]
             new == Append(b.pending, [offset |-> upto, at |-> now])
  <1>1. /\ c.acked = b.acked /\ c.full = b.full /\ c.pending = b.pending /\ c.next = upto
        /\ DOMAIN c = {"next", "pending", "acked", "ack_due", "write", "full"}
    BY DEF BridgesDuring
  <1> HIDE DEF c
  <1>2. Record(c, upto) = c \/ Record(c, upto) = [c EXCEPT !.pending = new]
    BY <1>1 DEF Record
  <1> HIDE DEF new
  <1>3. CASE Fresh(b, m) = <<>>
    BY <1>3 DEF Accept
  <1>4. CASE Fresh(b, m) # <<>>
    <2>1. Accept(b, m) = Record(c, upto)
      BY <1>4 DEF Accept, c
    <2>1a. [offset |-> upto, at |-> now] \in Stamp
      <3>1. b.next < upto /\ b.next \in Nat
        BY <1>4, FreshPart, BoundsAssumption DEF BridgesDuring
      <3>2. upto \in Bytes
        BY <3>1, LenProperties, BoundsAssumption DEF Messages, Bytes
      <3> QED
        BY <3>2 DEF Stamp
    <2> HIDE DEF upto
    <2>2. CASE Record(c, upto) = c
      BY <1>1, <2>1, <2>2
    <2>3. CASE Record(c, upto) = [c EXCEPT !.pending = new]
      <3>1. /\ Accept(b, m).pending = new /\ Accept(b, m).next = upto
            /\ Accept(b, m).acked = b.acked /\ Accept(b, m).full = b.full
        BY <1>1, <2>1, <2>3
      <3> QED
        BY <2>1a, <3>1 DEF new
    <2> QED
      BY <1>2, <2>2, <2>3
  <1> QED
    BY <1>3, <1>4

\* As the shell gets more and time goes on, what was settled or aged stays so.
LEMMA SettledStays ==
    ASSUME TypeOK, TypeOK', now <= now',
           \A i \in DOMAIN pty : i \in DOMAIN pty' /\ pty'[i] = pty[i],
           dropped \subseteq dropped', waited \subseteq waited'
    PROVE  /\ \A k, t : Settled(k, t) => Settled(k, t)'
           /\ \A x : AgedTo(x) => AgedTo(x)'
  <1>1. ASSUME NEW k, NEW t, Settled(k, t)
        PROVE  Settled(k, t)'
    BY <1>1 DEF Settled
  <1>2. ASSUME NEW k, Aged(k)
        PROVE  Aged(k)'
    <2>1. PICK i \in DOMAIN pty : pty[i].byte = k /\ now >= pty[i].at + EchoTimeout
      BY <1>2 DEF Aged
    <2>2. i \in DOMAIN pty' /\ pty'[i] = pty[i]
      BY <2>1
    <2>3. pty[i].at \in Nat
      <3>1. pty \in Seq([byte : Bytes, at : 0..MaxTime])
        BY DEF TypeOK, PeerTypes
      <3>2. pty[i] \in [byte : Bytes, at : 0..MaxTime]
        BY <2>1, <3>1, LenProperties, ElementOfSeq
      <3> QED
        BY <3>2, BoundsAssumption
    <2>4. now \in Nat /\ now' \in Nat /\ EchoTimeout \in Nat
      BY BoundsAssumption DEF TypeOK, ClockTypes
    <2>5. now' >= pty[i].at + EchoTimeout
      BY <2>1, <2>3, <2>4
    <2>6. pty'[i].byte = k /\ now' >= pty'[i].at + EchoTimeout
      BY <2>1, <2>2, <2>5
    <2> QED
      BY <2>2, <2>6 DEF Aged
  <1>3. ASSUME NEW x, AgedTo(x)
        PROVE  AgedTo(x)'
    BY <1>2, <1>3 DEF AgedTo
  <1> QED
    BY <1>1, <1>3

\* What a turn does with the stamps of a bridge, a message having been accepted
\* or not: the stamps it is left with, and why its acknowledgement grew.
LEMMA TurnStamps ==
    ASSUME TypeOK, NEW b \in BridgesDuring, NEW r \in BridgesDuring, NEW held \in BOOLEAN,
           Aging(b.pending), \A i \in DOMAIN b.pending : b.pending[i].at <= now,
           r = b \/ \E m \in c2s : r = Accept(b, m)
    PROVE  LET c == Matured(r, held)
               old(e) == \E i \in DOMAIN b.pending : e = b.pending[i]
               new(e) == e.offset = r.next /\ e.at = now
           IN  /\ c \in BridgesDuring /\ c.full = b.full /\ Aging(c.pending)
               /\ \A i \in DOMAIN c.pending : old(c.pending[i]) \/ new(c.pending[i])
               /\ \/ c.acked = b.acked
                  \/ \E e \in Stamp : /\ old(e) \/ new(e)
                                      /\ c.acked = e.offset /\ now >= e.at + EchoTimeout
  <1> DEFINE c == Matured(r, held)
             old(e) == \E i \in DOMAIN b.pending : e = b.pending[i]
             new(e) == e.offset = r.next /\ e.at = now
  <1>0. /\ now \in 0..MaxTime /\ now \in Nat /\ EchoTimeout \in Nat
        /\ b.pending \in Seq(Stamp) /\ r.pending \in Seq(Stamp)
        /\ Len(b.pending) \in Nat /\ DOMAIN b.pending = 1..Len(b.pending)
        /\ Len(r.pending) \in Nat /\ DOMAIN r.pending = 1..Len(r.pending)
        /\ \A i \in 1..Len(r.pending) : r.pending[i] \in Stamp
    BY PendingNumbers, BoundsAssumption DEF TypeOK, ClockTypes, BridgesDuring
  <1>1. /\ r.acked = b.acked /\ r.full = b.full
        /\ \/ r.pending = b.pending
           \/ /\ [offset |-> r.next, at |-> now] \in Stamp
              /\ r.pending = Append(b.pending, [offset |-> r.next, at |-> now])
    <2>1. CASE r = b
      BY <2>1
    <2>2. ASSUME NEW m \in c2s, r = Accept(b, m)
          PROVE  /\ r.acked = b.acked /\ r.full = b.full
                 /\ \/ r.pending = b.pending
                    \/ /\ [offset |-> r.next, at |-> now] \in Stamp
                       /\ r.pending = Append(b.pending, [offset |-> r.next, at |-> now])
      <3>1. m \in Messages /\ m.base + Len(m.data) <= MaxTyped
        BY DEF TypeOK, NetTypes
      <3> QED
        BY <1>0, <2>2, <3>1, AcceptEnds
    <2> QED
      BY <2>1, <2>2
  <1>2. /\ \A i \in 1..Len(r.pending) : old(r.pending[i]) \/ new(r.pending[i])
        /\ Aging(r.pending)
    <2>1. CASE r.pending = b.pending
      BY <1>0, <2>1
    <2>2. CASE /\ [offset |-> r.next, at |-> now] \in Stamp
               /\ r.pending = Append(b.pending, [offset |-> r.next, at |-> now])
      <3> DEFINE e == [offset |-> r.next, at |-> now]
      <3>1. /\ Len(r.pending) = Len(b.pending) + 1
            /\ \A i \in 1..Len(b.pending) : r.pending[i] = b.pending[i]
            /\ r.pending[Len(b.pending) + 1] = e
        BY <1>0, <2>2, AppendProperties
      <3>2. e.offset = r.next /\ e.at = now
        OBVIOUS
      <3> HIDE DEF e
      <3>3. \A i \in 1..Len(r.pending) : i \in 1..Len(b.pending) \/ i = Len(b.pending) + 1
        BY <1>0, <3>1
      <3>4. \A i \in 1..Len(r.pending) : old(r.pending[i]) \/ new(r.pending[i])
        BY <1>0, <3>1, <3>2, <3>3
      <3>5. ASSUME NEW i \in 1..Len(r.pending), NEW j \in 1..Len(r.pending), i <= j
            PROVE  r.pending[i].at <= r.pending[j].at
        <4>1. CASE j \in 1..Len(b.pending)
          <5>1. i \in 1..Len(b.pending)
            BY <1>0, <3>5, <4>1
          <5> QED
            BY <1>0, <3>1, <3>5, <4>1, <5>1 DEF Aging
        <4>2. CASE j = Len(b.pending) + 1 /\ i \in 1..Len(b.pending)
          BY <1>0, <3>1, <3>2, <4>2
        <4>3. CASE j = Len(b.pending) + 1 /\ i = Len(b.pending) + 1
          BY <1>0, <3>1, <3>2, <4>3
        <4> QED
          BY <3>3, <4>1, <4>2, <4>3
      <3> QED
        BY <1>0, <3>4, <3>5 DEF Aging
    <2> QED
      BY <1>1, <2>1, <2>2
  <1>3. CASE held
    BY <1>0, <1>1, <1>2, <1>3 DEF Matured
  <1>4. CASE ~held
    <2>1. c = Mature(r) /\ c \in BridgesDuring
      BY <1>4, MatureKeeps DEF Matured, Same
    <2>2. /\ c.full = r.full
          /\ \E n \in 0..Len(r.pending) :
                /\ Len(c.pending) = Len(r.pending) - n
                /\ \A i \in 1..Len(c.pending) : c.pending[i] = r.pending[n + i]
                /\ \/ n = 0 /\ c.acked = r.acked
                   \/ /\ n # 0 /\ c.acked = r.pending[n].offset
                      /\ now >= r.pending[n].at + EchoTimeout
      BY <1>0, <1>2, <2>1, MatureEnds
    <2> HIDE DEF c
    <2>3. PICK n \in 0..Len(r.pending) :
             /\ Len(c.pending) = Len(r.pending) - n
             /\ \A i \in 1..Len(c.pending) : c.pending[i] = r.pending[n + i]
             /\ \/ n = 0 /\ c.acked = r.acked
                \/ /\ n # 0 /\ c.acked = r.pending[n].offset
                   /\ now >= r.pending[n].at + EchoTimeout
      BY <2>2
    <2>4. DOMAIN c.pending = 1..Len(c.pending)
      BY <2>1, LenProperties DEF BridgesDuring
    <2>5. \A i \in 1..Len(c.pending) : i \in Nat /\ n + i \in 1..Len(r.pending)
      BY <1>0, <2>3
    <2>6. \A i \in DOMAIN c.pending : old(c.pending[i]) \/ new(c.pending[i])
      BY <1>2, <2>3, <2>4, <2>5
    <2>7. ASSUME NEW i \in 1..Len(c.pending), NEW j \in 1..Len(c.pending), i <= j
          PROVE  c.pending[i].at <= c.pending[j].at
      <3>1. n + i <= n + j /\ n + i \in 1..Len(r.pending) /\ n + j \in 1..Len(r.pending)
        BY <2>5, <2>7
      <3> QED
        BY <1>0, <1>2, <2>3, <3>1 DEF Aging
    <2>8. Aging(c.pending)
      BY <2>4, <2>7 DEF Aging
    <2>9. CASE n = 0
      BY <1>1, <2>1, <2>2, <2>3, <2>6, <2>8, <2>9 DEF c
    <2>10. CASE n # 0
      <3>1. n \in 1..Len(r.pending)
        BY <2>10
      <3>2. r.pending[n] \in Stamp /\ (old(r.pending[n]) \/ new(r.pending[n]))
        BY <1>0, <1>2, <3>1
      <3> QED
        BY <1>1, <2>1, <2>2, <2>3, <2>6, <2>8, <2>10, <3>2 DEF c
    <2> QED
      BY <2>9, <2>10
  <1> QED
    BY <1>3, <1>4

\* An echo bridge w acknowledges anew is older than its last full buffer.
Grace(w) == bridges'[w].acked > bridges[w].acked => now >= bridges[w].full + EchoTimeout

\* By the end of the turn every byte accepted is with the shell, waits or was
\* thrown away: so is what a stamp of this turn stands for.
LEMMA TurnEcho ==
    ASSUME TypeOK, TypeOK', StreamInv, AllHeld', EchoInv,
           NEW w \in Wires, w <= wire, NEW r \in BridgesDuring, Extends(r, bridges[w]),
           r = bridges[w] \/ \E m \in c2s : m.wire = w /\ r = Accept(bridges[w], m),
           NEW held \in BOOLEAN, NEW cut, NEW n, NEW k, NEW b,
           Moves(w, r, cut, n, k, b), Ends(Matured(r, held), b)
    PROVE  EchoInv' /\ Grace(w)
  <1> DEFINE a == bridges[w]
             old(e) == \E i \in DOMAIN a.pending : e = a.pending[i]
             new(e) == e.offset = r.next /\ e.at = now
             Fine(e) == /\ e.offset <= r.next /\ a.full <= e.at /\ e.at <= now
                        /\ \A j \in 1..e.offset : Settled(j, e.at)'
  <1>0. /\ now' = now /\ now \in 0..MaxTime /\ now \in Nat /\ EchoTimeout \in Nat
        /\ bridges'[w] = b /\ (\A v \in Wires \ {w} : bridges'[v] = bridges[v])
        /\ b \in BridgesBetween /\ b \in BridgesDuring /\ b.next = r.next
        /\ a \in BridgesDuring /\ a.next \in Nat /\ r.next \in Nat /\ a.next <= r.next
        /\ a.full \in Nat /\ a.acked \in Nat
    <2>1. now' = now /\ bridges' = [bridges EXCEPT ![w] = b] /\ b \in BridgesBetween /\ b.next = r.next
          /\ a.next <= r.next
      BY DEF Moves, Extends
    <2>2. bridges \in [Wires -> BridgesBetween]
      BY DEF TypeOK, PeerTypes
    <2>3. bridges'[w] = b /\ \A v \in Wires \ {w} : bridges'[v] = bridges[v]
      BY <2>1, <2>2
    <2>4. a \in BridgesDuring /\ b \in BridgesDuring
      BY <2>1, <2>2 DEF BridgesBetween
    <2>5. \A x \in BridgesDuring : x.next \in Nat /\ x.full \in Nat /\ x.acked \in Nat
      BY BoundsAssumption DEF BridgesDuring
    <2>6. now \in 0..MaxTime /\ now \in Nat /\ EchoTimeout \in Nat
      BY BoundsAssumption DEF TypeOK, ClockTypes
    <2> HIDE DEF a
    <2> QED
      BY <2>1, <2>3, <2>4, <2>5, <2>6
  <1>1. /\ \A i \in DOMAIN pty : i \in DOMAIN pty' /\ pty'[i] = pty[i]
        /\ \A i \in DOMAIN pty' : i \in DOMAIN pty \/ pty'[i].at = now
    <2>1. /\ k \in Nat /\ Len(pty) \in Nat /\ Len(pty') = Len(pty) + k
          /\ DOMAIN pty = 1..Len(pty) /\ DOMAIN pty' = 1..Len(pty')
          /\ \A i \in 1..Len(pty) : pty'[i] = pty[i]
          /\ \A i \in 1..k : pty'[Len(pty) + i].at = now
      BY PtyGrows
    <2>2. ASSUME NEW i \in DOMAIN pty', i \notin DOMAIN pty
          PROVE  pty'[i].at = now
      <3>1. i - Len(pty) \in 1..k /\ Len(pty) + (i - Len(pty)) = i
        BY <2>1, <2>2
      <3> QED
        BY <2>1, <3>1
    <2> QED
      BY <2>1, <2>2
  <1>2. /\ dropped \subseteq dropped' /\ waited \subseteq waited'
        /\ ToSet(b.write) \subseteq waited' /\ now <= now'
    BY <1>0 DEF Moves
  <1>3. (\A j, t : Settled(j, t) => Settled(j, t)') /\ (\A x : AgedTo(x) => AgedTo(x)')
    BY <1>1, <1>2, SettledStays
  <1>4. \A i \in DOMAIN pty' : pty'[i].at <= now'
    <2>1. \A i \in DOMAIN pty : pty[i].at <= now
      BY DEF EchoInv
    <2> QED
      BY <1>0, <1>1, <2>1
  <1>5. \A v \in Wires : ToSet(bridges'[v].write) \subseteq waited'
    <2>1. \A v \in Wires : ToSet(bridges[v].write) \subseteq waited
      BY DEF EchoInv, EchoSound
    <2> QED
      BY <1>0, <1>2, <2>1
  <1>6. ASSUME NEW j \in 1..r.next
        PROVE  Settled(j, now)'
    <2>1. Held(j)'
      <3>1. j \in 1..bridges'[w].next
        BY <1>0
      <3> QED
        BY <3>1 DEF AllHeld
    <2>2. CASE Read(j)'
      <3>1. \E i \in DOMAIN pty' : pty'[i].byte = j /\ pty'[i].at <= now'
        BY <1>4, <2>2 DEF Read
      <3> QED
        BY <1>0, <3>1 DEF Settled
    <2>3. CASE Buffered(j)'
      <3>1. PICK v \in Wires : \E i \in DOMAIN bridges'[v].write : bridges'[v].write[i] = j
        BY <2>3 DEF Buffered
      <3>2. j \in ToSet(bridges'[v].write)
        BY <3>1 DEF ToSet
      <3> QED
        BY <1>5, <3>2 DEF Settled
    <2> QED
      BY <2>1, <2>2, <2>3 DEF Held, Settled
  <1>7. PICK c \in BridgesDuring :
        /\ c = Matured(r, held) /\ c.full = a.full /\ Aging(c.pending)
        /\ \A i \in DOMAIN c.pending : old(c.pending[i]) \/ new(c.pending[i])
        /\ \/ c.acked = a.acked
           \/ \E e \in Stamp : /\ old(e) \/ new(e)
                               /\ c.acked = e.offset /\ now >= e.at + EchoTimeout
    <2>1. Aging(a.pending) /\ \A i \in DOMAIN a.pending : a.pending[i].at <= now
      BY DEF EchoInv, EchoSound, Stamped
    <2>2. r = a \/ \E m \in c2s : r = Accept(a, m)
      OBVIOUS
    <2> HIDE DEF a
    <2> QED
      BY <1>0, <2>1, <2>2, TurnStamps
  <1>8. ASSUME NEW e \in Stamp, old(e) \/ new(e)
        PROVE  Fine(e)
    <2>0. e.offset \in Nat /\ e.at \in Nat
      BY BoundsAssumption DEF Stamp, Bytes
    <2>1. CASE old(e)
      <3>1. EchoSound(a)
        BY DEF EchoInv
      <3>2. /\ e.offset <= a.next /\ a.full <= e.at /\ e.at <= now
            /\ \A j \in 1..e.offset : Settled(j, e.at)
        BY <2>1, <3>1 DEF EchoSound, Stamped
      <3>3. e.offset <= r.next
        BY <1>0, <2>0, <3>2
      <3> QED
        BY <1>3, <3>2, <3>3
    <2>2. CASE new(e)
      <3>1. a.full <= now
        BY DEF EchoInv, EchoSound
      <3> HIDE DEF a
      <3>2. \A j \in 1..e.offset : Settled(j, e.at)'
        BY <1>0, <1>6, <2>2 DEF Settled
      <3> QED
        BY <1>0, <2>0, <2>2, <3>1, <3>2
    <2> QED
      BY <1>8, <2>1, <2>2
  <1>9. /\ c.pending \in Seq(Stamp) /\ DOMAIN c.pending = 1..Len(c.pending) /\ Len(c.pending) \in Nat
        /\ \A i \in DOMAIN c.pending : c.pending[i] \in Stamp /\ Fine(c.pending[i])
    <2>1. c.pending \in Seq(Stamp)
      BY <1>7 DEF BridgesDuring
    <2>2. DOMAIN c.pending = 1..Len(c.pending) /\ Len(c.pending) \in Nat
          /\ \A i \in DOMAIN c.pending : c.pending[i] \in Stamp
      BY <2>1, PendingNumbers
    <2> HIDE DEF Fine
    <2> QED
      BY <1>7, <1>8, <2>1, <2>2
  <1>10. AgedTo(b.acked)'
    <2>1. b.acked = c.acked
      BY <1>7 DEF Ends
    <2>2. CASE c.acked = a.acked
      <3>1. AgedTo(a.acked)
        BY DEF EchoInv, EchoSound
      <3> QED
        BY <1>3, <2>1, <2>2, <3>1
    <2>3. ASSUME NEW e \in Stamp, old(e) \/ new(e), c.acked = e.offset, now >= e.at + EchoTimeout
          PROVE  AgedTo(b.acked)'
      <3>1. \A j \in 1..e.offset : Settled(j, e.at)'
        BY <1>8, <2>3
      <3>2. ASSUME NEW j \in 1..e.offset
            PROVE  (Aged(j) \/ j \in dropped \cup waited)'
        <4>1. Settled(j, e.at)'
          BY <3>1
        <4>2. ASSUME NEW i \in DOMAIN pty', pty'[i].byte = j, pty'[i].at <= e.at
              PROVE  Aged(j)'
          <5>1. pty'[i].at \in Nat
            <6>1. pty' \in Seq([byte : Bytes, at : 0..MaxTime])
              BY DEF TypeOK, PeerTypes
            <6>2. pty'[i] \in [byte : Bytes, at : 0..MaxTime]
              BY <6>1, LenProperties, ElementOfSeq
            <6> QED
              BY <6>2, BoundsAssumption
          <5>2. e.at \in Nat
            BY BoundsAssumption DEF Stamp
          <5>3. now' >= pty'[i].at + EchoTimeout
            BY <1>0, <2>3, <4>2, <5>1, <5>2
          <5> QED
            BY <4>2, <5>3 DEF Aged
        <4> QED
          BY <4>1, <4>2 DEF Settled
      <3>3. \A j \in 1..b.acked : (Aged(j) \/ j \in dropped \cup waited)'
        BY <2>1, <2>3, <3>2
      <3> QED
        BY <3>3 DEF AgedTo
    <2> QED
      BY <1>7, <2>2, <2>3
  <1>11. Stamped(b.pending, b.next, b.full)' /\ b.full <= now
    <2>1. CASE b.pending = c.pending /\ b.full = c.full
      <3>1. \A i \in DOMAIN b.pending : Fine(b.pending[i])
        BY <1>9, <2>1
      <3>2. \A i \in DOMAIN b.pending :
               /\ b.pending[i].offset <= b.next /\ b.full <= b.pending[i].at /\ b.pending[i].at <= now'
               /\ \A j \in 1..b.pending[i].offset : Settled(j, b.pending[i].at)'
        BY <1>0, <1>7, <2>1, <3>1
      <3>3. Aging(b.pending)
        BY <1>7, <2>1
      <3>4. b.full <= now
        BY <1>7, <2>1 DEF EchoInv, EchoSound
      <3> QED
        BY <3>2, <3>3, <3>4 DEF Stamped, Aging
    <2>2. CASE b.pending = Restamp(c).pending /\ b.full = now
      <3>1. CASE c.pending = <<>>
        <4>1. b.pending = <<>>
          BY <2>2, <3>1 DEF Restamp
        <4>2. DOMAIN b.pending = {}
          BY <4>1
        <4> QED
          BY <1>0, <2>2, <4>2 DEF Stamped, Aging
      <3>2. CASE c.pending # <<>>
        <4> DEFINE e == c.pending[Len(c.pending)]
        <4>1. Restamp(c) = [c EXCEPT !.pending = <<[offset |-> e.offset, at |-> now]>>]
          BY <3>2 DEF Restamp, Last
        <4>2. b.pending = <<[offset |-> e.offset, at |-> now]>>
          BY <1>7, <2>2, <4>1 DEF BridgesDuring
        <4>3. e \in Stamp /\ Fine(e)
          <5>1. Len(c.pending) # 0
            BY <1>9, <3>2, EmptySeq
          <5>2. Len(c.pending) \in DOMAIN c.pending
            BY <1>9, <5>1
          <5> QED
            BY <1>9, <5>2
        <4>4. e.offset \in Nat /\ e.offset <= r.next
          BY <4>3, BoundsAssumption DEF Stamp, Bytes
        <4> HIDE DEF e
        <4>5. /\ DOMAIN b.pending = {1}
              /\ b.pending[1].offset = e.offset /\ b.pending[1].at = now
          BY <4>2
        <4>6. \A j \in 1..e.offset : Settled(j, now)'
          BY <1>0, <1>6, <4>4
        <4>7. Aging(b.pending)
          BY <1>0, <4>5 DEF Aging
        <4> QED
          BY <1>0, <2>2, <4>4, <4>5, <4>6, <4>7 DEF Stamped, Aging
      <3> QED
        BY <3>1, <3>2
    <2> QED
      BY <1>7, <2>1, <2>2 DEF Ends
  <1>12. ASSUME NEW v \in Wires
         PROVE  EchoSound(bridges[v])'
    <2>1. CASE v = w
      BY <1>0, <1>2, <1>10, <1>11, <2>1 DEF EchoSound, AgedTo, Stamped
    <2>2. CASE v # w
      <3>1. EchoSound(bridges[v]) /\ bridges'[v] = bridges[v]
        BY <1>0, <2>2 DEF EchoInv
      <3>2. AgedTo(bridges[v].acked)'
        BY <1>3, <3>1 DEF EchoSound, AgedTo
      <3>3. Stamped(bridges[v].pending, bridges[v].next, bridges[v].full)'
        BY <1>0, <1>3, <3>1 DEF EchoSound, Stamped, Aging
      <3> QED
        BY <1>0, <1>5, <3>1, <3>2, <3>3 DEF EchoSound
    <2> QED
      BY <2>1, <2>2
  <1>13. AgedTo(late_ack)' /\ AgedTo(resume.echo)' /\ \A f \in s2c' : AgedTo(f.echo_ack)'
    <2>1. late_ack' = late_ack /\ resume' = resume
      BY DEF Moves
    <2>2. AgedTo(late_ack) /\ AgedTo(resume.echo) /\ \A f \in s2c : AgedTo(f.echo_ack)
      BY DEF EchoInv
    <2>3. \A f \in s2c' : f \in s2c \/ f.echo_ack = b.acked
      BY DEF Moves
    <2>4. AgedTo(late_ack)' /\ AgedTo(resume.echo)'
      BY <1>3, <2>1, <2>2 DEF AgedTo
    <2>5. \A f \in s2c' : AgedTo(f.echo_ack)'
      BY <1>3, <1>10, <2>2, <2>3 DEF AgedTo
    <2> QED
      BY <2>4, <2>5
  <1>14. Grace(w)
    <2> SUFFICES ASSUME b.acked > a.acked PROVE now >= a.full + EchoTimeout
      BY <1>0 DEF Grace
    <2>1. c.acked # a.acked
      BY <1>0, <1>7 DEF Ends
    <2>2. PICK e \in Stamp : (old(e) \/ new(e)) /\ now >= e.at + EchoTimeout
      BY <1>7, <2>1
    <2>3. a.full <= e.at /\ e.at \in Nat
      BY <1>8, <2>2, BoundsAssumption DEF Stamp
    <2> HIDE DEF a
    <2> QED
      BY <1>0, <2>2, <2>3
  <1> QED
    BY <1>4, <1>12, <1>13, <1>14 DEF EchoInv

LEMMA EchoInit == Init => EchoInv
  <1> SUFFICES ASSUME Init PROVE EchoInv
    OBVIOUS
  <1>1. DOMAIN <<>> = {} /\ ToSet(<<>>) = {}
    BY DEF ToSet
  <1>2. AgedTo(0)
    BY DEF AgedTo
  <1>3. now = 0 /\ pty = <<>> /\ s2c = {} /\ late_ack = 0 /\ resume.echo = 0
    BY DEF Init
  <1>4. ASSUME NEW w \in Wires
        PROVE  EchoSound(bridges[w])
    <2>1. /\ bridges[w].acked = 0 /\ bridges[w].pending = <<>> /\ bridges[w].full = 0
          /\ bridges[w].write = <<>>
      BY DEF Init, Bridge
    <2> QED
      BY <1>1, <1>2, <1>3, <2>1 DEF EchoSound, Stamped, Aging
  <1> QED
    BY <1>1, <1>2, <1>3, <1>4 DEF EchoInv

\* Steps that leave shell, bytes in hand and clock to grow, and every bridge's
\* stamps as they are.
LEMMA BridgeStays ==
    ASSUME TypeOK, TypeOK', EchoInv, now <= now', UNCHANGED <<pty, dropped, waited>>,
           NEW w \in Wires, bridges'[w] = bridges[w]
    PROVE  EchoSound(bridges[w])'
  <1>1. (\A j, t : Settled(j, t) => Settled(j, t)') /\ (\A x : AgedTo(x) => AgedTo(x)')
    BY SettledStays
  <1>2. EchoSound(bridges[w]) /\ bridges[w] \in BridgesDuring
    BY DEF EchoInv, TypeOK, PeerTypes, BridgesBetween
  <1>3. now \in Nat /\ now' \in Nat /\ bridges[w].full \in Nat /\ bridges[w].pending \in Seq(Stamp)
    BY <1>2, BoundsAssumption DEF TypeOK, ClockTypes, BridgesDuring
  <1>4. AgedTo(bridges[w].acked)'
    BY <1>1, <1>2 DEF EchoSound, AgedTo
  <1>5. \A i \in DOMAIN bridges[w].pending :
           bridges[w].pending[i].at \in Nat /\ bridges[w].pending[i].at <= now'
    <2>1. \A i \in DOMAIN bridges[w].pending :
             bridges[w].pending[i].at \in Nat /\ bridges[w].pending[i].at <= now
      BY <1>2, <1>3, PendingNumbers DEF EchoSound, Stamped
    <2> QED
      BY <1>3, <2>1
  <1>6. Stamped(bridges[w].pending, bridges[w].next, bridges[w].full)'
    <2>1. \A i \in DOMAIN bridges[w].pending : \A j \in 1..bridges[w].pending[i].offset :
             Settled(j, bridges[w].pending[i].at)'
      BY <1>2 DEF EchoSound, Stamped, Settled
    <2> QED
      BY <1>2, <1>5, <2>1 DEF EchoSound, Stamped, Aging
  <1>7. bridges[w].full <= now'
    BY <1>2, <1>3 DEF EchoSound
  <1> QED
    BY <1>2, <1>4, <1>6, <1>7 DEF EchoSound

LEMMA EchoStep ==
    ASSUME TypeOK, TypeOK', StreamInv, AllHeld', EchoInv, [Next]_vars
    PROVE  EchoInv' /\ \A w \in 1..wire : Grace(w)
  <1>0. /\ wire \in Nat /\ 1..wire \subseteq Wires
        /\ now \in Nat /\ (\A w \in Wires : bridges[w].acked \in Nat)
    <2>1. wire \in Nat /\ 1..wire \subseteq Wires /\ now \in Nat
      BY BoundsAssumption DEF TypeOK, PeerTypes, ClockTypes, Wires
    <2>2. \A w \in Wires : bridges[w] \in BridgesDuring
      BY DEF TypeOK, PeerTypes, BridgesBetween
    <2>3. \A w \in Wires : bridges[w].acked \in Nat
      BY <2>2, BoundsAssumption DEF BridgesDuring
    <2> QED
      BY <2>1, <2>3
  <1>1. CASE (\E m \in c2s : PeerReceives(m)) \/ (\E w \in 1..wire : PeerTurns(w))
    <2>1. PICK w \in Wires, r \in BridgesDuring :
             /\ w <= wire /\ Extends(r, bridges[w])
             /\ r = bridges[w] \/ \E m \in c2s : m.wire = w /\ r = Accept(bridges[w], m)
             /\ Turned(w, r)
      BY <1>1, TurnsExtend
    <2>2. PICK held \in BOOLEAN, cut \in BOOLEAN, n \in Nat, k \in Nat, b \in BridgesBetween :
             Moves(w, r, cut, n, k, b) /\ Ends(Matured(r, held), b)
      BY <2>1 DEF Turned
    <2>3. EchoInv' /\ Grace(w)
      BY <2>1, <2>2, TurnEcho
    <2>4. \A v \in Wires \ {w} : bridges'[v] = bridges[v]
      BY <2>2 DEF Moves, TypeOK, PeerTypes
    <2>5. \A v \in Wires \ {w} : Grace(v)
      BY <1>0, <2>4 DEF Grace
    <2> QED
      BY <1>0, <2>3, <2>5
  <1>2. CASE Reconnect
    <2>1. /\ UNCHANGED <<pty, dropped, waited, now, late_ack, resume>> /\ s2c' = {}
          /\ wire + 1 \in Wires /\ bridges'[wire + 1] = Bridge(resume.input, resume.echo)
          /\ \A v \in Wires \ {wire + 1} : bridges'[v] = bridges[v]
      BY <1>0, <1>2, BoundsAssumption DEF Reconnect, TypeOK, PeerTypes, Wires
    <2>2. \A x : AgedTo(x) => AgedTo(x)'
      BY <1>0, <2>1, SettledStays
    <2>3. ASSUME NEW v \in Wires
          PROVE  EchoSound(bridges[v])'
      <3>1. CASE v = wire + 1
        <4>1. /\ bridges'[v].acked = resume.echo /\ bridges'[v].pending = <<>>
              /\ bridges'[v].full = 0 /\ bridges'[v].write = <<>>
          BY <2>1, <3>1 DEF Bridge
        <4>2. AgedTo(bridges[v].acked)'
          BY <2>2, <4>1 DEF EchoInv, AgedTo
        <4>3. DOMAIN <<>> = {} /\ ToSet(<<>>) = {}
          BY DEF ToSet
        <4> QED
          BY <1>0, <2>1, <4>1, <4>2, <4>3 DEF EchoSound, Stamped, Aging
      <3>2. CASE v # wire + 1
        BY <1>0, <2>1, <3>2, BridgeStays
      <3> QED
        BY <3>1, <3>2
    <2>4. EchoInv'
      <3>1. AgedTo(late_ack)' /\ AgedTo(resume.echo)'
        BY <2>1, <2>2 DEF EchoInv, AgedTo
      <3> QED
        BY <2>1, <2>3, <3>1 DEF EchoInv
    <2>5. \A w \in 1..wire : Grace(w)
      <3>1. \A w \in 1..wire : bridges'[w] = bridges[w]
        BY <1>0, <2>1
      <3> QED
        BY <1>0, <3>1 DEF Grace
    <2> QED
      BY <2>4, <2>5
  <1>3. CASE UNCHANGED <<bridges, pty, dropped, waited>> /\ now <= now' /\ s2c' \subseteq s2c
    <2>1. \A x : AgedTo(x) => AgedTo(x)'
      BY <1>3, SettledStays
    <2>2. \A w \in Wires : EchoSound(bridges[w])'
      BY <1>3, BridgeStays
    <2>3. \A w \in 1..wire : Grace(w)
      BY <1>0, <1>3 DEF Grace
    <2>4. \A i \in DOMAIN pty' : pty'[i].at <= now'
      <3>1. pty \in Seq([byte : Bytes, at : 0..MaxTime])
        BY DEF TypeOK, PeerTypes
      <3>2. ASSUME NEW i \in DOMAIN pty
            PROVE  pty[i].at \in Nat /\ pty[i].at <= now
        <4>1. pty[i] \in [byte : Bytes, at : 0..MaxTime]
          BY <3>1, LenProperties, ElementOfSeq
        <4> QED
          BY <4>1, BoundsAssumption DEF EchoInv
      <3>3. now' \in Nat
        BY BoundsAssumption DEF TypeOK, ClockTypes
      <3> QED
        BY <1>0, <1>3, <3>2, <3>3
    <2>5. \A f \in s2c' : AgedTo(f.echo_ack)'
      BY <1>3, <2>1 DEF EchoInv, AgedTo
    <2>6. AgedTo(late_ack)' /\ AgedTo(resume.echo)'
      <3>1. CASE UNCHANGED <<late_ack, resume>>
        BY <2>1, <3>1 DEF EchoInv, AgedTo
      <3>2. CASE ReceiveFrame
        <4>1. PICK f \in s2c : /\ resume' = [input |-> Larger(resume.input, f.input_ack),
                                             echo  |-> Larger(resume.echo, f.echo_ack)]
                               /\ late_ack' = Larger(late_ack, f.echo_ack)
          BY <3>2 DEF ReceiveFrame
        <4>2. resume'.echo \in {resume.echo, f.echo_ack} /\ late_ack' \in {late_ack, f.echo_ack}
          BY <4>1 DEF Larger
        <4>3. AgedTo(resume.echo) /\ AgedTo(late_ack) /\ AgedTo(f.echo_ack)
          BY DEF EchoInv
        <4> QED
          BY <2>1, <4>2, <4>3 DEF AgedTo
      <3>3. UNCHANGED <<late_ack, resume>> \/ ReceiveFrame
        <4>1. CASE (\E m \in c2s : PeerReceives(m)) \/ (\E w \in 1..wire : PeerTurns(w))
          BY <4>1 DEF PeerReceives, PeerTurns
        <4> QED
          BY <4>1 DEF Next, Push, SendMessage, Tick, Reconnect, LoseFrame, LoseMessage, vars
      <3> QED
        BY <3>1, <3>2, <3>3
    <2> QED
      BY <2>2, <2>3, <2>4, <2>5, <2>6 DEF EchoInv
  <1>4. CASE Push \/ SendMessage \/ ReceiveFrame \/ Tick \/ LoseFrame \/ LoseMessage \/ UNCHANGED vars
    <2>1. UNCHANGED <<bridges, pty, dropped, waited>> /\ now <= now' /\ s2c' \subseteq s2c
      BY <1>0, <1>4 DEF Push, SendMessage, ReceiveFrame, Tick, LoseFrame, LoseMessage, vars, peer
    <2> QED
      BY <1>3, <2>1
  <1> QED
    BY <1>1, <1>2, <1>4 DEF Next

LEMMA EchoInvariant == Spec => [](TypeOK /\ StreamInv /\ AllHeld /\ EchoInv)
  <1>1. TypeOK /\ StreamInv /\ AllHeld /\ EchoInv /\ [Next]_vars /\ TypeOK' /\ AllHeld' => EchoInv'
    BY EchoStep
  <1> QED
    BY <1>1, EchoInit, HeldInvariant, PTL DEF Spec

\* RFC 0008's echo acknowledgement over any number of wires, re-homes and
\* losses, and whatever the sockets hold back: a byte that never waited in a
\* bridge's buffer has been with the shell for the grace period.
THEOREM EchoCorrect == Spec => []PromptEchoAged
  <1>1. EchoInv => PromptEchoAged
    BY DEF EchoInv, AgedTo, PromptEchoAged
  <1> QED
    BY <1>1, EchoInvariant, PTL

\* restamp_pending: after a turn that left a bridge's buffer with something in
\* it the bridge acknowledges no echo for the grace period.
THEOREM GraceCorrect == Spec => GraceRestarts
  <1>1. /\ TypeOK /\ StreamInv /\ AllHeld /\ EchoInv /\ [Next]_vars /\ TypeOK' /\ AllHeld'
        => [\A w \in 1..wire : bridges'[w].acked > bridges[w].acked
                                  => now >= bridges[w].full + EchoTimeout]_vars
    BY EchoStep DEF Grace
  <1> QED
    BY <1>1, EchoInvariant, PTL DEF Spec, GraceRestarts

=============================================================================
