------------------------ MODULE AgentChannelsProofs ------------------------
(***************************************************************************)
(* Agent forwarding for any number of connections, bytes, losses and       *)
(* retransmissions: the tables stay within their limits, and every         *)
(* connection is a pipe (AgentPipes) to one connection of the agent.       *)
(***************************************************************************)
EXTENDS AgentChannels, TLAPS, FiniteSetTheorems

-----------------------------------------------------------------------------
(* The inductive invariant.  What is true of one end of a connection, of   *)
(* one end and the other, and of a datagram, are predicates of the values  *)
(* alone, so that what an operation does to a channel can be stated apart  *)
(* from the action that does it.                                           *)

Flags == {"none", "close", "fail"}
ChanSet ==
    [phase : {"unseen", "live", "buried"}, base : Nat, buf : Seq(Nat), next : Nat,
     open : BOOLEAN, term : Flags, sends : Nat, due : BOOLEAN]
MsgSet ==
    [id : Ids, open : BOOLEAN, term : Flags, base : Nat, ack : Nat, data : Seq(Nat)]
SockSet == {"none", "open", "told", "cut"}
Ended == {"told", "cut"}

Typing ==
    /\ opened \in 0..MaxOpens /\ lost \in 0..MaxLoss /\ serving \in BOOLEAN
    /\ chans \in [Ends -> [Ids -> ChanSet]]
    /\ sock \in [Ends -> [Ids -> SockSet]]
    /\ sent \in [Ends -> [Ids -> Nat]]
    /\ got \in [Ends -> [Ids -> Seq(Nat)]]
    /\ net \in [Ends -> SUBSET MsgSet]

\* The bytes of s are those of places from + 1, from + 2, ...
Stretch(s, from) == \A i \in 1..Len(s) : s[i] = from + i

\* One end: the channel and the socket agree, the outbox ends at the last byte
\* read from the socket, and an open socket has been given all that was fresh.
EndOK(ch, s, n, g) ==
    /\ ch.phase = "unseen" <=> s = "none"
    /\ s = "none" => ch = Unseen /\ n = 0 /\ g = <<>>
    /\ s = "open" => ch.phase = "live" /\ ch.term = "none" /\ Len(g) = ch.next
    /\ Len(g) <= ch.next /\ Stretch(g, 0)
    /\ ch.base + Len(ch.buf) = n /\ Stretch(ch.buf, ch.base)

\* One end and the other: nothing is taken in that was not read there, and what
\* is dropped from the outbox has arrived, or is of no use there any more.
LinkOK(ch, och, os, on) ==
    /\ ch.next <= on
    /\ ch.base <= och.next \/ (ch.phase = "buried" /\ os \in Ended)

\* A datagram from an end (och, on) to another (ch, s): a stretch of the bytes
\* read; a terminal comes behind all of them, and nothing before is missing.
MsgOK(m, ch, s, och, on) ==
    /\ och.phase # "unseen"
    /\ Stretch(m.data, m.base) /\ m.base + Len(m.data) <= on
    /\ m.ack <= och.next
    /\ m.term # "none" =>
          /\ och.term # "none"
          /\ s \in Ended \/ (m.base <= ch.next /\ m.base + Len(m.data) = on)

End(e, c) == EndOK(chans[e][c], sock[e][c], sent[e][c], got[e][c])
LinkAt(e, c) ==
    LinkOK(chans[e][c], chans[Other(e)][c], sock[Other(e)][c], sent[Other(e)][c])
Fits(e, m) ==
    MsgOK(m, chans[e][m.id], sock[e][m.id], chans[Other(e)][m.id], sent[Other(e)][m.id])

Wired ==
    /\ \A e \in Ends, c \in Ids : End(e, c) /\ LinkAt(e, c)
    /\ \A e \in Ends, c \in Ids : c > opened => sock[e][c] = "none"
    /\ \A e \in Ends : \A m \in net[e] : Fits(e, m)

Within ==
    /\ \A e \in Ends : Cardinality(Sockets(e)) <= MaxChannels
    /\ Cardinality(Live("daemon")) <= MaxChannels
    /\ ~serving => Sockets("daemon") = {}
    /\ \A e \in Ends, c \in Ids : sent[e][c] <= Limit(e, c)

IndInv == Typing /\ Wired /\ Within

-----------------------------------------------------------------------------
(* What the operations on one channel keep. *)

LEMMA TwoEnds ==
    Ends = {"peer", "daemon"} /\ \A e \in Ends : Other(e) \in Ends /\ Other(e) # e
                                            /\ Other(Other(e)) = e
  BY DEF Ends, Other

\* What remains of an outbox when a prefix is dropped.
LEMMA Dropped ==
    ASSUME NEW s \in Seq(Nat), NEW k \in 0..Len(s), NEW b \in Nat, Stretch(s, b)
    PROVE  /\ SubSeq(s, k + 1, Len(s)) \in Seq(Nat)
           /\ Len(SubSeq(s, k + 1, Len(s))) = Len(s) - k
           /\ Stretch(SubSeq(s, k + 1, Len(s)), b + k)
  BY DEF Stretch

\* A stretch taken from the front.
LEMMA Front ==
    ASSUME NEW s \in Seq(Nat), NEW k \in 0..Len(s), NEW b \in Nat, Stretch(s, b)
    PROVE  /\ SubSeq(s, 1, k) \in Seq(Nat) /\ Len(SubSeq(s, 1, k)) = k
           /\ Stretch(SubSeq(s, 1, k), b)
  BY DEF Stretch

LEMMA Joined ==
    ASSUME NEW s \in Seq(Nat), NEW t \in Seq(Nat), NEW b \in Nat,
           Stretch(s, b), Stretch(t, b + Len(s))
    PROVE  s \o t \in Seq(Nat) /\ Len(s \o t) = Len(s) + Len(t) /\ Stretch(s \o t, b)
  BY DEF Stretch

LEMMA Pushed ==
    ASSUME NEW s \in Seq(Nat), NEW b \in Nat, NEW n \in Nat, Stretch(s, b), b + Len(s) = n
    PROVE  /\ Append(s, n + 1) \in Seq(Nat) /\ Len(Append(s, n + 1)) = Len(s) + 1
           /\ Stretch(Append(s, n + 1), b)
  BY DEF Stretch

LEMMA AckedKeeps ==
    ASSUME NEW ch \in ChanSet, NEW upto \in Nat, Stretch(ch.buf, ch.base)
    PROVE  LET a == Acked(ch, upto)
           IN  /\ a \in ChanSet
               /\ a.phase = ch.phase /\ a.next = ch.next /\ a.term = ch.term
               /\ a.base + Len(a.buf) = ch.base + Len(ch.buf)
               /\ Stretch(a.buf, a.base)
               /\ a.base <= upto \/ a.base = ch.base
  <1> DEFINE n == IF upto > ch.base THEN Smaller(upto - ch.base, Len(ch.buf)) ELSE 0
             rest == SubSeq(ch.buf, n + 1, Len(ch.buf))
             a == Acked(ch, upto)
  <1>1. /\ ch.base \in Nat /\ ch.buf \in Seq(Nat) /\ Len(ch.buf) \in Nat
    BY DEF ChanSet
  <1>2. n \in 0..Len(ch.buf) /\ (n = 0 \/ ch.base + n <= upto)
    BY <1>1 DEF Smaller
  <1>3. rest \in Seq(Nat) /\ Len(rest) = Len(ch.buf) - n /\ Stretch(rest, ch.base + n)
    BY <1>1, <1>2, Dropped
  <1>4. a = [ch EXCEPT !.base = ch.base + n, !.buf = rest]
    BY DEF Acked, ChanSet
  <1> HIDE DEF n, rest, a
  <1>5. ch.base + n \in Nat
    BY <1>1, <1>2
  <1>6. a \in ChanSet
    BY <1>3, <1>4, <1>5 DEF ChanSet
  <1>7. /\ a.phase = ch.phase /\ a.next = ch.next /\ a.term = ch.term
        /\ a.base = ch.base + n /\ a.buf = rest
    BY <1>4 DEF ChanSet
  <1>8. a.base + Len(a.buf) = ch.base + Len(ch.buf)
    BY <1>1, <1>2, <1>3, <1>7
  <1>9. a.base <= upto \/ a.base = ch.base
    BY <1>1, <1>2, <1>7
  <1> QED
    BY <1>3, <1>6, <1>7, <1>8, <1>9 DEF a

\* The bytes of an instruction that are fresh to a channel.
LEMMA FreshKeeps ==
    ASSUME NEW ch \in ChanSet, NEW m \in MsgSet, Stretch(m.data, m.base)
    PROVE  /\ Fresh(ch, m) \in Seq(Nat) /\ Stretch(Fresh(ch, m), ch.next)
           /\ Fresh(ch, m) # <<>> => /\ ch.next + Len(Fresh(ch, m)) = m.base + Len(m.data)
                                     /\ Len(Fresh(ch, m)) > 0
           /\ Fresh(ch, m) = <<>> => \/ ch.next < m.base
                                     \/ m.base + Len(m.data) <= ch.next
  <1>1. ch.next \in Nat /\ m.base \in Nat /\ m.data \in Seq(Nat) /\ Len(m.data) \in Nat
    BY DEF ChanSet, MsgSet
  <1>2. CASE ch.next < m.base
    <2>1. Fresh(ch, m) = <<>>
      BY <1>1, <1>2 DEF Fresh
    <2> QED
      BY <1>2, <2>1 DEF Stretch
  <1>3. CASE m.base <= ch.next
    <2> DEFINE k == ch.next - m.base
    <2>a. ~(m.base > ch.next)
      BY <1>1, <1>3
    <2>b. Fresh(ch, m) = SubSeq(m.data, k + 1, Len(m.data))
      BY <2>a, Zenon DEF Fresh
    <2>c. k \in Nat
      BY <1>1, <1>3
    <2>1. Fresh(ch, m) = SubSeq(m.data, k + 1, Len(m.data)) /\ k \in Nat
      BY <2>b, <2>c
    <2>0. m.base + k = ch.next
      BY <1>1, <1>3
    <2> HIDE DEF k
    <2>2. CASE k <= Len(m.data)
      <3>0. k \in 0..Len(m.data)
        BY <1>1, <2>1, <2>2
      <3>1. /\ Fresh(ch, m) \in Seq(Nat) /\ Len(Fresh(ch, m)) = Len(m.data) - k
            /\ Stretch(Fresh(ch, m), m.base + k)
        BY <1>1, <2>1, <3>0, Dropped
      <3>2. ch.next + Len(Fresh(ch, m)) = m.base + Len(m.data)
        BY <1>1, <2>0, <2>1, <3>1
      <3>3. Len(Fresh(ch, m)) = 0 => m.base + Len(m.data) <= ch.next
        BY <1>1, <3>1, <3>2
      <3> QED
        BY <2>0, <3>1, <3>2, <3>3
    <2>3. CASE k > Len(m.data)
      <3>1. Fresh(ch, m) = <<>>
        BY <1>1, <2>1, <2>3
      <3>2. m.base + Len(m.data) <= ch.next
        BY <1>1, <2>0, <2>1, <2>3
      <3>3. Stretch(<<>>, ch.next)
        BY DEF Stretch
      <3> QED
        BY <3>1, <3>2, <3>3
    <2> QED
      BY <1>1, <2>1, <2>2, <2>3
  <1> QED
    BY <1>1, <1>2, <1>3

LEMMA HeardKeeps ==
    ASSUME NEW ch \in ChanSet, NEW m \in MsgSet,
           Stretch(ch.buf, ch.base), Stretch(m.data, m.base)
    PROVE  LET h == Heard(ch, m)
           IN  /\ h \in ChanSet
               /\ h.phase = ch.phase /\ h.term = ch.term
               /\ h.next = ch.next + Len(Fresh(ch, m))
               /\ h.base + Len(h.buf) = ch.base + Len(ch.buf)
               /\ Stretch(h.buf, h.base)
               /\ h.base <= m.ack \/ h.base = ch.base
  <1> DEFINE o == [ch EXCEPT !.open = FALSE]
             a == Acked(o, m.ack)
             fresh == Fresh(ch, m) # <<>>
             h == Heard(ch, m)
             n == IF fresh THEN m.base + Len(m.data) ELSE a.next
             d == a.due \/ a.buf # <<>> \/ fresh
  <1>1. /\ o \in ChanSet /\ o.phase = ch.phase /\ o.next = ch.next /\ o.term = ch.term
        /\ o.base = ch.base /\ o.buf = ch.buf
    BY DEF ChanSet
  <1>2. m.ack \in Nat /\ m.base \in Nat /\ m.data \in Seq(Nat) /\ ch.next \in Nat
    BY DEF MsgSet, ChanSet
  <1> HIDE DEF o
  <1>3. /\ a \in ChanSet
        /\ a.phase = ch.phase /\ a.next = ch.next /\ a.term = ch.term
        /\ a.base + Len(a.buf) = ch.base + Len(ch.buf)
        /\ Stretch(a.buf, a.base)
        /\ a.base <= m.ack \/ a.base = ch.base
    BY <1>1, <1>2, AckedKeeps
  <1>4. h = [a EXCEPT !.next = n, !.due = d]
    BY <1>3 DEF Heard, o, ChanSet
  <1>5. n = ch.next + Len(Fresh(ch, m)) /\ n \in Nat
    <2>1. CASE fresh
      BY <1>2, <2>1, FreshKeeps
    <2>2. CASE ~fresh
      BY <1>2, <1>3, <2>2
    <2> QED
      BY <2>1, <2>2
  <1>6. d \in BOOLEAN
    OBVIOUS
  <1> HIDE DEF a, fresh, h, n, d
  <1>7. h \in ChanSet
    BY <1>3, <1>4, <1>5, <1>6 DEF ChanSet
  <1>8. /\ h.phase = a.phase /\ h.term = a.term /\ h.next = n
        /\ h.base = a.base /\ h.buf = a.buf
    BY <1>3, <1>4 DEF ChanSet
  <1> QED
    BY <1>3, <1>5, <1>7, <1>8 DEF h

LEMMA BuryKeeps ==
    ASSUME NEW ch \in ChanSet, NEW flag \in Flags, NEW echo \in BOOLEAN
    PROVE  /\ Bury(ch, flag, echo) \in ChanSet
           /\ Bury(ch, flag, echo).phase = "buried"
           /\ Bury(ch, flag, echo).next = ch.next
           /\ Bury(ch, flag, echo).term = flag
           /\ Bury(ch, flag, echo).base + Len(Bury(ch, flag, echo).buf)
                 = ch.base + Len(ch.buf)
           /\ Stretch(Bury(ch, flag, echo).buf, Bury(ch, flag, echo).base)
  <1> DEFINE b == Bury(ch, flag, echo)
             last == ch.base + Len(ch.buf)
  <1>1. last \in Nat /\ TermSends \in Nat
    BY BoundsAssumption DEF ChanSet
  <1>2. b = [ch EXCEPT !.phase = "buried", !.base = last, !.buf = <<>>, !.open = FALSE,
                       !.term = flag, !.sends = TermSends, !.due = echo]
    BY DEF Bury
  <1> HIDE DEF b, last
  <1> DEFINE x == [ch EXCEPT !.phase = "buried", !.base = last, !.buf = <<>>]
             y == [x EXCEPT !.open = FALSE, !.term = flag]
             z == [y EXCEPT !.sends = TermSends]
  <1>a. <<>> \in Seq(Nat)
    OBVIOUS
  <1>x. x \in ChanSet
    BY <1>1, <1>a DEF ChanSet
  <1>y. y \in ChanSet
    <2> HIDE DEF x
    <2> QED
      BY <1>x DEF ChanSet
  <1>z. z \in ChanSet
    <2> HIDE DEF y
    <2> QED
      BY <1>1, <1>y DEF ChanSet
  <1>3. b \in ChanSet
    <2> HIDE DEF z
    <2>1. [z EXCEPT !.due = echo] \in ChanSet
      BY <1>z DEF ChanSet
    <2>2. b = [z EXCEPT !.due = echo]
      BY <1>2, Zenon DEF z, y, x
    <2> QED
      BY <2>1, <2>2
  <1>4. /\ b.phase = "buried" /\ b.next = ch.next /\ b.term = flag
        /\ b.base = last /\ b.buf = <<>>
    BY <1>2 DEF ChanSet
  <1>5. Len(b.buf) = 0 /\ Stretch(b.buf, b.base)
    BY <1>4 DEF Stretch
  <1>6. b.base + Len(b.buf) = ch.base + Len(ch.buf)
    BY <1>1, <1>4, <1>5 DEF last
  <1> QED
    BY <1>3, <1>4, <1>5, <1>6 DEF b

LEMMA TerminateKeeps ==
    ASSUME NEW ch \in ChanSet, NEW flag \in Flags \ {"none"}
    PROVE  LET t == Terminate(ch, flag)
           IN  /\ t \in ChanSet
               /\ t.phase = ch.phase /\ t.next = ch.next /\ t.term # "none"
               /\ t.base = ch.base /\ t.buf = ch.buf
  <1>1. [ch EXCEPT !.term = flag, !.due = TRUE] \in ChanSet
    BY DEF ChanSet
  <1> QED
    BY <1>1 DEF Terminate, ChanSet

LEMMA ChannelKeeps ==
    ASSUME NEW opener \in BOOLEAN
    PROVE  LET ch == Channel(opener)
           IN  /\ ch \in ChanSet /\ ch.phase = "live" /\ ch.next = 0 /\ ch.term = "none"
               /\ ch.base = 0 /\ ch.buf = <<>>
  <1> DEFINE x == [Unseen EXCEPT !.phase = "live"]
             y == [x EXCEPT !.open = opener]
  <1>1. <<>> \in Seq(Nat)
    OBVIOUS
  <1>2. Unseen \in ChanSet
    BY <1>1 DEF Unseen, ChanSet, Flags
  <1>3. x \in ChanSet
    BY <1>2 DEF ChanSet
  <1>4. y \in ChanSet
    <2> HIDE DEF x
    <2> QED
      BY <1>3 DEF ChanSet
  <1>5. [y EXCEPT !.due = TRUE] \in ChanSet
    <2> HIDE DEF y
    <2> QED
      BY <1>4 DEF ChanSet
  <1>6. Channel(opener) = [y EXCEPT !.due = TRUE]
    BY Zenon DEF Channel, y, x
  <1>7. /\ Channel(opener).phase = "live" /\ Channel(opener).next = 0
        /\ Channel(opener).term = "none" /\ Channel(opener).base = 0
        /\ Channel(opener).buf = <<>>
    BY DEF Channel, Unseen
  <1> QED
    BY <1>5, <1>6, <1>7

LEMMA RetiredKeeps ==
    ASSUME NEW ch \in ChanSet
    PROVE  LET x == Retired(ch)
           IN  /\ x \in ChanSet
               /\ x.next = ch.next /\ x.term = ch.term
               /\ x.base = ch.base /\ x.buf = ch.buf
               /\ x.phase = ch.phase \/ (x.phase = "buried" /\ ch.phase = "live"
                                         /\ ch.term # "none")
  <1>1. CASE Retired(ch) = ch
    BY <1>1
  <1>2. CASE Retired(ch) # ch
    <2>1. /\ ch.phase = "live" /\ ch.term # "none" /\ ch.buf = <<>>
          /\ Retired(ch) = Bury(ch, ch.term, FALSE)
      BY <1>2 DEF Retired
    <2>2. ch.base \in Nat /\ Len(ch.buf) = 0 /\ ch.term \in Flags
      BY <2>1 DEF ChanSet
    <2>3. Bury(ch, ch.term, FALSE).base = ch.base /\ Bury(ch, ch.term, FALSE).buf = ch.buf
      BY <2>1, <2>2 DEF Bury, ChanSet
    <2>4. /\ Retired(ch) \in ChanSet /\ Retired(ch).phase = "buried"
          /\ Retired(ch).next = ch.next /\ Retired(ch).term = ch.term
      <3>1. ch.term \in Flags /\ FALSE \in BOOLEAN
        BY <2>2
      <3>2. /\ Bury(ch, ch.term, FALSE) \in ChanSet
            /\ Bury(ch, ch.term, FALSE).phase = "buried"
            /\ Bury(ch, ch.term, FALSE).next = ch.next
            /\ Bury(ch, ch.term, FALSE).term = ch.term
        BY <3>1, BuryKeeps
      <3> QED
        BY <2>1, <3>2
    <2> QED
      BY <2>1, <2>3, <2>4
  <1> QED
    BY <1>1, <1>2

LEMMA EmittedKeeps ==
    ASSUME NEW ch \in ChanSet
    PROVE  LET x == Retired(Emitted(ch))
           IN  /\ x \in ChanSet
               /\ x.next = ch.next /\ x.term = ch.term
               /\ x.base = ch.base /\ x.buf = ch.buf
               /\ x.phase = ch.phase \/ (x.phase = "buried" /\ ch.phase = "live"
                                         /\ ch.term # "none")
  <1> DEFINE k == IF Flag(ch) = "none" THEN ch.sends ELSE Smaller(ch.sends + 1, TermSends)
             x == Emitted(ch)
  <1>1. k \in Nat
    BY BoundsAssumption DEF Smaller, ChanSet
  <1>2. x = [ch EXCEPT !.due = FALSE, !.sends = k]
    BY DEF Emitted
  <1> HIDE DEF k, x
  <1>3. /\ x \in ChanSet /\ x.next = ch.next /\ x.term = ch.term
        /\ x.base = ch.base /\ x.buf = ch.buf /\ x.phase = ch.phase
    BY <1>1, <1>2 DEF ChanSet
  <1> QED
    BY <1>3, RetiredKeeps DEF x

-----------------------------------------------------------------------------
(* One end moves, the other rests.                                         *)

\* What never goes back at an end: the inbox cursor, the bytes read (which stop
\* at a terminal), the terminal, a socket that has ended, a channel made.
Grows(ch, s, n, ch2, s2, n2) ==
    /\ ch.next <= ch2.next /\ n <= n2
    /\ ch.term # "none" => ch2.term # "none" /\ n2 = n
    /\ s \in Ended => s2 \in Ended
    /\ ch.phase # "unseen" => ch2.phase # "unseen"

\* A datagram still fits when either end has grown.
LEMMA MsgStays ==
    ASSUME NEW m \in MsgSet,
           NEW ch \in ChanSet, NEW s, NEW n \in Nat, NEW ch2 \in ChanSet, NEW s2, NEW n2 \in Nat,
           NEW och \in ChanSet, NEW os, NEW on \in Nat,
           NEW och2 \in ChanSet, NEW os2, NEW on2 \in Nat,
           MsgOK(m, ch, s, och, on),
           Grows(ch, s, n, ch2, s2, n2), Grows(och, os, on, och2, os2, on2)
    PROVE  MsgOK(m, ch2, s2, och2, on2)
  <1>1. /\ m.base \in Nat /\ m.ack \in Nat /\ Len(m.data) \in Nat
        /\ ch.next \in Nat /\ ch2.next \in Nat /\ och.next \in Nat /\ och2.next \in Nat
    BY DEF MsgSet, ChanSet
  <1>2. och2.phase # "unseen" /\ Stretch(m.data, m.base)
    BY DEF MsgOK, Grows
  <1>3. m.base + Len(m.data) <= on2 /\ m.ack <= och2.next
    BY <1>1 DEF MsgOK, Grows
  <1>4. ASSUME m.term # "none"
        PROVE  /\ och2.term # "none"
               /\ s2 \in Ended \/ (m.base <= ch2.next /\ m.base + Len(m.data) = on2)
    <2>1. och.term # "none" /\ och2.term # "none" /\ on2 = on
      BY <1>4 DEF MsgOK, Grows
    <2>2. s \in Ended \/ (m.base <= ch.next /\ m.base + Len(m.data) = on)
      BY <1>4 DEF MsgOK
    <2>3. s \in Ended => s2 \in Ended
      BY DEF Grows
    <2>4. m.base <= ch.next => m.base <= ch2.next
      BY <1>1 DEF Grows
    <2> QED
      BY <2>1, <2>2, <2>3, <2>4
  <1> QED
    BY <1>2, <1>3, <1>4 DEF MsgOK

LEMMA LinkStays ==
    ASSUME NEW ch \in ChanSet, NEW och \in ChanSet, NEW os, NEW on \in Nat,
           NEW och2 \in ChanSet, NEW os2, NEW on2 \in Nat,
           LinkOK(ch, och, os, on), Grows(och, os, on, och2, os2, on2)
    PROVE  LinkOK(ch, och2, os2, on2)
  <1>1. ch.next \in Nat /\ ch.base \in Nat /\ och.next \in Nat /\ och2.next \in Nat
    BY DEF ChanSet
  <1>2. ch.next <= on2
    BY <1>1 DEF LinkOK, Grows
  <1>3. ch.base <= och.next => ch.base <= och2.next
    BY <1>1 DEF Grows
  <1>4. os \in Ended => os2 \in Ended
    BY DEF Grows
  <1> QED
    BY <1>2, <1>3, <1>4 DEF LinkOK

\* What an action does at one end.
Moves(e, c) ==
    /\ EndOK(chans'[e][c], sock'[e][c], sent'[e][c], got'[e][c])
    /\ Grows(chans[e][c], sock[e][c], sent[e][c], chans'[e][c], sock'[e][c], sent'[e][c])
    /\ LinkOK(chans'[e][c], chans[Other(e)][c], sock[Other(e)][c], sent[Other(e)][c])

Rests(e) ==
    chans'[e] = chans[e] /\ sock'[e] = sock[e] /\ sent'[e] = sent[e] /\ got'[e] = got[e]

LEMMA GrowsNot ==
    ASSUME NEW ch \in ChanSet, NEW s, NEW n \in Nat
    PROVE  Grows(ch, s, n, ch, s, n)
  BY DEF Grows, ChanSet

LEMMA At ==
    ASSUME Typing, NEW e \in Ends, NEW c \in Ids
    PROVE  /\ chans[e][c] \in ChanSet /\ sock[e][c] \in SockSet
           /\ sent[e][c] \in Nat /\ got[e][c] \in Seq(Nat)
  BY DEF Typing

LEMMA AtNext ==
    ASSUME Typing', NEW e \in Ends, NEW c \in Ids
    PROVE  /\ chans'[e][c] \in ChanSet /\ sock'[e][c] \in SockSet
           /\ sent'[e][c] \in Nat /\ got'[e][c] \in Seq(Nat)
  BY DEF Typing

LEMMA MovesNot ==
    ASSUME Typing, Wired, NEW e \in Ends, NEW c \in Ids,
           chans'[e][c] = chans[e][c], sock'[e][c] = sock[e][c],
           sent'[e][c] = sent[e][c], got'[e][c] = got[e][c]
    PROVE  Moves(e, c)
  <1>1. Grows(chans[e][c], sock[e][c], sent[e][c], chans[e][c], sock[e][c], sent[e][c])
    BY At, GrowsNot
  <1>2. EndOK(chans[e][c], sock[e][c], sent[e][c], got[e][c])
    BY DEF Wired, End
  <1>3. LinkOK(chans[e][c], chans[Other(e)][c], sock[Other(e)][c], sent[Other(e)][c])
    BY DEF Wired, LinkAt
  <1> QED
    BY <1>1, <1>2, <1>3 DEF Moves

LEMMA Advance ==
    ASSUME Typing, Wired, Typing', NEW e \in Ends, \A c \in Ids : Moves(e, c),
           Rests(Other(e)),
           \A c \in Ids : c > opened' => sock'[e][c] = "none" /\ sock[Other(e)][c] = "none",
           \A x \in Ends : \A m \in net'[x] : m \in net[x] \/ Fits(x, m)'
    PROVE  Wired'
  <1> DEFINE o == Other(e)
  <1>0. o \in Ends /\ o # e /\ Other(o) = e /\ (\A x \in Ends : x = e \/ x = o)
    BY DEF Ends, Other
  <1>1. ASSUME NEW c \in Ids
        PROVE  End(e, c)' /\ LinkAt(e, c)'
    <2>1. EndOK(chans'[e][c], sock'[e][c], sent'[e][c], got'[e][c])
      BY DEF Moves
    <2>2. LinkOK(chans'[e][c], chans'[o][c], sock'[o][c], sent'[o][c])
      BY <1>0 DEF Moves, Rests
    <2> QED
      BY <2>1, <2>2 DEF End, LinkAt
  <1>2. ASSUME NEW c \in Ids
        PROVE  End(o, c)' /\ LinkAt(o, c)'
    <2>1. EndOK(chans'[o][c], sock'[o][c], sent'[o][c], got'[o][c])
      BY <1>0 DEF Wired, End, Rests
    <2>2. LinkOK(chans[o][c], chans[e][c], sock[e][c], sent[e][c])
      BY <1>0 DEF Wired, LinkAt
    <2>3. Grows(chans[e][c], sock[e][c], sent[e][c], chans'[e][c], sock'[e][c], sent'[e][c])
      BY DEF Moves
    <2>4. LinkOK(chans[o][c], chans'[e][c], sock'[e][c], sent'[e][c])
      BY <1>0, <2>2, <2>3, At, AtNext, LinkStays
    <2>5. LinkOK(chans'[o][c], chans'[Other(o)][c], sock'[Other(o)][c], sent'[Other(o)][c])
      BY <1>0, <2>4 DEF Rests
    <2> QED
      BY <2>1, <2>5 DEF End, LinkAt
  <1>3. ASSUME NEW x \in Ends, NEW m \in net'[x]
        PROVE  Fits(x, m)'
    <2>1. CASE Fits(x, m)'
      BY <2>1
    <2>2. CASE m \in net[x]
      <3> DEFINE c == m.id
                 y == Other(x)
      <3>1. m \in MsgSet /\ c \in Ids /\ y \in Ends
        BY <2>2 DEF Typing, MsgSet, Ends, Other
      <3>2. ASSUME NEW z \in Ends
            PROVE  Grows(chans[z][c], sock[z][c], sent[z][c],
                         chans'[z][c], sock'[z][c], sent'[z][c])
        <4>1. CASE z = e
          BY <3>1, <4>1 DEF Moves
        <4>2. CASE z = o
          BY <3>1, <4>2, At, GrowsNot DEF Rests
        <4> QED
          BY <1>0, <4>1, <4>2
      <3>3. MsgOK(m, chans[x][c], sock[x][c], chans[y][c], sent[y][c])
        BY <2>2 DEF Wired, Fits
      <3> HIDE DEF c, y
      <3>4. MsgOK(m, chans'[x][c], sock'[x][c], chans'[y][c], sent'[y][c])
        <4>1. /\ Grows(chans[x][c], sock[x][c], sent[x][c],
                       chans'[x][c], sock'[x][c], sent'[x][c])
              /\ Grows(chans[y][c], sock[y][c], sent[y][c],
                       chans'[y][c], sock'[y][c], sent'[y][c])
          BY <3>1, <3>2
        <4>2. /\ chans[x][c] \in ChanSet /\ sent[x][c] \in Nat
              /\ chans[y][c] \in ChanSet /\ sent[y][c] \in Nat
          BY <3>1, At
        <4>3. /\ chans'[x][c] \in ChanSet /\ sent'[x][c] \in Nat
              /\ chans'[y][c] \in ChanSet /\ sent'[y][c] \in Nat
          BY <3>1, AtNext
        <4> QED
          BY <3>1, <3>3, <4>1, <4>2, <4>3, MsgStays
      <3> QED
        BY <3>4 DEF Fits, c, y
    <2> QED
      BY <2>1, <2>2
  <1>4. ASSUME NEW x \in Ends, NEW c \in Ids, c > opened'
        PROVE  sock'[x][c] = "none"
    BY <1>0, <1>4 DEF Rests
  <1> QED
    BY <1>0, <1>1, <1>2, <1>3, <1>4 DEF Wired

-----------------------------------------------------------------------------
(* What each action does to the channel and the socket of one connection.  *)

\* The program or the agent wrote, or closed, or both.
PushedTo(ch, n, more) ==
    IF ~more THEN ch ELSE [ch EXCEPT !.buf = Append(@, n + 1), !.due = TRUE]
ReadOf(ch, n, more, eof) ==
    IF eof THEN Terminate(PushedTo(ch, n, more), "close") ELSE PushedTo(ch, n, more)
SockRead(eof) == IF eof THEN "cut" ELSE "open"
SentRead(n, more) == IF more THEN n + 1 ELSE n

LEMMA ReadKeeps ==
    ASSUME NEW ch \in ChanSet, NEW n \in Nat, NEW g \in Seq(Nat),
           NEW och \in ChanSet, NEW os, NEW on \in Nat,
           NEW more \in BOOLEAN, NEW eof \in BOOLEAN,
           EndOK(ch, "open", n, g), LinkOK(ch, och, os, on)
    PROVE  /\ ReadOf(ch, n, more, eof) \in ChanSet
           /\ SockRead(eof) \in SockSet /\ SentRead(n, more) \in Nat
           /\ ReadOf(ch, n, more, eof).phase = "live"
           /\ EndOK(ReadOf(ch, n, more, eof), SockRead(eof), SentRead(n, more), g)
           /\ Grows(ch, "open", n, ReadOf(ch, n, more, eof), SockRead(eof), SentRead(n, more))
           /\ LinkOK(ReadOf(ch, n, more, eof), och, os, on)
  <1> DEFINE pushed == PushedTo(ch, n, more)
             x == ReadOf(ch, n, more, eof)
             s2 == SockRead(eof)
             n2 == SentRead(n, more)
  <1>1. /\ ch.phase = "live" /\ ch.term = "none" /\ Len(g) = ch.next /\ Stretch(g, 0)
        /\ ch.base + Len(ch.buf) = n /\ Stretch(ch.buf, ch.base)
    BY DEF EndOK
  <1>2. ch.base \in Nat /\ ch.next \in Nat /\ ch.buf \in Seq(Nat) /\ Len(ch.buf) \in Nat
    BY DEF ChanSet
  <1>3. /\ pushed \in ChanSet /\ pushed.phase = "live" /\ pushed.term = "none"
        /\ pushed.next = ch.next /\ pushed.base = ch.base
        /\ pushed.base + Len(pushed.buf) = n2 /\ Stretch(pushed.buf, pushed.base)
    <2>1. CASE ~more
      BY <1>1, <2>1 DEF PushedTo, SentRead
    <2>2. CASE more
      <3> DEFINE b == Append(ch.buf, n + 1)
      <3>1. b \in Seq(Nat) /\ Len(b) = Len(ch.buf) + 1 /\ Stretch(b, ch.base)
        BY <1>1, <1>2, Pushed
      <3>2. pushed = [ch EXCEPT !.buf = b, !.due = TRUE]
        BY <2>2 DEF PushedTo
      <3> HIDE DEF b, pushed
      <3>3. /\ pushed \in ChanSet /\ pushed.phase = ch.phase /\ pushed.term = ch.term
            /\ pushed.next = ch.next /\ pushed.base = ch.base /\ pushed.buf = b
        BY <3>1, <3>2 DEF ChanSet
      <3>4. n2 = n + 1 /\ Stretch(pushed.buf, pushed.base)
        BY <2>2, <3>1, <3>3 DEF SentRead
      <3>5. pushed.base + Len(pushed.buf) = ch.base + (Len(ch.buf) + 1)
        BY <3>1, <3>3
      <3>6. pushed.base + Len(pushed.buf) = n2
        <4>1. ch.base + (Len(ch.buf) + 1) = n + 1
          BY <1>1, <1>2
        <4>2. n2 = n + 1
          BY <3>4
        <4> QED
          BY <3>5, <4>1, <4>2
      <3> QED
        BY <1>1, <3>3, <3>4, <3>6
    <2> QED
      BY <2>1, <2>2
  <1>4. "close" \in Flags \ {"none"}
    BY DEF Flags
  <1>x. x = IF eof THEN Terminate(pushed, "close") ELSE pushed
    BY DEF ReadOf
  <1> HIDE DEF pushed, x
  <1>5. /\ x \in ChanSet /\ x.phase = "live" /\ x.next = ch.next
        /\ x.base = ch.base /\ x.base + Len(x.buf) = n2 /\ Stretch(x.buf, x.base)
        /\ ~eof => x.term = "none"
    <2>1. CASE ~eof
      BY <1>3, <1>x, <2>1
    <2>2. CASE eof
      BY <1>3, <1>4, <1>x, <2>2, TerminateKeeps
    <2> QED
      BY <2>1, <2>2
  <1>6. s2 \in SockSet /\ s2 # "none" /\ n2 \in Nat /\ n <= n2 /\ (s2 = "open" => ~eof)
    BY DEF SockSet, SockRead, SentRead
  <1>7. EndOK(x, s2, n2, g)
    BY <1>1, <1>2, <1>5, <1>6 DEF EndOK
  <1>8. Grows(ch, "open", n, x, s2, n2)
    BY <1>1, <1>2, <1>5, <1>6 DEF Grows, Ended
  <1>9. LinkOK(x, och, os, on)
    BY <1>1, <1>5 DEF LinkOK
  <1> QED
    BY <1>5, <1>6, <1>7, <1>8, <1>9 DEF x

\* The socket is closed here, and the other end is to be told.
LEMMA CloseKeeps ==
    ASSUME NEW ch \in ChanSet, NEW n \in Nat, NEW g \in Seq(Nat),
           NEW och \in ChanSet, NEW os, NEW on \in Nat, NEW x,
           EndOK(ch, "open", n, g), LinkOK(ch, och, os, on),
           x = Terminate(ch, "close")
    PROVE  /\ x \in ChanSet /\ x.phase = ch.phase
           /\ EndOK(x, "cut", n, g) /\ Grows(ch, "open", n, x, "cut", n)
           /\ LinkOK(x, och, os, on)
  <1>1. /\ ch.phase = "live" /\ ch.term = "none" /\ Len(g) = ch.next /\ Stretch(g, 0)
        /\ ch.base + Len(ch.buf) = n /\ Stretch(ch.buf, ch.base)
    BY DEF EndOK
  <1>2. /\ x \in ChanSet /\ x.phase = ch.phase /\ x.next = ch.next /\ x.term # "none"
        /\ x.base = ch.base /\ x.buf = ch.buf
    <2>1. "close" \in Flags \ {"none"}
      BY DEF Flags
    <2> QED
      BY <2>1, TerminateKeeps
  <1>3. ch.next \in Nat /\ ch.base \in Nat
    BY DEF ChanSet
  <1> QED
    BY <1>1, <1>2, <1>3 DEF EndOK, Grows, LinkOK, Ended

\* An instruction is sent, or none; a terminal that has had its quota retires.
Passes(ch, x) ==
    x = Retired(ch) \/ (ch.phase # "unseen" /\ x = Retired(Emitted(ch)))

LEMMA SendKeeps ==
    ASSUME NEW ch \in ChanSet, NEW s, NEW n \in Nat, NEW g \in Seq(Nat),
           NEW och \in ChanSet, NEW os, NEW on \in Nat, NEW x,
           EndOK(ch, s, n, g), LinkOK(ch, och, os, on), Passes(ch, x)
    PROVE  /\ x \in ChanSet
           /\ x.phase = "live" => ch.phase = "live"
           /\ EndOK(x, s, n, g) /\ Grows(ch, s, n, x, s, n) /\ LinkOK(x, och, os, on)
  <1>1. /\ x \in ChanSet /\ x.next = ch.next /\ x.term = ch.term
        /\ x.base = ch.base /\ x.buf = ch.buf
        /\ x.phase = ch.phase \/ (x.phase = "buried" /\ ch.phase = "live"
                                  /\ ch.term # "none")
    BY RetiredKeeps, EmittedKeeps DEF Passes
  <1>2. ch.phase = "unseen" => x = ch
    BY DEF Passes, Retired
  <1>3. ch.next \in Nat /\ ch.base \in Nat /\ och.next \in Nat
    BY DEF ChanSet
  <1>4. /\ ch.phase = "unseen" <=> s = "none"
        /\ s = "none" => ch = Unseen /\ n = 0 /\ g = <<>>
        /\ s = "open" => ch.phase = "live" /\ ch.term = "none" /\ Len(g) = ch.next
        /\ Len(g) <= ch.next /\ Stretch(g, 0)
        /\ ch.base + Len(ch.buf) = n /\ Stretch(ch.buf, ch.base)
    BY DEF EndOK
  <1>5. /\ x.phase = "unseen" <=> s = "none"
        /\ s = "none" => x = Unseen /\ n = 0 /\ g = <<>>
        /\ s = "open" => x.phase = "live" /\ x.term = "none" /\ Len(g) = x.next
    BY <1>1, <1>2, <1>4
  <1>6. EndOK(x, s, n, g)
    BY <1>1, <1>4, <1>5 DEF EndOK
  <1>7. Grows(ch, s, n, x, s, n)
    BY <1>1, <1>3 DEF Grows
  <1>8. LinkOK(x, och, os, on)
    BY <1>1 DEF LinkOK
  <1> QED
    BY <1>1, <1>6, <1>7, <1>8

\* What is sent fits the end it goes to.
LEMMA InstructionFits ==
    ASSUME NEW c \in Ids, NEW ch \in ChanSet, NEW s, NEW n \in Nat, NEW g \in Seq(Nat),
           NEW rch \in ChanSet, NEW rs, NEW rn \in Nat,
           EndOK(ch, s, n, g), LinkOK(ch, rch, rs, rn), ch.phase # "unseen"
    PROVE  /\ Instruction(c, ch) \in MsgSet /\ Instruction(c, ch).id = c
           /\ MsgOK(Instruction(c, ch), rch, rs, ch, n)
  <1> DEFINE m == Instruction(c, ch)
             k == Smaller(Len(ch.buf), Chunk)
             d == Taken(ch)
             f == Flag(ch)
  <1>1. /\ ch.base \in Nat /\ ch.next \in Nat /\ ch.buf \in Seq(Nat) /\ Len(ch.buf) \in Nat
        /\ ch.open \in BOOLEAN /\ ch.term \in Flags /\ rch.next \in Nat
    BY DEF ChanSet
  <1>2. ch.base + Len(ch.buf) = n /\ Stretch(ch.buf, ch.base)
    BY DEF EndOK
  <1>3. k \in 0..Len(ch.buf) /\ (Len(ch.buf) <= Chunk => k = Len(ch.buf))
    BY <1>1, BoundsAssumption DEF Smaller
  <1> HIDE DEF k
  <1>4. d \in Seq(Nat) /\ Len(d) = k /\ Stretch(d, ch.base)
    BY <1>1, <1>2, <1>3, Front DEF Taken, k
  <1>5. f \in Flags /\ (f # "none" => ch.term # "none" /\ k = Len(ch.buf))
    BY <1>1, <1>3 DEF Flag, Flags
  <1>6. /\ m.id = c /\ m.open = ch.open /\ m.term = f /\ m.base = ch.base
        /\ m.ack = ch.next /\ m.data = d
    BY DEF Instruction
  <1> HIDE DEF d, f
  <1>7. m \in MsgSet
    <2>1. m = [id |-> c, open |-> ch.open, term |-> f, base |-> ch.base,
               ack |-> ch.next, data |-> d]
      BY DEF Instruction, f, d
    <2> QED
      BY <1>1, <1>4, <1>5, <2>1 DEF MsgSet
  <1> HIDE DEF m
  <1>8. ch.base + Len(d) <= n /\ (f # "none" => ch.base + Len(d) = n)
    BY <1>1, <1>2, <1>3, <1>4, <1>5
  <1>9. f # "none" => rs \in Ended \/ ch.base <= rch.next
    BY DEF LinkOK
  <1>10. MsgOK(m, rch, rs, ch, n)
    BY <1>1, <1>4, <1>5, <1>6, <1>8, <1>9 DEF MsgOK
  <1> QED
    BY <1>6, <1>7, <1>10 DEF m

\* An identifier is refused: nothing of it is kept but the refusal.
LEMMA RefuseKeeps ==
    ASSUME NEW ch, NEW n \in Nat, NEW g \in Seq(Nat),
           NEW och \in ChanSet, NEW os, NEW on \in Nat, EndOK(ch, "none", n, g)
    PROVE  LET x == Bury(Channel(FALSE), "fail", TRUE)
           IN  /\ x \in ChanSet /\ x.phase = "buried"
               /\ EndOK(x, "cut", n, g) /\ Grows(ch, "none", n, x, "cut", n)
               /\ LinkOK(x, och, os, on)
  <1> DEFINE x == Bury(Channel(FALSE), "fail", TRUE)
  <1>1. ch = Unseen /\ n = 0 /\ g = <<>>
    BY DEF EndOK
  <1>2. /\ Channel(FALSE) \in ChanSet /\ Channel(FALSE).next = 0
        /\ Channel(FALSE).base = 0 /\ Channel(FALSE).buf = <<>>
    BY ChannelKeeps
  <1>3. "fail" \in Flags
    BY DEF Flags
  <1>4. /\ x \in ChanSet /\ x.phase = "buried" /\ x.next = 0 /\ x.term = "fail"
        /\ x.base + Len(x.buf) = 0 + Len(<<>>) /\ Stretch(x.buf, x.base)
    <2>1. /\ x \in ChanSet /\ x.phase = "buried" /\ x.next = Channel(FALSE).next
          /\ x.term = "fail" /\ Stretch(x.buf, x.base)
          /\ x.base + Len(x.buf) = Channel(FALSE).base + Len(Channel(FALSE).buf)
      BY <1>2, <1>3, BuryKeeps
    <2> HIDE DEF x
    <2> QED
      BY <1>2, <2>1
  <1> HIDE DEF x
  <1>5. x.base \in Nat /\ Len(x.buf) \in Nat /\ och.next \in Nat
    BY <1>4 DEF ChanSet
  <1>6. x.base = 0 /\ x.base + Len(x.buf) = 0
    BY <1>4, <1>5
  <1>7. Unseen.term = "none" /\ Unseen.next = 0 /\ Unseen.phase = "unseen"
    BY DEF Unseen
  <1>8. EndOK(x, "cut", n, g)
    BY <1>1, <1>4, <1>6 DEF EndOK, Stretch
  <1>9. Grows(ch, "none", n, x, "cut", n)
    BY <1>1, <1>4, <1>7 DEF Grows, Ended
  <1>10. LinkOK(x, och, os, on)
    BY <1>4, <1>5, <1>6 DEF LinkOK
  <1> QED
    BY <1>4, <1>8, <1>9, <1>10 DEF x

\* A closed identifier answers again, or not.
LEMMA AnswerKeeps ==
    ASSUME NEW ch \in ChanSet, NEW s, NEW n \in Nat, NEW g \in Seq(Nat),
           NEW och \in ChanSet, NEW os, NEW on \in Nat, NEW due \in BOOLEAN,
           EndOK(ch, s, n, g), LinkOK(ch, och, os, on), ch.phase = "buried"
    PROVE  LET x == [ch EXCEPT !.due = due]
           IN  /\ x \in ChanSet /\ x.phase = "buried"
               /\ EndOK(x, s, n, g) /\ Grows(ch, s, n, x, s, n)
               /\ LinkOK(x, och, os, on)
  <1> DEFINE x == [ch EXCEPT !.due = due]
  <1>1. /\ x \in ChanSet /\ x.phase = ch.phase /\ x.next = ch.next /\ x.term = ch.term
        /\ x.base = ch.base /\ x.buf = ch.buf
    BY DEF ChanSet
  <1>2. ch.next \in Nat
    BY DEF ChanSet
  <1> HIDE DEF x
  <1>3. EndOK(x, s, n, g) /\ Grows(ch, s, n, x, s, n) /\ LinkOK(x, och, os, on)
    BY <1>1, <1>2 DEF EndOK, Grows, LinkOK
  <1> QED
    BY <1>1, <1>3 DEF x

\* What HearLive makes of an end (ch, s, g): its channel, its socket and what
\* has been written to it.
Comes(ch, s, g, m, new, connected, ok, x, s2, g2) ==
    LET ch0 == IF new THEN Channel(FALSE) ELSE ch
        heard == Heard(ch0, m)
        open == s = "open" \/ connected
        bytes == IF open THEN Fresh(ch0, m) ELSE <<>>
    IN  /\ bytes = <<>> => ok
        /\ g2 = IF ok THEN g \o bytes ELSE g
        /\ s2 = IF ~open THEN IF s = "none" THEN "cut" ELSE s
                ELSE IF ~ok THEN "cut"
                ELSE IF m.term = "none" THEN "open" ELSE "told"
        /\ x = IF m.term # "none"
               THEN Bury(heard, IF heard.term = "none" THEN "close" ELSE heard.term, TRUE)
               ELSE IF new /\ ~connected THEN Terminate(heard, "fail")
               ELSE heard

\* From outside, the end is as it was, or has been cut, or has been given bytes
\* and perhaps the end of the stream behind the last of them.
LEMMA HearKeeps ==
    ASSUME NEW ch \in ChanSet, NEW s \in SockSet, NEW n \in Nat, NEW g \in Seq(Nat),
           NEW och \in ChanSet, NEW os \in SockSet, NEW on \in Nat, NEW og, NEW m \in MsgSet,
           NEW new \in BOOLEAN, NEW connected \in BOOLEAN, NEW ok \in BOOLEAN,
           NEW x, NEW s2, NEW g2,
           EndOK(ch, s, n, g), LinkOK(ch, och, os, on), EndOK(och, os, on, og),
           MsgOK(m, ch, s, och, on),
           new => ch.phase = "unseen", ~new => ch.phase = "live", connected => new,
           Comes(ch, s, g, m, new, connected, ok, x, s2, g2)
    PROVE  /\ x \in ChanSet /\ s2 \in SockSet /\ g2 \in Seq(Nat)
           /\ EndOK(x, s2, n, g2) /\ Grows(ch, s, n, x, s2, n) /\ LinkOK(x, och, os, on)
           /\ \/ s2 = s /\ g2 = g
              \/ s2 = "cut" /\ g2 = g /\ (s = "open" \/ new)
              \/ /\ s = "open" \/ new
                 /\ Len(g) <= Len(g2)
                 /\ s2 = "open" \/ (s2 = "told" /\ Len(g2) = on /\ os # "open")
           /\ s2 = "open" => s = "open" \/ connected
  <1> DEFINE ch0 == IF new THEN Channel(FALSE) ELSE ch
             heard == Heard(ch0, m)
             open == s = "open" \/ connected
             bytes == IF open THEN Fresh(ch0, m) ELSE <<>>
             flag == IF heard.term = "none" THEN "close" ELSE heard.term
  <1>a. bytes = <<>> => ok
    BY Zenon DEF Comes
  <1>b. g2 = IF ok THEN g \o bytes ELSE g
    BY Zenon DEF Comes
  <1>c. s2 = IF ~open THEN IF s = "none" THEN "cut" ELSE s
             ELSE IF ~ok THEN "cut"
             ELSE IF m.term = "none" THEN "open" ELSE "told"
    BY Zenon DEF Comes
  <1>d. x = IF m.term # "none" THEN Bury(heard, flag, TRUE)
            ELSE IF new /\ ~connected THEN Terminate(heard, "fail")
            ELSE heard
    BY Zenon DEF Comes
  <1>1. /\ ch.phase = "unseen" <=> s = "none"
        /\ s = "none" => ch = Unseen /\ n = 0 /\ g = <<>>
        /\ s = "open" => ch.phase = "live" /\ ch.term = "none" /\ Len(g) = ch.next
        /\ Len(g) <= ch.next /\ Stretch(g, 0)
        /\ ch.base + Len(ch.buf) = n /\ Stretch(ch.buf, ch.base)
    BY DEF EndOK
  <1>2. /\ ch.base \in Nat /\ ch.next \in Nat /\ Len(ch.buf) \in Nat /\ Len(g) \in Nat
        /\ och.next \in Nat /\ m.base \in Nat /\ m.ack \in Nat /\ Len(m.data) \in Nat
    BY DEF ChanSet, MsgSet
  <1>3. /\ och.phase # "unseen" /\ Stretch(m.data, m.base)
        /\ m.base + Len(m.data) <= on /\ m.ack <= och.next
    BY DEF MsgOK
  <1>4. new => s = "none" /\ ch = Unseen /\ Len(g) = ch.next
    BY <1>1 DEF Unseen
  \* The channel of an identifier first seen starts as an unseen one stood.
  <1>5. /\ ch0 \in ChanSet /\ ch0.phase = "live" /\ ch0.next = ch.next
        /\ ch0.term = ch.term /\ ch0.base = ch.base /\ ch0.buf = ch.buf
    <2>1. CASE new
      <3>1. /\ Channel(FALSE) \in ChanSet /\ Channel(FALSE).phase = "live"
            /\ Channel(FALSE).next = 0 /\ Channel(FALSE).term = "none"
            /\ Channel(FALSE).base = 0 /\ Channel(FALSE).buf = <<>>
        BY ChannelKeeps
      <3>2. ch0 = Channel(FALSE)
        BY <2>1 DEF ch0
      <3>3. /\ ch.next = 0 /\ ch.term = "none" /\ ch.base = 0 /\ ch.buf = <<>>
        BY <1>4, <2>1 DEF Unseen
      <3> HIDE DEF ch0
      <3> QED
        BY <3>1, <3>2, <3>3
    <2>2. CASE ~new
      BY <2>2
    <2> QED
      BY <2>1, <2>2
  <1> HIDE DEF ch0
  <1> DEFINE fresh == Fresh(ch0, m)
  <1>6. /\ fresh \in Seq(Nat) /\ Len(fresh) \in Nat /\ Stretch(fresh, ch.next)
        /\ fresh # <<>> => ch.next + Len(fresh) = m.base + Len(m.data)
        /\ fresh = <<>> => ch.next < m.base \/ m.base + Len(m.data) <= ch.next
    BY <1>3, <1>5, FreshKeeps
  <1>7. /\ heard \in ChanSet /\ heard.phase = "live" /\ heard.term = ch.term
        /\ heard.next = ch.next + Len(fresh)
        /\ heard.base + Len(heard.buf) = n /\ Stretch(heard.buf, heard.base)
        /\ heard.base <= m.ack \/ heard.base = ch.base
    BY <1>1, <1>3, <1>5, HeardKeeps
  <1> HIDE DEF heard
  <1>e. open => bytes = fresh
    OBVIOUS
  <1>f. ~open => bytes = <<>>
    OBVIOUS
  <1> HIDE DEF fresh, bytes
  <1>8. ch.next <= heard.next /\ heard.next <= on
    <2>1. ch.next <= on
      BY DEF LinkOK
    <2> QED
      BY <1>2, <1>3, <1>6, <1>7, <2>1
  <1>9. heard.base <= och.next
    <2>1. ch.phase # "buried"
      OBVIOUS
    <2>2. ch.base <= och.next
      BY <2>1 DEF LinkOK
    <2>3. heard.base \in Nat
      BY <1>7 DEF ChanSet
    <2> QED
      BY <1>2, <1>3, <1>7, <2>2, <2>3
  <1>10. /\ x \in ChanSet /\ x.next = heard.next /\ x.phase \in {"live", "buried"}
         /\ x.base + Len(x.buf) = n /\ Stretch(x.buf, x.base)
         /\ m.term # "none" => x.phase = "buried" /\ x.term # "none"
         /\ m.term = "none" => x.phase = "live" /\ x.base = heard.base
         /\ m.term = "none" /\ ~(new /\ ~connected) => x.term = ch.term
         /\ m.term = "none" /\ new /\ ~connected => x.term # "none"
    <2>1. CASE m.term # "none"
      <3>1. flag \in Flags /\ flag # "none" /\ TRUE \in BOOLEAN
        BY <1>7 DEF ChanSet, Flags
      <3>2. x = Bury(heard, flag, TRUE)
        BY <1>d, <2>1
      <3> DEFINE y == Bury(heard, flag, TRUE)
      <3> HIDE DEF flag
      <3>3. /\ y \in ChanSet /\ y.phase = "buried" /\ y.next = heard.next
            /\ y.term = flag /\ Stretch(y.buf, y.base)
            /\ y.base + Len(y.buf) = heard.base + Len(heard.buf)
        BY <1>7, <3>1, BuryKeeps
      <3> QED
        BY <1>7, <2>1, <3>1, <3>2, <3>3
    <2>2. CASE m.term = "none" /\ new /\ ~connected
      <3>1. "fail" \in Flags \ {"none"}
        BY DEF Flags
      <3>2. x = Terminate(heard, "fail")
        BY <1>d, <2>2
      <3> QED
        BY <1>7, <2>2, <3>1, <3>2, TerminateKeeps
    <2>3. CASE m.term = "none" /\ ~(new /\ ~connected)
      <3>1. x = heard
        BY <1>d, <2>3
      <3> QED
        BY <1>7, <2>3, <3>1
    <2> QED
      BY <2>1, <2>2, <2>3
  <1>11. /\ bytes \in Seq(Nat) /\ Len(bytes) \in Nat /\ Len(bytes) <= Len(fresh)
         /\ open => bytes = fresh /\ Len(g) = ch.next
         /\ ~open => bytes = <<>>
    <2>1. CASE open
      BY <1>1, <1>4, <1>6, <1>e, <2>1
    <2>2. CASE ~open
      BY <1>6, <1>f, <2>2
    <2> QED
      BY <2>1, <2>2
  <1>12. /\ g2 \in Seq(Nat) /\ Stretch(g2, 0) /\ Len(g) <= Len(g2)
         /\ ~open => g2 = g
         /\ ~ok => g2 = g
         /\ open /\ ok => Len(g2) = x.next
         /\ Len(g2) <= x.next
    <2>1. CASE open /\ ok
      <3>1. g2 = g \o fresh /\ Len(g) = ch.next
        BY <1>b, <1>11, <2>1
      <3>2. Stretch(fresh, 0 + Len(g))
        BY <1>2, <1>6, <3>1
      <3>3. g2 \in Seq(Nat) /\ Len(g2) = Len(g) + Len(fresh) /\ Stretch(g2, 0)
        BY <1>1, <1>6, <3>1, <3>2, Joined
      <3>4. Len(g2) = x.next /\ Len(g) <= Len(g2)
        BY <1>2, <1>6, <1>7, <1>10, <3>1, <3>3
      <3>5. Len(g2) <= x.next
        <4>1. Len(g2) \in Nat
          BY <3>3
        <4> QED
          BY <3>4, <4>1
      <3> QED
        BY <2>1, <3>3, <3>4, <3>5
    <2>2. CASE ~(open /\ ok)
      <3>1. g2 = g
        <4>1. CASE ok
          BY <1>b, <1>11, <2>2, <4>1
        <4>2. CASE ~ok
          BY <1>b, <4>2
        <4> QED
          BY <4>1, <4>2
      <3>2. Len(g) <= x.next
        BY <1>1, <1>2, <1>6, <1>7, <1>8, <1>10
      <3> QED
        BY <1>1, <1>2, <2>2, <3>1, <3>2
    <2> QED
      BY <2>1, <2>2
  <1>13. /\ s2 \in SockSet /\ s2 # "none"
         /\ s2 = "open" => open /\ ok /\ m.term = "none"
         /\ s2 = "told" => ~open \/ (open /\ ok /\ m.term # "none")
         /\ ~open /\ s # "none" => s2 = s
         /\ ~open /\ s = "none" => s2 = "cut"
         /\ open => s2 \in {"open", "told"} \/ (s2 = "cut" /\ ~ok)
         /\ s \in Ended => s2 = s
    <2>1. s \in Ended => ~open
      BY <1>4 DEF Ended
    <2> QED
      BY <1>c, <2>1 DEF SockSet, Ended
  <1>14. EndOK(x, s2, n, g2)
    <2>1. s2 = "open" => x.phase = "live" /\ x.term = "none" /\ Len(g2) = x.next
      <3>1. ASSUME s2 = "open"
            PROVE  ch.term = "none" /\ ~(new /\ ~connected)
        BY <1>1, <1>4, <1>13, <3>1 DEF Unseen
      <3> QED
        BY <1>10, <1>12, <1>13, <3>1
    <2> QED
      BY <1>10, <1>12, <1>13, <2>1 DEF EndOK
  <1>15. Grows(ch, s, n, x, s2, n)
    <2>1. ch.term # "none" => x.term # "none"
      BY <1>10
    <2> QED
      BY <1>8, <1>10, <1>13, <2>1 DEF Grows
  \* The sender of a terminal has no socket open any more.
  <1>16. m.term # "none" => os \in Ended
    <2>1. m.term # "none" => och.term # "none"
      BY DEF MsgOK
    <2>2. os # "none" /\ (os = "open" => och.term = "none")
      BY <1>3 DEF EndOK
    <2> QED
      BY <2>1, <2>2 DEF SockSet, Ended
  <1>17. LinkOK(x, och, os, on)
    BY <1>8, <1>9, <1>10, <1>16 DEF LinkOK
  <1>18. ASSUME open, ok, m.term # "none"
         PROVE  Len(g2) = on /\ os # "open"
    <2>1. s \notin Ended
      BY <1>4, <1>18 DEF Ended
    <2>2. m.base <= ch.next /\ m.base + Len(m.data) = on
      BY <1>18, <2>1 DEF MsgOK
    <2>3. heard.next = on
      BY <1>2, <1>6, <1>7, <1>8, <2>2
    <2> QED
      BY <1>10, <1>12, <1>16, <1>18, <2>3 DEF Ended
  <1>19. \/ s2 = s /\ g2 = g
         \/ s2 = "cut" /\ g2 = g /\ (s = "open" \/ new)
         \/ /\ s = "open" \/ new
            /\ Len(g) <= Len(g2)
            /\ s2 = "open" \/ (s2 = "told" /\ Len(g2) = on /\ os # "open")
    <2>1. CASE ~open
      BY <1>1, <1>12, <1>13, <2>1
    <2>2. CASE open /\ ~ok
      BY <1>12, <1>13, <2>2
    <2>3. CASE open /\ ok
      BY <1>12, <1>13, <1>18, <2>3
    <2> QED
      BY <2>1, <2>2, <2>3
  <1>20. s2 = "open" => s = "open" \/ connected
    BY <1>13
  <1> QED
    BY <1>10, <1>12, <1>13, <1>14, <1>15, <1>17, <1>19, <1>20

-----------------------------------------------------------------------------
(* From one connection to the whole state. *)

\* The numbers an operation leaves, and datagrams that only disappear.
Counts ==
    /\ opened' \in 0..MaxOpens /\ opened <= opened'
    /\ lost' \in 0..MaxLoss /\ serving' \in BOOLEAN
    /\ \A y \in Ends : net'[y] \subseteq net[y]
    /\ net' \in [Ends -> SUBSET MsgSet]

\* Only the connection c is touched, and only at the end e.
Sets(e, c, x, s2, n2, g2) ==
    /\ chans' = [chans EXCEPT ![e][c] = x]
    /\ sock' = [sock EXCEPT ![e][c] = s2]
    /\ sent' = [sent EXCEPT ![e][c] = n2]
    /\ got' = [got EXCEPT ![e][c] = g2]

Suits(e, c, x, s2, n2, g2) ==
    /\ EndOK(x, s2, n2, g2)
    /\ Grows(chans[e][c], sock[e][c], sent[e][c], x, s2, n2)
    /\ LinkOK(x, chans[Other(e)][c], sock[Other(e)][c], sent[Other(e)][c])

LEMMA SetsFacts ==
    ASSUME Typing, NEW e \in Ends, NEW c \in Ids, NEW x \in ChanSet, NEW s2 \in SockSet,
           NEW n2 \in Nat, NEW g2 \in Seq(Nat), Sets(e, c, x, s2, n2, g2)
    PROVE  /\ chans' \in [Ends -> [Ids -> ChanSet]] /\ sock' \in [Ends -> [Ids -> SockSet]]
           /\ sent' \in [Ends -> [Ids -> Nat]] /\ got' \in [Ends -> [Ids -> Seq(Nat)]]
           /\ chans'[e][c] = x /\ sock'[e][c] = s2 /\ sent'[e][c] = n2 /\ got'[e][c] = g2
           /\ \A d \in Ids : d # c => /\ chans'[e][d] = chans[e][d] /\ sock'[e][d] = sock[e][d]
                                      /\ sent'[e][d] = sent[e][d] /\ got'[e][d] = got[e][d]
           /\ Rests(Other(e))
  <1>1. /\ chans' \in [Ends -> [Ids -> ChanSet]] /\ chans'[e][c] = x
        /\ \A d \in Ids : d # c => chans'[e][d] = chans[e][d]
        /\ chans'[Other(e)] = chans[Other(e)]
    <2>1. chans \in [Ends -> [Ids -> ChanSet]]
      BY DEF Typing
    <2>2. chans' = [chans EXCEPT ![e][c] = x]
      BY DEF Sets
    <2> QED
      BY <2>1, <2>2, TwoEnds
  <1>2. /\ sock' \in [Ends -> [Ids -> SockSet]] /\ sock'[e][c] = s2
        /\ \A d \in Ids : d # c => sock'[e][d] = sock[e][d]
        /\ sock'[Other(e)] = sock[Other(e)]
    <2>1. sock \in [Ends -> [Ids -> SockSet]]
      BY DEF Typing
    <2>2. sock' = [sock EXCEPT ![e][c] = s2]
      BY DEF Sets
    <2> QED
      BY <2>1, <2>2, TwoEnds
  <1>3. /\ sent' \in [Ends -> [Ids -> Nat]] /\ sent'[e][c] = n2
        /\ \A d \in Ids : d # c => sent'[e][d] = sent[e][d]
        /\ sent'[Other(e)] = sent[Other(e)]
    <2>1. sent \in [Ends -> [Ids -> Nat]]
      BY DEF Typing
    <2>2. sent' = [sent EXCEPT ![e][c] = n2]
      BY DEF Sets
    <2> QED
      BY <2>1, <2>2, TwoEnds
  <1>4. /\ got' \in [Ends -> [Ids -> Seq(Nat)]] /\ got'[e][c] = g2
        /\ \A d \in Ids : d # c => got'[e][d] = got[e][d]
        /\ got'[Other(e)] = got[Other(e)]
    <2>1. got \in [Ends -> [Ids -> Seq(Nat)]]
      BY DEF Typing
    <2>2. got' = [got EXCEPT ![e][c] = g2]
      BY DEF Sets
    <2> QED
      BY <2>1, <2>2, TwoEnds
  <1> QED
    BY <1>1, <1>2, <1>3, <1>4 DEF Rests

LEMMA Single ==
    ASSUME Typing, Wired, NEW e \in Ends, NEW c \in Ids, NEW x \in ChanSet, NEW s2 \in SockSet,
           NEW n2 \in Nat, NEW g2 \in Seq(Nat), Sets(e, c, x, s2, n2, g2),
           Suits(e, c, x, s2, n2, g2), Counts, c <= opened'
    PROVE  Typing' /\ Wired'
  <1>1. /\ chans' \in [Ends -> [Ids -> ChanSet]] /\ sock' \in [Ends -> [Ids -> SockSet]]
        /\ sent' \in [Ends -> [Ids -> Nat]] /\ got' \in [Ends -> [Ids -> Seq(Nat)]]
        /\ chans'[e][c] = x /\ sock'[e][c] = s2 /\ sent'[e][c] = n2 /\ got'[e][c] = g2
        /\ \A d \in Ids : d # c => /\ chans'[e][d] = chans[e][d] /\ sock'[e][d] = sock[e][d]
                                   /\ sent'[e][d] = sent[e][d] /\ got'[e][d] = got[e][d]
        /\ Rests(Other(e))
    BY SetsFacts
  <1>2. Typing'
    BY <1>1 DEF Typing, Counts
  <1>3. ASSUME NEW d \in Ids
        PROVE  Moves(e, d)
    <2>1. CASE d = c
      BY <1>1, <2>1 DEF Moves, Suits
    <2>2. CASE d # c
      BY <1>1, <2>2, MovesNot
    <2> QED
      BY <2>1, <2>2
  <1>4. ASSUME NEW d \in Ids, d > opened'
        PROVE  sock'[e][d] = "none" /\ sock[Other(e)][d] = "none"
    <2>1. d # c /\ d > opened
      BY <1>4 DEF Counts, Typing, Ids
    <2>2. sock[e][d] = "none" /\ sock[Other(e)][d] = "none"
      BY <2>1, TwoEnds DEF Wired
    <2> QED
      BY <1>1, <2>1, <2>2
  <1>5. ASSUME NEW y \in Ends, NEW m \in net'[y]
        PROVE  m \in net[y] \/ Fits(y, m)'
    BY DEF Counts
  <1> QED
    BY <1>1, <1>2, <1>3, <1>4, <1>5, Advance

-----------------------------------------------------------------------------
(* The limits. *)

LEMMA Finite ==
    ASSUME NEW S \in SUBSET Ids
    PROVE  IsFiniteSet(S) /\ Cardinality(S) \in Nat
  <1>1. IsFiniteSet(Ids)
    BY BoundsAssumption, FS_Interval DEF Ids
  <1> QED
    BY <1>1, FS_Subset, FS_CardinalityType

LEMMA Fewer ==
    ASSUME NEW S \in SUBSET Ids, NEW T \in SUBSET S
    PROVE  Cardinality(T) <= Cardinality(S)
  BY Finite, FS_Subset

LEMMA OneMore ==
    ASSUME NEW S \in SUBSET Ids, NEW c \in Ids, NEW T \in SUBSET (S \cup {c}),
           Cardinality(S) < MaxChannels
    PROVE  Cardinality(T) <= MaxChannels
  <1>1. IsFiniteSet(S) /\ Cardinality(S) \in Nat
    BY Finite
  <1>2. Cardinality(S \cup {c}) \in Nat /\ Cardinality(S \cup {c}) <= Cardinality(S) + 1
    <2>1. \/ Cardinality(S \cup {c}) = Cardinality(S)
          \/ Cardinality(S \cup {c}) = Cardinality(S) + 1
      BY <1>1, FS_AddElement
    <2> QED
      BY <1>1, <2>1
  <1>3. Cardinality(T) \in Nat /\ Cardinality(T) <= Cardinality(S \cup {c})
    BY Finite, Fewer
  <1> QED
    BY <1>1, <1>2, <1>3, BoundsAssumption

\* No more are open than were, or one more where there was room.
Opening(S, T) ==
    T \subseteq S \/ (Cardinality(S) < MaxChannels /\ \E c \in Ids : T \subseteq S \cup {c})

LEMMA WithinNext ==
    ASSUME Within, \A e \in Ends : Opening(Sockets(e), Sockets(e)'),
           Opening(Live("daemon"), Live("daemon")'),
           ~serving' => Sockets("daemon")' = {},
           \A e \in Ends, c \in Ids : sent'[e][c] <= Limit(e, c)
    PROVE  Within'
  <1>1. ASSUME NEW S \in SUBSET Ids, NEW T \in SUBSET Ids, Opening(S, T),
               Cardinality(S) <= MaxChannels
        PROVE  Cardinality(T) <= MaxChannels
    <2>1. CASE T \subseteq S
      BY <1>1, <2>1, Finite, Fewer, BoundsAssumption
    <2>2. CASE ~(T \subseteq S)
      BY <1>1, <2>2, OneMore DEF Opening
    <2> QED
      BY <2>1, <2>2
  <1>2. ASSUME NEW e \in Ends
        PROVE  Cardinality(Sockets(e)') <= MaxChannels
    <2>1. Sockets(e) \in SUBSET Ids /\ Sockets(e)' \in SUBSET Ids
      BY DEF Sockets
    <2>2. Cardinality(Sockets(e)) <= MaxChannels
      BY DEF Within
    <2> QED
      BY <1>1, <2>1, <2>2
  <1>3. Cardinality(Live("daemon")') <= MaxChannels
    <2>1. Live("daemon") \in SUBSET Ids /\ Live("daemon")' \in SUBSET Ids
      BY DEF Live
    <2>2. Cardinality(Live("daemon")) <= MaxChannels
      BY DEF Within
    <2> QED
      BY <1>1, <2>1, <2>2
  <1>4. \A e \in Ends, c \in Ids : Limit(e, c)' = Limit(e, c)
    BY DEF Limit
  <1> QED
    BY <1>2, <1>3, <1>4 DEF Within

-----------------------------------------------------------------------------
(* The steps of AgentPipes, in terms of the tables. *)

\* n bytes, named by their places.
Wr(n) == [i \in 1..n |-> i]

LEMMA Writing ==
    ASSUME NEW n \in Nat
    PROVE  Wr(n) \in Seq(Nat) /\ Len(Wr(n)) = n /\ Wr(n + 1) = Append(Wr(n), n + 1)
  <1>1. Wr(n) \in Seq(Nat) /\ Len(Wr(n)) = n
    BY DEF Wr
  <1>2. Wr(n + 1) = Append(Wr(n), n + 1)
    BY DEF Wr
  <1> QED
    BY <1>1, <1>2

LEMMA Reading ==
    ASSUME NEW n \in Nat, NEW g \in Seq(Nat), Stretch(g, 0), Len(g) <= n
    PROVE  g = SubSeq(Wr(n), 1, Len(g))
  BY DEF Stretch, Wr

\* The bytes written, as a value of AgentPipes.
Written == [e \in Ends |-> [c \in Ids |-> Wr(sent[e][c])]]

LEMMA PipesEnds ==
    Pipes!Ends = Ends /\ \A e \in Ends : Pipes!Other(e) = Other(e)
  BY DEF Pipes!Ends, Ends, Pipes!Other, Other

LEMMA MapsNot ==
    ASSUME sock' = sock, sent' = sent, got' = got
    PROVE  UNCHANGED Pipes!vars
  BY DEF Pipes!vars

LEMMA MapsConnect ==
    ASSUME NEW c \in Ids, sock["peer"][c] = "none",
           sock' = [sock EXCEPT !["peer"][c] = "open"], sent' = sent, got' = got
    PROVE  Pipes!Next
  <1>1. Pipes!Connect(c)
    BY DEF Pipes!Connect
  <1> QED
    BY <1>1 DEF Pipes!Next

LEMMA MapsCutOne ==
    ASSUME Typing, NEW e \in Ends, NEW c \in Ids,
           sock[e][c] = "open" \/ (e = "daemon" /\ sock[e][c] = "none"),
           sock' = [sock EXCEPT ![e][c] = "cut"], sent' = sent, got' = got
    PROVE  Pipes!Next
  <1>1. sock' = [sock EXCEPT ![e] = [d \in Ids |-> IF d \in {c} THEN "cut" ELSE @[d]]]
    BY DEF Typing
  <1>2. \A d \in {c} : sock[e][d] = "open" \/ (e = "daemon" /\ sock[e][d] = "none")
    OBVIOUS
  <1>3. {c} \in SUBSET Ids
    OBVIOUS
  <1>4. Pipes!Cut(e)
    BY <1>1, <1>2, <1>3 DEF Pipes!Cut
  <1> QED
    BY <1>4, PipesEnds DEF Pipes!Next

LEMMA MapsWrite ==
    ASSUME Typing, NEW e \in Ends, NEW c \in Ids, NEW s2 \in {"open", "cut"},
           sock[e][c] = "open", sent[e][c] < Limit(e, c),
           sock' = [sock EXCEPT ![e][c] = s2],
           sent' = [sent EXCEPT ![e][c] = sent[e][c] + 1], got' = got
    PROVE  Pipes!Next
  <1> DEFINE n == sent[e][c]
  <1>1. n \in Nat /\ sent \in [Ends -> [Ids -> Nat]]
    BY DEF Typing
  <1>2. n + 1 \in 1..(MaxRequest + MaxReply)
    <2>1. Limit(e, c) \in Nat /\ Limit(e, c) <= MaxRequest + MaxReply
      BY BoundsAssumption DEF Limit
    <2> QED
      BY <1>1, <2>1, BoundsAssumption
  <1>3. Written' = [Written EXCEPT ![e][c] = Append(@, n + 1)]
    <2>1. Written' = [Written EXCEPT ![e][c] = Wr(n + 1)]
      BY <1>1 DEF Written
    <2>2. Written[e][c] = Wr(n)
      BY DEF Written
    <2>3. Wr(n + 1) = Append(Written[e][c], n + 1)
      BY <1>1, <2>2, Writing
    <2> QED
      BY <2>1, <2>3
  <1>4. Pipes!Write(e, c)
    BY <1>2, <1>3 DEF Pipes!Write, Written, Wr
  <1> QED
    BY <1>4, PipesEnds DEF Pipes!Next

LEMMA MapsHear ==
    ASSUME Typing, NEW e \in Ends, NEW c \in Ids, NEW s2, NEW g2 \in Seq(Nat),
           sock[e][c] = "open" \/ (e = "daemon" /\ sock[e][c] = "none"),
           sock[Other(e)][c] # "none",
           Stretch(g2, 0), Len(got[e][c]) <= Len(g2), Len(g2) <= sent[Other(e)][c],
           \/ s2 = "open"
           \/ s2 = "told" /\ Len(g2) = sent[Other(e)][c] /\ sock[Other(e)][c] # "open",
           sock' = [sock EXCEPT ![e][c] = s2], sent' = sent,
           got' = [got EXCEPT ![e][c] = g2]
    PROVE  Pipes!Next
  <1> DEFINE n == sent[Other(e)][c]
             k == Len(g2)
  <1>1. n \in Nat /\ Len(got[e][c]) \in Nat /\ k \in Nat
    BY TwoEnds DEF Typing
  <1>2. Written[Other(e)][c] = Wr(n) /\ Len(Wr(n)) = n
    BY <1>1, TwoEnds, Writing DEF Written
  <1>3. k \in Len(got[e][c]) .. Len(Written[Other(e)][c])
    BY <1>1, <1>2
  <1>4. g2 = SubSeq(Written[Other(e)][c], 1, k)
    BY <1>1, <1>2, Reading
  <1>5. UNCHANGED Written
    BY DEF Written
  <1>6. got' = [got EXCEPT ![e][c] = SubSeq(Written[Other(e)][c], 1, k)]
    BY <1>4
  <1>7. s2 = "told" => k = Len(Written[Other(e)][c]) /\ sock[Other(e)][c] # "open"
    BY <1>2
  <1>8. Pipes!Hear(e, c)
    <2>1. Pipes!Other(e) = Other(e)
      BY PipesEnds
    <2> QED
      BY <1>3, <1>5, <1>6, <1>7, <2>1 DEF Pipes!Hear, Written, Wr
  <1> QED
    BY <1>8, PipesEnds DEF Pipes!Next

-----------------------------------------------------------------------------
(* Every step keeps the invariant and is a step of AgentPipes, or none. *)

Right == IndInv' /\ (Pipes!Next \/ UNCHANGED Pipes!vars)

LEMMA SetsOpen ==
    ASSUME Typing, NEW e \in Ends, NEW c \in Ids, NEW x \in ChanSet, NEW s2 \in SockSet,
           NEW n2 \in Nat, NEW g2 \in Seq(Nat), Sets(e, c, x, s2, n2, g2)
    PROVE  /\ Sockets(e)' \subseteq Sockets(e) \cup {c}
           /\ (s2 = "open" => sock[e][c] = "open") => Sockets(e)' \subseteq Sockets(e)
           /\ Sockets(Other(e))' = Sockets(Other(e))
           /\ Live(e)' \subseteq Live(e) \cup {c}
           /\ (x.phase = "live" => chans[e][c].phase = "live") => Live(e)' \subseteq Live(e)
           /\ Live(Other(e))' = Live(Other(e))
  <1>1. /\ chans'[e][c] = x /\ sock'[e][c] = s2
        /\ \A d \in Ids : d # c => chans'[e][d] = chans[e][d] /\ sock'[e][d] = sock[e][d]
        /\ chans'[Other(e)] = chans[Other(e)] /\ sock'[Other(e)] = sock[Other(e)]
    <2>1. /\ chans'[e][c] = x /\ sock'[e][c] = s2
          /\ \A d \in Ids : d # c => chans'[e][d] = chans[e][d] /\ sock'[e][d] = sock[e][d]
      BY SetsFacts
    <2>2. Rests(Other(e))
      BY SetsFacts
    <2> QED
      BY <2>1, <2>2 DEF Rests
  <1> QED
    BY <1>1 DEF Sockets, Live

LEMMA WithinSingle ==
    ASSUME Typing, Within, NEW e \in Ends, NEW c \in Ids, NEW x \in ChanSet,
           NEW s2 \in SockSet, NEW n2 \in Nat, NEW g2 \in Seq(Nat),
           Sets(e, c, x, s2, n2, g2), n2 <= Limit(e, c), serving' = serving,
           s2 = "open" => \/ sock[e][c] = "open"
                          \/ /\ Cardinality(Sockets(e)) < MaxChannels
                             /\ e = "daemon" => serving,
           x.phase = "live" /\ e = "daemon" => \/ chans[e][c].phase = "live"
                                               \/ Cardinality(Live("daemon")) < MaxChannels
    PROVE  Within'
  <1>0. Other(e) \in Ends /\ \A y \in Ends : y = e \/ y = Other(e)
    BY DEF Ends, Other
  <1>1. /\ Sockets(e)' \subseteq Sockets(e) \cup {c}
        /\ (s2 = "open" => sock[e][c] = "open") => Sockets(e)' \subseteq Sockets(e)
        /\ Sockets(Other(e))' = Sockets(Other(e))
        /\ Live(e)' \subseteq Live(e) \cup {c}
        /\ (x.phase = "live" => chans[e][c].phase = "live") => Live(e)' \subseteq Live(e)
        /\ Live(Other(e))' = Live(Other(e))
    BY SetsOpen
  <1>2. Opening(Sockets(e), Sockets(e)')
    BY <1>1 DEF Opening
  <1>3. Opening(Sockets(Other(e)), Sockets(Other(e))')
    BY <1>1 DEF Opening
  <1>4. Opening(Live("daemon"), Live("daemon")')
    <2>1. CASE e = "daemon"
      BY <1>1, <2>1 DEF Opening
    <2>2. CASE e # "daemon"
      <3>1. Other(e) = "daemon"
        BY <2>2 DEF Ends, Other
      <3> QED
        BY <1>1, <3>1 DEF Opening
    <2> QED
      BY <2>1, <2>2
  <1>5. ~serving' => Sockets("daemon")' = {}
    <2>1. CASE e = "daemon"
      BY <1>1, <2>1 DEF Within
    <2>2. CASE e # "daemon"
      <3>1. Other(e) = "daemon"
        BY <2>2 DEF Ends, Other
      <3> QED
        BY <1>1, <3>1 DEF Within
    <2> QED
      BY <2>1, <2>2
  <1>6. ASSUME NEW y \in Ends, NEW d \in Ids
        PROVE  sent'[y][d] <= Limit(y, d)
    <2>1. /\ sent'[e][c] = n2 /\ sent'[Other(e)] = sent[Other(e)]
          /\ \A b \in Ids : b # c => sent'[e][b] = sent[e][b]
      <3>1. sent'[e][c] = n2 /\ \A b \in Ids : b # c => sent'[e][b] = sent[e][b]
        BY SetsFacts
      <3>2. Rests(Other(e))
        BY SetsFacts
      <3> QED
        BY <3>1, <3>2 DEF Rests
    <2>2. sent[y][d] <= Limit(y, d)
      BY DEF Within
    <2> QED
      BY <1>0, <2>1, <2>2
  <1>7. \A y \in Ends : Opening(Sockets(y), Sockets(y)')
    BY <1>0, <1>2, <1>3
  <1> QED
    BY <1>4, <1>5, <1>6, <1>7, WithinNext

\* The parts of the table an action leaves, written as Sets wants them.
LEMMA Unset ==
    ASSUME Typing, NEW e \in Ends, NEW c \in Ids
    PROVE  /\ sock = [sock EXCEPT ![e][c] = sock[e][c]]
           /\ sent = [sent EXCEPT ![e][c] = sent[e][c]]
           /\ got = [got EXCEPT ![e][c] = got[e][c]]
  BY DEF Typing

LEMMA EndFacts ==
    ASSUME Typing, Wired, NEW e \in Ends, NEW c \in Ids
    PROVE  /\ EndOK(chans[e][c], sock[e][c], sent[e][c], got[e][c])
           /\ LinkOK(chans[e][c], chans[Other(e)][c], sock[Other(e)][c], sent[Other(e)][c])
           /\ chans[e][c] \in ChanSet /\ sock[e][c] \in SockSet
           /\ sent[e][c] \in Nat /\ got[e][c] \in Seq(Nat)
           /\ chans[Other(e)][c] \in ChanSet /\ sock[Other(e)][c] \in SockSet
           /\ sent[Other(e)][c] \in Nat
  <1>1. Other(e) \in Ends
    BY TwoEnds
  <1> QED
    BY <1>1, At DEF Wired, End, LinkAt

LEMMA AcceptRight ==
    ASSUME IndInv, Accept
    PROVE  Right
  <1> DEFINE c == opened + 1
             x == Channel(TRUE)
             n == sent["peer"][c]
             g == got["peer"][c]
  <1>0. Typing /\ Wired /\ Within /\ "peer" \in Ends /\ "daemon" \in Ends
        /\ Other("peer") = "daemon"
    BY DEF IndInv, Ends, Other
  <1>1. /\ c \in Ids /\ opened' = c /\ c \in 0..MaxOpens /\ opened \in Nat /\ c > opened
    BY <1>0, BoundsAssumption DEF Accept, Typing, Ids
  <1>2. /\ chans' = [chans EXCEPT !["peer"][c] = x]
        /\ sock' = [sock EXCEPT !["peer"][c] = "open"]
        /\ sent' = sent /\ got' = got /\ serving' = serving /\ net' = net /\ lost' = lost
        /\ Cardinality(Sockets("peer")) < MaxChannels
    BY <1>1 DEF Accept
  <1>3. sock["peer"][c] = "none" /\ sock["daemon"][c] = "none"
    BY <1>0, <1>1 DEF Wired
  <1>4. /\ EndOK(chans["peer"][c], sock["peer"][c], n, g)
        /\ chans["daemon"][c] \in ChanSet /\ sent["daemon"][c] \in Nat
        /\ n \in Nat /\ g \in Seq(Nat)
    BY <1>0, <1>1, EndFacts
  <1>5. chans["peer"][c] = Unseen /\ n = 0 /\ g = <<>>
    BY <1>3, <1>4 DEF EndOK
  <1>6. /\ x \in ChanSet /\ x.phase = "live" /\ x.next = 0 /\ x.term = "none"
        /\ x.base = 0 /\ x.buf = <<>>
    BY ChannelKeeps
  <1> HIDE DEF x, c, n, g
  <1>7. Suits("peer", c, x, "open", n, g)
    <2>1. EndOK(x, "open", n, g)
      BY <1>5, <1>6 DEF EndOK, Stretch
    <2>2. Grows(chans["peer"][c], sock["peer"][c], n, x, "open", n)
      BY <1>3, <1>4, <1>5, <1>6 DEF Grows, Unseen, Ended
    <2>3. LinkOK(x, chans["daemon"][c], sock["daemon"][c], sent["daemon"][c])
      BY <1>4, <1>6 DEF LinkOK, ChanSet
    <2> QED
      BY <1>0, <2>1, <2>2, <2>3 DEF Suits, n
  <1>8. Sets("peer", c, x, "open", n, g)
    BY <1>0, <1>1, <1>2, Unset DEF Sets, n, g
  <1>9. Counts
    BY <1>0, <1>1, <1>2 DEF Counts, Typing
  <1>10. "open" \in SockSet
    BY DEF SockSet
  <1>11. Typing' /\ Wired'
    BY <1>0, <1>1, <1>4, <1>6, <1>7, <1>8, <1>9, <1>10, Single
  <1>12. Within'
    <2>1. n <= Limit("peer", c)
      BY <1>0, <1>1 DEF Within, n
    <2> QED
      BY <1>0, <1>1, <1>2, <1>4, <1>6, <1>8, <1>10, <2>1, WithinSingle
  <1>13. Pipes!Next
    BY <1>1, <1>2, <1>3, MapsConnect
  <1> QED
    BY <1>11, <1>12, <1>13 DEF Right, IndInv

LEMMA ReadRight ==
    ASSUME IndInv, NEW e \in Ends, ReadChannel(e)
    PROVE  Right
  <1>0. Typing /\ Wired /\ Within
    BY DEF IndInv
  <1>1. PICK c \in Sockets(e), more \in BOOLEAN, eof \in BOOLEAN :
            LET pushed == IF ~more THEN chans[e][c]
                          ELSE [chans[e][c] EXCEPT !.buf = Append(@, sent[e][c] + 1),
                                                   !.due = TRUE]
            IN  /\ more \/ eof
                /\ more => Speaks(e, c)
                /\ sent' = [sent EXCEPT ![e][c] = IF more THEN @ + 1 ELSE @]
                /\ chans' = [chans EXCEPT ![e][c] =
                                IF eof THEN Terminate(pushed, "close") ELSE pushed]
                /\ sock' = [sock EXCEPT ![e][c] = IF eof THEN "cut" ELSE @]
                /\ UNCHANGED <<opened, got, serving, net, lost>>
    BY DEF ReadChannel
  <1> DEFINE ch == chans[e][c]
             n == sent[e][c]
             g == got[e][c]
             x == ReadOf(ch, n, more, eof)
             s2 == SockRead(eof)
             n2 == SentRead(n, more)
  <1>2. c \in Ids /\ sock[e][c] = "open"
    BY DEF Sockets
  <1>3. /\ chans' = [chans EXCEPT ![e][c] = x] /\ sock' = [sock EXCEPT ![e][c] = s2]
        /\ sent' = [sent EXCEPT ![e][c] = n2] /\ got' = got
        /\ opened' = opened /\ serving' = serving /\ net' = net /\ lost' = lost
    BY <1>1, <1>2 DEF ReadOf, PushedTo, SockRead, SentRead
  <1>4. (more => Speaks(e, c)) /\ (more \/ eof)
    BY <1>1
  <1>5. /\ EndOK(ch, "open", n, g)
        /\ LinkOK(ch, chans[Other(e)][c], sock[Other(e)][c], sent[Other(e)][c])
        /\ ch \in ChanSet /\ n \in Nat /\ g \in Seq(Nat)
        /\ chans[Other(e)][c] \in ChanSet /\ sent[Other(e)][c] \in Nat
    BY <1>0, <1>2, EndFacts
  <1>7. ch.phase = "live"
    BY <1>5 DEF EndOK
  <1>8. s2 \in {"open", "cut"} /\ (n2 = n \/ (n2 = n + 1 /\ more))
    BY DEF SockRead, SentRead
  <1>9. n2 = n => s2 = "cut"
    BY <1>4, <1>5 DEF SockRead, SentRead
  <1>6. /\ x \in ChanSet /\ s2 \in SockSet /\ n2 \in Nat /\ x.phase = "live"
        /\ EndOK(x, s2, n2, g) /\ Grows(ch, "open", n, x, s2, n2)
        /\ LinkOK(x, chans[Other(e)][c], sock[Other(e)][c], sent[Other(e)][c])
    BY <1>5, ReadKeeps
  <1> HIDE DEF x, s2, n2
  <1>10. Suits(e, c, x, s2, n2, g)
    BY <1>2, <1>6 DEF Suits
  <1>11. Sets(e, c, x, s2, n2, g)
    BY <1>0, <1>2, <1>3, Unset DEF Sets
  <1>12. c <= opened'
    <2>1. ~(c > opened)
      BY <1>0, <1>2 DEF Wired
    <2> QED
      BY <1>0, <1>2, <1>3, <2>1 DEF Typing, Ids
  <1>13. Counts
    BY <1>0, <1>3 DEF Counts, Typing
  <1>14. Typing' /\ Wired'
    BY <1>0, <1>2, <1>5, <1>6, <1>10, <1>11, <1>12, <1>13, Single
  <1>15. n2 <= Limit(e, c)
    <2>1. n <= Limit(e, c)
      BY <1>0, <1>2 DEF Within
    <2>2. more => n < Limit(e, c)
      BY <1>4 DEF Speaks
    <2>3. Limit(e, c) \in Nat
      BY BoundsAssumption DEF Limit
    <2> QED
      BY <1>5, <1>8, <2>1, <2>2, <2>3
  <1>16. Within'
    BY <1>0, <1>2, <1>3, <1>5, <1>6, <1>7, <1>11, <1>15, WithinSingle
  <1>17. Pipes!Next
    <2>1. CASE n2 = n
      <3>1. sent' = sent /\ sock' = [sock EXCEPT ![e][c] = "cut"]
        BY <1>0, <1>2, <1>3, <1>9, <2>1, Unset
      <3> QED
        BY <1>0, <1>2, <1>3, <3>1, MapsCutOne
    <2>2. CASE n2 = n + 1 /\ more
      <3>1. sent[e][c] < Limit(e, c)
        BY <1>4, <2>2 DEF Speaks
      <3> QED
        BY <1>0, <1>2, <1>3, <1>8, <2>2, <3>1, MapsWrite
    <2> QED
      BY <1>8, <2>1, <2>2
  <1> QED
    BY <1>14, <1>16, <1>17 DEF Right, IndInv

LEMMA CloseRight ==
    ASSUME IndInv, NEW e \in Ends, CloseAll(e), serving' \in BOOLEAN,
           e = "daemon" \/ serving' = serving
    PROVE  Right
  <1> DEFINE X == [c \in Ids |-> IF sock[e][c] = "open" THEN Terminate(chans[e][c], "close")
                                 ELSE chans[e][c]]
             S == [c \in Ids |-> IF sock[e][c] = "open" THEN "cut" ELSE sock[e][c]]
  <1>0. Typing /\ Wired /\ Within /\ Other(e) \in Ends /\ Other(e) # e
    BY TwoEnds DEF IndInv
  <1>1. chans' = [chans EXCEPT ![e] = X] /\ sock' = [sock EXCEPT ![e] = S]
    BY DEF CloseAll
  <1>2. /\ sent' = sent /\ got' = got /\ net' = net /\ opened' = opened /\ lost' = lost
    BY DEF CloseAll
  <1>3. ASSUME NEW c \in Ids, sock[e][c] = "open"
        PROVE  /\ X[c] \in ChanSet /\ X[c].phase = chans[e][c].phase /\ S[c] = "cut"
               /\ EndOK(X[c], "cut", sent[e][c], got[e][c])
               /\ Grows(chans[e][c], sock[e][c], sent[e][c], X[c], "cut", sent[e][c])
               /\ LinkOK(X[c], chans[Other(e)][c], sock[Other(e)][c], sent[Other(e)][c])
    <2>1. /\ EndOK(chans[e][c], "open", sent[e][c], got[e][c])
          /\ LinkOK(chans[e][c], chans[Other(e)][c], sock[Other(e)][c], sent[Other(e)][c])
          /\ chans[e][c] \in ChanSet /\ sent[e][c] \in Nat /\ got[e][c] \in Seq(Nat)
          /\ chans[Other(e)][c] \in ChanSet /\ sent[Other(e)][c] \in Nat
      BY <1>0, <1>3, EndFacts
    <2>2. X[c] = Terminate(chans[e][c], "close") /\ S[c] = "cut"
      BY <1>3
    <2> HIDE DEF X, S
    <2> QED
      BY <1>3, <2>1, <2>2, CloseKeeps
  <1>4. ASSUME NEW c \in Ids, sock[e][c] # "open"
        PROVE  X[c] = chans[e][c] /\ S[c] = sock[e][c]
    BY <1>4
  <1>5. X \in [Ids -> ChanSet] /\ S \in [Ids -> SockSet]
    <2>1. ASSUME NEW c \in Ids
          PROVE  X[c] \in ChanSet /\ S[c] \in SockSet
      BY <1>0, <1>3, <1>4, At DEF SockSet
    <2> QED
      BY <2>1
  <1> HIDE DEF X, S
  <1>6. /\ chans' \in [Ends -> [Ids -> ChanSet]] /\ sock' \in [Ends -> [Ids -> SockSet]]
        /\ chans'[e] = X /\ sock'[e] = S
        /\ chans'[Other(e)] = chans[Other(e)] /\ sock'[Other(e)] = sock[Other(e)]
    BY <1>0, <1>1, <1>5 DEF Typing
  <1>7. Typing'
    BY <1>0, <1>2, <1>6 DEF Typing
  <1>8. ASSUME NEW c \in Ids
        PROVE  Moves(e, c)
    <2>1. CASE sock[e][c] = "open"
      BY <1>2, <1>3, <1>6, <2>1 DEF Moves
    <2>2. CASE sock[e][c] # "open"
      BY <1>0, <1>2, <1>4, <1>6, <2>2, MovesNot
    <2> QED
      BY <2>1, <2>2
  <1>9. Rests(Other(e))
    BY <1>2, <1>6 DEF Rests
  <1>10. ASSUME NEW c \in Ids, c > opened'
         PROVE  sock'[e][c] = "none" /\ sock[Other(e)][c] = "none"
    BY <1>0, <1>2, <1>4, <1>6, <1>10 DEF Wired
  <1>11. Wired'
    BY <1>0, <1>2, <1>7, <1>8, <1>9, <1>10, Advance
  <1>12. Sockets(e)' = {}
    BY <1>3, <1>4, <1>6 DEF Sockets
  <1>13. Sockets(Other(e))' = Sockets(Other(e)) /\ Live(Other(e))' = Live(Other(e))
    BY <1>6 DEF Sockets, Live
  <1>14. Live(e)' \subseteq Live(e)
    BY <1>3, <1>4, <1>6 DEF Live
  <1>15. \A y \in Ends : y = e \/ y = Other(e)
    BY DEF Ends, Other
  <1>16. Within'
    <2>1. \A y \in Ends : Opening(Sockets(y), Sockets(y)')
      BY <1>12, <1>13, <1>15 DEF Opening
    <2>2. Opening(Live("daemon"), Live("daemon")')
      BY <1>13, <1>14, <1>15 DEF Opening, Ends
    <2>3. ~serving' => Sockets("daemon")' = {}
      <3>1. CASE e = "daemon"
        BY <1>12, <3>1
      <3>2. CASE e # "daemon"
        BY <1>0, <1>13, <1>15, <3>2 DEF Within, Ends
      <3> QED
        BY <3>1, <3>2
    <2>4. \A y \in Ends, c \in Ids : sent'[y][c] <= Limit(y, c)
      BY <1>0, <1>2 DEF Within
    <2> QED
      BY <1>0, <2>1, <2>2, <2>3, <2>4, WithinNext
  <1>17. Pipes!Next
    <2>1. sock' = [sock EXCEPT ![e] =
                      [c \in Ids |-> IF c \in Sockets(e) THEN "cut" ELSE @[c]]]
      <3>1. S = [c \in Ids |-> IF c \in Sockets(e) THEN "cut" ELSE sock[e][c]]
        BY DEF S, Sockets
      <3> QED
        BY <1>1, <3>1
    <2>2. Sockets(e) \in SUBSET Ids /\ \A c \in Sockets(e) : sock[e][c] = "open"
      BY DEF Sockets
    <2>3. Pipes!Cut(e)
      BY <1>2, <2>1, <2>2 DEF Pipes!Cut
    <2> QED
      BY <2>3, PipesEnds DEF Pipes!Next
  <1> QED
    BY <1>7, <1>11, <1>16, <1>17 DEF Right, IndInv

\* A step that touches neither end.
LEMMA IdleRight ==
    ASSUME IndInv, UNCHANGED <<chans, sock, sent, got>>, Counts, opened' = opened,
           serving => serving'
    PROVE  Right
  <1>0. Typing /\ Wired /\ Within /\ "peer" \in Ends
    BY DEF IndInv, Ends
  <1>1. Typing'
    BY <1>0 DEF Typing, Counts
  <1>2. \A c \in Ids : Moves("peer", c)
    BY <1>0, MovesNot
  <1>3. Rests(Other("peer"))
    BY DEF Rests
  <1>4. \A c \in Ids : c > opened' => sock'["peer"][c] = "none"
                                      /\ sock[Other("peer")][c] = "none"
    BY <1>0, TwoEnds DEF Wired
  <1>5. \A y \in Ends : \A m \in net'[y] : m \in net[y] \/ Fits(y, m)'
    BY DEF Counts
  <1>6. Wired'
    BY <1>0, <1>1, <1>2, <1>3, <1>4, <1>5, Advance
  <1>7. Within'
    <2>1. /\ \A y \in Ends : Opening(Sockets(y), Sockets(y)')
          /\ Opening(Live("daemon"), Live("daemon")')
      BY DEF Opening, Sockets, Live
    <2>2. ~serving' => Sockets("daemon")' = {}
      BY <1>0 DEF Within, Sockets
    <2>3. \A y \in Ends, c \in Ids : sent'[y][c] <= Limit(y, c)
      BY <1>0 DEF Within
    <2> QED
      BY <1>0, <2>1, <2>2, <2>3, WithinNext
  <1> QED
    BY <1>1, <1>6, <1>7, MapsNot DEF Right, IndInv

LEMMA RefRight ==
    ASSUME IndInv, Ref
    PROVE  Right
  <1>1. Counts
    BY DEF Ref, Counts, IndInv, Typing
  <1> QED
    BY <1>1, IdleRight DEF Ref

\* What is known when a datagram arrives.
LEMMA ArrivalFacts ==
    ASSUME Typing, Wired, NEW e \in Ends, NEW m, Arrives(e, m),
           opened' = opened, serving' = serving, lost' = lost
    PROVE  /\ m \in MsgSet /\ m.id \in Ids /\ m.id <= opened' /\ Counts
           /\ MsgOK(m, chans[e][m.id], sock[e][m.id],
                    chans[Other(e)][m.id], sent[Other(e)][m.id])
           /\ sock[Other(e)][m.id] # "none"
  <1>1. m \in net[e] /\ net' = [net EXCEPT ![e] = @ \ {m}]
    BY DEF Arrives
  <1>2. m \in MsgSet /\ net \in [Ends -> SUBSET MsgSet]
    BY <1>1 DEF Typing
  <1>3. m.id \in Ids
    BY <1>2 DEF MsgSet
  <1>4. MsgOK(m, chans[e][m.id], sock[e][m.id], chans[Other(e)][m.id], sent[Other(e)][m.id])
    BY <1>1 DEF Wired, Fits
  <1>5. sock[Other(e)][m.id] # "none"
    <2>1. chans[Other(e)][m.id].phase # "unseen"
      BY <1>4 DEF MsgOK
    <2>2. EndOK(chans[Other(e)][m.id], sock[Other(e)][m.id], sent[Other(e)][m.id],
                got[Other(e)][m.id])
      BY <1>3, TwoEnds DEF Wired, End
    <2> QED
      BY <2>1, <2>2 DEF EndOK
  <1>6. m.id <= opened'
    <2>1. ~(m.id > opened)
      BY <1>3, <1>5, TwoEnds DEF Wired
    <2> QED
      BY <1>3, <2>1, BoundsAssumption DEF Typing, Ids
  <1>7. Counts
    <2>1. net' \in [Ends -> SUBSET MsgSet] /\ \A y \in Ends : net'[y] \subseteq net[y]
      BY <1>1, <1>2
    <2> QED
      BY <2>1 DEF Counts, Typing
  <1> QED
    BY <1>2, <1>3, <1>4, <1>5, <1>6, <1>7

LEMMA HearStrayRight ==
    ASSUME IndInv, NEW e \in Ends, NEW m, HearStray(e, m)
    PROVE  Right
  <1>1. Counts
    BY ArrivalFacts DEF IndInv, HearStray
  <1> QED
    BY <1>1, IdleRight DEF HearStray

LEMMA HearBuriedRight ==
    ASSUME IndInv, NEW e \in Ends, NEW m, HearBuried(e, m)
    PROVE  Right
  <1> DEFINE c == m.id
             ch == chans[e][c]
             due == ch.due \/ m.term = "none"
             x == [ch EXCEPT !.due = due]
             s == sock[e][c]
             n == sent[e][c]
             g == got[e][c]
  <1>0. Typing /\ Wired /\ Within
    BY DEF IndInv
  <1>1. /\ Arrives(e, m) /\ ch.phase = "buried"
        /\ chans' = [chans EXCEPT ![e][c].due = @ \/ m.term = "none"]
        /\ sock' = sock /\ sent' = sent /\ got' = got
        /\ opened' = opened /\ serving' = serving /\ lost' = lost
    BY DEF HearBuried
  <1>2. c \in Ids /\ c <= opened' /\ Counts
    BY <1>0, <1>1, ArrivalFacts
  <1>3. /\ EndOK(ch, s, n, g)
        /\ LinkOK(ch, chans[Other(e)][c], sock[Other(e)][c], sent[Other(e)][c])
        /\ ch \in ChanSet /\ s \in SockSet /\ n \in Nat /\ g \in Seq(Nat)
        /\ chans[Other(e)][c] \in ChanSet /\ sent[Other(e)][c] \in Nat
    BY <1>0, <1>2, EndFacts
  <1>4. due \in BOOLEAN
    OBVIOUS
  <1>5. chans' = [chans EXCEPT ![e][c] = x]
    BY <1>1, Zenon
  <1> HIDE DEF c, ch, s, n, g, due
  <1>6. /\ x \in ChanSet /\ x.phase = "buried"
        /\ EndOK(x, s, n, g) /\ Grows(ch, s, n, x, s, n)
        /\ LinkOK(x, chans[Other(e)][c], sock[Other(e)][c], sent[Other(e)][c])
    BY <1>1, <1>3, <1>4, AnswerKeeps
  <1> HIDE DEF x
  <1>7. Suits(e, c, x, s, n, g)
    BY <1>6 DEF Suits, ch, s, n
  <1>8. Sets(e, c, x, s, n, g)
    BY <1>0, <1>1, <1>2, <1>5, Unset DEF Sets, s, n, g
  <1>9. Typing' /\ Wired'
    BY <1>0, <1>2, <1>3, <1>6, <1>7, <1>8, Single
  <1>10. Within'
    <2>1. n <= Limit(e, c)
      BY <1>0, <1>2 DEF Within, n
    <2>2. s = "open" => sock[e][c] = "open"
      BY DEF s
    <2>3. x.phase # "live"
      BY <1>6
    <2> QED
      BY <1>0, <1>1, <1>2, <1>3, <1>6, <1>8, <2>1, <2>2, <2>3, WithinSingle
  <1> QED
    BY <1>1, <1>9, <1>10, MapsNot DEF Right, IndInv

LEMMA HearRefusedRight ==
    ASSUME IndInv, NEW e \in Ends, NEW m, HearRefused(e, m)
    PROVE  Right
  <1> DEFINE c == m.id
             ch == chans[e][c]
             x == Bury(Channel(FALSE), "fail", TRUE)
             n == sent[e][c]
             g == got[e][c]
  <1>0. Typing /\ Wired /\ Within
    BY DEF IndInv
  <1>1. /\ Arrives(e, m) /\ ch.phase = "unseen" /\ e = "daemon"
        /\ chans' = [chans EXCEPT ![e][c] = x] /\ sock' = [sock EXCEPT ![e][c] = "cut"]
        /\ sent' = sent /\ got' = got
        /\ opened' = opened /\ serving' = serving /\ lost' = lost
    BY DEF HearRefused, Opens
  <1>2. c \in Ids /\ c <= opened' /\ Counts
    BY <1>0, <1>1, ArrivalFacts
  <1>3. /\ EndOK(ch, sock[e][c], n, g)
        /\ n \in Nat /\ g \in Seq(Nat)
        /\ chans[Other(e)][c] \in ChanSet /\ sent[Other(e)][c] \in Nat
    BY <1>0, <1>2, EndFacts
  <1>4. sock[e][c] = "none"
    BY <1>1, <1>3 DEF EndOK
  <1> HIDE DEF c, ch, n, g
  <1>5. /\ x \in ChanSet /\ x.phase = "buried"
        /\ EndOK(x, "cut", n, g) /\ Grows(ch, "none", n, x, "cut", n)
        /\ LinkOK(x, chans[Other(e)][c], sock[Other(e)][c], sent[Other(e)][c])
    BY <1>3, <1>4, RefuseKeeps
  <1> HIDE DEF x
  <1>6. Suits(e, c, x, "cut", n, g)
    BY <1>4, <1>5 DEF Suits, ch, n
  <1>7. Sets(e, c, x, "cut", n, g)
    BY <1>0, <1>1, <1>2, Unset DEF Sets, n, g
  <1>8. "cut" \in SockSet
    BY DEF SockSet
  <1>9. Typing' /\ Wired'
    BY <1>0, <1>2, <1>3, <1>5, <1>6, <1>7, <1>8, Single
  <1>10. Within'
    <2>1. n <= Limit(e, c)
      BY <1>0, <1>2 DEF Within, n
    <2> QED
      BY <1>0, <1>1, <1>2, <1>3, <1>5, <1>7, <1>8, <2>1, WithinSingle
  <1>11. Pipes!Next
    BY <1>0, <1>1, <1>2, <1>4, MapsCutOne
  <1> QED
    BY <1>9, <1>10, <1>11 DEF Right, IndInv

LEMMA HearLiveRight ==
    ASSUME IndInv, NEW e \in Ends, NEW m, HearLive(e, m)
    PROVE  Right
  <1> DEFINE c == m.id
             ch == chans[e][c]
             s == sock[e][c]
             n == sent[e][c]
             g == got[e][c]
             new == Opens(e, m)
  <1>0. Typing /\ Wired /\ Within
    BY DEF IndInv
  <1>1. /\ Arrives(e, m) /\ (ch.phase = "live" \/ (new /\ Room))
        /\ sent' = sent
        /\ opened' = opened /\ serving' = serving /\ lost' = lost
    BY DEF HearLive
  <1>2. /\ c \in Ids /\ c <= opened' /\ Counts /\ m \in MsgSet
        /\ MsgOK(m, ch, s, chans[Other(e)][c], sent[Other(e)][c])
        /\ sock[Other(e)][c] # "none"
    BY <1>0, <1>1, ArrivalFacts
  <1>3. PICK connected \in IF Dials(e, m) THEN BOOLEAN ELSE {FALSE}, ok \in BOOLEAN :
            LET c0 == IF new THEN Channel(FALSE) ELSE ch
                heard == Heard(c0, m)
                open == s = "open" \/ connected
                bytes == IF open THEN Fresh(c0, m) ELSE <<>>
            IN  /\ bytes = <<>> => ok
                /\ got' = [got EXCEPT ![e][c] = IF ok THEN @ \o bytes ELSE @]
                /\ sock' = [sock EXCEPT ![e][c] =
                               IF ~open THEN IF @ = "none" THEN "cut" ELSE @
                               ELSE IF ~ok THEN "cut"
                               ELSE IF m.term = "none" THEN "open" ELSE "told"]
                /\ chans' = [chans EXCEPT ![e][c] =
                      IF m.term # "none"
                      THEN Bury(heard, IF heard.term = "none" THEN "close" ELSE heard.term, TRUE)
                      ELSE IF new /\ ~connected THEN Terminate(heard, "fail")
                      ELSE heard]
    <2>1. PICK connected \in IF Dials(e, m) THEN BOOLEAN ELSE {FALSE} :
            LET ch0 == IF Opens(e, m) THEN Channel(FALSE) ELSE chans[e][m.id]
                heard == Heard(ch0, m)
                open == sock[e][m.id] = "open" \/ connected
                bytes == IF open THEN Fresh(ch0, m) ELSE <<>>
            IN  \E ok \in IF bytes = <<>> THEN {TRUE} ELSE BOOLEAN :
                /\ got' = [got EXCEPT ![e][m.id] = IF ok THEN @ \o bytes ELSE @]
                /\ sock' = [sock EXCEPT ![e][m.id] =
                               IF ~open THEN IF @ = "none" THEN "cut" ELSE @
                               ELSE IF ~ok THEN "cut"
                               ELSE IF m.term = "none" THEN "open" ELSE "told"]
                /\ chans' = [chans EXCEPT ![e][m.id] =
                      IF m.term # "none"
                      THEN Bury(heard, IF heard.term = "none" THEN "close" ELSE heard.term, TRUE)
                      ELSE IF Opens(e, m) /\ ~connected THEN Terminate(heard, "fail")
                      ELSE heard]
      BY Zenon DEF HearLive
    <2> QED
      BY <2>1
  <1>4. connected \in BOOLEAN /\ (connected => Dials(e, m)) /\ new \in BOOLEAN
    BY DEF Opens
  \* The new values of this connection.
  <1>5. PICK x, s2, g2 :
            /\ Comes(ch, s, g, m, new, connected, ok, x, s2, g2)
            /\ chans' = [chans EXCEPT ![e][c] = x]
            /\ sock' = [sock EXCEPT ![e][c] = s2]
            /\ got' = [got EXCEPT ![e][c] = g2]
    BY <1>3 DEF Comes
  <1>6. /\ EndOK(ch, s, n, g)
        /\ LinkOK(ch, chans[Other(e)][c], sock[Other(e)][c], sent[Other(e)][c])
        /\ ch \in ChanSet /\ s \in SockSet /\ n \in Nat /\ g \in Seq(Nat)
        /\ chans[Other(e)][c] \in ChanSet /\ sock[Other(e)][c] \in SockSet
        /\ sent[Other(e)][c] \in Nat
    BY <1>0, <1>2, EndFacts
  <1>7. EndOK(chans[Other(e)][c], sock[Other(e)][c], sent[Other(e)][c], got[Other(e)][c])
    BY <1>0, <1>2, TwoEnds DEF Wired, End
  <1>8. /\ new => ch.phase = "unseen" /\ e = "daemon" /\ s = "none"
        /\ ~new => ch.phase = "live"
        /\ connected => new /\ serving /\ Cardinality(Sockets(e)) < MaxChannels
    BY <1>1, <1>4, <1>6 DEF Opens, Dials, EndOK
  <1>9. ch.phase = "live" \/ (e = "daemon" => Cardinality(Live("daemon")) < MaxChannels)
    BY <1>1 DEF Room
  <1> HIDE DEF c, ch, s, n, g, new
  <1>10. /\ x \in ChanSet /\ s2 \in SockSet /\ g2 \in Seq(Nat)
         /\ EndOK(x, s2, n, g2) /\ Grows(ch, s, n, x, s2, n)
         /\ LinkOK(x, chans[Other(e)][c], sock[Other(e)][c], sent[Other(e)][c])
         /\ \/ s2 = s /\ g2 = g
            \/ s2 = "cut" /\ g2 = g /\ (s = "open" \/ new)
            \/ /\ s = "open" \/ new
               /\ Len(g) <= Len(g2)
               /\ s2 = "open" \/ (s2 = "told" /\ Len(g2) = sent[Other(e)][c]
                                  /\ sock[Other(e)][c] # "open")
         /\ s2 = "open" => s = "open" \/ connected
    <2> DEFINE och == chans[Other(e)][c]
               os == sock[Other(e)][c]
               on == sent[Other(e)][c]
               og == got[Other(e)][c]
    <2>1. /\ ch \in ChanSet /\ s \in SockSet /\ n \in Nat /\ g \in Seq(Nat)
          /\ och \in ChanSet /\ os \in SockSet /\ on \in Nat /\ m \in MsgSet
          /\ new \in BOOLEAN /\ connected \in BOOLEAN /\ ok \in BOOLEAN
      BY <1>2, <1>4, <1>6 DEF new, c
    <2>2. /\ EndOK(ch, s, n, g) /\ LinkOK(ch, och, os, on) /\ EndOK(och, os, on, og)
          /\ MsgOK(m, ch, s, och, on)
          /\ Comes(ch, s, g, m, new, connected, ok, x, s2, g2)
      BY <1>2, <1>5, <1>6, <1>7
    <2>3. /\ new => ch.phase = "unseen"
          /\ ~new => ch.phase = "live"
          /\ connected => new
      BY <1>8
    <2> HIDE DEF och, os, on, og
    <2>4. /\ x \in ChanSet /\ s2 \in SockSet /\ g2 \in Seq(Nat)
          /\ EndOK(x, s2, n, g2) /\ Grows(ch, s, n, x, s2, n) /\ LinkOK(x, och, os, on)
          /\ \/ s2 = s /\ g2 = g
             \/ s2 = "cut" /\ g2 = g /\ (s = "open" \/ new)
             \/ /\ s = "open" \/ new
                /\ Len(g) <= Len(g2)
                /\ s2 = "open" \/ (s2 = "told" /\ Len(g2) = on /\ os # "open")
          /\ s2 = "open" => s = "open" \/ connected
      BY <2>1, <2>2, <2>3, HearKeeps
    <2> QED
      BY <2>4 DEF och, os, on
  <1>11. Suits(e, c, x, s2, n, g2)
    BY <1>10 DEF Suits, ch, s, n
  <1>12. Sets(e, c, x, s2, n, g2)
    BY <1>0, <1>1, <1>2, <1>5, Unset DEF Sets, n
  <1>13. Typing' /\ Wired'
    BY <1>0, <1>2, <1>6, <1>10, <1>11, <1>12, Single
  <1>14. Within'
    <2>1. n <= Limit(e, c)
      BY <1>0, <1>2 DEF Within, n
    <2>2. s2 = "open" => \/ sock[e][c] = "open"
                         \/ /\ Cardinality(Sockets(e)) < MaxChannels
                            /\ e = "daemon" => serving
      BY <1>8, <1>10 DEF s
    <2>3. x.phase = "live" /\ e = "daemon" =>
              chans[e][c].phase = "live" \/ Cardinality(Live("daemon")) < MaxChannels
      BY <1>9 DEF ch
    <2> QED
      BY <1>0, <1>1, <1>2, <1>6, <1>10, <1>12, <2>1, <2>2, <2>3, WithinSingle
  <1>15. Pipes!Next \/ UNCHANGED Pipes!vars
    <2>0. sock[e][c] = s /\ got[e][c] = g
      BY DEF s, g
    <2>1. CASE s2 = s /\ g2 = g
      <3>1. sock' = sock /\ got' = got
        BY <1>0, <1>2, <1>5, <2>0, <2>1, Unset
      <3> QED
        BY <1>1, <3>1, MapsNot
    <2>2. CASE s2 = "cut" /\ g2 = g /\ (s = "open" \/ new)
      <3>1. got' = got
        BY <1>0, <1>2, <1>5, <2>0, <2>2, Unset
      <3>2. sock[e][c] = "open" \/ (e = "daemon" /\ sock[e][c] = "none")
        BY <1>8, <2>0, <2>2
      <3> QED
        BY <1>0, <1>1, <1>2, <1>5, <2>2, <3>1, <3>2, MapsCutOne
    <2>3. CASE /\ s = "open" \/ new
               /\ Len(g) <= Len(g2)
               /\ s2 = "open" \/ (s2 = "told" /\ Len(g2) = sent[Other(e)][c]
                                  /\ sock[Other(e)][c] # "open")
      <3>1. sock[e][c] = "open" \/ (e = "daemon" /\ sock[e][c] = "none")
        BY <1>8, <2>0, <2>3
      <3>2. Stretch(g2, 0) /\ Len(g2) <= x.next /\ x.next <= sent[Other(e)][c]
        BY <1>10 DEF EndOK, LinkOK
      <3>3. Len(g2) <= sent[Other(e)][c]
        <4>1. x.next \in Nat /\ Len(g2) \in Nat
          BY <1>10 DEF ChanSet
        <4> QED
          BY <1>6, <3>2, <4>1
      <3> QED
        BY <1>0, <1>1, <1>2, <1>5, <1>10, <2>0, <2>3, <3>1, <3>2, <3>3, MapsHear
    <2> QED
      BY <1>10, <2>1, <2>2, <2>3
  <1> QED
    BY <1>13, <1>14, <1>15 DEF Right, IndInv

LEMMA OutgoingRight ==
    ASSUME IndInv, NEW e \in Ends, NEW timers \in SUBSET Live(e), Outgoing(e, timers)
    PROVE  Right
  <1> DEFINE o == Other(e)
             sends == {c \in Ids : chans[e][c].due} \cup timers
             I == [c \in sends |-> Instruction(c, chans[e][c])]
             out == {Instruction(c, chans[e][c]) : c \in sends}
             X == [c \in Ids |-> Retired(IF c \in sends THEN Emitted(chans[e][c])
                                         ELSE chans[e][c])]
  <1>0. Typing /\ Wired /\ Within /\ o \in Ends /\ o # e /\ Other(o) = e
    BY TwoEnds DEF IndInv
  <1>1. sends \in SUBSET Ids
    BY DEF Live
  <1>2. PICK drop \in SUBSET out :
            /\ lost + Cardinality(drop) <= MaxLoss
            /\ lost' = lost + Cardinality(drop)
            /\ net' = [net EXCEPT ![o] = @ \cup (out \ drop)]
    BY Zenon DEF Outgoing
  <1>3. /\ chans' = [chans EXCEPT ![e] = X]
        /\ sock' = sock /\ sent' = sent /\ got' = got
        /\ opened' = opened /\ serving' = serving
    BY DEF Outgoing
  <1>4. ASSUME NEW c \in Ids
        PROVE  /\ EndOK(chans[e][c], sock[e][c], sent[e][c], got[e][c])
               /\ LinkOK(chans[e][c], chans[o][c], sock[o][c], sent[o][c])
               /\ chans[e][c] \in ChanSet /\ sent[e][c] \in Nat /\ got[e][c] \in Seq(Nat)
               /\ chans[o][c] \in ChanSet /\ sent[o][c] \in Nat
               /\ c \in sends => chans[e][c].phase # "unseen"
    <2>1. /\ EndOK(chans[e][c], sock[e][c], sent[e][c], got[e][c])
          /\ LinkOK(chans[e][c], chans[o][c], sock[o][c], sent[o][c])
          /\ chans[e][c] \in ChanSet /\ sent[e][c] \in Nat /\ got[e][c] \in Seq(Nat)
          /\ chans[o][c] \in ChanSet /\ sent[o][c] \in Nat
      BY <1>0, EndFacts
    <2>2. chans[e][c].phase = "unseen" => ~chans[e][c].due
      BY <2>1 DEF EndOK, Unseen
    <2>3. c \in timers => chans[e][c].phase = "live"
      BY DEF Live
    <2> QED
      BY <2>1, <2>2, <2>3
  <1>5. ASSUME NEW c \in Ids
        PROVE  /\ X[c] \in ChanSet
               /\ X[c].phase = "live" => chans[e][c].phase = "live"
               /\ EndOK(X[c], sock[e][c], sent[e][c], got[e][c])
               /\ Grows(chans[e][c], sock[e][c], sent[e][c], X[c], sock[e][c], sent[e][c])
               /\ LinkOK(X[c], chans[o][c], sock[o][c], sent[o][c])
    <2>1. Passes(chans[e][c], X[c])
      BY <1>4 DEF Passes
    <2> DEFINE ch == chans[e][c]
               s == sock[e][c]
               n == sent[e][c]
               g == got[e][c]
               och == chans[o][c]
               os == sock[o][c]
               on == sent[o][c]
               x == X[c]
    <2>2. /\ EndOK(ch, s, n, g) /\ LinkOK(ch, och, os, on) /\ Passes(ch, x)
          /\ ch \in ChanSet /\ n \in Nat /\ g \in Seq(Nat)
          /\ och \in ChanSet /\ on \in Nat
      BY <1>4, <2>1
    <2> HIDE DEF ch, s, n, g, och, os, on, x
    <2>3. /\ x \in ChanSet
          /\ x.phase = "live" => ch.phase = "live"
          /\ EndOK(x, s, n, g) /\ Grows(ch, s, n, x, s, n) /\ LinkOK(x, och, os, on)
      BY <2>2, SendKeeps
    <2> QED
      BY <2>3 DEF ch, s, n, g, och, os, on, x
  <1>6. IsFiniteSet(out)
    <2>1. IsFiniteSet(sends)
      BY <1>1, Finite
    <2>2. I \in Surjection(sends, out)
      BY DEF Surjection
    <2> HIDE DEF sends, out, I
    <2> QED
      BY <2>1, <2>2, FS_Surjection
  <1>7. lost' \in 0..MaxLoss
    <2>1. Cardinality(drop) \in Nat
      BY <1>6, FS_Subset, FS_CardinalityType
    <2> QED
      BY <1>0, <1>2, <2>1, BoundsAssumption DEF Typing
  <1>8. ASSUME NEW m \in out
        PROVE  /\ m \in MsgSet /\ m.id \in Ids
               /\ MsgOK(m, chans[o][m.id], sock[o][m.id], chans[e][m.id], sent[e][m.id])
    <2>1. PICK c \in sends : m = Instruction(c, chans[e][c])
      OBVIOUS
    <2>2. c \in Ids
      BY <1>1
    <2>3. /\ Instruction(c, chans[e][c]) \in MsgSet /\ Instruction(c, chans[e][c]).id = c
          /\ MsgOK(Instruction(c, chans[e][c]), chans[o][c], sock[o][c],
                   chans[e][c], sent[e][c])
      <3> HIDE DEF sends, o
      <3> QED
        BY <1>4, <2>2, InstructionFits
    <2> QED
      BY <2>1, <2>2, <2>3
  <1> HIDE DEF X, out, sends, I
  <1>9. X \in [Ids -> ChanSet]
    <2>1. \A c \in Ids : X[c] \in ChanSet
      BY <1>5
    <2> QED
      BY <2>1 DEF X
  <1>10. /\ chans' \in [Ends -> [Ids -> ChanSet]] /\ chans'[e] = X /\ chans'[o] = chans[o]
    BY <1>0, <1>3, <1>9 DEF Typing
  <1>11. /\ net' \in [Ends -> SUBSET MsgSet]
         /\ net'[o] \subseteq net[o] \cup out /\ net'[e] = net[e]
    <2>1. out \subseteq MsgSet
      BY <1>8
    <2> QED
      BY <1>0, <1>2, <2>1 DEF Typing
  <1>12. Typing'
    BY <1>0, <1>3, <1>7, <1>10, <1>11 DEF Typing
  <1>13. \A c \in Ids : Moves(e, c)
    BY <1>3, <1>5, <1>10 DEF Moves
  <1>14. Rests(o)
    BY <1>3, <1>10 DEF Rests
  <1>15. \A c \in Ids : c > opened' => sock'[e][c] = "none" /\ sock[o][c] = "none"
    BY <1>0, <1>3 DEF Wired
  <1>16. ASSUME NEW m \in out
         PROVE  Fits(o, m)'
    <2> DEFINE c == m.id
    <2>1. /\ c \in Ids /\ m \in MsgSet
          /\ MsgOK(m, chans[o][c], sock[o][c], chans[e][c], sent[e][c])
      BY <1>8
    <2> HIDE DEF c
    <2>2. /\ Grows(chans[e][c], sock[e][c], sent[e][c],
                   chans'[e][c], sock'[e][c], sent'[e][c])
          /\ chans'[e][c] \in ChanSet /\ sent'[e][c] \in Nat
      BY <1>3, <1>4, <1>5, <1>10, <2>1
    <2>3. Grows(chans[o][c], sock[o][c], sent[o][c], chans[o][c], sock[o][c], sent[o][c])
      BY <1>4, <2>1, GrowsNot
    <2>4. MsgOK(m, chans[o][c], sock[o][c], chans'[e][c], sent'[e][c])
      BY <1>4, <2>1, <2>2, <2>3, MsgStays
    <2>5. MsgOK(m, chans'[o][c], sock'[o][c], chans'[e][c], sent'[e][c])
      BY <1>3, <1>10, <2>4
    <2> QED
      BY <1>0, <2>5 DEF Fits, c
  <1>17. \A y \in Ends : \A m \in net'[y] : m \in net[y] \/ Fits(y, m)'
    <2>1. \A y \in Ends : y = e \/ y = o
      BY DEF Ends, Other
    <2> QED
      BY <1>11, <1>16, <2>1
  <1>18. Wired'
    BY <1>0, <1>12, <1>13, <1>14, <1>15, <1>17, Advance
  <1>19. Within'
    <2>1. \A y \in Ends : Opening(Sockets(y), Sockets(y)')
      BY <1>3 DEF Opening, Sockets
    <2>2. Live(e)' \subseteq Live(e) /\ Live(o)' = Live(o)
      BY <1>5, <1>10 DEF Live
    <2>3. Opening(Live("daemon"), Live("daemon")')
      BY <1>0, <2>2 DEF Opening, Ends
    <2>4. ~serving' => Sockets("daemon")' = {}
      BY <1>0, <1>3 DEF Within, Sockets
    <2>5. \A y \in Ends, c \in Ids : sent'[y][c] <= Limit(y, c)
      BY <1>0, <1>3 DEF Within
    <2> QED
      BY <1>0, <2>1, <2>3, <2>4, <2>5, WithinNext
  <1> QED
    BY <1>3, <1>12, <1>18, <1>19, MapsNot DEF Right, IndInv

-----------------------------------------------------------------------------
(* The theorems. *)

LEMMA InitRight == Init => IndInv /\ Pipes!Init
  <1> SUFFICES ASSUME Init
               PROVE  IndInv /\ Pipes!Init
    OBVIOUS
  <1>1. Unseen \in ChanSet
    <2>1. <<>> \in Seq(Nat)
      OBVIOUS
    <2> QED
      BY <2>1 DEF Unseen, ChanSet, Flags
  <1>2. Typing
    <2>1. <<>> \in Seq(Nat) /\ "none" \in SockSet
      BY DEF SockSet
    <2>2. /\ opened \in 0..MaxOpens /\ lost \in 0..MaxLoss /\ serving \in BOOLEAN
          /\ net \in [Ends -> SUBSET MsgSet]
      BY BoundsAssumption DEF Init
    <2>3. /\ chans \in [Ends -> [Ids -> ChanSet]] /\ sock \in [Ends -> [Ids -> SockSet]]
          /\ sent \in [Ends -> [Ids -> Nat]] /\ got \in [Ends -> [Ids -> Seq(Nat)]]
      BY <1>1, <2>1 DEF Init
    <2> QED
      BY <2>2, <2>3 DEF Typing
  <1>3. ASSUME NEW e \in Ends, NEW c \in Ids
        PROVE  /\ chans[e][c] = Unseen /\ sock[e][c] = "none" /\ sent[e][c] = 0
               /\ got[e][c] = <<>> /\ net[e] = {}
    BY DEF Init
  <1>4. Wired
    <2>1. EndOK(Unseen, "none", 0, <<>>)
      BY DEF EndOK, Unseen, Stretch
    <2>2. LinkOK(Unseen, Unseen, "none", 0)
      BY DEF LinkOK, Unseen
    <2>3. ASSUME NEW e \in Ends, NEW c \in Ids
          PROVE  End(e, c) /\ LinkAt(e, c) /\ sock[e][c] = "none"
      BY <1>3, <2>1, <2>2, TwoEnds DEF End, LinkAt
    <2>4. \A e \in Ends : net[e] = {}
      BY DEF Init
    <2> QED
      BY <2>3, <2>4 DEF Wired
  <1>5. Within
    <2>1. \A e \in Ends : Sockets(e) = {} /\ Live(e) = {}
      BY <1>3 DEF Sockets, Live, Unseen
    <2>2. Cardinality({}) <= MaxChannels /\ "daemon" \in Ends
      BY FS_EmptySet, BoundsAssumption DEF Ends
    <2>3. \A e \in Ends, c \in Ids : sent[e][c] <= Limit(e, c)
      BY <1>3, BoundsAssumption DEF Limit
    <2> QED
      BY <2>1, <2>2, <2>3 DEF Within
  <1>6. Pipes!Init
    <2>1. Written = [e \in Ends |-> [c \in Ids |-> <<>>]]
      <3>1. Wr(0) = <<>>
        BY DEF Wr
      <3>2. \A e \in Ends, c \in Ids : Wr(sent[e][c]) = <<>>
        BY <1>3, <3>1
      <3> QED
        BY <3>2 DEF Written
    <2>2. /\ sock = [e \in Ends |-> [c \in Ids |-> "none"]]
          /\ got = [e \in Ends |-> [c \in Ids |-> <<>>]]
      BY DEF Init
    <2> QED
      BY <2>1, <2>2, PipesEnds DEF Pipes!Init, Written, Wr
  <1> QED
    BY <1>2, <1>4, <1>5, <1>6 DEF IndInv

LEMMA NextRight ==
    ASSUME IndInv, [Next]_vars
    PROVE  Right
  <1>1. CASE UNCHANGED vars
    <2>1. Counts
      BY <1>1 DEF vars, Counts, IndInv, Typing
    <2> QED
      BY <1>1, <2>1, IdleRight DEF vars
  <1>2. CASE PeerStirs
    <2>0. "peer" \in Ends
      BY DEF Ends
    <2>1. CASE Accept
      BY <2>1, AcceptRight
    <2>2. CASE FastFail
      <3>1. CloseAll("peer") /\ serving' = serving /\ serving' \in BOOLEAN
        BY <2>2 DEF FastFail, IndInv, Typing
      <3> QED
        BY <2>0, <3>1, CloseRight
    <2> QED
      BY <1>2, <2>1, <2>2 DEF PeerStirs
  <1>3. CASE DaemonStirs
    <2>0. "daemon" \in Ends
      BY DEF Ends
    <2>1. CASE Unref
      <3>1. CloseAll("daemon") /\ serving' \in BOOLEAN
        BY <2>1 DEF Unref
      <3> QED
        BY <2>0, <3>1, CloseRight
    <2>2. CASE Ref
      BY <2>2, RefRight
    <2> QED
      BY <1>3, <2>1, <2>2 DEF DaemonStirs
  <1>4. ASSUME NEW e \in Ends, Reads(e)
        PROVE  Right
    BY <1>4, ReadRight DEF Reads
  <1>5. ASSUME NEW e \in Ends, Pays(e)
        PROVE  Right
    <2>1. Outgoing(e, {}) /\ {} \in SUBSET Live(e)
      BY <1>5 DEF Pays
    <2> QED
      BY <2>1, OutgoingRight
  <1>6. ASSUME NEW e \in Ends, NEW c \in Ids, Resends(e, c)
        PROVE  Right
    <2>1. Outgoing(e, {c}) /\ {c} \in SUBSET Live(e)
      BY <1>6 DEF Resends
    <2> QED
      BY <2>1, OutgoingRight
  <1>7. ASSUME NEW e \in Ends, NEW c \in Ids, Hears(e, c)
        PROVE  Right
    <2>1. PICK m \in net[e] : Receive(e, m)
      BY <1>7 DEF Hears
    <2> QED
      BY <2>1, HearBuriedRight, HearStrayRight, HearRefusedRight, HearLiveRight DEF Receive
  <1> QED
    BY <1>1, <1>2, <1>3, <1>4, <1>5, <1>6, <1>7 DEF Next

LEMMA IndInvTyped ==
    ASSUME IndInv
    PROVE  TypeOK
  <1>1. Typing /\ Wired /\ Within
    BY DEF IndInv
  <1>2. ASSUME NEW e \in Ends, NEW c \in Ids
        PROVE  /\ chans[e][c].phase = "unseen" <=> sock[e][c] = "none"
               /\ sock[e][c] = "open" => chans[e][c].phase = "live"
               /\ c > opened => sock[e][c] = "none"
               /\ sent[e][c] <= Limit(e, c)
    BY <1>1 DEF Wired, End, EndOK, Within
  <1>3. ASSUME NEW e \in Ends
        PROVE  Sockets(e) \subseteq Live(e) /\ Cardinality(Sockets(e)) <= MaxChannels
    BY <1>1, <1>2 DEF Sockets, Live, Within
  <1> QED
    BY <1>1, <1>2, <1>3 DEF TypeOK, Typing, Within

\* The inductive invariant holds.
THEOREM Sound == Spec => []IndInv
  <1>1. Init => IndInv
    BY InitRight
  <1>2. IndInv /\ [Next]_vars => IndInv'
    BY NextRight DEF Right
  <1> QED
    BY <1>1, <1>2, PTL DEF Spec

\* The tables of both ends stay within MAX_AGENT_CHANNELS, whatever is opened,
\* refused, closed and heard late (accept_pending, on_instruction).
THEOREM TypeCorrect == Spec => []TypeOK
  BY Sound, IndInvTyped, PTL

\* Every connection is a pipe to one connection of the agent: bytes in order
\* and once, the end of the stream behind the last of them, nothing opened
\* twice (read_channels, on_instruction, outgoing).
THEOREM PipesCorrect == Spec => PipesSpec
  <1>1. Init => Pipes!Init
    BY InitRight
  <1>2. IndInv /\ [Next]_vars => [Pipes!Next]_(Pipes!vars)
    BY NextRight DEF Right
  <1> QED
    BY <1>1, <1>2, Sound, PTL DEF Spec, PipesSpec, Pipes!Spec
=============================================================================
