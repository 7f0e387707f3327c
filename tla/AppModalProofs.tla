--------------------------- MODULE AppModalProofs ---------------------------
(***************************************************************************)
(* The countdown for any number of connections, any length of it and any   *)
(* set of buttons: one verdict on each request, told to the program that   *)
(* asked (ModalVerdict); no banner outlives its countdown; no button is    *)
(* taken that nobody chose, but the one Esc stands for.                    *)
(***************************************************************************)
EXTENDS AppModal, TLAPS

-----------------------------------------------------------------------------
(* The inductive invariant. *)

Kind(c) == peer[c].kind
Holds(c) == Open(c) /\ clients[c].fd = modal.requester

\* The table of connections: a descriptor belongs to one of them, only a
\* viewport is capable, and a turn serves connections that are there.
TableOK ==
    /\ \A c \in Conns : Open(c) => clients[c].fd \in Fds
    /\ \A c, d \in Conns : Open(c) /\ Open(d) /\ clients[c].fd = clients[d].fd => c = d
    /\ \A c \in Conns : clients[c].capable => Open(c) /\ Kind(c) = "viewer"
    /\ \A c \in Conns : clients[c].phase = "none" <=> Kind(c) = "none"
    /\ \A c \in turn.polled : Open(c)

\* The program of a request: it is not served before it has asked, and what
\* the daemon tells it is the verdict.
AskerOK(c) ==
    /\ view[c] = NoView
    /\ toDaemon[c] \in {<<>>, <<Request_(c)>>}
    /\ toDaemon[c] # <<>> => verdict[c] = Pending /\ modal.id # c
    /\ toPeer[c] \in Seq({Result(c, verdict[c])})
    /\ verdict[c] = Pending => toPeer[c] = <<>>
    /\ heard[c] # Pending => ~peer[c].up

UnusedOK(c) ==
    /\ view[c] = NoView /\ toDaemon[c] = <<>> /\ toPeer[c] = <<>>
    /\ verdict[c] = Pending /\ heard[c] = Pending /\ modal.id # c

\* The descriptor the result will go to is the one of the program that asked,
\* or nobody's, and stays nobody's until the countdown is over.
RunOK ==
    Running =>
       /\ Kind(modal.id) = "requester" /\ toDaemon[modal.id] = <<>>
       /\ verdict[modal.id] = Pending
       /\ \/ modal.requester = NoFd
          \/ Holds(modal.id)
          \/ \A c \in Conns : ~Open(c)

\* An answer is one a user gave, or what Esc stands for.
Meant(S) == {m \in Uplink : /\ m.op # "request"
                            /\ m.op = "choose" => m.button = OnDismiss \/ <<m.id, m.button>> \in S}
Told(S) == {e \in KeyEvents : e = Cancelled \/ <<e.id, e.button>> \in S}

\* A countdown that is shown, or about to be, runs or will be cleared.
Cleared(s, i, r) == \E j \in i .. Len(s) : s[j] = Clear(r)
BannerOK(s, m, id) ==
    /\ m # NoId => m = id \/ Cleared(s, 1, m)
    /\ \A i \in 1 .. Len(s) : s[i].op = "show" => s[i].id = id \/ Cleared(s, i, s[i].id)

SaidOK(c) ==
    /\ toDaemon[c] \in Seq(Meant(keys)) /\ view[c].events \in Seq(Told(keys))
    /\ view[c].review => view[c].modal # NoId
SeenOK(c) ==
    clients[c].phase # "closed" =>
       /\ BannerOK(toPeer[c], view[c].modal, modal.id)
       /\ view[c].modal # NoId \/ toPeer[c] # <<>> => Capable(c)

ProgramOK(c) ==
    /\ Kind(c) = "none" => UnusedOK(c)
    /\ Kind(c) = "requester" => AskerOK(c)
    /\ Kind(c) = "viewer" => SaidOK(c) /\ SeenOK(c)
ProgramsOK == \A c \in Conns : ProgramOK(c)

IndInv == TypeOK /\ TableOK /\ RunOK /\ ProgramsOK /\ ApprovedOnPurpose

-----------------------------------------------------------------------------
(* Values. *)

LEMMA Apart ==
    /\ NoId \notin Conns /\ NoFd \notin Fds /\ Conns \subseteq Nat
    /\ NoButton \notin Buttons /\ OnTimeout \in Buttons
    /\ Endings \subseteq Verdicts /\ Pending \notin Endings
    /\ Busy # Pending /\ NoViewer \in Endings /\ TimedOut \in Endings
    /\ \A b \in Buttons : Chosen(b) \in Endings
  <1>1. /\ NoId \notin Conns /\ NoFd \notin Fds /\ Conns \subseteq Nat
        /\ NoButton \notin Buttons /\ OnTimeout \in Buttons
    BY ModalBounds DEF NoId, NoFd, Conns, Fds
  <1>2. Endings \subseteq Verdicts
    BY DEF Verdicts
  <1>3. Busy # Pending
    BY DEF Busy, Pending, Ending
  <1>4. Pending \notin Endings
    BY DEF Endings, Pending, Ending, NoViewer, TimedOut, Chosen
  <1>5. NoViewer \in Endings /\ TimedOut \in Endings /\ \A b \in Buttons : Chosen(b) \in Endings
    BY DEF Endings
  <1> QED
    BY <1>1, <1>2, <1>3, <1>4, <1>5

LEMMA Uplinks ==
    ASSUME NEW m \in Uplink
    PROVE  /\ m.op \in {"init", "request", "choose"}
           /\ m.op = "request" => m.id \in Conns
           /\ m.op = "choose" => m.id \in Conns /\ m.button \in Buttons
  BY DEF Uplink, Init_, Request_, Choose_, Message

LEMMA Downlinks ==
    ASSUME NEW m \in Downlink
    PROVE  /\ m.op \in {"show", "clear", "result"} /\ m.id \in Conns
           /\ m.op = "clear" => m = Clear(m.id)
           /\ m.ending \in Verdicts
  BY DEF Downlink, Show, Clear, Result, Notice_, Verdicts

LEMMA KeyParts ==
    ASSUME NEW e \in KeyEvents
    PROVE  /\ e.op \in {"choose", "cancelled"}
           /\ e.op = "choose" => e.id \in Conns /\ e.button \in Buttons /\ e # Cancelled
                                /\ e = Choose_(e.id, e.button)
  BY DEF KeyEvents, Cancelled, Selected, Choose_, Message

LEMMA Sendable ==
    ASSUME NEW r \in Conns
    PROVE  /\ Show(r) \in Downlink /\ Clear(r) \in Downlink
           /\ \A e \in Endings \cup {Busy} : Result(r, e) \in Downlink
           /\ Init_ \in Uplink /\ Request_(r) \in Uplink
           /\ \A b \in Buttons : Choose_(r, b) \in Uplink
  BY DEF Downlink, Uplink

-----------------------------------------------------------------------------
(* Types. *)

\* What every step takes from the viewports.
ViewSound == \A c \in Conns : view[c].review => view[c].modal # NoId

LEMMA ClientFields ==
    ASSUME NEW cl \in ClientRecord
    PROVE  /\ cl.phase \in Phases /\ cl.fd \in Fds \cup {NoFd} /\ cl.capable \in BOOLEAN
           /\ \A p \in Phases : [cl EXCEPT !.phase = p] \in ClientRecord
           /\ [cl EXCEPT !.capable = TRUE] \in ClientRecord
  BY DEF ClientRecord

LEMMA PeerFields ==
    ASSUME NEW p \in PeerRecord
    PROVE  /\ p.kind \in {"none", "viewer", "requester"} /\ p.up \in BOOLEAN
           /\ [p EXCEPT !.up = FALSE] \in PeerRecord
           /\ \A k \in {"viewer", "requester"} : [kind |-> k, up |-> TRUE] \in PeerRecord
  BY DEF PeerRecord

LEMMA ViewFields ==
    ASSUME NEW v \in ViewRecord
    PROVE  /\ v.modal \in Conns \cup {NoId} /\ v.review \in BOOLEAN
           /\ v.drawn \in Conns \cup {NoId} /\ v.events \in Seq(KeyEvents)
           /\ v = [modal |-> v.modal, review |-> v.review, drawn |-> v.drawn, events |-> v.events]
  BY DEF ViewRecord

LEMMA ViewMade ==
    ASSUME NEW m \in Conns \cup {NoId}, NEW r \in BOOLEAN, NEW d \in Conns \cup {NoId},
           NEW e \in Seq(KeyEvents)
    PROVE  [modal |-> m, review |-> r, drawn |-> d, events |-> e] \in ViewRecord
  BY DEF ViewRecord

LEMMA QueueTypes ==
    ASSUME NEW S, NEW s \in Seq(S)
    PROVE  /\ s # <<>> => Head(s) \in S /\ Tail(s) \in Seq(S)
           /\ \A x \in S : Append(s, x) \in Seq(S)
  OBVIOUS

LEMMA RecordTypes ==
    ASSUME TypeOK, NEW c \in Conns
    PROVE  /\ clients[c] \in ClientRecord /\ peer[c] \in PeerRecord /\ view[c] \in ViewRecord
           /\ toDaemon[c] \in Seq(Uplink) /\ toPeer[c] \in Seq(Downlink)
           /\ verdict[c] \in Verdicts /\ heard[c] \in Verdicts
           /\ toDaemon[c] # <<>> => Head(toDaemon[c]) \in Uplink /\ Tail(toDaemon[c]) \in Seq(Uplink)
           /\ toPeer[c] # <<>> => Head(toPeer[c]) \in Downlink /\ Tail(toPeer[c]) \in Seq(Downlink)
           /\ view[c].events \in Seq(KeyEvents)
           /\ view[c].events # <<>> => /\ Head(view[c].events) \in KeyEvents
                                       /\ Tail(view[c].events) \in Seq(KeyEvents)
  <1>1. /\ clients[c] \in ClientRecord /\ peer[c] \in PeerRecord /\ view[c] \in ViewRecord
        /\ toDaemon[c] \in Seq(Uplink) /\ toPeer[c] \in Seq(Downlink)
        /\ verdict[c] \in Verdicts /\ heard[c] \in Verdicts
    BY DEF TypeOK
  <1>2. view[c].events \in Seq(KeyEvents)
    BY <1>1, ViewFields
  <1> QED
    BY <1>1, <1>2, QueueTypes

LEMMA ResolveTypes ==
    ASSUME TypeOK, Running, NEW e \in Endings, Resolve(e)
    PROVE  /\ modal' = NoRun /\ modal.id \in Conns
           /\ toPeer' \in [Conns -> Seq(Downlink)]
           /\ verdict' \in [Conns -> Verdicts]
  <1>1. modal.id \in Conns
    BY DEF TypeOK, RunRecord, Running
  <1>2. \A c \in Conns : toPeer[c] \in Seq(Downlink)
    BY DEF TypeOK
  <1>3. Clear(modal.id) \in Downlink /\ Result(modal.id, e) \in Downlink
    BY <1>1, Sendable
  <1>4. toPeer' \in [Conns -> Seq(Downlink)]
    BY <1>2, <1>3 DEF Resolve, Resolved
  <1> QED
    BY <1>1, <1>4, Apart DEF Resolve, TypeOK

LEMMA ShownTypes ==
    ASSUME TypeOK, NEW r \in Conns
    PROVE  Shown(r) \in [Conns -> Seq(Downlink)]
  BY Sendable DEF Shown, TypeOK

LEMMA DriveTypes ==
    ASSUME TypeOK, ModalDrive
    PROVE  /\ modal' \in RunRecord
           /\ toPeer' \in [Conns -> Seq(Downlink)]
           /\ verdict' \in [Conns -> Verdicts]
  <1>0. NoRun \in RunRecord
    BY ModalBounds DEF NoRun, RunRecord
  <1>1. CASE UNCHANGED <<modal, toPeer, verdict>>
    BY <1>1 DEF TypeOK
  <1>2. CASE Running /\ \E e \in Endings : Resolve(e)
    BY <1>0, <1>2, ResolveTypes
  <1>3. CASE Running /\ modal' = [modal EXCEPT !.due = FALSE] /\ toPeer' = Shown(modal.id)
             /\ UNCHANGED verdict
    <2>1. modal.id \in Conns /\ modal' \in RunRecord
      BY <1>3 DEF TypeOK, RunRecord, Running
    <2> QED
      BY <1>3, <2>1, ShownTypes DEF TypeOK
  <1> QED
    BY <1>1, <1>2, <1>3, Apart DEF ModalDrive

LEMMA TypesKept ==
    ASSUME TypeOK, ViewSound, [Next]_vars
    PROVE  TypeOK'
  <1>0. NoRun \in RunRecord
        /\ Gone \in ClientRecord /\ NoView \in ViewRecord
        /\ Idle \in TurnRecord
    BY ModalBounds DEF NoRun, Gone, NoView, Idle, ClientRecord, ViewRecord, Phases, RunRecord,
       TurnRecord
  <1>1. CASE Poll
    <2>1. clients' \in [Conns -> ClientRecord]
      <3>1. \A f \in Fds : [phase |-> "open", fd |-> f, capable |-> FALSE] \in ClientRecord
        BY DEF ClientRecord, Phases
      <3> QED
        BY <1>1, <3>1 DEF Poll, Accept, TypeOK
    <2>2. turn' \in TurnRecord
      BY <1>1 DEF Poll, TurnRecord
    <2> QED
      BY <1>1, <2>1, <2>2, DriveTypes DEF Poll, TypeOK
  <1>2. ASSUME NEW c \in Conns, HandleInit(c) PROVE TypeOK'
    <2>1. clients' \in [Conns -> ClientRecord]
      BY <1>2, RecordTypes, ClientFields DEF HandleInit, TypeOK
    <2>2. toDaemon' \in [Conns -> Seq(Uplink)]
      BY <1>2, RecordTypes DEF HandleInit, Taken, TypeOK
    <2> QED
      BY <1>2, <2>1, <2>2 DEF HandleInit, TypeOK
  <1>3. ASSUME NEW c \in Conns, HandleChoose(c) PROVE TypeOK'
    <2>2. toDaemon' \in [Conns -> Seq(Uplink)]
      BY <1>3, RecordTypes DEF HandleChoose, Taken, TypeOK
    <2>3. Chosen(Head(toDaemon[c]).button) \in Endings
      <3>1. toDaemon[c] # <<>> /\ Head(toDaemon[c]).op = "choose"
        BY <1>3 DEF HandleChoose
      <3>2. Head(toDaemon[c]).button \in Buttons
        BY <3>1, RecordTypes, Uplinks
      <3> QED
        BY <3>2, Apart
    <2>4. CASE Running /\ Head(toDaemon[c]).id = modal.id
      <3>1. Resolve(Chosen(Head(toDaemon[c]).button))
        BY <1>3, <2>4 DEF HandleChoose
      <3> QED
        BY <1>0, <1>3, <2>2, <2>3, <2>4, <3>1, ResolveTypes DEF HandleChoose, TypeOK
    <2>5. CASE ~(Running /\ Head(toDaemon[c]).id = modal.id)
      BY <1>3, <2>2, <2>5 DEF HandleChoose, TypeOK
    <2> QED
      BY <2>4, <2>5
  <1>4. ASSUME NEW c \in Conns, HandleRequest(c) PROVE TypeOK'
    <2> DEFINE r == Head(toDaemon[c]).id
    <2>1. r \in Conns /\ clients[c] \in ClientRecord
      <3>1. toDaemon[c] # <<>> /\ Head(toDaemon[c]).op = "request"
        BY <1>4 DEF HandleRequest
      <3> QED
        BY <3>1, RecordTypes, Uplinks
    <2>2. toDaemon' \in [Conns -> Seq(Uplink)]
      BY <1>4, RecordTypes DEF HandleRequest, Taken, TypeOK
    <2>3. \A e \in Endings \cup {Busy} : Sent(c, Result(r, e)) \in [Conns -> Seq(Downlink)]
      BY <2>1, Sendable DEF Sent, TypeOK
    <2>4. Shown(r) \in [Conns -> Seq(Downlink)]
      BY <2>1, ShownTypes
    <2> HIDE DEF r
    <2>5. CASE UNCHANGED modal /\ \E e \in Endings \cup {Busy} :
                  toPeer' = Sent(c, Result(r, e)) /\ verdict' = [verdict EXCEPT ![r] = e]
      <3>1. PICK e \in Endings \cup {Busy} :
                toPeer' = Sent(c, Result(r, e)) /\ verdict' = [verdict EXCEPT ![r] = e]
        BY <2>5
      <3>2. verdict' \in [Conns -> Verdicts]
        BY <2>1, <3>1 DEF TypeOK, Verdicts
      <3>3. toPeer' \in [Conns -> Seq(Downlink)]
        BY <2>3, <3>1
      <3> QED
        BY <1>4, <2>2, <2>5, <3>2, <3>3 DEF HandleRequest, TypeOK
    <2>6. CASE /\ modal' = [id |-> r, requester |-> clients[c].fd,
                            left |-> Timeout, due |-> FALSE]
               /\ toPeer' = Shown(r) /\ UNCHANGED verdict
      <3>1. modal' \in RunRecord
        <4>1. Timeout \in 0 .. Timeout
          BY ModalBounds
        <4>2. clients[c].fd \in Fds \cup {NoFd}
          BY <2>1, ClientFields
        <4> QED
          BY <2>1, <2>6, <4>1, <4>2 DEF RunRecord
      <3> QED
        BY <1>4, <2>2, <2>4, <2>6, <3>1 DEF HandleRequest, TypeOK
    <2> QED
      BY <1>4, <2>5, <2>6, Apart DEF HandleRequest, r
  <1>5. ASSUME NEW c \in Conns, Served(c) PROVE TypeOK'
    <2>1. clients' \in [Conns -> ClientRecord]
      BY <1>0, <1>5 DEF Served, TypeOK
    <2>2. turn' \in TurnRecord
      BY <1>0, <1>5 DEF Served, TypeOK, TurnRecord
    <2>3. modal' \in RunRecord
      BY <1>5 DEF Served, TypeOK, RunRecord
    <2> QED
      BY <1>5, <2>1, <2>2, <2>3 DEF Served, TypeOK
  <1>6. ASSUME NEW c \in Conns, DropSlow(c) PROVE TypeOK'
    BY <1>0, <1>6 DEF DropSlow, TypeOK
  <1>7. CASE DetachAll
    BY <1>0, <1>7 DEF DetachAll, TypeOK
  <1>8. CASE Tick
    <2>1. modal' \in RunRecord
      <3>1. modal \in RunRecord /\ modal.left - 1 \in 0 .. Timeout
        BY <1>8, ModalBounds DEF Tick, TypeOK, RunRecord
      <3>2. \A l \in 0 .. Timeout : [modal EXCEPT !.left = l, !.due = TRUE] \in RunRecord
        BY <3>1 DEF RunRecord
      <3> QED
        BY <1>8, <3>1, <3>2 DEF Tick
    <2> QED
      BY <1>8, <2>1 DEF Tick, TypeOK
  <1>9. ASSUME NEW c \in Conns, NEW k \in {"viewer", "requester"}, NEW m \in Uplink, Connect(c, k, m)
        PROVE  TypeOK'
    <2>1. clients' \in [Conns -> ClientRecord]
      <3>1. [clients[c] EXCEPT !.phase = "waiting"] \in ClientRecord
        BY RecordTypes, ClientFields DEF Phases
      <3> QED
        BY <1>9, <3>1 DEF Connect, TypeOK
    <2>2. peer' \in [Conns -> PeerRecord]
      BY <1>9, RecordTypes, PeerFields DEF Connect, TypeOK
    <2>3. toDaemon' \in [Conns -> Seq(Uplink)]
      BY <1>9 DEF Connect, TypeOK
    <2> QED
      BY <1>9, <2>1, <2>2, <2>3 DEF Connect, TypeOK
  <1>10. ASSUME NEW c \in Conns, HearResult(c) PROVE TypeOK'
    <2>1. peer' \in [Conns -> PeerRecord]
      BY <1>10, RecordTypes, PeerFields DEF HearResult, TypeOK
    <2>2. heard' \in [Conns -> Verdicts]
      BY <1>10, RecordTypes, Downlinks DEF HearResult, TypeOK
    <2> QED
      BY <1>10, <2>1, <2>2 DEF HearResult, TypeOK
  <1>11. ASSUME NEW c \in Conns, HangUp(c) PROVE TypeOK'
    <2>1. peer' \in [Conns -> PeerRecord]
      BY <1>11, RecordTypes, PeerFields DEF HangUp, TypeOK
    <2> QED
      BY <1>0, <1>11, <2>1 DEF HangUp, TypeOK
  <1>12. ASSUME NEW c \in Conns, HearShow(c) \/ HearClear(c) PROVE TypeOK'
    <2>0. toPeer[c] # <<>> /\ toPeer' = [toPeer EXCEPT ![c] = Tail(@)]
      BY <1>12 DEF HearShow, HearClear
    <2>1. Head(toPeer[c]).id \in Conns
      BY <2>0, RecordTypes, Downlinks
    <2>2. toPeer' \in [Conns -> Seq(Downlink)]
      BY <2>0, RecordTypes DEF TypeOK
    <2>3. view' \in [Conns -> ViewRecord]
      <3>1. \A i \in Conns \cup {NoId} : [view[c] EXCEPT !.modal = i] \in ViewRecord
        BY RecordTypes, ViewFields DEF ViewRecord
      <3>2. [view[c] EXCEPT !.modal = NoId, !.review = FALSE, !.drawn = NoId] \in ViewRecord
        BY RecordTypes, ViewFields DEF ViewRecord
      <3> QED
        <4>1. \E v \in ViewRecord : view' = [view EXCEPT ![c] = v]
          <5>1. CASE HearShow(c)
            BY <2>1, <3>1, <5>1 DEF HearShow
          <5>2. CASE HearClear(c)
            BY <3>2, <5>2, RecordTypes DEF HearClear
          <5> QED
            BY <1>12, <5>1, <5>2
        <4> QED
          BY <4>1 DEF TypeOK
    <2> QED
      BY <1>12, <2>2, <2>3 DEF HearShow, HearClear, TypeOK
  <1>13. ASSUME NEW c \in Conns, Review(c) PROVE TypeOK'
    <2>1. view' \in [Conns -> ViewRecord]
      <3>1. [view[c] EXCEPT !.review = TRUE, !.drawn = view[c].modal] \in ViewRecord
        BY RecordTypes, ViewFields DEF ViewRecord
      <3> QED
        BY <1>13, <3>1 DEF Review, TypeOK
    <2> QED
      BY <1>13, <2>1 DEF Review, TypeOK
  <1>14. ASSUME NEW c \in Conns, NEW e \in KeyEvents,
                NEW b \in Buttons \cup {NoButton}, Keyed(c, e, b)
         PROVE  TypeOK'
    <2>1. view[c] \in ViewRecord /\ view[c].drawn \in Conns
      BY <1>14, RecordTypes, ViewFields DEF Keyed
    <2>2. Append(view[c].events, e) \in Seq(KeyEvents)
      BY RecordTypes, QueueTypes
    <2>3. view' \in [Conns -> ViewRecord]
      <3>1. [view[c] EXCEPT !.drawn = NoId, !.events = Append(view[c].events, e)] \in ViewRecord
        BY <2>1, <2>2, ViewFields DEF ViewRecord
      <3> QED
        BY <1>14, <3>1 DEF Keyed, TypeOK
    <2>4. keys' \subseteq Conns \X (Buttons \cup {NoButton})
      BY <1>14, <2>1 DEF Keyed, TypeOK
    <2> QED
      BY <1>14, <2>3, <2>4 DEF Keyed, TypeOK
  <1>15. ASSUME NEW c \in Conns, HearKey(c) PROVE TypeOK'
    <2>0. view[c].events # <<>>
      BY <1>15 DEF HearKey
    <2>1. view' \in [Conns -> ViewRecord]
      <3>1. [view[c] EXCEPT !.review = FALSE, !.events = Tail(view[c].events)] \in ViewRecord
        BY <2>0, RecordTypes, ViewFields DEF ViewRecord
      <3> QED
        BY <1>15, <3>1 DEF HearKey, TypeOK
    <2>2. \A m \in Uplink : Say(c, m) \in [Conns -> Seq(Uplink)]
      BY RecordTypes, QueueTypes DEF Say, TypeOK
    <2>3. CASE Head(view[c].events).op = "choose"
      <3>1. Choose_(Head(view[c].events).id, Head(view[c].events).button) \in Uplink
        BY <2>0, <2>3, RecordTypes, Sendable, KeyParts
      <3> QED
        BY <1>15, <2>1, <2>2, <2>3, <3>1 DEF HearKey, TypeOK
    <2>4. CASE Head(view[c].events).op = "cancelled"
      <3>1. view[c].review /\ OnDismiss # NoButton => Choose_(view[c].modal, OnDismiss) \in Uplink
        BY RecordTypes, ViewFields, Sendable, ModalBounds DEF ViewSound
      <3> QED
        BY <1>15, <2>1, <2>2, <2>4, <3>1 DEF HearKey, TypeOK
    <2> QED
      BY <1>15, <2>3, <2>4 DEF HearKey
  <1>16. CASE UNCHANGED vars
    BY <1>16 DEF vars, TypeOK
  <1>17. ASSUME NEW c \in Conns, Esc(c) \/ \E b \in Buttons : Enter(c, b) PROVE TypeOK'
    <2>1. CASE Esc(c)
      BY <1>14, <2>1, ModalBounds DEF Esc, KeyEvents
    <2>2. ASSUME NEW b \in Buttons, Enter(c, b) PROVE TypeOK'
      <3>1. view[c].drawn \in Conns
        BY <2>2, RecordTypes, ViewFields DEF Enter, Keyed
      <3>2. Selected(view[c].drawn, b) \in KeyEvents
        BY <3>1 DEF KeyEvents
      <3> QED
        BY <1>14, <2>2, <3>2 DEF Enter
    <2> QED
      BY <1>17, <2>1, <2>2
  <1>18. ASSUME NEW c \in Conns, Attach(c) \/ PoshModal(c) PROVE TypeOK'
    BY <1>9, <1>18, Sendable DEF Attach, PoshModal
  <1> QED
    BY <1>1, <1>2, <1>3, <1>4, <1>5, <1>6, <1>7, <1>8, <1>10, <1>11, <1>12, <1>13, <1>15,
       <1>16, <1>17, <1>18 DEF Next, Daemon, Handle, Requester, Viewport
-----------------------------------------------------------------------------
(* The table of connections. *)

LEMMA Fields ==
    ASSUME TypeOK, NEW c \in Conns
    PROVE  /\ clients[c].phase \in Phases /\ clients[c].fd \in Fds \cup {NoFd}
           /\ clients[c].capable \in BOOLEAN
           /\ Kind(c) \in {"none", "viewer", "requester"} /\ peer[c].up \in BOOLEAN
           /\ view[c].modal \in Conns \cup {NoId} /\ modal.id \in Conns \cup {NoId}
           /\ modal.requester \in Fds \cup {NoFd}
  <1>1. modal.id \in Conns \cup {NoId} /\ modal.requester \in Fds \cup {NoFd}
    BY DEF TypeOK, RunRecord
  <1> QED
    BY <1>1, RecordTypes, ClientFields, PeerFields, ViewFields DEF Kind

\* What the kind of a program says of what it has sent.
LEMMA SaidBy ==
    ASSUME TypeOK, ProgramsOK, NEW c \in Conns, toDaemon[c] # <<>>
    PROVE  /\ Head(toDaemon[c]).op = "request" =>
                  Kind(c) = "requester" /\ toDaemon[c] = <<Request_(c)>> /\ Head(toDaemon[c]) = Request_(c)
           /\ Head(toDaemon[c]).op # "request" => Kind(c) = "viewer" /\ Head(toDaemon[c]) \in Meant(keys)
  <1>1. Kind(c) # "none"
    BY DEF ProgramsOK, ProgramOK, UnusedOK
  <1>2. CASE Kind(c) = "requester"
    <2>1. toDaemon[c] = <<Request_(c)>>
      BY <1>2 DEF ProgramsOK, ProgramOK, AskerOK
    <2>2. Head(toDaemon[c]) = Request_(c)
      BY <2>1
    <2> QED
      BY <1>2, <2>1, <2>2 DEF Request_, Message
  <1>3. CASE Kind(c) = "viewer"
    <2>1. toDaemon[c] \in Seq(Meant(keys))
      BY <1>3 DEF ProgramsOK, ProgramOK, SaidOK
    <2>2. Head(toDaemon[c]) \in Meant(keys)
      BY <2>1, QueueTypes
    <2> QED
      BY <1>3, <2>2 DEF Meant
  <1> QED
    BY <1>1, <1>2, <1>3, Fields

LEMMA KindKept ==
    ASSUME TypeOK, UNCHANGED peer \/ \E c \in Conns : peer' = [peer EXCEPT ![c].up = FALSE]
    PROVE  \A d \in Conns : Kind(d)' = Kind(d)
  BY DEF Kind, TypeOK, PeerRecord

LEMMA AcceptKeeps ==
    ASSUME TypeOK, TableOK, Accept
    PROVE  /\ \A d \in Conns : Open(d) => clients'[d] = clients[d]
           /\ \A d \in Conns : ~Open(d) /\ Open(d)' =>
                 /\ clients[d].phase = "waiting" /\ clients'[d].capable = FALSE
                 /\ clients'[d].fd \in Fds
                 /\ \A c \in Conns : Open(c) => clients[c].fd # clients'[d].fd
                 /\ \A c \in Conns : c # d => clients'[c] = clients[c]
           /\ \A d \in Conns : ~Open(d) /\ ~Open(d)' => clients'[d] = clients[d]
  <1>1. CASE UNCHANGED clients
    BY <1>1 DEF Open
  <1>2. ASSUME NEW c \in Conns, NEW f \in FreeFds, clients[c].phase = "waiting", f \in Fds,
               clients' = [clients EXCEPT ![c] = [phase |-> "open", fd |-> f, capable |-> FALSE]]
        PROVE  /\ \A d \in Conns : d # c => clients'[d] = clients[d]
               /\ clients'[c] = [phase |-> "open", fd |-> f, capable |-> FALSE]
               /\ ~Open(c) /\ \A d \in Conns : Open(d) => clients[d].fd # f
    BY <1>2 DEF Open, TypeOK, FreeFds
  <1>3. CASE \E c \in Conns, f \in Fds :
                /\ First(c, {d \in Conns : Waiting(d)}) /\ First(f, FreeFds)
                /\ clients' = [clients EXCEPT ![c] = [phase |-> "open", fd |-> f, capable |-> FALSE]]
    <2>1. PICK c \in Conns, f \in Fds :
                /\ First(c, {d \in Conns : Waiting(d)}) /\ First(f, FreeFds)
                /\ clients' = [clients EXCEPT ![c] = [phase |-> "open", fd |-> f, capable |-> FALSE]]
      BY <1>3
    <2>2. clients[c].phase = "waiting" /\ f \in FreeFds
      BY <2>1 DEF First, Waiting
    <2>3. /\ \A d \in Conns : d # c => clients'[d] = clients[d]
          /\ clients'[c] = [phase |-> "open", fd |-> f, capable |-> FALSE]
          /\ ~Open(c) /\ \A d \in Conns : Open(d) => clients[d].fd # f
      BY <1>2, <2>1, <2>2
    <2> QED
      BY <2>2, <2>3 DEF Open
  <1> QED
    BY <1>1, <1>3 DEF Accept

LEMMA TableKept ==
    ASSUME TypeOK, TableOK, ProgramsOK, [Next]_vars
    PROVE  TableOK'
  <1>1. CASE Poll
    <2>1. \A d \in Conns : Kind(d)' = Kind(d)
      BY <1>1 DEF Poll, Kind
    <2>2. turn'.polled \subseteq {d \in Conns : Open(d)}
      BY <1>1 DEF Poll, HungUp, Readable
    <2>3. Accept
      BY <1>1 DEF Poll
    <2>4. \A d \in Conns : Open(d)' => clients'[d].fd \in Fds
      BY <2>3, AcceptKeeps DEF TableOK
    <2>5. \A c, d \in Conns : Open(c)' /\ Open(d)' /\ clients'[c].fd = clients'[d].fd => c = d
      <3> SUFFICES ASSUME NEW c \in Conns, NEW d \in Conns, Open(c)', Open(d)',
                          clients'[c].fd = clients'[d].fd, c # d
                   PROVE  FALSE
        OBVIOUS
      <3>1. CASE Open(c) /\ Open(d)
        BY <2>3, <3>1, AcceptKeeps DEF TableOK
      <3>2. CASE Open(c) /\ ~Open(d)
        BY <2>3, <3>2, AcceptKeeps
      <3>3. CASE ~Open(c) /\ Open(d)
        BY <2>3, <3>3, AcceptKeeps
      <3>4. CASE ~Open(c) /\ ~Open(d)
        BY <2>3, <3>4, AcceptKeeps DEF Open
      <3> QED
        BY <3>1, <3>2, <3>3, <3>4
    <2>6. \A d \in Conns : clients'[d].capable => Open(d)' /\ Kind(d)' = "viewer"
      BY <2>1, <2>3, AcceptKeeps DEF TableOK, Open
    <2>7. \A d \in Conns : clients'[d].phase = "none" <=> Kind(d)' = "none"
      BY <2>1, <2>3, AcceptKeeps DEF TableOK, Open
    <2>8. \A d \in turn'.polled : Open(d)'
      BY <2>2, <2>3, AcceptKeeps DEF Open
    <2> QED
      BY <2>4, <2>5, <2>6, <2>7, <2>8 DEF TableOK
  <1>2. ASSUME NEW c \in Conns, HandleInit(c) PROVE TableOK'
    <2>1. Open(c) /\ Kind(c) = "viewer"
      <3>1. c \in turn.polled /\ toDaemon[c] # <<>> /\ Head(toDaemon[c]).op = "init"
        BY <1>2 DEF HandleInit, Next_, Last
      <3> QED
        BY <3>1, SaidBy DEF TableOK
    <2>2. \A d \in Conns :
             /\ clients'[d].phase = clients[d].phase /\ clients'[d].fd = clients[d].fd
             /\ d # c => clients'[d] = clients[d]
      BY <1>2 DEF HandleInit, TypeOK, ClientRecord
    <2>3. UNCHANGED <<turn, peer>>
      BY <1>2 DEF HandleInit
    <2>4. turn.polled \subseteq Conns
      BY DEF TypeOK, TurnRecord
    <2>5. \A d \in Conns : (Open(d)' <=> Open(d)) /\ Kind(d)' = Kind(d)
      <3>1. \A d \in Conns : Open(d)' <=> Open(d)
        BY <2>2 DEF Open
      <3>2. \A d \in Conns : Kind(d)' = Kind(d)
        BY <2>3 DEF Kind
      <3> QED
        BY <3>1, <3>2
    <2>6. \A d \in Conns : clients'[d].capable => Open(d)' /\ Kind(d)' = "viewer"
      BY <2>1, <2>2, <2>5 DEF TableOK
    <2> QED
      BY <2>2, <2>3, <2>4, <2>5, <2>6 DEF TableOK
  <1>3. ASSUME NEW S \in SUBSET Conns,
               clients' = [d \in Conns |-> IF d \in S THEN Gone ELSE clients[d]],
               \A d \in S : Open(d), UNCHANGED peer,
               turn'.polled \subseteq turn.polled \ S
        PROVE  TableOK'
    <2>1. \A d \in Conns :
             /\ d \in S => /\ ~Open(d)' /\ clients'[d].capable = FALSE
                          /\ clients'[d].phase = "closed"
             /\ d \notin S => clients'[d] = clients[d]
      BY <1>3 DEF Gone, Open
    <2>2. \A d \in Conns : Kind(d)' = Kind(d)
      BY <1>3 DEF Kind
    <2>3. turn.polled \subseteq Conns
      BY DEF TypeOK, TurnRecord
    <2>4. \A d \in Conns : Open(d)' => d \notin S /\ Open(d) /\ clients'[d] = clients[d]
      BY <2>1 DEF Open
    <2>5. \A d \in Conns : clients'[d].capable => Open(d)' /\ Kind(d)' = "viewer"
      BY <2>1, <2>2 DEF TableOK, Open
    <2>6. \A d \in Conns : clients'[d].phase = "none" <=> Kind(d)' = "none"
      BY <1>3, <2>1, <2>2 DEF TableOK, Open
    <2>7. \A d \in turn'.polled : Open(d)'
      BY <1>3, <2>1, <2>3 DEF TableOK, Open
    <2> QED
      BY <2>4, <2>5, <2>6, <2>7 DEF TableOK
  <1>4. ASSUME NEW c \in Conns, Served(c) PROVE TableOK'
    <2>1. c \in turn.polled /\ Open(c)
      BY <1>4 DEF Served, Next_, Last, TableOK
    <2>2. turn'.polled = turn.polled \ {c}
      BY <1>4 DEF Served, Idle, TypeOK, TurnRecord
    <2>3. CASE c \in turn.hup
      <3>1. clients' = [d \in Conns |-> IF d \in {c} THEN Gone ELSE clients[d]]
        BY <1>4, <2>3 DEF Served, TypeOK
      <3> QED
        BY <1>3, <1>4, <2>1, <2>2, <3>1 DEF Served
    <2>4. CASE c \notin turn.hup
      BY <1>4, <2>2, <2>4 DEF Served, TableOK, Open, Kind
    <2> QED
      BY <2>3, <2>4
  <1>5. ASSUME NEW c \in Conns, DropSlow(c) PROVE TableOK'
    <2>1. clients' = [d \in Conns |-> IF d \in {c} THEN Gone ELSE clients[d]]
      BY <1>5 DEF DropSlow, TypeOK
    <2> QED
      BY <1>3, <1>5, <2>1 DEF DropSlow, Capable
  <1>6. CASE DetachAll
    <2> DEFINE S == {d \in Conns : Open(d)}
    <2>1. clients' = [d \in Conns |-> IF d \in S THEN Gone ELSE clients[d]]
      BY <1>6 DEF DetachAll
    <2> QED
      BY <1>3, <1>6, <2>1 DEF DetachAll, Idle
  <1>7. ASSUME NEW c \in Conns, NEW k \in {"viewer", "requester"}, NEW m, Connect(c, k, m)
        PROVE  TableOK'
    <2>1. clients[c].phase = "none" /\ ~Open(c)
      BY <1>7 DEF Connect, First, Open
    <2>2. /\ \A d \in Conns : d # c => clients'[d] = clients[d] /\ peer'[d] = peer[d]
          /\ clients'[c].phase = "waiting" /\ clients'[c].capable = clients[c].capable
          /\ peer'[c].kind = k
      BY <1>7 DEF Connect, TypeOK, ClientRecord
    <2>3. UNCHANGED turn /\ turn.polled \subseteq Conns
      BY <1>7 DEF Connect, TypeOK, TurnRecord
    <2>4. clients[c].capable = FALSE
      BY <2>1, Fields DEF TableOK
    <2> QED
      BY <2>1, <2>2, <2>3, <2>4 DEF TableOK, Open, Kind
  <1>8. CASE UNCHANGED <<clients, turn>> /\ \A d \in Conns : Kind(d)' = Kind(d)
    BY <1>8 DEF TableOK, Open
  <1>9. ASSUME NEW c \in Conns, HearResult(c) \/ HangUp(c) PROVE TableOK'
    BY <1>8, <1>9, KindKept DEF HearResult, HangUp
  <1>10. CASE UNCHANGED <<clients, turn, peer>>
    BY <1>8, <1>10, KindKept
  <1>11. ASSUME NEW c \in Conns,
                HandleChoose(c) \/ HandleRequest(c) \/ HearShow(c) \/ HearClear(c) \/ Review(c)
                \/ Esc(c) \/ HearKey(c) \/ \E b \in Buttons : Enter(c, b)
         PROVE  TableOK'
    BY <1>10, <1>11 DEF HandleChoose, HandleRequest, HearShow, HearClear, Review, Esc, HearKey,
       Enter, Keyed
  <1>12. CASE Tick \/ UNCHANGED vars
    BY <1>10, <1>12 DEF Tick, vars
  <1> QED
    BY <1>1, <1>2, <1>4, <1>5, <1>6, <1>7, <1>9, <1>11, <1>12
       DEF Next, Daemon, Handle, Requester, Viewport, Attach, PoshModal
-----------------------------------------------------------------------------
(* The running countdown and the descriptor of its requester. *)

\* The result reaches the program that asked or nobody.
LEMMA HolderAsked ==
    ASSUME TypeOK, TableOK, RunOK, Running, NEW d \in Conns, Holds(d)
    PROVE  d = modal.id /\ ~Capable(d)
  <1>1. modal.id \in Conns
    BY Fields DEF Running
  <1>2. Open(d) /\ clients[d].fd \in Fds /\ clients[d].fd = modal.requester
    BY DEF Holds, TableOK
  <1>3. Holds(modal.id)
    BY <1>2, Apart DEF RunOK
  <1>4. d = modal.id
    BY <1>1, <1>2, <1>3 DEF Holds, TableOK
  <1> QED
    BY <1>4 DEF RunOK, TableOK, Capable

LEMMA ResolveTells ==
    ASSUME TypeOK, TableOK, RunOK, Running, NEW e \in Endings, Resolve(e)
    PROVE  /\ modal' = NoRun /\ modal.id \in Conns
           /\ \A d \in Conns :
                 /\ verdict'[d] = IF d = modal.id THEN e ELSE verdict[d]
                 /\ Kind(d) = "none" => toPeer'[d] = toPeer[d]
                 /\ Kind(d) = "viewer" =>
                       toPeer'[d] = IF Capable(d) THEN Append(toPeer[d], Clear(modal.id)) ELSE toPeer[d]
                 /\ Kind(d) = "requester" =>
                       \/ toPeer'[d] = toPeer[d]
                       \/ d = modal.id /\ toPeer'[d] = Append(toPeer[d], Result(d, e))
  <1>1. modal' = NoRun /\ modal.id \in Conns
    BY ResolveTypes
  <1>2. \A d \in Conns : verdict'[d] = IF d = modal.id THEN e ELSE verdict[d]
    BY <1>1 DEF Resolve, TypeOK
  <1>3. \A d \in Conns : ~Holds(d) =>
           toPeer'[d] = IF Capable(d) THEN Append(toPeer[d], Clear(modal.id)) ELSE toPeer[d]
    BY DEF Resolve, Resolved, Holds
  <1>4. \A d \in Conns : Holds(d) =>
           /\ d = modal.id /\ Kind(d) = "requester"
           /\ toPeer'[d] = Append(toPeer[d], Result(d, e))
    BY HolderAsked DEF Resolve, Resolved, Holds, RunOK
  <1>5. \A d \in Conns : Capable(d) => Kind(d) = "viewer"
    BY DEF Capable, TableOK
  <1> QED
    BY <1>1, <1>2, <1>3, <1>4, <1>5

LEMMA DriveCases ==
    ASSUME TypeOK, ModalDrive
    PROVE  \/ UNCHANGED <<modal, toPeer, verdict>> /\ (Running => \E c \in Conns : Capable(c))
           \/ Running /\ \E e \in {NoViewer, TimedOut} : Resolve(e)
           \/ /\ Running /\ \E c \in Conns : Capable(c)
              /\ modal'.id = modal.id /\ modal'.requester = modal.requester
              /\ toPeer' = Shown(modal.id) /\ UNCHANGED verdict
  <1>1. \A b : [modal EXCEPT !.due = b].id = modal.id
                /\ [modal EXCEPT !.due = b].requester = modal.requester
    BY DEF TypeOK, RunRecord
  <1> QED
    BY <1>1 DEF ModalDrive

LEMMA RunFrame ==
    ASSUME RunOK, modal'.id = modal.id, modal'.requester = modal.requester,
           Running => /\ peer'[modal.id].kind = peer[modal.id].kind
                      /\ toDaemon'[modal.id] = <<>>
                      /\ verdict'[modal.id] = verdict[modal.id]
                      /\ Holds(modal.id) => \/ clients'[modal.id] = clients[modal.id]
                                            \/ \A c \in Conns : ~Open(c)'
                      /\ (\A c \in Conns : ~Open(c)) => \/ \A c \in Conns : ~Open(c)'
                                                       \/ modal.requester = NoFd
    PROVE  RunOK'
  BY DEF RunOK, Running, Holds, Open, Kind

LEMMA RunKept ==
    ASSUME TypeOK, TableOK, RunOK, ProgramsOK, [Next]_vars
    PROVE  RunOK'
  <1>0. Running => modal.id \in Conns
    BY DEF Running, TypeOK, RunRecord
  <1>a. ASSUME modal' = NoRun PROVE RunOK'
    BY <1>a DEF RunOK, Running, NoRun
  <1>1. CASE Poll
    <2>1. UNCHANGED <<peer, toDaemon>> /\ ModalDrive /\ Accept
      BY <1>1 DEF Poll
    <2>2. CASE \E e \in {NoViewer, TimedOut} : Resolve(e)
      BY <1>a, <2>2 DEF Resolve
    <2>3. CASE /\ Running => \E c \in Conns : Capable(c)
               /\ modal'.id = modal.id /\ modal'.requester = modal.requester /\ UNCHANGED verdict
      <3>1. Running /\ Holds(modal.id) => clients'[modal.id] = clients[modal.id]
        BY <1>0, <2>1, AcceptKeeps DEF Holds
      <3>2. Running => ~ \A c \in Conns : ~Open(c)
        BY <2>3 DEF Capable
      <3>3. peer'[modal.id].kind = peer[modal.id].kind
        BY <2>1 DEF Kind
      <3> QED
        BY <2>1, <2>3, <3>1, <3>2, <3>3, RunFrame DEF RunOK
    <2> QED
      BY <2>1, <2>2, <2>3, DriveCases
  <1>2. ASSUME NEW c \in Conns, HandleInit(c) PROVE RunOK'
    <2>1. Open(c) /\ Kind(c) = "viewer"
      <3>1. c \in turn.polled /\ toDaemon[c] # <<>> /\ Head(toDaemon[c]).op = "init"
        BY <1>2 DEF HandleInit, Next_, Last
      <3> QED
        BY <3>1, SaidBy DEF TableOK
    <2>2. Running => modal.id # c
      BY <2>1 DEF RunOK
    <2>3. /\ \A d \in Conns \ {c} : clients'[d] = clients[d] /\ toDaemon'[d] = toDaemon[d]
          /\ UNCHANGED <<modal, peer, verdict>>
      BY <1>2 DEF HandleInit, Taken, TypeOK
    <2>4. peer'[modal.id].kind = peer[modal.id].kind
      BY <2>3 DEF Kind
    <2> QED
      BY <1>0, <2>1, <2>2, <2>3, <2>4, RunFrame DEF RunOK
  <1>3. ASSUME NEW c \in Conns, Kind(c) = "viewer", UNCHANGED <<clients, modal, peer, verdict>>,
               \A d \in Conns \ {c} : toDaemon'[d] = toDaemon[d]
        PROVE  RunOK'
    <2>1. Running => modal.id # c
      BY <1>3 DEF RunOK
    <2>2. peer'[modal.id].kind = peer[modal.id].kind /\ \A d \in Conns : Open(d)' = Open(d)
      BY <1>3 DEF Kind, Open
    <2> QED
      BY <1>0, <1>3, <2>1, <2>2, RunFrame DEF RunOK
  <1>4. ASSUME NEW c \in Conns, HandleChoose(c) PROVE RunOK'
    <2>1. Kind(c) = "viewer"
      BY <1>4, SaidBy DEF HandleChoose
    <2>2. CASE Running /\ Head(toDaemon[c]).id = modal.id
      BY <1>4, <1>a, <2>2 DEF HandleChoose, Resolve
    <2>3. CASE ~(Running /\ Head(toDaemon[c]).id = modal.id)
      BY <1>3, <1>4, <2>1, <2>3 DEF HandleChoose, Taken, TypeOK
    <2> QED
      BY <2>2, <2>3
  <1>5. ASSUME NEW c \in Conns, HandleRequest(c) PROVE RunOK'
    <2>1. /\ Kind(c) = "requester" /\ toDaemon[c] = <<Request_(c)>>
          /\ Head(toDaemon[c]).id = c /\ verdict[c] = Pending /\ modal.id # c /\ Open(c)
      <3>1. c \in turn.polled /\ toDaemon[c] # <<>> /\ Head(toDaemon[c]).op = "request"
        BY <1>5 DEF HandleRequest, Next_, Last
      <3>2. Kind(c) = "requester" /\ toDaemon[c] = <<Request_(c)>> /\ Head(toDaemon[c]) = Request_(c)
        BY <3>1, SaidBy
      <3>3. Head(toDaemon[c]).id = c
        BY <3>2 DEF Request_, Message
      <3>4. verdict[c] = Pending /\ modal.id # c
        BY <3>1, <3>2 DEF ProgramsOK, ProgramOK, AskerOK
      <3>5. Open(c)
        BY <3>1 DEF TableOK
      <3> QED
        BY <3>2, <3>3, <3>4, <3>5
    <2>2. /\ UNCHANGED <<clients, peer>> /\ toDaemon'[c] = <<>>
          /\ \A d \in Conns \ {c} : toDaemon'[d] = toDaemon[d]
      BY <1>5, <2>1 DEF HandleRequest, Taken, TypeOK
    <2>3. CASE UNCHANGED modal /\ \E e : verdict' = [verdict EXCEPT ![c] = e]
      <3>1. Running => verdict'[modal.id] = verdict[modal.id]
        BY <1>0, <2>1, <2>3 DEF TypeOK
      <3>2. peer'[modal.id].kind = peer[modal.id].kind /\ \A d \in Conns : Open(d)' = Open(d)
        BY <2>2 DEF Kind, Open
      <3> QED
        BY <1>0, <2>1, <2>2, <2>3, <3>1, <3>2, RunFrame DEF RunOK
    <2>4. CASE /\ modal' = [id |-> c, requester |-> clients[c].fd, left |-> Timeout, due |-> FALSE]
               /\ UNCHANGED verdict
      <3>1. modal'.id = c /\ modal'.requester = clients[c].fd
        BY <2>4
      <3>2. Kind(c)' = "requester" /\ Open(c)' /\ clients'[c].fd = clients[c].fd
        BY <2>1, <2>2 DEF Kind, Open
      <3>3. Holds(c)'
        BY <3>1, <3>2 DEF Holds
      <3> QED
        BY <2>1, <2>2, <2>4, <3>1, <3>2, <3>3 DEF RunOK, Kind, Holds, Open
    <2> QED
      BY <1>5, <2>1, <2>3, <2>4 DEF HandleRequest
  <1>6. ASSUME NEW c \in Conns, Served(c) PROVE RunOK'
    <2>1. Open(c) /\ UNCHANGED <<peer, toDaemon, verdict>>
      BY <1>6 DEF Served, Next_, Last, TableOK
    <2>2. \A d \in Conns : d # c => clients'[d] = clients[d]
      BY <1>6 DEF Served, TypeOK
    <2>3. peer'[modal.id].kind = peer[modal.id].kind
      BY <2>1 DEF Kind
    <2>4. CASE UNCHANGED modal /\ (UNCHANGED clients \/ ~Running \/ modal.requester # clients[c].fd)
      <3>1. Running /\ Holds(modal.id) => clients'[modal.id] = clients[modal.id]
        BY <1>0, <2>2, <2>4 DEF Holds
      <3> QED
        BY <1>0, <2>1, <2>3, <2>4, <3>1, RunFrame DEF RunOK
    <2>5. CASE Running /\ modal' = [modal EXCEPT !.requester = NoFd]
      <3>1. modal'.id = modal.id /\ modal'.requester = NoFd
        BY <2>5 DEF TypeOK, RunRecord
      <3> QED
        BY <2>1, <2>3, <2>5, <3>1 DEF RunOK, Running, Kind
    <2> QED
      BY <1>6, <2>4, <2>5 DEF Served
  <1>7. ASSUME NEW c \in Conns, DropSlow(c) PROVE RunOK'
    <2>1. Open(c) /\ Kind(c) = "viewer" /\ UNCHANGED <<modal, peer, verdict>>
      BY <1>7 DEF DropSlow, Capable, TableOK
    <2>2. \A d \in Conns \ {c} : clients'[d] = clients[d] /\ toDaemon'[d] = toDaemon[d]
      BY <1>7 DEF DropSlow, TypeOK
    <2>3. peer'[modal.id].kind = peer[modal.id].kind
      BY <2>1 DEF Kind
    <2> QED
      BY <1>0, <2>1, <2>2, <2>3, RunFrame DEF RunOK
  <1>8. CASE DetachAll
    <2>1. (\A d \in Conns : ~Open(d)') /\ UNCHANGED <<modal, peer, verdict>>
      BY <1>8 DEF DetachAll, Open, Gone
    <2>2. Running => toDaemon'[modal.id] = <<>>
      BY <1>0, <1>8 DEF DetachAll, RunOK
    <2>3. peer'[modal.id].kind = peer[modal.id].kind
      BY <2>1 DEF Kind
    <2> QED
      BY <2>1, <2>2, <2>3, RunFrame
  <1>9. CASE Tick
    <2>1. /\ modal'.id = modal.id /\ modal'.requester = modal.requester
          /\ UNCHANGED <<clients, peer, toDaemon, verdict>>
      BY <1>9 DEF Tick, TypeOK, RunRecord
    <2>2. peer'[modal.id].kind = peer[modal.id].kind /\ \A d \in Conns : Open(d)' = Open(d)
      BY <2>1 DEF Kind, Open
    <2> QED
      BY <2>1, <2>2, RunFrame DEF RunOK
  <1>10. ASSUME NEW c \in Conns, NEW k, NEW m, Connect(c, k, m) PROVE RunOK'
    <2>1. clients[c].phase = "none" /\ Kind(c) = "none" /\ UNCHANGED <<modal, verdict>>
      BY <1>10 DEF Connect, First, TableOK
    <2>2. Running => modal.id # c
      BY <2>1 DEF RunOK
    <2>3. \A d \in Conns \ {c} :
             clients'[d] = clients[d] /\ toDaemon'[d] = toDaemon[d] /\ peer'[d] = peer[d]
      BY <1>10 DEF Connect, TypeOK
    <2>4. ~Open(c)'
      BY <1>10 DEF Connect, TypeOK, ClientRecord, Open
    <2>5. Running => peer'[modal.id].kind = peer[modal.id].kind
      BY <1>0, <2>2, <2>3 DEF Kind
    <2>6. (\A d \in Conns : ~Open(d)) => \A d \in Conns : ~Open(d)'
      BY <2>3, <2>4 DEF Open
    <2> QED
      BY <1>0, <2>1, <2>2, <2>3, <2>5, <2>6, RunFrame DEF RunOK
  <1>11. CASE UNCHANGED <<clients, modal, toDaemon, verdict>> /\ \A d \in Conns : Kind(d)' = Kind(d)
    <2>1. \A d \in Conns : Open(d)' = Open(d)
      BY <1>11 DEF Open
    <2> QED
      BY <1>0, <1>11, <2>1, RunFrame DEF RunOK, Kind
  <1>12. ASSUME NEW c \in Conns, HearResult(c) \/ HangUp(c) PROVE RunOK'
    BY <1>11, <1>12, KindKept DEF HearResult, HangUp
  <1>13. CASE UNCHANGED <<clients, modal, toDaemon, verdict, peer>>
    BY <1>11, <1>13, KindKept
  <1>14. ASSUME NEW c \in Conns,
                HearShow(c) \/ HearClear(c) \/ Review(c) \/ Esc(c) \/ \E b \in Buttons : Enter(c, b)
         PROVE  RunOK'
    BY <1>13, <1>14 DEF HearShow, HearClear, Review, Esc, Enter, Keyed
  <1>15. ASSUME NEW c \in Conns, HearKey(c) PROVE RunOK'
    <2>1. \A m : \A d \in Conns \ {c} : Say(c, m)[d] = toDaemon[d]
      BY DEF Say, TypeOK
    <2> QED
      BY <1>3, <1>15, <2>1 DEF HearKey, Viewer, Kind
  <1>16. CASE UNCHANGED vars
    BY <1>13, <1>16 DEF vars
  <1> QED
    BY <1>1, <1>2, <1>4, <1>5, <1>6, <1>7, <1>8, <1>9, <1>10, <1>12, <1>14, <1>15, <1>16
       DEF Next, Daemon, Handle, Requester, Viewport, Attach, PoshModal
-----------------------------------------------------------------------------
(* What the programs hold. *)

LEMMA SeqGrows ==
    ASSUME NEW A, NEW B, A \subseteq B, NEW s \in Seq(A)
    PROVE  s \in Seq(B)
  OBVIOUS

LEMMA KeysGrow ==
    ASSUME NEW S, NEW T, S \subseteq T
    PROVE  Seq(Meant(S)) \subseteq Seq(Meant(T)) /\ Seq(Told(S)) \subseteq Seq(Told(T))
  <1>1. Meant(S) \subseteq Meant(T) /\ Told(S) \subseteq Told(T)
    BY DEF Meant, Told
  <1> QED
    BY <1>1, SeqGrows

\* A queue that carries nothing to a viewport that shows nothing.
LEMMA BannerIdle == ASSUME NEW id PROVE BannerOK(<<>>, NoId, id)
  BY DEF BannerOK

LEMMA ClearedPushed ==
    ASSUME NEW s \in Seq(Downlink), NEW x \in Downlink, NEW i \in Nat \ {0}, NEW r, Cleared(s, i, r)
    PROVE  Cleared(Append(s, x), i, r)
  <1>1. PICK j \in i .. Len(s) : s[j] = Clear(r)
    BY DEF Cleared
  <1>2. j \in i .. Len(Append(s, x)) /\ Append(s, x)[j] = Clear(r)
    BY <1>1
  <1> QED
    BY <1>2 DEF Cleared

\* The end of a countdown is told behind whatever is on its way.
LEMMA BannerCleared ==
    ASSUME NEW s \in Seq(Downlink), NEW m, NEW id \in Conns, BannerOK(s, m, id)
    PROVE  BannerOK(Append(s, Clear(id)), m, NoId)
  <1> DEFINE t == Append(s, Clear(id))
  <1>0. Clear(id) \in Downlink
    BY Sendable
  <1>1. \A i \in 1 .. Len(t) : Cleared(t, i, id)
    BY <1>0 DEF Cleared
  <1>2. m # NoId => Cleared(t, 1, m)
    <2>1. 1 \in 1 .. Len(t) /\ 1 \in Nat \ {0}
      BY <1>0
    <2> QED
      BY <1>0, <1>1, <2>1, ClearedPushed DEF BannerOK
  <1>3. ASSUME NEW i \in 1 .. Len(t), t[i].op = "show" PROVE Cleared(t, i, t[i].id)
    <2>1. i \in 1 .. Len(s) /\ t[i] = s[i]
      BY <1>0, <1>3 DEF Clear, Notice_
    <2>2. s[i].id = id \/ Cleared(s, i, s[i].id)
      BY <1>3, <2>1 DEF BannerOK
    <2> QED
      BY <1>0, <1>1, <2>1, <2>2, ClearedPushed
  <1> QED
    BY <1>2, <1>3 DEF BannerOK

\* A countdown starts, or is shown again.
LEMMA BannerShown ==
    ASSUME NEW s \in Seq(Downlink), NEW m, NEW id, NEW r \in Conns, id \in {NoId, r}, BannerOK(s, m, id)
    PROVE  BannerOK(Append(s, Show(r)), m, r)
  <1> DEFINE t == Append(s, Show(r))
  <1>0. Show(r) \in Downlink
    BY Sendable
  <1>1. m # NoId => m = r \/ Cleared(t, 1, m)
    BY <1>0, ClearedPushed DEF BannerOK
  <1>2. ASSUME NEW i \in 1 .. Len(t), t[i].op = "show" PROVE t[i].id = r \/ Cleared(t, i, t[i].id)
    <2>1. CASE i = Len(t)
      BY <1>0, <2>1 DEF Show, Notice_
    <2>2. CASE i # Len(t)
      <3>1. i \in 1 .. Len(s) /\ t[i] = s[i] /\ s[i] \in Downlink
        BY <1>0, <2>2
      <3>2. s[i].id = id \/ Cleared(s, i, s[i].id)
        BY <1>2, <3>1 DEF BannerOK
      <3>3. s[i].id # NoId
        BY <3>1, Downlinks, Apart
      <3> QED
        BY <1>0, <3>1, <3>2, <3>3, ClearedPushed
    <2> QED
      BY <2>1, <2>2
  <1> QED
    BY <1>1, <1>2 DEF BannerOK

LEMMA ClearedTaken ==
    ASSUME NEW s \in Seq(Downlink), s # <<>>, NEW i \in Nat \ {0}, NEW r, Cleared(s, i + 1, r)
    PROVE  Cleared(Tail(s), i, r)
  <1>1. PICK j \in (i + 1) .. Len(s) : s[j] = Clear(r)
    BY DEF Cleared
  <1>2. j - 1 \in i .. Len(Tail(s)) /\ Tail(s)[j - 1] = Clear(r)
    BY <1>1
  <1> QED
    BY <1>2 DEF Cleared

\* What is left behind the head, whatever the head is.
LEMMA BannerTail ==
    ASSUME NEW s \in Seq(Downlink), s # <<>>, NEW m, NEW id, BannerOK(s, m, id)
    PROVE  /\ \A i \in 1 .. Len(Tail(s)) : Tail(s)[i].op = "show" =>
                  Tail(s)[i].id = id \/ Cleared(Tail(s), i, Tail(s)[i].id)
           /\ \A r : Cleared(s, 1, r) => Head(s) = Clear(r) \/ Cleared(Tail(s), 1, r)
  <1>1. ASSUME NEW i \in 1 .. Len(Tail(s)), Tail(s)[i].op = "show"
        PROVE  Tail(s)[i].id = id \/ Cleared(Tail(s), i, Tail(s)[i].id)
    <2>1. i + 1 \in 1 .. Len(s) /\ Tail(s)[i] = s[i + 1] /\ i \in Nat \ {0}
      OBVIOUS
    <2> QED
      BY <1>1, <2>1, ClearedTaken DEF BannerOK
  <1>2. ASSUME NEW r, Cleared(s, 1, r), Head(s) # Clear(r) PROVE Cleared(Tail(s), 1, r)
    <2>1. PICK j \in 1 .. Len(s) : s[j] = Clear(r)
      BY <1>2 DEF Cleared
    <2>2. j # 1
      BY <1>2, <2>1
    <2>3. Cleared(s, 1 + 1, r)
      BY <2>1, <2>2 DEF Cleared
    <2> QED
      BY <2>3, ClearedTaken
  <1> QED
    BY <1>1, <1>2

LEMMA BannerTakesShow ==
    ASSUME NEW s \in Seq(Downlink), s # <<>>, NEW m, NEW id, BannerOK(s, m, id), Head(s).op = "show"
    PROVE  BannerOK(Tail(s), Head(s).id, id)
  <1>1. Head(s).id = id \/ Cleared(s, 1, Head(s).id)
    <2>1. 1 \in 1 .. Len(s) /\ s[1] = Head(s)
      OBVIOUS
    <2> QED
      BY <2>1 DEF BannerOK
  <1>2. \A r : Head(s) # Clear(r)
    BY DEF Clear, Notice_
  <1> QED
    BY <1>1, <1>2, BannerTail DEF BannerOK

LEMMA BannerTakesClear ==
    ASSUME NEW s \in Seq(Downlink), s # <<>>, NEW m, NEW id, BannerOK(s, m, id)
    PROVE  /\ m # Head(s).id => BannerOK(Tail(s), m, id)
           /\ BannerOK(Tail(s), NoId, id)
  <1>1. \A r : Head(s) = Clear(r) => Head(s).id = r
    BY DEF Clear, Notice_
  <1> QED
    BY <1>1, BannerTail DEF BannerOK

\* What a step may do to a program it is not about.
Steady(d) ==
    /\ peer'[d] = peer[d] /\ view'[d] = view[d] /\ heard'[d] = heard[d]
    /\ keys \subseteq keys'
    /\ \/ toDaemon'[d] = toDaemon[d]
       \/ toDaemon'[d] = <<>>
       \/ toDaemon[d] # <<>> /\ toDaemon'[d] = Tail(toDaemon[d])
    /\ \/ clients'[d].phase = "closed"
       \/ clients[d].phase # "closed" /\ (Capable(d) => Capable(d)')

LEMMA SteadySaid ==
    ASSUME ProgramsOK, NEW d \in Conns, Steady(d)
    PROVE  /\ Kind(d)' = Kind(d)
           /\ Kind(d) = "none" => toDaemon'[d] = <<>>
           /\ Kind(d) = "requester" => toDaemon'[d] \in {<<>>, toDaemon[d]}
           /\ Kind(d) = "viewer" => SaidOK(d)'
  <1>1. Kind(d)' = Kind(d)
    BY DEF Kind, Steady
  <1>2. Kind(d) = "none" => toDaemon'[d] = <<>>
    BY DEF ProgramsOK, ProgramOK, UnusedOK, Steady
  <1>3. Kind(d) = "requester" => toDaemon'[d] \in {<<>>, toDaemon[d]}
    <2>1. Kind(d) = "requester" => toDaemon[d] = <<>> \/ toDaemon[d] = <<Request_(d)>>
      BY DEF ProgramsOK, ProgramOK, AskerOK
    <2>2. Tail(<<Request_(d)>>) = <<>>
      OBVIOUS
    <2> QED
      BY <2>1, <2>2 DEF Steady
  <1>4. ASSUME Kind(d) = "viewer" PROVE SaidOK(d)'
    <2>1. SaidOK(d)
      BY <1>4 DEF ProgramsOK, ProgramOK
    <2>2. toDaemon'[d] \in Seq(Meant(keys))
      <3>1. toDaemon[d] \in Seq(Meant(keys))
        BY <2>1 DEF SaidOK
      <3>2. <<>> \in Seq(Meant(keys))
        OBVIOUS
      <3> QED
        BY <3>1, <3>2, QueueTypes DEF Steady
    <2>3. toDaemon'[d] \in Seq(Meant(keys')) /\ view[d].events \in Seq(Told(keys'))
      BY <2>1, <2>2, KeysGrow DEF SaidOK, Steady
    <2>4. view'[d] = view[d]
      BY DEF Steady
    <2> QED
      BY <2>1, <2>3, <2>4 DEF SaidOK, Meant, Told
  <1> QED
    BY <1>1, <1>2, <1>3, <1>4

\* Nothing is told, nothing decided.
LEMMA ProgramFrame ==
    ASSUME TypeOK, ProgramsOK, NEW d \in Conns, Steady(d),
           toPeer'[d] = toPeer[d], verdict'[d] = verdict[d], modal'.id = modal.id
    PROVE  ProgramOK(d)'
  <1>0. ProgramOK(d) /\ Kind(d)' = Kind(d)
    BY SteadySaid DEF ProgramsOK
  <1>1. Kind(d) = "none" => UnusedOK(d)'
    BY <1>0, SteadySaid DEF ProgramOK, UnusedOK, Steady
  <1>2. Kind(d) = "requester" => AskerOK(d)'
    BY <1>0, SteadySaid DEF ProgramOK, AskerOK, Steady
  <1>3. Kind(d) = "viewer" => SeenOK(d)'
    BY <1>0 DEF ProgramOK, SeenOK, Steady
  <1> QED
    BY <1>0, <1>1, <1>2, <1>3, SteadySaid DEF ProgramOK

LEMMA Unheard ==
    ASSUME TypeOK, NEW d \in Conns, SeenOK(d), ~Capable(d)
    PROVE  clients[d].phase # "closed" => view[d].modal = NoId /\ toPeer[d] = <<>>
  BY DEF SeenOK

LEMMA ProgramResolved ==
    ASSUME TypeOK, TableOK, RunOK, ProgramsOK, Running, NEW e \in Endings, Resolve(e),
           NEW d \in Conns, Steady(d)
    PROVE  ProgramOK(d)'
  <1>0. ProgramOK(d) /\ Kind(d)' = Kind(d) /\ modal' = NoRun /\ modal.id \in Conns
    BY SteadySaid, ResolveTells DEF ProgramsOK
  <1>a. modal'.id = NoId /\ NoId # d
    BY <1>0, Apart DEF NoRun
  <1>1. ASSUME Kind(d) = "none" PROVE UnusedOK(d)'
    <2>1. toPeer'[d] = toPeer[d] /\ d # modal.id
      BY <1>1, ResolveTells DEF RunOK
    <2>2. verdict'[d] = verdict[d]
      BY <2>1, ResolveTells
    <2> QED
      BY <1>0, <1>1, <1>a, <2>1, <2>2, SteadySaid DEF ProgramOK, UnusedOK, Steady
  <1>2. ASSUME Kind(d) = "requester" PROVE AskerOK(d)'
    <2>0. AskerOK(d) /\ toDaemon'[d] \in {<<>>, toDaemon[d]}
      BY <1>0, <1>2, SteadySaid DEF ProgramOK
    <2>1. CASE d # modal.id
      <3>1. toPeer'[d] = toPeer[d] /\ verdict'[d] = verdict[d]
        BY <1>2, <2>1, ResolveTells
      <3> QED
        BY <1>a, <2>0, <3>1 DEF AskerOK, Steady
    <2>2. CASE d = modal.id
      <3>1. toDaemon[d] = <<>> /\ verdict[d] = Pending /\ toPeer[d] = <<>>
        BY <2>0, <2>2 DEF RunOK, AskerOK
      <3>2. verdict'[d] = e /\ e # Pending
        BY <2>2, ResolveTells, Apart
      <3>3. toPeer'[d] = <<>> \/ toPeer'[d] = <<Result(d, e)>>
        BY <1>2, <3>1, ResolveTells
      <3>4. toPeer'[d] \in Seq({Result(d, e)})
        <4>1. \A x : <<>> \in Seq({x}) /\ <<x>> \in Seq({x})
          OBVIOUS
        <4> QED
          BY <3>3, <4>1
      <3> QED
        BY <2>0, <3>1, <3>2, <3>4 DEF AskerOK, Steady, Result, Notice_
    <2> QED
      BY <2>1, <2>2
  <1>3. ASSUME Kind(d) = "viewer", clients'[d].phase # "closed" PROVE SeenOK(d)'
    <2>0. SeenOK(d) /\ clients[d].phase # "closed" /\ view'[d] = view[d] /\ (Capable(d) => Capable(d)')
      BY <1>0, <1>3 DEF ProgramOK, Steady
    <2>1. CASE Capable(d)
      <3>1. toPeer'[d] = Append(toPeer[d], Clear(modal.id))
        BY <1>3, <2>1, ResolveTells
      <3>2. BannerOK(toPeer'[d], view[d].modal, NoId)
        BY <1>0, <2>0, <3>1, BannerCleared, RecordTypes DEF SeenOK
      <3> QED
        BY <1>a, <2>0, <2>1, <3>2 DEF SeenOK, BannerOK, Cleared
    <2>2. CASE ~Capable(d)
      <3>1. toPeer'[d] = toPeer[d] /\ toPeer[d] = <<>> /\ view[d].modal = NoId
        BY <1>3, <2>0, <2>2, Unheard, ResolveTells
      <3>2. BannerOK(toPeer'[d], view'[d].modal, modal'.id)
        BY <2>0, <3>1, BannerIdle
      <3> QED
        BY <2>0, <3>1, <3>2 DEF SeenOK, BannerOK, Cleared
    <2> QED
      BY <2>1, <2>2
  <1>4. clients'[d].phase = "closed" => SeenOK(d)'
    BY DEF SeenOK
  <1> QED
    BY <1>0, <1>1, <1>2, <1>3, <1>4, SteadySaid DEF ProgramOK

\* A countdown that starts, or runs, is shown.
LEMMA ProgramShown ==
    ASSUME TypeOK, TableOK, ProgramsOK, NEW r \in Conns, Kind(r) = "requester", toDaemon'[r] = <<>>,
           modal.id \in {NoId, r}, modal'.id = r, toPeer' = Shown(r), UNCHANGED verdict,
           NEW d \in Conns, Steady(d)
    PROVE  ProgramOK(d)'
  <1>0. ProgramOK(d) /\ Kind(d)' = Kind(d) /\ verdict'[d] = verdict[d]
    BY SteadySaid DEF ProgramsOK
  <1>a. toPeer'[d] = IF Capable(d) THEN Append(toPeer[d], Show(r)) ELSE toPeer[d]
    BY DEF Shown
  <1>b. Capable(d) => Kind(d) = "viewer"
    BY DEF Capable, TableOK
  <1>1. ASSUME Kind(d) = "none" PROVE UnusedOK(d)'
    BY <1>0, <1>1, <1>a, <1>b, SteadySaid DEF ProgramOK, UnusedOK, Steady
  <1>2. ASSUME Kind(d) = "requester" PROVE AskerOK(d)'
    BY <1>0, <1>2, <1>a, <1>b, SteadySaid DEF ProgramOK, AskerOK, Steady
  <1>3. ASSUME Kind(d) = "viewer", clients'[d].phase # "closed" PROVE SeenOK(d)'
    <2>0. SeenOK(d) /\ clients[d].phase # "closed" /\ view'[d] = view[d] /\ (Capable(d) => Capable(d)')
      BY <1>0, <1>3 DEF ProgramOK, Steady
    <2>1. CASE Capable(d)
      <3>1. BannerOK(toPeer'[d], view[d].modal, r)
        BY <1>a, <2>0, <2>1, BannerShown, RecordTypes DEF SeenOK
      <3> QED
        BY <2>0, <2>1, <3>1 DEF SeenOK, BannerOK, Cleared
    <2>2. CASE ~Capable(d)
      <3>1. toPeer'[d] = <<>> /\ view[d].modal = NoId
        BY <1>a, <2>0, <2>2, Unheard
      <3>2. BannerOK(toPeer'[d], view'[d].modal, modal'.id)
        BY <2>0, <3>1, BannerIdle
      <3> QED
        BY <2>0, <3>1, <3>2 DEF SeenOK, BannerOK, Cleared
    <2> QED
      BY <2>1, <2>2
  <1>4. clients'[d].phase = "closed" => SeenOK(d)'
    BY DEF SeenOK
  <1> QED
    BY <1>0, <1>1, <1>2, <1>3, <1>4, SteadySaid DEF ProgramOK

LEMMA ProgramsKept ==
    ASSUME TypeOK, TableOK, RunOK, ProgramsOK, [Next]_vars
    PROVE  ProgramsOK'
  <1>1. CASE Poll
    <2>0. ModalDrive /\ Accept /\ UNCHANGED <<peer, toDaemon, view, heard, keys>>
      BY <1>1 DEF Poll
    <2>1. ASSUME NEW d \in Conns PROVE Steady(d)
      <3>1. \/ clients'[d].phase = "closed"
            \/ clients[d].phase # "closed" /\ (Capable(d) => Capable(d)')
        BY <2>0, AcceptKeeps DEF Open, Capable
      <3> QED
        BY <2>0, <3>1 DEF Steady
    <2>2. CASE UNCHANGED <<modal, toPeer, verdict>>
      BY <2>1, <2>2, ProgramFrame DEF ProgramsOK
    <2>3. CASE Running /\ \E e \in {NoViewer, TimedOut} : Resolve(e)
      BY <2>1, <2>3, ProgramResolved, Apart DEF ProgramsOK
    <2>4. CASE Running /\ modal'.id = modal.id /\ toPeer' = Shown(modal.id) /\ UNCHANGED verdict
      <3>1. modal.id \in Conns /\ Kind(modal.id) = "requester" /\ toDaemon'[modal.id] = <<>>
        BY <2>0, <2>4 DEF RunOK, TypeOK, RunRecord, Running
      <3> QED
        BY <2>1, <2>4, <3>1, ProgramShown DEF ProgramsOK
    <2> QED
      BY <2>0, <2>2, <2>3, <2>4, DriveCases
  <1>2. ASSUME NEW c \in Conns, c \in turn.polled, toDaemon[c] # <<>>, Taken(c),
               UNCHANGED <<turn, peer, view, heard, keys>>,
               \/ UNCHANGED clients
               \/ clients' = [clients EXCEPT ![c].capable = TRUE]
        PROVE  /\ \A d \in Conns : Steady(d)
               /\ toDaemon'[c] = Tail(toDaemon[c])
               /\ \A d \in Conns \ {c} : toDaemon'[d] = toDaemon[d]
    <2>1. /\ toDaemon'[c] = Tail(toDaemon[c])
          /\ \A d \in Conns \ {c} : toDaemon'[d] = toDaemon[d]
      BY <1>2 DEF Taken, TypeOK
    <2>2. ASSUME NEW d \in Conns
          PROVE  \/ clients'[d].phase = "closed"
                 \/ clients[d].phase # "closed" /\ (Capable(d) => Capable(d)')
      <3>1. Open(c)
        BY <1>2 DEF TableOK
      <3>2. clients'[d].phase = clients[d].phase /\ (clients[d].capable => clients'[d].capable)
        <4>1. CASE UNCHANGED clients
          BY <4>1
        <4>2. CASE clients' = [clients EXCEPT ![c].capable = TRUE]
          BY <4>2 DEF TypeOK, ClientRecord
        <4> QED
          BY <1>2, <4>1, <4>2
      <3> QED
        BY <3>1, <3>2 DEF Open, Capable
    <2> QED
      BY <1>2, <2>1, <2>2 DEF Steady
  <1>3. ASSUME NEW c \in Conns, HandleInit(c) PROVE ProgramsOK'
    <2>1. c \in turn.polled /\ UNCHANGED <<modal, toPeer, verdict>>
      BY <1>3 DEF HandleInit, Next_, Last
    <2>2. \A d \in Conns : Steady(d)
      BY <1>2, <1>3, <2>1 DEF HandleInit
    <2> QED
      BY <2>1, <2>2, ProgramFrame DEF ProgramsOK
  <1>4. ASSUME NEW c \in Conns, HandleChoose(c) PROVE ProgramsOK'
    <2>1. c \in turn.polled /\ toDaemon[c] # <<>> /\ Head(toDaemon[c]).op = "choose"
      BY <1>4 DEF HandleChoose, Next_, Last
    <2>2. \A d \in Conns : Steady(d)
      BY <1>2, <1>4, <2>1 DEF HandleChoose
    <2>3. Chosen(Head(toDaemon[c]).button) \in Endings
      BY <2>1, RecordTypes, Uplinks, Apart
    <2>4. CASE Running /\ Head(toDaemon[c]).id = modal.id
      <3>1. Resolve(Chosen(Head(toDaemon[c]).button))
        BY <1>4, <2>4 DEF HandleChoose
      <3> QED
        BY <2>2, <2>3, <2>4, <3>1, ProgramResolved DEF ProgramsOK
    <2>5. CASE ~(Running /\ Head(toDaemon[c]).id = modal.id)
      <3>1. UNCHANGED <<modal, toPeer, verdict>>
        BY <1>4, <2>5 DEF HandleChoose
      <3> QED
        BY <2>2, <3>1, ProgramFrame DEF ProgramsOK
    <2> QED
      BY <2>4, <2>5
  <1>5. ASSUME NEW c \in Conns, HandleRequest(c) PROVE ProgramsOK'
    <2>1. c \in turn.polled /\ toDaemon[c] # <<>> /\ Head(toDaemon[c]).op = "request"
      BY <1>5 DEF HandleRequest, Next_, Last
    <2>2. /\ \A d \in Conns : Steady(d)
          /\ toDaemon'[c] = Tail(toDaemon[c])
          /\ \A d \in Conns \ {c} : toDaemon'[d] = toDaemon[d]
      BY <1>2, <1>5, <2>1 DEF HandleRequest
    <2>3. Kind(c) = "requester" /\ toDaemon[c] = <<Request_(c)>> /\ Head(toDaemon[c]) = Request_(c)
      BY <2>1, SaidBy
    <2>4. AskerOK(c) /\ verdict[c] = Pending /\ modal.id # c /\ toPeer[c] = <<>>
      BY <2>1, <2>3 DEF ProgramsOK, ProgramOK, AskerOK
    <2>5. Head(toDaemon[c]).id = c /\ toDaemon'[c] = <<>>
      BY <2>2, <2>3 DEF Request_, Message
    <2>6. ASSUME NEW e \in {Busy, NoViewer}, UNCHANGED modal, toPeer' = Sent(c, Result(c, e)),
                 verdict' = [verdict EXCEPT ![c] = e]
          PROVE  ProgramsOK'
      <3>1. ASSUME NEW d \in Conns, d # c PROVE ProgramOK(d)'
        <4>1. toPeer'[d] = toPeer[d] /\ verdict'[d] = verdict[d]
          BY <2>6, <3>1 DEF Sent, TypeOK
        <4> QED
          BY <2>2, <2>6, <4>1, ProgramFrame
      <3>2. AskerOK(c)'
        <4>1. verdict'[c] = e /\ e # Pending
          BY <2>6, Apart DEF TypeOK
        <4>2. toPeer'[c] = <<Result(c, e)>>
          BY <2>4, <2>6 DEF Sent, TypeOK
        <4>3. \A x : <<x>> \in Seq({x})
          OBVIOUS
        <4>4. toPeer'[c] \in Seq({Result(c, e)})
          BY <4>2, <4>3
        <4> QED
          BY <2>2, <2>4, <2>5, <4>1, <4>4 DEF AskerOK, Steady, Result, Notice_
      <3>3. ProgramOK(c)'
        BY <2>2, <2>3, <3>2, SteadySaid DEF ProgramOK
      <3> QED
        BY <3>1, <3>3 DEF ProgramsOK
    <2>7. ASSUME ~Running, modal'.id = c, toPeer' = Shown(c), UNCHANGED verdict
          PROVE  ProgramsOK'
      BY <2>2, <2>3, <2>5, <2>7, ProgramShown DEF ProgramsOK, Running
    <2> QED
      BY <1>5, <2>5, <2>6, <2>7 DEF HandleRequest
  <1>6. ASSUME NEW c \in Conns, Served(c) PROVE ProgramsOK'
    <2>1. Open(c) /\ UNCHANGED <<peer, toDaemon, toPeer, view, verdict, heard, keys>>
      BY <1>6 DEF Served, Next_, Last, TableOK
    <2>2. modal'.id = modal.id
      BY <1>6 DEF Served, TypeOK, RunRecord
    <2>3. ASSUME NEW d \in Conns PROVE Steady(d)
      <3>1. clients'[d] = clients[d] \/ clients'[d].phase = "closed"
        BY <1>6 DEF Served, TypeOK, Gone
      <3>2. clients[d].phase = "closed" => clients'[d].phase = "closed"
        BY <3>1
      <3> QED
        BY <2>1, <3>1, <3>2 DEF Steady, Capable, Open
    <2> QED
      BY <2>1, <2>2, <2>3, ProgramFrame DEF ProgramsOK
  <1>7. ASSUME NEW c \in Conns, DropSlow(c) PROVE ProgramsOK'
    <2>1. UNCHANGED <<modal, peer, toPeer, view, verdict, heard, keys>>
      BY <1>7 DEF DropSlow
    <2>2. ASSUME NEW d \in Conns PROVE Steady(d)
      <3>1. clients'[d] = clients[d] \/ clients'[d].phase = "closed"
        BY <1>7 DEF DropSlow, TypeOK, Gone
      <3>2. toDaemon'[d] = toDaemon[d] \/ toDaemon'[d] = <<>>
        BY <1>7 DEF DropSlow, TypeOK
      <3> QED
        BY <2>1, <3>1, <3>2 DEF Steady, Capable, Open
    <2> QED
      BY <2>1, <2>2, ProgramFrame DEF ProgramsOK
  <1>8. CASE DetachAll
    <2>1. UNCHANGED <<modal, peer, toPeer, view, verdict, heard, keys>>
      BY <1>8 DEF DetachAll
    <2>2. ASSUME NEW d \in Conns PROVE Steady(d)
      <3>1. clients'[d] = clients[d] \/ clients'[d].phase = "closed"
        BY <1>8 DEF DetachAll, Gone
      <3>2. toDaemon'[d] = toDaemon[d] \/ toDaemon'[d] = <<>>
        BY <1>8 DEF DetachAll
      <3> QED
        BY <2>1, <3>1, <3>2 DEF Steady, Capable, Open
    <2> QED
      BY <2>1, <2>2, ProgramFrame DEF ProgramsOK
  <1>9. CASE Tick
    <2>1. /\ modal'.id = modal.id
          /\ UNCHANGED <<clients, peer, toDaemon, toPeer, view, verdict, heard, keys>>
      BY <1>9 DEF Tick, TypeOK, RunRecord
    <2>2. \A d \in Conns : Steady(d)
      BY <2>1 DEF Steady, Capable, Open
    <2> QED
      BY <2>1, <2>2, ProgramFrame DEF ProgramsOK
  <1>10. ASSUME NEW c \in Conns, NEW d \in Conns, d # c, UNCHANGED <<modal, verdict>>,
                clients'[d] = clients[d], peer'[d] = peer[d], toDaemon'[d] = toDaemon[d],
                toPeer'[d] = toPeer[d], view'[d] = view[d], heard'[d] = heard[d],
                keys \subseteq keys'
         PROVE  ProgramOK(d)'
    BY <1>10, ProgramFrame DEF Steady, Capable, Open
  <1>11. ASSUME NEW c \in Conns, NEW k \in {"viewer", "requester"},
                NEW m, m = IF k = "viewer" THEN Init_ ELSE Request_(c), Connect(c, k, m)
         PROVE  ProgramsOK'
    <2>0. UNCHANGED <<modal, turn, toPeer, view, verdict, heard, keys>>
      BY <1>11 DEF Connect
    <2>1. \A d \in Conns : d # c => ProgramOK(d)'
      BY <1>10, <1>11 DEF Connect, TypeOK
    <2>2. UnusedOK(c) /\ Kind(c) = "none"
      BY <1>11 DEF Connect, First, TableOK, ProgramsOK, ProgramOK
    <2>3. /\ Kind(c)' = k /\ toDaemon'[c] = <<m>>
      BY <1>11 DEF Connect, TypeOK, Kind
    <2>4. ASSUME k = "requester" PROVE ProgramOK(c)'
      <3>1. AskerOK(c)'
        <4>1. \A x : <<>> \in Seq({x})
          OBVIOUS
        <4> QED
          BY <1>11, <2>0, <2>2, <2>3, <2>4, <4>1 DEF AskerOK, UnusedOK
      <3> QED
        BY <2>3, <2>4, <3>1 DEF ProgramOK
    <2>5. ASSUME k = "viewer" PROVE ProgramOK(c)'
      <3>1. SeenOK(c)'
        <4>1. toPeer'[c] = <<>> /\ view'[c].modal = NoId
          BY <2>0, <2>2 DEF UnusedOK, NoView
        <4>2. BannerOK(toPeer'[c], view'[c].modal, modal'.id)
          BY <4>1, BannerIdle
        <4> QED
          BY <4>1, <4>2 DEF SeenOK, BannerOK, Cleared
      <3>2. SaidOK(c)'
        <4>1. Init_ \in Meant(keys)
          BY <1>11, Sendable DEF Meant, Init_, Message
        <4>2. \A S : \A x \in S : <<>> \in Seq(S) /\ <<x>> \in Seq(S)
          OBVIOUS
        <4>3. <<Init_>> \in Seq(Meant(keys))
          BY <4>1, <4>2
        <4>4. view[c].events = <<>> /\ view[c].review = FALSE
          BY <2>2 DEF UnusedOK, NoView
        <4>5. view'[c].events \in Seq(Told(keys)) /\ toDaemon'[c] \in Seq(Meant(keys))
          BY <1>11, <2>0, <2>3, <2>5, <4>3, <4>4
        <4> QED
          BY <2>0, <4>4, <4>5 DEF SaidOK, Meant, Told
      <3> QED
        BY <2>3, <2>5, <3>1, <3>2 DEF ProgramOK
    <2>6. ProgramOK(c)'
      BY <2>4, <2>5
    <2> QED
      BY <2>1, <2>6 DEF ProgramsOK
  <1>12. ASSUME NEW c \in Conns, HearResult(c) PROVE ProgramsOK'
    <2>0. /\ Kind(c) = "requester" /\ AskerOK(c) /\ toPeer[c] # <<>>
          /\ UNCHANGED <<clients, modal, turn, toDaemon, view, verdict, keys>>
      BY <1>12 DEF HearResult, Kind, ProgramsOK, ProgramOK
    <2>1. \A d \in Conns : d # c => ProgramOK(d)'
      BY <1>10, <1>12 DEF HearResult, TypeOK
    <2>2. Kind(c)' = Kind(c) /\ ~peer'[c].up /\ toPeer'[c] = <<>>
      BY <1>12 DEF HearResult, Kind, TypeOK, PeerRecord
    <2>3. AskerOK(c)'
      <3>1. \A x : <<>> \in Seq({x})
        OBVIOUS
      <3> QED
        BY <2>0, <2>2, <3>1 DEF AskerOK
    <2> QED
      BY <2>0, <2>1, <2>2, <2>3 DEF ProgramsOK, ProgramOK
  <1>13. ASSUME NEW c \in Conns, HangUp(c) PROVE ProgramsOK'
    <2>0. ProgramOK(c) /\ UNCHANGED <<clients, modal, turn, toDaemon, verdict, heard, keys>>
      BY <1>13 DEF HangUp, ProgramsOK
    <2>1. \A d \in Conns : d # c => ProgramOK(d)'
      BY <1>10, <1>13 DEF HangUp, TypeOK
    <2>2. /\ Kind(c)' = Kind(c) /\ ~peer'[c].up /\ toPeer'[c] = <<>> /\ view'[c] = NoView
          /\ view'[c].modal = NoId /\ view'[c].events = <<>> /\ view'[c].review = FALSE
      BY <1>13 DEF HangUp, Kind, TypeOK, PeerRecord, NoView
    <2>3. \A S : <<>> \in Seq(S)
      OBVIOUS
    <2>4. Kind(c) = "none" => UnusedOK(c)'
      BY <2>0, <2>2 DEF ProgramOK, UnusedOK
    <2>5. Kind(c) = "requester" => AskerOK(c)'
      BY <2>0, <2>2, <2>3 DEF ProgramOK, AskerOK
    <2>6. Kind(c) = "viewer" => SaidOK(c)'
      BY <2>0, <2>2, <2>3 DEF ProgramOK, SaidOK, Meant, Told
    <2>7. SeenOK(c)'
      <3>1. BannerOK(toPeer'[c], view'[c].modal, modal'.id)
        BY <2>2, BannerIdle
      <3> QED
        BY <2>2, <3>1 DEF SeenOK, BannerOK, Cleared
    <2> QED
      BY <2>1, <2>2, <2>4, <2>5, <2>6, <2>7 DEF ProgramsOK, ProgramOK
  <1>14. ASSUME NEW c \in Conns, Kind(c) = "viewer", SaidOK(c)', SeenOK(c)',
                UNCHANGED <<clients, modal, turn, peer, verdict, heard>>, keys \subseteq keys',
                \A d \in Conns \ {c} : /\ toPeer'[d] = toPeer[d] /\ view'[d] = view[d]
                                       /\ toDaemon'[d] = toDaemon[d]
         PROVE  ProgramsOK'
    <2>1. \A d \in Conns : d # c => ProgramOK(d)'
      BY <1>10, <1>14
    <2>2. ProgramOK(c)'
      BY <1>14 DEF ProgramOK, Kind
    <2> QED
      BY <2>1, <2>2 DEF ProgramsOK
  <1>15. ASSUME NEW c \in Conns, Viewer(c)
         PROVE  Kind(c) = "viewer" /\ SaidOK(c) /\ SeenOK(c)
    BY <1>15 DEF Viewer, Kind, ProgramsOK, ProgramOK
  <1>16. ASSUME NEW c \in Conns, HearShow(c) PROVE ProgramsOK'
    <2>0. /\ Kind(c) = "viewer" /\ SaidOK(c) /\ SeenOK(c)
          /\ toPeer[c] # <<>> /\ Head(toPeer[c]).op = "show"
          /\ UNCHANGED <<clients, modal, turn, peer, toDaemon, verdict, heard, keys>>
      BY <1>15, <1>16 DEF HearShow
    <2>1. /\ \A d \in Conns \ {c} : toPeer'[d] = toPeer[d] /\ view'[d] = view[d]
          /\ toPeer'[c] = Tail(toPeer[c]) /\ view'[c] = [view[c] EXCEPT !.modal = Head(toPeer[c]).id]
      BY <1>16 DEF HearShow, TypeOK
    <2>2. /\ view'[c].modal = Head(toPeer[c]).id /\ view'[c].events = view[c].events
          /\ Head(toPeer[c]).id # NoId
      BY <2>0, <2>1, RecordTypes, ViewFields, Downlinks, Apart DEF ViewRecord
    <2>3. SaidOK(c)'
      BY <2>0, <2>2 DEF SaidOK, Meant, Told
    <2>4. SeenOK(c)'
      <3>1. clients[c].phase # "closed" => BannerOK(toPeer'[c], view'[c].modal, modal.id)
        BY <2>0, <2>1, <2>2, BannerTakesShow, RecordTypes DEF SeenOK
      <3>2. clients[c].phase # "closed" => Capable(c)
        BY <2>0 DEF SeenOK
      <3> QED
        BY <2>0, <3>1, <3>2 DEF SeenOK, BannerOK, Cleared, Capable, Open
    <2> QED
      BY <1>14, <2>0, <2>1, <2>3, <2>4
  <1>17. ASSUME NEW c \in Conns, HearClear(c) PROVE ProgramsOK'
    <2>0. /\ Kind(c) = "viewer" /\ SaidOK(c) /\ SeenOK(c)
          /\ toPeer[c] # <<>> /\ Head(toPeer[c]).op = "clear"
          /\ UNCHANGED <<clients, modal, turn, peer, toDaemon, verdict, heard, keys>>
      BY <1>15, <1>17 DEF HearClear
    <2>1. /\ \A d \in Conns \ {c} : toPeer'[d] = toPeer[d] /\ view'[d] = view[d]
          /\ toPeer'[c] = Tail(toPeer[c])
          /\ view'[c] = IF view[c].modal # Head(toPeer[c]).id THEN view[c]
                        ELSE [view[c] EXCEPT !.modal = NoId, !.review = FALSE, !.drawn = NoId]
      BY <1>17 DEF HearClear, TypeOK
    <2>2. /\ view'[c].events = view[c].events
          /\ view'[c].review => view[c].review /\ view'[c].modal = view[c].modal
          /\ view'[c].modal = IF view[c].modal # Head(toPeer[c]).id THEN view[c].modal ELSE NoId
      BY <2>1, RecordTypes, ViewFields DEF ViewRecord
    <2>3. SaidOK(c)'
      BY <2>0, <2>2 DEF SaidOK, Meant, Told
    <2>4. SeenOK(c)'
      <3>1. clients[c].phase # "closed" => BannerOK(toPeer'[c], view'[c].modal, modal.id)
        BY <2>0, <2>1, <2>2, BannerTakesClear, RecordTypes DEF SeenOK
      <3>2. clients[c].phase # "closed" => Capable(c)
        BY <2>0 DEF SeenOK
      <3> QED
        BY <2>0, <3>1, <3>2 DEF SeenOK, BannerOK, Cleared, Capable, Open
    <2> QED
      BY <1>14, <2>0, <2>1, <2>3, <2>4
  <1>18. ASSUME NEW c \in Conns, SeenOK(c), UNCHANGED <<clients, modal, toPeer>>,
                view'[c].modal = view[c].modal
         PROVE  SeenOK(c)'
    BY <1>18 DEF SeenOK, BannerOK, Cleared, Capable, Open
  <1>19. ASSUME NEW c \in Conns, Review(c) PROVE ProgramsOK'
    <2>0. /\ Kind(c) = "viewer" /\ SaidOK(c) /\ SeenOK(c) /\ view[c].modal # NoId
          /\ UNCHANGED <<clients, modal, turn, peer, toDaemon, toPeer, verdict, heard, keys>>
      BY <1>15, <1>19 DEF Review
    <2>1. /\ \A d \in Conns \ {c} : view'[d] = view[d]
          /\ view'[c].modal = view[c].modal /\ view'[c].events = view[c].events
      BY <1>19 DEF Review, TypeOK, ViewRecord
    <2>2. SaidOK(c)' /\ SeenOK(c)'
      BY <1>18, <2>0, <2>1 DEF SaidOK, Meant, Told
    <2> QED
      BY <1>14, <2>0, <2>1, <2>2
  <1>20. ASSUME NEW c \in Conns, NEW e \in KeyEvents, NEW b, Keyed(c, e, b),
                e = Cancelled \/ e = Selected(view[c].drawn, b)
         PROVE  ProgramsOK'
    <2>0. /\ Kind(c) = "viewer" /\ SaidOK(c) /\ SeenOK(c)
          /\ UNCHANGED <<clients, modal, turn, peer, toDaemon, toPeer, verdict, heard>>
      BY <1>15, <1>20 DEF Keyed
    <2>1. /\ \A d \in Conns \ {c} : view'[d] = view[d]
          /\ view'[c].modal = view[c].modal /\ view'[c].review = view[c].review
          /\ view'[c].events = Append(view[c].events, e)
          /\ keys' = keys \cup {<<view[c].drawn, b>>}
      BY <1>20 DEF Keyed, TypeOK, ViewRecord
    <2>2. e \in Told(keys')
      BY <1>20, <2>1 DEF Told, Selected, Message
    <2>3. /\ toDaemon'[c] \in Seq(Meant(keys')) /\ view[c].events \in Seq(Told(keys'))
      <3>1. keys \subseteq keys'
        BY <2>1
      <3>2. toDaemon[c] \in Seq(Meant(keys)) /\ view[c].events \in Seq(Told(keys))
        BY <2>0 DEF SaidOK
      <3> QED
        BY <2>0, <3>1, <3>2, KeysGrow
    <2>4. view'[c].events \in Seq(Told(keys'))
      BY <2>1, <2>2, <2>3, QueueTypes
    <2>5. SaidOK(c)'
      BY <2>0, <2>1, <2>3, <2>4 DEF SaidOK, Meant, Told
    <2> QED
      BY <1>14, <1>18, <2>0, <2>1, <2>5
  <1>21. ASSUME NEW c \in Conns, HearKey(c) PROVE ProgramsOK'
    <2>0. /\ Kind(c) = "viewer" /\ SaidOK(c) /\ SeenOK(c) /\ view[c].events # <<>>
          /\ UNCHANGED <<clients, modal, turn, peer, toPeer, verdict, heard, keys>>
      BY <1>15, <1>21 DEF HearKey
    <2>1. /\ \A d \in Conns \ {c} : view'[d] = view[d]
          /\ view'[c].modal = view[c].modal /\ ~view'[c].review
          /\ view'[c].events = Tail(view[c].events)
      BY <1>21 DEF HearKey, TypeOK, ViewRecord
    <2>2. Tail(view[c].events) \in Seq(Told(keys)) /\ Head(view[c].events) \in Told(keys)
      BY <2>0, QueueTypes DEF SaidOK
    <2>3. \A m \in Meant(keys) : /\ Say(c, m)[c] \in Seq(Meant(keys))
                                 /\ \A d \in Conns \ {c} : Say(c, m)[d] = toDaemon[d]
      BY <2>0, QueueTypes DEF Say, SaidOK, TypeOK
    <2>4. \/ toDaemon' = toDaemon
          \/ \E m \in Meant(keys) : toDaemon' = Say(c, m)
      <3> DEFINE event == Head(view[c].events)
      <3>0. event \in KeyEvents /\ (event = Cancelled \/ <<event.id, event.button>> \in keys)
        BY <2>2 DEF Told
      <3>1. CASE event.op = "choose" /\ toDaemon' = Say(c, Choose_(event.id, event.button))
        <4>1. event.id \in Conns /\ event.button \in Buttons /\ event # Cancelled
          BY <3>0, <3>1, KeyParts
        <4>2. Choose_(event.id, event.button) \in Uplink
          BY <4>1, Sendable
        <4>3. Choose_(event.id, event.button) \in Meant(keys)
          BY <3>0, <4>1, <4>2 DEF Meant, Choose_, Message
        <4> QED
          BY <3>1, <4>3
      <3>2. CASE /\ view[c].review /\ OnDismiss # NoButton
                 /\ toDaemon' = Say(c, Choose_(view[c].modal, OnDismiss))
        <4>1. view[c].modal \in Conns /\ OnDismiss \in Buttons
          BY <2>0, <3>2, Fields, ModalBounds DEF SaidOK
        <4>2. Choose_(view[c].modal, OnDismiss) \in Uplink
          BY <4>1, Sendable
        <4>3. Choose_(view[c].modal, OnDismiss) \in Meant(keys)
          BY <4>2 DEF Meant, Choose_, Message
        <4> QED
          BY <3>2, <4>3
      <3>3. CASE toDaemon' = toDaemon
        BY <3>3
      <3> QED
        BY <1>21, <3>1, <3>2, <3>3 DEF HearKey
    <2>5. /\ toDaemon'[c] \in Seq(Meant(keys))
          /\ \A d \in Conns \ {c} : toDaemon'[d] = toDaemon[d]
      BY <2>0, <2>3, <2>4 DEF SaidOK
    <2>6. SaidOK(c)'
      BY <2>0, <2>1, <2>2, <2>5 DEF SaidOK, Meant, Told
    <2> QED
      BY <1>14, <1>18, <2>0, <2>1, <2>5, <2>6
  <1>22. ASSUME NEW c \in Conns, Esc(c) \/ \E b \in Buttons : Enter(c, b) PROVE ProgramsOK'
    <2>1. CASE Esc(c)
      BY <1>20, <2>1 DEF Esc, KeyEvents
    <2>2. ASSUME NEW b \in Buttons, Enter(c, b) PROVE ProgramsOK'
      <3>1. view[c].drawn \in Conns
        BY <2>2, RecordTypes, ViewFields DEF Enter, Keyed
      <3>2. Selected(view[c].drawn, b) \in KeyEvents
        BY <3>1 DEF KeyEvents
      <3> QED
        BY <1>20, <2>2, <3>2 DEF Enter
    <2> QED
      BY <1>22, <2>1, <2>2
  <1>23. CASE UNCHANGED vars
    <2>1. \A d \in Conns : Steady(d)
      BY <1>23 DEF vars, Steady, Capable, Open
    <2> QED
      BY <1>23, <2>1, ProgramFrame DEF vars, ProgramsOK
  <1>24. ASSUME NEW c \in Conns, Attach(c) \/ PoshModal(c) PROVE ProgramsOK'
    BY <1>11, <1>24 DEF Attach, PoshModal
  <1> QED
    BY <1>1, <1>3, <1>4, <1>5, <1>6, <1>7, <1>8, <1>9, <1>12, <1>13, <1>16, <1>17, <1>19, <1>21,
       <1>22, <1>23, <1>24 DEF Next, Daemon, Handle, Requester, Viewport
-----------------------------------------------------------------------------
(* The buttons that are taken. *)

LEMMA ApprovedKept ==
    ASSUME TypeOK, TableOK, RunOK, ProgramsOK, ApprovedOnPurpose, [Next]_vars
    PROVE  ApprovedOnPurpose'
  <1>1. ASSUME keys \subseteq keys',
               \A d \in Conns : \/ verdict'[d] = verdict[d]
                               \/ verdict'[d].kind # "button"
                               \/ verdict'[d].button = OnDismiss
                               \/ <<d, verdict'[d].button>> \in keys
        PROVE  ApprovedOnPurpose'
    BY <1>1 DEF ApprovedOnPurpose
  <1>2. CASE UNCHANGED verdict /\ keys \subseteq keys'
    BY <1>1, <1>2
  <1>3. CASE Poll
    <2>1. ModalDrive /\ UNCHANGED keys
      BY <1>3 DEF Poll
    <2>2. ASSUME Running, NEW e \in {NoViewer, TimedOut}, Resolve(e) PROVE ApprovedOnPurpose'
      <3>1. e.kind # "button" /\ e \in Endings
        BY Apart DEF NoViewer, TimedOut, Ending
      <3>2. \A d \in Conns : verdict'[d] = verdict[d] \/ verdict'[d] = e
        BY <2>2, <3>1, ResolveTells
      <3> QED
        BY <1>1, <2>1, <3>1, <3>2
    <2> QED
      BY <1>2, <2>1, <2>2, DriveCases
  <1>4. ASSUME NEW c \in Conns, HandleChoose(c) PROVE ApprovedOnPurpose'
    <2> DEFINE m == Head(toDaemon[c])
    <2>1. toDaemon[c] # <<>> /\ m.op = "choose" /\ UNCHANGED keys
      BY <1>4 DEF HandleChoose
    <2>2. m \in Meant(keys) /\ Chosen(m.button) \in Endings
      BY <2>1, SaidBy, RecordTypes, Uplinks, Apart
    <2>3. CASE Running /\ m.id = modal.id
      <3>1. Resolve(Chosen(m.button))
        BY <1>4, <2>3 DEF HandleChoose
      <3>2. \A d \in Conns : verdict'[d] = verdict[d] \/ (d = m.id /\ verdict'[d] = Chosen(m.button))
        <4>1. \A d \in Conns : verdict'[d] = IF d = modal.id THEN Chosen(m.button) ELSE verdict[d]
          <5> HIDE DEF m
          <5> QED
            BY <2>2, <2>3, <3>1, ResolveTells
        <4> QED
          BY <2>3, <4>1
      <3>3. m.button = OnDismiss \/ <<m.id, m.button>> \in keys
        BY <2>1, <2>2 DEF Meant
      <3>4. Chosen(m.button).button = m.button
        BY DEF Chosen, Ending
      <3> QED
        BY <1>1, <2>1, <3>2, <3>3, <3>4
    <2>4. CASE ~(Running /\ m.id = modal.id)
      BY <1>2, <1>4, <2>1, <2>4 DEF HandleChoose
    <2> QED
      BY <2>3, <2>4
  <1>5. ASSUME NEW c \in Conns, HandleRequest(c) PROVE ApprovedOnPurpose'
    <2>1. UNCHANGED keys
      BY <1>5 DEF HandleRequest
    <2>a. \/ UNCHANGED verdict
          \/ \E e \in {Busy, NoViewer} : \E r : verdict' = [verdict EXCEPT ![r] = e]
      BY <1>5 DEF HandleRequest
    <2>2. \A e \in {Busy, NoViewer} : e.kind # "button"
      BY DEF Busy, NoViewer, Ending
    <2>3. ASSUME NEW r, NEW e \in {Busy, NoViewer}, verdict' = [verdict EXCEPT ![r] = e]
          PROVE  ApprovedOnPurpose'
      <3>1. \A d \in Conns : verdict'[d] = verdict[d] \/ verdict'[d] = e
        BY <2>3 DEF TypeOK
      <3>2. \A d \in Conns : verdict'[d] = verdict[d] \/ verdict'[d].kind # "button"
        BY <2>2, <3>1
      <3>3. keys \subseteq keys'
        BY <2>1
      <3> QED
        BY <1>1, <3>2, <3>3
    <2> QED
      BY <1>2, <2>1, <2>a, <2>3
  <1>6. ASSUME NEW c \in Conns,
               \/ HandleInit(c) \/ Served(c) \/ DropSlow(c) \/ Requester(c) \/ HangUp(c)
               \/ Attach(c) \/ HearShow(c) \/ HearClear(c) \/ Review(c) \/ Esc(c) \/ HearKey(c)
               \/ \E b \in Buttons : Enter(c, b)
        PROVE  ApprovedOnPurpose'
    BY <1>2, <1>6 DEF HandleInit, Served, DropSlow, Requester, PoshModal, HearResult, HangUp,
       Attach, Connect, HearShow, HearClear, Review, Esc, HearKey, Enter, Keyed
  <1>7. CASE DetachAll \/ Tick \/ UNCHANGED vars
    BY <1>2, <1>7 DEF DetachAll, Tick, vars
  <1> QED
    BY <1>3, <1>4, <1>5, <1>6, <1>7 DEF Next, Daemon, Handle, Viewport

-----------------------------------------------------------------------------
(* The theorems. *)

LEMMA ModalInit == Init => IndInv
  <1> SUFFICES ASSUME Init PROVE IndInv
    OBVIOUS
  <1>1. /\ \A c \in Conns : /\ clients[c] = [phase |-> "none", fd |-> NoFd, capable |-> FALSE]
                           /\ peer[c] = [kind |-> "none", up |-> FALSE]
                           /\ toDaemon[c] = <<>> /\ toPeer[c] = <<>> /\ view[c] = NoView
                           /\ verdict[c] = Pending /\ heard[c] = Pending
        /\ modal = NoRun /\ turn = Idle /\ keys = {}
    BY DEF Init
  <1>2. TypeOK
    <2>1. /\ NoRun \in RunRecord /\ Idle \in TurnRecord /\ NoView \in ViewRecord
          /\ Pending \in Verdicts
      BY ModalBounds DEF NoRun, RunRecord, Idle, TurnRecord, NoView, ViewRecord, Verdicts
    <2>2. /\ [phase |-> "none", fd |-> NoFd, capable |-> FALSE] \in ClientRecord
          /\ [kind |-> "none", up |-> FALSE] \in PeerRecord
      BY DEF ClientRecord, PeerRecord, Phases
    <2> QED
      BY <2>1, <2>2 DEF Init, TypeOK
  <1>3. TableOK
    BY <1>1 DEF TableOK, Open, Kind, Idle
  <1>4. RunOK
    BY <1>1 DEF RunOK, Running, NoRun
  <1>5. \A c \in Conns : ProgramOK(c)
    BY <1>1, Apart DEF ProgramOK, UnusedOK, Kind, NoRun
  <1>6. ApprovedOnPurpose
    BY <1>1 DEF ApprovedOnPurpose, Pending, Ending
  <1> QED
    BY <1>2, <1>3, <1>4, <1>5, <1>6 DEF IndInv, ProgramsOK

LEMMA ModalStep == IndInv /\ [Next]_vars => IndInv'
  <1> SUFFICES ASSUME IndInv, [Next]_vars PROVE IndInv'
    OBVIOUS
  <1>1. ViewSound
    <2>1. ASSUME NEW c \in Conns, Kind(c) # "viewer" PROVE ~view[c].review
      <3>1. view[c] = NoView
        BY <2>1, Fields DEF IndInv, ProgramsOK, ProgramOK, UnusedOK, AskerOK
      <3> QED
        BY <3>1 DEF NoView
    <2> QED
      BY <2>1 DEF IndInv, ProgramsOK, ProgramOK, SaidOK, ViewSound
  <1> QED
    BY <1>1, TypesKept, TableKept, RunKept, ProgramsKept, ApprovedKept DEF IndInv

THEOREM ModalInvariant == Spec => []IndInv
  BY ModalInit, ModalStep, PTL DEF Spec

\* Every variable of the countdown's daemon, viewports and requesters holds
\* what modal_handle, modal_drive and the renderer can put there.
THEOREM TypeCorrect == Spec => []TypeOK
  <1>1. IndInv => TypeOK
    BY DEF IndInv
  <1> QED
    BY <1>1, ModalInvariant, PTL

\* A viewport that shows a countdown is told when it ends: modal_resolve
\* clears every viewport that modal_drive or modal_handle has shown it to.
THEOREM BannersCorrect == Spec => []BannersTrue
  <1>1. IndInv => BannersTrue
    <2> SUFFICES ASSUME IndInv, NEW c \in Conns, Viewer(c), view[c].modal # NoId,
                        clients[c].phase # "closed", modal.id # view[c].modal
                 PROVE  \E i \in 1 .. Len(toPeer[c]) : toPeer[c][i] = Clear(view[c].modal)
      BY DEF BannersTrue
    <2>1. SeenOK(c)
      BY DEF IndInv, ProgramsOK, ProgramOK, Viewer, Kind
    <2> QED
      BY <2>1 DEF SeenOK, BannerOK, Cleared
  <1> QED
    BY <1>1, ModalInvariant, PTL

\* modal_handle takes no button but the one Esc stands for unless a user
\* chose it on the countdown it decides.
THEOREM ApprovedCorrect == Spec => []ApprovedOnPurpose
  <1>1. IndInv => ApprovedOnPurpose
    BY DEF IndInv
  <1> QED
    BY <1>1, ModalInvariant, PTL

\* One countdown at a time and one verdict on each request, which its own
\* `posh modal` hears at most once, or nothing.
THEOREM VerdictCorrect == Spec => VerdictSpec
  <1>1. Init => Promise!Init
    BY DEF Init, NoRun, Promise!Init
  <1>2. IndInv /\ [Next]_vars => [Promise!Next]_(Promise!vars)
    <2> SUFFICES ASSUME IndInv, [Next]_vars PROVE Promise!Next \/ UNCHANGED Promise!vars
      BY DEF Promise!vars
    <2>a. CASE UNCHANGED <<modal, verdict, heard>>
      BY <2>a DEF Promise!vars
    <2>1. ASSUME Running, NEW e \in Endings, Resolve(e), UNCHANGED heard PROVE Promise!Decide
      <3>1. modal.id # NoId /\ verdict[modal.id] = Pending
        BY <2>1 DEF IndInv, RunOK, Running
      <3>2. verdict' = [verdict EXCEPT ![modal.id] = e] /\ modal'.id = NoId
        BY <2>1 DEF Resolve, NoRun
      <3> QED
        BY <2>1, <3>1, <3>2 DEF Promise!Decide
    <2>2. CASE Poll
      <3>1. ModalDrive /\ UNCHANGED heard
        BY <2>2 DEF Poll
      <3>2. \/ modal'.id = modal.id /\ UNCHANGED verdict
            \/ Running /\ \E e \in Endings : Resolve(e)
        <4>1. \A e \in {NoViewer, TimedOut} : e \in Endings
          BY Apart
        <4> QED
          BY <3>1, <4>1, DriveCases DEF IndInv
      <3> QED
        BY <2>1, <3>1, <3>2 DEF Promise!Next, Promise!vars
    <2>3. ASSUME NEW c \in Conns, HandleChoose(c) PROVE Promise!Next \/ UNCHANGED Promise!vars
      <3>1. Chosen(Head(toDaemon[c]).button) \in Endings
        BY <2>3, RecordTypes, Uplinks, Apart DEF HandleChoose, IndInv
      <3> QED
        BY <2>1, <2>3, <3>1 DEF HandleChoose, Promise!Next, Promise!vars
    <2>4. ASSUME NEW c \in Conns, HandleRequest(c) PROVE Promise!Next
      <3>1. toDaemon[c] # <<>> /\ Head(toDaemon[c]).op = "request"
        BY <2>4 DEF HandleRequest
      <3>2. Kind(c) = "requester" /\ Head(toDaemon[c]) = Request_(c)
        BY <3>1, SaidBy DEF IndInv
      <3>3. Head(toDaemon[c]).id = c
        BY <3>2 DEF Request_, Message
      <3>4. verdict[c] = Pending /\ modal.id # c
        BY <3>1, <3>2 DEF IndInv, ProgramsOK, ProgramOK, AskerOK
      <3>5. CASE Running /\ verdict' = [verdict EXCEPT ![c] = Busy] /\ UNCHANGED <<modal, heard>>
        BY <3>4, <3>5 DEF Promise!Next, Promise!Refuse, Running
      <3>6. CASE ~Running /\ verdict' = [verdict EXCEPT ![c] = NoViewer] /\ UNCHANGED <<modal, heard>>
        BY <3>4, <3>6, Apart DEF Promise!Next, Promise!Refuse, Running
      <3>7. CASE ~Running /\ modal'.id = c /\ UNCHANGED <<verdict, heard>>
        BY <3>4, <3>7 DEF Promise!Next, Promise!Raise, Running
      <3> QED
        BY <2>4, <3>3, <3>5, <3>6, <3>7 DEF HandleRequest
    <2>5. ASSUME NEW c \in Conns, HearResult(c) PROVE Promise!Next
      <3>1. AskerOK(c) /\ peer[c].up /\ toPeer[c] # <<>>
        BY <2>5 DEF HearResult, IndInv, ProgramsOK, ProgramOK, Kind
      <3>2. heard[c] = Pending /\ verdict[c] # Pending
        BY <3>1 DEF AskerOK
      <3>3. Head(toPeer[c]) = Result(c, verdict[c])
        BY <3>1, QueueTypes DEF AskerOK
      <3>4. Head(toPeer[c]).ending = verdict[c]
        BY <3>3 DEF Result, Notice_
      <3>5. heard' = [heard EXCEPT ![c] = verdict[c]] /\ UNCHANGED <<modal, verdict>>
        BY <2>5, <3>4 DEF HearResult
      <3> QED
        BY <3>2, <3>5 DEF Promise!Next, Promise!Hear
    <2>6. ASSUME NEW c \in Conns, Served(c) PROVE UNCHANGED Promise!vars
      BY <2>6 DEF Served, IndInv, TypeOK, RunRecord, Promise!vars
    <2>7. CASE Tick
      BY <2>7 DEF Tick, IndInv, TypeOK, RunRecord, Promise!vars
    <2>8. ASSUME NEW c \in Conns,
                 \/ HandleInit(c) \/ DropSlow(c) \/ PoshModal(c) \/ HangUp(c)
                 \/ Attach(c) \/ HearShow(c) \/ HearClear(c) \/ Review(c) \/ Esc(c) \/ HearKey(c)
                 \/ \E b \in Buttons : Enter(c, b)
          PROVE  UNCHANGED <<modal, verdict, heard>>
      BY <2>8 DEF HandleInit, DropSlow, PoshModal, HangUp, Attach, Connect, HearShow, HearClear,
         Review, Esc, HearKey, Enter, Keyed
    <2>9. CASE DetachAll \/ UNCHANGED vars
      BY <2>9, <2>a DEF DetachAll, vars
    <2> QED
      BY <2>a, <2>2, <2>3, <2>4, <2>5, <2>6, <2>7, <2>8, <2>9
         DEF Next, Daemon, Handle, Requester, Viewport
  <1> QED
    BY <1>1, <1>2, ModalInvariant, PTL DEF Spec, VerdictSpec, Promise!Spec
=============================================================================
