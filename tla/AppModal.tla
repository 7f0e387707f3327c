------------------------------- MODULE AppModal -------------------------------
(***************************************************************************)
(* The countdown an application asks the session daemon to show on the     *)
(* attached viewports: modal_handle, modal_drive and modal_resolve with    *)
(* the part of daemon_loop that accepts, drops and removes connections     *)
(* (session/daemon.rs, session/modal.rs), the viewport with its renderer   *)
(* (session/client.rs, posh-palette) and the requester, `posh modal`       *)
(* (session/mod.rs).                                                       *)
(*                                                                         *)
(* A connection is numbered in the order of its connect, which is the      *)
(* order of `clients`; the daemon itself knows the requester only by file  *)
(* descriptor, which the kernel hands out again.  The id of a request is   *)
(* the number of its connection: ids are distinct.  A time unit is TICK_MS. *)
(* The gate is on, requests are well formed, and the Info exchange that    *)
(* precedes a request is left out.                                         *)
(***************************************************************************)
EXTENDS Integers, Sequences

CONSTANTS
    MaxConns,   \* bound: connections made to the daemon
    Timeout,    \* ticks a countdown lasts
    Buttons,    \* ids of the buttons of a request
    OnTimeout,  \* the one taken when the clock runs out
    OnDismiss,  \* the one Esc takes, or NoButton: Esc only hides the view
    NoButton,
    MaxKeys     \* bound: answers of one viewport on their way to the daemon

ASSUME ModalBounds ==
    /\ MaxConns \in Nat /\ MaxKeys \in Nat
    /\ Timeout \in Nat \ {0}
    /\ NoButton \notin Buttons
    /\ OnTimeout \in Buttons /\ OnDismiss \in Buttons \cup {NoButton}

VARIABLES
    clients,   \* connection -> what the daemon holds of it: [phase, fd, capable]
    modal,     \* the running countdown: [id, requester, left, due], or NoRun
    turn,      \* connections left to serve in this turn: [polled, hup]
    peer,      \* connection -> the program behind it: [kind, up]
    toDaemon,  \* connection -> messages on the way to the daemon
    toPeer,    \* connection -> Tag::Modal messages on the way from it
    view,      \* connection -> its viewport: [modal, review, drawn, events]
    verdict,   \* id -> how it ended, as the daemon logs it
    heard,     \* id -> what its `posh modal` printed
    keys       \* what users answered (not in the code): <<id, button>>

vars == <<clients, modal, turn, peer, toDaemon, toPeer, view, verdict, heard, keys>>

-----------------------------------------------------------------------------
(* Values. *)

Conns  == 1 .. MaxConns
Fds    == 1 .. MaxConns
NoId   == 0            \* no countdown
NoFd   == -1

\* A Resolution, or a refusal.
Ending(kind, button) == [kind |-> kind, button |-> button]
Pending  == Ending("pending", NoButton)
Busy     == Ending("busy", NoButton)
NoViewer == Ending("no-viewer", NoButton)
TimedOut == Ending("timeout", OnTimeout)
Chosen(b) == Ending("button", b)
Endings  == {NoViewer, TimedOut} \cup {Chosen(b) : b \in Buttons}

Message(op, id, button) == [op |-> op, id |-> id, button |-> button]
Init_   == Message("init", NoId, NoButton)
Request_(r) == Message("request", r, NoButton)
Choose_(r, b) == Message("choose", r, b)
Uplink  == {Init_} \cup {Request_(r) : r \in Conns}
                   \cup {Choose_(r, b) : r \in Conns, b \in Buttons}

Notice_(op, id, ending) == [op |-> op, id |-> id, ending |-> ending]
Show(r)  == Notice_("show", r, Pending)
Clear(r) == Notice_("clear", r, Pending)
Result(r, e) == Notice_("result", r, e)
Downlink == {Show(r) : r \in Conns} \cup {Clear(r) : r \in Conns}
              \cup {Result(r, e) : r \in Conns, e \in Endings \cup {Busy}}

\* What the renderer tells.
Selected(r, b) == Message("choose", r, b)
Cancelled == Message("cancelled", NoId, NoButton)
KeyEvents == {Cancelled} \cup {Selected(r, b) : r \in Conns, b \in Buttons}

NoRun == [id |-> NoId, requester |-> NoFd, left |-> 0, due |-> FALSE]
Running == modal.id # NoId

NoView == [modal |-> NoId, review |-> FALSE, drawn |-> NoId, events |-> <<>>]

-----------------------------------------------------------------------------
(* The daemon. *)

Open(c)    == clients[c].phase = "open"
Capable(c) == Open(c) /\ clients[c].capable
Gone == [phase |-> "closed", fd |-> NoFd, capable |-> FALSE]
Idle == [polled |-> {}, hup |-> {}]

First(c, S) == c \in S /\ \A d \in S : c =< d
Last(c, S)  == c \in S /\ \A d \in S : c >= d

Sent(c, m) == [toPeer EXCEPT ![c] = Append(@, m)]
Shown(r) == [c \in Conns |-> IF Capable(c) THEN Append(toPeer[c], Show(r)) ELSE toPeer[c]]

\* Mutant: only the requester hears of the end.
Resolved_Quietly(e) ==
    [c \in Conns |->
       IF Open(c) /\ clients[c].fd = modal.requester
       THEN Append(toPeer[c], Result(modal.id, e)) ELSE toPeer[c]]

\* `clear` to the viewers, the result to the connection with that descriptor.
Resolved(e) ==
    [c \in Conns |->
       IF Open(c) /\ clients[c].fd = modal.requester
       THEN Append(IF Capable(c) THEN Append(toPeer[c], Clear(modal.id)) ELSE toPeer[c],
                   Result(modal.id, e))
       ELSE IF Capable(c) THEN Append(toPeer[c], Clear(modal.id)) ELSE toPeer[c]]

\* modal_resolve
Resolve(e) ==
    /\ verdict' = [verdict EXCEPT ![modal.id] = e]
    /\ toPeer' = Resolved(e)
    /\ modal' = NoRun

\* modal_drive
ModalDrive ==
    \/ /\ ~Running
       /\ UNCHANGED <<modal, toPeer, verdict>>
    \/ /\ Running /\ \A c \in Conns : ~Capable(c)
       /\ Resolve(NoViewer)
    \/ /\ Running /\ \E c \in Conns : Capable(c)
       /\ \/ modal.left = 0 /\ Resolve(TimedOut)
          \/ /\ modal.left > 0 /\ modal.due
             /\ modal' = [modal EXCEPT !.due = FALSE]
             /\ toPeer' = Shown(modal.id)
             /\ UNCHANGED verdict
          \/ /\ modal.left > 0 /\ ~modal.due
             /\ UNCHANGED <<modal, toPeer, verdict>>

HungUp(c) == Open(c) /\ ~peer[c].up
Readable(c) == Open(c) /\ toDaemon[c] # <<>>
Waiting(c) == clients[c].phase = "waiting"

FreeFds == Fds \ {clients[c].fd : c \in {d \in Conns : Open(d)}}

\* At most one connection a turn, on the lowest free descriptor.
Accept ==
    \/ /\ \A c \in Conns : ~Waiting(c)
       /\ UNCHANGED clients
    \/ \E c \in Conns, f \in Fds :
          /\ First(c, {d \in Conns : Waiting(d)}) /\ First(f, FreeFds)
          /\ clients' = [clients EXCEPT ![c] =
                            [phase |-> "open", fd |-> f, capable |-> FALSE]]

\* A turn up to the clients: the poll, woken by a connection or by
\* wake_in_ms, then the clock, then the accept.
Poll ==
    /\ turn.polled = {}
    /\ \/ \E c \in Conns : HungUp(c) \/ Readable(c) \/ Waiting(c)
       \/ Running /\ (modal.due \/ modal.left = 0)
    /\ turn' = [polled |-> {c \in Conns : HungUp(c) \/ Readable(c)},
                hup |-> {c \in Conns : HungUp(c)}]
    /\ ModalDrive
    /\ Accept
    /\ UNCHANGED <<peer, toDaemon, view, heard, keys>>

\* A viewport that does not read is dropped before the poll.  A requester
\* never has a backlog: nothing is sent to a connection without an Init.
DropSlow(c) ==
    /\ turn.polled = {} /\ Capable(c)
    /\ clients' = [clients EXCEPT ![c] = Gone]
    /\ toDaemon' = [toDaemon EXCEPT ![c] = <<>>]
    /\ UNCHANGED <<modal, turn, peer, toPeer, view, verdict, heard, keys>>

\* The connection whose turn it is: `clients` is walked backwards.
Next_(c) == Last(c, turn.polled)

Taken(c) == toDaemon' = [toDaemon EXCEPT ![c] = Tail(@)]

HandleInit(c) ==
    /\ Next_(c) /\ toDaemon[c] # <<>> /\ Head(toDaemon[c]).op = "init"
    /\ clients' = [clients EXCEPT ![c].capable = TRUE]
    /\ Taken(c)
    /\ UNCHANGED <<modal, turn, peer, toPeer, view, verdict, heard, keys>>

\* Mutant: an answer counts whichever countdown it names.
HandleChoose_AnyId(c) ==
    /\ Next_(c) /\ toDaemon[c] # <<>> /\ Head(toDaemon[c]).op = "choose"
    /\ IF Running
       THEN Resolve(Chosen(Head(toDaemon[c]).button))
       ELSE UNCHANGED <<modal, toPeer, verdict>>
    /\ Taken(c)
    /\ UNCHANGED <<clients, turn, peer, view, heard, keys>>

\* modal_handle, of a viewer: the first valid answer wins.
HandleChoose(c) ==
    /\ Next_(c) /\ toDaemon[c] # <<>> /\ Head(toDaemon[c]).op = "choose"
    /\ IF Running /\ Head(toDaemon[c]).id = modal.id
       THEN Resolve(Chosen(Head(toDaemon[c]).button))
       ELSE UNCHANGED <<modal, toPeer, verdict>>
    /\ Taken(c)
    /\ UNCHANGED <<clients, turn, peer, view, heard, keys>>

\* modal_handle, of a requester; a countdown that starts is shown at once.
HandleRequest(c) ==
    /\ Next_(c) /\ toDaemon[c] # <<>> /\ Head(toDaemon[c]).op = "request"
    /\ LET r == Head(toDaemon[c]).id
       IN  \/ /\ Running
              /\ toPeer' = Sent(c, Result(r, Busy))
              /\ verdict' = [verdict EXCEPT ![r] = Busy]
              /\ UNCHANGED modal
           \/ /\ ~Running /\ \A d \in Conns \ {c} : ~Capable(d)
              /\ toPeer' = Sent(c, Result(r, NoViewer))
              /\ verdict' = [verdict EXCEPT ![r] = NoViewer]
              /\ UNCHANGED modal
           \/ /\ ~Running /\ \E d \in Conns \ {c} : Capable(d)
              /\ modal' = [id |-> r, requester |-> clients[c].fd,
                           left |-> Timeout, due |-> FALSE]
              /\ toPeer' = Shown(r)
              /\ UNCHANGED verdict
    /\ Taken(c)
    /\ UNCHANGED <<clients, turn, peer, view, heard, keys>>

\* Mutant: the descriptor of a requester outlives its connection.
Served_Dangling(c) ==
    /\ Next_(c) /\ toDaemon[c] = <<>>
    /\ turn' = IF turn.polled = {c} THEN Idle ELSE [turn EXCEPT !.polled = @ \ {c}]
    /\ clients' = IF c \in turn.hup THEN [clients EXCEPT ![c] = Gone] ELSE clients
    /\ UNCHANGED <<modal, peer, toDaemon, toPeer, view, verdict, heard, keys>>

\* The end of a connection's part of the turn: a requester that is gone
\* leaves no descriptor behind.
Served(c) ==
    /\ Next_(c) /\ toDaemon[c] = <<>>
    /\ turn' = IF turn.polled = {c} THEN Idle ELSE [turn EXCEPT !.polled = @ \ {c}]
    /\ IF c \in turn.hup
       THEN /\ clients' = [clients EXCEPT ![c] = Gone]
            /\ modal' = IF Running /\ modal.requester = clients[c].fd
                        THEN [modal EXCEPT !.requester = NoFd] ELSE modal
       ELSE UNCHANGED <<clients, modal>>
    /\ UNCHANGED <<peer, toDaemon, toPeer, view, verdict, heard, keys>>

\* Tag::DetachAll, from a connection that is not modelled, in its turn.
DetachAll ==
    /\ \E c \in Conns : Open(c)
    /\ clients' = [c \in Conns |-> IF Open(c) THEN Gone ELSE clients[c]]
    /\ toDaemon' = [c \in Conns |-> IF Open(c) THEN <<>> ELSE toDaemon[c]]
    /\ turn' = Idle
    /\ UNCHANGED <<modal, peer, toPeer, view, verdict, heard, keys>>

\* Mutant: the time left goes below zero.
Tick_Unsaturated ==
    /\ Running
    /\ modal' = [modal EXCEPT !.left = @ - 1, !.due = TRUE]
    /\ UNCHANGED <<clients, turn, peer, toDaemon, toPeer, view, verdict, heard, keys>>

Tick ==
    /\ Running /\ modal.left > 0
    /\ modal' = [modal EXCEPT !.left = @ - 1, !.due = TRUE]
    /\ UNCHANGED <<clients, turn, peer, toDaemon, toPeer, view, verdict, heard, keys>>

-----------------------------------------------------------------------------
(* The programs at the other end. *)

Connect(c, kind, said) ==
    /\ First(c, {d \in Conns : clients[d].phase = "none"})
    /\ clients' = [clients EXCEPT ![c].phase = "waiting"]
    /\ peer' = [peer EXCEPT ![c] = [kind |-> kind, up |-> TRUE]]
    /\ toDaemon' = [toDaemon EXCEPT ![c] = <<said>>]
    /\ UNCHANGED <<modal, turn, toPeer, view, verdict, heard, keys>>

Attach(c) == Connect(c, "viewer", Init_)
PoshModal(c) == Connect(c, "requester", Request_(c))

\* wait_for_frame: the first Tag::Modal is the answer, and the program ends.
HearResult(c) ==
    /\ peer[c].kind = "requester" /\ peer[c].up /\ toPeer[c] # <<>>
    /\ heard' = [heard EXCEPT ![c] = Head(toPeer[c]).ending]
    /\ peer' = [peer EXCEPT ![c].up = FALSE]
    /\ toPeer' = [toPeer EXCEPT ![c] = <<>>]
    /\ UNCHANGED <<clients, modal, turn, toDaemon, view, verdict, keys>>

\* A detach, a switch, a kill, a requester that gives up waiting.
HangUp(c) ==
    /\ peer[c].up
    /\ peer' = [peer EXCEPT ![c].up = FALSE]
    /\ toPeer' = [toPeer EXCEPT ![c] = <<>>]
    /\ view' = [view EXCEPT ![c] = NoView]
    /\ UNCHANGED <<clients, modal, turn, toDaemon, verdict, heard, keys>>

Viewer(c) == peer[c].kind = "viewer" /\ peer[c].up

HearShow(c) ==
    /\ Viewer(c) /\ toPeer[c] # <<>> /\ Head(toPeer[c]).op = "show"
    /\ view' = [view EXCEPT ![c].modal = Head(toPeer[c]).id]
    /\ toPeer' = [toPeer EXCEPT ![c] = Tail(@)]
    /\ UNCHANGED <<clients, modal, turn, peer, toDaemon, verdict, heard, keys>>

\* A stale clear is ignored; the review of a countdown closes with it.
HearClear(c) ==
    /\ Viewer(c) /\ toPeer[c] # <<>> /\ Head(toPeer[c]).op = "clear"
    /\ view' = [view EXCEPT ![c] =
                  IF @.modal # Head(toPeer[c]).id THEN @
                  ELSE [@ EXCEPT !.modal = NoId, !.review = FALSE, !.drawn = NoId]]
    /\ toPeer' = [toPeer EXCEPT ![c] = Tail(@)]
    /\ UNCHANGED <<clients, modal, turn, peer, toDaemon, verdict, heard, keys>>

\* Ctrl-^ while a countdown runs: the renderer draws it.
Review(c) ==
    /\ Viewer(c) /\ view[c].modal # NoId /\ ~view[c].review
    /\ view' = [view EXCEPT ![c].review = TRUE, ![c].drawn = view[c].modal]
    /\ UNCHANGED <<clients, modal, turn, peer, toDaemon, toPeer, verdict, heard, keys>>

\* The renderer closes what it draws and says so.  A key that overtakes a
\* ui.hide is a key pressed before it.
Keyed(c, event, button) ==
    /\ Viewer(c) /\ view[c].drawn # NoId
    /\ Len(view[c].events) + Len(toDaemon[c]) < MaxKeys
    /\ view' = [view EXCEPT ![c].drawn = NoId, ![c].events = Append(@, event)]
    /\ keys' = keys \cup {<<view[c].drawn, button>>}
    /\ UNCHANGED <<clients, modal, turn, peer, toDaemon, toPeer, verdict, heard>>

Enter(c, b) == Keyed(c, Selected(view[c].drawn, b), b)
Esc(c) == Keyed(c, Cancelled, OnDismiss)

Say(c, m) == IF clients[c].phase = "closed" THEN toDaemon
             ELSE [toDaemon EXCEPT ![c] = Append(@, m)]

\* The renderer's answer: a button names its countdown, Esc does not.
HearKey(c) ==
    /\ Viewer(c) /\ view[c].events # <<>>
    /\ view' = [view EXCEPT ![c].review = FALSE, ![c].events = Tail(@)]
    /\ LET event == Head(view[c].events)
       IN  \/ /\ event.op = "choose"
              /\ toDaemon' = Say(c, Choose_(event.id, event.button))
           \/ /\ event.op = "cancelled"
              /\ toDaemon' = IF view[c].review /\ OnDismiss # NoButton
                             THEN Say(c, Choose_(view[c].modal, OnDismiss)) ELSE toDaemon
    /\ UNCHANGED <<clients, modal, turn, peer, toPeer, verdict, heard, keys>>

-----------------------------------------------------------------------------
Init ==
    /\ clients = [c \in Conns |-> [phase |-> "none", fd |-> NoFd, capable |-> FALSE]]
    /\ modal = NoRun
    /\ turn = Idle
    /\ peer = [c \in Conns |-> [kind |-> "none", up |-> FALSE]]
    /\ toDaemon = [c \in Conns |-> <<>>]
    /\ toPeer = toDaemon
    /\ view = [c \in Conns |-> NoView]
    /\ verdict = [c \in Conns |-> Pending]
    /\ heard = verdict
    /\ keys = {}

Handle(c) == HandleInit(c) \/ HandleChoose(c) \/ HandleRequest(c) \/ Served(c)
Daemon == Poll \/ \E c \in Conns : Handle(c)

Requester(c) == PoshModal(c) \/ HearResult(c)
Viewport(c) ==
    \/ Attach(c) \/ HearShow(c) \/ HearClear(c) \/ Review(c)
    \/ Esc(c) \/ HearKey(c)
    \/ \E b \in Buttons : Enter(c, b)

Next ==
    \/ Daemon \/ DetachAll \/ Tick
    \/ \E c \in Conns :
          DropSlow(c) \/ HangUp(c) \/ Requester(c) \/ Viewport(c)

Spec == Init /\ [][Next]_vars

-----------------------------------------------------------------------------
(* Properties. *)

Phases == {"none", "waiting", "open", "closed"}
ClientRecord == [phase : Phases, fd : Fds \cup {NoFd}, capable : BOOLEAN]
PeerRecord == [kind : {"none", "viewer", "requester"}, up : BOOLEAN]
ViewRecord == [modal : Conns \cup {NoId}, review : BOOLEAN,
               drawn : Conns \cup {NoId},
               events : Seq(KeyEvents)]
RunRecord == [id : Conns \cup {NoId}, requester : Fds \cup {NoFd},
              left : 0 .. Timeout, due : BOOLEAN]
TurnRecord == [polled : SUBSET Conns, hup : SUBSET Conns]
Verdicts == Endings \cup {Busy, Pending}

\* Every variable holds what the code can put there; a running countdown has
\* a request and a clock within its length.
TypeOK ==
    /\ clients \in [Conns -> ClientRecord]
    /\ modal \in RunRecord
    /\ turn \in TurnRecord
    /\ peer \in [Conns -> PeerRecord]
    /\ toDaemon \in [Conns -> Seq(Uplink)]
    /\ toPeer \in [Conns -> Seq(Downlink)]
    /\ view \in [Conns -> ViewRecord]
    /\ verdict \in [Conns -> Verdicts]
    /\ heard \in [Conns -> Verdicts]
    /\ keys \subseteq Conns \X (Buttons \cup {NoButton})

Promise == INSTANCE ModalVerdict
    WITH Requests <- Conns, Nobody <- NoId, running <- modal.id

\* A request gets one verdict while at most one runs, and its own program
\* hears it, whatever connections come and go on the descriptor it had.
VerdictSpec == Promise!Spec

\* A viewport that shows a countdown is told when it ends: it runs, or the
\* clear is on its way, or the connection is lost.
BannersTrue ==
    \A c \in Conns :
       Viewer(c) /\ view[c].modal # NoId =>
          \/ modal.id = view[c].modal
          \/ \E i \in 1 .. Len(toPeer[c]) : toPeer[c][i] = Clear(view[c].modal)
          \/ clients[c].phase = "closed"

\* No button but the one Esc stands for is taken unless a user chose it on
\* the countdown it decides: a restart is not approved by a late answer to
\* an earlier one.
ApprovedOnPurpose ==
    \A r \in Conns : verdict[r].kind = "button" /\ verdict[r].button # OnDismiss
                     => <<r, verdict[r].button>> \in keys
===============================================================================
