----------------------------- MODULE ModalVerdict -----------------------------
(***************************************************************************)
(* What the session daemon promises a program that raises a countdown      *)
(* (posh modal): one countdown at a time, one verdict on each request, and *)
(* the program that asked hears that verdict, at most once, or nothing.    *)
(***************************************************************************)
CONSTANTS Requests, Nobody, Endings, Busy, Pending

VARIABLES
    running,   \* the request on the viewers' screens, or Nobody
    verdict,   \* request -> how it ended, Pending until then
    heard      \* request -> what its program was told, Pending until then

vars == <<running, verdict, heard>>

Init ==
    /\ running = Nobody
    /\ verdict = [r \in Requests |-> Pending]
    /\ heard = verdict

Raise(r) ==
    /\ running = Nobody /\ verdict[r] = Pending
    /\ running' = r
    /\ UNCHANGED <<verdict, heard>>

\* Nobody to show it to, or another one runs.
Refuse(r) ==
    /\ r # running /\ verdict[r] = Pending
    /\ \E v \in IF running = Nobody THEN Endings ELSE {Busy} :
          verdict' = [verdict EXCEPT ![r] = v]
    /\ UNCHANGED <<running, heard>>

Decide ==
    /\ running # Nobody /\ verdict[running] = Pending
    /\ \E v \in Endings : verdict' = [verdict EXCEPT ![running] = v]
    /\ running' = Nobody
    /\ UNCHANGED heard

Hear(r) ==
    /\ heard[r] = Pending /\ verdict[r] # Pending
    /\ heard' = [heard EXCEPT ![r] = verdict[r]]
    /\ UNCHANGED <<running, verdict>>

Next == Decide \/ \E r \in Requests : Raise(r) \/ Refuse(r) \/ Hear(r)

Spec == Init /\ [][Next]_vars
===============================================================================
