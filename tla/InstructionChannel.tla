------------------------ MODULE InstructionChannel ------------------------
(***************************************************************************)
(* What a wire promises to the protocols above it: an instruction comes    *)
(* out whole or not at all, never twice, and in no particular order.       *)
(* Everything else the wire does is a stutter: a loss, a replay, a piece   *)
(* that is still waiting for the others.                                   *)
(***************************************************************************)
EXTENDS Sequences

CONSTANT Instructions

VARIABLES
    sent,   \* the instructions given to this wire
    got     \* what came out of it, in order

Init == sent = {} /\ got = <<>>

Send(x) == x \notin sent /\ sent' = sent \cup {x} /\ UNCHANGED got

Deliver(x) ==
    /\ x \in sent
    /\ \A i \in DOMAIN got : got[i] # x
    /\ got' = Append(got, x)
    /\ UNCHANGED sent

\* A reconnect: a fresh wire owes nothing to the old one.
Renew == sent' = {} /\ got' = <<>>

Next == Renew \/ \E x \in Instructions : Send(x) \/ Deliver(x)

Spec == Init /\ [][Next]_<<sent, got>>
=============================================================================
