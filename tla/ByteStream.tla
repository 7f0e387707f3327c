---- MODULE ByteStream ----
(***************************************************************************)
(* What the reliable input stream promises: the shell reads the typed      *)
(* bytes in the order they were typed, each of them at most once, and all  *)
(* but those that were skipped.                                            *)
(***************************************************************************)
EXTENDS Naturals, Sequences

CONSTANT Bytes

VARIABLES typed,    \* the keystrokes of the viewport
          at,       \* how many of them have been dealt with
          read,     \* what the shell has been given
          skipped   \* what it never will be

Init == typed = <<>> /\ at = 0 /\ read = <<>> /\ skipped = {}

Type ==
    /\ \E b \in Bytes : typed' = Append(typed, b)
    /\ UNCHANGED <<at, read, skipped>>

\* One write hands over several bytes, or fails to from some byte on.
Deliver ==
    /\ \E n \in at + 1 .. Len(typed) : \E m \in at .. n :
          /\ at' = n
          /\ read' = read \o SubSeq(typed, at + 1, m)
          /\ skipped' = skipped \cup {typed[i] : i \in m + 1 .. n}
    /\ UNCHANGED typed

Next == Type \/ Deliver

Spec == Init /\ [][Next]_<<typed, at, read, skipped>>
====
