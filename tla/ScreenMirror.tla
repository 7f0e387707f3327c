---------------------------- MODULE ScreenMirror ----------------------------
(***************************************************************************)
(* What screen synchronisation promises, whatever the protocol: a viewport *)
(* that shows some screen of the source, possibly late, and never an older *)
(* one after a newer one.  A screen is <<epoch, generation>>, ordered      *)
(* lexicographically; <<0, 0>> is the blank viewport before the first.     *)
(***************************************************************************)
EXTENDS Integers

VARIABLES
    latest,   \* the screen of the broadcast source
    shown     \* the screen the viewport's terminal model holds

\* Screen a is at least as new as screen b.
NotOlder(a, b) == a[1] > b[1] \/ (a[1] = b[1] /\ a[2] >= b[2])

Init == latest = <<0, 1>> /\ shown = <<0, 0>>

\* The source changes: output, or another source.
Change ==
    /\ NotOlder(latest', latest)
    /\ UNCHANGED shown

\* The viewport catches up, all the way or part of it.
Show ==
    /\ NotOlder(shown', shown) /\ NotOlder(latest, shown')
    /\ UNCHANGED latest

Next == Change \/ Show

Spec == Init /\ [][Next]_<<latest, shown>>
=============================================================================
