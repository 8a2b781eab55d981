--------------------------- MODULE SlidingWindow ----------------------------
(***************************************************************************)
(* What a node's time queue promises: the last N samples that arrived,     *)
(* oldest first, zeros for those there have not been yet.                  *)
(***************************************************************************)
EXTENDS Naturals

CONSTANTS N, Sample, Zero

VARIABLES
  window,    \* the samples kept
  arrived    \* the sample that arrived last

vars == <<window, arrived>>

Only(x) == [j \in 1 .. N |-> IF j = N THEN x ELSE Zero]

Init == arrived \in Sample /\ window = Only(arrived)

\* A sample arrives: the oldest one leaves.
Slide ==
  /\ arrived' \in Sample
  /\ window' = [j \in 1 .. N |-> IF j = N THEN arrived' ELSE window[j + 1]]

\* The node is created anew.
Restart == arrived' \in Sample /\ window' = Only(arrived')

Next == Slide \/ Restart

Spec == Init /\ [][Next]_vars
=============================================================================
