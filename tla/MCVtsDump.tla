----------------------------- MODULE MCVtsDump ------------------------------
(* A key, one twice as long, one that is cut to the first, and one that is   *)
(* cut to nothing.                                                           *)
EXTENDS VtsDump, TLC

MCKeyLen == [k \in Keys |-> CASE k = "b" -> 2 [] k = "256 bytes" -> 0 [] OTHER -> 1]
MCStem == [k \in Keys |-> IF k = "a and 256 bytes" THEN "a" ELSE k]

Symmetric == Permutations(Workers)
=============================================================================
