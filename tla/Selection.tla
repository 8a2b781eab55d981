----------------------------- MODULE Selection ------------------------------
(***************************************************************************)
(* The elements of a sequence that a loop picks out of it, in order.       *)
(***************************************************************************)
EXTENDS Integers, Sequences

\* The elements of seq that are in set: SelectSeq for a test that is given as a set,
\* in a form that can be reasoned about.
Kept(seq, set) ==
  LET kept[i \in 0 .. Len(seq)] ==
        IF i = 0 THEN <<>>
        ELSE IF seq[i] \in set THEN Append(kept[i - 1], seq[i]) ELSE kept[i - 1]
  IN kept[Len(seq)]
=============================================================================
