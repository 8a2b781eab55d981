------------------------------ MODULE MCVtsShm ------------------------------
(* Small zones for TLC: one server key, one upstream key, filter keys.     *)
EXTENDS VtsShm, TLC

MCTypeOf == [k \in Keys |-> CASE k = "srv" -> "NO" [] k = "ups" -> "UG" [] OTHER -> "FG"]

\* No collision; every pair of filter keys collides (and hashes to the 0 that
\* rbtree_delete leaves behind).
MCHash == [k \in Keys |-> CASE k = "srv" -> 1 [] k = "ups" -> 2 [] k = "fa" -> 3
                            [] k = "fb" -> 4 [] OTHER -> 5]
MCHashCollide == [k \in Keys |-> IF k \in {"fa", "fb"} THEN 0 ELSE MCHash[k]]

MCMatch == Keys \ {"srv", "ups"}

MCServerFilter == {<<"srv", "fa">>, <<"fb">>}
MCServerUpstream == {<<"srv", "ups">>, <<"fa">>}
MCFilters == {<<"fa">>, <<"fb">>, <<"srv", "fc">>}

Symmetric == Permutations(Slots) \cup Permutations(Workers)
=============================================================================
