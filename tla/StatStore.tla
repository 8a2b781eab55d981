----------------------------- MODULE StatStore ------------------------------
(***************************************************************************)
(* What the shared zone promises its readers, whatever the slots, the      *)
(* caches and the mutex do: a table from node keys to request counters in  *)
(* which a logged request creates its key at 1 or adds 1 to it and may     *)
(* evict one filter key, and nothing but a control command removes or      *)
(* zeroes anything else: everything, one group, or one zone.               *)
(***************************************************************************)
EXTENDS Naturals

CONSTANTS Keys, Groups, TypeOf, MaxNodeMatch

VARIABLES
  zone,      \* zone[k]: the counter of key k, for the keys present
  commands   \* how many control commands have been obeyed

vars == <<zone, commands>>

Init == zone = [k \in {} |-> 0] /\ commands = 0

Without(D) == zone' = [k \in DOMAIN zone \ D |-> zone[k]]

Create(k) ==
  /\ k \notin DOMAIN zone
  /\ zone' = [j \in DOMAIN zone \cup {k} |-> IF j = k THEN 1 ELSE zone[j]]
  /\ UNCHANGED commands

Count(k) ==
  /\ k \in DOMAIN zone
  /\ zone' = [zone EXCEPT ![k] = @ + 1]
  /\ UNCHANGED commands

Evict(k) ==
  /\ k \in DOMAIN zone \cap MaxNodeMatch
  /\ Without({k})
  /\ UNCHANGED commands

\* D is what a control command names.
Range(D) ==
  \/ D = DOMAIN zone
  \/ \E g \in Groups : D = {k \in DOMAIN zone : TypeOf[k] = g}
  \/ \E k \in DOMAIN zone : D = {k}

Delete(D) ==
  /\ Range(D)
  /\ Without(D)
  /\ commands' = commands + 1

Reset(D) ==
  /\ Range(D)
  /\ zone' = [k \in DOMAIN zone |-> IF k \in D THEN 0 ELSE zone[k]]
  /\ commands' = commands + 1

Next ==
  \/ \E k \in Keys : Create(k) \/ Count(k) \/ Evict(k)
  \/ \E D \in SUBSET Keys : Delete(D) \/ Reset(D)

Spec == Init /\ [][Next]_vars
=============================================================================
