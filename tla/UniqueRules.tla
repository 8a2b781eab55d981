---------------------------- MODULE UniqueRules -----------------------------
(***************************************************************************)
(* Removing duplicate rules by hash, as filter_unique does for filter      *)
(* rules and limit_traffic_unique for limits.                              *)
(***************************************************************************)
EXTENDS Integers, Sequences, FiniteSets, SequencesExt

CONSTANTS
  Crc(_),        \* crc32 of a string
  HashModulus    \* 2^32 in the build

\* Both functions hash the two strings of a rule put together.
RuleHash(rule) == Crc(rule.key \o rule.name)

\* The int that the comparison returns is the difference of two unsigned hashes
\* reduced to 32 bits: a hash is above those of the half circle before it.
Above(a, b) ==
  LET d == (a - b) % HashModulus IN d > 0 /\ 2 * d < HashModulus

\* What qsort may leave: neighbours were compared and are in order.  As the
\* order is not transitive, equal hashes need not become neighbours.
Sorted(uniqs) ==
  {s \in SetToSeqs(uniqs) : \A i \in 1 .. Len(s) - 1 : ~Above(s[i].hash, s[i + 1].hash)}

\* The numbers of a set in their order.
Ascending(P) ==
  CHOOSE p \in SetToSeqs(P) : \A i, j \in DOMAIN p : i < j => p[i] < p[j]

\* The rules whose hash differs from the one before, the first from the one given.
DistinctFrom(hash, s) ==
  LET kept == Ascending({i \in DOMAIN s : s[i].hash # (IF i = 1 THEN hash ELSE s[i - 1].hash)})
  IN [k \in DOMAIN kept |-> s[kept[k]].index]

\* Mutant: the comparison starts from the hash of the first rule.
DistinctAfterFirst(s) == DistinctFrom(s[1].hash, s)

\* Both functions start from hash 0.
Distinct(s) == DistinctFrom(0, s)

\* What may become of an array of rules: the array itself when nothing was
\* dropped.  An array whose hashes are all 0 leaves no array of results, and the
\* comparison of the lengths reads through NULL: it has no outcome.
Unique(rules) ==
  LET uniqs == {[hash |-> RuleHash(rules[i]), index |-> i] : i \in DOMAIN rules}
      Outcome(kept) ==
        IF Len(kept) = Len(rules) THEN rules ELSE [i \in DOMAIN kept |-> rules[kept[i]]]
  IN {Outcome(Distinct(s)) : s \in {t \in Sorted(uniqs) : Distinct(t) # <<>>}}
=============================================================================
