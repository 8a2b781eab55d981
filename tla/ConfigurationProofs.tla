------------------------- MODULE ConfigurationProofs -------------------------
(***************************************************************************)
(* What reading a configuration promises, for any nesting of the blocks,   *)
(* any rules and any checksum of any width: the checks for duplicates keep *)
(* one rule of each hash, and a slot has the value of the nearest block.   *)
(*                                                                         *)
(* First what sorting and comparing hashes leaves, then the blocks around  *)
(* a block, then the invariant ConfInv: what the directives gave, and what *)
(* the blocks merged so far have from the nearest block that decides.      *)
(***************************************************************************)
EXTENDS Configuration, Induction, FiniteSetTheorems, TLAPS

M == HashModulus
HashesOf == 0 .. M - 1

(***************************************************************************)
(* The order of hashes                                                     *)
(***************************************************************************)

LEMMA DivMod ==
  ASSUME NEW n \in Int, NEW m \in Nat \ {0}
  PROVE  n \div m \in Int /\ n % m \in 0 .. m - 1 /\ n = m * (n \div m) + (n % m)
OBVIOUS

LEMMA ModIs ==
  ASSUME NEW x \in Int, NEW y \in HashesOf, NEW n \in Int, n = M * x + y
  PROVE  n % M = y
<1> DEFINE q == n \div M
           r == n % M
<1>1. M \in Nat \ {0} BY RulesAssumption DEF M
<1>2. q \in Int /\ r \in 0 .. M - 1 /\ n = M * q + r BY <1>1, DivMod
<1> HIDE DEF q, r
<1> DEFINE d == x - q
<1>3. d \in Int /\ M * d = r - y
  <2>1. M * (x - q) = M * x - M * q BY <1>1, <1>2
  <2> QED BY <1>1, <1>2, <2>1 DEF HashesOf
<1> HIDE DEF d
<1>4. d = 0
  <2>1. ASSUME d >= 1 PROVE FALSE
    <3>1. M * d = M + M * (d - 1) /\ M * (d - 1) >= 0 BY <1>1, <1>3, <2>1
    <3> QED BY <1>1, <1>2, <1>3, <3>1 DEF HashesOf
  <2>2. ASSUME d <= -1 PROVE FALSE
    <3>1. M * d = -M - M * (-1 - d) /\ M * (-1 - d) >= 0 BY <1>1, <1>3, <2>2
    <3> QED BY <1>1, <1>2, <1>3, <3>1 DEF HashesOf
  <2> QED BY <1>3, <2>1, <2>2
<1>5. M * 0 = 0 BY <1>1
<1>6. r = y BY <1>1, <1>2, <1>3, <1>4, <1>5 DEF HashesOf
<1> QED BY <1>6 DEF r

\* How far x is ahead of y on the circle.
Ahead(x, y) == IF x >= y THEN x - y ELSE x - y + M

LEMMA AboveIs ==
  ASSUME NEW x \in HashesOf, NEW y \in HashesOf
  PROVE  R!Above(x, y) <=> Ahead(x, y) > 0 /\ 2 * Ahead(x, y) < M
<1>1. M \in Nat \ {0} BY RulesAssumption DEF M
<1>2. (x - y) % M = Ahead(x, y)
  <2>1. CASE x >= y
    <3>1. x - y = M * 0 + (x - y) BY <1>1 DEF HashesOf
    <3>2. x - y \in HashesOf /\ x - y \in Int /\ 0 \in Int BY <1>1, <2>1 DEF HashesOf
    <3>3. (x - y) % M = x - y BY <3>1, <3>2, ModIs
    <3> QED BY <2>1, <3>3 DEF Ahead
  <2>2. CASE ~(x >= y)
    <3>1. x - y = M * (-1) + (x - y + M) BY <1>1 DEF HashesOf
    <3>2. x - y + M \in HashesOf /\ x - y \in Int /\ -1 \in Int BY <1>1, <2>2 DEF HashesOf
    <3>3. (x - y) % M = x - y + M BY <3>1, <3>2, ModIs
    <3> QED BY <2>2, <3>3 DEF Ahead
  <2> QED BY <2>1, <2>2
<1> QED BY <1>2 DEF R!Above, M

\* Two hashes are not each above the other, and none is above itself.
LEMMA AboveOneWay ==
  ASSUME NEW x \in HashesOf, NEW y \in HashesOf
  PROVE  ~(R!Above(x, y) /\ R!Above(y, x))
<1>1. M \in Nat \ {0} BY RulesAssumption DEF M
<1> QED BY <1>1, AboveIs DEF Ahead, HashesOf

\* Neighbours in order are all in order, where comparing is an order.
LEMMA SortedAll ==
  ASSUME NEW n \in Nat, NEW h \in [1 .. n -> HashesOf],
         R!Comparable({h[i] : i \in 1 .. n}),
         \A i \in 1 .. n - 1 : ~R!Above(h[i], h[i + 1])
  PROVE  \A i, j \in 1 .. n : i <= j => h[i] = h[j] \/ R!Above(h[j], h[i])
<1> DEFINE Le(x, y) == x = y \/ R!Above(y, x)
           H == {h[i] : i \in 1 .. n}
<1>1. \A x, y \in H : x = y \/ R!Above(x, y) \/ R!Above(y, x) BY DEF R!Comparable
<1>2. \A x, y, z \in H : Le(x, y) /\ Le(y, z) => Le(x, z) BY DEF R!Comparable
<1>3. \A i \in 1 .. n : h[i] \in H OBVIOUS
<1>4. \A i \in 1 .. n - 1 : Le(h[i], h[i + 1])
  <2> TAKE i \in 1 .. n - 1
  <2>1. i \in 1 .. n /\ i + 1 \in 1 .. n OBVIOUS
  <2> QED BY <1>1, <1>3, <2>1
<1> HIDE DEF Le, H
<1> SUFFICES ASSUME NEW i \in 1 .. n, NEW j \in 1 .. n, i <= j PROVE Le(h[i], h[j]) BY DEF Le
<1> DEFINE T == {k \in 0 .. n - i : Le(h[i], h[i + k])}
<1>5. n - i \in Nat /\ j - i \in 0 .. n - i /\ i + (j - i) = j OBVIOUS
<1>6. 0 \in T
  <2>1. i + 0 = i /\ 0 \in 0 .. n - i OBVIOUS
  <2> QED BY <2>1 DEF Le
<1>7. ASSUME NEW k \in 0 .. (n - i) - 1, k \in T PROVE k + 1 \in T
  <2>1. i + k \in 1 .. n - 1 /\ i + (k + 1) = (i + k) + 1 /\ i + k \in 1 .. n
        /\ (i + k) + 1 \in 1 .. n /\ k + 1 \in 0 .. n - i
    BY <1>5
  <2>2. Le(h[i + k], h[(i + k) + 1]) BY <1>4, <2>1
  <2>3. Le(h[i], h[i + k]) BY <1>7
  <2>4. Le(h[i], h[(i + k) + 1]) BY <1>2, <1>3, <2>1, <2>2, <2>3
  <2> QED BY <2>1, <2>4
<1>8. \A k \in 0 .. n - i : k \in T
  <2> HIDE DEF T
  <2> QED BY <1>5, <1>6, <1>7, InductTo
<1> QED BY <1>5, <1>8

(***************************************************************************)
(* The check for duplicates                                                *)
(***************************************************************************)

\* Instances of one definition.
LEMMA SameCardinality == \A T : R!Cardinality(T) = Cardinality(T)
BY DEF R!Cardinality, Cardinality

LEMMA InSeqs ==
  ASSUME NEW T, NEW p
  PROVE  p \in R!SetToSeqs(T) <=>
           /\ p \in [1 .. Cardinality(T) -> T]
           /\ \A i, j \in 1 .. Cardinality(T) : p[i] = p[j] => i = j
BY SameCardinality DEF R!SetToSeqs

Rising(p) == \A i, j \in DOMAIN p : i < j => p[i] < p[j]

\* Numbers can be put in order, the least one first.
LEMMA AscendingExists ==
  ASSUME NEW P \in SUBSET Nat, IsFiniteSet(P)
  PROVE  \E p \in R!SetToSeqs(P) : Rising(p)
<1> DEFINE Good(Q) == \E p \in R!SetToSeqs(Q) : Rising(p)
           T == {n \in Nat : \A Q \in SUBSET Nat : IsFiniteSet(Q) /\ Cardinality(Q) = n => Good(Q)}
<1>1. 0 \in T
  <2> SUFFICES ASSUME NEW Q \in SUBSET Nat, IsFiniteSet(Q), Cardinality(Q) = 0 PROVE Good(Q)
    OBVIOUS
  <2>1. Q = {} BY FS_EmptySet
  <2> DEFINE p == [i \in 1 .. 0 |-> 0]
  <2>2. DOMAIN p = {} /\ 1 .. 0 = {} OBVIOUS
  <2>3. p \in [1 .. 0 -> Q] BY <2>2
  <2>4. p \in R!SetToSeqs(Q) BY <2>2, <2>3, InSeqs
  <2>5. Rising(p) BY <2>2 DEF Rising
  <2> QED BY <2>4, <2>5
<1>2. ASSUME NEW n \in T PROVE n + 1 \in T
  <2> SUFFICES ASSUME NEW Q \in SUBSET Nat, IsFiniteSet(Q), Cardinality(Q) = n + 1 PROVE Good(Q)
    OBVIOUS
  <2>1. Q # {} BY FS_EmptySet
  <2>2. PICK m \in Q : \A k \in Q : m <= k BY <2>1, Least
  <2> DEFINE U == Q \ {m}
  <2>3. U \in SUBSET Nat /\ IsFiniteSet(U) /\ Cardinality(U) = n
    <3>1. n \in Nat /\ (n + 1) - 1 = n OBVIOUS
    <3> QED BY <3>1, FS_RemoveElement
  <2>4. Good(U) BY <2>3
  <2>5. PICK u \in R!SetToSeqs(U) : Rising(u) BY <2>4
  <2>6. /\ u \in [1 .. n -> U]
        /\ \A i, j \in 1 .. n : i # j => u[i] # u[j]
        /\ \A i, j \in 1 .. n : i < j => u[i] < u[j]
    BY <2>3, <2>5, InSeqs DEF Rising
  <2> DEFINE p == [i \in 1 .. n + 1 |-> IF i = 1 THEN m ELSE u[i - 1]]
  <2>7. \A i \in 2 .. n + 1 : i - 1 \in 1 .. n OBVIOUS
  <2>8. \A i \in 1 .. n + 1 : i = 1 \/ i \in 2 .. n + 1 OBVIOUS
  <2>9. p[1] = m /\ \A i \in 2 .. n + 1 : p[i] = u[i - 1] /\ p[i] \in Q /\ m < p[i]
    <3>1. p[1] = m OBVIOUS
    <3> SUFFICES ASSUME NEW i \in 2 .. n + 1 PROVE p[i] = u[i - 1] /\ p[i] \in Q /\ m < p[i]
      BY <3>1
    <3>2. p[i] = u[i - 1] /\ i - 1 \in 1 .. n OBVIOUS
    <3>3. u[i - 1] \in U BY <2>6, <3>2
    <3>4. u[i - 1] \in Q /\ m <= u[i - 1] /\ m # u[i - 1] BY <2>2, <3>3
    <3>5. m < u[i - 1]
      <4>1. m \in Nat /\ u[i - 1] \in Nat BY <3>4
      <4> QED BY <3>4, <4>1
    <3> QED BY <3>2, <3>4, <3>5
  <2>10. p \in [1 .. n + 1 -> Q] BY <2>8, <2>9
  <2>11. \A i, j \in 1 .. n + 1 : i < j => p[i] < p[j]
    <3> SUFFICES ASSUME NEW i \in 1 .. n + 1, NEW j \in 1 .. n + 1, i < j PROVE p[i] < p[j]
      OBVIOUS
    <3>1. j \in 2 .. n + 1 OBVIOUS
    <3>2. CASE i = 1 BY <2>9, <3>1, <3>2
    <3>3. CASE i \in 2 .. n + 1
      <4>1. i - 1 < j - 1 OBVIOUS
      <4> QED BY <2>6, <2>7, <2>9, <3>1, <3>3, <4>1
    <3> QED BY <2>8, <3>2, <3>3
  <2>12. \A i, j \in 1 .. n + 1 : i # j => p[i] # p[j]
    <3> SUFFICES ASSUME NEW i \in 1 .. n + 1, NEW j \in 1 .. n + 1, i # j PROVE p[i] # p[j]
      OBVIOUS
    <3>1. p[i] \in Nat /\ p[j] \in Nat BY <2>10
    <3>2. i < j \/ j < i OBVIOUS
    <3> HIDE DEF p
    <3> QED BY <2>11, <3>1, <3>2
  <2>13. DOMAIN p = 1 .. n + 1 OBVIOUS
  <2> HIDE DEF p
  <2>14. p \in R!SetToSeqs(Q) BY <2>10, <2>12, InSeqs
  <2>15. Rising(p) BY <2>11, <2>13 DEF Rising
  <2> QED BY <2>14, <2>15
<1>3. T = Nat
  <2> HIDE DEF T
  <2> SUFFICES T \in SUBSET Nat BY <1>1, <1>2, Induct
  <2> QED BY DEF T
<1>4. Cardinality(P) \in Nat BY FS_CardinalityType
<1> QED BY <1>3, <1>4

\* In order, they are all there, and each once.
LEMMA AscendingOnto ==
  ASSUME NEW P \in SUBSET Nat, IsFiniteSet(P), NEW p, p = R!Ascending(P)
  PROVE  /\ Cardinality(P) \in Nat
         /\ p \in [1 .. Cardinality(P) -> P]
         /\ \A i, j \in 1 .. Cardinality(P) : p[i] = p[j] => i = j
         /\ \A x \in P : \E i \in 1 .. Cardinality(P) : p[i] = x
<1> DEFINE n == Cardinality(P)
<1>1. p \in R!SetToSeqs(P) BY AscendingExists DEF R!Ascending, Rising
<1>2. n \in Nat BY FS_CardinalityType
<1>3. p \in [1 .. n -> P] /\ \A i, j \in 1 .. n : p[i] = p[j] => i = j
  BY <1>1, InSeqs
<1>4. p \in Surjection(1 .. n, P)
  <2>1. p \in Injection(1 .. n, P) BY <1>3 DEF Injection, IsInjective
  <2>2. Cardinality(1 .. n) = n BY <1>2, FS_Interval
  <2> QED BY <2>1, <2>2, FS_Injection
<1> QED BY <1>2, <1>3, <1>4 DEF Surjection

RuleSet == {arg[2] : arg \in Rules}

LEMMA HashType == \A r \in RuleSet : R!RuleHash(r) \in HashesOf
BY RulesAssumption DEF RuleSet, R!RuleHash, HashesOf, M

\* What the check does: the rules are sorted to k, the positions F whose hash is a new
\* one are kept, and unless these are all, the array becomes that of the kept ones.
CheckedAs(rules, out, k, F) ==
  LET n == Len(rules)
      h(i) == R!RuleHash(rules[k[i]])
  IN /\ k \in [1 .. n -> 1 .. n]
     /\ \A i \in 1 .. n : \E j \in 1 .. n : k[j] = i
     /\ \A i, j \in 1 .. n : k[i] = k[j] => i = j
     /\ \A i \in 1 .. n - 1 : ~R!Above(h(i), h(i + 1))
     /\ F = {i \in 1 .. n : h(i) # (IF i = 1 THEN 0 ELSE h(i - 1))}
     /\ \/ out = rules /\ F = 1 .. n
        \/ \E m \in Nat : \E p \in [1 .. m -> F] :
             /\ out = [j \in 1 .. m |-> rules[k[p[j]]]]
             /\ \A i, j \in 1 .. m : p[i] = p[j] => i = j
             /\ \A i \in F : \E j \in 1 .. m : p[j] = i

LEMMA UniqueIs ==
  ASSUME NEW rules \in Seq(RuleSet), NEW out \in R!Unique(rules)
  PROVE  \E k, F : CheckedAs(rules, out, k, F)
<1> DEFINE n == Len(rules)
           uniqs == {[hash |-> R!RuleHash(rules[i]), index |-> i] : i \in DOMAIN rules}
           Outcome(kept) ==
             IF Len(kept) = Len(rules) THEN rules ELSE [i \in DOMAIN kept |-> rules[kept[i]]]
<1>1. n \in Nat /\ DOMAIN rules = 1 .. n OBVIOUS
<1>2. PICK s \in R!Sorted(uniqs) : out = Outcome(R!Distinct(s)) BY DEF R!Unique
<1>3. Cardinality(uniqs) = n
  <2> DEFINE g == [i \in 1 .. n |-> [hash |-> R!RuleHash(rules[i]), index |-> i]]
  <2>1. g \in [1 .. n -> uniqs] BY <1>1
  <2>2. \A i, j \in 1 .. n : g[i] = g[j] => i = j
    <3> SUFFICES ASSUME NEW i \in 1 .. n, NEW j \in 1 .. n, g[i] = g[j] PROVE i = j OBVIOUS
    <3>1. g[i].index = i /\ g[j].index = j OBVIOUS
    <3> HIDE DEF g
    <3> QED BY <3>1
  <2>3. \A u \in uniqs : \E i \in 1 .. n : g[i] = u BY <1>1
  <2>4. DOMAIN g = 1 .. n OBVIOUS
  <2> HIDE DEF g, uniqs
  <2>5. g \in Bijection(1 .. n, uniqs)
    BY <2>1, <2>2, <2>3, <2>4 DEF Bijection, Injection, Surjection, IsInjective
  <2>6. ExistsBijection(1 .. n, uniqs) BY <2>5 DEF ExistsBijection
  <2>7. IsFiniteSet(1 .. n) /\ Cardinality(1 .. n) = n BY <1>1, FS_Interval
  <2> QED BY <2>6, <2>7, FS_Bijection
<1>4. /\ s \in [1 .. n -> uniqs] /\ Len(s) = n
      /\ \A i, j \in 1 .. n : s[i] = s[j] => i = j
      /\ \A i \in 1 .. n - 1 : ~R!Above(s[i].hash, s[i + 1].hash)
  <2>1. s \in R!SetToSeqs(uniqs)
        /\ \A i \in 1 .. Len(s) - 1 : ~R!Above(s[i].hash, s[i + 1].hash)
    BY <1>2 DEF R!Sorted
  <2>2. s \in [1 .. n -> uniqs] /\ \A i, j \in 1 .. n : s[i] = s[j] => i = j
    <3> HIDE DEF uniqs
    <3> QED BY <1>3, <2>1, InSeqs
  <2>3. Len(s) = n
    <3> HIDE DEF uniqs
    <3>1. s \in Seq(uniqs) /\ DOMAIN s = 1 .. n BY <1>1, <2>2
    <3> QED BY <1>1, <3>1
  <2> QED BY <2>1, <2>2, <2>3
<1> DEFINE k == [i \in 1 .. n |-> s[i].index]
           h(i) == R!RuleHash(rules[k[i]])
           F == {i \in 1 .. n : h(i) # (IF i = 1 THEN 0 ELSE h(i - 1))}
<1>5. \A i \in 1 .. n : k[i] \in 1 .. n /\ s[i].hash = h(i) /\ s[i].index = k[i]
                        /\ s[i] = [hash |-> R!RuleHash(rules[k[i]]), index |-> k[i]]
  <2> SUFFICES ASSUME NEW i \in 1 .. n
               PROVE  k[i] \in 1 .. n /\ s[i].hash = h(i)
                      /\ s[i] = [hash |-> R!RuleHash(rules[k[i]]), index |-> k[i]]
    OBVIOUS
  <2>1. PICK x \in 1 .. n : s[i] = [hash |-> R!RuleHash(rules[x]), index |-> x] BY <1>1, <1>4
  <2>2. k[i] = x BY <2>1
  <2> HIDE DEF k
  <2> QED BY <2>1, <2>2
<1>6. k \in [1 .. n -> 1 .. n] /\ \A i, j \in 1 .. n : k[i] = k[j] => i = j
  <2>1. k \in [1 .. n -> 1 .. n] BY <1>5
  <2> SUFFICES ASSUME NEW i \in 1 .. n, NEW j \in 1 .. n, k[i] = k[j] PROVE i = j BY <2>1
  <2>2. s[i] = [hash |-> R!RuleHash(rules[k[i]]), index |-> k[i]] BY <1>5
  <2>3. s[j] = [hash |-> R!RuleHash(rules[k[j]]), index |-> k[j]] BY <1>5
  <2> HIDE DEF k
  <2>4. s[i] = s[j] BY <2>2, <2>3
  <2> QED BY <1>4, <2>4
<1>7. \A i \in 1 .. n : \E j \in 1 .. n : k[j] = i
  <2> HIDE DEF k
  <2>1. k \in Injection(1 .. n, 1 .. n) BY <1>6 DEF Injection, IsInjective
  <2>2. IsFiniteSet(1 .. n) BY <1>1, FS_Interval
  <2>3. k \in Surjection(1 .. n, 1 .. n) BY <2>1, <2>2, FS_Injection
  <2> QED BY <2>3 DEF Surjection
<1>8. \A i \in 1 .. n - 1 : ~R!Above(h(i), h(i + 1))
  <2> TAKE i \in 1 .. n - 1
  <2>1. i \in 1 .. n /\ i + 1 \in 1 .. n BY <1>1
  <2>2. s[i].hash = h(i) BY <1>5, <2>1
  <2>3. s[i + 1].hash = h(i + 1) BY <1>5, <2>1
  <2>4. ~R!Above(s[i].hash, s[i + 1].hash) BY <1>4
  <2> HIDE DEF h
  <2> QED BY <2>2, <2>3, <2>4
<1> DEFINE p == R!Ascending(F)
           m == Cardinality(F)
<1>9. R!Distinct(s) = [j \in DOMAIN p |-> s[p[j]].index]
  <2>1. DOMAIN s = 1 .. n BY <1>4
  <2>2. {i \in DOMAIN s : s[i].hash # (IF i = 1 THEN 0 ELSE s[i - 1].hash)} = F
    <3> SUFFICES ASSUME NEW i \in 1 .. n
                 PROVE  s[i].hash # (IF i = 1 THEN 0 ELSE s[i - 1].hash) <=> i \in F
      BY <2>1
    <3>1. CASE i = 1
      <4> HIDE DEF k
      <4> QED BY <1>5, <3>1
    <3>2. CASE i # 1
      <4>1. i - 1 \in 1 .. n BY <1>1, <3>2
      <4>2. s[i].hash = h(i) BY <1>5
      <4>3. s[i - 1].hash = h(i - 1) BY <1>5, <4>1
      <4> HIDE DEF h
      <4> QED BY <3>2, <4>2, <4>3
    <3> QED BY <3>1, <3>2
  <2> HIDE DEF F
  <2> QED BY <2>2 DEF R!Distinct, R!DistinctFrom
<1>10. F \in SUBSET (1 .. n) /\ F \in SUBSET Nat /\ IsFiniteSet(F) /\ Cardinality(1 .. n) = n
  <2>1. F \in SUBSET (1 .. n) OBVIOUS
  <2> HIDE DEF F
  <2>2. IsFiniteSet(1 .. n) /\ Cardinality(1 .. n) = n BY <1>1, FS_Interval
  <2>3. IsFiniteSet(F) BY <2>1, <2>2, FS_Subset
  <2>4. F \in SUBSET Nat BY <2>1
  <2> QED BY <2>1, <2>2, <2>3, <2>4
<1> HIDE DEF F
<1>11. /\ m \in Nat /\ p \in [1 .. m -> F]
       /\ \A i, j \in 1 .. m : p[i] = p[j] => i = j
       /\ \A i \in F : \E j \in 1 .. m : p[j] = i
  BY <1>10, AscendingOnto
<1> HIDE DEF p, m
<1>12. R!Distinct(s) = [j \in 1 .. m |-> k[p[j]]]
  <2>1. \A j \in 1 .. m : p[j] \in 1 .. n BY <1>10, <1>11
  <2>2. DOMAIN p = 1 .. m BY <1>11
  <2> HIDE DEF k
  <2> QED BY <1>5, <1>9, <2>1, <2>2
<1>13. Len(R!Distinct(s)) = m
  <2> HIDE DEF k
  <2> DEFINE d == R!Distinct(s)
             V == {k[p[j]] : j \in 1 .. m}
  <2>1. d \in [1 .. m -> V] BY <1>12
  <2> HIDE DEF d, V
  <2>2. d \in Seq(V) /\ DOMAIN d = 1 .. m BY <1>11, <2>1
  <2>3. Len(d) = m BY <1>11, <2>2
  <2> QED BY <2>3 DEF d
<1>14. \/ out = rules /\ F = 1 .. n
       \/ out = [j \in 1 .. m |-> rules[k[p[j]]]]
  <2>1. CASE m = n
    <3>1. out = rules BY <1>2, <1>13, <2>1
    <3>2. F = 1 .. n
      <4>1. IsFiniteSet(1 .. n) BY <1>1, FS_Interval
      <4> QED BY <1>10, <2>1, <4>1, FS_Subset DEF m
    <3> QED BY <3>1, <3>2
  <2>2. CASE m # n
    <3> DEFINE d == R!Distinct(s)
    <3>1. out = [i \in DOMAIN d |-> rules[d[i]]] BY <1>2, <1>13, <2>2
    <3>2. DOMAIN d = 1 .. m /\ \A j \in 1 .. m : d[j] = k[p[j]]
      <4> HIDE DEF k
      <4> QED BY <1>12
    <3> HIDE DEF d, k
    <3> QED BY <3>1, <3>2
  <2> QED BY <2>1, <2>2
<1> HIDE DEF k
<1>15. CheckedAs(rules, out, k, F)
  BY <1>6, <1>7, <1>8, <1>11, <1>14 DEF CheckedAs, F
<1> QED BY <1>15

\* The hashes that stay, but for 0, are those that were there, and no rule is added.
LEMMA UniqueKeeps ==
  ASSUME NEW rules \in Seq(RuleSet), NEW out \in R!Unique(rules)
  PROVE  /\ out \in Seq(RuleSet)
         /\ R!ToSet(out) \subseteq R!ToSet(rules)
         /\ R!Hashes(rules) \ {0} \subseteq R!Hashes(out)
<1> DEFINE n == Len(rules)
<1>1. n \in Nat /\ DOMAIN rules = 1 .. n OBVIOUS
<1>2. CASE out = rules BY <1>2
<1>3. CASE out # rules
  <2>1. PICK k, F : CheckedAs(rules, out, k, F) BY UniqueIs
  <2> DEFINE h(i) == R!RuleHash(rules[k[i]])
  <2>2. /\ k \in [1 .. n -> 1 .. n]
        /\ \A i \in 1 .. n : \E j \in 1 .. n : k[j] = i
        /\ F = {i \in 1 .. n : h(i) # (IF i = 1 THEN 0 ELSE h(i - 1))}
    BY <2>1 DEF CheckedAs
  <2>3. PICK m \in Nat : \E p \in [1 .. m -> F] :
          /\ out = [j \in 1 .. m |-> rules[k[p[j]]]]
          /\ \A i, j \in 1 .. m : p[i] = p[j] => i = j
          /\ \A i \in F : \E j \in 1 .. m : p[j] = i
    BY <1>3, <2>1 DEF CheckedAs
  <2>4. PICK p \in [1 .. m -> F] :
          /\ out = [j \in 1 .. m |-> rules[k[p[j]]]]
          /\ \A i \in F : \E j \in 1 .. m : p[j] = i
    BY <2>3
  <2>5. F \subseteq 1 .. n BY <2>2
  <2>6. \A j \in 1 .. m : k[p[j]] \in 1 .. n BY <2>2, <2>4, <2>5
  <2>7. DOMAIN out = 1 .. m /\ \A j \in 1 .. m : out[j] = rules[k[p[j]]] BY <2>4
  <2>8. out \in Seq(RuleSet)
    <3>1. \A j \in 1 .. m : out[j] \in RuleSet BY <1>1, <2>6, <2>7
    <3>2. out \in [1 .. m -> RuleSet] BY <2>4, <3>1
    <3> QED BY <3>2
  <2>9. R!ToSet(out) \subseteq R!ToSet(rules) BY <1>1, <2>6, <2>7 DEF R!ToSet
  <2>10. ASSUME NEW x \in R!Hashes(rules), x # 0 PROVE x \in R!Hashes(out)
    <3>1. PICK i \in 1 .. n : x = R!RuleHash(rules[i]) BY <1>1 DEF R!Hashes
    <3>2. PICK j \in 1 .. n : k[j] = i BY <2>2
    <3> DEFINE T == {t \in 1 .. n : h(t) = x}
    <3>3. j \in T BY <3>1, <3>2
    <3>4. T \in SUBSET Nat /\ T # {} BY <3>3
    <3>5. PICK t \in T : \A u \in T : t <= u
      <4> HIDE DEF T
      <4> QED BY <3>4, Least
    <3>6. t \in F
      <4>1. t \in 1 .. n /\ h(t) = x OBVIOUS
      <4>2. CASE t = 1 BY <2>2, <2>10, <4>1, <4>2
      <4>3. CASE t # 1
        <5>1. t - 1 \in 1 .. n /\ ~(t <= t - 1) BY <1>1, <4>1, <4>3
        <5>2. t - 1 \notin T BY <3>5, <5>1
        <5>3. h(t - 1) # x BY <5>1, <5>2
        <5> HIDE DEF h
        <5> QED BY <2>2, <4>1, <4>3, <5>3
      <4> QED BY <4>2, <4>3
    <3>7. PICK l \in 1 .. m : p[l] = t BY <2>4, <3>6
    <3>8. R!RuleHash(out[l]) = x BY <2>7, <3>7
    <3> QED BY <2>7, <3>8 DEF R!Hashes
  <2> QED BY <2>8, <2>9, <2>10
<1> QED BY <1>2, <1>3

\* Where comparing is an order, each hash stays with one rule.
LEMMA UniqueOnce ==
  ASSUME NEW rules \in Seq(RuleSet), NEW out \in R!Unique(rules), R!Comparable(R!Hashes(rules))
  PROVE  Cardinality(R!Hashes(out)) = Len(out)
<1> DEFINE n == Len(rules)
<1>1. n \in Nat /\ DOMAIN rules = 1 .. n OBVIOUS
<1>2. PICK k, F : CheckedAs(rules, out, k, F) BY UniqueIs
<1> DEFINE h == [i \in 1 .. n |-> R!RuleHash(rules[k[i]])]
<1>3. /\ k \in [1 .. n -> 1 .. n]
      /\ \A i \in 1 .. n : \E j \in 1 .. n : k[j] = i
      /\ \A i \in 1 .. n : h[i] = R!RuleHash(rules[k[i]])
  BY <1>2 DEF CheckedAs
<1>4. h \in [1 .. n -> HashesOf] BY <1>1, <1>3, HashType
<1>5. {h[i] : i \in 1 .. n} = R!Hashes(rules)
  <2> HIDE DEF h
  <2>1. \A i \in 1 .. n : h[i] \in R!Hashes(rules) BY <1>1, <1>3 DEF R!Hashes
  <2>2. ASSUME NEW x \in R!Hashes(rules) PROVE \E i \in 1 .. n : h[i] = x
    <3>1. PICK y \in 1 .. n : x = R!RuleHash(rules[y]) BY <1>1 DEF R!Hashes
    <3>2. PICK i \in 1 .. n : k[i] = y BY <1>3
    <3>3. h[i] = x BY <1>3, <3>1, <3>2
    <3> QED BY <3>3
  <2> QED BY <2>1, <2>2
<1>6. \A i \in 1 .. n - 1 : ~R!Above(h[i], h[i + 1])
  <2> TAKE i \in 1 .. n - 1
  <2>1. i \in 1 .. n /\ i + 1 \in 1 .. n BY <1>1
  <2>2. h[i] = R!RuleHash(rules[k[i]]) /\ h[i + 1] = R!RuleHash(rules[k[i + 1]]) BY <1>3, <2>1
  <2>3. ~R!Above(R!RuleHash(rules[k[i]]), R!RuleHash(rules[k[i + 1]])) BY <1>2 DEF CheckedAs
  <2> QED BY <2>2, <2>3
<1>7. F \subseteq 1 .. n /\ \A i \in F : i # 1 => h[i] # h[i - 1]
  <2>1. F = {i \in 1 .. n : R!RuleHash(rules[k[i]])
                              # (IF i = 1 THEN 0 ELSE R!RuleHash(rules[k[i - 1]]))}
    BY <1>2 DEF CheckedAs
  <2> SUFFICES ASSUME NEW i \in F, i # 1 PROVE h[i] # h[i - 1] BY <2>1
  <2>2. i \in 1 .. n /\ i - 1 \in 1 .. n BY <1>1, <2>1
  <2> HIDE DEF h
  <2> QED BY <1>3, <2>1, <2>2
<1> HIDE DEF h
<1>8. \A i, j \in 1 .. n : i <= j => h[i] = h[j] \/ R!Above(h[j], h[i])
  BY <1>1, <1>4, <1>5, <1>6, SortedAll
<1>9. \A i, j \in F : h[i] = h[j] => ~(i < j)
  <2> SUFFICES ASSUME NEW i \in F, NEW j \in F, h[i] = h[j], i < j PROVE FALSE OBVIOUS
  <2>1. i \in 1 .. n /\ j \in 1 .. n /\ j - 1 \in 1 .. n /\ j # 1 /\ i <= j - 1 /\ j - 1 <= j
    BY <1>1, <1>7
  <2>2. h[i] = h[j - 1] \/ R!Above(h[j - 1], h[i]) BY <1>8, <2>1
  <2>3. h[j - 1] = h[j] \/ R!Above(h[j], h[j - 1]) BY <1>8, <2>1
  <2>4. h[j - 1] \in HashesOf /\ h[j] \in HashesOf BY <1>4, <2>1
  <2> QED BY <1>7, <2>1, <2>2, <2>3, <2>4, AboveOneWay
<1>10. \A i, j \in F : h[i] = h[j] => i = j
  <2> SUFFICES ASSUME NEW i \in F, NEW j \in F, h[i] = h[j] PROVE i = j OBVIOUS
  <2>1. i \in Nat /\ j \in Nat BY <1>7
  <2> QED BY <1>9, <2>1
\* The kept positions, one for each rule that is left, and its hash.
<1>11. \E m \in Nat : \E q \in [1 .. m -> 1 .. n] :
         /\ DOMAIN out = 1 .. m /\ Len(out) = m
         /\ \A j \in 1 .. m : out[j] = rules[q[j]]
         /\ \A i, j \in 1 .. m : R!RuleHash(rules[q[i]]) = R!RuleHash(rules[q[j]]) => i = j
  <2>1. CASE out = rules /\ F = 1 .. n
    <3> DEFINE q == [j \in 1 .. n |-> j]
    <3>1. q \in [1 .. n -> 1 .. n] /\ \A j \in 1 .. n : q[j] = j OBVIOUS
    <3> HIDE DEF q
    <3>2. ASSUME NEW i \in 1 .. n, NEW j \in 1 .. n, R!RuleHash(rules[i]) = R!RuleHash(rules[j])
          PROVE  i = j
      <4>1. PICK x \in 1 .. n : k[x] = i BY <1>3
      <4>2. PICK y \in 1 .. n : k[y] = j BY <1>3
      <4>3. h[x] = h[y] BY <1>3, <3>2, <4>1, <4>2
      <4> QED BY <1>10, <2>1, <4>1, <4>2, <4>3
    <3>3. \A i, j \in 1 .. n : R!RuleHash(rules[q[i]]) = R!RuleHash(rules[q[j]]) => i = j
      <4> SUFFICES ASSUME NEW i \in 1 .. n, NEW j \in 1 .. n,
                          R!RuleHash(rules[q[i]]) = R!RuleHash(rules[q[j]])
                   PROVE  i = j
        OBVIOUS
      <4>1. q[i] = i /\ q[j] = j BY <3>1
      <4>2. R!RuleHash(rules[i]) = R!RuleHash(rules[j]) BY <4>1
      <4> QED BY <3>2, <4>2
    <3>4. DOMAIN out = 1 .. n /\ Len(out) = n /\ \A j \in 1 .. n : out[j] = rules[q[j]]
      BY <1>1, <2>1, <3>1
    <3> QED BY <1>1, <3>1, <3>3, <3>4
  <2>2. CASE ~(out = rules /\ F = 1 .. n)
    <3>1. \E m \in Nat : \E p \in [1 .. m -> F] :
            /\ out = [j \in 1 .. m |-> rules[k[p[j]]]]
            /\ \A i, j \in 1 .. m : p[i] = p[j] => i = j
      BY <1>2, <2>2 DEF CheckedAs
    <3>2. PICK m \in Nat : \E p \in [1 .. m -> F] :
            /\ out = [j \in 1 .. m |-> rules[k[p[j]]]]
            /\ \A i, j \in 1 .. m : p[i] = p[j] => i = j
      BY <3>1
    <3>3. PICK p \in [1 .. m -> F] :
            /\ out = [j \in 1 .. m |-> rules[k[p[j]]]]
            /\ \A i, j \in 1 .. m : p[i] = p[j] => i = j
      BY <3>2
    <3> DEFINE q == [j \in 1 .. m |-> k[p[j]]]
    <3>4. \A j \in 1 .. m : p[j] \in F /\ p[j] \in 1 .. n /\ k[p[j]] \in 1 .. n
      BY <1>3, <1>7, <3>3
    <3>5. q \in [1 .. m -> 1 .. n] /\ \A j \in 1 .. m : q[j] = k[p[j]] BY <3>4
    <3> HIDE DEF q
    <3>6. DOMAIN out = 1 .. m /\ \A j \in 1 .. m : out[j] = rules[q[j]] BY <3>3, <3>5
    <3>7. Len(out) = m
      <4>1. out \in Seq(RuleSet) BY UniqueKeeps
      <4> QED BY <3>6, <4>1
    <3>8. ASSUME NEW i \in 1 .. m, NEW j \in 1 .. m,
                 R!RuleHash(rules[q[i]]) = R!RuleHash(rules[q[j]])
          PROVE  i = j
      <4>1. q[i] = k[p[i]] /\ q[j] = k[p[j]] BY <3>5
      <4>2. h[p[i]] = R!RuleHash(rules[q[i]]) BY <1>3, <3>4, <4>1
      <4>3. h[p[j]] = R!RuleHash(rules[q[j]]) BY <1>3, <3>4, <4>1
      <4>4. h[p[i]] = h[p[j]] BY <3>8, <4>2, <4>3
      <4>5. p[i] = p[j] BY <1>10, <3>4, <4>4
      <4> QED BY <3>3, <4>5
    <3> QED BY <3>5, <3>6, <3>7, <3>8
  <2> QED BY <2>1, <2>2
<1>12. PICK m \in Nat : \E q \in [1 .. m -> 1 .. n] :
         /\ DOMAIN out = 1 .. m /\ Len(out) = m
         /\ \A j \in 1 .. m : out[j] = rules[q[j]]
         /\ \A i, j \in 1 .. m : R!RuleHash(rules[q[i]]) = R!RuleHash(rules[q[j]]) => i = j
  BY <1>11
<1>13. PICK q \in [1 .. m -> 1 .. n] :
         /\ DOMAIN out = 1 .. m /\ Len(out) = m
         /\ \A j \in 1 .. m : out[j] = rules[q[j]]
         /\ \A i, j \in 1 .. m : R!RuleHash(rules[q[i]]) = R!RuleHash(rules[q[j]]) => i = j
  BY <1>12
<1> DEFINE g == [j \in 1 .. m |-> R!RuleHash(out[j])]
<1>14. g \in [1 .. m -> R!Hashes(out)] /\ \A j \in 1 .. m : g[j] = R!RuleHash(out[j])
  BY <1>13 DEF R!Hashes
<1>15. \A x \in R!Hashes(out) : \E j \in 1 .. m : g[j] = x BY <1>13 DEF R!Hashes
<1> HIDE DEF g
<1>16. \A i, j \in 1 .. m : g[i] = g[j] => i = j BY <1>13, <1>14
<1>17. g \in Bijection(1 .. m, R!Hashes(out))
  BY <1>14, <1>15, <1>16 DEF Bijection, Injection, Surjection, IsInjective
<1>18. ExistsBijection(1 .. m, R!Hashes(out)) BY <1>17 DEF ExistsBijection
<1>19. IsFiniteSet(1 .. m) /\ Cardinality(1 .. m) = m BY FS_Interval
<1> QED BY <1>13, <1>18, <1>19, FS_Bijection

(***************************************************************************)
(* The blocks                                                              *)
(***************************************************************************)

Last == Len(Order)
Until(k) == {"http"} \cup {Order[i] : i \in 1 .. k}

LEMMA OrderFacts ==
  /\ Last \in Nat /\ DOMAIN Order = 1 .. Last
  /\ R!Http = "http" /\ R!Blocks = {"http"} \cup {Order[i] : i \in 1 .. Last}
  /\ \A i, j \in 1 .. Last : Order[i] = Order[j] => i = j
  /\ \A i \in 1 .. Last : Order[i] # "http" /\ Parent[Order[i]] \in Until(i - 1)
<1>1. Last \in Nat /\ DOMAIN Order = 1 .. Last BY BlocksAssumption DEF Last
<1> QED BY <1>1, BlocksAssumption DEF Until, R!Http, R!Blocks

LEMMA AroundSelf ==
  ASSUME NEW b \in R!Blocks
  PROVE  b \in R!Around(b)
BY DEF R!Around

LEMMA AroundHttp == R!Around("http") = {"http"}
<1> DEFINE T == {"http"}
<1>1. T \in SUBSET R!Blocks BY OrderFacts
<1>2. T \ {R!Http} = {} BY OrderFacts
<1>3. \A a \in R!Around("http") : a \in T BY <1>1, <1>2 DEF R!Around
<1>4. "http" \in R!Around("http") BY <1>1, AroundSelf
<1> QED BY <1>3, <1>4

LEMMA AroundParent ==
  ASSUME NEW k \in 1 .. Last
  PROVE  R!Around(Order[k]) = {Order[k]} \cup R!Around(Parent[Order[k]])
<1> DEFINE b == Order[k]
           up == Parent[b]
<1>1. b \in R!Blocks /\ b # R!Http BY OrderFacts
<1>2. up \in R!Blocks BY OrderFacts DEF Until
<1> HIDE DEF b, up
<1>3. ASSUME NEW a \in R!Around(up) PROVE a \in R!Around(b)
  <2> SUFFICES ASSUME NEW T \in SUBSET R!Blocks, b \in T,
                      \A c \in T \ {R!Http} : Parent[c] \in T
               PROVE  a \in T
    BY <1>3 DEF R!Around
  <2>1. up \in T BY <1>1 DEF up
  <2> QED BY <1>3, <2>1 DEF R!Around
<1>4. ASSUME NEW a \in R!Around(b), a # b PROVE a \in R!Around(up)
  <2> SUFFICES ASSUME NEW T \in SUBSET R!Blocks, up \in T,
                      \A c \in T \ {R!Http} : Parent[c] \in T
               PROVE  a \in T
    BY <1>4 DEF R!Around
  <2> DEFINE U == T \cup {b}
  <2>1. U \in SUBSET R!Blocks /\ b \in U BY <1>1
  <2>2. \A c \in U \ {R!Http} : Parent[c] \in U BY DEF up
  <2>3. a \in U
    <3> HIDE DEF U
    <3> QED BY <1>4, <2>1, <2>2 DEF R!Around
  <2> QED BY <1>4, <2>3
<1>5. b \in R!Around(b) BY <1>1, AroundSelf
<1> QED BY <1>3, <1>4, <1>5 DEF b, up

LEMMA AroundUntil ==
  ASSUME NEW k \in 0 .. Last, NEW b \in Until(k)
  PROVE  R!Around(b) \subseteq Until(k)
<1> DEFINE T == Until(k)
<1>1. T \in SUBSET R!Blocks /\ Last \in Nat BY OrderFacts DEF Until
<1>2. ASSUME NEW c \in T \ {R!Http} PROVE Parent[c] \in T
  <2>1. PICK i \in 1 .. k : c = Order[i] BY <1>2, OrderFacts DEF Until
  <2>2. i \in 1 .. Last /\ \A j \in 1 .. i - 1 : j \in 1 .. k BY <1>1
  <2>3. Parent[c] \in Until(i - 1) BY <2>1, <2>2, OrderFacts
  <2> QED BY <2>2, <2>3 DEF Until
<1>3. b \in T OBVIOUS
<1> HIDE DEF T
<1>4. R!Around(b) \subseteq T BY <1>1, <1>2, <1>3 DEF R!Around
<1> QED BY <1>4 DEF T

\* What lies around each other is the same block.
LEMMA AroundOneWay ==
  ASSUME NEW k \in 1 .. Last, NEW a \in R!Around(Order[k]), Order[k] \in R!Around(a)
  PROVE  a = Order[k]
<1> SUFFICES ASSUME a # Order[k] PROVE FALSE OBVIOUS
<1>1. Last \in Nat /\ k - 1 \in 0 .. Last BY OrderFacts
<1>2. a \in R!Around(Parent[Order[k]]) BY AroundParent
<1>3. Parent[Order[k]] \in Until(k - 1) BY OrderFacts
<1>4. a \in Until(k - 1) BY <1>1, <1>2, <1>3, AroundUntil
<1>5. Order[k] \in Until(k - 1) BY <1>1, <1>4, AroundUntil
<1>6. PICK i \in 1 .. k - 1 : Order[k] = Order[i] BY <1>5, OrderFacts DEF Until
<1>7. i \in 1 .. Last /\ i # k BY <1>1
<1> QED BY <1>6, <1>7, OrderFacts

LEMMA NearestHttp == ASSUME NEW H PROVE R!Nearest("http", H) = "http"
<1>1. R!Around("http") \cap (H \cup {R!Http}) = {"http"} BY AroundHttp, OrderFacts
<1>2. {"http"} \subseteq R!Around("http") BY AroundHttp
<1> QED BY <1>1, <1>2 DEF R!Nearest

LEMMA NearestOwn ==
  ASSUME NEW k \in 1 .. Last, NEW H, Order[k] \in H
  PROVE  R!Nearest(Order[k], H) = Order[k]
<1> DEFINE b == Order[k]
           D == R!Around(b) \cap (H \cup {R!Http})
<1>1. b \in D
  <2>1. b \in R!Blocks BY OrderFacts
  <2> QED BY <2>1, AroundSelf
<1>2. D \subseteq R!Around(b) OBVIOUS
<1>3. \A a \in D : D \subseteq R!Around(a) => a = b BY <1>1, AroundOneWay
<1>4. R!Nearest(b, H) = CHOOSE a \in D : D \subseteq R!Around(a) BY DEF R!Nearest
<1> HIDE DEF b, D
<1>5. R!Nearest(b, H) = b BY <1>1, <1>2, <1>3, <1>4
<1> QED BY <1>5 DEF b

LEMMA NearestUp ==
  ASSUME NEW k \in 1 .. Last, NEW H, Order[k] \notin H
  PROVE  R!Nearest(Order[k], H) = R!Nearest(Parent[Order[k]], H)
<1> DEFINE b == Order[k]
           up == Parent[b]
<1>1. b \notin H \cup {R!Http} BY OrderFacts
<1>2. R!Around(b) = {b} \cup R!Around(up) BY AroundParent
<1> HIDE DEF b, up
<1>3. R!Around(b) \cap (H \cup {R!Http}) = R!Around(up) \cap (H \cup {R!Http}) BY <1>1, <1>2
<1>4. R!Nearest(b, H) = R!Nearest(up, H) BY <1>3 DEF R!Nearest
<1> QED BY <1>4 DEF b, up

(***************************************************************************)
(* The rules                                                               *)
(*                                                                         *)
(* Directives fill the blocks and leave no rules of filters or limits in   *)
(* the http block, whose rules are in the main configuration.  Of the      *)
(* blocks merged so far, each has for every array the outcome of the check *)
(* of the nearest block with rules; the others are as they were given.     *)
(***************************************************************************)

Laid(c) == c = [b \in R!Blocks |-> c[b]]
Ruled(c) ==
  /\ c = [b \in R!Blocks |-> [slots |-> c[b].slots, arrays |-> c[b].arrays]]
  /\ \A b \in R!Blocks : c[b].arrays \in [R!Arrays -> Seq(RuleSet)]
NoneInHttp(c) == \A a \in R!RuleArrays : c["http"].arrays[a] = <<>>
RulesIn(x) == "arrays" \in DOMAIN x /\ x.arrays \in [R!Arrays -> Seq(RuleSet)]

\* The flag under which the rules of a block are checked, and what may become of them.
Flag(check, b) ==
  IF given.conf[b].slots[check] # "unset" THEN given.conf[b].slots[check]
  ELSE given.conf["http"].slots[check]
Result(a, b) == R!Checked(given.conf[b].arrays[a], Flag(R!CheckOf(a), b))

MainChecked ==
  /\ \A a \in R!RuleArrays :
       ctx.arrays[a] \in R!Checked(given.ctx.arrays[a], given.conf["http"].slots[R!CheckOf(a)])
  /\ ctx.filter_check_duplicate = given.conf["http"].slots["filter_check_duplicate"]
  /\ ctx.limit_check_duplicate = given.conf["http"].slots["limit_check_duplicate"]

\* The blocks after the first k are as they were given.
AsGiven(k) ==
  /\ \A i \in k + 1 .. Last : conf[Order[i]] = given.conf[Order[i]]
  /\ conf["http"] = given.conf["http"]
RulesMerged(k) ==
  ctx.enable = "on" => \A i \in 1 .. k : \A a \in R!RuleArrays :
    conf[Order[i]].arrays[a] \in Result(a, R!Nearest(Order[i], R!WithRules(a)))

RulesInv ==
  /\ open \in R!Blocks /\ unread \subseteq R!Blocks /\ Laid(conf)
  /\ conf_pc = "parse" => todo = Order /\ Ruled(conf) /\ NoneInHttp(conf) /\ RulesIn(ctx)
  /\ conf_pc \in {"init", "merge", "done"} =>
       Ruled(given.conf) /\ NoneInHttp(given.conf) /\ RulesIn(given.ctx)
  /\ conf_pc = "init" => todo = Order /\ given.conf = conf /\ given.ctx = ctx
  /\ conf_pc = "merge" =>
       /\ MainChecked
       /\ \E k \in 0 .. Last : todo = SubSeq(Order, k + 1, Last) /\ AsGiven(k) /\ RulesMerged(k)
  /\ conf_pc = "done" => MainChecked /\ RulesMerged(Last)

\* The scalar slots, with the same course of the merge.
SlotOf(b, s) ==
  R!Initialised(given.conf[R!Nearest(b, S!WithSlot(s))].slots[s], S!Default(s))
SlotsMerged(k) ==
  ctx.enable = "on" => \A i \in 1 .. k : \A s \in ScalarSlots :
    \/ \E a \in S!RuleArrays : S!CheckOf(a) = s
         /\ \E c \in S!WithRules(a) : given.conf[c].slots[s] = "unset"
    \/ conf[Order[i]].slots[s] = SlotOf(Order[i], s)

SlotsInv ==
  /\ Laid(conf)
  /\ conf_pc = "parse" => todo = Order
  /\ conf_pc = "init" => todo = Order /\ given.conf = conf
  /\ conf_pc = "merge" =>
       \E k \in 0 .. Last : todo = SubSeq(Order, k + 1, Last) /\ AsGiven(k) /\ SlotsMerged(k)
  /\ conf_pc = "done" => SlotsMerged(Last)

ConfInv ==
  /\ subject \in {"zones", "rules", "slots"}
  /\ subject = "rules" => RulesInv
  /\ subject = "slots" => SlotsInv

LEMMA SlotsChange ==
  ASSUME NEW c, Ruled(c), NoneInHttp(c), NEW o \in R!Blocks, NEW x, NEW d,
         d = [c EXCEPT ![o] = [slots |-> x, arrays |-> c[o].arrays]]
  PROVE  Ruled(d) /\ NoneInHttp(d) /\ Laid(d)
<1>1. \A b \in R!Blocks : c[b] = [slots |-> c[b].slots, arrays |-> c[b].arrays] BY DEF Ruled
<1>2. DOMAIN c = R!Blocks BY DEF Ruled
<1>3. \A b \in R!Blocks : d[b] = IF b = o THEN [slots |-> x, arrays |-> c[o].arrays] ELSE c[b]
  BY <1>2
<1>4. \A b \in R!Blocks : d[b].arrays = c[b].arrays
                          /\ d[b] = [slots |-> d[b].slots, arrays |-> d[b].arrays]
  <2> TAKE b \in R!Blocks
  <2>1. CASE b = o BY <1>3, <2>1
  <2>2. CASE b # o
    <3>1. d[b] = c[b] BY <1>3, <2>2
    <3> QED BY <1>1, <3>1
  <2> QED BY <2>1, <2>2
<1>5. d = [b \in R!Blocks |-> d[b]] BY <1>2
<1>6. d = [b \in R!Blocks |-> [slots |-> d[b].slots, arrays |-> d[b].arrays]] BY <1>4, <1>5
<1>7. "http" \in R!Blocks BY OrderFacts
<1> QED BY <1>4, <1>5, <1>6, <1>7 DEF Ruled, NoneInHttp, Laid

LEMMA ArrayChange ==
  ASSUME NEW c, Ruled(c), NoneInHttp(c), NEW o \in R!Blocks, NEW a \in R!Arrays,
         o = "http" => a = "filter_vars", NEW r \in RuleSet, NEW d,
         d = [c EXCEPT ![o] = [slots |-> c[o].slots,
                               arrays |-> [c[o].arrays EXCEPT ![a] = Append(c[o].arrays[a], r)]]]
  PROVE  Ruled(d) /\ NoneInHttp(d) /\ Laid(d)
<1> DEFINE x == [c[o].arrays EXCEPT ![a] = Append(c[o].arrays[a], r)]
<1>1. \A b \in R!Blocks : c[b] = [slots |-> c[b].slots, arrays |-> c[b].arrays] BY DEF Ruled
<1>2. DOMAIN c = R!Blocks BY DEF Ruled
<1>3. c[o].arrays \in [R!Arrays -> Seq(RuleSet)] BY DEF Ruled
<1>4. x \in [R!Arrays -> Seq(RuleSet)]
  <2>1. c[o].arrays[a] \in Seq(RuleSet) BY <1>3
  <2>2. Append(c[o].arrays[a], r) \in Seq(RuleSet) BY <2>1
  <2> QED BY <1>3, <2>2
<1>5. \A e \in R!Arrays : e # a => x[e] = c[o].arrays[e] BY <1>3
<1> HIDE DEF x
<1>6. \A b \in R!Blocks : d[b] = IF b = o THEN [slots |-> c[o].slots, arrays |-> x] ELSE c[b]
  BY <1>2 DEF x
<1>7. \A b \in R!Blocks : d[b].arrays = (IF b = o THEN x ELSE c[b].arrays)
                          /\ d[b] = [slots |-> d[b].slots, arrays |-> d[b].arrays]
  <2> TAKE b \in R!Blocks
  <2>1. CASE b = o
    <3>1. d[b] = [slots |-> c[o].slots, arrays |-> x] BY <1>6, <2>1
    <3>2. d[b].slots = c[o].slots /\ d[b].arrays = x BY <3>1
    <3>3. d[b] = [slots |-> d[b].slots, arrays |-> d[b].arrays] BY <3>1
    <3> QED BY <2>1, <3>2, <3>3
  <2>2. CASE b # o
    <3>1. d[b] = c[b] BY <1>6, <2>2
    <3> QED BY <1>1, <2>2, <3>1
  <2> QED BY <2>1, <2>2
<1>8. d = [b \in R!Blocks |-> d[b]] BY <1>2
<1>9. d = [b \in R!Blocks |-> [slots |-> d[b].slots, arrays |-> d[b].arrays]] BY <1>7, <1>8
<1>10. \A b \in R!Blocks : d[b].arrays \in [R!Arrays -> Seq(RuleSet)] BY <1>4, <1>7 DEF Ruled
<1>11. \A e \in R!RuleArrays : d["http"].arrays[e] = <<>>
  <2> SUFFICES ASSUME NEW e \in R!RuleArrays PROVE d["http"].arrays[e] = <<>> OBVIOUS
  <2>1. "http" \in R!Blocks /\ e \in R!Arrays /\ e # "filter_vars"
    BY OrderFacts DEF R!RuleArrays
  <2>2. CASE o = "http" BY <1>5, <1>7, <2>1, <2>2 DEF NoneInHttp
  <2>3. CASE o # "http" BY <1>7, <2>1, <2>3 DEF NoneInHttp
  <2> QED BY <2>2, <2>3
<1> QED BY <1>8, <1>9, <1>10, <1>11 DEF Ruled, NoneInHttp, Laid

\* The directives, before the end of the file.
LEMMA RulesParse ==
  ASSUME RulesInv, conf_pc = "parse", UNCHANGED <<unread, todo>>,
         \/ conf_pc' = "failed" /\ UNCHANGED <<open, conf>>
         \/ conf_pc' = "parse" /\ open' \in R!Blocks /\ Ruled(conf') /\ NoneInHttp(conf')
            /\ Laid(conf') /\ RulesIn(ctx')
  PROVE  RulesInv'
BY DEF RulesInv, Laid, Ruled, NoneInHttp, RulesIn

LEMMA RulesSetSlot ==
  ASSUME RulesInv, NEW s, NEW v, R!SetSlot(s, v)
  PROVE  RulesInv'
<1>1. conf_pc = "parse" /\ UNCHANGED <<open, unread, todo>> BY DEF R!SetSlot, R!Directive
<1>2. Ruled(conf) /\ NoneInHttp(conf) /\ RulesIn(ctx) /\ open \in R!Blocks
  BY <1>1 DEF RulesInv
<1>3. CASE R!Fail BY <1>1, <1>3, RulesParse DEF R!Fail
<1>4. CASE conf' = [conf EXCEPT ![open].slots[s] = v] /\ UNCHANGED <<conf_pc, ctx>>
  <2>1. conf[open] = [slots |-> conf[open].slots, arrays |-> conf[open].arrays]
    BY <1>2 DEF Ruled
  <2>2. conf' = [conf EXCEPT ![open] = [slots |-> [conf[open].slots EXCEPT ![s] = v],
                                        arrays |-> conf[open].arrays]]
    <3>1. [conf[open] EXCEPT !.slots[s] = v]
            = [slots |-> [conf[open].slots EXCEPT ![s] = v], arrays |-> conf[open].arrays]
      BY <2>1
    <3> QED BY <1>4, <3>1
  <2>3. Ruled(conf') /\ NoneInHttp(conf') /\ Laid(conf') BY <1>2, <2>2, SlotsChange
  <2> QED BY <1>1, <1>2, <1>4, <2>3, RulesParse
<1> QED BY <1>3, <1>4 DEF R!SetSlot

LEMMA RulesAverage ==
  ASSUME RulesInv, NEW m, NEW p, R!AverageMethod(m, p)
  PROVE  RulesInv'
<1>1. conf_pc = "parse" /\ UNCHANGED <<open, unread, todo>> BY DEF R!AverageMethod, R!Directive
<1>2. Ruled(conf) /\ NoneInHttp(conf) /\ RulesIn(ctx) /\ open \in R!Blocks
  BY <1>1 DEF RulesInv
<1>3. CASE R!Fail BY <1>1, <1>3, RulesParse DEF R!Fail
<1>4. CASE ~R!Fail
  <2>1. conf[open] = [slots |-> conf[open].slots, arrays |-> conf[open].arrays]
    BY <1>2 DEF Ruled
  <2>2. PICK x : conf' = [conf EXCEPT ![open].slots = x] /\ UNCHANGED <<conf_pc, ctx>>
    BY <1>4 DEF R!AverageMethod
  <2>3. conf' = [conf EXCEPT ![open] = [slots |-> x, arrays |-> conf[open].arrays]]
    <3>1. [conf[open] EXCEPT !.slots = x] = [slots |-> x, arrays |-> conf[open].arrays]
      BY <2>1
    <3> QED BY <2>2, <3>1
  <2>4. Ruled(conf') /\ NoneInHttp(conf') /\ Laid(conf') BY <1>2, <2>3, SlotsChange
  <2> QED BY <1>1, <1>2, <2>2, <2>4, RulesParse
<1> QED BY <1>3, <1>4

LEMMA RulesHistogram ==
  ASSUME RulesInv, NEW v, R!HistogramBuckets(v)
  PROVE  RulesInv'
<1>1. conf_pc = "parse" /\ UNCHANGED <<open, unread, todo>>
  BY DEF R!HistogramBuckets, R!Directive
<1>2. Ruled(conf) /\ NoneInHttp(conf) /\ RulesIn(ctx) /\ open \in R!Blocks
  BY <1>1 DEF RulesInv
<1>3. CASE R!Fail BY <1>1, <1>3, RulesParse DEF R!Fail
<1>4. CASE conf' = [conf EXCEPT ![open].slots["histogram_buckets"] = v] /\ UNCHANGED <<conf_pc, ctx>>
  <2>1. conf[open] = [slots |-> conf[open].slots, arrays |-> conf[open].arrays]
    BY <1>2 DEF Ruled
  <2>2. conf' = [conf EXCEPT ![open] =
                   [slots |-> [conf[open].slots EXCEPT !["histogram_buckets"] = v],
                    arrays |-> conf[open].arrays]]
    <3>1. [conf[open] EXCEPT !.slots["histogram_buckets"] = v]
            = [slots |-> [conf[open].slots EXCEPT !["histogram_buckets"] = v],
               arrays |-> conf[open].arrays]
      BY <2>1
    <3> QED BY <1>4, <3>1
  <2>3. Ruled(conf') /\ NoneInHttp(conf') /\ Laid(conf') BY <1>2, <2>2, SlotsChange
  <2> QED BY <1>1, <1>2, <1>4, <2>3, RulesParse
<1> QED BY <1>3, <1>4 DEF R!HistogramBuckets

LEMMA RulesAddRule ==
  ASSUME RulesInv, NEW arg \in Rules, R!AddRule(arg[1], arg[2])
  PROVE  RulesInv'
<1> DEFINE a == arg[1]
           r == arg[2]
<1>0. a \in R!Arrays /\ r \in RuleSet BY RulesAssumption DEF R!Arrays, RuleSet
<1>1. conf_pc = "parse" /\ UNCHANGED <<open, unread, todo>> BY DEF R!AddRule, R!Directive
<1>2. Ruled(conf) /\ NoneInHttp(conf) /\ RulesIn(ctx) /\ open \in R!Blocks /\ Laid(conf)
  BY <1>1 DEF RulesInv
<1>3. CASE R!Fail BY <1>1, <1>3, RulesParse DEF R!Fail
<1>4. CASE /\ R!InMain(a)
           /\ ctx' = [ctx EXCEPT !.arrays[a] = Append(@, r)] /\ UNCHANGED <<conf_pc, conf>>
  <2>1. RulesIn(ctx')
    <3>1. DOMAIN ctx' = DOMAIN ctx BY <1>4
    <3>2. ctx'.arrays = [ctx.arrays EXCEPT ![a] = Append(ctx.arrays[a], r)]
      BY <1>2, <1>4 DEF RulesIn
    <3>3. ctx.arrays[a] \in Seq(RuleSet) BY <1>0, <1>2 DEF RulesIn
    <3>4. Append(ctx.arrays[a], r) \in Seq(RuleSet) BY <1>0, <3>3
    <3> QED BY <1>2, <3>1, <3>2, <3>4 DEF RulesIn
  <2>2. conf' = conf /\ conf_pc' = "parse" BY <1>1, <1>4
  <2>3. Ruled(conf') /\ NoneInHttp(conf') /\ Laid(conf') BY <1>2, <2>2
  <2> QED BY <1>1, <1>2, <2>1, <2>2, <2>3, RulesParse
<1>5. CASE /\ ~R!InMain(a)
           /\ conf' = [conf EXCEPT ![open].arrays[a] = Append(@, r)]
           /\ UNCHANGED <<conf_pc, ctx>>
  <2>1. conf[open] = [slots |-> conf[open].slots, arrays |-> conf[open].arrays]
    BY <1>2 DEF Ruled
  <2>2. conf' = [conf EXCEPT ![open] =
                   [slots |-> conf[open].slots,
                    arrays |-> [conf[open].arrays EXCEPT ![a] = Append(conf[open].arrays[a], r)]]]
    <3>1. [conf[open] EXCEPT !.arrays[a] = Append(conf[open].arrays[a], r)]
            = [slots |-> conf[open].slots,
               arrays |-> [conf[open].arrays EXCEPT ![a] = Append(conf[open].arrays[a], r)]]
      BY <2>1
    <3> QED BY <1>5, <3>1
  <2>3. open = "http" => a = "filter_vars" BY <1>5, OrderFacts DEF R!InMain
  <2>4. Ruled(conf') /\ NoneInHttp(conf') /\ Laid(conf')
    BY <1>0, <1>2, <2>2, <2>3, ArrayChange
  <2> QED BY <1>1, <1>2, <1>5, <2>4, RulesParse
<1> QED BY <1>3, <1>4, <1>5 DEF R!AddRule

LEMMA RulesZone ==
  ASSUME RulesInv, R!Zone
  PROVE  RulesInv'
<1>1. conf_pc = "parse" /\ UNCHANGED <<open, unread, todo, conf>> BY DEF R!Zone, R!Fail
<1>2. Ruled(conf) /\ NoneInHttp(conf) /\ RulesIn(ctx) /\ open \in R!Blocks /\ Laid(conf)
  BY <1>1 DEF RulesInv
<1>3. CASE R!Fail BY <1>1, <1>3, RulesParse DEF R!Fail
<1>4. CASE ctx' = [ctx EXCEPT !.enable = "on"] /\ UNCHANGED <<conf_pc, conf>>
  <2>1. RulesIn(ctx') BY <1>2, <1>4 DEF RulesIn
  <2>2. conf' = conf /\ conf_pc' = "parse" BY <1>1, <1>4
  <2>3. Ruled(conf') /\ NoneInHttp(conf') /\ Laid(conf') BY <1>2, <2>2
  <2> QED BY <1>1, <1>2, <2>1, <2>2, <2>3, RulesParse
<1> QED BY <1>3, <1>4 DEF R!Zone

LEMMA RulesOpen ==
  ASSUME RulesInv, NEW b \in unread, R!Open(b)
  PROVE  RulesInv'
BY DEF RulesInv, R!Open, Laid, Ruled, NoneInHttp, RulesIn

LEMMA RulesClose ==
  ASSUME RulesInv, R!Close
  PROVE  RulesInv'
<1>1. conf_pc = "parse" /\ UNCHANGED <<unread, conf, ctx, todo>> BY DEF R!Close
<1>2. /\ Ruled(conf) /\ NoneInHttp(conf) /\ RulesIn(ctx) /\ open \in R!Blocks /\ Laid(conf)
      /\ unread \subseteq R!Blocks /\ todo = Order
  BY <1>1 DEF RulesInv
<1>3. CASE open # R!Http /\ open' = Parent[open] /\ UNCHANGED <<conf_pc, given>>
  <2>1. PICK i \in 1 .. Last : open = Order[i] BY <1>2, <1>3, OrderFacts
  <2>2. Parent[open] \in Until(i - 1) BY <2>1, OrderFacts
  <2>3. \A j \in 1 .. i - 1 : j \in 1 .. Last BY OrderFacts
  <2>4. open' \in R!Blocks BY <1>3, <2>2, <2>3, OrderFacts DEF Until
  <2> QED BY <1>1, <1>2, <1>3, <2>4 DEF RulesInv, Laid, Ruled, NoneInHttp, RulesIn
<1>4. CASE /\ open = R!Http /\ conf_pc' = "init"
           /\ given' = [conf |-> conf, ctx |-> ctx] /\ UNCHANGED open
  <2>1. given'.conf = conf /\ given'.ctx = ctx BY <1>4
  <2> QED BY <1>1, <1>2, <1>4, <2>1 DEF RulesInv, Laid, Ruled, NoneInHttp, RulesIn
<1> QED BY <1>3, <1>4 DEF R!Close

LEMMA WholeOrder == SubSeq(Order, 1, Last) = Order
<1>1. Order \in Seq(STRING) BY BlocksAssumption
<1> QED BY <1>1 DEF Last

LEMMA RulesInitMain ==
  ASSUME RulesInv, R!InitMain
  PROVE  RulesInv'
<1>1. /\ conf_pc = "init" /\ UNCHANGED <<open, unread, conf, todo, given>>
      /\ conf_pc' \in {"crashed", "merge"}
  BY DEF R!InitMain
<1>2. /\ Ruled(given.conf) /\ NoneInHttp(given.conf) /\ RulesIn(given.ctx)
      /\ open \in R!Blocks /\ unread \subseteq R!Blocks /\ Laid(conf)
      /\ todo = Order /\ given.conf = conf /\ given.ctx = ctx
  BY <1>1 DEF RulesInv
<1>3. CASE conf_pc' = "crashed"
  BY <1>1, <1>2, <1>3 DEF RulesInv, Laid
<1>4. CASE conf_pc' = "merge"
  <2> DEFINE check(a) == IF a = "filter_vars" THEN "off" ELSE conf[R!Http].slots[R!CheckOf(a)]
             outcomes(a) == R!Checked(ctx.arrays[a], check(a))
  <2>1. PICK fk \in outcomes("filter_keys"), lt \in outcomes("limit_traffics"),
             lf \in outcomes("limit_filter_traffics") :
          /\ ctx'.filter_check_duplicate = conf[R!Http].slots["filter_check_duplicate"]
          /\ ctx'.limit_check_duplicate = conf[R!Http].slots["limit_check_duplicate"]
          /\ ctx'.arrays = [ctx.arrays EXCEPT !["filter_keys"] = fk,
                              !["limit_traffics"] = lt, !["limit_filter_traffics"] = lf]
    <3>1. \E fk \in outcomes("filter_keys"), lt \in outcomes("limit_traffics"),
             lf \in outcomes("limit_filter_traffics") :
             ctx' = [enable |-> R!Initialised(ctx.enable, "off"),
                     dump |-> R!Initialised(ctx.dump, "off"),
                     dump_period |-> R!Initialised(ctx.dump_period, "default"),
                     filter_max_node |-> R!Initialised(ctx.filter_max_node, "0"),
                     matches |-> ctx.matches,
                     filter_check_duplicate |-> conf[R!Http].slots["filter_check_duplicate"],
                     limit_check_duplicate |-> conf[R!Http].slots["limit_check_duplicate"],
                     arrays |-> [ctx.arrays EXCEPT !["filter_keys"] = fk,
                                   !["limit_traffics"] = lt, !["limit_filter_traffics"] = lf]]
      BY <1>4 DEF R!InitMain
    <3> HIDE DEF outcomes
    <3>2. PICK fk \in outcomes("filter_keys"), lt \in outcomes("limit_traffics"),
             lf \in outcomes("limit_filter_traffics") :
             ctx' = [enable |-> R!Initialised(ctx.enable, "off"),
                     dump |-> R!Initialised(ctx.dump, "off"),
                     dump_period |-> R!Initialised(ctx.dump_period, "default"),
                     filter_max_node |-> R!Initialised(ctx.filter_max_node, "0"),
                     matches |-> ctx.matches,
                     filter_check_duplicate |-> conf[R!Http].slots["filter_check_duplicate"],
                     limit_check_duplicate |-> conf[R!Http].slots["limit_check_duplicate"],
                     arrays |-> [ctx.arrays EXCEPT !["filter_keys"] = fk,
                                   !["limit_traffics"] = lt, !["limit_filter_traffics"] = lf]]
      BY <3>1
    <3> QED BY <3>2
  <2>2. ctx.arrays \in [R!Arrays -> Seq(RuleSet)] BY <1>2 DEF RulesIn
  <2>3. \A a \in R!RuleArrays : ctx'.arrays[a] \in outcomes(a)
    <3> HIDE DEF outcomes
    <3>1. R!RuleArrays = {"filter_keys", "limit_traffics", "limit_filter_traffics"}
      BY DEF R!RuleArrays, R!Arrays
    <3>2. DOMAIN ctx.arrays = R!Arrays BY <2>2
    <3>3. ctx'.arrays["filter_keys"] = fk /\ ctx'.arrays["limit_traffics"] = lt
          /\ ctx'.arrays["limit_filter_traffics"] = lf
      BY <2>1, <3>2 DEF R!Arrays
    <3> QED BY <2>1, <3>1, <3>3
  <2>4. \A a \in R!RuleArrays : a # "filter_vars" BY DEF R!RuleArrays
  <2>5. MainChecked' BY <1>1, <1>2, <2>1, <2>3, <2>4, OrderFacts DEF MainChecked
  <2>6. 0 \in 0 .. Last /\ todo' = SubSeq(Order, 0 + 1, Last)
    BY <1>1, <1>2, WholeOrder, OrderFacts
  <2>7. AsGiven(0)' /\ RulesMerged(0)'
    <3>1. \A i \in 1 .. Last : conf'[Order[i]] = given'.conf[Order[i]] BY <1>1, <1>2
    <3>2. conf'["http"] = given'.conf["http"] BY <1>1, <1>2
    <3>3. 1 .. 0 = {} OBVIOUS
    <3>4. RulesMerged(0)' BY <3>3 DEF RulesMerged
    <3>5. AsGiven(0)' BY <3>1, <3>2 DEF AsGiven
    <3> QED BY <3>4, <3>5
  <2>8. /\ Ruled(given'.conf) /\ NoneInHttp(given'.conf) /\ RulesIn(given'.ctx)
        /\ open' \in R!Blocks /\ unread' \subseteq R!Blocks /\ Laid(conf')
    BY <1>1, <1>2
  <2> QED BY <1>4, <2>5, <2>6, <2>7, <2>8 DEF RulesInv, Laid, Ruled, NoneInHttp, RulesIn
<1> QED BY <1>1, <1>3, <1>4

LEMMA RestOfOrder ==
  ASSUME NEW k \in 0 .. Last, NEW rest, rest = SubSeq(Order, k + 1, Last)
  PROVE  /\ rest = <<>> => k = Last
         /\ rest # <<>> => /\ k + 1 \in 1 .. Last /\ Head(rest) = Order[k + 1]
                           /\ Tail(rest) = SubSeq(Order, (k + 1) + 1, Last)
<1>1. Order \in Seq(STRING) /\ Last \in Nat /\ Last = Len(Order)
  BY BlocksAssumption, OrderFacts DEF Last
<1>2. Len(rest) = Last - k /\ rest \in Seq(STRING)
      /\ \A i \in 1 .. Last - k : rest[i] = Order[k + i]
  BY <1>1
<1>3. CASE rest = <<>>
  <2>1. Len(<<>>) = 0 OBVIOUS
  <2>2. Len(rest) = 0 BY ONLY <1>3, <2>1
  <2> QED BY <1>1, <1>2, <1>3, <2>2
<1>4. CASE rest # <<>>
  <2>1. Len(rest) > 0 /\ k < Last BY <1>1, <1>2, <1>4
  <2>2. k + 1 \in 1 .. Last BY <1>1, <2>1
  <2>3. Head(rest) = Order[k + 1] BY <1>1, <1>2, <2>1
  <2> DEFINE t == SubSeq(Order, (k + 1) + 1, Last)
  <2>4. Tail(rest) \in Seq(STRING) /\ Len(Tail(rest)) = Last - (k + 1)
        /\ \A i \in 1 .. Last - (k + 1) : Tail(rest)[i] = rest[i + 1]
    BY <1>1, <1>2, <1>4
  <2>5. t \in Seq(STRING) /\ Len(t) = Last - (k + 1)
        /\ \A i \in 1 .. Last - (k + 1) : t[i] = Order[(k + 1) + i]
    BY <1>1, <2>1
  <2>6. \A i \in 1 .. Last - (k + 1) : Tail(rest)[i] = t[i]
    <3> TAKE i \in 1 .. Last - (k + 1)
    <3>1. i + 1 \in 1 .. Last - k /\ k + (i + 1) = (k + 1) + i BY <1>1
    <3>2. Tail(rest)[i] = rest[i + 1] BY <2>4
    <3>3. rest[i + 1] = Order[k + (i + 1)] BY <1>2, <3>1
    <3>4. t[i] = Order[(k + 1) + i] BY <2>5
    <3> HIDE DEF t
    <3> QED BY <3>1, <3>2, <3>3, <3>4
  <2> HIDE DEF t
  <2>7. Tail(rest) = t
    <3>1. DOMAIN Tail(rest) = 1 .. Last - (k + 1) /\ DOMAIN t = 1 .. Last - (k + 1)
      BY <2>4, <2>5
    <3>2. Tail(rest) = [i \in 1 .. Last - (k + 1) |-> Tail(rest)[i]] BY <2>4, <3>1
    <3>3. t = [i \in 1 .. Last - (k + 1) |-> t[i]] BY <2>5, <3>1
    <3> QED BY <2>6, <3>2, <3>3
  <2> QED BY <1>4, <2>2, <2>3, <2>7 DEF t
<1> QED BY <1>3, <1>4

\* The parent of a block is merged before it, or is the http block.
LEMMA ParentMerged ==
  ASSUME NEW k \in 0 .. Last, k + 1 \in 1 .. Last
  PROVE  \/ Parent[Order[k + 1]] = "http"
         \/ \E i \in 1 .. k : Parent[Order[k + 1]] = Order[i]
<1>1. Last \in Nat /\ (k + 1) - 1 = k BY OrderFacts
<1>2. Parent[Order[k + 1]] \in Until(k) BY <1>1, OrderFacts
<1> QED BY <1>2 DEF Until

LEMMA CheckedNone == \A flag : R!Checked(<<>>, flag) = {<<>>}
BY DEF R!Checked

\* One block: its own rules, checked under the flag it comes to have, or its parent's.
LEMMA MergeArray ==
  ASSUME NEW k \in 0 .. Last, k + 1 \in 1 .. Last, NEW a \in R!RuleArrays,
         Ruled(given.conf), NoneInHttp(given.conf), MainChecked, AsGiven(k),
         \A i \in 1 .. k : \A e \in R!RuleArrays :
           conf[Order[i]].arrays[e] \in Result(e, R!Nearest(Order[i], R!WithRules(e))),
         NEW b, b = Order[k + 1], NEW z,
         z \in (IF conf[b].arrays[a] = <<>> THEN {conf[Parent[b]].arrays[a]}
                ELSE R!Checked(conf[b].arrays[a],
                       IF a = "filter_vars" THEN "off" ELSE R!OwnSlots(b)[R!CheckOf(a)]))
  PROVE  z \in Result(a, R!Nearest(b, R!WithRules(a)))
<1>1. b \in R!Blocks /\ Last \in Nat BY OrderFacts
<1>2. conf[b] = given.conf[b]
  <2>1. k + 1 \in k + 1 .. Last BY <1>1
  <2> QED BY <2>1 DEF AsGiven
<1>3. a \in {"filter_keys", "limit_traffics", "limit_filter_traffics"}
  BY DEF R!RuleArrays, R!Arrays
<1>4. CASE conf[b].arrays[a] = <<>>
  <2>1. z = conf[Parent[b]].arrays[a] BY <1>4
  <2>2. b \notin R!WithRules(a) BY <1>2, <1>4 DEF R!WithRules
  <2>3. R!Nearest(b, R!WithRules(a)) = R!Nearest(Parent[b], R!WithRules(a)) BY <2>2, NearestUp
  <2>4. CASE Parent[b] = "http"
    <3>1. conf["http"] = given.conf["http"] BY DEF AsGiven
    <3>2. given.conf["http"].arrays[a] = <<>> BY DEF NoneInHttp
    <3>3. Result(a, "http") = {<<>>} BY <3>2, CheckedNone DEF Result
    <3> QED BY <2>1, <2>3, <2>4, <3>1, <3>2, <3>3, NearestHttp
  <2>5. CASE \E i \in 1 .. k : Parent[b] = Order[i]
    <3>1. PICK i \in 1 .. k : Parent[b] = Order[i] BY <2>5
    <3>2. conf[Order[i]].arrays[a] \in Result(a, R!Nearest(Order[i], R!WithRules(a))) OBVIOUS
    <3> QED BY <2>1, <2>3, <3>1, <3>2
  <2> QED BY <2>4, <2>5, ParentMerged
<1>5. CASE conf[b].arrays[a] # <<>>
  <2>1. b \in R!WithRules(a) BY <1>1, <1>2, <1>5 DEF R!WithRules
  <2>2. R!Nearest(b, R!WithRules(a)) = b BY <2>1, NearestOwn
  <2> DEFINE c == R!CheckOf(a)
  <2>3. z \in R!Checked(given.conf[b].arrays[a], R!OwnSlots(b)[c])
    BY <1>2, <1>3, <1>5
  <2>4. c \in RuleSlots BY <1>3, ConfAssumption DEF R!CheckOf, Checks
  <2>5. R!OwnSlots(b)[c] = Flag(c, b)
    <3>1. CASE conf[b].slots[c] # R!Unset
      BY <1>2, <2>4, <3>1 DEF R!OwnSlots, Flag, R!Unset
    <3>2. CASE conf[b].slots[c] = R!Unset
      <4>1. Flag(c, b) = given.conf["http"].slots[c] BY <1>2, <3>2 DEF Flag, R!Unset
      <4>2. CASE a = "filter_keys"
        <5>1. c = "filter_check_duplicate" BY <4>2 DEF R!CheckOf
        <5>2. R!OwnSlots(b)[c] = ctx.filter_check_duplicate
          BY <1>5, <2>4, <3>2, <4>2, <5>1 DEF R!OwnSlots
        <5> QED BY <4>1, <5>1, <5>2 DEF MainChecked
      <4>3. CASE a # "filter_keys"
        <5>1. c = "limit_check_duplicate" BY <4>3 DEF R!CheckOf
        <5>2. <<conf[b].arrays["limit_traffics"], conf[b].arrays["limit_filter_traffics"]>>
                # <<<<>>, <<>>>>
          BY <1>3, <1>5, <4>3
        <5>3. R!OwnSlots(b)[c] = ctx.limit_check_duplicate
          BY <2>4, <3>2, <5>1, <5>2 DEF R!OwnSlots
        <5> QED BY <4>1, <5>1, <5>3 DEF MainChecked
      <4> QED BY <4>2, <4>3
    <3> QED BY <3>1, <3>2
  <2> QED BY <2>2, <2>3, <2>5 DEF Result
<1> QED BY <1>4, <1>5

LEMMA RulesMerge ==
  ASSUME RulesInv, R!Merge
  PROVE  RulesInv'
<1>1. /\ conf_pc = "merge" /\ todo # <<>> /\ todo' = Tail(todo)
      /\ UNCHANGED <<open, unread, ctx, given>>
  BY DEF R!Merge
<1>2. /\ Ruled(given.conf) /\ NoneInHttp(given.conf) /\ RulesIn(given.ctx)
      /\ open \in R!Blocks /\ unread \subseteq R!Blocks /\ Laid(conf) /\ MainChecked
  BY <1>1 DEF RulesInv
<1>3. PICK k \in 0 .. Last : todo = SubSeq(Order, k + 1, Last) /\ AsGiven(k) /\ RulesMerged(k)
  BY <1>1 DEF RulesInv
<1> DEFINE b == Head(todo)
<1>4. /\ k + 1 \in 1 .. Last /\ b = Order[k + 1]
      /\ todo' = SubSeq(Order, (k + 1) + 1, Last)
  BY <1>1, <1>3, RestOfOrder
<1>5. b \in R!Blocks /\ b # "http" /\ Last \in Nat BY <1>4, OrderFacts
<1>6. \A i \in 1 .. Last : i # k + 1 => Order[i] # b /\ Order[i] \in R!Blocks
  BY <1>4, OrderFacts
<1>7. MainChecked' BY <1>1, <1>2 DEF MainChecked
<1>8. ASSUME NEW z, conf' = [conf EXCEPT ![b] = z] PROVE Laid(conf') /\ AsGiven(k + 1)'
             /\ conf'[b] = z /\ \A i \in 1 .. Last : i # k + 1 => conf'[Order[i]] = conf[Order[i]]
  <2>1. DOMAIN conf = R!Blocks BY <1>2 DEF Laid
  <2>2. \A i \in 1 .. Last : i # k + 1 => conf'[Order[i]] = conf[Order[i]]
    BY <1>6, <1>8, <2>1
  <2>3. conf'["http"] = conf["http"] BY <1>5, <1>8, <2>1, OrderFacts
  <2>4. conf'[b] = z BY <1>5, <1>8, <2>1
  <2>5. Laid(conf') BY <1>8, <2>1 DEF Laid
  <2>6. \A i \in (k + 1) + 1 .. Last : i \in 1 .. Last /\ i # k + 1 /\ i \in k + 1 .. Last
    BY <1>5
  <2>7. AsGiven(k + 1)' BY <1>1, <1>3, <2>2, <2>3, <2>6 DEF AsGiven
  <2> QED BY <2>2, <2>4, <2>5, <2>7
<1>9. CASE ctx.enable = "off" /\ UNCHANGED <<conf_pc, conf>>
  <2>1. RulesMerged(k + 1)' BY <1>1, <1>9 DEF RulesMerged
  <2>2. AsGiven(k + 1)'
    <3>1. \A i \in (k + 1) + 1 .. Last : i \in k + 1 .. Last BY <1>5
    <3> QED BY <1>1, <1>3, <1>9, <3>1 DEF AsGiven
  <2>3. k + 1 \in 0 .. Last /\ conf_pc' = "merge" BY <1>1, <1>5, <1>4, <1>9
  <2>4. Laid(conf') BY <1>2, <1>9
  <2> QED BY <1>1, <1>2, <1>4, <1>7, <2>1, <2>2, <2>3, <2>4
      DEF RulesInv, Ruled, NoneInHttp, RulesIn
<1>10. CASE conf_pc' = "crashed" /\ UNCHANGED conf
  BY <1>1, <1>2, <1>10 DEF RulesInv, Laid
<1>11. CASE ~(ctx.enable = "off" /\ UNCHANGED <<conf_pc, conf>>)
            /\ ~(conf_pc' = "crashed" /\ UNCHANGED conf)
  <2> DEFINE own == R!OwnSlots(b)
             prev == R!Previous(b)
             outcomes(a) ==
               IF conf[b].arrays[a] = <<>> THEN {prev.arrays[a]}
               ELSE R!Checked(conf[b].arrays[a],
                      IF a = "filter_vars" THEN "off" ELSE own[R!CheckOf(a)])
  <2>1. /\ ctx.enable = "on" /\ UNCHANGED conf_pc
        /\ \E fk \in outcomes("filter_keys"), lt \in outcomes("limit_traffics"),
              lf \in outcomes("limit_filter_traffics"), fv \in outcomes("filter_vars") :
             conf' = [conf EXCEPT ![b] =
               [slots |-> [s \in RuleSlots |->
                   R!Initialised(own[s], R!Initialised(prev.slots[s], R!Default(s)))],
                arrays |-> [a \in R!Arrays |->
                   CASE a = "filter_keys" -> fk [] a = "limit_traffics" -> lt
                     [] a = "limit_filter_traffics" -> lf [] OTHER -> fv]]]
    BY <1>11 DEF R!Merge
  <2> HIDE DEF outcomes
  <2>2. PICK fk \in outcomes("filter_keys"), lt \in outcomes("limit_traffics"),
             lf \in outcomes("limit_filter_traffics"), fv \in outcomes("filter_vars") :
             conf' = [conf EXCEPT ![b] =
               [slots |-> [s \in RuleSlots |->
                   R!Initialised(own[s], R!Initialised(prev.slots[s], R!Default(s)))],
                arrays |-> [a \in R!Arrays |->
                   CASE a = "filter_keys" -> fk [] a = "limit_traffics" -> lt
                     [] a = "limit_filter_traffics" -> lf [] OTHER -> fv]]]
    BY <2>1
  <2> DEFINE x == [s \in RuleSlots |->
                     R!Initialised(own[s], R!Initialised(prev.slots[s], R!Default(s)))]
             y == [a \in R!Arrays |->
                     CASE a = "filter_keys" -> fk [] a = "limit_traffics" -> lt
                       [] a = "limit_filter_traffics" -> lf [] OTHER -> fv]
  <2>3. conf' = [conf EXCEPT ![b] = [slots |-> x, arrays |-> y]] BY <2>2
  <2>4. y["filter_keys"] = fk /\ y["limit_traffics"] = lt /\ y["limit_filter_traffics"] = lf
    BY DEF R!Arrays
  <2> HIDE DEF x, y
  <2>5. /\ Laid(conf') /\ AsGiven(k + 1)'
        /\ conf'[b] = [slots |-> x, arrays |-> y]
        /\ \A i \in 1 .. Last : i # k + 1 => conf'[Order[i]] = conf[Order[i]]
    BY <1>8, <2>3
  <2>6. \A a \in R!RuleArrays : conf'[b].arrays[a] \in outcomes(a)
    <3>1. R!RuleArrays = {"filter_keys", "limit_traffics", "limit_filter_traffics"}
      BY DEF R!RuleArrays, R!Arrays
    <3>2. conf'[b].arrays = y BY <2>5
    <3> QED BY <2>2, <2>4, <3>1, <3>2
  <2>7. \A i \in 1 .. k : \A a \in R!RuleArrays :
          conf[Order[i]].arrays[a] \in Result(a, R!Nearest(Order[i], R!WithRules(a)))
    BY <1>3, <2>1 DEF RulesMerged
  <2>8. \A a \in R!RuleArrays : conf'[b].arrays[a] \in Result(a, R!Nearest(b, R!WithRules(a)))
    <3> TAKE a \in R!RuleArrays
    <3>1. conf'[b].arrays[a] \in
            (IF conf[b].arrays[a] = <<>> THEN {conf[Parent[b]].arrays[a]}
             ELSE R!Checked(conf[b].arrays[a],
                    IF a = "filter_vars" THEN "off" ELSE R!OwnSlots(b)[R!CheckOf(a)]))
      BY <2>6 DEF outcomes, R!Previous
    <3> QED BY <1>2, <1>3, <1>4, <2>7, <3>1, MergeArray
  <2>9. RulesMerged(k + 1)'
    <3> SUFFICES ASSUME NEW i \in 1 .. k + 1, NEW a \in R!RuleArrays
                 PROVE  conf'[Order[i]].arrays[a] \in
                          Result(a, R!Nearest(Order[i], R!WithRules(a)))'
      BY DEF RulesMerged
    <3>1. Result(a, R!Nearest(Order[i], R!WithRules(a)))'
            = Result(a, R!Nearest(Order[i], R!WithRules(a)))
      BY <1>1 DEF Result, Flag, R!WithRules
    <3>2. CASE i = k + 1
      <4>1. Order[i] = b BY <1>4, <3>2
      <4> QED BY <2>8, <3>1, <4>1
    <3>3. CASE i # k + 1
      <4>1. i \in 1 .. k /\ i \in 1 .. Last BY <1>5, <3>3
      <4>2. conf'[Order[i]] = conf[Order[i]] BY <2>5, <3>3, <4>1
      <4> QED BY <2>7, <3>1, <4>1, <4>2
    <3> QED BY <3>2, <3>3
  <2>10. k + 1 \in 0 .. Last /\ conf_pc' = "merge" BY <1>1, <1>4, <1>5, <2>1
  <2> QED BY <1>1, <1>2, <1>4, <1>7, <2>5, <2>9, <2>10
      DEF RulesInv, Ruled, NoneInHttp, RulesIn
<1> QED BY <1>9, <1>10, <1>11

LEMMA RulesEnd ==
  ASSUME RulesInv, R!Merged
  PROVE  RulesInv'
<1>1. /\ conf_pc = "merge" /\ todo = <<>> /\ conf_pc' = "done"
      /\ UNCHANGED <<open, unread, conf, ctx, given>>
  BY DEF R!Merged
<1>2. /\ Ruled(given.conf) /\ NoneInHttp(given.conf) /\ RulesIn(given.ctx)
      /\ open \in R!Blocks /\ unread \subseteq R!Blocks /\ Laid(conf) /\ MainChecked
  BY <1>1 DEF RulesInv
<1>3. PICK k \in 0 .. Last : todo = SubSeq(Order, k + 1, Last) /\ AsGiven(k) /\ RulesMerged(k)
  BY <1>1 DEF RulesInv
<1>4. k = Last BY <1>1, <1>3, RestOfOrder
<1>5. MainChecked' BY <1>1, <1>2 DEF MainChecked
<1>6. RulesMerged(Last)'
  BY <1>1, <1>3, <1>4 DEF RulesMerged, Result, Flag, R!WithRules
<1> QED BY <1>1, <1>2, <1>5, <1>6 DEF RulesInv, Laid, Ruled, NoneInHttp, RulesIn

\* Steps that are not of the configuration.
LEMMA RulesStay ==
  ASSUME RulesInv, UNCHANGED confVars
  PROVE  RulesInv'
<1>1. UNCHANGED <<conf_pc, open, unread, conf, ctx, todo, given>> BY DEF confVars
<1>2. Laid(conf)' = Laid(conf) BY <1>1 DEF Laid
<1>3. MainChecked' = MainChecked BY <1>1 DEF MainChecked
<1>4. ASSUME NEW k PROVE AsGiven(k)' = AsGiven(k) /\ RulesMerged(k)' = RulesMerged(k)
  BY <1>1 DEF AsGiven, RulesMerged, Result, Flag, R!WithRules
<1>5. conf_pc = "merge" =>
        (\E k \in 0 .. Last : todo = SubSeq(Order, k + 1, Last) /\ AsGiven(k) /\ RulesMerged(k))'
  <2> SUFFICES ASSUME conf_pc = "merge"
               PROVE  (\E k \in 0 .. Last : todo = SubSeq(Order, k + 1, Last)
                                             /\ AsGiven(k) /\ RulesMerged(k))'
    OBVIOUS
  <2>1. PICK k \in 0 .. Last : todo = SubSeq(Order, k + 1, Last) /\ AsGiven(k) /\ RulesMerged(k)
    BY DEF RulesInv
  <2> QED BY <1>1, <1>4, <2>1
<1>6. RulesMerged(Last)' = RulesMerged(Last) BY <1>4
<1> QED BY <1>1, <1>2, <1>3, <1>5, <1>6 DEF RulesInv, Ruled, NoneInHttp, RulesIn

LEMMA RulesNext ==
  ASSUME RulesInv, R!Next
  PROVE  RulesInv'
<1>1. ASSUME NEW s \in RuleSlots, NEW v \in RuleValues[s], R!SetSlot(s, v) PROVE RulesInv'
  BY <1>1, RulesSetSlot
<1>2. ASSUME NEW m, NEW p, R!AverageMethod(m, p) PROVE RulesInv'
  BY <1>2, RulesAverage
<1>3. ASSUME NEW v, R!HistogramBuckets(v) PROVE RulesInv'
  BY <1>3, RulesHistogram
<1>4. ASSUME NEW arg \in Rules, R!AddRule(arg[1], arg[2]) PROVE RulesInv'
  BY <1>4, RulesAddRule
<1>5. ASSUME NEW b \in unread, R!Open(b) PROVE RulesInv'
  BY <1>5, RulesOpen
<1>6. ASSUME R!Stop PROVE RulesInv'
  <2>1. UNCHANGED confVars BY <1>6 DEF R!Stop, R!vars, confVars
  <2> QED BY <2>1, RulesStay
<1> QED
  BY <1>1, <1>2, <1>3, <1>4, <1>5, <1>6, RulesZone, RulesClose, RulesInitMain, RulesMerge,
     RulesEnd
  DEF R!Next

LEMMA RulesStart ==
  ASSUME R!Init
  PROVE  RulesInv
<1>1. /\ conf_pc = "parse" /\ open = "http" /\ unread \subseteq R!Blocks /\ todo = Order
      /\ conf = [b \in R!Blocks |-> R!CreateLocConf] /\ ctx = R!CreateMainConf
  BY OrderFacts DEF R!Init
<1>2. "http" \in R!Blocks BY OrderFacts
<1>3. <<>> \in Seq(RuleSet) OBVIOUS
<1>4. R!NoArrays \in [R!Arrays -> Seq(RuleSet)] /\ \A a \in R!Arrays : R!NoArrays[a] = <<>>
  BY <1>3 DEF R!NoArrays
<1>5. \A b \in R!Blocks : conf[b] = R!CreateLocConf BY <1>1
<1>6. R!CreateLocConf.arrays = R!NoArrays
      /\ R!CreateLocConf = [slots |-> R!CreateLocConf.slots, arrays |-> R!CreateLocConf.arrays]
  BY DEF R!CreateLocConf
<1>7. Ruled(conf)
  <2>1. \A b \in R!Blocks : [slots |-> conf[b].slots, arrays |-> conf[b].arrays] = conf[b]
    BY <1>5, <1>6
  <2>2. conf = [b \in R!Blocks |-> conf[b]] BY <1>1
  <2> QED BY <1>4, <1>5, <1>6, <2>1, <2>2 DEF Ruled
<1>8. NoneInHttp(conf) BY <1>2, <1>4, <1>5, <1>6 DEF NoneInHttp, R!RuleArrays
<1>9. RulesIn(ctx) BY <1>1, <1>4 DEF RulesIn, R!CreateMainConf
<1>10. Laid(conf) BY <1>1 DEF Laid
<1> QED BY <1>1, <1>2, <1>7, <1>8, <1>9, <1>10 DEF RulesInv

LEMMA NearestIn ==
  ASSUME NEW H
  PROVE  \A i \in 1 .. Last : R!Nearest(Order[i], H) \in R!Blocks
<1> DEFINE T == {k \in 0 .. Last : \A i \in 1 .. k : R!Nearest(Order[i], H) \in R!Blocks}
<1>1. Last \in Nat BY OrderFacts
<1>2. 0 \in T
  <2>1. 1 .. 0 = {} /\ 0 \in 0 .. Last BY <1>1
  <2> QED BY <2>1
<1>3. ASSUME NEW k \in 0 .. Last - 1, k \in T PROVE k + 1 \in T
  <2>1. k \in 0 .. Last /\ k + 1 \in 1 .. Last /\ k + 1 \in 0 .. Last BY <1>1
  <2>2. "http" \in R!Blocks /\ Order[k + 1] \in R!Blocks BY <2>1, OrderFacts
  <2>3. R!Nearest(Order[k + 1], H) \in R!Blocks
    <3>1. CASE Order[k + 1] \in H BY <2>1, <2>2, <3>1, NearestOwn
    <3>2. CASE Order[k + 1] \notin H
      <4>1. R!Nearest(Order[k + 1], H) = R!Nearest(Parent[Order[k + 1]], H)
        BY <2>1, <3>2, NearestUp
      <4>2. CASE Parent[Order[k + 1]] = "http" BY <2>2, <4>1, <4>2, NearestHttp
      <4>3. CASE \E i \in 1 .. k : Parent[Order[k + 1]] = Order[i] BY <1>3, <4>1, <4>3
      <4> QED BY <2>1, <4>2, <4>3, ParentMerged
    <3> QED BY <3>1, <3>2
  <2>4. \A i \in 1 .. k + 1 : i = k + 1 \/ i \in 1 .. k BY <2>1
  <2> QED BY <1>3, <2>1, <2>3, <2>4
<1>4. \A k \in 0 .. Last : k \in T
  <2> HIDE DEF T
  <2> QED BY <1>1, <1>2, <1>3, InductTo
<1>5. Last \in 0 .. Last BY <1>1
<1> QED BY <1>4, <1>5

\* What the check leaves of an array, under the flag that the property names.
LEMMA CheckedKeeps ==
  ASSUME NEW was \in Seq(RuleSet), NEW flag, NEW is \in R!Checked(was, flag)
  PROVE  /\ R!ToSet(is) \subseteq R!ToSet(was)
         /\ R!Hashes(was) \ {0} \subseteq R!Hashes(is)
         /\ flag = "off" => is = was
         /\ flag # "off" /\ R!Comparable(R!Hashes(was)) =>
              R!Cardinality(R!Hashes(is)) = Len(is)
<1>1. CASE was = <<>>
  <2>1. is = <<>> BY <1>1, CheckedNone
  <2>2. R!Hashes(is) = {} /\ Len(is) = 0
    <3>1. Len(<<>>) = 0 /\ DOMAIN <<>> = {} OBVIOUS
    <3> QED BY <2>1, <3>1 DEF R!Hashes
  <2>3. Cardinality({}) = 0 BY FS_EmptySet
  <2> QED BY <1>1, <2>1, <2>2, <2>3, SameCardinality
<1>2. CASE was # <<>> /\ flag = "off"
  <2>1. is = was BY <1>2 DEF R!Checked
  <2> QED BY <1>2, <2>1
<1>3. CASE was # <<>> /\ flag # "off"
  <2>1. is \in R!Unique(was) BY <1>3 DEF R!Checked
  <2> QED BY <1>3, <2>1, UniqueKeeps, UniqueOnce, SameCardinality
<1> QED BY <1>1, <1>2, <1>3

LEMMA CheckForIs ==
  ASSUME NEW a, NEW b
  PROVE  R!CheckFor(a, b) = "off" <=> Flag(R!CheckOf(a), b) = "off"
BY DEF R!CheckFor, Flag, R!Initialised, R!Unset, R!Http

\* The derived arrays are outcomes of the check of those they stem from.
LEMMA DerivedChecked ==
  ASSUME RulesInv, conf_pc = "done", ctx.enable = "on", NEW d \in R!Derived
  PROVE  /\ d.was \in Seq(RuleSet)
         /\ \E flag : d.is \in R!Checked(d.was, flag) /\ (d.check = "off" <=> flag = "off")
<1>1. Ruled(given.conf) /\ RulesIn(given.ctx) /\ MainChecked /\ RulesMerged(Last)
  BY DEF RulesInv
<1>2. \A a \in R!RuleArrays : a \in R!Arrays BY DEF R!RuleArrays
<1>3. CASE d \in {[is |-> ctx.arrays[a], was |-> given.ctx.arrays[a],
                   check |-> R!CheckFor(a, R!Http)] : a \in R!RuleArrays}
  <2>1. PICK a \in R!RuleArrays :
          d = [is |-> ctx.arrays[a], was |-> given.ctx.arrays[a], check |-> R!CheckFor(a, R!Http)]
    BY <1>3
  <2>2. d.is = ctx.arrays[a] /\ d.was = given.ctx.arrays[a] /\ d.check = R!CheckFor(a, R!Http)
    BY <2>1
  <2>3. given.ctx.arrays[a] \in Seq(RuleSet) BY <1>1, <1>2 DEF RulesIn
  <2>4. ctx.arrays[a] \in R!Checked(given.ctx.arrays[a], given.conf["http"].slots[R!CheckOf(a)])
    BY <1>1 DEF MainChecked
  <2>5. given.conf["http"].slots[R!CheckOf(a)] = Flag(R!CheckOf(a), "http") BY DEF Flag
  <2>6. d.check = "off" <=> Flag(R!CheckOf(a), "http") = "off"
    BY <2>2, CheckForIs, OrderFacts
  <2> QED BY <2>2, <2>3, <2>4, <2>5, <2>6
<1>4. CASE d \in {[is |-> conf[b].arrays[a],
                   was |-> given.conf[R!Nearest(b, R!WithRules(a))].arrays[a],
                   check |-> R!CheckFor(a, R!Nearest(b, R!WithRules(a)))] :
                     a \in R!RuleArrays, b \in R!Blocks \ {R!Http}}
  <2>1. PICK a \in R!RuleArrays, b \in R!Blocks \ {R!Http} :
          d = [is |-> conf[b].arrays[a],
               was |-> given.conf[R!Nearest(b, R!WithRules(a))].arrays[a],
               check |-> R!CheckFor(a, R!Nearest(b, R!WithRules(a)))]
    BY <1>4
  <2> DEFINE n == R!Nearest(b, R!WithRules(a))
  <2>2. PICK i \in 1 .. Last : b = Order[i] BY OrderFacts
  <2>3. n \in R!Blocks BY <2>2, NearestIn
  <2>4. conf[b].arrays[a] \in Result(a, n) BY <1>1, <2>2 DEF RulesMerged
  <2> HIDE DEF n
  <2>5. d.is = conf[b].arrays[a] /\ d.was = given.conf[n].arrays[a] /\ d.check = R!CheckFor(a, n)
    BY <2>1 DEF n
  <2>6. given.conf[n].arrays[a] \in Seq(RuleSet) BY <1>1, <1>2, <2>3 DEF Ruled
  <2>7. d.is \in R!Checked(d.was, Flag(R!CheckOf(a), n)) BY <2>4, <2>5 DEF Result
  <2>8. d.check = "off" <=> Flag(R!CheckOf(a), n) = "off" BY <2>5, CheckForIs
  <2> QED BY <2>5, <2>6, <2>7, <2>8
<1> QED BY <1>3, <1>4 DEF R!Derived

LEMMA RulesSafe == RulesInv => R!RulesKept /\ R!EachOnce
<1> SUFFICES ASSUME RulesInv, conf_pc = "done", ctx.enable = "on", NEW d \in R!Derived
             PROVE  /\ R!ToSet(d.is) \subseteq R!ToSet(d.was)
                    /\ R!Hashes(d.was) \ {0} \subseteq R!Hashes(d.is)
                    /\ IF d.check = "off" THEN d.is = d.was
                       ELSE R!Comparable(R!Hashes(d.was)) =>
                              R!Cardinality(R!Hashes(d.is)) = Len(d.is)
  BY DEF R!RulesKept, R!EachOnce, R!Effective
<1>1. d.was \in Seq(RuleSet) BY DerivedChecked
<1>2. PICK flag : d.is \in R!Checked(d.was, flag) /\ (d.check = "off" <=> flag = "off")
  BY DerivedChecked
<1> QED BY <1>1, <1>2, CheckedKeeps

(***************************************************************************)
(* The scalar slots                                                        *)
(***************************************************************************)

\* The two subjects have their blocks in common.
LEMMA SameBlocks ==
  /\ S!Blocks = R!Blocks /\ S!Http = "http" /\ S!Unset = "unset"
  /\ \A b, H : S!Nearest(b, H) = R!Nearest(b, H)
<1>1. S!Blocks = R!Blocks BY DEF S!Blocks, R!Blocks, S!Http, R!Http
<1>2. S!Http = R!Http /\ S!Http = "http" BY DEF S!Http, R!Http
<1>3. \A b : S!Around(b) = R!Around(b) BY <1>1, <1>2 DEF S!Around, R!Around
<1>4. \A b, H : S!Nearest(b, H) = R!Nearest(b, H) BY <1>2, <1>3 DEF S!Nearest, R!Nearest
<1> QED BY <1>1, <1>2, <1>4 DEF S!Unset

LEMMA InitialisedOnce ==
  \A x, y : R!Initialised(R!Initialised(x, y), y) = R!Initialised(x, y)
BY DEF R!Initialised

\* Blocks with rules of their own take the checks from elsewhere.
Jumps(s) ==
  \E a \in S!RuleArrays : S!CheckOf(a) = s
    /\ \E c \in S!WithRules(a) : given.conf[c].slots[s] = "unset"

\* Directives change one block and leave the order to merge them in.
LEMMA SlotsParse ==
  ASSUME SlotsInv, conf_pc = "parse", UNCHANGED todo, conf_pc' \in {"parse", "failed"},
         Laid(conf) => Laid(conf')
  PROVE  SlotsInv'
BY DEF SlotsInv

LEMMA LaidChange ==
  ASSUME NEW c, Laid(c), NEW o, NEW z, NEW d, d = [c EXCEPT ![o] = z]
  PROVE  Laid(d)
BY DEF Laid

LEMMA SlotsDirectives ==
  ASSUME SlotsInv,
         \/ \E s \in ScalarSlots : \E v \in ScalarValues[s] : S!SetSlot(s, v)
         \/ \E m \in {"AMM", "WMA"}, p \in {"none", "60s", "invalid"} : S!AverageMethod(m, p)
         \/ \E v \in {"5ms 1s", "1s", "invalid"} : S!HistogramBuckets(v)
         \/ \E arg \in ScalarRules : S!AddRule(arg[1], arg[2])
         \/ S!Zone
         \/ \E p \in Dumps : S!Dump(p)
         \/ \E n \in MaxNodes, m \in {<<>>, <<"uris">>} : S!FilterMaxNode(n, m)
         \/ \E b \in unread : S!Open(b)
  PROVE  SlotsInv'
<1>1. conf_pc = "parse" /\ UNCHANGED todo
  BY DEF S!SetSlot, S!AverageMethod, S!HistogramBuckets, S!AddRule, S!Zone, S!Dump,
    S!FilterMaxNode, S!Open, S!Directive
<1>2. conf_pc' \in {"parse", "failed"}
  BY <1>1 DEF S!SetSlot, S!AverageMethod, S!HistogramBuckets, S!AddRule, S!Zone, S!Dump,
    S!FilterMaxNode, S!Open, S!Fail
<1>3. conf' = conf \/ \E z : conf' = [conf EXCEPT ![open] = z]
  <2>1. ASSUME NEW s \in ScalarSlots, NEW v, S!SetSlot(s, v)
        PROVE  conf' = conf \/ \E z : conf' = [conf EXCEPT ![open] = z]
    <3> DEFINE z == [conf[open] EXCEPT !.slots[s] = v]
    <3>1. conf' = conf \/ conf' = [conf EXCEPT ![open] = z] BY <2>1 DEF S!SetSlot, S!Fail
    <3> QED BY <3>1
  <2>2. ASSUME NEW m, NEW p, S!AverageMethod(m, p)
        PROVE  conf' = conf \/ \E z : conf' = [conf EXCEPT ![open] = z]
    <3> DEFINE z == [conf[open] EXCEPT !.slots =
                       [@ EXCEPT !["average_method"] = m,
                                 !["average_period"] = IF p = "none" THEN @ ELSE p]]
    <3>1. conf' = conf \/ conf' = [conf EXCEPT ![open] = z] BY <2>2 DEF S!AverageMethod, S!Fail
    <3> QED BY <3>1
  <2>3. ASSUME NEW v, S!HistogramBuckets(v)
        PROVE  conf' = conf \/ \E z : conf' = [conf EXCEPT ![open] = z]
    <3> DEFINE z == [conf[open] EXCEPT !.slots["histogram_buckets"] = v]
    <3>1. conf' = conf \/ conf' = [conf EXCEPT ![open] = z]
      BY <2>3 DEF S!HistogramBuckets, S!Fail
    <3> QED BY <3>1
  <2>4. ASSUME NEW a, NEW r, S!AddRule(a, r)
        PROVE  conf' = conf \/ \E z : conf' = [conf EXCEPT ![open] = z]
    <3> DEFINE z == [conf[open] EXCEPT !.arrays[a] = Append(@, r)]
    <3>1. conf' = conf \/ conf' = [conf EXCEPT ![open] = z] BY <2>4 DEF S!AddRule, S!Fail
    <3> QED BY <3>1
  <2>5. (\/ S!Zone
         \/ \E p \in Dumps : S!Dump(p)
         \/ \E n \in MaxNodes, m \in {<<>>, <<"uris">>} : S!FilterMaxNode(n, m)
         \/ \E b \in unread : S!Open(b)) => conf' = conf
    BY DEF S!Zone, S!Dump, S!FilterMaxNode, S!Open, S!Fail
  <2> QED BY <2>1, <2>2, <2>3, <2>4, <2>5
<1>4. Laid(conf) => Laid(conf')
  <2>1. CASE conf' = conf BY <2>1
  <2>2. CASE \E z : conf' = [conf EXCEPT ![open] = z]
    <3>1. PICK z : conf' = [conf EXCEPT ![open] = z] BY <2>2
    <3> QED BY <3>1, LaidChange
  <2> QED BY <1>3, <2>1, <2>2
<1> QED BY <1>1, <1>2, <1>4, SlotsParse

LEMMA SlotsClose ==
  ASSUME SlotsInv, S!Close
  PROVE  SlotsInv'
<1>1. /\ conf_pc = "parse" /\ UNCHANGED <<conf, todo>>
      /\ \/ conf_pc' = "parse"
         \/ conf_pc' = "init" /\ given' = [conf |-> conf, ctx |-> ctx]
  BY DEF S!Close
<1>2. Laid(conf)' BY <1>1 DEF SlotsInv, Laid
<1> QED BY <1>1, <1>2 DEF SlotsInv

LEMMA SlotsInitMain ==
  ASSUME SlotsInv, S!InitMain
  PROVE  SlotsInv'
<1>1. /\ conf_pc = "init" /\ UNCHANGED <<conf, todo, given>>
      /\ conf_pc' \in {"crashed", "merge"}
  BY DEF S!InitMain
<1>2. Laid(conf)' /\ todo = Order /\ given.conf = conf BY <1>1 DEF SlotsInv, Laid
<1>3. 0 \in 0 .. Last /\ todo' = SubSeq(Order, 0 + 1, Last)
  BY <1>1, <1>2, WholeOrder, OrderFacts
<1>4. AsGiven(0)' BY <1>1, <1>2 DEF AsGiven
<1>5. SlotsMerged(0)'
  <2>1. 1 .. 0 = {} OBVIOUS
  <2> QED BY <2>1 DEF SlotsMerged
<1> QED BY <1>1, <1>2, <1>3, <1>4, <1>5 DEF SlotsInv

\* One slot of a block: its own value, or its parent's.
LEMMA MergeSlot ==
  ASSUME NEW k \in 0 .. Last, k + 1 \in 1 .. Last, NEW b, b = Order[k + 1],
         AsGiven(k), NEW s \in ScalarSlots, ~Jumps(s),
         \A i \in 1 .. k : conf[Order[i]].slots[s] = SlotOf(Order[i], s)
  PROVE  R!Initialised(S!OwnSlots(b)[s],
           R!Initialised(conf[Parent[b]].slots[s], S!Default(s))) = SlotOf(b, s)
<1>1. b \in R!Blocks BY OrderFacts
<1>2. conf[b] = given.conf[b]
  <2>1. k + 1 \in k + 1 .. Last OBVIOUS
  <2> QED BY <2>1 DEF AsGiven
<1>3. CASE conf[b].slots[s] # "unset"
  <2>1. S!OwnSlots(b)[s] = conf[b].slots[s] BY <1>3, SameBlocks DEF S!OwnSlots
  <2>2. b \in S!WithSlot(s) BY <1>1, <1>2, <1>3, SameBlocks DEF S!WithSlot
  <2>3. R!Nearest(b, S!WithSlot(s)) = b BY <2>2, NearestOwn
  <2>4. SlotOf(b, s) = given.conf[b].slots[s]
    BY <1>2, <1>3, <2>3 DEF SlotOf, R!Initialised, R!Unset
  <2> QED BY <1>2, <1>3, <2>1, <2>4 DEF R!Initialised, R!Unset
<1>4. CASE conf[b].slots[s] = "unset"
  <2>1. S!OwnSlots(b)[s] = "unset"
    <3>1. ASSUME NEW a \in S!RuleArrays, S!CheckOf(a) = s PROVE conf[b].arrays[a] = <<>>
      <4> SUFFICES ASSUME conf[b].arrays[a] # <<>> PROVE Jumps(s) OBVIOUS
      <4>1. b \in S!WithRules(a) BY <1>1, <1>2, SameBlocks DEF S!WithRules
      <4> QED BY <1>2, <1>4, <3>1, <4>1 DEF Jumps
    <3>2. "filter_keys" \in S!RuleArrays /\ "limit_traffics" \in S!RuleArrays
          /\ "limit_filter_traffics" \in S!RuleArrays
      BY DEF S!RuleArrays, S!Arrays
    <3>3. s = "filter_check_duplicate" => conf[b].arrays["filter_keys"] = <<>>
      BY <3>1, <3>2 DEF S!CheckOf
    <3>4. s = "limit_check_duplicate" => conf[b].arrays["limit_traffics"] = <<>>
                                         /\ conf[b].arrays["limit_filter_traffics"] = <<>>
      BY <3>1, <3>2 DEF S!CheckOf
    <3> QED BY <1>4, <3>3, <3>4, SameBlocks DEF S!OwnSlots
  <2>2. b \notin S!WithSlot(s) BY <1>2, <1>4, SameBlocks DEF S!WithSlot
  <2>3. R!Nearest(b, S!WithSlot(s)) = R!Nearest(Parent[b], S!WithSlot(s)) BY <2>2, NearestUp
  <2>4. SlotOf(b, s) = SlotOf(Parent[b], s) BY <2>3 DEF SlotOf
  <2>5. R!Initialised(conf[Parent[b]].slots[s], S!Default(s)) = SlotOf(b, s)
    <3>1. CASE Parent[b] = "http"
      <4>1. conf["http"] = given.conf["http"] BY DEF AsGiven
      <4>2. R!Nearest("http", S!WithSlot(s)) = "http" BY NearestHttp
      <4>3. SlotOf("http", s) = R!Initialised(given.conf["http"].slots[s], S!Default(s))
        BY <4>2 DEF SlotOf
      <4> QED BY <2>4, <3>1, <4>1, <4>3
    <3>2. CASE \E i \in 1 .. k : Parent[b] = Order[i]
      <4>1. conf[Parent[b]].slots[s] = SlotOf(Parent[b], s) BY <3>2
      <4> QED BY <2>4, <4>1, InitialisedOnce DEF SlotOf
    <3> QED BY <3>1, <3>2, ParentMerged
  <2> QED BY <2>1, <2>5 DEF R!Initialised, R!Unset
<1> QED BY <1>3, <1>4

LEMMA SlotsMerge ==
  ASSUME SlotsInv, S!Merge
  PROVE  SlotsInv'
<1>1. /\ conf_pc = "merge" /\ todo # <<>> /\ todo' = Tail(todo)
      /\ UNCHANGED <<open, unread, ctx, given>>
  BY DEF S!Merge
<1>2. Laid(conf) BY DEF SlotsInv
<1>3. PICK k \in 0 .. Last : todo = SubSeq(Order, k + 1, Last) /\ AsGiven(k) /\ SlotsMerged(k)
  BY <1>1 DEF SlotsInv
<1> DEFINE b == Head(todo)
<1>4. /\ k + 1 \in 1 .. Last /\ b = Order[k + 1]
      /\ todo' = SubSeq(Order, (k + 1) + 1, Last)
  BY <1>1, <1>3, RestOfOrder
<1>5. b \in R!Blocks /\ b # "http" /\ Last \in Nat /\ k + 1 \in 0 .. Last BY <1>4, OrderFacts
<1>6. \A i \in (k + 1) + 1 .. Last : i \in k + 1 .. Last BY <1>5
<1>7. CASE ctx.enable = "off" /\ UNCHANGED <<conf_pc, conf>>
  <2>1. SlotsMerged(k + 1)' BY <1>1, <1>7 DEF SlotsMerged
  <2>2. AsGiven(k + 1)' BY <1>1, <1>3, <1>6, <1>7 DEF AsGiven
  <2> QED BY <1>1, <1>2, <1>4, <1>5, <1>7, <2>1, <2>2 DEF SlotsInv, Laid
<1>8. CASE conf_pc' = "crashed" /\ UNCHANGED conf
  BY <1>1, <1>2, <1>8 DEF SlotsInv, Laid
<1>9. CASE ~(ctx.enable = "off" /\ UNCHANGED <<conf_pc, conf>>)
           /\ ~(conf_pc' = "crashed" /\ UNCHANGED conf)
  <2> DEFINE own == S!OwnSlots(b)
             prev == S!Previous(b)
             x == [s \in ScalarSlots |->
                     S!Initialised(own[s], S!Initialised(prev.slots[s], S!Default(s)))]
  <2>1. ctx.enable = "on" /\ UNCHANGED conf_pc
        /\ \E y : conf' = [conf EXCEPT ![b] = [slots |-> x, arrays |-> y]]
    BY <1>9 DEF S!Merge
  <2>2. PICK y : conf' = [conf EXCEPT ![b] = [slots |-> x, arrays |-> y]] BY <2>1
  <2>3. DOMAIN conf = R!Blocks BY <1>2 DEF Laid
  <2>4. \A s \in ScalarSlots : x[s] = R!Initialised(S!OwnSlots(b)[s],
                                R!Initialised(conf[Parent[b]].slots[s], S!Default(s)))
    BY DEF S!Initialised, R!Initialised, S!Unset, R!Unset, S!Previous
  <2> HIDE DEF x
  <2>5. conf'[b].slots = x BY <1>5, <2>2, <2>3
  <2>6. \A i \in 1 .. Last : i # k + 1 => conf'[Order[i]] = conf[Order[i]]
    <3>1. \A i \in 1 .. Last : i # k + 1 => Order[i] # b /\ Order[i] \in R!Blocks
      BY <1>4, OrderFacts
    <3> QED BY <2>2, <2>3, <3>1
  <2>7. conf'["http"] = conf["http"] BY <1>5, <2>2, <2>3, OrderFacts
  <2>8. Laid(conf') BY <1>2, <2>2, LaidChange
  <2>9. AsGiven(k + 1)'
    <3>1. \A i \in (k + 1) + 1 .. Last : i \in 1 .. Last /\ i # k + 1 BY <1>5
    <3> QED BY <1>1, <1>3, <1>6, <2>6, <2>7, <3>1 DEF AsGiven
  <2>10. SlotsMerged(k + 1)'
    <3> SUFFICES ASSUME NEW i \in 1 .. k + 1, NEW s \in ScalarSlots, ~Jumps(s)
                 PROVE  conf'[Order[i]].slots[s] = SlotOf(Order[i], s)
      <4>1. \A i, s : SlotOf(Order[i], s)' = SlotOf(Order[i], s)
        BY <1>1 DEF SlotOf, S!WithSlot
      <4>2. \A a : S!WithRules(a)' = S!WithRules(a) BY <1>1 DEF S!WithRules
      <4> QED BY <1>1, <4>1, <4>2 DEF SlotsMerged, Jumps
    <3>1. \A j \in 1 .. k : conf[Order[j]].slots[s] = SlotOf(Order[j], s)
      BY <1>3, <2>1 DEF SlotsMerged, Jumps
    <3>2. CASE i = k + 1
      <4>1. x[s] = SlotOf(b, s) BY <1>3, <1>4, <2>4, <3>1, MergeSlot
      <4> QED BY <1>4, <2>5, <3>2, <4>1
    <3>3. CASE i # k + 1
      <4>1. i \in 1 .. k /\ i \in 1 .. Last BY <1>5, <3>3
      <4> QED BY <2>6, <3>1, <3>3, <4>1
    <3> QED BY <3>2, <3>3
  <2> QED BY <1>1, <1>4, <1>5, <2>1, <2>8, <2>9, <2>10 DEF SlotsInv
<1> QED BY <1>7, <1>8, <1>9

\* What is merged stays so while conf, ctx and given do.
LEMMA SlotsHold ==
  ASSUME UNCHANGED <<conf, ctx, given>>, NEW k
  PROVE  AsGiven(k)' = AsGiven(k) /\ SlotsMerged(k)' = SlotsMerged(k)
<1>1. \A b, s : SlotOf(b, s)' = SlotOf(b, s) BY DEF SlotOf, S!WithSlot
<1>2. \A a : S!WithRules(a)' = S!WithRules(a) BY DEF S!WithRules
<1>3. AsGiven(k)' = AsGiven(k) BY DEF AsGiven
<1>4. SlotsMerged(k)' = SlotsMerged(k) BY <1>1, <1>2 DEF SlotsMerged
<1> QED BY <1>3, <1>4

LEMMA SlotsEnd ==
  ASSUME SlotsInv, S!Merged
  PROVE  SlotsInv'
<1>1. /\ conf_pc = "merge" /\ todo = <<>> /\ conf_pc' = "done"
      /\ UNCHANGED <<conf, ctx, todo, given>>
  BY DEF S!Merged
<1>2. PICK k \in 0 .. Last : todo = SubSeq(Order, k + 1, Last) /\ AsGiven(k) /\ SlotsMerged(k)
  BY <1>1 DEF SlotsInv
<1>3. k = Last BY <1>1, <1>2, RestOfOrder
<1>4. SlotsMerged(Last)' BY <1>1, <1>2, <1>3, SlotsHold
<1> QED BY <1>1, <1>4 DEF SlotsInv, Laid

LEMMA SlotsStay ==
  ASSUME SlotsInv, UNCHANGED confVars
  PROVE  SlotsInv'
<1>1. UNCHANGED <<conf_pc, conf, ctx, todo, given>> BY DEF confVars
<1>2. \A k \in 0 .. Last : AsGiven(k)' = AsGiven(k) /\ SlotsMerged(k)' = SlotsMerged(k)
  BY <1>1, SlotsHold
<1>3. Last \in 0 .. Last BY OrderFacts
<1>4. Laid(conf)' = Laid(conf) BY <1>1 DEF Laid
<1> QED BY <1>1, <1>2, <1>3, <1>4 DEF SlotsInv

LEMMA SlotsNext ==
  ASSUME SlotsInv, S!Next
  PROVE  SlotsInv'
<1>1. ASSUME S!Stop PROVE SlotsInv'
  <2>1. UNCHANGED confVars BY <1>1 DEF S!Stop, S!vars, confVars
  <2> QED BY <2>1, SlotsStay
<1> QED
  BY <1>1, SlotsDirectives, SlotsClose, SlotsInitMain, SlotsMerge, SlotsEnd DEF S!Next

LEMMA SlotsStart ==
  ASSUME S!Init
  PROVE  SlotsInv
<1>1. conf_pc = "parse" /\ todo = Order /\ conf = [b \in R!Blocks |-> S!CreateLocConf]
  BY SameBlocks DEF S!Init
<1> QED BY <1>1 DEF SlotsInv, Laid

LEMMA SlotsSafe == SlotsInv => S!NearestWins
<1> SUFFICES ASSUME SlotsInv, conf_pc = "done", ctx.enable = "on",
                    NEW b \in S!Blocks \ {S!Http}, NEW s \in ScalarSlots, ~Jumps(s)
             PROVE  conf[b].slots[s] =
                      S!Initialised(given.conf[S!Nearest(b, S!WithSlot(s))].slots[s], S!Default(s))
  BY SameBlocks DEF S!NearestWins, S!Effective, Jumps
<1>1. SlotsMerged(Last) BY DEF SlotsInv
<1>2. PICK i \in 1 .. Last : b = Order[i] BY SameBlocks, OrderFacts
<1>3. conf[b].slots[s] = SlotOf(b, s) BY <1>1, <1>2 DEF SlotsMerged, Jumps
<1> QED BY <1>3, SameBlocks DEF SlotOf, S!Initialised, R!Initialised, S!Unset, R!Unset

(***************************************************************************)
(* The specification                                                       *)
(***************************************************************************)

LEMMA ConfNext ==
  ASSUME ConfInv, [ConfigurationNext]_configurationVars
  PROVE  ConfInv'
<1>1. CASE ZonesStep BY <1>1 DEF ZonesStep, ConfInv
<1>2. CASE RulesStep BY <1>2, RulesNext DEF RulesStep, ConfInv
<1>3. CASE SlotsStep BY <1>3, SlotsNext DEF SlotsStep, ConfInv
<1>4. CASE UNCHANGED configurationVars
  <2>1. UNCHANGED subject /\ UNCHANGED confVars BY <1>4 DEF configurationVars
  <2> QED BY <2>1, RulesStay, SlotsStay DEF ConfInv
<1> QED BY <1>1, <1>2, <1>3, <1>4 DEF ConfigurationNext

LEMMA ConfStart == ConfigurationInit => ConfInv
<1> SUFFICES ASSUME ConfigurationInit PROVE ConfInv OBVIOUS
<1>1. subject \in {"zones", "rules", "slots"} BY DEF ConfigurationInit
<1>2. subject = "rules" => RulesInv BY RulesStart DEF ConfigurationInit
<1>3. subject = "slots" => SlotsInv BY SlotsStart DEF ConfigurationInit
<1> QED BY <1>1, <1>2, <1>3 DEF ConfInv

LEMMA ConfAlways == ConfigurationSpec => []ConfInv
<1>1. ConfInv /\ [ConfigurationNext]_configurationVars => ConfInv' BY ConfNext
<1> QED BY <1>1, ConfStart, PTL DEF ConfigurationSpec

\* However the blocks are nested and whatever the rules, their checksums and the order that
\* sorting leaves them in: filter_unique and limit_traffic_unique lose no rule whose hash
\* does not stay, unless that is 0, add none, and leave one of each hash where comparing
\* hashes is an order.
THEOREM RulesKeptAlways == ConfigurationSpec => []RulesKeptOnce
<1>1. ConfInv => RulesKeptOnce BY RulesSafe DEF ConfInv, RulesKeptOnce
<1> QED BY <1>1, ConfAlways, PTL

\* For any nesting of the blocks, merge_loc_conf gives a slot the value of the nearest block
\* that has one, else the default; save the check for duplicates of an array of which a
\* block has rules and no check.
THEOREM NearestAlways == ConfigurationSpec => []NearestWins
<1>1. ConfInv => NearestWins BY SlotsSafe DEF ConfInv, NearestWins
<1> QED BY <1>1, ConfAlways, PTL
=============================================================================
