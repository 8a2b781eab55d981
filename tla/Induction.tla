----------------------------- MODULE Induction ------------------------------
(***************************************************************************)
(* Induction in the form that first-order provers can use: over a set of   *)
(* numbers and over a set of subsets instead of over a predicate; and from *)
(* it, what a sum over a finite set is, which is how the folds of the      *)
(* community modules are reasoned about.                                   *)
(***************************************************************************)
EXTENDS Integers, Sequences, FiniteSets, FiniteSetTheorems, SequenceTheorems,
        WellFoundedInduction, Selection, TLAPS

\* A set of numbers has a least one.
LEMMA Least ==
  ASSUME NEW T \in SUBSET Nat, T # {}
  PROVE  \E m \in T : \A n \in T : m <= n
<1> DEFINE R == OpToRel(<, Nat)
<1>1. IsWellFoundedOn(R, Nat) BY NatLessThanWellFounded
<1>2. T \subseteq Nat OBVIOUS
<1>3. \A x, y \in Nat : y < x => <<y, x>> \in R BY DEF OpToRel
<1> HIDE DEF R
<1>4. PICK x \in T : \A y \in T : ~(<<y, x>> \in R) BY <1>1, <1>2, WFMin
<1>5. ASSUME NEW y \in T PROVE x <= y
  <2>1. ~(y < x) BY <1>2, <1>3, <1>4
  <2> QED BY <1>2, <2>1
<1> QED BY <1>5

\* Induction: what holds of 0 and is handed on holds of all.
LEMMA Induct ==
  ASSUME NEW T \in SUBSET Nat, 0 \in T, \A n \in T : n + 1 \in T
  PROVE  T = Nat
<1> SUFFICES ASSUME T # Nat PROVE FALSE OBVIOUS
<1>1. PICK m \in Nat \ T : \A n \in Nat \ T : m <= n BY Least
<1>2. m # 0 /\ m - 1 \in Nat BY <1>1
<1>3. m - 1 \in T BY <1>1, <1>2
<1>4. (m - 1) + 1 = m BY <1>1
<1> QED BY <1>1, <1>3, <1>4

\* The same up to a bound.
LEMMA InductTo ==
  ASSUME NEW N \in Nat, NEW T, 0 \in T, \A n \in 0 .. N - 1 : n \in T => n + 1 \in T
  PROVE  \A n \in 0 .. N : n \in T
<1> DEFINE U == {n \in Nat : n \in 0 .. N => n \in T}
<1>1. 0 \in U OBVIOUS
<1>2. ASSUME NEW n \in U PROVE n + 1 \in U
  <2> SUFFICES ASSUME n + 1 \in 0 .. N PROVE n + 1 \in T OBVIOUS
  <2>1. n \in 0 .. N - 1 /\ n \in 0 .. N OBVIOUS
  <2> QED BY <2>1
<1>3. U \in SUBSET Nat OBVIOUS
<1> HIDE DEF U
<1>4. U = Nat BY <1>1, <1>2, <1>3, Induct
<1> QED BY <1>4 DEF U

\* Induction on finite sets: a set of subsets holds every one if it holds each
\* of whose strictly smaller subsets it holds.
LEMMA InductSubsets ==
  ASSUME NEW D, IsFiniteSet(D), NEW T \in SUBSET SUBSET D,
         \A s \in SUBSET D : (\A t \in SUBSET s : t # s => t \in T) => s \in T
  PROVE  T = SUBSET D
<1> SUFFICES ASSUME T # SUBSET D PROVE FALSE OBVIOUS
<1> DEFINE U == (SUBSET D) \ T
           R == StrictSubsetOrdering(D)
<1>1. U \subseteq FiniteSubsetsOf(D) BY FS_FiniteSubsetsOfFinite
<1>2. IsWellFoundedOn(R, FiniteSubsetsOf(D)) BY FS_StrictSubsetOrderingWellFounded
<1>3. U # {} OBVIOUS
<1>4. \A s, t \in SUBSET D : t \subseteq s /\ t # s => <<t, s>> \in R
  BY DEF StrictSubsetOrdering
<1> HIDE DEF R, U
<1>5. PICK s \in U : \A t \in U : ~(<<t, s>> \in R) BY <1>1, <1>2, <1>3, WFMin
<1>6. s \in SUBSET D /\ s \notin T BY <1>5 DEF U
<1>7. ASSUME NEW t \in SUBSET s, t # s PROVE t \in T
  <2>1. t \in SUBSET D BY <1>6
  <2>2. t \subseteq s OBVIOUS
  <2>3. <<t, s>> \in R BY <1>4, <1>6, <1>7, <2>1, <2>2
  <2>4. t \notin U BY <1>5, <2>3
  <2> QED BY <2>1, <2>4 DEF U
<1> QED BY <1>6, <1>7

-----------------------------------------------------------------------------
(* Sums *)

\* g gives the sum of f over each subset of D.
IsSum(g, f, D) ==
  /\ g \in [SUBSET D -> Nat]
  /\ g[{}] = 0
  /\ \A s \in SUBSET D : \A x \in s : g[s] = f[x] + g[s \ {x}]

\* g is the sum over each set in A that takes out the elements as ch chooses.
Takes(g, f, ch, A) ==
  g = [s \in A |-> IF s = {} THEN 0 ELSE f[ch[s]] + g[s \ {ch[s]}]]

\* The same where the choice is not a function.
TakesAny(g, f, A) ==
  g = [s \in A |-> IF s = {} THEN 0
                   ELSE f[CHOOSE x \in s : TRUE] + g[s \ {CHOOSE x \in s : TRUE}]]

\* Such a g exists.
LEMMA TakesExists ==
  ASSUME NEW D, IsFiniteSet(D), NEW f \in [D -> Nat], NEW ch,
         \A s \in SUBSET D : s # {} => ch[s] \in s
  PROVE  \E g \in [SUBSET D -> Nat] : Takes(g, f, ch, SUBSET D)
<1> DEFINE A(n) == {s \in SUBSET D : Cardinality(s) <= n}
           T == {n \in Nat : \E g \in [A(n) -> Nat] : Takes(g, f, ch, A(n))}
<1>0. \A s \in SUBSET D : IsFiniteSet(s) /\ Cardinality(s) \in Nat
                          /\ Cardinality(s) <= Cardinality(D) /\ Cardinality(D) \in Nat
  BY FS_Subset, FS_CardinalityType
<1>1. 0 \in T
  <2> DEFINE g == [s \in A(0) |-> 0]
  <2>1. \A s \in A(0) : s = {} BY <1>0, FS_EmptySet
  <2>2. g \in [A(0) -> Nat] /\ Takes(g, f, ch, A(0)) BY <2>1 DEF Takes
  <2> QED BY <2>2
<1>2. ASSUME NEW n \in T PROVE n + 1 \in T
  <2>1. PICK g \in [A(n) -> Nat] : Takes(g, f, ch, A(n)) OBVIOUS
  <2> DEFINE h == [s \in A(n + 1) |-> IF s = {} THEN 0 ELSE f[ch[s]] + g[s \ {ch[s]}]]
  <2>2. ASSUME NEW s \in A(n + 1), s # {}
        PROVE  ch[s] \in D /\ s \ {ch[s]} \in A(n) /\ s \ {ch[s]} \in A(n + 1)
    <3>1. ch[s] \in s /\ IsFiniteSet(s) /\ Cardinality(s) \in Nat /\ Cardinality(s) <= n + 1
      BY <1>0, <2>2
    <3> DEFINE x == ch[s]
    <3>2. x \in s BY <3>1
    <3> HIDE DEF x
    <3>3. Cardinality(s \ {x}) = Cardinality(s) - 1 BY <3>1, <3>2, FS_RemoveElement
    <3>4. Cardinality(s \ {x}) <= n /\ Cardinality(s \ {x}) <= n + 1 BY <3>1, <3>3
    <3>5. s \in SUBSET D OBVIOUS
    <3>6. s \ {x} \in SUBSET D /\ x \in D BY <3>2, <3>5
    <3>7. s \ {x} \in A(n) /\ s \ {x} \in A(n + 1) BY <3>4, <3>6
    <3> QED BY <3>6, <3>7 DEF x
  <2>3. h \in [A(n + 1) -> Nat]
    <3> SUFFICES ASSUME NEW s \in A(n + 1), s # {}
                 PROVE  f[ch[s]] + g[s \ {ch[s]}] \in Nat
      OBVIOUS
    <3>1. f[ch[s]] \in Nat /\ g[s \ {ch[s]}] \in Nat BY <2>2
    <3> QED BY <3>1
  <2>4. ASSUME NEW s \in A(n) PROVE s \in A(n + 1) BY <1>0
  <2>5. ASSUME NEW s \in A(n) PROVE h[s] = g[s]
    <3>1. g[s] = IF s = {} THEN 0 ELSE f[ch[s]] + g[s \ {ch[s]}] BY <2>1 DEF Takes
    <3> QED BY <2>4, <3>1
  <2>6. Takes(h, f, ch, A(n + 1))
    <3> SUFFICES ASSUME NEW s \in A(n + 1), s # {}
                 PROVE  g[s \ {ch[s]}] = h[s \ {ch[s]}]
      BY DEF Takes
    <3> QED BY <2>2, <2>5
  <2> HIDE DEF h
  <2>7. n + 1 \in Nat OBVIOUS
  <2> HIDE DEF A
  <2> QED BY <2>3, <2>6, <2>7
<1>3. T \in SUBSET Nat OBVIOUS
<1> HIDE DEF T
<1>4. Cardinality(D) \in T BY <1>0, <1>1, <1>2, <1>3, Induct
<1>5. A(Cardinality(D)) = SUBSET D BY <1>0
<1> QED BY <1>4, <1>5 DEF T

\* Every such g gives numbers,
LEMMA TakesType ==
  ASSUME NEW D, IsFiniteSet(D), NEW f \in [D -> Nat], NEW ch,
         \A s \in SUBSET D : s # {} => ch[s] \in s,
         NEW g, Takes(g, f, ch, SUBSET D)
  PROVE  g \in [SUBSET D -> Nat]
<1> DEFINE U == {s \in SUBSET D : g[s] \in Nat}
<1>1. \A s \in SUBSET D : g[s] = IF s = {} THEN 0 ELSE f[ch[s]] + g[s \ {ch[s]}]
  BY DEF Takes
<1>2. ASSUME NEW s \in SUBSET D, \A t \in SUBSET s : t # s => t \in U
      PROVE  s \in U
  <2>1. CASE s = {}
    <3>1. g[s] = 0 BY <1>1, <2>1
    <3> QED BY <3>1
  <2>2. CASE s # {}
    <3> DEFINE r == s \ {ch[s]}
    <3>1. ch[s] \in s BY <2>2
    <3>2. r \in SUBSET s /\ r # s BY <3>1
    <3> HIDE DEF r
    <3>3. g[r] \in Nat BY <1>2, <3>2
    <3>4. f[ch[s]] \in Nat BY <3>1
    <3>5. g[s] = f[ch[s]] + g[r] BY <1>1, <2>2 DEF r
    <3> QED BY <3>3, <3>4, <3>5
  <2> QED BY <2>1, <2>2
<1>3. U \in SUBSET SUBSET D OBVIOUS
<1> HIDE DEF U
<1>4. U = SUBSET D BY <1>2, <1>3, InductSubsets
<1>5. \A s \in SUBSET D : g[s] \in Nat BY <1>4 DEF U
<1>6. g = [s \in SUBSET D |-> g[s]] BY DEF Takes
<1> QED BY <1>5, <1>6

\* and whatever ch chooses, they are the sums.
LEMMA TakesSum ==
  ASSUME NEW D, IsFiniteSet(D), NEW f \in [D -> Nat], NEW ch,
         \A s \in SUBSET D : s # {} => ch[s] \in s,
         NEW g, Takes(g, f, ch, SUBSET D)
  PROVE  IsSum(g, f, D)
<1> g \in [SUBSET D -> Nat] BY TakesType
<1> DEFINE T == {s \in SUBSET D : \A x \in s : g[s] = f[x] + g[s \ {x}]}
<1>0. \A s \in SUBSET D : g[s] = IF s = {} THEN 0 ELSE f[ch[s]] + g[s \ {ch[s]}]
  BY DEF Takes
<1>1. ASSUME NEW s \in SUBSET D, \A t \in SUBSET s : t # s => t \in T,
             NEW x \in s, x # ch[s]
      PROVE  g[s] = f[x] + g[s \ {x}]
  <2> DEFINE y == ch[s]
             r == s \ {x, y}
  <2>1. y \in s BY <1>1
  <2>2. g[s] = f[y] + g[s \ {y}] BY <1>0, <1>1
  <2>3. g[s \ {y}] = f[x] + g[r]
    <3>1. s \ {y} \in T /\ x \in s \ {y} /\ (s \ {y}) \ {x} = r BY <1>1, <2>1
    <3> QED BY <3>1
  <2>4. g[s \ {x}] = f[y] + g[r]
    <3>1. s \ {x} \in T /\ y \in s \ {x} /\ (s \ {x}) \ {y} = r BY <1>1, <2>1
    <3> QED BY <3>1
  <2>5. f[x] \in Nat /\ f[y] \in Nat /\ g[r] \in Nat BY <1>1, <2>1
  <2> HIDE DEF y, r
  <2> QED BY <2>2, <2>3, <2>4, <2>5
<1>2. ASSUME NEW s \in SUBSET D, \A t \in SUBSET s : t # s => t \in T
      PROVE  s \in T
  <2>1. ASSUME NEW x \in s, x = ch[s] PROVE g[s] = f[x] + g[s \ {x}] BY <1>0, <2>1
  <2> QED BY <1>1, <1>2, <2>1
<1>3. T \in SUBSET SUBSET D OBVIOUS
<1> HIDE DEF T
<1>4. T = SUBSET D BY <1>2, <1>3, InductSubsets
<1>5. g[{}] = 0 BY <1>0
<1> QED BY <1>4, <1>5 DEF T, IsSum

LEMMA SumTake ==
  ASSUME NEW D, NEW f \in [D -> Nat], NEW g, IsSum(g, f, D),
         NEW s \in SUBSET D, NEW x \in s, NEW r, r = s \ {x}
  PROVE  g[s] = f[x] + g[r] /\ f[x] \in Nat /\ g[r] \in Nat
BY DEF IsSum

Reversed(e, f, n) == \A j \in 1 .. n : e[j] = f[n + 1 - j]

\* A sum along an interval, taken from either end.
LEMMA SumReversed ==
  ASSUME NEW n \in Nat, NEW D, D = 1 .. n, NEW e \in [D -> Nat], NEW f \in [D -> Nat],
         Reversed(e, f, n), NEW g, IsSum(g, e, D), NEW h, IsSum(h, f, D)
  PROVE  g[D] = h[D]
<1> DEFINE T == {k \in 0 .. n : g[1 .. k] = h[(n + 1 - k) .. n]}
<1>1. 0 \in T
  <2>1. 1 .. 0 = {} /\ (n + 1 - 0) .. n = {} OBVIOUS
  <2> QED BY <2>1 DEF IsSum
<1>2. ASSUME NEW k \in 0 .. n - 1, k \in T PROVE k + 1 \in T
  <2> DEFINE a == 1 .. k + 1
             c == (n - k) .. n
  <2>1. a \in SUBSET (1 .. n) /\ k + 1 \in a /\ a \ {k + 1} = 1 .. k OBVIOUS
  <2>2. c \in SUBSET (1 .. n) /\ n - k \in c /\ c \ {n - k} = (n + 1 - k) .. n OBVIOUS
  <2>3. g[a] = e[k + 1] + g[1 .. k]
    <3> DEFINE r == 1 .. k
               x == k + 1
    <3>1. a \in SUBSET D /\ x \in a /\ r = a \ {x} BY <2>1
    <3> HIDE DEF a, r, x
    <3>2. g[a] = e[x] + g[r] BY <3>1, IsSum(g, e, D) DEF IsSum
    <3> QED BY <3>2 DEF r, x
  <2>4. h[c] = f[n - k] + h[(n + 1 - k) .. n]
    <3> DEFINE r == (n + 1 - k) .. n
               x == n - k
    <3>1. c \in SUBSET D /\ x \in c /\ r = c \ {x} BY <2>2
    <3> HIDE DEF c, r, x
    <3>2. h[c] = f[x] + h[r] BY <3>1, IsSum(h, f, D) DEF IsSum
    <3> QED BY <3>2 DEF r, x
  <2>5. e[k + 1] = f[n - k]
    <3>1. k + 1 \in 1 .. n /\ n + 1 - (k + 1) = n - k OBVIOUS
    <3> QED BY <3>1 DEF Reversed
  <2>6. g[a] = h[c] BY <1>2, <2>3, <2>4, <2>5
  <2>7. n + 1 - (k + 1) = n - k /\ k + 1 \in 0 .. n OBVIOUS
  <2> QED BY <2>6, <2>7
<1> HIDE DEF T
<1>3. n \in T
  <2>1. \A k \in 0 .. n : k \in T BY <1>1, <1>2, InductTo
  <2> QED BY <2>1
<1>4. n + 1 - n = 1 OBVIOUS
<1> QED BY <1>3, <1>4 DEF T

\* The sum of the numbers below n.
LEMMA SumBelow ==
  ASSUME NEW n \in Nat, NEW e \in [0 .. n -> Nat], \A j \in 0 .. n : e[j] = j,
         NEW g, IsSum(g, e, 0 .. n)
  PROVE  2 * g[0 .. n] = n * (n + 1)
<1> DEFINE T == {k \in 0 .. n : 2 * g[0 .. k] = k * (k + 1)}
<1>1. 0 \in T
  <2>1. 0 .. 0 \in SUBSET (0 .. n) /\ 0 \in 0 .. 0 /\ (0 .. 0) \ {0} = {} OBVIOUS
  <2>2. g[0 .. 0] = e[0] + g[{}] BY <2>1, SumTake
  <2>3. g[0 .. 0] = 0 BY <2>2 DEF IsSum
  <2> QED BY <2>3
<1>2. ASSUME NEW k \in 0 .. n - 1, k \in T PROVE k + 1 \in T
  <2> DEFINE a == 0 .. k + 1
  <2>1. a \in SUBSET (0 .. n) /\ k + 1 \in a /\ a \ {k + 1} = 0 .. k OBVIOUS
  <2>2. g[a] = e[k + 1] + g[0 .. k] BY <2>1, SumTake
  <2>3. e[k + 1] = k + 1 /\ k + 1 \in 0 .. n OBVIOUS
  <2>4. g[0 .. k] \in Nat
    <3>1. 0 .. k \in SUBSET (0 .. n) OBVIOUS
    <3> QED BY <3>1 DEF IsSum
  <2>5. 2 * g[0 .. k] = k * (k + 1) BY <1>2
  <2> HIDE DEF a
  <2>6. 2 * g[a] = 2 * (k + 1) + 2 * g[0 .. k] BY <2>2, <2>3, <2>4
  <2>7. 2 * (k + 1) + k * (k + 1) = (k + 1) * (k + 1 + 1) OBVIOUS
  <2> QED BY <2>3, <2>5, <2>6, <2>7 DEF a
<1> HIDE DEF T
<1>3. n \in T
  <2>1. \A k \in 0 .. n : k \in T BY <1>1, <1>2, InductTo
  <2> QED BY <2>1
<1> QED BY <1>3 DEF T

-----------------------------------------------------------------------------
(* Folds over a sequence, from its first element to its last               *)

\* As the library takes the elements: the last one of a set of positions.
Highest(s) == CHOOSE x \in s : \A y \in s : x >= y

LEMMA HighestOf ==
  ASSUME NEW n \in Nat, NEW s \in SUBSET (1 .. n), s # {}
  PROVE  Highest(s) \in s /\ \A y \in s : Highest(s) >= y
<1> DEFINE T == {m \in 0 .. n : n - m \in s}
<1>1. T \in SUBSET Nat OBVIOUS
<1>2. \A y \in s : y \in 1 .. n /\ n - y \in T OBVIOUS
<1>3. T # {} BY <1>2
<1>4. \A m \in T : m \in Nat /\ n - m \in s OBVIOUS
<1> HIDE DEF T
<1>5. PICK m \in T : \A k \in T : m <= k BY <1>1, <1>3, Least
<1>6. ASSUME NEW y \in s PROVE n - m >= y
  <2>1. y \in 1 .. n /\ n - y \in T /\ m <= n - y BY <1>2, <1>5
  <2> QED BY <2>1, <1>4
<1>7. n - m \in s BY <1>4
<1> QED BY <1>6, <1>7 DEF Highest

LEMMA HighestUpTo ==
  ASSUME NEW n \in Nat, NEW k \in 1 .. n
  PROVE  Highest(1 .. k) = k /\ (1 .. k) \ {k} = 1 .. k - 1
<1>1. Highest(1 .. k) \in 1 .. k /\ \A y \in 1 .. k : Highest(1 .. k) >= y
  <2>1. 1 .. k \in SUBSET (1 .. n) /\ 1 .. k # {} OBVIOUS
  <2> QED BY <2>1, HighestOf
<1> QED BY <1>1

\* g folds seq with the step f, over each set of positions.
Folds(g, f, base, seq, D) ==
  g = [s \in SUBSET D |->
         IF s = {} THEN base ELSE f[<<g[s \ {Highest(s)}], seq[Highest(s)]>>]]

\* Such a g exists.
LEMMA FoldExists ==
  ASSUME NEW n \in Nat, NEW D, D = 1 .. n, NEW A, NEW X, NEW seq \in [D -> X],
         NEW base \in A, NEW f \in [A \X X -> A]
  PROVE  \E g \in [SUBSET D -> A] : Folds(g, f, base, seq, D)
<1> DEFINE B(m) == {s \in SUBSET D : Cardinality(s) <= m}
           Over(g, m) ==
             g = [s \in B(m) |->
                    IF s = {} THEN base ELSE f[<<g[s \ {Highest(s)}], seq[Highest(s)]>>]]
           T == {m \in Nat : \E g \in [B(m) -> A] : Over(g, m)}
<1>0. /\ IsFiniteSet(D) /\ Cardinality(D) = n
      /\ \A s \in SUBSET D : IsFiniteSet(s) /\ Cardinality(s) \in Nat /\ Cardinality(s) <= n
  <2>1. IsFiniteSet(D) /\ Cardinality(D) = n BY FS_Interval
  <2>2. \A s \in SUBSET D : IsFiniteSet(s) /\ Cardinality(s) <= Cardinality(D) BY <2>1, FS_Subset
  <2> QED BY <2>1, <2>2, FS_CardinalityType
<1>1. 0 \in T
  <2> DEFINE g == [s \in B(0) |-> base]
  <2>1. \A s \in B(0) : s = {} BY <1>0, FS_EmptySet
  <2>2. g \in [B(0) -> A] /\ Over(g, 0) BY <2>1
  <2> QED BY <2>2
<1>2. ASSUME NEW m \in T PROVE m + 1 \in T
  <2>1. PICK g \in [B(m) -> A] : Over(g, m) OBVIOUS
  <2> DEFINE h == [s \in B(m + 1) |->
                     IF s = {} THEN base ELSE f[<<g[s \ {Highest(s)}], seq[Highest(s)]>>]]
  <2>2. ASSUME NEW s \in B(m + 1), s # {}
        PROVE  Highest(s) \in D /\ s \ {Highest(s)} \in B(m) /\ s \ {Highest(s)} \in B(m + 1)
    <3>1. Highest(s) \in s BY <2>2, HighestOf
    <3>2. IsFiniteSet(s) /\ Cardinality(s) \in Nat /\ Cardinality(s) <= m + 1 BY <1>0
    <3> DEFINE x == Highest(s)
    <3>3. x \in s BY <3>1
    <3> HIDE DEF x
    <3>4. Cardinality(s \ {x}) = Cardinality(s) - 1 BY <3>2, <3>3, FS_RemoveElement
    <3>5. Cardinality(s \ {x}) <= m /\ Cardinality(s \ {x}) <= m + 1 BY <3>2, <3>4
    <3>6. s \in SUBSET D OBVIOUS
    <3>7. s \ {x} \in SUBSET D /\ x \in D BY <3>3, <3>6
    <3>8. s \ {x} \in B(m) /\ s \ {x} \in B(m + 1) BY <3>5, <3>7
    <3> QED BY <3>7, <3>8 DEF x
  <2>3. h \in [B(m + 1) -> A]
    <3> SUFFICES ASSUME NEW s \in B(m + 1), s # {}
                 PROVE  f[<<g[s \ {Highest(s)}], seq[Highest(s)]>>] \in A
      OBVIOUS
    <3>1. g[s \ {Highest(s)}] \in A /\ seq[Highest(s)] \in X BY <2>2
    <3> QED BY <3>1
  <2>4. ASSUME NEW s \in B(m) PROVE s \in B(m + 1) BY <1>0
  <2>5. ASSUME NEW s \in B(m) PROVE h[s] = g[s]
    <3>1. g[s] = IF s = {} THEN base ELSE f[<<g[s \ {Highest(s)}], seq[Highest(s)]>>] BY <2>1
    <3> QED BY <2>4, <3>1
  <2>6. Over(h, m + 1)
    <3> SUFFICES ASSUME NEW s \in B(m + 1), s # {}
                 PROVE  g[s \ {Highest(s)}] = h[s \ {Highest(s)}]
      OBVIOUS
    <3> QED BY <2>2, <2>5
  <2> HIDE DEF h
  <2>7. m + 1 \in Nat OBVIOUS
  <2> HIDE DEF B
  <2> QED BY <2>3, <2>6, <2>7
<1>3. T \in SUBSET Nat OBVIOUS
<1>4. B(n) = SUBSET D BY <1>0
<1>5. n \in T
  <2> HIDE DEF T
  <2> QED BY <1>1, <1>2, <1>3, Induct
<1> QED BY <1>4, <1>5 DEF Folds

\* c gives the results of f one after the other.
Chained(n, D, E, A, X, seq, f, c) ==
  /\ n \in Nat /\ D = 1 .. n /\ E = 0 .. n /\ seq \in [D -> X] /\ f \in [A \X X -> A]
  /\ c[0] \in A
  /\ \A k \in D : c[k - 1] \in A => c[k] = f[<<c[k - 1], seq[k]>>]

\* They stay where f stays.
LEMMA FoldChain ==
  ASSUME NEW n, NEW D, NEW E, NEW A, NEW X, NEW seq, NEW f, NEW c,
         Chained(n, D, E, A, X, seq, f, c)
  PROVE  \A k \in E : c[k] \in A
<1> USE DEF Chained
<1> DEFINE T == {k \in E : c[k] \in A}
<1>1. 0 \in T /\ n \in Nat OBVIOUS
<1>2. ASSUME NEW k \in 0 .. n - 1, k \in T PROVE k + 1 \in T
  <2>1. k + 1 \in D /\ (k + 1) - 1 = k /\ k + 1 \in E OBVIOUS
  <2>2. c[k + 1] = f[<<c[k], seq[k + 1]>>] BY <1>2, <2>1
  <2>3. c[k] \in A /\ seq[k + 1] \in X BY <1>2, <2>1
  <2> QED BY <2>1, <2>2, <2>3
<1> HIDE DEF T
<1>3. \A k \in 0 .. n : k \in T BY <1>1, <1>2, InductTo
<1> QED BY <1>3 DEF T

\* f can be taken from base along seq; D are its positions, E has 0 in front.
Walks(n, D, E, A, X, seq, base, f) ==
  /\ n \in Nat /\ D = 1 .. n /\ E = 0 .. n
  /\ seq \in [D -> X] /\ base \in A /\ f \in [A \X X -> A]

\* c holds the results of f from the first element to the last.
Steps(c, seq, f, base, D) == c[0] = base /\ \A i \in D : c[i] = f[<<c[i - 1], seq[i]>>]

LEMMA StepsExist ==
  ASSUME NEW n, NEW D, NEW E, NEW A, NEW X, NEW seq, NEW base, NEW f,
         Walks(n, D, E, A, X, seq, base, f)
  PROVE  \E c \in [E -> A] : Steps(c, seq, f, base, D)
<1>0. /\ n \in Nat /\ D = 1 .. n /\ E = 0 .. n
      /\ seq \in [D -> X] /\ base \in A /\ f \in [A \X X -> A]
  BY DEF Walks
<1>1. PICK g \in [SUBSET D -> A] : Folds(g, f, base, seq, D) BY <1>0, FoldExists
<1> DEFINE c == [k \in E |-> g[1 .. k]]
<1>2. c \in [E -> A]
  <2>1. \A k \in E : 1 .. k \in SUBSET D BY <1>0
  <2> QED BY <1>1, <2>1
<1>3. c[0] = base
  <2>1. 1 .. 0 = {} /\ 0 \in E /\ {} \in SUBSET D BY <1>0
  <2> QED BY <1>1, <2>1 DEF Folds
<1>4. ASSUME NEW k \in D PROVE c[k] = f[<<c[k - 1], seq[k]>>]
  <2>1. 1 .. k \in SUBSET D /\ 1 \in 1 .. k /\ k \in E /\ k - 1 \in E BY <1>0
  <2>2. Highest(1 .. k) = k /\ (1 .. k) \ {k} = 1 .. k - 1 BY <1>0, HighestUpTo
  <2>3. g[1 .. k] = f[<<g[1 .. k - 1], seq[k]>>] BY <1>1, <2>1, <2>2 DEF Folds
  <2>4. c[k] = g[1 .. k] /\ c[k - 1] = g[1 .. k - 1] BY <2>1
  <2> QED BY <2>3, <2>4
<1> HIDE DEF c
<1> QED BY <1>2, <1>3, <1>4 DEF Steps

-----------------------------------------------------------------------------
(* The elements of a sequence that are in a set                            *)

KeptUpTo(s, set, c, n) ==
  /\ c[0] = <<>>
  /\ \A i \in 1 .. n : c[i] = IF s[i] \in set THEN Append(c[i - 1], s[i]) ELSE c[i - 1]

LEMMA KeptSteps ==
  ASSUME NEW X, NEW s \in Seq(X), NEW set
  PROVE  \E c : /\ \A i \in 0 .. Len(s) : c[i] \in Seq(X)
               /\ KeptUpTo(s, set, c, Len(s)) /\ Kept(s, set) = c[Len(s)]
<1> DEFINE n == Len(s)
           E == 0 .. n
           D == 1 .. n
           A == Seq(X)
           f == [q \in A \X X |-> IF q[2] \in set THEN Append(q[1], q[2]) ELSE q[1]]
           Is(c) == c = [i \in E |->
                           IF i = 0 THEN <<>>
                           ELSE IF s[i] \in set THEN Append(c[i - 1], s[i]) ELSE c[i - 1]]
           c == CHOOSE g : Is(g)
<1>1. f \in [A \X X -> A] /\ <<>> \in A OBVIOUS
<1>0. n \in Nat /\ s \in [D -> X] /\ D = 1 .. n /\ E = 0 .. n /\ Walks(n, D, E, A, X, s, <<>>, f)
  BY <1>1, LenProperties DEF Walks
<1>2. \A a \in A, x \in X : f[<<a, x>>] = IF x \in set THEN Append(a, x) ELSE a OBVIOUS
<1>3. Kept(s, set) = c[n] BY DEF Kept
<1> HIDE DEF f, c, A, D, E, n
<1>10. PICK g \in [E -> A] : Steps(g, s, f, <<>>, D) BY <1>0, StepsExist
<1>4. g[0] = <<>> /\ \A i \in D : g[i] = f[<<g[i - 1], s[i]>>] BY <1>10 DEF Steps
<1>5. \A i \in D : g[i] = IF s[i] \in set THEN Append(g[i - 1], s[i]) ELSE g[i - 1]
  <2>1. \A i \in D : i - 1 \in E /\ s[i] \in X BY <1>0
  <2>2. \A i \in D : g[i - 1] \in A BY <2>1, <1>4
  <2> QED BY <1>2, <1>4, <2>1, <2>2
<1>6. Is(g)
  <2>1. \A i \in E : i = 0 \/ i \in D BY <1>0
  <2>2. ASSUME NEW i \in E
        PROVE  g[i] = IF i = 0 THEN <<>>
                      ELSE IF s[i] \in set THEN Append(g[i - 1], s[i]) ELSE g[i - 1]
    BY <1>4, <1>5, <2>1
  <2> QED BY <2>2
<1>7. Is(c) BY <1>6 DEF c
<1>8. /\ c[0] = <<>>
      /\ \A i \in D : c[i] = IF s[i] \in set THEN Append(c[i - 1], s[i]) ELSE c[i - 1]
  <2>1. 0 \in E /\ \A i \in D : i \in E /\ i # 0 BY <1>0
  <2> QED BY <1>7, <2>1
<1> HIDE DEF Is
<1>9. \A i \in E : c[i] \in A
  <2>1. \A k \in D : c[k - 1] \in A => c[k] = f[<<c[k - 1], s[k]>>]
    <3>1. \A k \in D : s[k] \in X BY <1>0
    <3> QED BY <1>2, <1>8, <3>1
  <2>2. Chained(n, D, E, A, X, s, f, c) BY <1>0, <1>1, <1>8, <2>1 DEF Chained
  <2> QED BY <2>2, FoldChain
<1> QED BY <1>3, <1>8, <1>9 DEF KeptUpTo, A, D, E, n

LEMMA KeptAppend ==
  ASSUME NEW X, NEW s \in Seq(X), NEW x \in X, NEW set
  PROVE  Kept(Append(s, x), set) = IF x \in set THEN Append(Kept(s, set), x) ELSE Kept(s, set)
<1> DEFINE n == Len(s)
           t == Append(s, x)
<1>1. /\ t \in Seq(X) /\ n \in Nat /\ Len(t) = n + 1 /\ t[n + 1] = x
      /\ \A i \in 1 .. n : t[i] = s[i]
  BY AppendProperties, LenProperties
<1>2. PICK c : KeptUpTo(s, set, c, n) /\ Kept(s, set) = c[n] BY KeptSteps
<1> HIDE DEF t, n
<1>9. PICK d : KeptUpTo(t, set, d, Len(t)) /\ Kept(t, set) = d[Len(t)] BY <1>1, KeptSteps
<1>3. KeptUpTo(t, set, d, n + 1) /\ Kept(t, set) = d[n + 1] BY <1>1, <1>9
<1> DEFINE T == {k \in 0 .. n : c[k] = d[k]}
<1>4. 0 \in T BY <1>1, <1>2, <1>3 DEF KeptUpTo
<1>5. ASSUME NEW k \in 0 .. n - 1, k \in T PROVE k + 1 \in T
  <2>1. k + 1 \in 1 .. n /\ k + 1 \in 1 .. n + 1 /\ k + 1 \in 0 .. n /\ (k + 1) - 1 = k BY <1>1
  <2>2. c[k + 1] = IF s[k + 1] \in set THEN Append(c[k], s[k + 1]) ELSE c[k]
    BY <1>2, <2>1 DEF KeptUpTo
  <2>3. d[k + 1] = IF t[k + 1] \in set THEN Append(d[k], t[k + 1]) ELSE d[k]
    BY <1>3, <2>1 DEF KeptUpTo
  <2>4. c[k + 1] = d[k + 1] BY <1>1, <1>5, <2>1, <2>2, <2>3
  <2> QED BY <2>1, <2>4
<1> HIDE DEF T
<1>6. \A k \in 0 .. n : k \in T BY <1>1, <1>4, <1>5, InductTo
<1>7. c[n] = d[n] BY <1>1, <1>6 DEF T
<1>8. d[n + 1] = IF x \in set THEN Append(d[n], x) ELSE d[n]
  <2>1. n + 1 \in 1 .. n + 1 /\ (n + 1) - 1 = n BY <1>1
  <2> QED BY <1>1, <1>3, <2>1 DEF KeptUpTo
<1> QED BY <1>2, <1>3, <1>7, <1>8 DEF t

\* A selection that is not empty picked some element.
LEMMA KeptSome ==
  ASSUME NEW X, NEW s \in Seq(X), NEW set, Kept(s, set) # <<>>
  PROVE  \E j \in 1 .. Len(s) : s[j] \in set
<1> SUFFICES ASSUME \A j \in 1 .. Len(s) : s[j] \notin set PROVE Kept(s, set) = <<>> OBVIOUS
<1>1. PICK c : KeptUpTo(s, set, c, Len(s)) /\ Kept(s, set) = c[Len(s)] BY KeptSteps
<1> DEFINE n == Len(s)
           T == {i \in 0 .. n : c[i] = <<>>}
<1>2. n \in Nat /\ 0 \in T BY <1>1, LenProperties DEF KeptUpTo
<1>3. ASSUME NEW i \in 0 .. n - 1, i \in T PROVE i + 1 \in T
  <2>1. i + 1 \in 1 .. n /\ i + 1 \in 0 .. n /\ (i + 1) - 1 = i BY <1>2
  <2>2. c[i + 1] = c[i] BY <1>1, <2>1 DEF KeptUpTo
  <2> QED BY <1>3, <2>1, <2>2
<1> HIDE DEF T
<1>4. \A i \in 0 .. n : i \in T BY <1>2, <1>3, InductTo
<1>5. n \in 0 .. n BY <1>2
<1> QED BY <1>1, <1>4, <1>5 DEF T

LEMMA KeptType ==
  ASSUME NEW X, NEW s \in Seq(X), NEW set
  PROVE  Kept(s, set) \in Seq(X) /\ (s = <<>> => Kept(s, set) = <<>>)
<1>1. PICK c : /\ \A i \in 0 .. Len(s) : c[i] \in Seq(X)
               /\ KeptUpTo(s, set, c, Len(s)) /\ Kept(s, set) = c[Len(s)]
  BY KeptSteps
<1>2. Len(s) \in 0 .. Len(s) BY LenProperties
<1>3. s = <<>> => Len(s) = 0 BY EmptySeq
<1> QED BY <1>1, <1>2, <1>3 DEF KeptUpTo

-----------------------------------------------------------------------------
(* Sequences one behind the other, as the library joins them               *)

Flat(seqs) ==
  IF Len(seqs) = 0 THEN seqs ELSE
    LET flatten[i \in 1 .. Len(seqs)] ==
          IF i = 1 THEN seqs[i] ELSE flatten[i - 1] \o seqs[i]
    IN flatten[Len(seqs)]

LEMMA FlatType ==
  ASSUME NEW X, NEW seqs \in Seq(Seq(X))
  PROVE  Flat(seqs) \in Seq(X)
<1> DEFINE n == Len(seqs)
           D == 1 .. n
           E == 0 .. n
           A == Seq(X)
           f == [q \in A \X A |-> q[1] \o q[2]]
           Is(h) == h = [i \in D |-> IF i = 1 THEN seqs[i] ELSE h[i - 1] \o seqs[i]]
           g == CHOOSE h : Is(h)
<1>1. f \in [A \X A -> A] /\ <<>> \in A OBVIOUS
<1>2. n \in Nat /\ D = 1 .. n /\ E = 0 .. n /\ seqs \in [D -> A]
  BY LenProperties
<1>3. \A a, b \in A : f[<<a, b>>] = a \o b OBVIOUS
<1>4. CASE n = 0
  <2>1. seqs = <<>> BY <1>4, EmptySeq
  <2>2. Flat(seqs) = <<>> BY <1>4, <2>1 DEF Flat
  <2> QED BY <2>2
<1>5. CASE n # 0
  <2>1. Flat(seqs) = g[n] BY <1>5 DEF Flat
  <2>2. Walks(n, D, E, A, A, seqs, <<>>, f) BY <1>1, <1>2 DEF Walks
  <2>20. \A a \in A : <<>> \o a = a BY ConcatEmptySeq
  <2> HIDE DEF f, g, A, D, E, n
  <2>3. PICK c \in [E -> A] : Steps(c, seqs, f, <<>>, D) BY <2>2, StepsExist
  <2>4. ASSUME NEW i \in D
        PROVE  /\ c[i - 1] \in A /\ seqs[i] \in A /\ c[i] = c[i - 1] \o seqs[i]
               /\ i = 1 => c[i] = seqs[i]
    <3>1. i - 1 \in E /\ seqs[i] \in A /\ c[i] = f[<<c[i - 1], seqs[i]>>] /\ c[0] = <<>>
      BY <1>2, <2>3 DEF Steps
    <3>2. c[i - 1] \in A BY <3>1
    <3>3. c[i] = c[i - 1] \o seqs[i] BY <1>3, <3>1, <3>2
    <3>4. i = 1 => c[i - 1] = <<>> BY <3>1
    <3> QED BY <2>20, <3>1, <3>2, <3>3, <3>4
  <2> DEFINE k == [i \in D |-> c[i]]
  <2>5. Is(k)
    <3>1. \A i \in D : i # 1 => i - 1 \in D BY <1>2
    <3> QED BY <2>4, <3>1
  <2> HIDE DEF k
  <2>6. Is(g) BY <2>5 DEF g
  <2> DEFINE T == {i \in D : g[i] \in A}
  <2>7. 1 \in T
    <3>1. 1 \in D BY <1>2, <1>5
    <3>2. g[1] = seqs[1] BY <2>6, <3>1
    <3> QED BY <1>2, <3>1, <3>2
  <2>8. ASSUME NEW i \in 1 .. n - 1, i \in T PROVE i + 1 \in T
    <3>1. i + 1 \in D /\ i + 1 # 1 /\ (i + 1) - 1 = i BY <1>2
    <3>2. g[i + 1] = g[i] \o seqs[i + 1] BY <2>6, <3>1
    <3>3. g[i] \in A /\ seqs[i + 1] \in A BY <1>2, <2>8, <3>1
    <3>4. g[i] \o seqs[i + 1] \in A BY <3>3 DEF A
    <3> QED BY <3>1, <3>2, <3>4
  <2> DEFINE S == {i \in 0 .. n - 1 : i + 1 \in T}
  <2> HIDE DEF T
  <2>9. 0 \in S BY <1>2, <1>5, <2>7
  <2>10. ASSUME NEW i \in 0 .. n - 1 - 1, i \in S PROVE i + 1 \in S
    <3>1. i + 1 \in 1 .. n - 1 /\ i + 1 \in 0 .. n - 1 BY <1>2
    <3> QED BY <2>8, <2>10, <3>1
  <2>11. n - 1 \in Nat BY <1>2, <1>5
  <2> HIDE DEF S
  <2>12. \A i \in 0 .. n - 1 : i \in S BY <2>9, <2>10, <2>11, InductTo
  <2>13. (n - 1) + 1 \in T BY <1>2, <1>5, <2>12 DEF S
  <2>14. n \in T BY <1>2, <2>13
  <2> QED BY <2>1, <2>14 DEF T, A
<1> QED BY <1>4, <1>5

LEMMA AppendBehind ==
  ASSUME NEW S, NEW p \in Seq(S), NEW q \in Seq(S), NEW z \in S
  PROVE  p \o Append(q, z) = Append(p \o q, z)
OBVIOUS

\* Two selections of one sequence agree where their sets do.
LEMMA KeptSame ==
  ASSUME NEW X, NEW s \in Seq(X), NEW one, NEW two,
         \A i \in 1 .. Len(s) : s[i] \in one <=> s[i] \in two
  PROVE  Kept(s, one) = Kept(s, two)
<1>1. PICK c : KeptUpTo(s, one, c, Len(s)) /\ Kept(s, one) = c[Len(s)] BY KeptSteps
<1>2. PICK d : KeptUpTo(s, two, d, Len(s)) /\ Kept(s, two) = d[Len(s)] BY KeptSteps
<1> DEFINE n == Len(s)
           T == {i \in 0 .. n : c[i] = d[i]}
<1>3. n \in Nat /\ 0 \in T BY <1>1, <1>2, LenProperties DEF KeptUpTo
<1>4. ASSUME NEW i \in 0 .. n - 1, i \in T PROVE i + 1 \in T
  <2>1. i + 1 \in 1 .. n /\ i + 1 \in 0 .. n /\ (i + 1) - 1 = i BY <1>3
  <2>2. c[i + 1] = IF s[i + 1] \in one THEN Append(c[i], s[i + 1]) ELSE c[i]
    BY <1>1, <2>1 DEF KeptUpTo
  <2>3. d[i + 1] = IF s[i + 1] \in two THEN Append(d[i], s[i + 1]) ELSE d[i]
    BY <1>2, <2>1 DEF KeptUpTo
  <2>4. s[i + 1] \in one <=> s[i + 1] \in two BY <2>1
  <2>5. c[i + 1] = d[i + 1] BY <1>4, <2>2, <2>3, <2>4
  <2> QED BY <2>1, <2>5
<1> HIDE DEF T
<1>5. \A i \in 0 .. n : i \in T BY <1>3, <1>4, InductTo
<1>6. n \in 0 .. n BY <1>3
<1> QED BY <1>1, <1>2, <1>5, <1>6 DEF T

\* The elements of a selection.
LEMMA KeptSet ==
  ASSUME NEW X, NEW s \in Seq(X), NEW set
  PROVE  /\ \A i \in 1 .. Len(Kept(s, set)) :
              \E j \in 1 .. Len(s) : s[j] \in set /\ Kept(s, set)[i] = s[j]
         /\ \A j \in 1 .. Len(s) :
              s[j] \in set => \E i \in 1 .. Len(Kept(s, set)) : Kept(s, set)[i] = s[j]
<1>1. PICK c : /\ \A i \in 0 .. Len(s) : c[i] \in Seq(X)
               /\ KeptUpTo(s, set, c, Len(s)) /\ Kept(s, set) = c[Len(s)]
  BY KeptSteps
<1> DEFINE n == Len(s)
           T == {k \in 0 .. n :
                   /\ \A i \in 1 .. Len(c[k]) : \E j \in 1 .. k : s[j] \in set /\ c[k][i] = s[j]
                   /\ \A j \in 1 .. k : s[j] \in set => \E i \in 1 .. Len(c[k]) : c[k][i] = s[j]}
<1>2. n \in Nat BY LenProperties
<1>3. 0 \in T
  <2>1. c[0] = <<>> /\ 1 .. 0 = {} BY <1>1 DEF KeptUpTo
  <2>2. Len(c[0]) = 0 BY <2>1
  <2> QED BY <1>2, <2>1, <2>2
<1>4. ASSUME NEW k \in 0 .. n - 1, k \in T PROVE k + 1 \in T
  <2> DEFINE m == k + 1
             x == s[m]
             b == c[k]
             l == Len(b)
  <2>1. m \in 1 .. n /\ m \in 0 .. n /\ m - 1 = k /\ k \in 0 .. n BY <1>2
  <2>2. c[m] = IF x \in set THEN Append(b, x) ELSE b BY <1>1, <2>1 DEF KeptUpTo
  <2>3. \A i \in 1 .. m : i \in 1 .. k \/ i = m BY <1>2
  <2>4. \A i \in 1 .. k : i \in 1 .. m BY <1>2
  <2>5. m \in 1 .. m BY <1>2
  <2>6. b \in Seq(X) /\ x \in X BY <1>1, <2>1, ElementOfSeq
  <2>7. /\ \A i \in 1 .. l : \E j \in 1 .. k : s[j] \in set /\ b[i] = s[j]
        /\ \A j \in 1 .. k : s[j] \in set => \E i \in 1 .. l : b[i] = s[j]
    BY <1>4
  <2>8. CASE x \in set
    <3> DEFINE a == Append(b, x)
    <3>1. l \in Nat /\ Len(a) = l + 1 /\ a[l + 1] = x /\ \A i \in 1 .. l : a[i] = b[i]
      BY <2>6, AppendProperties, LenProperties
    <3>2. c[m] = a BY <2>2, <2>8
    <3>3. \A i \in 1 .. l + 1 : i \in 1 .. l \/ i = l + 1 BY <3>1
    <3>4. \A i \in 1 .. l : i \in 1 .. l + 1 BY <3>1
    <3>5. l + 1 \in 1 .. l + 1 BY <3>1
    <3> HIDE DEF a, x, b, l, m
    <3>6. \A i \in 1 .. l + 1 : \E j \in 1 .. m : s[j] \in set /\ a[i] = s[j]
      <4> SUFFICES ASSUME NEW i \in 1 .. l + 1 PROVE \E j \in 1 .. m : s[j] \in set /\ a[i] = s[j]
        OBVIOUS
      <4>1. CASE i \in 1 .. l
        <5>1. PICK j \in 1 .. k : s[j] \in set /\ b[i] = s[j] BY <2>7, <4>1
        <5> QED BY <2>4, <3>1, <4>1, <5>1
      <4>2. CASE i = l + 1
        <5>1. a[i] = s[m] /\ s[m] \in set BY <2>8, <3>1, <4>2 DEF x
        <5> QED BY <2>5, <5>1
      <4> QED BY <3>3, <4>1, <4>2
    <3>7. \A j \in 1 .. m : s[j] \in set => \E i \in 1 .. l + 1 : a[i] = s[j]
      BY <2>3, <2>7, <3>1, <3>4, <3>5 DEF x
    <3> QED BY <2>1, <3>1, <3>2, <3>6, <3>7 DEF m
  <2>9. CASE x \notin set
    <3>1. c[m] = b BY <2>2, <2>9
    <3> HIDE DEF x, b, l, m
    <3>2. \A i \in 1 .. l : \E j \in 1 .. m : s[j] \in set /\ b[i] = s[j] BY <2>4, <2>7
    <3>3. \A j \in 1 .. m : s[j] \in set => \E i \in 1 .. l : b[i] = s[j]
      BY <2>3, <2>7, <2>9 DEF x
    <3> QED BY <2>1, <3>1, <3>2, <3>3 DEF m, l
  <2> QED BY <2>8, <2>9
<1> HIDE DEF T
<1>5. \A k \in 0 .. n : k \in T BY <1>2, <1>3, <1>4, InductTo
<1>6. n \in 0 .. n BY <1>2
<1>7. n \in T BY <1>5, <1>6
<1>8. Kept(s, set) = c[n] BY <1>1
<1> HIDE DEF n
<1>9. /\ \A i \in 1 .. Len(c[n]) : \E j \in 1 .. n : s[j] \in set /\ c[n][i] = s[j]
      /\ \A j \in 1 .. n : s[j] \in set => \E i \in 1 .. Len(c[n]) : c[n][i] = s[j]
  BY <1>7 DEF T
<1> QED BY <1>8, <1>9 DEF n

\* A selection from two sequences, one behind the other.
LEMMA KeptConcat ==
  ASSUME NEW X, NEW s \in Seq(X), NEW t \in Seq(X), NEW set
  PROVE  Kept(s \o t, set) = Kept(s, set) \o Kept(t, set)
<1> DEFINE n == Len(s)
           m == Len(t)
           u == s \o t
<1>1. /\ u \in Seq(X) /\ n \in Nat /\ m \in Nat /\ Len(u) = n + m
      /\ \A i \in 1 .. n : u[i] = s[i]
      /\ \A i \in 1 .. m : u[n + i] = t[i]
  <2>1. u \in Seq(X) /\ Len(u) = Len(s) + Len(t) BY ConcatProperties
  <2>2. \A i \in 1 .. Len(s) + Len(t) : u[i] = IF i <= Len(s) THEN s[i] ELSE t[i - Len(s)]
    BY ConcatProperties
  <2>3. n \in Nat /\ m \in Nat BY LenProperties
  <2> HIDE DEF u
  <2>4. \A i \in 1 .. n : i \in 1 .. n + m /\ i <= n BY <2>3
  <2>5. \A i \in 1 .. m : n + i \in 1 .. n + m /\ ~(n + i <= n) /\ (n + i) - n = i BY <2>3
  <2>6. \A i \in 1 .. n : u[i] = s[i] BY <2>2, <2>4
  <2>7. \A i \in 1 .. m : u[n + i] = t[i] BY <2>2, <2>5
  <2> QED BY <2>1, <2>3, <2>6, <2>7
<1>2. PICK c : /\ \A i \in 0 .. n : c[i] \in Seq(X)
               /\ KeptUpTo(s, set, c, n) /\ Kept(s, set) = c[n]
  BY KeptSteps
<1>3. PICK d : /\ \A i \in 0 .. m : d[i] \in Seq(X)
               /\ KeptUpTo(t, set, d, m) /\ Kept(t, set) = d[m]
  BY KeptSteps
<1> HIDE DEF u, n, m
<1>9. PICK e : KeptUpTo(u, set, e, Len(u)) /\ Kept(u, set) = e[Len(u)] BY <1>1, KeptSteps
<1>4. KeptUpTo(u, set, e, n + m) /\ Kept(u, set) = e[n + m] BY <1>1, <1>9
<1>5. \A i \in 0 .. n : e[i] = c[i]
  <2> DEFINE T == {i \in 0 .. n : e[i] = c[i]}
  <2>1. 0 \in T BY <1>1, <1>2, <1>4 DEF KeptUpTo
  <2>2. ASSUME NEW i \in 0 .. n - 1, i \in T PROVE i + 1 \in T
    <3>1. i + 1 \in 1 .. n /\ i + 1 \in 1 .. n + m /\ i + 1 \in 0 .. n /\ (i + 1) - 1 = i BY <1>1
    <3>2. c[i + 1] = IF s[i + 1] \in set THEN Append(c[i], s[i + 1]) ELSE c[i]
      BY <1>2, <3>1 DEF KeptUpTo
    <3>3. e[i + 1] = IF u[i + 1] \in set THEN Append(e[i], u[i + 1]) ELSE e[i]
      BY <1>4, <3>1 DEF KeptUpTo
    <3>4. e[i + 1] = c[i + 1] BY <1>1, <2>2, <3>1, <3>2, <3>3
    <3> QED BY <3>1, <3>4
  <2> HIDE DEF T
  <2>3. \A i \in 0 .. n : i \in T BY <1>1, <2>1, <2>2, InductTo
  <2> QED BY <2>3 DEF T
<1>6. \A i \in 0 .. m : e[n + i] = c[n] \o d[i]
  <2> DEFINE a == c[n]
             T == {i \in 0 .. m : e[n + i] = a \o d[i]}
  <2>0. a \in Seq(X)
    <3>1. n \in 0 .. n BY <1>1
    <3> QED BY <1>2, <3>1
  <2>1. 0 \in T
    <3>1. n \in 0 .. n /\ n + 0 = n /\ 0 \in 0 .. m BY <1>1
    <3>2. d[0] = <<>> BY <1>3 DEF KeptUpTo
    <3>3. e[n] = a BY <1>5, <3>1
    <3> HIDE DEF a
    <3>4. a \o <<>> = a BY <2>0
    <3> QED BY <3>1, <3>2, <3>3, <3>4
  <2>2. ASSUME NEW i \in 0 .. m - 1, i \in T PROVE i + 1 \in T
    <3> DEFINE k == n + (i + 1)
               b == d[i]
               x == t[i + 1]
    <3>1. /\ i + 1 \in 1 .. m /\ i + 1 \in 0 .. m /\ (i + 1) - 1 = i /\ i \in 0 .. m
          /\ k \in 1 .. n + m /\ k - 1 = n + i
      BY <1>1
    <3>2. d[i + 1] = IF x \in set THEN Append(b, x) ELSE b
      BY <1>3, <3>1 DEF KeptUpTo
    <3>3. e[k] = IF u[k] \in set THEN Append(e[n + i], u[k]) ELSE e[n + i]
      BY <1>4, <3>1 DEF KeptUpTo
    <3>4. u[k] = x BY <1>1, <3>1
    <3>5. e[n + i] = a \o b BY <2>2
    <3>6. b \in Seq(X) /\ x \in X
      <4>1. x \in X BY <3>1, ElementOfSeq DEF m
      <4> QED BY <1>3, <3>1, <4>1
    <3>7. a \o Append(b, x) = Append(a \o b, x)
      <4>1. a \in Seq(X) BY <2>0
      <4>2. b \in Seq(X) BY <3>6
      <4>3. x \in X BY <3>6
      <4> HIDE DEF a, b, x
      <4> QED BY <4>1, <4>2, <4>3, AppendBehind
    <3>8. e[k] = a \o d[i + 1] BY <3>2, <3>3, <3>4, <3>5, <3>7
    <3> QED BY <3>1, <3>8
  <2> HIDE DEF T
  <2>3. \A i \in 0 .. m : i \in T BY <1>1, <2>1, <2>2, InductTo
  <2> QED BY <2>3 DEF T
<1>7. m \in 0 .. m BY <1>1
<1> QED BY <1>2, <1>3, <1>4, <1>6, <1>7 DEF u

LEMMA KeptNone ==
  ASSUME NEW X, NEW s \in Seq(X), NEW set, \A j \in 1 .. Len(s) : s[j] \notin set
  PROVE  Kept(s, set) = <<>>
BY KeptSome

\* A selection that only one element belongs to.
LEMMA KeptOne ==
  ASSUME NEW X, NEW s \in Seq(X), NEW set, NEW j \in 1 .. Len(s),
         \A i \in 1 .. Len(s) : s[i] \in set <=> i = j
  PROVE  Kept(s, set) = <<s[j]>>
<1> DEFINE n == Len(s)
           x == s[j]
<1>1. PICK c : KeptUpTo(s, set, c, n) /\ Kept(s, set) = c[n] BY KeptSteps
<1> DEFINE one == <<x>>
           T == {i \in 0 .. n : c[i] = IF i < j THEN <<>> ELSE one}
<1>2. n \in Nat /\ 0 \in T /\ x \in X /\ Append(<<>>, x) = one
  <2>1. n \in Nat /\ x \in X BY LenProperties, ElementOfSeq
  <2>2. c[0] = <<>> BY <1>1 DEF KeptUpTo
  <2>3. Append(<<>>, x) = one OBVIOUS
  <2> HIDE DEF x
  <2> QED BY <2>1, <2>2, <2>3
<1> HIDE DEF one
<1>3. ASSUME NEW i \in 0 .. n - 1, i \in T PROVE i + 1 \in T
  <2>1. i + 1 \in 1 .. n /\ i + 1 \in 0 .. n /\ (i + 1) - 1 = i BY <1>2
  <2>2. c[i + 1] = IF s[i + 1] \in set THEN Append(c[i], s[i + 1]) ELSE c[i]
    BY <1>1, <2>1 DEF KeptUpTo
  <2>3. CASE i + 1 < j
    <3>1. s[i + 1] \notin set /\ i < j BY <2>1, <2>3
    <3> QED BY <1>3, <2>1, <2>2, <2>3, <3>1
  <2>4. CASE i + 1 = j
    <3>1. s[i + 1] \in set /\ i < j /\ s[i + 1] = x BY <2>1, <2>4
    <3>2. c[i + 1] = one BY <1>2, <1>3, <2>2, <3>1
    <3>3. ~(i + 1 < j) BY <2>4
    <3> QED BY <2>1, <3>2, <3>3
  <2>5. CASE i + 1 > j
    <3>1. s[i + 1] \notin set /\ ~(i < j) /\ ~(i + 1 < j) BY <2>1, <2>5
    <3> QED BY <1>3, <2>1, <2>2, <3>1
  <2> QED BY <2>1, <2>3, <2>4, <2>5
<1> HIDE DEF T
<1>4. \A i \in 0 .. n : i \in T BY <1>2, <1>3, InductTo
<1>5. n \in 0 .. n /\ ~(n < j) BY <1>2
<1>6. c[n] = one BY <1>4, <1>5 DEF T
<1> QED BY <1>1, <1>6 DEF one

\* What a table gives for each element of a sequence.
IsTable(table, X, Y) == table \in [X -> Y]
Mapped(seq, table) == [i \in DOMAIN seq |-> table[seq[i]]]

LEMMA MappedType ==
  ASSUME NEW X, NEW Y, NEW table, IsTable(table, X, Y), NEW s \in Seq(X)
  PROVE  /\ Mapped(s, table) \in Seq(Y) /\ Len(Mapped(s, table)) = Len(s)
         /\ \A i \in 1 .. Len(s) : Mapped(s, table)[i] = table[s[i]]
<1> DEFINE m == Mapped(s, table)
<1>1. DOMAIN s = 1 .. Len(s) /\ Len(s) \in Nat /\ \A i \in 1 .. Len(s) : s[i] \in X
  BY LenProperties, ElementOfSeq
<1>2. m \in [1 .. Len(s) -> Y] /\ \A i \in 1 .. Len(s) : m[i] = table[s[i]] BY <1>1 DEF Mapped, IsTable
<1> HIDE DEF m
<1>3. m \in Seq(Y) BY <1>1, <1>2, IsASeq
<1>4. Len(m) = Len(s)
  <2>1. DOMAIN m = 1 .. Len(s) BY <1>2
  <2> QED BY <1>1, <1>3, <2>1, LenProperties
<1> QED BY <1>2, <1>3, <1>4 DEF m

LEMMA MappedAppend ==
  ASSUME NEW X, NEW Y, NEW table, IsTable(table, X, Y), NEW s \in Seq(X), NEW x \in X
  PROVE  Mapped(Append(s, x), table) = Append(Mapped(s, table), table[x])
<1> DEFINE n == Len(s)
           a == Append(s, x)
           m == Mapped(s, table)
           b == Append(m, table[x])
           c == Mapped(a, table)
<1>1. a \in Seq(X) /\ n \in Nat /\ Len(a) = n + 1 /\ a[n + 1] = x /\ \A i \in 1 .. n : a[i] = s[i]
  BY AppendProperties, LenProperties
<1>2. m \in Seq(Y) /\ Len(m) = n /\ \A i \in 1 .. n : m[i] = table[s[i]] BY MappedType
<1> HIDE DEF a, m, n
<1>3. c \in Seq(Y) /\ Len(c) = Len(a) /\ \A i \in 1 .. Len(a) : c[i] = table[a[i]]
  BY <1>1, MappedType
<1>4. b \in Seq(Y) /\ Len(b) = n + 1 /\ b[n + 1] = table[x] /\ \A i \in 1 .. n : b[i] = m[i]
  <2>1. table[x] \in Y BY DEF IsTable
  <2> DEFINE y == table[x]
  <2>2. y \in Y BY <2>1
  <2> HIDE DEF y
  <2>3. /\ Append(m, y) \in Seq(Y) /\ Len(Append(m, y)) = n + 1 /\ Append(m, y)[n + 1] = y
        /\ \A i \in 1 .. n : Append(m, y)[i] = m[i]
    BY <1>2, <2>2, AppendProperties
  <2> QED BY <2>3 DEF y
<1> HIDE DEF b, c
<1>5. \A i \in 1 .. n + 1 : i \in 1 .. n \/ i = n + 1 BY <1>1
<1>6. \A i \in 1 .. n + 1 : c[i] = b[i] BY <1>1, <1>2, <1>3, <1>4, <1>5
<1>7. c = b BY <1>1, <1>3, <1>4, <1>6, SeqEqual
<1> QED BY <1>7 DEF a, m, b, c

LEMMA MappedConcat ==
  ASSUME NEW X, NEW Y, NEW table, IsTable(table, X, Y), NEW s \in Seq(X), NEW t \in Seq(X)
  PROVE  Mapped(s \o t, table) = Mapped(s, table) \o Mapped(t, table)
<1> DEFINE n == Len(s)
           m == Len(t)
           u == s \o t
           p == Mapped(s, table)
           q == Mapped(t, table)
           v == Mapped(u, table)
           w == p \o q
<1>1. /\ u \in Seq(X) /\ n \in Nat /\ m \in Nat /\ Len(u) = n + m
      /\ \A i \in 1 .. n + m : u[i] = IF i <= n THEN s[i] ELSE t[i - n]
  BY ConcatProperties, LenProperties
<1>2. p \in Seq(Y) /\ Len(p) = n /\ \A i \in 1 .. n : p[i] = table[s[i]] BY MappedType
<1>3. q \in Seq(Y) /\ Len(q) = m /\ \A i \in 1 .. m : q[i] = table[t[i]] BY MappedType
<1> HIDE DEF u, p, q
<1>4. v \in Seq(Y) /\ Len(v) = Len(u) /\ \A i \in 1 .. Len(u) : v[i] = table[u[i]]
  BY <1>1, MappedType
<1>5. /\ w \in Seq(Y) /\ Len(w) = Len(p) + Len(q)
      /\ \A i \in 1 .. Len(p) + Len(q) : w[i] = IF i <= Len(p) THEN p[i] ELSE q[i - Len(p)]
  BY <1>2, <1>3, ConcatProperties
<1> HIDE DEF v, w, n, m
<1>6. ASSUME NEW i \in 1 .. n + m PROVE v[i] = w[i]
  <2>1. CASE i <= n
    <3>1. i \in 1 .. n BY <1>1, <2>1
    <3>2. u[i] = s[i] /\ v[i] = table[u[i]] BY <1>1, <1>4, <2>1
    <3>3. w[i] = p[i] BY <1>2, <1>3, <1>5, <2>1
    <3>4. p[i] = table[s[i]] BY <1>2, <3>1
    <3> QED BY <3>2, <3>3, <3>4
  <2>2. CASE ~(i <= n)
    <3> DEFINE k == i - n
    <3>1. k \in 1 .. m BY <1>1, <2>2
    <3>2. u[i] = t[k] /\ v[i] = table[u[i]] BY <1>1, <1>4, <2>2
    <3>3. w[i] = q[k] BY <1>2, <1>3, <1>5, <2>2
    <3> HIDE DEF k
    <3>4. q[k] = table[t[k]] BY <1>3, <3>1
    <3> QED BY <3>2, <3>3, <3>4
  <2> QED BY <2>1, <2>2
<1>7. Len(v) = n + m /\ Len(w) = n + m BY <1>1, <1>2, <1>3, <1>4, <1>5
<1>8. v = w BY <1>4, <1>5, <1>6, <1>7, SeqEqual
<1> QED BY <1>8 DEF u, p, q, v, w

LEMMA MappedShort ==
  ASSUME NEW X, NEW Y, NEW table, IsTable(table, X, Y), NEW x \in X
  PROVE  Mapped(<<>>, table) = <<>> /\ Mapped(<<x>>, table) = <<table[x]>>
<1>1. Mapped(<<>>, table) = <<>> BY DEF Mapped
<1>2. Append(<<>>, x) = <<x>> OBVIOUS
<1> DEFINE y == table[x]
           e == <<>>
<1>3. Append(<<>>, y) = <<y>> OBVIOUS
<1>4. Mapped(Append(e, x), table) = Append(Mapped(e, table), y)
  <2>1. e \in Seq(X) OBVIOUS
  <2> HIDE DEF e
  <2> QED BY <2>1, MappedAppend
<1> QED BY <1>1, <1>2, <1>3, <1>4
=============================================================================
