------------------------ MODULE RequestPhasesProofs -------------------------
(***************************************************************************)
(* What the phases of a request before its content promise, for any number *)
(* of workers and requests, any rules and any width of the counters: the   *)
(* limits refuse the right ones, and the set rules, which look nodes up    *)
(* without the mutex, set the right variables.                             *)
(***************************************************************************)
EXTENDS RequestPhases, Induction, SequenceTheorems, TLAPS

(***************************************************************************)
(* Arithmetic of the counters                                              *)
(***************************************************************************)

LEMMA DivMod ==
  ASSUME NEW n \in Nat
  PROVE  n \div W \in Int /\ n % W \in 0 .. W - 1 /\ n = W * (n \div W) + (n % W)
<1>1. W \in Nat \ {0} BY BoundsAssumption
<1> QED BY <1>1

LEMMA ModUnique ==
  ASSUME NEW x \in Int, NEW y \in 0 .. W - 1, NEW n \in Nat, n = W * x + y
  PROVE  n % W = y
<1> DEFINE q == n \div W
           r == n % W
<1>1. W \in Nat \ {0} BY BoundsAssumption
<1>2. q \in Int /\ r \in 0 .. W - 1 /\ n = W * q + r BY DivMod
<1> HIDE DEF q, r
<1> DEFINE d == x - q
<1>3. d \in Int /\ W * d = r - y
  <2>1. W * (x - q) = W * x - W * q BY <1>1, <1>2
  <2> QED BY <1>1, <1>2, <2>1
<1> HIDE DEF d
<1>4. d = 0
  <2>1. ASSUME d >= 1 PROVE FALSE
    <3>1. W * d = W + W * (d - 1) /\ W * (d - 1) >= 0 BY <1>1, <1>3, <2>1
    <3> QED BY <1>1, <1>2, <1>3, <3>1
  <2>2. ASSUME d <= -1 PROVE FALSE
    <3>1. W * d = -W - W * (-1 - d) /\ W * (-1 - d) >= 0 BY <1>1, <1>3, <2>2
    <3> QED BY <1>1, <1>2, <1>3, <3>1
  <2> QED BY <1>3, <2>1, <2>2
<1>5. W * 0 = 0 BY <1>1
<1>6. r = y BY <1>1, <1>2, <1>3, <1>4, <1>5
<1> QED BY <1>6 DEF r

\* A counter follows an unbounded one as its remainder.
LEMMA AddFollows ==
  ASSUME NEW a \in Nat, NEW g \in Nat
  PROVE  Add(a % W, g) = (a + g) % W /\ Add(a % W, g) \in Nat
<1> DEFINE q == a \div W
           r == a % W
           p == (r + g) \div W
           t == (r + g) % W
<1>1. W \in Nat \ {0} BY BoundsAssumption
<1>2. q \in Int /\ r \in 0 .. W - 1 /\ a = W * q + r BY <1>1
<1>3. r + g \in Nat BY <1>2
<1>4. p \in Int /\ t \in 0 .. W - 1 /\ r + g = W * p + t
  <2>1. q \in Int BY <1>2
  <2> QED BY <1>3, DivMod
<1> HIDE DEF q, r, p, t
<1>5. a + g = W * (q + p) + t
  <2>1. W * (q + p) = W * q + W * p BY <1>1, <1>2, <1>4
  <2>2. W * q \in Int /\ W * p \in Int BY <1>1, <1>2, <1>4
  <2> QED BY <1>2, <1>4, <2>1, <2>2
<1>6. (a + g) % W = t BY <1>2, <1>4, <1>5, ModUnique
<1>7. Add(a % W, g) = t BY DEF Add, r, t
<1> QED BY <1>1, <1>4, <1>6, <1>7

(***************************************************************************)
(* The rules                                                               *)
(***************************************************************************)

LEMMA LenIs ==
  ASSUME NEW n \in Nat, NEW f, f = [i \in 1 .. n |-> f[i]]
  PROVE  Len(f) = n
<1> DEFINE V == {f[i] : i \in 1 .. n}
<1>1. f \in [1 .. n -> V] OBVIOUS
<1>2. f \in Seq(V) /\ DOMAIN f = 1 .. n BY <1>1
<1> QED BY <1>2

\* Accepted directives make one rule each.
LEMMA ArrayRules ==
  ASSUME NEW a \in 1 .. 4
  PROVE  \E n \in Nat :
           /\ Arrays[a] = [i \in 1 .. n |-> Arrays[a][i]]
           /\ \A i \in 1 .. n : /\ Arrays[a][i].size \in Nat /\ Arrays[a][i].code # 0
                                /\ a \in {1, 2} => Arrays[a][i].key = <<>>
<1>1. ASSUME NEW limits \in {HttpLimits, LocLimits}, NEW i \in DOMAIN limits
      PROVE  LET rule == LimitTraffic(limits[i])[1]
             IN rule.size \in Nat /\ rule.code # 0 /\ rule.key = <<>>
  <2>1. Accepted(limits[i].variable, limits[i].size) /\ limits[i].size \in Nat
    BY LimitsAssumption
  <2>2. CodeOf(limits[i].code) # 0 BY DEF CodeOf
  <2> QED BY <2>1, <2>2 DEF LimitTraffic
<1>2. ASSUME NEW limits \in {HttpFilterLimits, LocFilterLimits}, NEW i \in DOMAIN limits
      PROVE  LET rule == LimitTrafficBySetKey(limits[i])[1]
             IN rule.size \in Nat /\ rule.code # 0
  <2>1. Accepted(limits[i].variable, limits[i].size) /\ limits[i].size \in Nat
    BY LimitsAssumption
  <2>2. limits[i].key # <<>> BY FilterLimitsAssumption
  <2>3. CodeOf(limits[i].code) # 0 BY DEF CodeOf
  <2> QED BY <2>1, <2>2, <2>3 DEF LimitTrafficBySetKey
<1>3. \A limits \in {HttpLimits, LocLimits, HttpFilterLimits, LocFilterLimits} :
        \E n \in Nat : DOMAIN limits = 1 .. n
  BY LimitsAssumption
<1>4. CASE a \in {1, 2}
  <2>1. PICK limits \in {HttpLimits, LocLimits} :
          Arrays[a] = [i \in DOMAIN limits |-> LimitTraffic(limits[i])[1]]
    BY <1>4 DEF Arrays
  <2>2. PICK n \in Nat : DOMAIN limits = 1 .. n BY <1>3
  <2> QED BY <1>1, <2>1, <2>2
<1>5. CASE a \in {3, 4}
  <2>1. PICK limits \in {HttpFilterLimits, LocFilterLimits} :
          Arrays[a] = [i \in DOMAIN limits |-> LimitTrafficBySetKey(limits[i])[1]]
    BY <1>5 DEF Arrays
  <2>2. PICK n \in Nat : DOMAIN limits = 1 .. n BY <1>3
  <2> QED BY <1>2, <1>5, <2>1, <2>2
<1>6. a \in {1, 2} \/ a \in {3, 4} OBVIOUS
<1> QED BY <1>4, <1>5, <1>6

\* What is known of the rules of an array for a request.
LEMMA RuleFacts ==
  ASSUME NEW r \in Requests, NEW a \in 1 .. 4
  PROVE  LET rules == Evaluated[r][a]
         IN /\ Len(rules) \in Nat
            /\ \A i : <<a, i>> \in Positions <=> i \in 1 .. Len(rules)
            /\ \A i \in 1 .. Len(rules) :
                 /\ rules[i].size \in Nat
                 /\ rules[i].code # 0 /\ rules[i].code = Arrays[a][i].code
                 /\ RuleSubject[r][a][i] \in Subjects
                 /\ rules[i].key = KeyFor(RuleSubject[r][a][i])
<1> DEFINE rules == Evaluated[r][a]
<1>1. PICK n \in Nat :
        /\ Arrays[a] = [i \in 1 .. n |-> Arrays[a][i]]
        /\ \A i \in 1 .. n : /\ Arrays[a][i].size \in Nat /\ Arrays[a][i].code # 0
                             /\ a \in {1, 2} => Arrays[a][i].key = <<>>
  BY ArrayRules
<1>2. DOMAIN Arrays[a] = 1 .. n BY <1>1
<1>3. rules = [i \in 1 .. n |->
        [key |-> IF Arrays[a][i].key = <<>> THEN ServerKey(r) ELSE Value(Arrays[a][i].key, r),
         member |-> Value(Arrays[a][i].variable, r),
         size |-> Arrays[a][i].size, code |-> Arrays[a][i].code]]
  BY <1>2 DEF Evaluated
<1>4. Len(rules) = n
  <2>1. rules = [i \in 1 .. n |-> rules[i]] BY <1>3
  <2> HIDE DEF rules
  <2> QED BY <2>1, LenIs
<1>5. ASSUME NEW i PROVE <<a, i>> \in Positions <=> i \in 1 .. n
  <2>1. ASSUME i \in 1 .. n PROVE <<a, i>> \in Positions BY <1>2, <2>1 DEF Positions
  <2>2. ASSUME <<a, i>> \in Positions PROVE i \in 1 .. n
    <3>1. PICK b \in 1 .. 4 : \E j \in DOMAIN Arrays[b] : <<a, i>> = <<b, j>>
      BY <2>2 DEF Positions
    <3>2. PICK j \in DOMAIN Arrays[b] : <<a, i>> = <<b, j>> BY <3>1
    <3>3. a = b /\ i = j BY <3>2
    <3> QED BY <1>2, <3>3
  <2> QED BY <2>1, <2>2
<1>6. ASSUME NEW i \in 1 .. n PROVE RuleSubject[r][a][i] \in Subjects
  <2> DEFINE p == <<a, i>>
  <2>1. p \in Positions /\ p[1] = a /\ p[2] = i BY <1>5
  <2> HIDE DEF p
  <2>2. Whom(r, p) \in RuleSubjects BY <2>1 DEF RuleSubjects
  <2>3. Whom(r, p) \in Subjects BY <2>2 DEF Subjects
  <2> QED BY <2>1, <2>3 DEF Whom
<1>7. ASSUME NEW i \in 1 .. n PROVE rules[i].key = KeyFor(RuleSubject[r][a][i])
  <2>1. CASE a \in {1, 2}
    <3>1. rules[i].key = ServerKey(r) BY <1>1, <1>3, <2>1
    <3>2. RuleSubject[r][a][i] = ServerSubject(r) BY <1>2, <2>1 DEF RuleSubject
    <3>3. KeyFor(ServerSubject(r)) = ServerKey(r)
      BY DEF KeyFor, ServerSubject, ServerKey, FilterKey, HostOf
    <3> QED BY <3>1, <3>2, <3>3
  <2>2. CASE a \in {3, 4}
    <3> DEFINE p == <<a, i>>
    <3>1. p \in Positions /\ p[1] = a /\ p[2] = i BY <1>5
    <3> HIDE DEF p, rules
    <3>2. RuleAt(r, p).key = KeyFor(Whom(r, p)) BY <2>2, <3>1, KeysAssumption
    <3> QED BY <3>1, <3>2 DEF rules, RuleAt, Whom
  <2> QED BY <2>1, <2>2
<1>8. ASSUME NEW i \in 1 .. n
      PROVE rules[i].size \in Nat /\ rules[i].code # 0 /\ rules[i].code = Arrays[a][i].code
  BY <1>1, <1>3
<1> HIDE DEF rules
<1>9. /\ Len(rules) \in Nat
      /\ \A i : <<a, i>> \in Positions <=> i \in 1 .. Len(rules)
      /\ \A i \in 1 .. Len(rules) :
           /\ rules[i].size \in Nat
           /\ rules[i].code # 0 /\ rules[i].code = Arrays[a][i].code
           /\ RuleSubject[r][a][i] \in Subjects
           /\ rules[i].key = KeyFor(RuleSubject[r][a][i])
  BY <1>4, <1>5, <1>6, <1>7, <1>8
<1> QED BY <1>9 DEF rules

\* A position is a pair.
LEMMA PositionPair ==
  ASSUME NEW p \in Positions
  PROVE  p = <<p[1], p[2]>> /\ p[1] \in 1 .. 4
BY DEF Positions

(***************************************************************************)
(* Limits by traffic                                                       *)
(***************************************************************************)

Counters == [Members -> Nat]

\* The keys that count for nobody but the server and the filters of the request.
Own(r) == {k \in AllKeys : \A s \in Subjects : KeyFor(s) = k => s \in SubjectOf[r][k]}

Typed ==
  /\ tree \subseteq AllKeys
  /\ stat \in [AllKeys -> Counters] /\ spent \in [Subjects -> Counters]
  /\ pc \in [Workers -> {"idle", "limit", "serve", "log"}]
  /\ req \in [Workers -> Requests \cup {NoRequest}]
  /\ array \in [Workers -> Nat] /\ todo \in [Workers -> Seq(AllKeys)]
  /\ code = [w \in Workers |-> code[w]] /\ cut \in [Workers -> BOOLEAN]
  /\ owed \in [Workers -> SUBSET Positions] /\ seen \in [Workers -> SUBSET Positions]
  /\ \A w \in Workers : /\ pc[w] # "idle" => req[w] \in Requests
                        /\ pc[w] = "log" => todo[w] \in Seq(Own(req[w]))

\* The node of a subject holds what its requests logged, modulo W.
Counted ==
  \A s \in Subjects, m \in Members :
    /\ KeyFor(s) \in AllKeys => stat[KeyFor(s)][m] = spent[s][m] % W
    /\ spent[s][m] > 0 => KeyFor(s) \in tree

\* What a request that is being checked owes is still over, and ahead of it.
Waiting(w) ==
  pc[w] = "limit" =>
    /\ array[w] \in 1 .. 4
    /\ owed[w] \subseteq Unwrapped(req[w], spent)
    /\ Exceeded(req[w], spent) \subseteq seen[w]
    /\ ~cut[w] => \A p \in owed[w] : p[1] >= array[w]

Answered(w) ==
  Limited(w) =>
    /\ ~cut[w] => \A p \in owed[w] : \E q \in seen[w] :
                     Before(q, p) /\ code[w] = Arrays[q[1]][q[2]].code
    /\ code[w] # 0 => \E q \in seen[w] : code[w] = Arrays[q[1]][q[2]].code

LimitInv == Typed /\ Counted /\ \A w \in Workers : Waiting(w) /\ Answered(w)

\* A remainder is no more than the number, and a small number is its own.
LEMMA ModBelow ==
  ASSUME NEW n \in Nat
  PROVE  n % W \in Nat /\ n % W <= n /\ (n < W => n % W = n)
<1> DEFINE q == n \div W
           t == n % W
<1>1. W \in Nat \ {0} BY BoundsAssumption
<1>2. q \in Int /\ t \in 0 .. W - 1 /\ n = W * q + t BY DivMod
<1> HIDE DEF q, t
<1>3. q >= 0
  <2>1. ASSUME q <= -1 PROVE FALSE
    <3>1. W * q = -W - W * (-1 - q) /\ W * (-1 - q) >= 0 BY <1>1, <1>2, <2>1
    <3> QED BY <1>1, <1>2, <3>1
  <2> QED BY <1>2, <2>1
<1>4. W * q >= 0 /\ W * q \in Int BY <1>1, <1>2, <1>3
<1>5. ASSUME n < W PROVE t = n
  <2>1. n = W * 0 + n /\ n \in 0 .. W - 1 BY <1>1, <1>5
  <2> QED BY <2>1, ModUnique DEF t
<1> QED BY <1>1, <1>2, <1>4, <1>5 DEF t

LEMMA RuleAtFacts ==
  ASSUME NEW r \in Requests, NEW p \in Positions
  PROVE  /\ RuleAt(r, p).size \in Nat /\ RuleAt(r, p).code # 0
         /\ RuleAt(r, p).code = Arrays[p[1]][p[2]].code
         /\ RuleAt(r, p).key = KeyFor(Whom(r, p))
         /\ Whom(r, p) \in Subjects
<1> DEFINE a == p[1]
           i == p[2]
           rules == Evaluated[r][a]
<1>1. p = <<a, i>> /\ a \in 1 .. 4 BY PositionPair
<1> HIDE DEF a, i
<1>2. i \in 1 .. Len(rules) BY <1>1, RuleFacts
<1>3. /\ rules[i].size \in Nat
      /\ rules[i].code # 0 /\ rules[i].code = Arrays[a][i].code
      /\ RuleSubject[r][a][i] \in Subjects
      /\ rules[i].key = KeyFor(RuleSubject[r][a][i])
  BY <1>1, <1>2, RuleFacts
<1> QED BY <1>3 DEF RuleAt, Whom, a, i

\* A rule that its subject is over, and whose counter did not wrap, refuses.
LEMMA OwedOver ==
  ASSUME Typed, Counted, NEW r \in Requests, NEW p \in Unwrapped(r, spent)
  PROVE  p \in Positions /\ Over(RuleAt(r, p))
<1> DEFINE rule == RuleAt(r, p)
           s == Whom(r, p)
           m == rule.member[1]
<1>1. /\ p \in Positions /\ rule.member # <<>> /\ m \in Members
      /\ spent[s][m] > rule.size /\ spent[s][m] < W
  BY DEF Unwrapped, Exceeded
<1>2. rule.size \in Nat /\ rule.key = KeyFor(s) /\ s \in Subjects BY <1>1, RuleAtFacts
<1> HIDE DEF rule, s, m
<1>3. spent[s][m] \in Nat /\ tree \subseteq AllKeys BY <1>1, <1>2 DEF Typed, Counters
<1>4. KeyFor(s) \in tree
  <2>1. spent[s][m] > 0 BY <1>1, <1>2, <1>3
  <2> QED BY <1>1, <1>2, <2>1 DEF Counted
<1>5. stat[KeyFor(s)][m] = spent[s][m] % W BY <1>1, <1>2, <1>3, <1>4 DEF Counted
<1>6. spent[s][m] % W = spent[s][m] BY <1>1, <1>3, ModBelow
<1>7. Over(rule) BY <1>1, <1>2, <1>4, <1>5, <1>6 DEF Over, m
<1> QED BY <1>1, <1>7 DEF rule

\* And a rule refuses only when its subject is over.
LEMMA OverExceeded ==
  ASSUME Typed, Counted, NEW r \in Requests, NEW p \in Positions, Over(RuleAt(r, p))
  PROVE  p \in Exceeded(r, spent)
<1> DEFINE rule == RuleAt(r, p)
           s == Whom(r, p)
           m == rule.member[1]
<1>1. /\ rule.member # <<>> /\ rule.key \in tree
      /\ m \in Members /\ stat[rule.key][m] > rule.size
  BY DEF Over
<1>2. rule.size \in Nat /\ rule.key = KeyFor(s) /\ s \in Subjects BY RuleAtFacts
<1> HIDE DEF rule, s, m
<1>3. spent[s][m] \in Nat /\ tree \subseteq AllKeys BY <1>1, <1>2 DEF Typed, Counters
<1>4. stat[KeyFor(s)][m] = spent[s][m] % W BY <1>1, <1>2, <1>3 DEF Counted
<1>5. spent[s][m] % W \in Nat /\ spent[s][m] % W <= spent[s][m] BY <1>3, ModBelow
<1>6. spent[s][m] > rule.size BY <1>1, <1>2, <1>3, <1>4, <1>5
<1> QED BY <1>1, <1>6 DEF Exceeded, rule, s, m

\* The machine arrays keep their types over a step that gives workers other values.
LEMMA InitLimits == Init => LimitInv
<1> SUFFICES ASSUME Init PROVE LimitInv OBVIOUS
<1>1. Zeros \in Counters BY DEF Zeros, Counters
<1>2. Typed
  <2>1. /\ tree \subseteq AllKeys
        /\ stat \in [AllKeys -> Counters] /\ spent \in [Subjects -> Counters]
    BY <1>1 DEF Init
  <2>2. \A w \in Workers : pc[w] = "idle" BY DEF Init
  <2> QED BY <2>1, <2>2 DEF Init, Typed
<1>3. Counted
  <2>1. 0 % W = 0
    <3>1. W \in Nat \ {0} BY BoundsAssumption
    <3> QED BY <3>1
  <2> QED BY <2>1 DEF Init, Counted, Zeros
<1>4. \A w \in Workers : Waiting(w) /\ Answered(w) BY DEF Init, Waiting, Answered, Limited
<1> QED BY <1>2, <1>3, <1>4 DEF LimitInv

\* The workers other than one are as they were.
OthersKept(w) ==
  \A v \in Workers \ {w} :
    /\ pc'[v] = pc[v] /\ req'[v] = req[v] /\ array'[v] = array[v] /\ code'[v] = code[v]
    /\ owed'[v] = owed[v] /\ seen'[v] = seen[v] /\ cut'[v] = cut[v]

LEMMA OthersStay ==
  ASSUME LimitInv, NEW w \in Workers, OthersKept(w), spent' = spent,
         Waiting(w)', Answered(w)'
  PROVE  \A v \in Workers : Waiting(v)' /\ Answered(v)'
<1> SUFFICES ASSUME NEW v \in Workers, v # w PROVE Waiting(v)' /\ Answered(v)' OBVIOUS
<1>1. /\ pc'[v] = pc[v] /\ req'[v] = req[v] /\ array'[v] = array[v] /\ code'[v] = code[v]
      /\ owed'[v] = owed[v] /\ seen'[v] = seen[v] /\ cut'[v] = cut[v]
  BY DEF OthersKept
<1>2. Waiting(v) /\ Answered(v) BY DEF LimitInv
<1>3. Waiting(v)' BY <1>1, <1>2 DEF Waiting, Unwrapped, Exceeded
<1>4. Answered(v)' BY <1>1, <1>2 DEF Answered, Limited
<1> QED BY <1>3, <1>4

\* The walk of one array.
LEMMA LimitArrayKeeps ==
  ASSUME LimitInv, NEW w \in Workers, LimitArray(w)
  PROVE  LimitInv'
<1> DEFINE r == req[w]
           a == array[w]
           rules == Evaluated[r][a]
           n == Len(rules)
<1>1. /\ pc[w] = "limit" /\ Typed /\ Counted /\ Waiting(w) /\ r \in Requests
      /\ UNCHANGED <<tree, stat, req, todo, served, spent, owed, seen>>
  BY DEF LimitInv, LimitArray, Typed
<1>2. a \in 1 .. 4 BY <1>1 DEF Waiting
<1>3. /\ n \in Nat
      /\ \A i : <<a, i>> \in Positions <=> i \in 1 .. n
      /\ \A i \in 1 .. n : rules[i] = RuleAt(r, <<a, i>>)
  BY <1>1, <1>2, RuleFacts DEF RuleAt
<1>4. PICK upto \in 0 .. n :
        LET c == Traffic(rules, upto)
        IN /\ cut' = [cut EXCEPT ![w] = @ \/ upto < n]
           /\ code' = [code EXCEPT ![w] = c]
           /\ array' = [array EXCEPT ![w] = @ + 1]
           /\ pc' = [pc EXCEPT ![w] = IF c # 0 \/ a = 4 THEN "serve" ELSE "limit"]
  BY DEF LimitArray
<1> DEFINE c == Traffic(rules, upto)
           hits == {i \in 1 .. upto : Over(rules[i])}
<1> HIDE DEF r, a, n, c
<1>5. /\ cut' = [cut EXCEPT ![w] = @ \/ upto < n]
      /\ code' = [code EXCEPT ![w] = c]
      /\ array' = [array EXCEPT ![w] = @ + 1]
      /\ pc' = [pc EXCEPT ![w] = IF c # 0 \/ a = 4 THEN "serve" ELSE "limit"]
  BY <1>4 DEF c
<1>6. cut'[w] <=> cut[w] \/ upto < n BY <1>1, <1>5 DEF Typed
<1>7. c = IF hits = {} THEN 0 ELSE rules[CHOOSE i \in hits : \A j \in hits : i <= j].code
  BY DEF Traffic, c
<1>8. ASSUME NEW p \in owed[w], p[1] = a, ~cut'[w] PROVE p[2] \in hits
  <2>1. upto = n BY <1>3, <1>4, <1>8, <1>6
  <2>2. p \in Unwrapped(r, spent) BY <1>1 DEF Waiting, r
  <2>3. p \in Positions /\ Over(RuleAt(r, p)) BY <1>1, <2>2, OwedOver
  <2>4. p = <<a, p[2]>> BY <1>8, <2>3, PositionPair
  <2>5. p[2] \in 1 .. n /\ rules[p[2]] = RuleAt(r, p) BY <1>3, <2>3, <2>4
  <2> QED BY <2>1, <2>3, <2>5
<1>9. ASSUME NEW p \in owed[w], ~cut'[w] PROVE p[1] \in 1 .. 4 /\ p[1] >= a
  <2>1. ~cut[w] BY <1>9, <1>6
  <2>2. p \in Positions BY <1>1 DEF Typed
  <2> QED BY <1>1, <2>1, <2>2, PositionPair DEF Waiting, a
<1>10. Typed'
  <2>1. pc' \in [Workers -> {"idle", "limit", "serve", "log"}] /\ array' \in [Workers -> Nat]
    BY <1>1, <1>5 DEF Typed
  <2>2. code' = [v \in Workers |-> code'[v]] BY <1>1, <1>5 DEF Typed
  <2>3. cut' \in [Workers -> BOOLEAN]
    <3>1. (cut[w] \/ upto < n) \in BOOLEAN OBVIOUS
    <3> QED BY <1>1, <1>5, <3>1 DEF Typed
  <2>4. \A v \in Workers : /\ pc'[v] # "idle" => req'[v] \in Requests
                           /\ pc'[v] = "log" => todo'[v] \in Seq(Own(req'[v]))
    BY <1>1, <1>5 DEF Typed
  <2> QED BY <1>1, <2>1, <2>3, <2>4, <2>2 DEF Typed
<1>11. Counted' BY <1>1 DEF Counted
<1>12. /\ pc'[w] = IF c # 0 \/ a = 4 THEN "serve" ELSE "limit"
       /\ code'[w] = c /\ array'[w] = a + 1 /\ req'[w] = r
       /\ owed'[w] = owed[w] /\ seen'[w] = seen[w]
  BY <1>1, <1>5 DEF Typed, r, a
<1>13. ASSUME hits = {} PROVE Waiting(w)' /\ Answered(w)'
  <2>1. c = 0 BY <1>7, <1>13
  <2>2. \A p \in owed[w] : ~cut'[w] => p[1] >= a + 1 /\ p[1] \in 1 .. 4
    BY <1>2, <1>8, <1>9, <1>13
  <2> HIDE DEF hits
  <2>3. Waiting(w)' BY <1>1, <1>2, <1>12, <2>1, <2>2 DEF Waiting, Unwrapped, Exceeded
  <2>4. Answered(w)'
    <3>1. Limited(w)' => a = 4 BY <1>12, <2>1 DEF Limited
    <3>2. Limited(w)' => (~cut'[w] => owed'[w] = {}) BY <1>12, <2>2, <3>1
    <3> QED BY <1>12, <2>1, <3>2 DEF Answered
  <2> QED BY <2>3, <2>4
<1>14. ASSUME hits # {} PROVE Waiting(w)' /\ Answered(w)'
  <2> DEFINE i == CHOOSE i \in hits : \A j \in hits : i <= j
             q == <<a, i>>
  <2>1. i \in hits /\ \A j \in hits : i <= j
    <3>1. hits \subseteq Nat OBVIOUS
    <3> HIDE DEF hits
    <3>2. \E k \in hits : \A j \in hits : k <= j BY <1>14, <3>1, Least
    <3> QED BY <3>2
  <2>2. hits \subseteq 1 .. n /\ \A j \in hits : Over(rules[j]) BY <1>3, <1>4
  <2>3. i \in 1 .. n /\ Over(rules[i])
    <3> HIDE DEF i, hits
    <3> QED BY <2>1, <2>2
  <2>4. c = rules[i].code BY <1>7, <1>14
  <2> HIDE DEF i, hits
  <2>5. q \in Positions /\ rules[i] = RuleAt(r, q) BY <1>3, <2>3
  <2>6. c # 0 /\ c = Arrays[q[1]][q[2]].code
    <3> HIDE DEF q
    <3> QED BY <1>1, <2>4, <2>5, RuleAtFacts
  <2>7. q \in seen[w]
    <3>1. q \in Exceeded(r, spent) BY <1>1, <2>3, <2>5, OverExceeded
    <3> QED BY <1>1, <3>1 DEF Waiting, r
  <2>8. ASSUME NEW p \in owed[w], ~cut'[w] PROVE Before(q, p)
    <3>1. CASE p[1] = a BY <1>8, <2>1, <2>8, <3>1 DEF Before
    <3>2. CASE p[1] # a BY <1>2, <1>9, <2>8, <3>2 DEF Before
    <3> QED BY <3>1, <3>2
  <2>9. Waiting(w)' BY <1>12, <2>6 DEF Waiting
  <2>10. Answered(w)'
    <3> HIDE DEF q
    <3> QED BY <1>12, <2>6, <2>7, <2>8 DEF Answered
  <2> QED BY <2>9, <2>10
<1>15. OthersKept(w) BY <1>1, <1>5 DEF OthersKept, Typed
<1>16. \A v \in Workers : Waiting(v)' /\ Answered(v)'
  BY <1>1, <1>13, <1>14, <1>15, OthersStay
<1> QED BY <1>10, <1>11, <1>16 DEF LimitInv

\* A request comes: what it owes is what is over now.
LEMMA ArriveKeeps ==
  ASSUME LimitInv, NEW w \in Workers, NEW r \in Requests, Arrive(w, r)
  PROVE  LimitInv'
<1>1. /\ Typed /\ Counted /\ UNCHANGED <<tree, stat, todo, fails, spent>>
      /\ req' = [req EXCEPT ![w] = r] /\ array' = [array EXCEPT ![w] = 1]
      /\ pc' = [pc EXCEPT ![w] = IF ~r.limit \/ r.bypass_limit THEN "serve" ELSE "limit"]
      /\ code' = [code EXCEPT ![w] = 0] /\ cut' = [cut EXCEPT ![w] = FALSE]
      /\ owed' = [owed EXCEPT ![w] = Unwrapped(r, spent)]
      /\ seen' = [seen EXCEPT ![w] = Exceeded(r, spent)]
  BY DEF LimitInv, Arrive
<1>2. Unwrapped(r, spent) \subseteq Positions /\ Exceeded(r, spent) \subseteq Positions
  BY DEF Unwrapped, Exceeded
<1>3. Typed'
  <2>1. /\ pc' \in [Workers -> {"idle", "limit", "serve", "log"}]
        /\ req' \in [Workers -> Requests \cup {NoRequest}]
        /\ array' \in [Workers -> Nat] /\ cut' \in [Workers -> BOOLEAN]
    BY <1>1 DEF Typed
  <2>2. code' = [v \in Workers |-> code'[v]] BY <1>1 DEF Typed
  <2>3. owed' \in [Workers -> SUBSET Positions] /\ seen' \in [Workers -> SUBSET Positions]
    BY <1>1, <1>2 DEF Typed
  <2>4. \A v \in Workers : /\ pc'[v] # "idle" => req'[v] \in Requests
                           /\ pc'[v] = "log" => todo'[v] \in Seq(Own(req'[v]))
    BY <1>1 DEF Typed
  <2> QED BY <1>1, <2>1, <2>2, <2>3, <2>4 DEF Typed
<1>4. Counted' BY <1>1 DEF Counted
<1>5. /\ req'[w] = r /\ array'[w] = 1
      /\ pc'[w] = IF ~r.limit \/ r.bypass_limit THEN "serve" ELSE "limit"
      /\ owed'[w] = Unwrapped(r, spent) /\ seen'[w] = Exceeded(r, spent)
  BY <1>1 DEF Typed
<1>6. Waiting(w)'
  <2>1. \A p \in owed'[w] : p[1] >= 1 BY <1>2, <1>5, PositionPair
  <2>2. owed'[w] \subseteq Unwrapped(req'[w], spent') BY <1>1, <1>5
  <2>3. Exceeded(req'[w], spent') \subseteq seen'[w] BY <1>1, <1>5
  <2>4. (owed[w] \subseteq Unwrapped(req[w], spent))' BY <2>2 DEF Unwrapped, Exceeded
  <2>5. (Exceeded(req[w], spent) \subseteq seen[w])' BY <2>3 DEF Exceeded
  <2> QED BY <1>5, <2>1, <2>4, <2>5 DEF Waiting
<1>7. Answered(w)' BY <1>5 DEF Answered, Limited
<1>8. OthersKept(w) BY <1>1 DEF OthersKept, Typed
<1>9. \A v \in Workers : Waiting(v)' /\ Answered(v)' BY <1>1, <1>6, <1>7, <1>8, OthersStay
<1> QED BY <1>3, <1>4, <1>9 DEF LimitInv

\* What a request logs counts for its own server and filters only.
LEMMA LogsOwn ==
  ASSUME NEW r \in Requests, NEW upto \in Uptos
  PROVE  LogKeys[r][upto] \in Seq(AllKeys) /\ LogKeys[r][upto] \in Seq(Own(r))
<1> DEFINE ks == LogKeys[r][upto]
<1>1. ks \in Seq(AllKeys) BY KeysAssumption
<1>2. \A k \in ToSet(ks), s \in Subjects : KeyFor(s) = k => s \in SubjectOf[r][k]
  BY KeysAssumption
<1> HIDE DEF ks
<1>3. ASSUME NEW i \in 1 .. Len(ks) PROVE ks[i] \in Own(r)
  <2>1. i \in DOMAIN ks /\ ks[i] \in AllKeys BY <1>1
  <2>2. ks[i] \in ToSet(ks) BY <2>1 DEF ToSet
  <2> QED BY <1>2, <2>1, <2>2 DEF Own
<1>4. ks \in Seq(Own(r)) BY <1>1, <1>3
<1> QED BY <1>1, <1>4 DEF ks

LEMMA ServeKeeps ==
  ASSUME LimitInv, NEW w \in Workers, NEW upto \in Uptos, Serve(w, upto)
  PROVE  LimitInv'
<1>1. /\ Typed /\ Counted /\ pc[w] = "serve" /\ req[w] \in Requests
      /\ todo' = [todo EXCEPT ![w] = LogKeys[req[w]][upto]] /\ pc' = [pc EXCEPT ![w] = "log"]
      /\ UNCHANGED <<tree, stat, req, array, code, served, spent, owed, seen, cut>>
  BY DEF LimitInv, Serve, history, Typed
<1> DEFINE ks == LogKeys[req[w]][upto]
<1>2. ks \in Seq(AllKeys) /\ ks \in Seq(Own(req[w])) BY <1>1, LogsOwn
<1> HIDE DEF ks
<1>3. todo' = [todo EXCEPT ![w] = ks] BY <1>1 DEF ks
<1>4. Typed'
  <2>1. /\ pc' \in [Workers -> {"idle", "limit", "serve", "log"}]
        /\ todo' \in [Workers -> Seq(AllKeys)]
    BY <1>1, <1>2, <1>3 DEF Typed
  <2>2. \A v \in Workers : /\ pc'[v] # "idle" => req'[v] \in Requests
                           /\ pc'[v] = "log" => todo'[v] \in Seq(Own(req'[v]))
    BY <1>1, <1>2, <1>3 DEF Typed
  <2> QED BY <1>1, <2>1, <2>2 DEF Typed
<1>5. Counted' BY <1>1 DEF Counted
<1>6. Waiting(w)' /\ Answered(w)' BY <1>1 DEF Waiting, Answered, Limited, Typed
<1>7. OthersKept(w) BY <1>1 DEF OthersKept, Typed
<1>8. \A v \in Workers : Waiting(v)' /\ Answered(v)' BY <1>1, <1>6, <1>7, OthersStay
<1> QED BY <1>4, <1>5, <1>8 DEF LimitInv

LEMMA LogDoneKeeps ==
  ASSUME LimitInv, NEW w \in Workers, LogDone(w)
  PROVE  LimitInv'
<1>1. /\ Typed /\ Counted /\ pc' = [pc EXCEPT ![w] = "idle"]
      /\ req' = [req EXCEPT ![w] = NoRequest]
      /\ code' = [code EXCEPT ![w] = 0] /\ array' = [array EXCEPT ![w] = 0]
      /\ owed' = [owed EXCEPT ![w] = {}] /\ seen' = [seen EXCEPT ![w] = {}]
      /\ cut' = [cut EXCEPT ![w] = FALSE]
      /\ UNCHANGED <<tree, stat, todo, served, fails, spent>>
  BY DEF LimitInv, LogDone
<1>2. Typed'
  <2>1. /\ pc' \in [Workers -> {"idle", "limit", "serve", "log"}]
        /\ req' \in [Workers -> Requests \cup {NoRequest}]
        /\ array' \in [Workers -> Nat] /\ cut' \in [Workers -> BOOLEAN]
    BY <1>1 DEF Typed
  <2>2. code' = [v \in Workers |-> code'[v]] BY <1>1 DEF Typed
  <2>3. owed' \in [Workers -> SUBSET Positions] /\ seen' \in [Workers -> SUBSET Positions]
    BY <1>1 DEF Typed
  <2>4. \A v \in Workers : /\ pc'[v] # "idle" => req'[v] \in Requests
                           /\ pc'[v] = "log" => todo'[v] \in Seq(Own(req'[v]))
    BY <1>1 DEF Typed
  <2> QED BY <1>1, <2>1, <2>2, <2>3, <2>4 DEF Typed
<1>3. Counted' BY <1>1 DEF Counted
<1>4. Waiting(w)' /\ Answered(w)' BY <1>1 DEF Waiting, Answered, Limited, Typed
<1>5. OthersKept(w) BY <1>1 DEF OthersKept, Typed
<1>6. \A v \in Workers : Waiting(v)' /\ Answered(v)' BY <1>1, <1>4, <1>5, OthersStay
<1> QED BY <1>2, <1>3, <1>6 DEF LimitInv

LEMMA GainsNat ==
  ASSUME NEW r \in Requests, NEW m \in Members
  PROVE  Gains(r)[m] \in Nat
BY BoundsAssumption DEF Gains

\* One key is counted: the node and the subjects that it counts for gain the same.
LEMMA LogKeyKeeps ==
  ASSUME LimitInv, NEW w \in Workers, LogKey(w)
  PROVE  LimitInv'
<1> DEFINE r == req[w]
           k == Head(todo[w])
           gains == Gains(r)
<1>1. /\ Typed /\ Counted /\ pc[w] = "log" /\ todo[w] # <<>> /\ r \in Requests
      /\ todo[w] \in Seq(Own(r)) /\ todo[w] \in Seq(AllKeys)
      /\ todo' = [todo EXCEPT ![w] = Tail(@)]
      /\ UNCHANGED <<pc, req, array, code, served, fails, cut>>
  BY DEF LimitInv, LogKey, Typed
<1>2. /\ tree' = tree \cup {k}
      /\ stat' = [stat EXCEPT ![k] = [m \in Members |-> Add(@[m], gains[m])]]
      /\ spent' = [s \in Subjects |-> IF s \in SubjectOf[r][k]
                                      THEN [m \in Members |-> spent[s][m] + gains[m]]
                                      ELSE spent[s]]
  BY DEF LogKey
<1>3. /\ owed' = [v \in Workers |-> IF pc[v] = "limit"
                                    THEN owed[v] \cap Unwrapped(req[v], spent') ELSE owed[v]]
      /\ seen' = [v \in Workers |-> IF pc[v] = "limit"
                                    THEN seen[v] \cup Exceeded(req[v], spent') ELSE seen[v]]
  BY DEF LogKey
<1>4. k \in Own(r) /\ k \in AllKeys /\ Tail(todo[w]) \in Seq(Own(r))
      /\ Tail(todo[w]) \in Seq(AllKeys)
  <2>1. \A K : \A t \in Seq(K) : t # <<>> => Head(t) \in K /\ Tail(t) \in Seq(K) OBVIOUS
  <2> HIDE DEF r
  <2>2. k \in Own(r) /\ Tail(todo[w]) \in Seq(Own(r)) BY <1>1, <2>1
  <2>3. k \in AllKeys /\ Tail(todo[w]) \in Seq(AllKeys) BY <1>1, <2>1
  <2> QED BY <2>2, <2>3
<1>5. \A m \in Members : gains[m] \in Nat BY <1>1, GainsNat
<1>6. \A s \in Subjects : s \in SubjectOf[r][k] <=> KeyFor(s) = k
  <2>1. SubjectOf[r][k] = {s \in SubjectsOf(r) : KeyFor(s) = k} BY <1>1, <1>4 DEF SubjectOf
  <2> QED BY <1>4, <2>1 DEF Own
<1>7. \A s \in Subjects, m \in Members : spent[s][m] \in Nat BY <1>1 DEF Typed, Counters
<1>8. \A j \in AllKeys, m \in Members : stat[j][m] \in Nat BY <1>1 DEF Typed, Counters
<1> HIDE DEF r, k, gains
<1>9. stat' \in [AllKeys -> Counters]
  <2>1. \A m \in Members : Add(stat[k][m], gains[m]) \in Nat
    <3>1. ASSUME NEW n \in Nat PROVE n % W \in Nat BY <3>1, ModBelow
    <3>2. \A m \in Members : stat[k][m] + gains[m] \in Nat BY <1>4, <1>5, <1>8
    <3> QED BY <3>1, <3>2 DEF Add
  <2>2. [m \in Members |-> Add(stat[k][m], gains[m])] \in Counters BY <2>1 DEF Counters
  <2> QED BY <1>1, <1>2, <1>4, <2>2 DEF Typed
<1>10. spent' \in [Subjects -> Counters]
  <2>1. \A s \in Subjects : [m \in Members |-> spent[s][m] + gains[m]] \in Counters
    BY <1>5, <1>7 DEF Counters
  <2> QED BY <1>1, <1>2, <2>1 DEF Typed
<1>11. Typed'
  <2>1. tree' \subseteq AllKeys /\ todo' \in [Workers -> Seq(AllKeys)]
    BY <1>1, <1>2, <1>4 DEF Typed
  <2>2. owed' \in [Workers -> SUBSET Positions] BY <1>1, <1>3 DEF Typed
  <2>3. seen' \in [Workers -> SUBSET Positions]
    <3>1. \A v \in Workers : Exceeded(req[v], spent') \subseteq Positions BY DEF Exceeded
    <3> QED BY <1>1, <1>3, <3>1 DEF Typed
  <2>4. \A v \in Workers : /\ pc'[v] # "idle" => req'[v] \in Requests
                           /\ pc'[v] = "log" => todo'[v] \in Seq(Own(req'[v]))
    <3>1. todo'[w] = Tail(todo[w]) /\ req'[w] = r BY <1>1 DEF Typed, r
    <3>2. \A v \in Workers \ {w} : todo'[v] = todo[v] BY <1>1 DEF Typed
    <3> QED BY <1>1, <1>4, <3>1, <3>2 DEF Typed
  <2> QED BY <1>1, <1>9, <1>10, <2>1, <2>2, <2>3, <2>4 DEF Typed
<1>12. Counted'
  <2> SUFFICES ASSUME NEW s \in Subjects, NEW m \in Members
               PROVE  /\ KeyFor(s) \in AllKeys => stat'[KeyFor(s)][m] = spent'[s][m] % W
                      /\ spent'[s][m] > 0 => KeyFor(s) \in tree'
    BY DEF Counted
  <2>1. CASE KeyFor(s) = k
    <3>1. spent'[s][m] = spent[s][m] + gains[m] BY <1>2, <1>6, <2>1
    <3>2. stat'[k][m] = Add(stat[k][m], gains[m])
      <4>1. stat'[k] = [j \in Members |-> Add(stat[k][j], gains[j])] BY <1>1, <1>2, <1>4 DEF Typed
      <4> QED BY <4>1
    <3>3. stat[k][m] = spent[s][m] % W BY <1>1, <1>4, <2>1 DEF Counted
    <3>4. stat'[k][m] = (spent[s][m] + gains[m]) % W BY <1>5, <1>7, <3>2, <3>3, AddFollows
    <3> QED BY <1>2, <2>1, <3>1, <3>4
  <2>2. CASE KeyFor(s) # k
    <3>1. spent'[s] = spent[s] BY <1>2, <1>6, <2>2
    <3>2. KeyFor(s) \in AllKeys => stat'[KeyFor(s)] = stat[KeyFor(s)]
      BY <1>1, <1>2, <2>2 DEF Typed
    <3> QED BY <1>1, <1>2, <3>1, <3>2 DEF Counted
  <2> QED BY <2>1, <2>2
<1>13. ASSUME NEW v \in Workers PROVE Waiting(v)' /\ Answered(v)'
  <2>1. Waiting(v) /\ Answered(v) BY DEF LimitInv
  <2>2. /\ pc'[v] = pc[v] /\ req'[v] = req[v] /\ array'[v] = array[v]
        /\ cut'[v] = cut[v] /\ code'[v] = code[v]
    BY <1>1
  <2>3. CASE pc[v] = "limit"
    <3>1. /\ owed'[v] = owed[v] \cap Unwrapped(req[v], spent')
          /\ seen'[v] = seen[v] \cup Exceeded(req[v], spent')
      BY <1>3, <2>3
    <3>2. (owed[v] \subseteq Unwrapped(req[v], spent))'
      BY <2>2, <3>1 DEF Unwrapped, Exceeded
    <3>3. (Exceeded(req[v], spent) \subseteq seen[v])' BY <2>2, <3>1 DEF Exceeded
    <3>4. array'[v] \in 1 .. 4 /\ (~cut'[v] => \A p \in owed'[v] : p[1] >= array'[v])
      BY <2>1, <2>2, <2>3, <3>1 DEF Waiting
    <3> QED BY <2>2, <2>3, <3>2, <3>3, <3>4 DEF Waiting, Answered, Limited
  <2>4. CASE pc[v] # "limit"
    <3>1. owed'[v] = owed[v] /\ seen'[v] = seen[v] BY <1>3, <2>4
    <3> QED BY <2>1, <2>2, <2>4, <3>1 DEF Waiting, Answered, Limited
  <2> QED BY <2>3, <2>4
<1> QED BY <1>11, <1>12, <1>13 DEF LimitInv

LEMMA ResetKeeps ==
  ASSUME LimitInv, Reset
  PROVE  LimitInv'
<1>1. /\ Typed /\ stat' = [k \in AllKeys |-> Zeros] /\ spent' = [s \in Subjects |-> Zeros]
      /\ owed' = [v \in Workers |-> IF pc[v] = "limit" THEN {} ELSE owed[v]]
      /\ UNCHANGED <<tree, pc, req, array, todo, code, served, seen, cut>>
  BY DEF LimitInv, Reset
<1>2. Zeros \in Counters BY DEF Zeros, Counters
<1>3. Typed' BY <1>1, <1>2 DEF Typed
<1>4. Counted'
  <2>1. 0 % W = 0
    <3>1. W \in Nat \ {0} BY BoundsAssumption
    <3> QED BY <3>1
  <2> QED BY <1>1, <2>1 DEF Counted, Zeros
<1>5. ASSUME NEW v \in Workers PROVE Waiting(v)' /\ Answered(v)'
  <2>1. Waiting(v) /\ Answered(v) BY DEF LimitInv
  <2>2. CASE pc[v] = "limit"
    <3>1. owed'[v] = {} /\ req[v] \in Requests BY <1>1, <2>2 DEF Typed
    <3>2. ASSUME NEW p \in Positions PROVE p \notin Exceeded(req[v], spent')
      <4>1. RuleAt(req[v], p).size \in Nat /\ Whom(req[v], p) \in Subjects
        BY <3>1, RuleAtFacts
      <4>2. \A m \in Members : spent'[Whom(req[v], p)][m] = 0 BY <1>1, <4>1 DEF Zeros
      <4> QED BY <4>1, <4>2 DEF Exceeded
    <3>3. Exceeded(req[v], spent') = {} BY <3>2 DEF Exceeded
    <3>4. (Exceeded(req[v], spent) = {})' BY <1>1, <3>3 DEF Exceeded
    <3> QED BY <1>1, <2>1, <2>2, <3>1, <3>4 DEF Waiting, Answered, Limited
  <2>3. CASE pc[v] # "limit"
    <3>1. owed'[v] = owed[v] BY <1>1, <2>3
    <3> QED BY <1>1, <2>1, <2>3, <3>1 DEF Waiting, Answered, Limited
  <2> QED BY <2>2, <2>3
<1> QED BY <1>3, <1>4, <1>5 DEF LimitInv

LEMMA SameLimits ==
  ASSUME LimitInv, UNCHANGED vars
  PROVE  LimitInv'
<1>1. UNCHANGED <<tree, stat, pc, req, array, todo, code, spent, owed, seen, cut>>
  BY DEF vars, machine, history
<1>2. Typed' BY <1>1 DEF LimitInv, Typed
<1>3. Counted' BY <1>1 DEF LimitInv, Counted
<1>4. ASSUME NEW v \in Workers PROVE Waiting(v)' /\ Answered(v)'
  <2>1. Waiting(v) /\ Answered(v) BY DEF LimitInv
  <2> QED BY <1>1, <2>1 DEF Waiting, Answered, Limited, Unwrapped, Exceeded
<1> QED BY <1>2, <1>3, <1>4 DEF LimitInv

\* A request of a subject over its limit is refused by the first rule it broke, and no
\* other request is, whatever the other workers log between the arrays of rules.
THEOREM RefusesTheRight == PhaseSpec => []RefusedWhenOver
<1>1. PhaseInit => LimitInv BY InitLimits DEF PhaseInit
<1>2. ASSUME LimitInv, [PhaseNext]_phaseVars PROVE LimitInv'
  <2>1. CASE PhaseNext
    <3>1. CASE LimitStep
      <4>1. Next BY <3>1 DEF LimitStep
      <4>2. ASSUME NEW w \in Workers, NEW r \in Requests, Arrive(w, r) PROVE LimitInv'
        BY <1>2, <4>2, ArriveKeeps
      <4>3. ASSUME NEW w \in Workers, NEW upto \in Uptos, Serve(w, upto) PROVE LimitInv'
        BY <1>2, <4>3, ServeKeeps
      <4>4. ASSUME NEW w \in Workers, LimitArray(w) PROVE LimitInv'
        BY <1>2, <4>4, LimitArrayKeeps
      <4>5. ASSUME NEW w \in Workers, LogKey(w) PROVE LimitInv' BY <1>2, <4>5, LogKeyKeeps
      <4>6. ASSUME NEW w \in Workers, LogDone(w) PROVE LimitInv' BY <1>2, <4>6, LogDoneKeeps
      <4>7. ASSUME Reset PROVE LimitInv' BY <1>2, <4>7, ResetKeeps
      <4>8. ASSUME Stop PROVE LimitInv' BY <1>2, <4>8, SameLimits DEF Stop
      <4> QED BY <4>1, <4>2, <4>3, <4>4, <4>5, <4>6, <4>7, <4>8 DEF Next
    <3>2. CASE SetStep BY <1>2, <3>2, SameLimits DEF SetStep
    <3> QED BY <2>1, <3>1, <3>2 DEF PhaseNext
  <2>2. CASE UNCHANGED phaseVars BY <1>2, <2>2, SameLimits DEF phaseVars
  <2> QED BY <1>2, <2>1, <2>2
<1>3. LimitInv => RefusedWhenOver
  BY DEF LimitInv, Answered, RefusedWhenOver, OverIsRefused, RefusalJustified
<1> QED BY <1>1, <1>2, <1>3, PTL DEF PhaseSpec

(***************************************************************************)
(* The set rules.  What is in memory with a hash is a node of the key that *)
(* has the hash; what the counter of a linked node shows is among what it  *)
(* held; and every rule that was answered was answered well.               *)
(***************************************************************************)
Counter == "requestCounter"
UpstreamTexts == {"upstream@alone", "upstream@group"}

SetTyped ==
  /\ mem \in [Slots -> [key : Keys \cup {NoKey}, hash : Nat, count : 0 .. MaxCount]]
  /\ linked \in SUBSET Slots
  /\ change \in [kind : {"none", "insert", "remove"}, slot : Slots \cup {NoSlot}]
  /\ cache \in [S!Groups -> Slots \cup {NoSlot}]
  /\ held \in [Keys -> SUBSET Nat] /\ stayed \in SUBSET Keys /\ removed \in BOOLEAN

\* A slot with a hash holds a node, a linked one does, and no key is linked twice.
NodesInMemory ==
  /\ \A s \in Slots : mem[s].hash # 0 =>
       S!KeyOf(s) \in Keys /\ mem[s].hash = Hash[S!KeyOf(s)]
  /\ \A s \in linked : mem[s].hash # 0
  /\ \A s, t \in linked : S!KeyOf(s) = S!KeyOf(t) => s = t

\* A change is that of a node which is not yet linked, or still.
Changing ==
  \/ change = S!NoChange
  \/ /\ change.kind = "insert" /\ change.slot \in Slots \ linked
     /\ mem[change.slot].hash # 0 /\ S!Linked(S!KeyOf(change.slot)) = {}
  \/ change.kind = "remove" /\ change.slot \in linked /\ removed

\* Until a removal what has a hash is linked or will be, with a counter that was noted.
Fresh ==
  ~removed => \A s \in Slots : mem[s].hash # 0 =>
    (s \in linked \/ s = change.slot) /\ mem[s].count \in held[S!KeyOf(s)]

Staying ==
  /\ \A k \in stayed : S!Linked(k) # {}
  /\ change.kind = "remove" => S!KeyOf(change.slot) \notin stayed

ZoneInv == SetTyped /\ NodesInMemory /\ Changing /\ Fresh /\ Staying

AsksFor(j, k) == S!Asks(set_rules[j], k, Counter)
KnownPeerOf(k) == k[1] = "UG" => S!UpstreamKnown(SubSeq(k, 3, Len(k)))
UpstreamFound(n) == \E l \in 1 .. n : S!IsSet(l) /\ set_rules[l][1] \in UpstreamTexts

RightValue(j) ==
  ~removed => \A k \in Keys :
    AsksFor(j, k) /\ S!IsSet(j) => set_vars[j] \in {S!ToString(n) : n \in held[k]}
RightlySet(j) ==
  j \notin missed => \A k \in stayed : AsksFor(j, k) /\ KnownPeerOf(k) => S!IsSet(j)
RightlyNot(j) ==
  \A k \in Keys : AsksFor(j, k) /\ S!IsSet(j) /\ ~KnownPeerOf(k) => UpstreamFound(j - 1)

AnsweredWell(j) == RightValue(j) /\ RightlySet(j) /\ RightlyNot(j)

AtRule ==
  /\ set_rules \in RuleSets /\ set_i \in 1 .. Len(set_rules) + 1
  /\ set_pc # "done" => set_i <= Len(set_rules)
  /\ DOMAIN set_vars = DOMAIN set_rules
  /\ \A j \in DOMAIN set_vars :
       j >= set_i => set_vars[j] = "unset" /\ (set_pc = "done" => j \in missed)
  /\ control.count \in Nat /\ (control.count # 0 => UpstreamFound(set_i - 1))

InHand ==
  /\ found \in Slots
  /\ control = S!Parse(set_rules[set_i], control.count) /\ control.group # "none"
  /\ ~removed => mem[found].hash # 0 /\ S!KeyOf(found) = S!GenerateKey(control.zone, control.group)

RulesInv ==
  /\ set_pc \in {"idle", "find", "read", "done"}
  /\ set_pc = "idle" => set_vars = <<>>
  /\ set_pc # "idle" => AtRule /\ \A j \in 1 .. set_i - 1 : AnsweredWell(j)
  /\ set_pc = "read" => InHand

SetInv == ZoneInv /\ RulesInv

(* Texts *)

\* The tokens of texts; that a literal is a string is beyond the provers.
Tokens ==
  STRING \cup {"/", "@", "[:alpha:]", "[:slash:]", Counter, "server", "upstream@alone",
              "upstream@group", "cache", "filter"}

LEMMA Alphabet ==
  /\ S!Sep = "US" /\ S!Groups = {"NO", "UA", "UG", "CC", "FG"}
  /\ \A b, x, y : S!ReplaceChrc(b, x, y) = [i \in DOMAIN b |-> IF b[i] = x THEN y ELSE b[i]]
  /\ \A b, x, y : S!ReplaceStrc(b, x, y, TRUE) = S!ReplaceChrc(b, x, y)
BY DEF S!Sep, S!Groups, S!ReplaceChrc, S!ReplaceStrc

\* The name in a key.
LEMMA NameOfKey ==
  ASSUME NEW k \in Keys
  PROVE  /\ SubSeq(k, 3, Len(k)) \in Seq(STRING) /\ Len(SubSeq(k, 3, Len(k))) = Len(k) - 2
         /\ Len(k) - 2 \in Nat
         /\ \A j \in 1 .. Len(k) - 2 :
              SubSeq(k, 3, Len(k))[j] = k[j + 2] /\ j + 2 \in 3 .. Len(k) /\ k[j + 2] \in STRING
<1> PICK e : e = Len(k) OBVIOUS
<1>1. /\ e \in Int /\ 3 \in Int /\ e >= 2 /\ e - 2 \in Nat
      /\ \A i \in 3 .. e : k[i] \in STRING
  BY NamesAssumption
<1>2. /\ SubSeq(k, 3, e) \in Seq(STRING)
      /\ Len(SubSeq(k, 3, e)) = IF 3 <= e THEN e - 3 + 1 ELSE 0
      /\ \A i \in 1 .. e - 3 + 1 : SubSeq(k, 3, e)[i] = k[3 + i - 1]
  BY <1>1, SubSeqProperties
<1>3. (IF 3 <= e THEN e - 3 + 1 ELSE 0) = e - 2 BY <1>1
<1>4. ASSUME NEW j \in 1 .. e - 2
      PROVE  SubSeq(k, 3, e)[j] = k[j + 2] /\ j + 2 \in 3 .. e /\ k[j + 2] \in STRING
  <2>1. j \in 1 .. e - 3 + 1 /\ 3 + j - 1 = j + 2 /\ j + 2 \in 3 .. e BY <1>1
  <2> QED BY <1>1, <1>2, <2>1
<1> QED BY <1>1, <1>2, <1>3, <1>4

\* A name written for a rule has no slash, and is read back as it was.
LEMMA WrittenName ==
  ASSUME NEW k \in Keys
  PROVE  /\ S!Written(k) \in Seq(Tokens) /\ Len(S!Written(k)) = Len(k) - 2
         /\ \A j \in 1 .. Len(k) - 2 : S!Written(k)[j] # "/"
         /\ S!ZoneOf(S!Written(k)) = SubSeq(k, 3, Len(k))
<1> DEFINE name == SubSeq(k, 3, Len(k))
           n == Len(k) - 2
           c1 == S!ReplaceChrc(name, "@", "[:alpha:]")
           c2 == S!ReplaceChrc(c1, "/", "[:slash:]")
           c3 == S!ReplaceChrc(c2, "US", "@")
           d1 == S!ReplaceChrc(c3, "@", "US")
           d2 == S!ReplaceChrc(d1, "[:alpha:]", "@")
           d3 == S!ReplaceChrc(d2, "[:slash:]", "/")
<1>1. /\ k \in Seq(STRING) /\ Len(k) \in Nat /\ Len(k) >= 2
      /\ \A j \in 3 .. Len(k) : k[j] \notin {"[:alpha:]", "[:slash:]"}
  BY NamesAssumption
<1>2. name \in Seq(STRING) /\ Len(name) = n /\ n \in Nat /\ DOMAIN name = 1 .. n
      /\ \A j \in 1 .. n : name[j] = k[j + 2] /\ j + 2 \in 3 .. Len(k) /\ name[j] \in STRING
  BY <1>1, NameOfKey
<1>3. \A j \in 1 .. n : name[j] \notin {"[:alpha:]", "[:slash:]"} BY <1>1, <1>2
<1> HIDE DEF name, n
<1>4. DOMAIN c1 = 1 .. n
      /\ \A j \in 1 .. n : c1[j] = IF name[j] = "@" THEN "[:alpha:]" ELSE name[j]
  BY <1>2, Alphabet
<1> HIDE DEF c1
<1>5. DOMAIN c2 = 1 .. n
      /\ \A j \in 1 .. n : c2[j] = IF c1[j] = "/" THEN "[:slash:]" ELSE c1[j]
  BY <1>4, Alphabet
<1> HIDE DEF c2
<1>6. c3 = [j \in 1 .. n |-> IF c2[j] = "US" THEN "@" ELSE c2[j]]
  BY <1>5, Alphabet
<1> HIDE DEF c3
<1>7. DOMAIN d1 = 1 .. n
      /\ \A j \in 1 .. n : d1[j] = IF c3[j] = "@" THEN "US" ELSE c3[j]
  BY <1>6, Alphabet
<1> HIDE DEF d1
<1>8. DOMAIN d2 = 1 .. n
      /\ \A j \in 1 .. n : d2[j] = IF d1[j] = "[:alpha:]" THEN "@" ELSE d1[j]
  BY <1>7, Alphabet
<1> HIDE DEF d2
<1>9. d3 = [j \in 1 .. n |-> IF d2[j] = "[:slash:]" THEN "/" ELSE d2[j]]
  BY <1>8, Alphabet
<1> HIDE DEF d3
<1>10. S!Written(k) = c3 BY Alphabet DEF S!Written, c3, c2, c1, name
<1>11. S!ZoneOf(c3) = d3 BY DEF S!ZoneOf, S!ReplaceStrc, S!Sep, d3, d2, d1
<1>12. ASSUME NEW j \in 1 .. n PROVE d3[j] = name[j] /\ c3[j] # "/" /\ c3[j] \in Tokens
  <2>1. /\ c3[j] = IF c2[j] = "US" THEN "@" ELSE c2[j]
        /\ d3[j] = IF d2[j] = "[:slash:]" THEN "/" ELSE d2[j]
    BY <1>6, <1>9
  <2>2. c1[j] = IF name[j] = "@" THEN "[:alpha:]" ELSE name[j] BY <1>4
  <2>3. c2[j] = IF c1[j] = "/" THEN "[:slash:]" ELSE c1[j] BY <1>5
  <2>4. d1[j] = IF c3[j] = "@" THEN "US" ELSE c3[j] BY <1>7
  <2>5. d2[j] = IF d1[j] = "[:alpha:]" THEN "@" ELSE d1[j] BY <1>8
  <2>6. name[j] # "[:alpha:]" /\ name[j] # "[:slash:]" /\ name[j] \in STRING BY <1>2, <1>3
  <2>7. c3[j] # "/" /\ c3[j] \in Tokens
    <3>1. "[:alpha:]" \in Tokens /\ "[:slash:]" \in Tokens /\ "@" \in Tokens BY DEF Tokens
    <3>2. c3[j] # "/" BY <2>1, <2>2, <2>3, <2>6
    <3>3. c1[j] \in Tokens BY <2>2, <2>6, <3>1 DEF Tokens
    <3>4. c2[j] \in Tokens BY <2>3, <3>1, <3>3
    <3> QED BY <2>1, <3>1, <3>2, <3>4
  <2>8. c1[j] # "@" BY <2>2, <2>6
  <2>9. c2[j] # "@" BY <2>3, <2>8
  <2>10. d1[j] = c2[j] BY <2>1, <2>4, <2>9
  <2>11. d3[j] = name[j] BY <2>1, <2>2, <2>3, <2>5, <2>6, <2>10
  <2> QED BY <2>7, <2>11
<1>13. c3 \in Seq(Tokens) /\ Len(c3) = n
  <2>1. c3 \in [1 .. n -> Tokens] BY <1>6, <1>12
  <2> QED BY <1>2, <2>1
<1>14. d3 = name
  <2>1. DOMAIN d3 = 1 .. n /\ d3 = [j \in 1 .. n |-> d3[j]] BY <1>9
  <2>2. name = [j \in 1 .. n |-> name[j]] BY <1>2
  <2> QED BY <1>12, <2>1, <2>2
<1> QED BY <1>10, <1>11, <1>12, <1>13, <1>14 DEF name, n

\* The cardinality of the instance is the cardinality.
LEMMA SameCardinality ==
  \A x : S!Cardinality(x) = Cardinality(x)
BY DEF S!Cardinality, Cardinality

LEMMA OneToken ==
  ASSUME NEW T, NEW s \in Seq(T), NEW j \in 1 .. Len(s)
  PROVE  SubSeq(s, j, j) = <<s[j]>>
<1>1. \A i \in j .. j : s[i] \in T OBVIOUS
<1>2. SubSeq(s, j, j) \in Seq(T) /\ Len(SubSeq(s, j, j)) = 1 /\ SubSeq(s, j, j)[1] = s[j]
  BY <1>1, SubSeqProperties
<1>3. <<s[j]>> \in Seq(T) /\ Len(<<s[j]>>) = 1 /\ <<s[j]>>[1] = s[j] OBVIOUS
<1> DEFINE a == SubSeq(s, j, j)
           b == <<s[j]>>
<1>4. \A i \in 1 .. Len(a) : a[i] = b[i] BY <1>2, <1>3
<1>5. a \in Seq(T) /\ b \in Seq(T) /\ Len(a) = Len(b) BY <1>2, <1>3
<1> HIDE DEF a, b
<1>6. a = b BY <1>4, <1>5, SeqEqual
<1> QED BY <1>6 DEF a, b

\* Where a rule written for a key is cut.
NoSlash(wr) == \A j \in 1 .. Len(wr) : wr[j] # "/"
RuleOf(g, wr, m) == <<g, "/">> \o wr \o <<"/", m>>
CutFrom(rule, g, wr, m) ==
  /\ rule \in Seq(Tokens) /\ Len(rule) = Len(wr) + 4 /\ Len(wr) \in Nat
  /\ S!Slashes(rule) = {2, Len(wr) + 3}
  /\ SubSeq(rule, 1, 1) = <<g>> /\ SubSeq(rule, 3, Len(wr) + 2) = wr
  /\ SubSeq(rule, Len(wr) + 4, Len(wr) + 4) = <<m>>

LEMMA AskedSlashes ==
  ASSUME NEW g \in Tokens \ {"/"}, NEW m \in Tokens \ {"/"}, NEW wr \in Seq(Tokens),
         NoSlash(wr), NEW rule, rule = RuleOf(g, wr, m)
  PROVE  CutFrom(rule, g, wr, m)
<1> DEFINE n == Len(wr)
<1>0. "/" \in Tokens BY DEF Tokens
<1> USE DEF NoSlash, RuleOf
<1>1. n \in Nat /\ rule \in Seq(Tokens) /\ Len(rule) = n + 4 BY <1>0
<1>2. rule[1] = g /\ rule[2] = "/" /\ rule[n + 3] = "/" /\ rule[n + 4] = m BY <1>1
<1>3. \A j \in 1 .. n : rule[j + 2] = wr[j] BY <1>1
<1>4. S!Slashes(rule) = {2, n + 3}
  <2>1. DOMAIN rule = 1 .. n + 4 BY <1>1
  <2>2. ASSUME NEW j \in 1 .. n + 4, rule[j] = "/" PROVE j \in {2, n + 3}
    <3>1. CASE j \in {1, 2, n + 3, n + 4} BY <1>2, <2>2, <3>1
    <3>2. CASE j \in 3 .. n + 2
      <4>1. j - 2 \in 1 .. n /\ (j - 2) + 2 = j BY <1>1, <3>2
      <4>2. rule[j] = wr[j - 2] BY <1>3, <4>1
      <4> QED BY <2>2, <4>1, <4>2
    <3> QED BY <1>1, <3>1, <3>2
  <2>3. 2 \in 1 .. n + 4 /\ n + 3 \in 1 .. n + 4 BY <1>1
  <2> QED BY <1>2, <2>1, <2>2, <2>3 DEF S!Slashes
<1>5. SubSeq(rule, 1, 1) = <<g>>
  <2>1. 1 \in 1 .. Len(rule) BY <1>1
  <2>2. SubSeq(rule, 1, 1) = <<rule[1]>> BY <1>1, <2>1, OneToken
  <2> QED BY <1>2, <2>2
<1>6. SubSeq(rule, n + 4, n + 4) = <<m>>
  <2>1. n + 4 \in 1 .. Len(rule) BY <1>1
  <2>2. SubSeq(rule, n + 4, n + 4) = <<rule[n + 4]>> BY <1>1, <2>1, OneToken
  <2> QED BY <1>2, <2>2
<1>7. SubSeq(rule, 3, n + 2) = wr
  <2> DEFINE sub == SubSeq(rule, 3, n + 2)
  <2>1. sub \in Seq(Tokens) /\ Len(sub) = n BY <1>1
  <2>2. ASSUME NEW j \in 1 .. n PROVE sub[j] = wr[j]
    <3>1. sub[j] = rule[j + 2] BY <1>1
    <3> QED BY <1>3, <3>1
  <2> HIDE DEF sub
  <2>3. wr \in Seq(Tokens) /\ Len(wr) = n OBVIOUS
  <2>4. sub = wr BY <2>1, <2>2, <2>3, SeqEqual
  <2> QED BY <2>4 DEF sub
<1> QED BY <1>1, <1>4, <1>5, <1>6, <1>7 DEF CutFrom

LEMMA Groups ==
  /\ S!GroupOf(<<"server">>) = "NO" /\ S!GroupOf(<<"upstream@alone">>) = "UA"
  /\ S!GroupOf(<<"upstream@group">>) = "UG" /\ S!GroupOf(<<"cache">>) = "CC"
  /\ S!GroupOf(<<"filter">>) = "FG"
  /\ \A t : S!GroupOf(t) \in S!Groups \cup {"none"}
  /\ \A t : S!GroupOf(t) = "UA" => t = <<"upstream@alone">>
  /\ \A t : S!GroupOf(t) = "UG" => t = <<"upstream@group">>
BY DEF S!GroupOf, S!Groups

\* A rule written for a key is read as that key, and names its member.
LEMMA AskedParse ==
  ASSUME NEW k \in Keys, NEW rule, S!Asks(rule, k, Counter), NEW c
  PROVE  /\ S!Parse(rule, c).group = k[1] /\ S!Parse(rule, c).group \in S!Groups
         /\ S!Parse(rule, c).zone = SubSeq(k, 3, Len(k))
         /\ S!Parse(rule, c).name = <<Counter>>
         /\ S!GenerateKey(S!Parse(rule, c).zone, S!Parse(rule, c).group) = k
<1> PICK g : g = S!GroupText(k) OBVIOUS
<1> PICK wr : wr = S!Written(k) OBVIOUS
<1> PICK n : n = Len(wr) OBVIOUS
<1>1. /\ k \in Seq(STRING) /\ Len(k) \in Nat /\ Len(k) >= 2
      /\ k[1] \in {"NO", "UA", "UG", "CC", "FG"} /\ k[2] = "US"
  BY NamesAssumption, Alphabet
<1>2. g \in Tokens /\ g # "/" /\ S!GroupOf(<<g>>) = k[1]
  <2>1. g \in {"server", "upstream@alone", "upstream@group", "cache", "filter"}
    BY DEF S!GroupText
  <2>2. S!GroupOf(<<g>>) = k[1] BY <1>1, Groups DEF S!GroupText
  <2> QED BY <2>1, <2>2 DEF Tokens
<1>3. Counter \in Tokens /\ Counter # "/" BY DEF Tokens, Counter
<1>4. wr \in Seq(Tokens) /\ \A j \in 1 .. n : wr[j] # "/"
  BY WrittenName, <1>1
<1>5. rule = <<g, "/">> \o wr \o <<"/", Counter>> BY DEF S!Asks
<1>6. S!ZoneOf(wr) = SubSeq(k, 3, Len(k)) BY WrittenName
<1>7. /\ rule \in Seq(Tokens) /\ Len(rule) = n + 4 /\ n \in Nat
      /\ S!Slashes(rule) = {2, n + 3}
      /\ SubSeq(rule, 1, 1) = <<g>> /\ SubSeq(rule, 3, n + 2) = wr
      /\ SubSeq(rule, n + 4, n + 4) = <<Counter>>
  <2>1. g \in Tokens \ {"/"} /\ Counter \in Tokens \ {"/"} BY <1>2, <1>3
  <2>2. wr \in Seq(Tokens) /\ NoSlash(wr) BY <1>4 DEF NoSlash
  <2>3. rule = RuleOf(g, wr, Counter) BY <1>5 DEF RuleOf
  <2>4. CutFrom(rule, g, wr, Counter) BY <2>1, <2>2, <2>3, AskedSlashes
  <2> QED BY <2>4 DEF CutFrom
<1>8. ~(S!Cardinality(S!Slashes(rule)) < 2)
  <2>1. Cardinality({2, n + 3}) = 2
    <3>1. IsFiniteSet({n + 3}) /\ Cardinality({n + 3}) = 1 BY FS_Singleton
    <3>2. 2 \notin {n + 3} /\ {n + 3} \cup {2} = {2, n + 3} BY <1>7
    <3>3. Cardinality({n + 3} \cup {2}) = Cardinality({n + 3}) + 1 BY <3>1, <3>2, FS_AddElement
    <3>4. Cardinality({n + 3} \cup {2}) = 2 BY <3>1, <3>3
    <3> QED BY <3>2, <3>4
  <2> QED BY <1>7, <2>1, SameCardinality
<1> DEFINE first == CHOOSE j \in S!Slashes(rule) : \A l \in S!Slashes(rule) : j <= l
           second == CHOOSE j \in S!Slashes(rule) \ {first} :
                       \A l \in S!Slashes(rule) \ {first} : j <= l
<1>9. first = 2
  <2>1. 2 \in S!Slashes(rule) /\ \A l \in S!Slashes(rule) : 2 <= l BY <1>7
  <2>2. first \in S!Slashes(rule) /\ \A l \in S!Slashes(rule) : first <= l BY <2>1
  <2> QED BY <1>7, <2>1, <2>2
<1> HIDE DEF first
<1>10. second = n + 3
  <2>1. S!Slashes(rule) \ {first} = {n + 3} BY <1>7, <1>9
  <2>2. n + 3 \in Nat BY <1>7
  <2>3. second \in S!Slashes(rule) \ {first} BY <2>1, <2>2
  <2> QED BY <2>1, <2>3
<1> HIDE DEF second
<1>11. S!Parse(rule, c) = [group |-> S!GroupOf(SubSeq(rule, 1, first - 1)),
                          zone |-> S!ZoneOf(SubSeq(rule, first + 1, second - 1)),
                          name |-> SubSeq(rule, second + 1, Len(rule)), count |-> c]
  BY <1>8, SameCardinality DEF S!Parse, first, second
<1>12. first - 1 = 1 /\ first + 1 = 3 /\ second - 1 = n + 2 /\ second + 1 = n + 4
  BY <1>7, <1>9, <1>10
<1>13. S!Parse(rule, c) = [group |-> k[1], zone |-> SubSeq(k, 3, Len(k)),
                          name |-> <<Counter>>, count |-> c]
  BY <1>2, <1>6, <1>7, <1>11, <1>12
<1>14. S!GenerateKey(SubSeq(k, 3, Len(k)), k[1]) = k
  <2>1. S!GenerateKey(SubSeq(k, 3, Len(k)), k[1]) = <<k[1], "US">> \o SubSeq(k, 3, Len(k))
    BY <1>1, Alphabet DEF S!GenerateKey, S!GroupToString
  <2> DEFINE r == <<k[1], k[2]>> \o SubSeq(k, 3, Len(k))
  <2>2. <<k[1], k[2]>> \in Seq(STRING) /\ SubSeq(k, 3, Len(k)) \in Seq(STRING)
        /\ Len(<<k[1], k[2]>>) = 2 /\ Len(SubSeq(k, 3, Len(k))) = Len(k) - 2
    <3>1. k[1] \in STRING /\ k[2] \in STRING BY <1>1
    <3>2. SubSeq(k, 3, Len(k)) \in Seq(STRING) /\ Len(SubSeq(k, 3, Len(k))) = Len(k) - 2
      BY NameOfKey
    <3> QED BY <3>1, <3>2
  <2>3. r \in Seq(STRING) /\ Len(r) = Len(k) BY <1>1, <2>2
  <2>4. ASSUME NEW j \in 1 .. Len(k) PROVE r[j] = k[j]
    <3>1. CASE j <= 2 BY <1>1, <3>1
    <3>2. CASE j > 2 BY <1>1, <3>2
    <3> QED BY <1>1, <3>1, <3>2
  <2> HIDE DEF r
  <2>5. r = k BY <1>1, <2>3, <2>4
  <2> QED BY <1>1, <2>1, <2>5 DEF r
<1> QED BY <1>1, <1>13, <1>14, Alphabet

\* What is read of any rule: the count is handed through, and an upstream is named.
LEMMA ParseFacts ==
  ASSUME NEW rule \in Seq(STRING), NEW c
  PROVE  LET p == S!Parse(rule, c)
         IN /\ p.count = c /\ p.group \in S!Groups \cup {"none"}
            /\ p.group \in {"UA", "UG"} => rule[1] \in UpstreamTexts
<1> DEFINE first == CHOOSE j \in S!Slashes(rule) : \A l \in S!Slashes(rule) : j <= l
<1>1. CASE S!Cardinality(S!Slashes(rule)) < 2
  <2>1. S!Parse(rule, c) = [S!NoControl EXCEPT !.count = c] BY <1>1 DEF S!Parse
  <2>2. S!Parse(rule, c).count = c /\ S!Parse(rule, c).group = "none" BY <2>1 DEF S!NoControl
  <2> QED BY <2>2
<1>2. CASE ~(S!Cardinality(S!Slashes(rule)) < 2)
  <2>1. S!Parse(rule, c).count = c /\ S!Parse(rule, c).group = S!GroupOf(SubSeq(rule, 1, first - 1))
    BY <1>2 DEF S!Parse
  <2>2. first \in S!Slashes(rule)
    <3>1. S!Slashes(rule) # {} 
      <4>1. Cardinality({}) = 0 BY FS_EmptySet
      <4>2. ASSUME S!Slashes(rule) = {} PROVE FALSE BY <1>2, <4>1, <4>2, SameCardinality
      <4> QED BY <4>2
    <3>2. S!Slashes(rule) \in SUBSET Nat BY DEF S!Slashes
    <3>3. \E j \in S!Slashes(rule) : \A l \in S!Slashes(rule) : j <= l BY <3>1, <3>2, Least
    <3> QED BY <3>3
  <2>3. first \in 1 .. Len(rule) BY <2>2 DEF S!Slashes
  <2> HIDE DEF first
  <2>4. ASSUME NEW x, SubSeq(rule, 1, first - 1) = <<x>> PROVE rule[1] = x
    <3>1. Len(SubSeq(rule, 1, first - 1)) = 1
      <4>1. Len(<<x>>) = 1 OBVIOUS
      <4> QED BY <2>4, <4>1
    <3>2. first - 1 >= 1 BY <2>3, <3>1
    <3>3. SubSeq(rule, 1, first - 1)[1] = rule[1] BY <2>3, <3>2
    <3>4. <<x>>[1] = x OBVIOUS
    <3> QED BY <2>4, <3>3, <3>4
  <2>5. S!Parse(rule, c).group \in {"UA", "UG"} => rule[1] \in UpstreamTexts
    BY <2>1, <2>4, Groups DEF UpstreamTexts
  <2> QED BY <2>1, <2>5, Groups
<1> QED BY <1>1, <1>2

(* The zone *)

Records == [key : Keys \cup {NoKey}, hash : Nat, count : 0 .. MaxCount]

LEMMA Memory ==
  ASSUME SetTyped, NEW s \in Slots
  PROVE  /\ mem[s] \in Records /\ DOMAIN mem = Slots
         /\ mem[s].key \in Keys \cup {NoKey} /\ mem[s].hash \in Nat /\ mem[s].count \in 0 .. MaxCount
BY DEF SetTyped, Records

\* A step that leaves the zone and what is noted of it, but for fewer stay.
LEMMA ZoneBeside ==
  ASSUME ZoneInv, UNCHANGED <<mem, linked, change, held, removed>>,
         stayed' \in SUBSET stayed, cache' \in [S!Groups -> Slots \cup {NoSlot}]
  PROVE  ZoneInv'
<1>1. SetTyped' BY DEF ZoneInv, SetTyped
<1>2. NodesInMemory' /\ Fresh'
  BY DEF ZoneInv, NodesInMemory, Fresh, S!KeyOf
<1>3. Changing' BY DEF ZoneInv, Changing, S!KeyOf, S!Linked, S!NoChange
<1>4. Staying' BY DEF ZoneInv, Staying, S!KeyOf, S!Linked
<1> QED BY <1>1, <1>2, <1>3, <1>4 DEF ZoneInv

LEMMA ZoneLog == ASSUME ZoneInv, NEW s \in Slots, S!Log(s) PROVE ZoneInv'
<1>0. SetTyped /\ NodesInMemory /\ Changing /\ Fresh /\ Staying BY DEF ZoneInv
<1>1. /\ s \in linked /\ mem[s].count < MaxCount
      /\ mem' = [mem EXCEPT ![s].count = @ + 1]
      /\ held' = [held EXCEPT ![mem[s].key] = @ \cup {mem[s].count + 1}]
      /\ UNCHANGED <<linked, change, cache, stayed, removed>>
  BY DEF S!Log, S!KeyOf
<1>2. ASSUME NEW t \in Slots
      PROVE  /\ mem'[t].key = mem[t].key /\ mem'[t].hash = mem[t].hash /\ mem'[t] \in Records
             /\ mem'[t].count = IF t = s THEN mem[t].count + 1 ELSE mem[t].count
  <2>1. mem[t] \in Records /\ MaxCount \in Nat BY <1>0, Memory, SetAssumption
  <2> QED BY <1>0, <1>1, <2>1 DEF SetTyped, Records
<1>3. mem[s].key \in Keys BY <1>0, <1>1 DEF NodesInMemory, S!KeyOf
<1>4. SetTyped'
  <2>1. mem' \in [Slots -> Records] BY <1>0, <1>1, <1>2 DEF SetTyped
  <2>2. held' \in [Keys -> SUBSET Nat]
    <3>1. mem[s].count + 1 \in Nat BY <1>0, Memory
    <3> QED BY <1>0, <1>1, <1>3, <3>1 DEF SetTyped
  <2> QED BY <1>0, <1>1, <2>1, <2>2 DEF SetTyped, Records
<1>5. linked \in SUBSET Slots /\ linked' = linked /\ change' = change BY <1>0, <1>1 DEF SetTyped
<1>6. NodesInMemory' BY <1>0, <1>2, <1>5 DEF NodesInMemory, S!KeyOf
<1>7. \A k : S!Linked(k)' = S!Linked(k) BY <1>2, <1>5 DEF S!Linked, S!KeyOf
<1>8. Changing' BY <1>0, <1>1, <1>2, <1>5, <1>7 DEF Changing, S!KeyOf, S!NoChange
<1>9. Fresh'
  <2> SUFFICES ASSUME ~removed, NEW t \in Slots, mem'[t].hash # 0
               PROVE  (t \in linked \/ t = change.slot) /\ mem'[t].count \in held'[mem'[t].key]
    BY <1>1 DEF Fresh, S!KeyOf
  <2>1. (t \in linked \/ t = change.slot) /\ mem[t].count \in held[mem[t].key] /\ mem[t].key \in Keys
    BY <1>0, <1>2 DEF Fresh, NodesInMemory, S!KeyOf
  <2>2. held[mem[t].key] \subseteq held'[mem[t].key] BY <1>0, <1>1, <2>1 DEF SetTyped
  <2>3. held'[mem[s].key] = held[mem[s].key] \cup {mem[s].count + 1} BY <1>0, <1>1, <1>3 DEF SetTyped
  <2> QED BY <1>2, <2>1, <2>2, <2>3
<1>10. Staying'
  <2>1. change.kind = "remove" => change.slot \in Slots BY <1>0, <1>5 DEF Changing, S!NoChange
  <2> QED BY <1>0, <1>1, <1>2, <1>7, <2>1 DEF Staying, S!KeyOf
<1> QED BY <1>4, <1>6, <1>8, <1>9, <1>10 DEF ZoneInv

LEMMA ZoneInsertBegin ==
  ASSUME ZoneInv, NEW k \in Keys, NEW s \in Slots, S!InsertBegin(k, s) PROVE ZoneInv'
<1>0. SetTyped /\ NodesInMemory /\ Changing /\ Fresh /\ Staying BY DEF ZoneInv
<1>1. /\ change = S!NoChange /\ S!Linked(k) = {} /\ s \notin linked
      /\ mem' = [mem EXCEPT ![s] = [key |-> k, hash |-> Hash[k], count |-> 1]]
      /\ change' = [kind |-> "insert", slot |-> s]
      /\ held' = [held EXCEPT ![k] = @ \cup {1}]
      /\ UNCHANGED <<linked, cache, stayed, removed>>
  BY DEF S!InsertBegin, S!Node
<1>2. Hash[k] \in Nat /\ Hash[k] # 0 /\ 1 \in 0 .. MaxCount BY HashAssumption, SetAssumption
<1>3. /\ mem'[s].key = k /\ mem'[s].hash = Hash[k] /\ mem'[s].count = 1
      /\ \A t \in Slots : t # s => mem'[t] = mem[t]
      /\ change'.kind = "insert" /\ change'.slot = s
  BY <1>0, <1>1 DEF SetTyped
<1>4. SetTyped'
  <2>1. mem' \in [Slots -> Records] BY <1>0, <1>1, <1>2 DEF SetTyped, Records
  <2>2. held' \in [Keys -> SUBSET Nat] BY <1>0, <1>1 DEF SetTyped
  <2>3. change' \in [kind : {"none", "insert", "remove"}, slot : Slots \cup {NoSlot}] BY <1>1
  <2> QED BY <1>0, <1>1, <2>1, <2>2, <2>3 DEF SetTyped, Records
<1>5. linked \in SUBSET Slots /\ linked' = linked BY <1>0, <1>1 DEF SetTyped
<1>6. \A t \in linked : mem'[t] = mem[t] BY <1>1, <1>3, <1>5
<1>7. NodesInMemory'
  <2>1. \A t \in Slots : mem'[t].hash # 0 => mem'[t].key \in Keys /\ mem'[t].hash = Hash[mem'[t].key]
    BY <1>0, <1>3 DEF NodesInMemory, S!KeyOf
  <2>2. \A t \in linked : mem'[t].hash # 0 BY <1>0, <1>6 DEF NodesInMemory
  <2>3. \A t, u \in linked : mem'[t].key = mem'[u].key => t = u
    BY <1>0, <1>6 DEF NodesInMemory, S!KeyOf
  <2> QED BY <1>5, <2>1, <2>2, <2>3 DEF NodesInMemory, S!KeyOf
<1>8. \A l : S!Linked(l)' = S!Linked(l) BY <1>5, <1>6 DEF S!Linked, S!KeyOf
<1>9. Changing'
  <2>1. S!Linked(S!KeyOf(change.slot))' = {}
    <3>1. S!KeyOf(change.slot)' = k BY <1>3 DEF S!KeyOf
    <3> QED BY <1>1, <1>5, <1>6, <3>1 DEF S!Linked, S!KeyOf
  <2> QED BY <1>1, <1>2, <1>3, <2>1 DEF Changing
<1>10. Fresh'
  <2> SUFFICES ASSUME ~removed, NEW t \in Slots, mem'[t].hash # 0
               PROVE  (t \in linked \/ t = s) /\ mem'[t].count \in held'[mem'[t].key]
    BY <1>1, <1>3 DEF Fresh, S!KeyOf
  <2>1. CASE t = s BY <1>0, <1>1, <1>3, <2>1 DEF SetTyped
  <2>2. CASE t # s
    <3>1. mem'[t] = mem[t] BY <1>3, <2>2
    <3>2. (t \in linked \/ t = change.slot) /\ mem[t].count \in held[mem[t].key] /\ mem[t].key \in Keys
      BY <1>0, <3>1 DEF Fresh, NodesInMemory, S!KeyOf
    <3>3. t # change.slot BY <1>1, SetAssumption DEF S!NoChange
    <3>4. held[mem[t].key] \subseteq held'[mem[t].key] BY <1>0, <1>1, <3>2 DEF SetTyped
    <3> QED BY <3>1, <3>2, <3>3, <3>4
  <2> QED BY <2>1, <2>2
<1>11. Staying' BY <1>0, <1>1, <1>3, <1>8 DEF Staying
<1> QED BY <1>4, <1>7, <1>9, <1>10, <1>11 DEF ZoneInv

LEMMA ZoneInsertEnd == ASSUME ZoneInv, S!InsertEnd PROVE ZoneInv'
<1>0. SetTyped /\ NodesInMemory /\ Changing /\ Fresh /\ Staying BY DEF ZoneInv
<1>1. /\ change.kind = "insert" /\ linked' = linked \cup {change.slot} /\ change' = S!NoChange
      /\ UNCHANGED <<mem, cache, held, stayed, removed>>
  BY DEF S!InsertEnd, S!history
<1>2. S!NoChange.kind = "none" /\ S!NoChange.slot = NoSlot BY DEF S!NoChange
<1> PICK s : s = change.slot OBVIOUS
<1>3. s \in Slots \ linked /\ mem[s].hash # 0 /\ S!Linked(mem[s].key) = {}
  BY <1>0, <1>1, <1>2 DEF Changing, S!KeyOf
<1>4. SetTyped'
  <2>1. change' \in [kind : {"none", "insert", "remove"}, slot : Slots \cup {NoSlot}]
    BY <1>1 DEF S!NoChange
  <2>2. linked' \in SUBSET Slots BY <1>0, <1>1, <1>3 DEF SetTyped
  <2> QED BY <1>0, <1>1, <2>1, <2>2 DEF SetTyped
<1>5. NodesInMemory'
  <2>1. \A t \in linked : mem[t].key # mem[s].key BY <1>3 DEF S!Linked, S!KeyOf
  <2> QED BY <1>0, <1>1, <1>3, <2>1 DEF NodesInMemory, S!KeyOf
<1>6. Changing' BY <1>1 DEF Changing, S!NoChange
<1>7. Fresh' BY <1>0, <1>1 DEF Fresh, S!KeyOf
<1>8. Staying'
  <2>1. \A k : S!Linked(k) \subseteq S!Linked(k)' BY <1>1 DEF S!Linked, S!KeyOf
  <2>2. change'.kind # "remove" BY <1>1, <1>2
  <2> QED BY <1>0, <1>1, <2>1, <2>2 DEF Staying
<1> QED BY <1>4, <1>5, <1>6, <1>7, <1>8 DEF ZoneInv

LEMMA ZoneRemoveBegin ==
  ASSUME ZoneInv, NEW s \in Slots, S!RemoveBegin(s) PROVE ZoneInv'
<1>0. SetTyped /\ NodesInMemory /\ Changing /\ Fresh /\ Staying BY DEF ZoneInv
<1>1. /\ change = S!NoChange /\ s \in linked
      /\ change' = [kind |-> "remove", slot |-> s]
      /\ stayed' = stayed \ {mem[s].key} /\ removed' = TRUE
      /\ UNCHANGED <<mem, linked, cache, held>>
  BY DEF S!RemoveBegin, S!KeyOf
<1>2. change'.kind = "remove" /\ change'.slot = s BY <1>1
<1>3. SetTyped'
  <2>1. change' \in [kind : {"none", "insert", "remove"}, slot : Slots \cup {NoSlot}] BY <1>1
  <2> QED BY <1>0, <1>1, <2>1 DEF SetTyped
<1>4. NodesInMemory' BY <1>0, <1>1 DEF NodesInMemory, S!KeyOf
<1>5. Changing' BY <1>1, <1>2 DEF Changing
<1>6. Fresh' BY <1>1 DEF Fresh
<1>7. Staying' BY <1>0, <1>1, <1>2 DEF Staying, S!Linked, S!KeyOf
<1> QED BY <1>3, <1>4, <1>5, <1>6, <1>7 DEF ZoneInv

LEMMA ZoneRemoveEnd == ASSUME ZoneInv, S!RemoveEnd PROVE ZoneInv'
<1>0. SetTyped /\ NodesInMemory /\ Changing /\ Fresh /\ Staying BY DEF ZoneInv
<1> PICK s : s = change.slot OBVIOUS
<1>1. /\ change.kind = "remove" /\ linked' = linked \ {s}
      /\ mem' = [mem EXCEPT ![s].hash = 0] /\ change' = S!NoChange
      /\ UNCHANGED <<cache, held, stayed, removed>>
  BY DEF S!RemoveEnd, S!history
<1>2. S!NoChange.kind = "none" /\ S!NoChange.slot = NoSlot BY DEF S!NoChange
<1>3. s \in linked /\ s \in Slots /\ removed /\ linked \in SUBSET Slots
  BY <1>0, <1>1, <1>2 DEF Changing, SetTyped
<1>4. ASSUME NEW t \in Slots
      PROVE  /\ mem'[t].key = mem[t].key /\ mem'[t].count = mem[t].count
             /\ mem'[t] \in Records /\ mem'[t].hash = IF t = s THEN 0 ELSE mem[t].hash
  <2>1. mem[t] \in Records BY <1>0, Memory
  <2> QED BY <1>0, <1>1, <2>1 DEF SetTyped, Records
<1>5. SetTyped'
  <2>1. mem' \in [Slots -> Records] BY <1>0, <1>1, <1>4 DEF SetTyped
  <2>2. change' \in [kind : {"none", "insert", "remove"}, slot : Slots \cup {NoSlot}]
    BY <1>1 DEF S!NoChange
  <2> QED BY <1>0, <1>1, <1>3, <2>1, <2>2 DEF SetTyped, Records
<1>6. NodesInMemory' BY <1>0, <1>1, <1>3, <1>4 DEF NodesInMemory, S!KeyOf
<1>7. Changing' BY <1>1 DEF Changing, S!NoChange
<1>8. Fresh' BY <1>1, <1>3 DEF Fresh
<1>9. Staying'
  <2>1. ASSUME NEW k \in stayed PROVE S!Linked(k)' # {}
    <3>1. PICK t \in linked : mem[t].key = k BY <1>0 DEF Staying, S!Linked, S!KeyOf
    <3>2. mem[s].key # k BY <1>0, <1>1 DEF Staying, S!KeyOf
    <3>3. t \in linked' /\ mem'[t].key = k BY <1>1, <1>3, <1>4, <3>1, <3>2
    <3> QED BY <3>3 DEF S!Linked, S!KeyOf
  <2> QED BY <1>1, <1>2, <2>1 DEF Staying
<1> QED BY <1>5, <1>6, <1>7, <1>8, <1>9 DEF ZoneInv

LEMMA ZoneStart == ASSUME ZoneInv, NEW rs, S!Start(rs) PROVE ZoneInv'
<1>0. SetTyped /\ NodesInMemory /\ Changing /\ Fresh /\ Staying BY DEF ZoneInv
<1>1. /\ held' = [k \in Keys |-> {mem[s].count : s \in S!Linked(k) \cup S!Inserting(k)}]
      /\ stayed' = {S!KeyOf(s) : s \in linked \ {change.slot}}
      /\ UNCHANGED <<mem, linked, change, cache, removed>>
  BY DEF S!Start, S!zone
<1>2. linked \in SUBSET Slots BY <1>0 DEF SetTyped
<1>3. \A k : S!Inserting(k) \in SUBSET Slots BY <1>0 DEF Changing, S!Inserting, S!NoChange
<1>4. SetTyped'
  <2>1. held' \in [Keys -> SUBSET Nat]
    <3>1. \A s \in Slots : mem[s].count \in Nat BY <1>0, Memory, SetAssumption
    <3>2. \A k : S!Linked(k) \cup S!Inserting(k) \in SUBSET Slots BY <1>2, <1>3 DEF S!Linked
    <3>3. \A k \in Keys : {mem[s].count : s \in S!Linked(k) \cup S!Inserting(k)} \in SUBSET Nat
      BY <3>1, <3>2
    <3> QED BY <1>1, <3>3
  <2>2. stayed' \in SUBSET Keys BY <1>0, <1>1, <1>2 DEF NodesInMemory, S!KeyOf
  <2> QED BY <1>0, <1>1, <2>1, <2>2 DEF SetTyped
<1>5. NodesInMemory' BY <1>0, <1>1 DEF NodesInMemory, S!KeyOf
<1>6. Changing' BY <1>0, <1>1 DEF Changing, S!KeyOf, S!Linked, S!NoChange
<1>7. Fresh'
  <2> SUFFICES ASSUME ~removed, NEW t \in Slots, mem[t].hash # 0
               PROVE  (t \in linked \/ t = change.slot) /\ mem[t].count \in held'[mem[t].key]
    BY <1>1 DEF Fresh, S!KeyOf
  <2>1. (t \in linked \/ t = change.slot) /\ mem[t].key \in Keys
    BY <1>0 DEF Fresh, NodesInMemory, S!KeyOf
  <2>2. t \in linked \/ t \in S!Inserting(mem[t].key)
    <3>1. CASE t \in linked BY <3>1
    <3>2. CASE t = change.slot
      <4>1. change.kind = "insert" BY <1>0, <3>2, SetAssumption DEF Changing, S!NoChange
      <4> QED BY <3>2, <4>1 DEF S!Inserting, S!KeyOf
    <3> QED BY <2>1, <3>1, <3>2
  <2>3. t \in S!Linked(mem[t].key) \cup S!Inserting(mem[t].key) BY <2>2 DEF S!Linked, S!KeyOf
  <2> QED BY <1>1, <2>1, <2>3
<1>8. Staying'
  <2>1. \A k \in stayed' : S!Linked(k)' # {} BY <1>1 DEF S!Linked, S!KeyOf
  <2>2. ASSUME change.kind = "remove" PROVE mem[change.slot].key \notin stayed'
    <3>1. change.slot \in linked BY <1>0, <2>2 DEF Changing, S!NoChange
    <3> QED BY <1>0, <1>1, <3>1 DEF NodesInMemory, S!KeyOf
  <2> QED BY <1>1, <2>1, <2>2 DEF Staying, S!KeyOf
<1> QED BY <1>4, <1>5, <1>6, <1>7, <1>8 DEF ZoneInv

(* The rules of a request *)

\* The cache and the walk give nodes of the key that is asked for, or nothing when
\* there is none or the walk meets a change.
LEMMA LookupFacts ==
  ASSUME ZoneInv, NEW g \in S!Groups, NEW key,
         NEW s \in IF S!Cached(g, key) # {} THEN S!Cached(g, key) ELSE S!Walk(key)
  PROVE  /\ s # NoSlot => s \in Slots /\ mem[s].hash # 0 /\ S!KeyOf(s) = key
         /\ s = NoSlot => /\ S!Cached(g, key) = {}
                          /\ change # S!NoChange \/ S!Linked(key) = {}
<1>0. SetTyped /\ NodesInMemory /\ Changing BY DEF ZoneInv
<1>1. linked \in SUBSET Slots /\ NoSlot \notin Slots BY <1>0, SetAssumption DEF SetTyped
<1>2. CASE S!Cached(g, key) # {}
  <2>1. s = cache[g] /\ s # NoSlot /\ key \in Keys /\ mem[s].hash = Hash[key]
    BY <1>2 DEF S!Cached
  <2>2. s \in Slots BY <1>0, <2>1 DEF SetTyped
  <2>3. Hash[key] # 0 BY <2>1, HashAssumption
  <2>4. mem[s].key \in Keys /\ mem[s].hash = Hash[mem[s].key]
    BY <1>0, <2>1, <2>2, <2>3 DEF NodesInMemory, S!KeyOf
  <2>5. mem[s].key = key BY <2>1, <2>4, HashAssumption
  <2> QED BY <2>1, <2>2, <2>3, <2>5 DEF S!KeyOf
<1>3. CASE S!Cached(g, key) = {}
  <2>1. s \in S!Walk(key) BY <1>3
  <2>2. CASE change = S!NoChange
    <3>1. s \in IF S!Linked(key) = {} THEN {NoSlot} ELSE S!Linked(key) BY <2>1, <2>2 DEF S!Walk
    <3>2. CASE S!Linked(key) = {} BY <1>3, <3>1, <3>2
    <3>3. CASE S!Linked(key) # {}
      <4>1. s \in linked /\ S!KeyOf(s) = key BY <3>1, <3>3 DEF S!Linked
      <4> QED BY <1>0, <1>1, <4>1 DEF NodesInMemory
    <3> QED BY <3>2, <3>3
  <2>3. CASE change # S!NoChange
    <3>1. s \in {NoSlot} \cup S!Linked(key) \cup S!Inserting(key) BY <2>1, <2>3 DEF S!Walk
    <3>2. CASE s = NoSlot BY <1>3, <2>3, <3>2
    <3>3. CASE s \in S!Linked(key)
      <4>1. s \in linked /\ S!KeyOf(s) = key BY <3>3 DEF S!Linked
      <4> QED BY <1>0, <1>1, <4>1 DEF NodesInMemory
    <3>4. CASE s \in S!Inserting(key)
      <4>1. s = change.slot /\ change.kind = "insert" /\ S!KeyOf(s) = key BY <3>4 DEF S!Inserting
      <4> QED BY <1>0, <1>1, <2>3, <4>1 DEF Changing
    <3> QED BY <3>1, <3>2, <3>3, <3>4
  <2> QED BY <2>2, <2>3
<1> QED BY <1>2, <1>3

\* What may change around a request without harm to what was answered.
Around ==
  /\ UNCHANGED set_rules /\ (removed => removed')
  /\ \A k \in Keys : held[k] \subseteq held'[k]
  /\ stayed' \subseteq stayed /\ missed \subseteq missed'

LEMMA AnsweredKept ==
  ASSUME NEW j \in Nat, j >= 1, AnsweredWell(j), Around,
         \A l \in 1 .. j : set_vars'[l] = set_vars[l]
  PROVE  AnsweredWell(j)'
<1>1. \A l \in 1 .. j : S!IsSet(l)' <=> S!IsSet(l) BY DEF S!IsSet
<1>2. set_vars'[j] = set_vars[j] /\ (S!IsSet(j)' <=> S!IsSet(j)) BY <1>1
<1>3. \A k : AsksFor(j, k)' <=> AsksFor(j, k) BY DEF AsksFor, Around
<1>4. \A k : KnownPeerOf(k)' <=> KnownPeerOf(k) BY DEF KnownPeerOf
<1>5. RightValue(j)'
  <2> SUFFICES ASSUME ~removed', NEW k \in Keys, AsksFor(j, k)', S!IsSet(j)'
               PROVE  set_vars'[j] \in {S!ToString(n) : n \in held'[k]}
    BY DEF RightValue
  <2>1. set_vars[j] \in {S!ToString(n) : n \in held[k]}
    BY <1>2, <1>3 DEF Around, AnsweredWell, RightValue
  <2> QED BY <1>2, <2>1 DEF Around
<1>6. RightlySet(j)' BY <1>2, <1>3, <1>4 DEF Around, AnsweredWell, RightlySet
<1>7. UpstreamFound(j - 1) => UpstreamFound(j - 1)'
  <2>1. \A l \in 1 .. j - 1 : S!IsSet(l)' <=> S!IsSet(l) BY <1>1
  <2> QED BY <2>1 DEF Around, UpstreamFound
<1>8. RightlyNot(j)' BY <1>2, <1>3, <1>4, <1>7 DEF AnsweredWell, RightlyNot
<1> QED BY <1>5, <1>6, <1>8 DEF AnsweredWell

\* A step beside the request.
LEMMA RulesBeside ==
  ASSUME SetInv, UNCHANGED S!request, Around, UNCHANGED missed,
         set_pc = "read" /\ ~removed' =>
           mem'[found].hash = mem[found].hash /\ mem'[found].key = mem[found].key
  PROVE  RulesInv'
<1>1. UNCHANGED <<set_pc, set_rules, set_i, control, found, set_vars>> BY DEF S!request
<1>2. RulesInv BY DEF SetInv
<1>3. ASSUME set_pc # "idle" PROVE AtRule' /\ \A j \in 1 .. set_i - 1 : AnsweredWell(j)'
  <2>1. AtRule /\ \A j \in 1 .. set_i - 1 : AnsweredWell(j) BY <1>2, <1>3 DEF RulesInv
  <2>2. \A n : UpstreamFound(n)' <=> UpstreamFound(n) BY <1>1 DEF UpstreamFound, S!IsSet
  <2>3. AtRule' BY <1>1, <2>1, <2>2 DEF AtRule
  <2>4. ASSUME NEW j \in 1 .. set_i - 1 PROVE AnsweredWell(j)'
    <3>1. j \in Nat /\ j >= 1 BY <2>1 DEF AtRule
    <3> QED BY <1>1, <2>1, <3>1, AnsweredKept
  <2> QED BY <2>3, <2>4
<1>4. ASSUME set_pc = "read" PROVE InHand'
  <2>1. InHand BY <1>2, <1>4 DEF RulesInv
  <2> QED BY <1>1, <1>4, <2>1 DEF InHand, Around, S!KeyOf
<1> QED BY <1>1, <1>2, <1>3, <1>4 DEF RulesInv

\* An answer to rule n that is a good one.
LEMMA AnswerKeeps ==
  ASSUME RulesInv, set_pc \in {"find", "read"}, NEW n, n = set_i, NEW value, S!Answer(value),
         Around, control'.count \in Nat, control'.count # 0 => UpstreamFound(n)',
         AnsweredWell(n)'
  PROVE  RulesInv'
<1>1. AtRule /\ \A j \in 1 .. n - 1 : AnsweredWell(j) BY DEF RulesInv
<1>2. /\ set_rules \in RuleSets /\ n \in 1 .. Len(set_rules) /\ Len(set_rules) \in Nat
      /\ DOMAIN set_vars = 1 .. Len(set_rules) /\ DOMAIN set_rules = 1 .. Len(set_rules)
  BY <1>1, SetAssumption DEF AtRule
<1>3. /\ set_vars' = [set_vars EXCEPT ![n] = value] /\ set_i' = n + 1
      /\ set_pc' = IF n = Len(set_rules) THEN "done" ELSE "find"
  BY DEF S!Answer
<1>4. set_rules' = set_rules BY DEF Around
<1>5. DOMAIN set_vars' = DOMAIN set_vars /\ \A j \in DOMAIN set_vars : j # n => set_vars'[j] = set_vars[j]
  BY <1>3
<1>6. /\ n = Len(set_rules) => set_pc' = "done"
      /\ n # Len(set_rules) => set_pc' = "find"
  BY <1>3
<1> PICK e : e = Len(set_rules) OBVIOUS
<1>7. n \in Nat /\ e \in Nat /\ n >= 1 /\ n <= e BY <1>2
<1>8. set_i' - 1 = n BY <1>3, <1>7
<1>9. AtRule'
  <2>1. ASSUME NEW j \in DOMAIN set_vars, j >= n + 1
        PROVE  set_vars'[j] = "unset" /\ set_pc' # "done"
    <3>1. j >= n /\ j # n /\ n # e
      <4>1. j \in Nat /\ j <= e BY <1>2, <1>7
      <4> QED BY <1>7, <2>1, <4>1
    <3>2. set_vars[j] = "unset" BY <1>1, <2>1, <3>1 DEF AtRule
    <3> QED BY <1>5, <1>6, <3>1, <3>2
  <2>2. n + 1 \in 1 .. Len(set_rules) + 1 /\ (set_pc' # "done" => n + 1 <= Len(set_rules))
    <3>1. n + 1 \in 1 .. Len(set_rules) + 1 BY <1>2
    <3>2. n # e => n + 1 <= e BY <1>7
    <3> QED BY <1>6, <3>1, <3>2
  <2>3. control'.count # 0 => UpstreamFound(set_i - 1)' BY <1>8
  <2> QED BY <1>2, <1>3, <1>4, <1>5, <2>1, <2>2, <2>3 DEF AtRule
<1>10. ASSUME NEW j \in 1 .. n PROVE AnsweredWell(j)'
  <2>1. CASE j = n BY <2>1
  <2>2. CASE j # n
    <3>1. j \in 1 .. n - 1 /\ j \in Nat /\ j >= 1 BY <1>2, <2>2
    <3>2. \A l \in 1 .. j : set_vars'[l] = set_vars[l] BY <1>2, <1>5, <3>1
    <3> QED BY <1>1, <3>1, <3>2, AnsweredKept
  <2> QED BY <2>1, <2>2
<1>11. set_pc' \in {"find", "done"} BY <1>6
<1>12. \A j \in 1 .. set_i' - 1 : AnsweredWell(j)' BY <1>10, <1>8
<1> QED BY <1>9, <1>11, <1>12 DEF RulesInv

\* An answer is one to be found later.
LEMMA AnswerSets ==
  ASSUME AtRule, set_pc \in {"find", "read"}, NEW n, n = set_i, NEW value, S!Answer(value), Around
  PROVE  /\ S!IsSet(n)' <=> value \notin {"unset", "not_found"}
         /\ set_vars'[n] = value /\ set_rules' = set_rules
         /\ UpstreamFound(n - 1) => UpstreamFound(n - 1)' /\ UpstreamFound(n)'
<1>1. /\ n \in 1 .. Len(set_rules) /\ Len(set_rules) \in Nat /\ DOMAIN set_vars = 1 .. Len(set_rules)
  BY SetAssumption DEF AtRule
<1>2. set_vars' = [set_vars EXCEPT ![n] = value] BY DEF S!Answer
<1>3. set_vars'[n] = value /\ \A l \in 1 .. n - 1 : set_vars'[l] = set_vars[l] BY <1>1, <1>2
<1>4. set_rules' = set_rules BY DEF Around
<1>5. \A l \in 1 .. n - 1 : l \in 1 .. n /\ (S!IsSet(l)' <=> S!IsSet(l)) BY <1>1, <1>3 DEF S!IsSet
<1>6. UpstreamFound(n - 1) => UpstreamFound(n - 1)' /\ UpstreamFound(n)'
  BY <1>4, <1>5 DEF UpstreamFound
<1> QED BY <1>3, <1>4, <1>6 DEF S!IsSet

\* What is known of the rule a request is at.
LEMMA TheRule ==
  ASSUME RulesInv, set_pc \in {"find", "read"}, NEW n, n = set_i
  PROVE  /\ AtRule /\ n \in 1 .. Len(set_rules) /\ Len(set_rules) \in Nat
         /\ DOMAIN set_vars = 1 .. Len(set_rules)
         /\ set_rules[n] \in Seq(STRING) /\ control.count \in Nat
         /\ control.count # 0 => UpstreamFound(n - 1)
<1>1. AtRule BY DEF RulesInv
<1>2. set_rules \in Seq(Seq(STRING)) /\ n \in 1 .. Len(set_rules) BY <1>1, SetAssumption DEF AtRule
<1>3. DOMAIN set_rules = 1 .. Len(set_rules) /\ Len(set_rules) \in Nat BY <1>2
<1>4. set_rules[n] \in Seq(STRING) BY <1>2
<1> QED BY <1>1, <1>2, <1>3, <1>4 DEF AtRule

\* Nothing that was good before is made worse by not finding a rule's node, if there is
\* none to be found.
LEMMA NotFoundKeeps ==
  ASSUME RulesInv, set_pc \in {"find", "read"}, NEW n, n = set_i, S!Answer("not_found"), Around,
         control'.count = control.count, RightlySet(n)'
  PROVE  RulesInv'
<1>1. AtRule /\ control.count \in Nat /\ (control.count # 0 => UpstreamFound(n - 1)) BY TheRule
<1>2. ~S!IsSet(n)' /\ (UpstreamFound(n - 1) => UpstreamFound(n)') BY <1>1, AnswerSets
<1>3. AnsweredWell(n)' BY <1>2 DEF AnsweredWell, RightValue, RightlyNot
<1> QED BY <1>1, <1>2, <1>3, AnswerKeeps

LEMMA FindKeeps == ASSUME SetInv, S!Find PROVE SetInv'
<1>0. ZoneInv /\ RulesInv /\ set_pc = "find" BY DEF SetInv, S!Find
<1> PICK n : n = set_i OBVIOUS
<1> PICK c : c = S!Parse(set_rules[n], control.count) OBVIOUS
<1> PICK key : key = S!GenerateKey(c.zone, c.group) OBVIOUS
<1>1. UNCHANGED <<mem, linked, change, changes, cache, set_rules, held, stayed, removed>> /\ control' = c
  BY DEF S!Find, S!zone
<1>2. \/ c.group = "none" /\ S!Answer("not_found") /\ UNCHANGED <<found, missed>>
      \/ /\ c.group # "none"
         /\ \E s \in IF S!Cached(c.group, key) # {} THEN S!Cached(c.group, key) ELSE S!Walk(key) :
              /\ missed' = IF S!Cached(c.group, key) = {} /\ change # S!NoChange
                           THEN missed \cup {n} ELSE missed
              /\ found' = s
              /\ IF s = NoSlot THEN S!Answer("not_found")
                 ELSE set_pc' = "read" /\ UNCHANGED <<set_i, set_vars>>
  BY DEF S!Find
<1>3. /\ AtRule /\ n \in 1 .. Len(set_rules) /\ set_rules[n] \in Seq(STRING)
      /\ control.count \in Nat
  BY <1>0, TheRule
<1>4. c.count = control.count /\ c.group \in S!Groups \cup {"none"} BY <1>3, ParseFacts
<1>5. ZoneInv'
  <2>1. cache' \in [S!Groups -> Slots \cup {NoSlot}] BY <1>0, <1>1 DEF ZoneInv, SetTyped
  <2> QED BY <1>0, <1>1, <2>1, ZoneBeside
<1>6. Around
  <2>1. missed \subseteq missed' BY <1>2
  <2> QED BY <1>1, <2>1 DEF Around
<1>7. \A k \in Keys : AsksFor(n, k) =>
        c.group = k[1] /\ c.group \in S!Groups /\ c.group # "none" /\ key = k
  <2>1. "none" \notin S!Groups BY DEF S!Groups
  <2> SUFFICES ASSUME NEW k \in Keys, AsksFor(n, k)
               PROVE  c.group = k[1] /\ c.group \in S!Groups /\ key = k
    BY <2>1
  <2>2. PICK rule : rule = set_rules[n] OBVIOUS
  <2>3. S!Asks(rule, k, Counter) BY <2>2 DEF AsksFor
  <2>4. PICK d : d = control.count OBVIOUS
  <2>5. /\ S!Parse(rule, d).group = k[1] /\ S!Parse(rule, d).group \in S!Groups
        /\ S!GenerateKey(S!Parse(rule, d).zone, S!Parse(rule, d).group) = k
    BY <2>3, AskedParse
  <2> QED BY <2>2, <2>4, <2>5
<1>8. \A k : AsksFor(n, k)' <=> AsksFor(n, k) BY <1>1 DEF AsksFor
<1>9. CASE c.group = "none"
  <2>1. S!Answer("not_found") BY <1>2, <1>9
  <2>2. RightlySet(n)'
    <3>1. \A k \in Keys : ~AsksFor(n, k)' BY <1>7, <1>8, <1>9
    <3>2. stayed' \subseteq Keys BY <1>5 DEF ZoneInv, SetTyped
    <3> QED BY <3>1, <3>2 DEF RightlySet
  <2>3. RulesInv' BY <1>0, <1>1, <1>4, <1>6, <2>1, <2>2, NotFoundKeeps
  <2> QED BY <1>5, <2>3 DEF SetInv
<1>10. CASE c.group # "none"
  <2>1. PICK s \in IF S!Cached(c.group, key) # {} THEN S!Cached(c.group, key) ELSE S!Walk(key) :
          /\ missed' = IF S!Cached(c.group, key) = {} /\ change # S!NoChange
                       THEN missed \cup {n} ELSE missed
          /\ found' = s
          /\ IF s = NoSlot THEN S!Answer("not_found")
             ELSE set_pc' = "read" /\ UNCHANGED <<set_i, set_vars>>
    BY <1>2, <1>10
  <2>2. /\ s # NoSlot => s \in Slots /\ mem[s].hash # 0 /\ S!KeyOf(s) = key
        /\ s = NoSlot => /\ S!Cached(c.group, key) = {}
                         /\ change # S!NoChange \/ S!Linked(key) = {}
    <3>1. PICK g : g = c.group OBVIOUS
    <3>2. g \in S!Groups BY <1>4, <1>10, <3>1
    <3>3. s \in IF S!Cached(g, key) # {} THEN S!Cached(g, key) ELSE S!Walk(key) BY <2>1, <3>1
    <3>4. /\ s # NoSlot => s \in Slots /\ mem[s].hash # 0 /\ S!KeyOf(s) = key
          /\ s = NoSlot => /\ S!Cached(g, key) = {}
                           /\ change # S!NoChange \/ S!Linked(key) = {}
      BY <1>0, <3>2, <3>3, LookupFacts
    <3> QED BY <3>1, <3>4
  <2>3. CASE s = NoSlot
    <3>1. S!Answer("not_found") BY <2>1, <2>3
    <3>2. RightlySet(n)'
      <4> SUFFICES ASSUME n \notin missed', NEW k \in stayed', AsksFor(n, k)' PROVE FALSE
        BY DEF RightlySet
      <4>1. k \in stayed /\ k \in Keys BY <1>0, <1>1 DEF ZoneInv, SetTyped
      <4>2. key = k BY <1>7, <1>8, <4>1
      <4>3. change = S!NoChange BY <2>1, <2>2, <2>3
      <4>4. S!Linked(k) = {} BY <2>2, <2>3, <4>2, <4>3
      <4> QED BY <1>0, <4>1, <4>4 DEF ZoneInv, Staying
    <3>3. RulesInv' BY <1>0, <1>1, <1>4, <1>6, <3>1, <3>2, NotFoundKeeps
    <3> QED BY <1>5, <3>3 DEF SetInv
  <2>4. CASE s # NoSlot
    <3>1. set_pc' = "read" /\ UNCHANGED <<set_i, set_vars>> /\ found' = s BY <2>1, <2>4
    <3>2. \A m : UpstreamFound(m)' <=> UpstreamFound(m) BY <1>1, <3>1 DEF UpstreamFound, S!IsSet
    <3>3. AtRule' BY <1>0, <1>1, <1>3, <1>4, <3>1, <3>2 DEF AtRule
    <3>4. ASSUME NEW j \in 1 .. set_i - 1 PROVE AnsweredWell(j)'
      <4>1. j \in Nat /\ j >= 1 BY <1>3
      <4>2. AnsweredWell(j) BY <1>0 DEF RulesInv
      <4> QED BY <1>6, <3>1, <4>1, <4>2, AnsweredKept
    <3>5. InHand'
      <4>1. s \in Slots /\ mem'[s].hash # 0 /\ mem'[s].key = key BY <1>1, <2>2, <2>4 DEF S!KeyOf
      <4>2. control' = S!Parse(set_rules'[set_i'], control'.count) BY <1>1, <1>4, <3>1
      <4> QED BY <1>1, <1>10, <3>1, <4>1, <4>2 DEF InHand, S!KeyOf
    <3>6. RulesInv' BY <3>1, <3>3, <3>4, <3>5 DEF RulesInv
    <3> QED BY <1>5, <3>6 DEF SetInv
  <2> QED BY <2>3, <2>4
<1> QED BY <1>9, <1>10

\* A member of a node is a text that sets a variable.
LEMMA MemberSets ==
  ASSUME SetTyped, NEW s \in Slots
  PROVE  S!Member(s) \notin {"unset", "not_found"}
<1>1. mem[s].count \in 0 .. MaxCount BY Memory
<1>2. S!ToString(mem[s].count) \notin {"unset", "not_found"} BY <1>1, SetAssumption
<1> QED BY <1>2 DEF S!Member

LEMMA ReadKeeps == ASSUME SetInv, S!Read PROVE SetInv'
<1>0. ZoneInv /\ RulesInv /\ set_pc = "read" /\ SetTyped BY DEF SetInv, S!Read, ZoneInv
<1> PICK n : n = set_i OBVIOUS
<1> DEFINE Up == control.group \in {"UA", "UG"}
<1> PICK count : count = IF Up THEN S!UpstreamCount(control.group, control.zone, control.count)
                         ELSE control.count
  OBVIOUS
<1> PICK value : value = IF Up /\ count = 0 THEN "not_found" ELSE S!Member(found) OBVIOUS
<1>1. /\ UNCHANGED <<mem, linked, change, cache, set_rules, found, held, stayed, removed, missed>>
      /\ control' = [control EXCEPT !.count = count] /\ S!Answer(value)
  BY DEF S!Read, S!zone, S!history
<1>2. /\ InHand /\ AtRule /\ n \in 1 .. Len(set_rules) /\ set_rules[n] \in Seq(STRING)
      /\ control.count \in Nat /\ (control.count # 0 => UpstreamFound(n - 1))
  BY <1>0, TheRule DEF RulesInv
<1>3. found \in Slots /\ control = S!Parse(set_rules[n], control.count)
  BY <1>2 DEF InHand
<1>4. Up => set_rules[n][1] \in UpstreamTexts
  <2>1. PICK d : d = control.count OBVIOUS
  <2>2. S!Parse(set_rules[n], d).group \in {"UA", "UG"} => set_rules[n][1] \in UpstreamTexts
    BY <1>2, ParseFacts
  <2> QED BY <1>3, <2>1, <2>2
<1>5. ZoneInv'
  <2>1. cache' \in [S!Groups -> Slots \cup {NoSlot}] BY <1>0, <1>1 DEF SetTyped
  <2> QED BY <1>0, <1>1, <2>1, ZoneBeside
<1>6. Around BY <1>1 DEF Around
<1>7. /\ S!IsSet(n)' <=> value \notin {"unset", "not_found"}
      /\ set_vars'[n] = value /\ set_rules' = set_rules
      /\ UpstreamFound(n - 1) => UpstreamFound(n - 1)' /\ UpstreamFound(n)'
  BY <1>0, <1>1, <1>2, <1>6, AnswerSets
<1>8. S!Member(found) \notin {"unset", "not_found"} BY <1>0, <1>3, MemberSets
<1>9. S!IsSet(n)' <=> ~(Up /\ count = 0) BY <1>7, <1>8
<1>10. count \in Nat /\ (Up /\ count = 0 => control.group = "UG" /\ ~S!UpstreamKnown(control.zone))
       /\ (~Up => count = control.count)
       /\ (control.group = "UG" /\ ~S!UpstreamKnown(control.zone) => count = control.count)
  BY <1>2 DEF S!UpstreamCount
<1>11. control'.count = count
  <2>1. DOMAIN control = {"group", "zone", "name", "count"}
    <3>1. PICK rule : rule = set_rules[n] OBVIOUS
    <3>2. PICK d : d = control.count OBVIOUS
    <3>3. DOMAIN S!Parse(rule, d) = {"group", "zone", "name", "count"}
      BY DEF S!Parse, S!NoControl
    <3> QED BY <1>3, <3>1, <3>2, <3>3
  <2> QED BY <1>1, <2>1
<1>12. control'.count # 0 => UpstreamFound(n)'
  <2> SUFFICES ASSUME count # 0 PROVE UpstreamFound(n)' BY <1>11
  <2>1. CASE Up
    <3>1. S!IsSet(n)' /\ set_rules'[n][1] \in UpstreamTexts BY <1>4, <1>7, <1>9, <2>1
    <3>2. n \in 1 .. n BY <1>2
    <3> QED BY <3>1, <3>2 DEF UpstreamFound
  <2>2. CASE ~Up BY <1>2, <1>7, <1>10, <2>2
  <2> QED BY <2>1, <2>2
<1>13. \A k \in Keys : AsksFor(n, k) =>
        /\ control.group = k[1] /\ control.zone = SubSeq(k, 3, Len(k))
        /\ control.name = <<Counter>> /\ S!GenerateKey(control.zone, control.group) = k
  <2> SUFFICES ASSUME NEW k \in Keys, AsksFor(n, k)
               PROVE  /\ control.group = k[1] /\ control.zone = SubSeq(k, 3, Len(k))
                      /\ control.name = <<Counter>> /\ S!GenerateKey(control.zone, control.group) = k
    OBVIOUS
  <2>1. PICK rule : rule = set_rules[n] OBVIOUS
  <2>2. S!Asks(rule, k, Counter) BY <2>1 DEF AsksFor
  <2>3. PICK d : d = control.count OBVIOUS
  <2>4. /\ S!Parse(rule, d).group = k[1] /\ S!Parse(rule, d).zone = SubSeq(k, 3, Len(k))
        /\ S!Parse(rule, d).name = <<Counter>>
        /\ S!GenerateKey(S!Parse(rule, d).zone, S!Parse(rule, d).group) = k
    BY <2>2, AskedParse
  <2> QED BY <1>3, <2>1, <2>3, <2>4
<1>14. \A k : AsksFor(n, k)' <=> AsksFor(n, k) BY <1>1 DEF AsksFor
<1>15. RightValue(n)'
  <2> SUFFICES ASSUME ~removed, NEW k \in Keys, AsksFor(n, k), S!IsSet(n)'
               PROVE  value \in {S!ToString(m) : m \in held[k]}
    BY <1>1, <1>7, <1>14 DEF RightValue
  <2>1. control.name = <<Counter>> /\ S!GenerateKey(control.zone, control.group) = k BY <1>13
  <2>2. mem[found].hash # 0 /\ mem[found].key = k BY <1>2, <2>1 DEF InHand, S!KeyOf
  <2>3. mem[found].count \in held[k] BY <1>0, <1>3, <2>2 DEF ZoneInv, Fresh, S!KeyOf
  <2>4. S!Member(found) = S!ToString(mem[found].count) BY <2>1 DEF S!Member, Counter
  <2>5. value = S!Member(found) BY <1>9
  <2> QED BY <2>3, <2>4, <2>5
<1>16. RightlySet(n)'
  <2> SUFFICES ASSUME NEW k \in stayed, AsksFor(n, k), KnownPeerOf(k)' PROVE S!IsSet(n)'
    BY <1>1, <1>14 DEF RightlySet
  <2>1. k \in Keys BY <1>0 DEF SetTyped
  <2>2. control.group = k[1] /\ control.zone = SubSeq(k, 3, Len(k)) BY <1>13, <2>1
  <2>3. control.group = "UG" => S!UpstreamKnown(control.zone) BY <2>2 DEF KnownPeerOf
  <2> QED BY <1>9, <1>10, <2>3
<1>17. RightlyNot(n)'
  <2> SUFFICES ASSUME NEW k \in Keys, AsksFor(n, k), S!IsSet(n)', ~KnownPeerOf(k)'
               PROVE  UpstreamFound(n - 1)'
    BY <1>14 DEF RightlyNot
  <2>1. control.group = k[1] /\ control.zone = SubSeq(k, 3, Len(k)) BY <1>13
  <2>2. control.group = "UG" /\ ~S!UpstreamKnown(control.zone) BY <2>1 DEF KnownPeerOf
  <2>3. count = control.count /\ count # 0 BY <1>9, <1>10, <2>2
  <2> QED BY <1>2, <1>7, <2>3
<1>18. AnsweredWell(n)' BY <1>15, <1>16, <1>17 DEF AnsweredWell
<1>19. RulesInv' BY <1>0, <1>1, <1>6, <1>10, <1>11, <1>12, <1>18, AnswerKeeps
<1> QED BY <1>5, <1>19 DEF SetInv

LEMMA PoolExhaustedKeeps == ASSUME SetInv, S!PoolExhausted PROVE SetInv'
<1>0. ZoneInv /\ RulesInv /\ set_pc \in {"find", "read"} BY DEF SetInv, S!PoolExhausted
<1> PICK n : n = set_i OBVIOUS
<1>1. /\ UNCHANGED <<mem, linked, change, cache, set_rules, found, held, stayed, removed>>
      /\ S!Answer("not_found") /\ missed' = missed \cup {n}
      /\ control' = IF set_pc = "find" THEN S!Parse(set_rules[n], control.count) ELSE control
  BY DEF S!PoolExhausted, S!zone
<1>2. ZoneInv'
  <2>1. cache' \in [S!Groups -> Slots \cup {NoSlot}] BY <1>0, <1>1 DEF ZoneInv, SetTyped
  <2> QED BY <1>0, <1>1, <2>1, ZoneBeside
<1>3. control'.count = control.count
  <2>1. PICK d : d = control.count OBVIOUS
  <2>2. set_rules[n] \in Seq(STRING) BY <1>0, TheRule
  <2>3. S!Parse(set_rules[n], d).count = d BY <2>2, ParseFacts
  <2> QED BY <1>1, <2>1, <2>3
<1>4. Around BY <1>1 DEF Around
<1>5. RightlySet(n)' BY <1>1 DEF RightlySet
<1>6. RulesInv' BY <1>0, <1>1, <1>3, <1>4, <1>5, NotFoundKeeps
<1> QED BY <1>2, <1>6 DEF SetInv

LEMMA AbandonKeeps == ASSUME SetInv, S!Abandon PROVE SetInv'
<1>0. ZoneInv /\ RulesInv /\ set_pc = "find" BY DEF SetInv, S!Abandon
<1>1. /\ UNCHANGED <<mem, linked, change, cache, set_rules, set_i, control, found, set_vars,
                     held, stayed, removed>>
      /\ set_pc' = "done" /\ missed' = missed \cup (set_i .. Len(set_rules))
  BY DEF S!Abandon, S!zone
<1>2. ZoneInv'
  <2>1. cache' \in [S!Groups -> Slots \cup {NoSlot}] BY <1>0, <1>1 DEF ZoneInv, SetTyped
  <2> QED BY <1>0, <1>1, <2>1, ZoneBeside
<1>3. Around BY <1>1 DEF Around
<1>4. /\ AtRule /\ set_i \in 1 .. Len(set_rules) /\ Len(set_rules) \in Nat
      /\ DOMAIN set_vars = 1 .. Len(set_rules)
  BY <1>0, TheRule
<1>5. AtRule'
  <2>1. \A m : UpstreamFound(m)' <=> UpstreamFound(m) BY <1>1 DEF UpstreamFound, S!IsSet
  <2>2. ASSUME NEW j \in DOMAIN set_vars, j >= set_i PROVE j \in missed'
    <3>1. j \in set_i .. Len(set_rules) BY <1>4, <2>2
    <3> QED BY <1>1, <3>1
  <2> QED BY <1>1, <1>4, <2>1, <2>2 DEF AtRule
<1>6. ASSUME NEW j \in 1 .. set_i - 1 PROVE AnsweredWell(j)'
  <2>1. j \in Nat /\ j >= 1 BY <1>4
  <2>2. AnsweredWell(j) BY <1>0 DEF RulesInv
  <2> QED BY <1>1, <1>3, <2>1, <2>2, AnsweredKept
<1>7. RulesInv' BY <1>1, <1>5, <1>6 DEF RulesInv
<1> QED BY <1>2, <1>7 DEF SetInv

LEMMA StartKeeps == ASSUME SetInv, NEW rs \in RuleSets, S!Start(rs) PROVE SetInv'
<1>1. /\ set_pc' = "find" /\ set_rules' = rs /\ set_i' = 1 /\ control' = S!NoControl
      /\ set_vars' = [j \in DOMAIN rs |-> "unset"]
  BY DEF S!Start
<1>2. ZoneInv' BY ZoneStart DEF SetInv
<1>3. Len(rs) \in Nat /\ Len(rs) >= 1 /\ DOMAIN rs = 1 .. Len(rs)
  <2>1. rs \in Seq(Seq(STRING)) /\ rs # <<>> BY SetAssumption
  <2> QED BY <2>1
<1>4. control'.count = 0 BY <1>1 DEF S!NoControl
<1>5. AtRule' BY <1>1, <1>3, <1>4 DEF AtRule
<1>6. RulesInv' BY <1>1, <1>5 DEF RulesInv
<1> QED BY <1>2, <1>6 DEF SetInv

\* A request that is over, or whose worker died.
LEMMA EndKeeps ==
  ASSUME SetInv, S!Done \/ S!WalkFaults
  PROVE  SetInv'
<1>1. /\ UNCHANGED <<mem, linked, change, held, stayed, removed, missed>>
      /\ cache' \in {cache, [g \in S!Groups |-> NoSlot]}
      /\ set_pc' = "idle" /\ set_vars' = <<>>
  <2>1. CASE S!Done BY <2>1 DEF S!Done, S!zone, S!history
  <2>2. CASE S!WalkFaults BY <2>2 DEF S!WalkFaults, S!zone, S!history
  <2> QED BY <2>1, <2>2
<1>2. ZoneInv'
  <2>1. cache' \in [S!Groups -> Slots \cup {NoSlot}] BY <1>1 DEF SetInv, ZoneInv, SetTyped
  <2> QED BY <1>1, <2>1, ZoneBeside DEF SetInv
<1>3. RulesInv' BY <1>1 DEF RulesInv
<1> QED BY <1>2, <1>3 DEF SetInv

\* Steps of other workers, and of the log phase, beside the request.
LEMMA LogKeeps == ASSUME SetInv, NEW s \in Slots, S!Log(s) PROVE SetInv'
<1>0. ZoneInv /\ RulesInv /\ SetTyped /\ NodesInMemory /\ Changing /\ Fresh /\ Staying
  BY DEF SetInv, ZoneInv
<1>1. /\ UNCHANGED S!request /\ UNCHANGED missed /\ UNCHANGED <<set_rules, removed, stayed>>
      /\ mem' = [mem EXCEPT ![s].count = @ + 1]
      /\ held' = [held EXCEPT ![S!KeyOf(s)] = @ \cup {mem[s].count + 1}]
  BY DEF S!Log, S!request
<1>2. \A l \in Keys : held[l] \subseteq held'[l] BY <1>0, <1>1 DEF SetTyped
<1>3. Around BY <1>1, <1>2 DEF Around
<1>4. \A t \in Slots : mem'[t].hash = mem[t].hash /\ mem'[t].key = mem[t].key
  <2> SUFFICES ASSUME NEW t \in Slots
               PROVE  mem'[t].hash = mem[t].hash /\ mem'[t].key = mem[t].key
    OBVIOUS
  <2>1. mem[t] \in Records /\ DOMAIN mem = Slots BY <1>0, Memory
  <2> QED BY <1>1, <2>1 DEF Records
<1>5. set_pc = "read" => found \in Slots BY <1>0 DEF RulesInv, InHand
<1>6. RulesInv' BY <1>1, <1>3, <1>4, <1>5, RulesBeside
<1>7. ZoneInv' BY <1>0, ZoneLog
<1> QED BY <1>6, <1>7 DEF SetInv

LEMMA InsertBeginKeeps == ASSUME SetInv, NEW k \in Keys, NEW s \in Slots, S!InsertBegin(k, s) PROVE SetInv'
<1>0. ZoneInv /\ RulesInv /\ SetTyped /\ NodesInMemory /\ Changing /\ Fresh /\ Staying
  BY DEF SetInv, ZoneInv
<1>1. /\ UNCHANGED S!request /\ UNCHANGED missed /\ UNCHANGED <<set_rules, removed, stayed>>
      /\ mem' = [mem EXCEPT ![s] = S!Node(k, 1)] /\ s \notin linked /\ change = S!NoChange
      /\ held' = [held EXCEPT ![k] = @ \cup {1}]
  BY DEF S!InsertBegin, S!request
<1>2. \A l \in Keys : held[l] \subseteq held'[l] BY <1>0, <1>1 DEF SetTyped
<1>3. Around BY <1>1, <1>2 DEF Around
<1>4. ASSUME set_pc = "read", ~removed' PROVE mem'[found] = mem[found]
  <2>1. found \in Slots /\ mem[found].hash # 0 BY <1>0, <1>1, <1>4 DEF RulesInv, InHand
  <2>2. found \in linked \/ found = NoSlot
    BY <1>0, <1>1, <1>4, <2>1 DEF Fresh, S!NoChange
  <2>3. found # s BY <1>1, <2>1, <2>2, SetAssumption
  <2> QED BY <1>0, <1>1, <2>1, <2>3 DEF SetTyped
<1>5. RulesInv' BY <1>1, <1>3, <1>4, RulesBeside
<1>6. ZoneInv' BY <1>0, ZoneInsertBegin
<1> QED BY <1>5, <1>6 DEF SetInv

LEMMA InsertEndKeeps == ASSUME SetInv, S!InsertEnd PROVE SetInv'
<1>0. ZoneInv /\ RulesInv /\ SetTyped /\ NodesInMemory /\ Changing /\ Fresh /\ Staying
  BY DEF SetInv, ZoneInv
<1>1. UNCHANGED S!request /\ UNCHANGED <<set_rules, mem, held, stayed, removed, missed>>
  BY DEF S!InsertEnd, S!history, S!request
<1>2. RulesInv' BY <1>1, RulesBeside DEF Around
<1>3. ZoneInv' BY <1>0, ZoneInsertEnd
<1> QED BY <1>2, <1>3 DEF SetInv

LEMMA RemoveBeginKeeps == ASSUME SetInv, NEW s \in Slots, S!RemoveBegin(s) PROVE SetInv'
<1>0. ZoneInv /\ RulesInv /\ SetTyped /\ NodesInMemory /\ Changing /\ Fresh /\ Staying
  BY DEF SetInv, ZoneInv
<1>1. /\ UNCHANGED S!request /\ UNCHANGED <<set_rules, mem, held, missed>>
      /\ removed' /\ stayed' \subseteq stayed
  BY DEF S!RemoveBegin, S!request
<1>2. RulesInv' BY <1>1, RulesBeside DEF Around
<1>3. ZoneInv' BY <1>0, ZoneRemoveBegin
<1> QED BY <1>2, <1>3 DEF SetInv

LEMMA RemoveEndKeeps == ASSUME SetInv, S!RemoveEnd PROVE SetInv'
<1>0. ZoneInv /\ RulesInv /\ SetTyped /\ NodesInMemory /\ Changing /\ Fresh /\ Staying
  BY DEF SetInv, ZoneInv
<1>1. /\ UNCHANGED S!request /\ UNCHANGED <<set_rules, held, stayed, removed, missed>>
      /\ change.kind = "remove"
  BY DEF S!RemoveEnd, S!history, S!request
<1>2. removed BY <1>0, <1>1 DEF Changing, S!NoChange
<1>3. RulesInv' BY <1>1, <1>2, RulesBeside DEF Around
<1>4. ZoneInv' BY <1>0, ZoneRemoveEnd
<1> QED BY <1>3, <1>4 DEF SetInv

LEMMA LogCachedKeeps == ASSUME SetInv, NEW s \in Slots, S!LogCached(s) PROVE SetInv'
<1>0. ZoneInv /\ RulesInv /\ SetTyped /\ NodesInMemory /\ Changing /\ Fresh /\ Staying
  BY DEF SetInv, ZoneInv
<1>1. /\ UNCHANGED S!request /\ UNCHANGED <<mem, linked, change, held, stayed, removed, missed>>
      /\ UNCHANGED set_rules /\ cache' = [cache EXCEPT ![S!KeyOf(s)[1]] = s]
  BY DEF S!LogCached, S!history, S!zone, S!request
<1>2. RulesInv' BY <1>1, RulesBeside DEF Around
<1>3. cache' \in [S!Groups -> Slots \cup {NoSlot}] BY <1>0, <1>1 DEF SetTyped
<1>4. ZoneInv' BY <1>0, <1>1, <1>3, ZoneBeside
<1> QED BY <1>2, <1>4 DEF SetInv

LEMMA InitSet == S!Init => SetInv
<1> SUFFICES ASSUME S!Init PROVE SetInv OBVIOUS
<1>1. /\ mem = [s \in Slots |-> [key |-> NoKey, hash |-> 0, count |-> 0]]
      /\ linked = {} /\ change = S!NoChange /\ cache = [g \in S!Groups |-> NoSlot]
      /\ set_pc = "idle" /\ set_vars = <<>>
      /\ held = [k \in Keys |-> {}] /\ stayed = {} /\ removed = FALSE
  BY DEF S!Init
<1>2. \A s \in Slots : mem[s].hash = 0 BY <1>1
<1>3. SetTyped
  <2>1. 0 \in 0 .. MaxCount BY SetAssumption
  <2> QED BY <1>1, <2>1 DEF SetTyped, S!NoChange
<1>4. NodesInMemory /\ Fresh /\ Changing BY <1>1, <1>2 DEF NodesInMemory, Fresh, Changing
<1>5. Staying BY <1>1 DEF Staying, S!NoChange
<1>6. RulesInv BY <1>1 DEF RulesInv
<1> QED BY <1>3, <1>4, <1>5, <1>6 DEF SetInv, ZoneInv

LEMMA SameSet == SetInv /\ UNCHANGED setVars => SetInv'
<1> SUFFICES ASSUME SetInv, UNCHANGED setVars PROVE SetInv' OBVIOUS
<1>1. /\ UNCHANGED <<mem, linked, change, cache, held, stayed, removed, missed, set_rules>>
      /\ UNCHANGED S!request
  BY DEF setVars, S!request
<1>2. cache' \in [S!Groups -> Slots \cup {NoSlot}] BY <1>1 DEF SetInv, ZoneInv, SetTyped
<1>3. ZoneInv' BY <1>1, <1>2, ZoneBeside DEF SetInv
<1>4. RulesInv' BY <1>1, RulesBeside DEF Around
<1> QED BY <1>3, <1>4 DEF SetInv

LEMMA SetStepKeeps == SetInv /\ [PhaseNext]_phaseVars => SetInv'
<1> SUFFICES ASSUME SetInv, [PhaseNext]_phaseVars PROVE SetInv' OBVIOUS
<1>1. CASE UNCHANGED setVars BY <1>1, SameSet
<1>2. CASE SetStep
  <2>1. S!Next BY <1>2 DEF SetStep
  <2>2. ASSUME NEW s \in Slots, S!Log(s) PROVE SetInv' BY <2>2, LogKeeps
  <2>3. ASSUME NEW s \in Slots, S!RemoveBegin(s) PROVE SetInv' BY <2>3, RemoveBeginKeeps
  <2>4. ASSUME NEW s \in Slots, S!LogCached(s) PROVE SetInv' BY <2>4, LogCachedKeeps
  <2>5. ASSUME NEW k \in Keys, NEW s \in Slots, S!InsertBegin(k, s) PROVE SetInv'
    BY <2>5, InsertBeginKeeps
  <2>6. ASSUME NEW rs \in RuleSets, S!Start(rs) PROVE SetInv' BY <2>6, StartKeeps
  <2> QED BY <2>1, <2>2, <2>3, <2>4, <2>5, <2>6, InsertEndKeeps, RemoveEndKeeps, FindKeeps,
             ReadKeeps, PoolExhaustedKeeps, AbandonKeeps, EndKeeps DEF S!Next
<1> QED BY <1>1, <1>2 DEF PhaseNext, LimitStep, phaseVars

\* Rules that were not answered yet have unset variables.
LEMMA NotYet ==
  ASSUME SetInv, NEW j \in DOMAIN set_vars
  PROVE  \/ set_pc # "idle" /\ j \in Nat /\ AnsweredWell(j)
         \/ ~S!IsSet(j) /\ (set_pc = "done" => j \in missed)
<1>1. CASE set_pc = "idle" BY <1>1 DEF SetInv, RulesInv
<1>2. CASE set_pc # "idle"
  <2>1. AtRule /\ \A l \in 1 .. set_i - 1 : AnsweredWell(l) BY <1>2 DEF SetInv, RulesInv
  <2>2. set_rules \in Seq(Seq(STRING)) BY <2>1, SetAssumption DEF AtRule
  <2>3. DOMAIN set_vars = 1 .. Len(set_rules) /\ Len(set_rules) \in Nat /\ set_i \in Nat
    BY <2>1, <2>2 DEF AtRule
  <2>4. CASE j >= set_i BY <2>1, <2>4 DEF AtRule, S!IsSet
  <2>5. CASE ~(j >= set_i)
    <3>1. j \in 1 .. set_i - 1 /\ j \in Nat BY <2>3, <2>5
    <3> QED BY <1>2, <2>1, <3>1
  <2> QED BY <2>4, <2>5
<1> QED BY <1>1, <1>2

\* Until a node is removed, a variable shows a value that the counter of its rule's key
\* had while the request ran, though nothing protects the lookup and the read.
THEOREM ValuesOfKeys == PhaseSpec => []SetValueOfKey
<1>1. PhaseInit => SetInv BY InitSet DEF PhaseInit
<1>2. SetInv => SetValueOfKey
  <2> SUFFICES ASSUME SetInv, ~removed, NEW j \in DOMAIN set_vars, NEW k \in Keys,
                      S!Asks(set_rules[j], k, Counter), S!IsSet(j)
               PROVE  set_vars[j] \in {S!ToString(n) : n \in held[k]}
    BY DEF SetValueOfKey, S!ValueOfKey, Counter
  <2>1. AnsweredWell(j) BY NotYet
  <2> QED BY <2>1 DEF AnsweredWell, RightValue, AsksFor
<1> QED BY <1>1, <1>2, SetStepKeeps, PTL DEF PhaseSpec

\* A rule whose node is there all the while sets its variable, unless a change or a full
\* pool met its lookup; and a server unknown to the configuration sets it only after a
\* rule that found one.
THEOREM KnownAreSet == PhaseSpec => []SetWhenKnown
<1>1. PhaseInit => SetInv BY InitSet DEF PhaseInit
<1>2. SetInv => S!KnownIsSet
  <2> SUFFICES ASSUME SetInv, set_pc = "done", NEW j \in DOMAIN set_vars \ missed, NEW k \in stayed,
                      S!Asks(set_rules[j], k, Counter), KnownPeerOf(k)
               PROVE  S!IsSet(j)
    BY DEF S!KnownIsSet, Counter, KnownPeerOf
  <2>1. AnsweredWell(j) BY NotYet
  <2> QED BY <2>1 DEF AnsweredWell, RightlySet, AsksFor
<1>3. SetInv => S!UnknownNotSet
  <2> SUFFICES ASSUME SetInv, NEW j \in DOMAIN set_vars, NEW k \in Keys,
                      S!Asks(set_rules[j], k, Counter), S!IsSet(j), ~KnownPeerOf(k)
               PROVE  UpstreamFound(j - 1)
    BY DEF S!UnknownNotSet, Counter, KnownPeerOf, UpstreamFound, UpstreamTexts
  <2>1. AnsweredWell(j) BY NotYet
  <2> QED BY <2>1 DEF AnsweredWell, RightlyNot, AsksFor
<1> QED BY <1>1, <1>2, <1>3, SetStepKeeps, PTL DEF PhaseSpec, SetWhenKnown
=============================================================================
