---------------------------- MODULE LimitTraffic ----------------------------
(***************************************************************************)
(* Limits by traffic, from end to end: the preaccess phase of a request    *)
(* compares its limits with the counters that the log phases of earlier    *)
(* requests, of any worker, wrote.  Each of the four arrays of rules is    *)
(* walked under the mutex, which is free between two arrays; the log phase *)
(* takes it once per key.  No node is removed here: what a removal does to *)
(* the caches of the lookup is the subject of VtsShm.                      *)
(***************************************************************************)
EXTENDS Integers, Sequences, FiniteSets, RequestKeys, LimitRules

CONSTANTS
  Workers,
  Requests,      \* the requests a worker may serve
  HttpFilters, LocFilters,   \* filter_keys of the http block and of the location
  HttpLimits, LocLimits,     \* limit_traffic directives of both
  HttpFilterLimits, LocFilterLimits,   \* limit_traffic_by_set_key directives of both
  W,             \* counters count modulo W
  MaxServed,     \* bound on the requests
  MaxFails       \* bound on the evaluations that fail

ASSUME BoundsAssumption ==
  /\ W \in Nat \ {0} /\ MaxServed \in Nat /\ MaxFails \in Nat
  /\ \A r \in Requests : r.bytes \in Nat

\* A directive that is not accepted fails the configuration.
ASSUME LimitsAssumption ==
  \A limits \in {HttpLimits, LocLimits, HttpFilterLimits, LocFilterLimits} :
    /\ Len(limits) \in Nat /\ DOMAIN limits = 1 .. Len(limits)
    /\ \A i \in DOMAIN limits :
         Accepted(limits[i].variable, limits[i].size) /\ limits[i].size \in Nat
ASSUME FilterLimitsAssumption ==
  \A limits \in {HttpFilterLimits, LocFilterLimits} :
    \A i \in DOMAIN limits : limits[i].key # <<>>

Members == {"request", "in"}

\* The arrays in the order in which they are asked.
Arrays ==
  <<[i \in DOMAIN HttpLimits |-> LimitTraffic(HttpLimits[i])[1]],
    [i \in DOMAIN LocLimits |-> LimitTraffic(LocLimits[i])[1]],
    [i \in DOMAIN HttpFilterLimits |-> LimitTrafficBySetKey(HttpFilterLimits[i])[1]],
    [i \in DOMAIN LocFilterLimits |-> LimitTrafficBySetKey(LocFilterLimits[i])[1]]>>

VARIABLES
  tree,     \* keys that have a node
  stat,     \* stat[k][m]: the counter m of k's node
  pc, req,  \* pc[w], req[w]: where worker w is, and its request
  array,    \* array[w]: the array it asks next
  todo,     \* todo[w]: the keys it still has to count
  code,     \* code[w]: 0, or the code its request was refused with
  served, fails,
  (* for the properties *)
  spent,    \* spent[s][m]: what requests of subject s logged, without wrapping
  owed,     \* owed[w]: rules over their size when w's request arrived
  seen,     \* seen[w]: rules over their size at some time since
  cut       \* cut[w]: an evaluation failed

machine == <<tree, stat, pc, req, array, todo, code, served, fails>>
history == <<spent, owed, seen, cut>>
vars == <<machine, history>>

\* Who a request counts for: its server, and for a filter the name and the value that
\* its texts have.  A filter without a name counts as a server.
NoRequest == [bytes |-> 0]
HostOf(r) == FindName(r.filter /\ r.filter_host, r.host, r.server_name)
ServerSubject(r) == [name |-> <<>>, who |-> HostOf(r)]
FilterSubject(f, r) == [name |-> Value(f.name, r), who |-> Value(f.key, r)]
SubjectsOf(r) ==
  {ServerSubject(r)} \cup {FilterSubject(f, r) : f \in ToSet(HttpFilters \o LocFilters)}
KeyFor(s) == FilterKey(s.who, s.name)

\* The keys a request logs when the evaluation of the filter rules lasts for upto.
Uptos == (0 .. Len(HttpFilters)) \X (0 .. Len(LocFilters))
LogKeys == [r \in Requests |-> [upto \in Uptos |-> KeysOf(r, HttpFilters, LocFilters, upto)]]
AllKeys == UNION {ToSet(LogKeys[r][upto]) : r \in Requests, upto \in Uptos}

\* A rule of an array for a request: the key of the node it limits and the member it
\* compares, as its texts evaluate.
Evaluated ==
  [r \in Requests |-> [a \in 1 .. 4 |-> [i \in DOMAIN Arrays[a] |->
     [key |-> IF Arrays[a][i].key = <<>> THEN ServerKey(r) ELSE Value(Arrays[a][i].key, r),
      member |-> Value(Arrays[a][i].variable, r),
      size |-> Arrays[a][i].size, code |-> Arrays[a][i].code]]]]

\* Whom a rule is about: the server, or for a limit by key the filter that its text
\* names.
Positions == UNION {{<<a, i>> : i \in DOMAIN Arrays[a]} : a \in 1 .. 4}
RuleSubject ==
  [r \in Requests |-> [a \in 1 .. 4 |-> [i \in DOMAIN Arrays[a] |->
     CASE a \in {1, 2} -> ServerSubject(r)
       [] a = 3 -> FilterSubject(HttpFilterLimits[i].filter, r)
       [] a = 4 -> FilterSubject(LocFilterLimits[i].filter, r)]]]
RuleAt(r, p) == Evaluated[r][p[1]][p[2]]
Whom(r, p) == RuleSubject[r][p[1]][p[2]]
RuleSubjects == {Whom(r, p) : r \in Requests, p \in Positions}
Subjects == (UNION {SubjectsOf(r) : r \in Requests}) \cup RuleSubjects

\* Whom a request counts for when it logs a key: nobody for a peer of an upstream.
SubjectOf == [r \in Requests |-> [k \in AllKeys |-> {s \in SubjectsOf(r) : KeyFor(s) = k}]]

\* The texts of the limits by key name the nodes of their filters, and no two names make
\* one key: what a request logs counts for its own server and filters only.
ASSUME KeysAssumption ==
  /\ LogKeys \in [Requests -> [Uptos -> Seq(AllKeys)]]
  /\ \A r \in Requests, p \in Positions :
       p[1] \in {3, 4} => RuleAt(r, p).key = KeyFor(Whom(r, p))
  /\ \A r \in Requests, upto \in Uptos : \A k \in ToSet(LogKeys[r][upto]), s \in Subjects :
       KeyFor(s) = k => s \in SubjectOf[r][k]
Zeros == [m \in Members |-> 0]

Init ==
  /\ tree = {} /\ stat = [k \in AllKeys |-> Zeros]
  /\ pc = [w \in Workers |-> "idle"] /\ req = [w \in Workers |-> NoRequest]
  /\ array = [w \in Workers |-> 0] /\ todo = [w \in Workers |-> <<>>]
  /\ code = [w \in Workers |-> 0]
  /\ served = 0 /\ fails = 0
  /\ spent = [s \in Subjects |-> Zeros]
  /\ owed = [w \in Workers |-> {}] /\ seen = [w \in Workers |-> {}]
  /\ cut = [w \in Workers |-> FALSE]

\* A rule refuses a request when the counter of its node, which exists, is above its
\* size; a member that no node has reads as 0.
Over(rule) ==
  /\ rule.member # <<>> /\ rule.key \in tree
  /\ rule.member[1] \in Members /\ stat[rule.key][rule.member[1]] > rule.size

\* The rules whose subject has logged more than their size.
Exceeded(r, sums) ==
  {p \in Positions :
     LET rule == RuleAt(r, p)
     IN /\ rule.member # <<>> /\ rule.member[1] \in Members
        /\ sums[Whom(r, p)][rule.member[1]] > rule.size}

\* And has not logged enough for the counter to wrap.
Unwrapped(r, sums) ==
  {p \in Exceeded(r, sums) : sums[Whom(r, p)][RuleAt(r, p).member[1]] < W}

\* A request arrives.  Without a limit there, its location skips the arrays.
Arrive(w, r) ==
  /\ pc[w] = "idle" /\ served < MaxServed
  /\ served' = served + 1
  /\ req' = [req EXCEPT ![w] = r]
  /\ pc' = [pc EXCEPT ![w] = IF ~r.limit \/ r.bypass_limit THEN "serve" ELSE "limit"]
  /\ array' = [array EXCEPT ![w] = 1]
  /\ code' = [code EXCEPT ![w] = 0]
  /\ owed' = [owed EXCEPT ![w] = Unwrapped(r, spent)]
  /\ seen' = [seen EXCEPT ![w] = Exceeded(r, spent)]
  /\ cut' = [cut EXCEPT ![w] = FALSE]
  /\ UNCHANGED <<tree, stat, todo, fails, spent>>

\* Mutant: the last rule that is over gives the code.
TrafficLast(rules, upto) ==
  LET hits == {i \in 1 .. upto : Over(rules[i])}
  IN IF hits = {} THEN 0 ELSE rules[CHOOSE i \in hits : \A j \in hits : j <= i].code

\* limit_handler_traffic: the first rule that is over gives the code.  A rule whose text
\* or key cannot be evaluated ends the array.
Traffic(rules, upto) ==
  LET hits == {i \in 1 .. upto : Over(rules[i])}
  IN IF hits = {} THEN 0 ELSE rules[CHOOSE i \in hits : \A j \in hits : i <= j].code

LimitArray(w) ==
  /\ pc[w] = "limit"
  /\ LET rules == Evaluated[req[w]][array[w]]
         last == Len(rules)
     IN \E upto \in 0 .. last :
          LET c == Traffic(rules, upto)
          IN /\ upto < last => fails < MaxFails
             /\ fails' = IF upto < last THEN fails + 1 ELSE fails
             /\ cut' = [cut EXCEPT ![w] = @ \/ upto < last]
             /\ code' = [code EXCEPT ![w] = c]
             /\ array' = [array EXCEPT ![w] = @ + 1]
             /\ pc' = [pc EXCEPT ![w] = IF c # 0 \/ array[w] = 4 THEN "serve" ELSE "limit"]
  /\ UNCHANGED <<tree, stat, req, todo, served, spent, owed, seen>>

\* The request is answered, with its page or the code; either way it is logged.
Serve(w, upto) ==
  /\ pc[w] = "serve"
  /\ LET all == upto = <<Len(HttpFilters), Len(LocFilters)>>
     IN /\ ~all => fails < MaxFails
        /\ fails' = IF all THEN fails ELSE fails + 1
  /\ todo' = [todo EXCEPT ![w] = LogKeys[req[w]][upto]]
  /\ pc' = [pc EXCEPT ![w] = "log"]
  /\ UNCHANGED <<tree, stat, req, array, code, served, history>>

Add(value, gain) == (value + gain) % W

Gains(r) == [m \in Members |-> IF m = "request" THEN 1 ELSE r.bytes]

\* shm_add_node, in one step under the mutex.
LogKey(w) ==
  /\ pc[w] = "log" /\ todo[w] # <<>>
  /\ LET k == Head(todo[w])
         gains == Gains(req[w])
     IN /\ tree' = tree \cup {k}
        /\ stat' = [stat EXCEPT ![k] = [m \in Members |-> Add(@[m], gains[m])]]
        /\ spent' = [s \in Subjects |-> IF s \in SubjectOf[req[w]][k]
                                        THEN [m \in Members |-> spent[s][m] + gains[m]]
                                        ELSE spent[s]]
  /\ todo' = [todo EXCEPT ![w] = Tail(@)]
  /\ owed' = [v \in Workers |-> IF pc[v] = "limit"
                                THEN owed[v] \cap Unwrapped(req[v], spent') ELSE owed[v]]
  /\ seen' = [v \in Workers |-> IF pc[v] = "limit"
                                THEN seen[v] \cup Exceeded(req[v], spent') ELSE seen[v]]
  /\ UNCHANGED <<pc, req, array, code, served, fails, cut>>

LogDone(w) ==
  /\ pc[w] = "log" /\ todo[w] = <<>>
  /\ pc' = [pc EXCEPT ![w] = "idle"]
  /\ req' = [req EXCEPT ![w] = NoRequest]
  /\ code' = [code EXCEPT ![w] = 0] /\ array' = [array EXCEPT ![w] = 0]
  /\ owed' = [owed EXCEPT ![w] = {}] /\ seen' = [seen EXCEPT ![w] = {}]
  /\ cut' = [cut EXCEPT ![w] = FALSE]
  /\ UNCHANGED <<tree, stat, todo, served, fails, spent>>

\* A reset of every node.
Reset ==
  /\ fails < MaxFails
  /\ fails' = fails + 1
  /\ stat' = [k \in AllKeys |-> Zeros]
  /\ spent' = [s \in Subjects |-> Zeros]
  /\ owed' = [v \in Workers |-> IF pc[v] = "limit" THEN {} ELSE owed[v]]
  /\ UNCHANGED <<tree, pc, req, array, todo, code, served, seen, cut>>

Stop == served = MaxServed /\ (\A w \in Workers : pc[w] = "idle") /\ UNCHANGED vars

Next ==
  \/ \E w \in Workers :
       \/ \E r \in Requests : Arrive(w, r)
       \/ \E upto \in Uptos : Serve(w, upto)
       \/ LimitArray(w) \/ LogKey(w) \/ LogDone(w)
  \/ Reset \/ Stop

Spec == Init /\ [][Next]_vars

(* Properties. *)

Before(p, q) == p[1] < q[1] \/ (p[1] = q[1] /\ p[2] <= q[2])
Limited(w) == pc[w] = "serve" /\ req[w].limit /\ ~req[w].bypass_limit

\* A request whose server or client had used up a limit when it came is refused, in
\* whatever order the other workers log, and by a rule not behind the first one it had
\* used up; unless a reset, a wrap or a failed evaluation intervenes.
OverIsRefused ==
  \A w \in Workers : Limited(w) /\ ~cut[w] =>
    \A p \in owed[w] : \E q \in seen[w] :
      Before(q, p) /\ code[w] = Arrays[q[1]][q[2]].code

\* A refused request broke a limit at some time while it was checked.
RefusalJustified ==
  \A w \in Workers : Limited(w) /\ code[w] # 0 =>
    \E q \in seen[w] : code[w] = Arrays[q[1]][q[2]].code
=============================================================================
