---------------------------- MODULE SetByFilter -----------------------------
(***************************************************************************)
(* The set rules of a location: the access phase gives each variable the   *)
(* member of a node that its rule names, while other workers change the    *)
(* zone.  The handler takes no mutex: it looks the node up in one step and *)
(* reads the member in a later one, and its walk of the tree may meet a    *)
(* change of another worker half way.                                      *)
(*                                                                         *)
(* A rule is the text "group/zone/member" in tokens (KeyCodec), "/" one.   *)
(***************************************************************************)
EXTENDS Integers, Sequences, FiniteSets, KeyCodec, UpstreamLookup

CONSTANTS
  Keys,       \* keys of nodes
  Slots,      \* pieces of memory for a node
  Hash,       \* the hash of a key, by key; never 0
  RuleSets,   \* lists of rules that a location may have
  MaxCount,   \* bound on a counter
  MaxChanges, \* bound on the changes of the zone
  NoSlot, NoKey

Groups == {"NO", "UA", "UG", "CC", "FG"}

VARIABLES
  mem,       \* mem[s]: the node in s, also after it was freed
  linked,    \* slots linked in the tree
  change,    \* the change another worker is in the middle of
  changes,   \* changes begun so far
  cache,     \* node_caches of the location
  pc, rules, \* where the request is, and the rules of its location
  i,         \* the rule it is at
  control,   \* group, zone and member of that rule, and the count of lookups
  found,     \* the node it found
  vars,      \* vars[j]: the value of rule j's variable
  (* for the properties *)
  held,      \* held[k]: the values k's counter had since the request started
  stayed,    \* keys linked all the time since it started
  removed,   \* some node was removed
  missed     \* rules whose lookup met a change or a full pool

zone == <<mem, linked, change, changes>>
request == <<pc, rules, i, control, found, vars>>
history == <<held, stayed, removed, missed>>
allVars == <<zone, cache, request, history>>

NoChange == [kind |-> "none", slot |-> NoSlot]
Node(k, n) == [key |-> k, hash |-> Hash[k], count |-> n]
KeyOf(s) == mem[s].key
Linked(k) == {s \in linked : KeyOf(s) = k}
Inserting(k) == {s \in {change.slot} : change.kind = "insert" /\ KeyOf(s) = k}

\* set_init
NoControl == [group |-> "none", zone |-> <<>>, name |-> <<>>, count |-> 0]

Init ==
  /\ mem = [s \in Slots |-> [key |-> NoKey, hash |-> 0, count |-> 0]]
  /\ linked = {} /\ change = NoChange /\ changes = 0
  /\ cache = [g \in Groups |-> NoSlot]
  /\ pc = "idle" /\ rules = <<>> /\ i = 0
  /\ control = NoControl /\ found = NoSlot /\ vars = <<>>
  /\ held = [k \in Keys |-> {}] /\ stayed = {} /\ removed = FALSE /\ missed = {}

(* Other workers, under the mutex. *)

\* A request of k, whose node exists, is logged.
Log(s) ==
  /\ s \in linked /\ change = NoChange /\ mem[s].count < MaxCount
  /\ mem' = [mem EXCEPT ![s].count = @ + 1]
  /\ held' = [held EXCEPT ![KeyOf(s)] = @ \cup {mem[s].count + 1}]
  /\ UNCHANGED <<linked, change, changes, cache, request, stayed, removed, missed>>

\* The first request of k: its node is written, then linked.
InsertBegin(k, s) ==
  /\ change = NoChange /\ changes < MaxChanges
  /\ Linked(k) = {} /\ s \notin linked
  /\ mem' = [mem EXCEPT ![s] = Node(k, 1)]
  /\ change' = [kind |-> "insert", slot |-> s]
  /\ changes' = changes + 1
  /\ held' = [held EXCEPT ![k] = @ \cup {1}]
  /\ UNCHANGED <<linked, cache, request, stayed, removed, missed>>

InsertEnd ==
  /\ change.kind = "insert"
  /\ linked' = linked \cup {change.slot}
  /\ change' = NoChange
  /\ UNCHANGED <<mem, changes, cache, request, history>>

\* An eviction or a delete: unlinking clears the hash, the rest of the node stays.
RemoveBegin(s) ==
  /\ change = NoChange /\ changes < MaxChanges /\ s \in linked
  /\ change' = [kind |-> "remove", slot |-> s]
  /\ changes' = changes + 1
  /\ stayed' = stayed \ {KeyOf(s)} /\ removed' = TRUE
  /\ UNCHANGED <<mem, linked, cache, request, held, missed>>

RemoveEnd ==
  /\ change.kind = "remove"
  /\ linked' = linked \ {change.slot}
  /\ mem' = [mem EXCEPT ![change.slot].hash = 0]
  /\ change' = NoChange
  /\ UNCHANGED <<changes, cache, request, history>>

(* The worker of the request.  It has other requests before and after. *)

\* Its log phase counts on the node of k and caches it for the location.
LogCached(s) ==
  /\ pc = "idle" /\ s \in linked /\ change = NoChange
  /\ cache' = [cache EXCEPT ![KeyOf(s)[1]] = s]
  /\ UNCHANGED <<zone, request, history>>

\* set_by_filter_variables begins.
Start(rs) ==
  /\ pc = "idle"
  /\ pc' = "find" /\ rules' = rs /\ i' = 1
  /\ control' = NoControl /\ found' = NoSlot
  /\ vars' = [j \in DOMAIN rs |-> "unset"]
  /\ held' = [k \in Keys |-> {mem[s].count : s \in Linked(k) \cup Inserting(k)}]
  /\ stayed' = {KeyOf(s) : s \in linked \ {change.slot}}
  /\ missed' = {}
  /\ UNCHANGED <<zone, cache, removed>>

Slashes(rule) == {j \in DOMAIN rule : rule[j] = "/"}

GroupOf(text) ==
  CASE text = <<"server">> -> "NO"
    [] text = <<"upstream@alone">> -> "UA"
    [] text = <<"upstream@group">> -> "UG"
    [] text = <<"cache">> -> "CC"
    [] text = <<"filter">> -> "FG"
    [] OTHER -> "none"

\* Mutant: a separator in the zone keeps its "@".
ZoneKept(text) ==
  ReplaceStrc(ReplaceStrc(text, "[:alpha:]", "@", TRUE), "[:slash:]", "/", TRUE)

ZoneOf(text) ==
  ReplaceStrc(ReplaceStrc(ReplaceChrc(text, "@", Sep), "[:alpha:]", "@", TRUE),
              "[:slash:]", "/", TRUE)

\* set_by_filter_init: fails without two slashes or with an unknown group; of the
\* record only the count outlives the rule.
Parse(rule, count) ==
  IF Cardinality(Slashes(rule)) < 2 THEN [NoControl EXCEPT !.count = count]
  ELSE LET first == CHOOSE j \in Slashes(rule) : \A l \in Slashes(rule) : j <= l
           second == CHOOSE j \in Slashes(rule) \ {first} :
                       \A l \in Slashes(rule) \ {first} : j <= l
       IN [group |-> GroupOf(SubSeq(rule, 1, first - 1)),
           zone |-> ZoneOf(SubSeq(rule, first + 1, second - 1)),
           name |-> SubSeq(rule, second + 1, Len(rule)),
           count |-> count]

\* Mutant: a cached node answers for every key of its group.
CachedAny(g, key) ==
  IF cache[g] # NoSlot THEN {cache[g]} ELSE {}

\* find_node first asks the cache, which compares hashes only.
Cached(g, key) ==
  IF cache[g] # NoSlot /\ key \in Keys /\ mem[cache[g]].hash = Hash[key]
  THEN {cache[g]} ELSE {}

\* What the walk may find: the node of the key; next to a change of the tree also
\* nothing, as a rotation can hide a part of the tree, or the node being inserted.
Walk(key) ==
  CASE change = NoChange -> IF Linked(key) = {} THEN {NoSlot} ELSE Linked(key)
    [] OTHER -> {NoSlot} \cup Linked(key) \cup Inserting(key)

Answer(value) ==
  /\ vars' = [vars EXCEPT ![i] = value]
  /\ i' = i + 1
  /\ pc' = IF i = Len(rules) THEN "done" ELSE "find"

\* The rule is parsed and its node looked up; without one its variable is not found.
Find ==
  /\ pc = "find"
  /\ LET c == Parse(rules[i], control.count)
         key == GenerateKey(c.zone, c.group)
         hit == Cached(c.group, key)
     IN /\ control' = c
        /\ IF c.group = "none" THEN Answer("not_found") /\ UNCHANGED <<found, missed>>
           ELSE \E s \in IF hit # {} THEN hit ELSE Walk(key) :
                  /\ missed' = IF hit = {} /\ change # NoChange THEN missed \cup {i} ELSE missed
                  /\ found' = s
                  /\ IF s = NoSlot THEN Answer("not_found")
                     ELSE pc' = "read" /\ UNCHANGED <<i, vars>>
  /\ UNCHANGED <<zone, cache, rules, held, stayed, removed>>

\* set_by_filter_node_member: a member of the counters, one of the server in the
\* configuration, or 0 for anything else.
Member(s) ==
  CASE control.name = <<"requestCounter">> -> ToString(mem[s].count)
    [] control.name = <<"weight">> /\ control.group = "UG" /\ UpstreamKnown(control.zone) ->
         "weight"
    [] OTHER -> "0"

\* For an upstream the variable is set only if some upstream of this request was found
\* in the configuration: the count is never cleared.
Read ==
  /\ pc = "read"
  /\ LET count == IF control.group \in {"UA", "UG"}
                  THEN UpstreamCount(control.group, control.zone, control.count)
                  ELSE control.count
     IN /\ control' = [control EXCEPT !.count = count]
        /\ Answer(IF control.group \in {"UA", "UG"} /\ count = 0 THEN "not_found"
                 ELSE Member(found))
  /\ UNCHANGED <<zone, cache, rules, found, history>>

\* The key or the value finds no room in the pool.
PoolExhausted ==
  /\ pc \in {"find", "read"}
  /\ Answer("not_found")
  /\ control' = IF pc = "find" THEN Parse(rules[i], control.count) ELSE control
  /\ missed' = missed \cup {i}
  /\ UNCHANGED <<zone, cache, rules, found, held, stayed, removed>>

\* A rule's text cannot be evaluated: its variable and those after it stay as they are.
Abandon ==
  /\ pc = "find"
  /\ pc' = "done"
  /\ missed' = missed \cup (i .. Len(rules))
  /\ UNCHANGED <<zone, cache, rules, i, control, found, vars, held, stayed, removed>>

\* The walk stands on the node that is unlinked under it, whose links are cleared: the
\* worker dies and a new one starts without caches.
WalkFaults ==
  /\ pc = "find" /\ change.kind = "remove"
  /\ LET c == Parse(rules[i], control.count)
     IN c.group # "none" /\ Cached(c.group, GenerateKey(c.zone, c.group)) = {}
  /\ cache' = [g \in Groups |-> NoSlot]
  /\ pc' = "idle" /\ rules' = <<>> /\ i' = 0
  /\ control' = NoControl /\ found' = NoSlot /\ vars' = <<>>
  /\ UNCHANGED <<zone, history>>

Done ==
  /\ pc = "done"
  /\ pc' = "idle" /\ rules' = <<>> /\ i' = 0
  /\ control' = NoControl /\ found' = NoSlot /\ vars' = <<>>
  /\ UNCHANGED <<zone, cache, history>>

Next ==
  \/ \E s \in Slots : Log(s) \/ RemoveBegin(s) \/ LogCached(s)
  \/ \E k \in Keys, s \in Slots : InsertBegin(k, s)
  \/ InsertEnd \/ RemoveEnd
  \/ \E rs \in RuleSets : Start(rs)
  \/ Find \/ Read \/ PoolExhausted \/ Abandon \/ WalkFaults \/ Done

Spec == Init /\ [][Next]_allVars

(* Properties. *)

\* The rule that asks for a member of k's node: "@" stands for the separators, the
\* placeholders for an "@" or a "/" of a name.
GroupText(k) ==
  CASE k[1] = "NO" -> "server" [] k[1] = "UA" -> "upstream@alone"
    [] k[1] = "UG" -> "upstream@group" [] k[1] = "FG" -> "filter"
    [] OTHER -> "cache"
Written(k) ==
  LET name == SubSeq(k, 3, Len(k))
  IN ReplaceChrc(ReplaceChrc(ReplaceChrc(name, "@", "[:alpha:]"), "/", "[:slash:]"), Sep, "@")
Asks(rule, k, member) ==
  rule = <<GroupText(k), "/">> \o Written(k) \o <<"/", member>>

IsSet(j) == vars[j] \notin {"unset", "not_found"}

\* Before any removal a variable shows a value that the counter of the key its rule
\* names had while the request ran, whatever was logged and inserted around it.
ValueOfKey ==
  ~removed =>
    \A j \in DOMAIN vars, k \in Keys :
      Asks(rules[j], k, "requestCounter") /\ IsSet(j) =>
        vars[j] \in {ToString(n) : n \in held[k]}

\* A rule whose node was there all the time sets its variable, unless its walk met a
\* change of the tree or the pool was exhausted; for an upstream group the
\* configuration must know the server.
KnownIsSet ==
  pc = "done" =>
    \A j \in DOMAIN vars \ missed, k \in stayed :
      /\ Asks(rules[j], k, "requestCounter")
      /\ k[1] = "UG" => UpstreamKnown(SubSeq(k, 3, Len(k)))
      => IsSet(j)

\* A server that the configuration does not know sets no variable, unless the same
\* request found another one before it.
UnknownNotSet ==
  \A j \in DOMAIN vars, k \in Keys :
    /\ Asks(rules[j], k, "requestCounter") /\ IsSet(j)
    /\ k[1] = "UG" /\ ~UpstreamKnown(SubSeq(k, 3, Len(k)))
    => \E l \in 1 .. j - 1 : IsSet(l) /\ rules[l][1] \in {"upstream@alone", "upstream@group"}
=============================================================================
