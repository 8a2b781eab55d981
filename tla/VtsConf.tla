------------------------------- MODULE VtsConf -------------------------------
(***************************************************************************)
(* The configuration of the module: the directives of the http block, of   *)
(* servers and of locations, in the order of the file, and what merging    *)
(* the blocks makes of them.  A scalar directive fills a slot of its       *)
(* block; the rules of filters and limits and the variables of             *)
(* set_by_filter are arrays.  Values are strings, "on" and "off" for flags.*)
(***************************************************************************)
EXTENDS Integers, Sequences, FiniteSets, UniqueRules

CONSTANTS
  Order,       \* the blocks below http, each after its parent
  Parent,      \* Parent[b]: the block around b
  Slots,       \* the slots that are explored
  Values,     \* Values[slot]: the values a directive may give it
  RuleArgs,    \* the arrays and rules of the directives that add one
  Dumps,       \* the periods given to dump
  MaxNodes,    \* the numbers given to filter_max_node
  MaxDirectives   \* bound on the directives other than zone

Unset == "unset"
Http == "http"
Blocks == {Http} \cup {Order[i] : i \in DOMAIN Order}

Flags ==
  {"enable", "filter", "filter_host", "filter_check_duplicate", "limit",
   "limit_check_duplicate", "bypass_limit", "bypass_stats", "rtmp_stats", "net_stats",
   "disk_stats", "cpu_stats", "disk_utilization", "load_avg", "mem_info", "netdev_stats",
   "uname_info", "vm_stats", "live_session_stats"}
OnByDefault ==
  {"enable", "filter", "filter_check_duplicate", "limit", "limit_check_duplicate"}

Default(slot) ==
  CASE slot \in OnByDefault -> "on"
    [] slot \in Flags \ OnByDefault -> "off"
    [] slot = "format" -> "json"
    [] slot = "average_method" -> "AMM"
    [] OTHER -> "default"   \* jsonp, sum_key, average_period, metrics_size, buckets, url

\* Directives of the display are not allowed in the http block.
Allowed(slot, block) == block # Http \/ slot \notin {"format", "jsonp", "sum_key"}

Arrays == {"filter_keys", "limit_traffics", "limit_filter_traffics", "filter_vars"}
CheckOf(array) == IF array = "filter_keys" THEN "filter_check_duplicate" ELSE "limit_check_duplicate"

VARIABLES
  pc,      \* "parse", "init", "merge", "done", "failed" or "crashed"
  open,    \* the block the parser is in
  unread,  \* the blocks not opened yet
  conf,    \* conf[b]: the slots and arrays of a block
  ctx,     \* the main configuration
  todo,    \* the blocks still to merge
  count,
  given    \* for the properties: conf and ctx as the directives left them

vars == <<pc, open, unread, conf, ctx, todo, count, given>>

NoArrays == [a \in Arrays |-> <<>>]
CreateLocConf == [slots |-> [s \in Slots |-> Unset], arrays |-> NoArrays]
CreateMainConf ==
  [enable |-> Unset, dump |-> Unset, dump_period |-> Unset, filter_max_node |-> Unset,
   matches |-> <<>>, arrays |-> NoArrays, filter_check_duplicate |-> Unset,
   limit_check_duplicate |-> Unset]

Init ==
  /\ pc = "parse" /\ open = Http /\ unread = Blocks \ {Http}
  /\ conf = [b \in Blocks |-> CreateLocConf] /\ ctx = CreateMainConf
  /\ todo = Order /\ count = 0
  /\ given = [conf |-> conf, ctx |-> ctx]

Directive ==
  /\ pc = "parse" /\ count < MaxDirectives
  /\ count' = count + 1
  /\ UNCHANGED <<open, unread, todo, given>>

Fail == pc' = "failed" /\ UNCHANGED <<conf, ctx>>

\* ngx_conf_set_flag_slot and its kin refuse a second value.
SetSlot(slot, value) ==
  /\ Directive /\ slot \notin {"average_method", "average_period", "histogram_buckets"}
  /\ Allowed(slot, open)
  /\ IF conf[open].slots[slot] # Unset THEN Fail
     ELSE conf' = [conf EXCEPT ![open].slots[slot] = value] /\ UNCHANGED <<pc, ctx>>

\* The period is an argument of its own, which may be left out or be no time.
AverageMethod(method, period) ==
  /\ Directive /\ {"average_method", "average_period"} \subseteq Slots
  /\ \/ conf[open].slots["average_method"] # Unset /\ Fail
     \/ period = "invalid" /\ Fail
     \/ /\ conf[open].slots["average_method"] = Unset /\ period # "invalid"
        /\ conf' = [conf EXCEPT ![open].slots =
             [@ EXCEPT !["average_method"] = method,
                       !["average_period"] = IF period = "none" THEN @ ELSE period]]
        /\ UNCHANGED <<pc, ctx>>

\* The buckets, of which those past the 32nd are ignored, replace earlier ones.
HistogramBuckets(value) ==
  /\ Directive /\ "histogram_buckets" \in Slots
  /\ IF value = "invalid" THEN Fail
     ELSE conf' = [conf EXCEPT ![open].slots["histogram_buckets"] = value] /\ UNCHANGED <<pc, ctx>>

\* filter_by_set_key, limit_traffic, limit_traffic_by_set_key, set_by_filter: rules of
\* the http block are kept in the main configuration.
InMain(array) == open = Http /\ array # "filter_vars"
AddRule(array, rule) ==
  /\ Directive
  /\ \/ Fail   \* an empty key, no size, a variable that cannot be compiled
     \/ /\ InMain(array)
        /\ ctx' = [ctx EXCEPT !.arrays[array] = Append(@, rule)] /\ UNCHANGED <<pc, conf>>
     \/ /\ ~InMain(array)
        /\ conf' = [conf EXCEPT ![open].arrays[array] = Append(@, rule)]
        /\ UNCHANGED <<pc, ctx>>

\* vhost_traffic_status_zone; its zone is the subject of VtsZone.
Zone ==
  /\ pc = "parse" /\ open = Http
  /\ \/ Fail
     \/ ctx' = [ctx EXCEPT !.enable = "on"] /\ UNCHANGED <<pc, conf>>
  /\ UNCHANGED <<open, unread, todo, count, given>>

\* A second dump without a period keeps the period of the first.
Dump(period) ==
  /\ Directive /\ open = Http
  /\ IF period = "invalid" THEN Fail
     ELSE /\ ctx' = [ctx EXCEPT !.dump = "on",
                                !.dump_period = IF period = "none" THEN @ ELSE period]
          /\ UNCHANGED <<pc, conf>>

\* The last one counts, with its prefixes.
FilterMaxNode(n, matches) ==
  /\ Directive /\ open = Http
  /\ IF n = "invalid" THEN Fail
     ELSE /\ ctx' = [ctx EXCEPT !.filter_max_node = n, !.matches = matches]
          /\ UNCHANGED <<pc, conf>>

Open(b) ==
  /\ pc = "parse" /\ b \in unread /\ Parent[b] = open
  /\ open' = b /\ unread' = unread \ {b}
  /\ UNCHANGED <<pc, conf, ctx, todo, count, given>>

Close ==
  /\ pc = "parse" /\ \A b \in unread : Parent[b] # open
  /\ \/ open # Http /\ open' = Parent[open] /\ UNCHANGED <<pc, given>>
     \/ /\ open = Http /\ pc' = "init"
        /\ given' = [conf |-> conf, ctx |-> ctx] /\ UNCHANGED open
  /\ UNCHANGED <<unread, conf, ctx, todo, count>>

\* What an array of rules may become; nothing when the check crashes.
Checked(rules, check) == IF rules = <<>> \/ check = "off" THEN {rules} ELSE Unique(rules)

Initialised(value, initial) == IF value = Unset THEN initial ELSE value

\* init_main_conf, which looks at the flags of the http block as they were given.
InitMain ==
  /\ pc = "init"
  /\ LET check(a) == IF a = "filter_vars" THEN "off" ELSE conf[Http].slots[CheckOf(a)]
         outcomes(a) == Checked(ctx.arrays[a], check(a))
     IN \/ /\ \E a \in Arrays : outcomes(a) = {}
           /\ pc' = "crashed" /\ UNCHANGED ctx
        \/ \E fk \in outcomes("filter_keys"), lt \in outcomes("limit_traffics"),
              lf \in outcomes("limit_filter_traffics") :
             /\ ctx' = [enable |-> Initialised(ctx.enable, "off"),
                        dump |-> Initialised(ctx.dump, "off"),
                        dump_period |-> Initialised(ctx.dump_period, "default"),
                        filter_max_node |-> Initialised(ctx.filter_max_node, "0"),
                        matches |-> ctx.matches,
                        filter_check_duplicate |-> conf[Http].slots["filter_check_duplicate"],
                        limit_check_duplicate |-> conf[Http].slots["limit_check_duplicate"],
                        arrays |-> [ctx.arrays EXCEPT !["filter_keys"] = fk,
                                      !["limit_traffics"] = lt, !["limit_filter_traffics"] = lf]]
             /\ pc' = "merge"
  /\ UNCHANGED <<open, unread, conf, todo, count, given>>

\* A block with rules of its own, but no flag, takes the flag of the main configuration.
OwnSlots(b) ==
  [s \in Slots |->
     IF conf[b].slots[s] # Unset THEN conf[b].slots[s]
     ELSE CASE s = "filter_check_duplicate" /\ conf[b].arrays["filter_keys"] # <<>>
                 -> ctx.filter_check_duplicate
            [] s = "limit_check_duplicate"
                 /\ <<conf[b].arrays["limit_traffics"], conf[b].arrays["limit_filter_traffics"]>>
                      # <<<<>>, <<>>>>
                 -> ctx.limit_check_duplicate
            [] OTHER -> Unset]

\* Mutant: a block is merged with the http block.
PreviousHttp(b) == conf[Http]

Previous(b) == conf[Parent[b]]

\* merge_loc_conf
Merge ==
  /\ pc = "merge" /\ todo # <<>>
  /\ LET b == Head(todo)
         prev == Previous(b)
         own == OwnSlots(b)
         outcomes(a) ==
           IF conf[b].arrays[a] = <<>> THEN {prev.arrays[a]}
           ELSE Checked(conf[b].arrays[a], IF a = "filter_vars" THEN "off" ELSE own[CheckOf(a)])
     IN \/ /\ ctx.enable = "off" /\ UNCHANGED <<pc, conf>>
        \/ /\ ctx.enable = "on" /\ \E a \in Arrays : outcomes(a) = {}
           /\ pc' = "crashed" /\ UNCHANGED conf
        \/ /\ ctx.enable = "on"
           /\ \E fk \in outcomes("filter_keys"), lt \in outcomes("limit_traffics"),
                 lf \in outcomes("limit_filter_traffics"), fv \in outcomes("filter_vars") :
                conf' = [conf EXCEPT ![b] =
                  [slots |-> [s \in Slots |->
                      Initialised(own[s], Initialised(prev.slots[s], Default(s)))],
                   arrays |-> [a \in Arrays |->
                      CASE a = "filter_keys" -> fk [] a = "limit_traffics" -> lt
                        [] a = "limit_filter_traffics" -> lf [] OTHER -> fv]]]
           /\ UNCHANGED pc
  /\ todo' = Tail(todo)
  /\ UNCHANGED <<open, unread, ctx, count, given>>

Merged ==
  /\ pc = "merge" /\ todo = <<>> /\ pc' = "done"
  /\ UNCHANGED <<open, unread, conf, ctx, todo, count, given>>

Stop == pc \in {"done", "failed", "crashed"} /\ UNCHANGED vars

Next ==
  \/ \E s \in Slots : \E v \in Values[s] : SetSlot(s, v)
  \/ \E m \in {"AMM", "WMA"}, p \in {"none", "60s", "invalid"} : AverageMethod(m, p)
  \/ \E v \in {"5ms 1s", "1s", "invalid"} : HistogramBuckets(v)
  \/ \E arg \in RuleArgs : AddRule(arg[1], arg[2])
  \/ Zone
  \/ \E p \in Dumps : Dump(p)
  \/ \E n \in MaxNodes, m \in {<<>>, <<"uris">>} : FilterMaxNode(n, m)
  \/ \E b \in unread : Open(b)
  \/ Close \/ InitMain \/ Merge \/ Merged \/ Stop

Spec == Init /\ [][Next]_vars

(* Properties.  They are stated on what the directives gave. *)

Effective == pc = "done" /\ ctx.enable = "on"

\* The block b and those around it.
Around(b) ==
  {a \in Blocks : \A S \in SUBSET Blocks :
     b \in S /\ (\A c \in S \ {Http} : Parent[c] \in S) => a \in S}

\* The block whose directives decide for b: the innermost around it that has some, or http.
Nearest(b, having) ==
  LET deciding == Around(b) \cap (having \cup {Http})
  IN CHOOSE a \in deciding : deciding \subseteq Around(a)

WithRules(a) == {b \in Blocks : given.conf[b].arrays[a] # <<>>}
WithSlot(s) == {b \in Blocks : given.conf[b].slots[s] # Unset}

RuleArrays == Arrays \ {"filter_vars"}

\* The check that the rules of block b are under: its own flag, else that of the http
\* block (also under a server with another flag), else on.
CheckFor(a, b) ==
  Initialised(given.conf[b].slots[CheckOf(a)],
    Initialised(given.conf[Http].slots[CheckOf(a)], "on"))

Hashes(rules) == {RuleHash(rules[i]) : i \in DOMAIN rules}
\* Above is an order of the hashes: none of them are half the circle apart, nor do they go
\* round it.
Comparable(hashes) ==
  /\ \A x, y \in hashes : x = y \/ Above(x, y) \/ Above(y, x)
  /\ \A x, y, z \in hashes : Above(x, y) /\ Above(y, z) => Above(x, z)

\* The arrays that take part in a request next to the directives they stem from.
Derived ==
  {[is |-> ctx.arrays[a], was |-> given.ctx.arrays[a], check |-> CheckFor(a, Http)] :
     a \in RuleArrays}
  \cup {[is |-> conf[b].arrays[a], was |-> given.conf[Nearest(b, WithRules(a))].arrays[a],
         check |-> CheckFor(a, Nearest(b, WithRules(a)))] :
          a \in RuleArrays, b \in Blocks \ {Http}}

\* The check for duplicates loses no rule, unless one with its hash stays or its hash is
\* 0, and adds none, whatever order the sort leaves and at whatever level it runs.
RulesKept ==
  Effective => \A d \in Derived :
    /\ ToSet(d.is) \subseteq ToSet(d.was)
    /\ Hashes(d.was) \ {0} \subseteq Hashes(d.is)

\* Under the check, rules with one hash are reduced to one, when the hashes lie within
\* half of the circle of 2^32; without it the rules stay as they were given.
EachOnce ==
  Effective => \A d \in Derived :
    IF d.check = "off" THEN d.is = d.was
    ELSE Comparable(Hashes(d.was)) => Cardinality(Hashes(d.is)) = Len(d.is)

\* A slot has the value of the nearest block that gives one, else the default: none is
\* left unset where the module is enabled.  Blocks with rules of their own take the
\* checks for duplicates from the http block instead.
NearestWins ==
  Effective => \A b \in Blocks \ {Http} : \A s \in Slots :
    LET n == Nearest(b, WithSlot(s))
        jumps == \E a \in RuleArrays : CheckOf(a) = s
                   /\ \E c \in WithRules(a) : given.conf[c].slots[s] = Unset
    IN jumps \/ conf[b].slots[s] = Initialised(given.conf[n].slots[s], Default(s))
=============================================================================
