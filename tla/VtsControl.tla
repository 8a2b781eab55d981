----------------------------- MODULE VtsControl -----------------------------
(***************************************************************************)
(* The control interface: a request whose arguments select nodes and show, *)
(* delete or reset them.  Parsing the arguments and, for a status, sizing  *)
(* the reply happen without the mutex; the command runs under it.          *)
(*                                                                         *)
(* cmd and group are the values of the arguments of these names, "absent"  *)
(* if there is none and "other" for a value the handler does not know; zone *)
(* is a string of tokens (KeyCodec), in which "[:alpha:]" is one.  One       *)
(* request runs, on any zone.                                              *)
(***************************************************************************)
EXTENDS Integers, Sequences, FiniteSets, KeyCodec, FiniteSetsExt, UpstreamLookup

CONSTANTS
  Keys,        \* keys of nodes
  Capacity,    \* nodes the slab has room for
  Zones,       \* values of the argument zone
  Groups,      \* values of the argument group
  Ooms,        \* allocations of the request's pool that may fail
  NameOrder,   \* of filters, on the JSON page
  MaxCount, MaxChanges    \* bounds on a counter, and on changes under a request

J == INSTANCE StatusJson

VARIABLES
  tree,       \* keys linked in the tree
  count,      \* count[k]: the request counter of k's node
  pc,         \* where the request is
  args,       \* its arguments
  reserved,   \* the nodes its buffer has a share for
  added,      \* nodes added since it was sized
  changes,    \* changes of the zone under this request
  reply       \* what the command answered, and the zone before it

vars == <<tree, count, pc, args, reserved, added, changes, reply>>

NoArgs == [cmd |-> "absent", group |-> "absent", has_zone |-> FALSE, zone |-> <<>>]
Blank == [ran |-> "no", ret |-> FALSE, count |-> 0, text |-> <<>>, walk |-> <<>>,
          oom |-> J!NoOom, tree |-> {}, counts |-> [k \in Keys |-> 0]]

Init ==
  /\ tree \in {t \in SUBSET Keys : Cardinality(t) <= Capacity}
  /\ count = [k \in Keys |-> IF k \in tree THEN 1 ELSE 0]
  /\ pc = "idle" /\ args = NoArgs
  /\ reserved = 0 /\ added = 0 /\ changes = 0
  /\ reply = Blank

\* Another worker logs a request of k, between the sizing and the command.
Log(k) ==
  /\ pc = "sized" /\ changes < MaxChanges
  /\ count[k] < MaxCount /\ Cardinality(tree \cup {k}) <= Capacity
  /\ tree' = tree \cup {k}
  /\ count' = [count EXCEPT ![k] = @ + 1]
  /\ added' = IF k \in tree THEN added ELSE added + 1
  /\ changes' = changes + 1
  /\ UNCHANGED <<pc, args, reserved, reply>>

(* The arguments. *)

\* The group that an argument names: a type of node, all of them, or none.
Group(a) ==
  CASE a.group = "*" -> "all"
    [] a.group = "server" -> "NO"
    [] a.group = "upstream@alone" -> "UA"
    [] a.group = "upstream@group" -> "UG"
    [] a.group = "cache" -> "CC"
    [] a.group = "filter" -> "FG"
    [] OTHER -> "none"

\* An unknown command or group, or a zone missing next to a group, refuses.
Command(a) ==
  IF \/ a.cmd \notin {"status", "delete", "reset"}
     \/ a.group = "other"
     \/ ~a.has_zone /\ Group(a) # "all"
  THEN "none" ELSE a.cmd

\* The zone as part of a key: "@" stands for the separator, and what stood for
\* an "@" is put back after that.
Zone(a) == ReplaceStrc(ReplaceChrc(a.zone, "@", Sep), "[:alpha:]", "@", TRUE)

\* node_control_range_set
RangeOf(a) ==
  CASE Group(a) = "all" -> "ALL"
    [] Group(a) # "all" /\ Zone(a) = <<>> -> "NONE"
    [] Group(a) # "all" /\ Zone(a) = <<"*">> -> "GROUP"
    [] OTHER -> "ZONE"

\* Without a group, the key of a zone is that of a server: a group above the last
\* one prints as the first.
KeyOf(a) == GenerateKey(Zone(a), Group(a))

(* status *)

Braced(opened, filled, end) ==
  IF filled = opened THEN J!FMT_S \o <<J!OBJECT_E>>
  ELSE Front(filled) \o end \o <<J!OBJECT_E>>

StatusGroup(group, walk, oom) ==
  LET servers == J!FMT_S \o J!FMT_SERVER_S
      alone == J!FMT_S \o J!ARRAY_S(<<"::nogroups">>)
      groups == J!FMT_S \o J!FMT_UPSTREAM_S
      filters == J!FMT_S \o J!FMT_FILTER_S
  IN CASE group = "NO" -> Braced(servers, J!SetServer(servers, walk), <<J!OBJECT_E>>)
       [] group = "UA" -> Braced(alone, J!SetUpstreamAlone(alone, walk), <<J!ARRAY_E>>)
       [] group = "UG" -> Braced(groups, J!SetUpstreamGroup(groups, walk, oom), <<J!OBJECT_E>>)
       [] group = "FG" -> Braced(filters, J!SetFilter(filters, walk, oom), <<J!OBJECT_E>>)
       [] OTHER -> J!FMT_S \o <<J!OBJECT_E>>

\* The text of one node.  Only a node of the group asked for is formatted: for a
\* zone without a group the opening brace stays alone.
StatusZone(a, oom) ==
  CASE Group(a) = "NO" /\ Zone(a) = <<"::main">> ->
         Front(J!SetMain(J!FMT_S, oom)) \o <<J!OBJECT_E>>
    [] oom.site = "key" \/ KeyOf(a) \notin tree -> <<>>
    [] Group(a) = "NO" ->
         Front(J!SetServerNode(J!FMT_S, KeyOf(a))) \o <<J!OBJECT_E>>
    [] Group(a) = "FG" ->
         Front(J!SetServerNode(J!FMT_S, PositionKey(KeyOf(a), 2))) \o <<J!OBJECT_E>>
    [] Group(a) = "UA" -> Front(J!SetUpstreamNode(<<>>, Zone(a)))
    [] Group(a) = "UG" ->
         IF UpstreamKnown(Zone(a))
         THEN Front(J!SetUpstreamNode(<<>>, PositionKey(Zone(a), 1))) ELSE <<>>
    [] OTHER -> J!FMT_S

NodeStatus(a, walk, oom) ==
  LET text == CASE RangeOf(a) = "ALL" -> J!DisplaySet(walk, oom)
                [] RangeOf(a) = "GROUP" -> StatusGroup(Group(a), walk, oom)
                [] RangeOf(a) = "ZONE" -> StatusZone(a, oom)
                [] OTHER -> <<>>
  IN IF text = <<>> THEN J!FMT_S \o <<J!OBJECT_E>> ELSE text

(* delete and reset: the nodes they affect, all of them counted *)

OfGroup(group) == {k \in tree : k[1] = group}

\* Mutant: the nodes met before an allocation failed are deleted.
NodeDeletePartly(a, oom) ==
  CASE RangeOf(a) = "ALL" -> tree
    [] RangeOf(a) = "GROUP" ->
         IF oom.site = "delete" /\ Cardinality(OfGroup(Group(a))) > oom.after
         THEN CHOOSE met \in kSubset(oom.after, OfGroup(Group(a))) : TRUE
         ELSE OfGroup(Group(a))
    [] RangeOf(a) = "ZONE" -> IF oom.site = "key" THEN {} ELSE {KeyOf(a)} \cap tree
    [] OTHER -> {}

\* A group is collected in an array before any of it is deleted; if the array
\* cannot grow nothing is.
NodeDelete(a, oom) ==
  CASE RangeOf(a) = "ALL" -> tree
    [] RangeOf(a) = "GROUP" ->
         IF oom.site = "delete" /\ Cardinality(OfGroup(Group(a))) > oom.after
         THEN {} ELSE OfGroup(Group(a))
    [] RangeOf(a) = "ZONE" -> IF oom.site = "key" THEN {} ELSE {KeyOf(a)} \cap tree
    [] OTHER -> {}

NodeReset(a, oom) ==
  CASE RangeOf(a) = "ALL" -> tree
    [] RangeOf(a) = "GROUP" -> OfGroup(Group(a))
    [] RangeOf(a) = "ZONE" -> IF oom.site = "key" THEN {} ELSE {KeyOf(a)} \cap tree
    [] OTHER -> {}

(* The handler. *)

\* The reply of any command but status has a size of its own.
Request(a) ==
  /\ pc = "idle"
  /\ args' = a
  /\ pc' = "sized"
  /\ reserved' = IF Command(a) = "status" THEN Cardinality(tree) + J!UpstreamNelts ELSE 0
  /\ UNCHANGED <<tree, count, added, changes, reply>>

Run(ran, ret, n, text, walk, oom) ==
  /\ reply' = [ran |-> ran, ret |-> ret, count |-> n, text |-> text, walk |-> walk,
               oom |-> oom, tree |-> tree, counts |-> count]
  /\ pc' = "done"
  /\ UNCHANGED <<args, reserved, added, changes>>

Status ==
  /\ pc = "sized" /\ Command(args) = "status"
  /\ \E walk \in SetToSeqs(tree), oom \in {o \in Ooms : o.site # "delete"} :
       Run("status", TRUE, 0, NodeStatus(args, walk, oom), walk, oom)
  /\ UNCHANGED <<tree, count>>

Delete ==
  /\ pc = "sized" /\ Command(args) = "delete"
  /\ \E oom \in Ooms :
       LET deleted == NodeDelete(args, oom)
       IN /\ tree' = tree \ deleted
          /\ count' = [k \in Keys |-> IF k \in deleted THEN 0 ELSE count[k]]
          /\ Run("delete", TRUE, Cardinality(deleted), <<>>, <<>>, oom)

Reset ==
  /\ pc = "sized" /\ Command(args) = "reset"
  /\ \E oom \in Ooms :
       LET zeroed == NodeReset(args, oom)
       IN /\ count' = [k \in Keys |-> IF k \in zeroed THEN 0 ELSE count[k]]
          /\ Run("reset", TRUE, Cardinality(zeroed), <<>>, <<>>, oom)
  /\ UNCHANGED tree

Refuse ==
  /\ pc = "sized" /\ Command(args) = "none"
  /\ Run("none", FALSE, 0, <<>>, <<>>, J!NoOom)
  /\ UNCHANGED <<tree, count>>

\* A HEAD request ends with its headers, before the command; so does one whose
\* buffer finds no memory.
NoReply ==
  /\ pc = "sized"
  /\ pc' = "done"
  /\ UNCHANGED <<tree, count, args, reserved, added, changes, reply>>

\* The reply is sent: nothing is left to do.
Done == pc = "done" /\ UNCHANGED vars

Args ==
  [cmd : {"status", "delete", "reset"}, group : Groups, has_zone : {TRUE}, zone : Zones]
    \cup [cmd : {"status", "delete", "other", "absent"}, group : Groups, has_zone : {FALSE}, zone : {<<>>}]

Next ==
  \/ \E k \in Keys : Log(k)
  \/ \E a \in Args : Request(a)
  \/ Status \/ Delete \/ Reset \/ Refuse \/ NoReply \/ Done

Spec == Init /\ [][Next]_vars

(* Properties. *)

\* The zone that asks for a node: its key behind the group, with "@" for the
\* separators and the placeholder for every "@" of a name.
Written(k) == ReplaceChrc(ReplaceChrc(SubSeq(k, 3, Len(k)), "@", "[:alpha:]"), Sep, "@")

\* The nodes that arguments select, by what the interface promises; "*" is no name.
Selects(a, k) ==
  \/ Group(a) = "all"
  \/ Group(a) # "none" /\ a.zone = <<"*">> /\ k[1] = Group(a)
  \/ /\ k[1] = (IF Group(a) = "none" THEN "NO" ELSE Group(a))
     /\ a.zone # <<"*">> /\ a.zone = Written(k)
Selected == {k \in reply.tree : Selects(args, k)}

\* A delete or a reset touches the nodes that its arguments name, all of them or,
\* when memory runs out, none; a refused command touches nothing; and the count
\* it reports is the number of nodes it touched.
AffectsSelected ==
  reply.ran \in {"delete", "reset", "none"} =>
    \E hit \in {Selected, {}} :
      /\ reply.ret /\ reply.oom = J!NoOom => hit = Selected
      /\ ~reply.ret => hit = {}
      /\ tree = IF reply.ran = "delete" THEN reply.tree \ hit ELSE reply.tree
      /\ \A k \in Keys : count[k] = IF k \in hit THEN 0 ELSE reply.counts[k]
      /\ reply.count = Cardinality(hit)

IsLeaf(i) ==
  \/ reply.text[i].t = "server"
  \/ reply.text[i].t = "name" /\ reply.text[i + 2].t = "members"
Shown(name) == {i \in DOMAIN reply.text : IsLeaf(i) /\ reply.text[i].v = name}

Addresses == UNION {{<<u.host, a>> : a \in ToSet(J!ShownAddrs(u))} :
                      u \in {v \in ToSet(Upstreams) : J!Shown(v)}}

\* What a status owes for the nodes selected: their names, and for upstreams of
\* groups the addresses of the configuration instead, next to the lone ones.
Owed ==
  LET all == Group(args) = "all"
      group == RangeOf(args) = "GROUP" /\ Group(args) = "UG"
      zone == RangeOf(args) = "ZONE" /\ Group(args) = "UG"
  IN {<<k, k>> : k \in {l \in Selected : l[1] = "NO"}}
       \cup {<<k, PositionKey(k, 2)>> : k \in {l \in Selected : l[1] = "FG"}}
       \cup {<<k, PositionKey(k, 1)>> : k \in {l \in IF group THEN reply.tree ELSE Selected :
                                                  l[1] = "UA"}}
       \cup {<<p, p[2]>> : p \in IF all \/ group THEN Addresses ELSE {}}
       \cup {<<k, PositionKey(k, 2)>> :
               k \in {l \in Selected : zone /\ UpstreamKnown(SubSeq(l, 3, Len(l)))}}

\* The text of a status of an existing group nests, and shows what it owes, each once,
\* and nothing else.
StatusShowsSelected ==
  /\ reply.ran = "status" /\ reply.oom = J!NoOom /\ Group(args) # "none"
  /\ RangeOf(args) = "ALL" => \E k \in reply.tree : k[1] = "NO"
  /\ args.zone # <<"::main">>
  => /\ J!Nested(reply.text)
     /\ \A i \in DOMAIN reply.text : IsLeaf(i) => \E o \in Owed : o[2] = reply.text[i].v
     /\ \A o \in Owed : Cardinality(Shown(o[2])) = Cardinality({p \in Owed : p[2] = o[2]})

\* The buffer of a status, sized without the mutex, has a share for each node of the text
\* that the command writes under it, apart from nodes added in between.
StatusCounted ==
  reply.ran = "status" /\ J!Nested(reply.text) =>
    Cardinality({i \in DOMAIN reply.text : IsLeaf(i)}) <= reserved + added
=============================================================================
