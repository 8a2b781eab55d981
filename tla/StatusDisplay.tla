--------------------------- MODULE StatusDisplay ----------------------------
(***************************************************************************)
(* A worker that serves status pages while the other workers change the    *)
(* zone.  The page's buffer is sized by a walk of the tree without the     *)
(* mutex, and filled by walks under it: what happens in between, and under *)
(* the first walk, is what this module is about.                           *)
(*                                                                         *)
(* Sizes are counted in shares: get_size reserves as many bytes for each   *)
(* node that it counts, whatever the node is, and metrics_size bytes for   *)
(* the collectors.  Whether the text of one node stays within its share    *)
(* depends on its name and on the buckets of its histograms, which nothing *)
(* bounds: it is not modelled.  A path is the sequence of its segments,    *)
(* with a type of format cut down to the prefix that the handler compares. *)
(***************************************************************************)
EXTENDS Integers, Sequences, FiniteSets, SequencesExt, FiniteSetsExt

CONSTANTS
  Keys,          \* keys of nodes, laid out as in KeyCodec
  Capacity,      \* nodes the slab has room for
  Uris,          \* paths that are asked for
  conf_format,   \* vhost_traffic_status_display_format
  Enable,        \* vhost_traffic_status_zone is configured
  Ooms,          \* allocations of the request's pool that may fail
  Lens,          \* lengths the texts of the collectors may have
  Upstreams, NameOrder, Buckets, metrics_size, Enabled,   \* of the pages
  MaxChanges     \* bound on the changes of the zone under one request

J == INSTANCE StatusJson
P == INSTANCE StatusProm

ASSUME KeysAssumption == IsFiniteSet(Keys) /\ Capacity \in Nat /\ MaxChanges \in Nat

\* The configuration gives its upstreams, their servers and peers, and the addresses
\* of a server as arrays.
IsList(list) == list \in Seq(ToSet(list))
ASSUME ListsAssumption ==
  /\ IsList(NameOrder) /\ IsList(Upstreams)
  /\ \A u \in ToSet(Upstreams) : IsList(u.peers) /\ IsList(u.servers)
  /\ \A u \in ToSet(Upstreams) : \A server \in ToSet(u.servers) : IsList(server.addrs)

\* Lengths, and the number of buckets of a histogram.
ASSUME LensAssumption == metrics_size \in Nat /\ Lens \subseteq [Enabled -> Nat]
ASSUME BucketsAssumption == Buckets["request"] \in Nat /\ Buckets["response"] \in Nat

VARIABLES
  tree,      \* keys linked in the tree
  pc,        \* where the request is
  format,    \* the format it asked for
  reserved,  \* the nodes its buffer has a share for
  added,     \* nodes added to the tree since it was sized
  raced,     \* the tree changed under the sizing walk
  changes,   \* changes of the tree under this request
  reply      \* [status, walk, oom, page, lens, full]

vars == <<tree, pc, format, reserved, added, raced, changes, reply>>

Blank == [status |-> 0, walk |-> <<>>, oom |-> J!NoOom, page |-> <<>>, size |-> 0]
Answer(status) == [Blank EXCEPT !.status = status]

Init ==
  /\ tree \in {t \in SUBSET Keys : Cardinality(t) <= Capacity}
  /\ pc = "idle" /\ format = "NONE"
  /\ reserved = 0 /\ added = 0 /\ raced = FALSE /\ changes = 0
  /\ reply = Blank

(* The rest of the server: requests that are logged, evictions, deletions.   *)
(* Between two requests nothing depends on them: a request meets any tree.   *)

Changed(t) ==
  /\ pc \in {"sizing", "sized"} /\ changes < MaxChanges
  /\ tree' = t /\ changes' = changes + 1
  /\ raced' = (raced \/ pc = "sizing")
  /\ UNCHANGED <<pc, format, reserved, reply>>

AddNode(k) ==
  /\ k \notin tree /\ Cardinality(tree) < Capacity
  /\ added' = IF pc = "sized" THEN added + 1 ELSE added
  /\ Changed(tree \cup {k})

RemoveNode(k) == k \in tree /\ Changed(tree \ {k}) /\ UNCHANGED added

(* The handler. *)

\* A last segment "control" below the first one is for the control interface.
IsControl(uri) == Len(uri) >= 2 /\ Last(uri) = "control"

Types == [jsonp |-> "JSONP", json |-> "JSON", html |-> "HTML", prometheus |-> "PROMETHEUS"]

\* The first segment "format" with a type after it; another type is passed over.
FormatOf(uri) ==
  LET at == {i \in 1 .. Len(uri) - 1 : uri[i] = "format" /\ uri[i + 1] \in DOMAIN Types}
  IN IF at = {} THEN conf_format ELSE Types[uri[Min(at) + 1]]

\* Requests answered before any page is made; "control" goes to VtsControl.
Refused(method, uri) ==
  CASE ~Enable -> 501
    [] method \notin {"GET", "HEAD"} -> 405
    [] OTHER -> 0

Request(method, uri) ==
  /\ pc = "idle" /\ ~IsControl(uri)
  /\ format' = FormatOf(uri)
  /\ \/ Refused(method, uri) # 0 /\ pc' = "done" /\ reply' = Answer(Refused(method, uri))
     \/ Refused(method, uri) = 0 /\ method = "HEAD" /\ pc' = "done" /\ reply' = Answer(200)
     \/ Refused(method, uri) = 0 /\ method = "GET" /\ pc' = "sizing" /\ reply' = Blank
     \/ Refused(method, uri) = 0 /\ pc' = "done" /\ reply' = Answer(400) \* discarding the body
  /\ UNCHANGED <<tree, reserved, added, raced, changes>>

\* The walk that counts the nodes to reserve shares for ends.  If the tree was rotated under it, it may
\* have skipped or repeated any of them.
GetSize ==
  /\ pc = "sizing"
  /\ \/ /\ \E n \in IF raced THEN 0 .. Cardinality(Keys) ELSE {Cardinality(tree)} :
             reserved' = n + J!UpstreamNelts
        /\ pc' = "sized" /\ UNCHANGED reply
     \/ pc' = "done" /\ reply' = Answer(500) /\ UNCHANGED reserved   \* no memory for shm_info
  /\ UNCHANGED <<tree, format, added, raced, changes>>

NoBuffer ==
  /\ pc = "sized"
  /\ pc' = "done" /\ reply' = Answer(500)
  /\ UNCHANGED <<tree, format, reserved, added, raced, changes>>

\* All walks of one page meet the same tree, in one order: the mutex is held.
FillJson ==
  /\ pc = "sized" /\ format \in {"JSON", "JSONP"}
  /\ \E walk \in SetToSeqs(tree), oom \in Ooms :
       reply' = [Answer(200) EXCEPT !.walk = walk, !.oom = oom, !.page = J!DisplaySet(walk, oom)]
  /\ pc' = "done"
  /\ UNCHANGED <<tree, format, reserved, added, raced, changes>>

FillPrometheus ==
  /\ pc = "sized" /\ format = "PROMETHEUS"
  /\ \E walk \in SetToSeqs(tree), lens \in Lens :
       LET page == P!PrometheusSet(walk, lens)
       IN reply' = [Answer(200) EXCEPT !.walk = walk, !.page = page.buf, !.size = page.size]
  /\ pc' = "done"
  /\ UNCHANGED <<tree, format, reserved, added, raced, changes>>

\* The page that fetches the JSON by itself; it has a size of its own.
FillHtml ==
  /\ pc = "sized" /\ format = "HTML"
  /\ pc' = "done" /\ reply' = Answer(200)
  /\ UNCHANGED <<tree, format, reserved, added, raced, changes>>

\* The request is finalized.
Done ==
  /\ pc = "done"
  /\ pc' = "idle" /\ format' = "NONE" /\ reply' = Blank
  /\ changes' = 0 /\ added' = 0 /\ raced' = FALSE /\ reserved' = 0
  /\ UNCHANGED tree

Next ==
  \/ \E k \in Keys : AddNode(k) \/ RemoveNode(k)
  \/ \E method \in {"GET", "HEAD", "POST"}, uri \in Uris : Request(method, uri)
  \/ GetSize \/ NoBuffer
  \/ FillJson \/ FillPrometheus \/ FillHtml \/ Done

Spec == Init /\ [][Next]_vars

(* Properties. *)

Json == reply.status = 200 /\ reply.page # <<>> /\ format \in {"JSON", "JSONP"}
Prometheus == reply.status = 200 /\ reply.page # <<>> /\ format = "PROMETHEUS"

Of(type) == J!Kept(reply.walk, {k \in Keys : k[1] = type})
Complete == reply.oom = J!NoOom /\ Of("NO") # <<>>

\* The objects, arrays and members of every page of a zone that holds a server nest as in
\* a JSON text, whatever mix of sections is empty and however the tree is shaped: each
\* buf-- of display_set and its helpers takes back a comma and nothing else.  What the
\* names hold is PagesParse.
JsonNests == Json /\ Complete => J!Nested(reply.page)

Root == <<<<>>>>
ServerEntry(k) == Root \o <<<<"serverZones">>, k>>
FilterEntry(k) ==
  Root \o <<<<"filterZones">>, J!EscapeJson(J!PositionKey(k, 1)), J!PositionKey(k, 2)>>
UpstreamEntry(host, addr) == Root \o <<<<"upstreamZones">>, host, <<>>, addr>>

\* What a page owes: servers, filter nodes, lone upstreams, and every address of
\* the configuration, with or without a node.
Entries ==
  {ServerEntry(k) : k \in ToSet(Of("NO"))} \cup {FilterEntry(k) : k \in ToSet(Of("FG"))}
    \cup {UpstreamEntry(<<"::nogroups">>, J!PositionKey(k, 1)) : k \in ToSet(Of("UA"))}
    \cup UNION {{UpstreamEntry(u.host, a) : a \in ToSet(J!ShownAddrs(u))} :
                  u \in {v \in ToSet(Upstreams) : J!Shown(v)}}

IsLeaf(e) == Len(e) > 2 /\ (e[2] = <<"serverZones">> \/ Len(e) > 3)
Leaves == SelectSeq(J!Located(reply.page), IsLeaf)

\* A page shows each node that was in the tree under the mutex, and each configured
\* address, exactly once and in its place: nothing else, nothing twice, although
\* filters are collected by a walk per filter and sorted by name.
JsonShowsEachOnce ==
  Json /\ Complete => ToSet(Leaves) = Entries /\ Len(Leaves) = Cardinality(Entries)

\* The buffer sized without the mutex has a share for each node of the page, apart from
\* those that were added after the walk that sized it, unless that walk was raced: also
\* where an allocation fails half way.
PageCounted ==
  /\ Json /\ Of("NO") # <<>> /\ ~raced => Len(Leaves) <= reserved + added
  /\ Prometheus /\ ~raced => Len(reply.walk) <= reserved + added

\* A Prometheus page declares each family once and before its samples, also where a
\* section is taken back with its help lines, and its samples name every server and
\* filter node of the tree once, in the order of its walk, and its upstream nodes, each
\* in the section of its kind.  The texts of the collectors
\* that follow are the first ones of those turned on, and together they stay within
\* vhost_traffic_status_metrics_size.
PrometheusComplete ==
  Prometheus =>
    /\ P!FamiliesDeclared(reply.page)
    /\ P!NodesShown(reply.page, "server", "bytes_total")
         = [i \in DOMAIN Of("NO") |-> <<J!PositionKey(Of("NO")[i], 1)>>]
    /\ P!NodesShown(reply.page, "filter", "bytes_total")
         = [i \in DOMAIN Of("FG") |->
             <<J!PositionKey(Of("FG")[i], 1), J!PositionKey(Of("FG")[i], 2)>>]
    /\ ToSet(P!NodesShown(reply.page, "upstream", "response_seconds"))
         = {<<J!PositionKey(k, 1), J!PositionKey(k, 2)>> : k \in ToSet(Of("UG"))}
             \cup {<<<<"::nogroups">>, J!PositionKey(k, 1)>> : k \in ToSet(Of("UA"))}
    /\ IsPrefix(P!Collected(reply.page), P!Kept(P!Collectors, Enabled))
    /\ reply.size <= metrics_size

(* What the code does not keep. *)

\* display.c:362 announces a page as "application/json", and the status page of share/
\* reads it with JSON.parse: a page of a zone that holds a server can be parsed.
PagesParse == Json /\ Complete => J!WellFormed(reply.page)
=============================================================================
