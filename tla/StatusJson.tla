----------------------------- MODULE StatusJson -----------------------------
(***************************************************************************)
(* The JSON page: the text that display_set writes for a zone.             *)
(*                                                                         *)
(* The text is a sequence of tokens.  A format is abstracted to the tokens *)
(* a parser tells apart: braces, brackets, commas, names, and "members"    *)
(* for a run of members that is well-formed by itself.  A name is a string *)
(* of KeyCodec, written as it is passed: the key of a server with its      *)
(* separator, the name of a filter escaped.  buf-- drops one character,    *)
(* which is one token wherever the code does it.                           *)
(*                                                                         *)
(* One allocation of the request's pool may fail: oom.site names it, and   *)
(* the loop variables at which it happens are oom.at and oom.after.        *)
(* CACHE_STATS and ADD_SUM_ALL are 0 in the build, so that no cache zones  *)
(* and no "*" zone are shown, and the sums are computed for nothing.       *)
(***************************************************************************)
EXTENDS FilterKeys

CONSTANT Upstreams
  \* The upstream blocks in order: [host, zone, port, servers, peers].  servers is
  \* a sequence of [backup, addrs]; peers are the primary peers of a shared zone.

Tok(t) == [t |-> t, v |-> <<>>]
Name(v) == [t |-> "name", v |-> v]

NoOom == [site |-> "none", at |-> 0, after |-> 0]
Room(oom, site, at, most) ==
  IF oom.site = site /\ oom.at = at THEN oom.after ELSE most

OBJECT_S(v) == <<Name(v), Tok("{")>>
ARRAY_S(v) == <<Name(v), Tok("[")>>
OBJECT_E == Tok("}")
ARRAY_E == Tok("]")
NEXT == Tok(",")
FMT_S == <<Tok("{")>>
FMT_MAIN == <<Tok("members"), NEXT>>
FMT_SERVER_S == OBJECT_S(<<"serverZones">>)
FMT_FILTER_S == OBJECT_S(<<"filterZones">>)
FMT_UPSTREAM_S == OBJECT_S(<<"upstreamZones">>)
FMT_SERVER(key) == OBJECT_S(key) \o <<Tok("members"), OBJECT_E, NEXT>>
FMT_UPSTREAM(key) ==
  <<Tok("{"), [t |-> "server", v |-> key], NEXT, Tok("members"), OBJECT_E, NEXT>>

\* A section that stayed empty is taken back; otherwise its last comma gives way
\* to what closes it.
Close(o, s, buf, end) == IF buf = s THEN o ELSE Front(buf) \o end

SetMain(buf, oom) == IF oom.site = "main" THEN buf ELSE buf \o FMT_MAIN

\* The key is written raw, a server's with its separator: the escaped one is only used by
\* the build with cache statistics.
SetServerNode(buf, key) == buf \o FMT_SERVER(key)

SetServer(buf, walk) ==
  FoldLeft(LAMBDA b, k : IF k[1] = "NO" THEN SetServerNode(b, k) ELSE b, buf, walk)

SetFilterNode(buf, key) == SetServerNode(buf, PositionKey(key, 2))

\* Mutant: the array of nodes is not reset after a filter is shown.
NextFilterKeeping(acc, walk, oom, name) ==
  LET got == GetNodes(acc.nodes, name, walk, Room(oom, "nodes", acc.calls, Len(walk)))
      shown == FoldLeft(SetFilterNode, acc.buf \o OBJECT_S(EscapeJson(name)), got.nodes)
  IN IF got.nodes # <<>> /\ got.ok
     THEN [acc EXCEPT !.buf = Front(shown) \o <<OBJECT_E, NEXT>>, !.nodes = got.nodes,
                      !.key = name, !.calls = @ + 1]
     ELSE [acc EXCEPT !.nodes = got.nodes, !.key = name, !.calls = @ + 1]

\* One turn of the loop over the sorted names.  The array of nodes is reset only
\* after a filter was shown.
NextFilter(acc, walk, oom, name) ==
  LET got == GetNodes(acc.nodes, name, walk, Room(oom, "nodes", acc.calls, Len(walk)))
      shown == FoldLeft(SetFilterNode, acc.buf \o OBJECT_S(EscapeJson(name)), got.nodes)
  IN IF got.nodes # <<>> /\ got.ok
     THEN [acc EXCEPT !.buf = Front(shown) \o <<OBJECT_E, NEXT>>, !.nodes = <<>>,
                      !.key = name, !.calls = @ + 1]
     ELSE [acc EXCEPT !.nodes = got.nodes, !.key = name, !.calls = @ + 1]

SetFilter(buf, walk, oom) ==
  LET keys == GetKeys(walk, Room(oom, "keys", 0, Len(walk)))
      start == [buf |-> buf, nodes |-> <<>>, key |-> <<>>, calls |-> 0]
  IN IF ~keys.ok \/ keys.names = <<>> THEN buf
     ELSE FoldLeft(LAMBDA acc, name :
                     IF name = acc.key THEN acc ELSE NextFilter(acc, walk, oom, name),
                   start, SortKeys(keys.names)).buf

\* An address with or without a node has the same tokens.
SetUpstreamNode(buf, name) == buf \o FMT_UPSTREAM(EscapeJson(name))

SetUpstreamAlone(buf, walk) ==
  FoldLeft(LAMBDA b, k : IF k[1] = "UA" THEN SetUpstreamNode(b, PositionKey(k, 1)) ELSE b,
           buf, walk)

\* What is listed for an upstream: the primary peers of its zone and then the
\* addresses of its backup servers; without a zone, the addresses of all.
ShownAddrs(u) ==
  LET listed == Kept(u.servers, {us \in ToSet(u.servers) : ~u.zone \/ us.backup})
  IN (IF u.zone THEN u.peers ELSE <<>>)
     \o FlattenSeq([j \in DOMAIN listed |-> listed[j].addrs])

Shown(u) == u.servers # <<>> /\ ~u.port

\* Mutant: the addresses of upstreams without a node are not counted.
NoUpstreamNelts == 0

\* Every address of every shown upstream, and the peers of a zone besides.
UpstreamNelts ==
  LET shown == Kept(Upstreams, {u \in ToSet(Upstreams) : Shown(u)})
      Nelts(u) ==
        (IF u.zone THEN Len(u.peers) ELSE 0)
          + FoldLeft(LAMBDA n, us : n + Len(us.addrs), 0, u.servers)
  IN FoldLeft(LAMBDA n, u : n + Nelts(u), 0, shown)

\* generate_key number oom.at fails: everything after it is left unwritten.
SetGroup(acc, u, oom) ==
  LET addrs == ShownAddrs(u)
      opened == acc.buf \o ARRAY_S(u.host)
      fails == oom.site = "key" /\ oom.at < acc.keys + Len(addrs)
      written == IF fails THEN SubSeq(addrs, 1, oom.at - acc.keys) ELSE addrs
      listed == FoldLeft(SetUpstreamNode, opened, written)
  IN IF fails THEN [buf |-> listed, keys |-> oom.at, cut |-> TRUE]
     ELSE [buf |-> Close(acc.buf, opened, listed, <<ARRAY_E, NEXT>>),
           keys |-> acc.keys + Len(addrs), cut |-> FALSE]

SetUpstreamGroup(buf, walk, oom) ==
  LET groups ==
        FoldLeft(LAMBDA acc, u : IF acc.cut \/ ~Shown(u) THEN acc ELSE SetGroup(acc, u, oom),
                 [buf |-> buf, keys |-> 0, cut |-> FALSE], Upstreams)
      opened == groups.buf \o ARRAY_S(<<"::nogroups">>)
  IN IF oom.site = "dst" THEN buf
     ELSE IF groups.cut THEN groups.buf
     ELSE Close(groups.buf, opened, SetUpstreamAlone(opened, walk), <<ARRAY_E, NEXT>>)

\* Mutant: the comma after the last server zone stays.
ServersSectionComma(buf, walk) ==
  SetServer(buf \o FMT_SERVER_S, walk) \o <<OBJECT_E, NEXT>>

\* The last character of serverZones is dropped whether a server was written or not.
ServersSection(buf, walk) ==
  Front(SetServer(buf \o FMT_SERVER_S, walk)) \o <<OBJECT_E, NEXT>>

FiltersSection(buf, walk, oom) ==
  Close(buf, buf \o FMT_FILTER_S, SetFilter(buf \o FMT_FILTER_S, walk, oom), <<OBJECT_E, NEXT>>)

UpstreamsSection(buf, walk, oom) ==
  Close(Front(buf), buf \o FMT_UPSTREAM_S,
        SetUpstreamGroup(buf \o FMT_UPSTREAM_S, walk, oom), <<OBJECT_E>>)

DisplaySet(walk, oom) ==
  LET servers == ServersSection(SetMain(FMT_S, oom), walk)
  IN UpstreamsSection(FiltersSection(servers, walk, oom), walk, oom) \o <<OBJECT_E>>

(* Reading the text back. *)

\* What may stand next to what, inside which bracket, in a JSON text.
Follows(top, prev, next) ==
  <<prev, next>> \in
    {<<"{", "name">>, <<"{", "members">>, <<"{", "server">>, <<"{", "}">>, <<"[", "]">>,
     <<"name", "{">>, <<"name", "[">>, <<"[", "{">>, <<"members", ",">>, <<"server", ",">>,
     <<"members", "}">>, <<"}", "}">>, <<"}", "]">>, <<"]", "}">>, <<"}", ",">>, <<"]", ",">>}
      \cup (IF top = "{" THEN {<<",", "name">>, <<",", "members">>} ELSE {<<",", "{">>})

Opens == {"{", "["}
Closes(t) == IF t = "}" THEN "{" ELSE "["

ReadTok(st, tok) ==
  IF ~st.ok \/ st.stack = <<>> \/ ~Follows(Last(st.stack), st.prev, tok.t)
  THEN [st EXCEPT !.ok = FALSE]
  ELSE CASE tok.t \in Opens -> [st EXCEPT !.stack = Append(@, tok.t), !.prev = tok.t]
         [] tok.t \in {"}", "]"} -> [st EXCEPT !.ok = Last(st.stack) = Closes(tok.t),
                                               !.stack = Front(@), !.prev = tok.t]
         [] OTHER -> [st EXCEPT !.prev = tok.t]

\* The braces, brackets, commas and names nest as in a JSON text, whatever the names hold.
Nested(text) ==
  /\ text # <<>> /\ text[1] = Tok("{")
  /\ LET end == FoldLeft(ReadTok, [ok |-> TRUE, stack |-> <<"{">>, prev |-> "{"], Tail(text))
     IN end.ok /\ end.stack = <<>>

\* Inside a string quotes and backslashes are escaped, and so are control characters.
ReadChar(st, ch) ==
  IF st.escaped THEN [ok |-> st.ok /\ ch \in Quoted, escaped |-> FALSE]
  ELSE [ok |-> st.ok /\ ch \notin {"\"", Sep}, escaped |-> ch = "\\"]

Whole == [ok |-> TRUE, escaped |-> FALSE]
IsString(v) == FoldLeft(ReadChar, Whole, v) = Whole

\* A text that JSON.parse takes.
WellFormed(text) ==
  Nested(text) /\ \A i \in DOMAIN text : text[i].t \in {"name", "server"} => IsString(text[i].v)

\* The names that enclose each name and server of a text, outermost first: where
\* a reader finds what.
Locate(st, tok) ==
  CASE tok.t = "name" -> [st EXCEPT !.name = tok.v, !.seen = Append(@, Append(st.path, tok.v))]
    [] tok.t = "server" -> [st EXCEPT !.seen = Append(@, Append(st.path, tok.v))]
    [] tok.t \in Opens -> [st EXCEPT !.path = Append(@, st.name), !.name = <<>>]
    [] tok.t \in {"}", "]"} /\ st.path # <<>> -> [st EXCEPT !.path = Front(@)]
    [] OTHER -> st

Located(text) == FoldLeft(Locate, [name |-> <<>>, path |-> <<>>, seen |-> <<>>], text).seen
=============================================================================
