-------------------------- MODULE MCStatusRequests --------------------------
(* Nodes of every kind: a server whose name holds an "@", two nodes of one   *)
(* filter and one of another.  Of the upstreams one has two addresses, one a *)
(* shared zone and a backup server, and one is never shown.                  *)
EXTENDS StatusRequests

No(name) == <<"NO", "US">> \o name
Fg(f, n) == <<"FG", "US", f, "US", n>>

MCKeys ==
  {No(<<"a">>), No(<<"m", "@", "n">>), Fg("f", "x"), Fg("f", "y"), Fg("g", "x"),
   <<"UA", "US", "s">>, <<"UG", "US", "h", "US", "s">>}

MCUris ==
  {<<"vts">>, <<"vts", "format", "json">>, <<"vts", "format", "x", "format", "prometheus">>}

Server(backup, addrs) == [backup |-> backup, addrs |-> addrs]
MCUpstreams ==
  <<[host |-> <<"h">>, zone |-> FALSE, port |-> FALSE, peers |-> <<>>,
     servers |-> <<Server(FALSE, <<<<"s">>, <<"t">>>>)>>],
    [host |-> <<"i">>, zone |-> FALSE, port |-> TRUE, peers |-> <<>>,
     servers |-> <<Server(FALSE, <<<<"s">>>>)>>],
    [host |-> <<"z">>, zone |-> TRUE, port |-> FALSE, peers |-> <<<<"p">>>>,
     servers |-> <<Server(FALSE, <<<<"p">>>>), Server(TRUE, <<<<"q">>>>)>>]>>

MCNameOrder == <<<<"f">>, <<"g">>>>
MCBuckets == [request |-> 1, response |-> 0]

None == [site |-> "none", at |-> 0, after |-> 0]
MCOoms ==
  {None, [None EXCEPT !.site = "main"], [None EXCEPT !.site = "dst"],
   [site |-> "keys", at |-> 0, after |-> 1], [site |-> "nodes", at |-> 0, after |-> 0],
   [site |-> "nodes", at |-> 0, after |-> 1], [site |-> "key", at |-> 1, after |-> 0]}
MCControlOoms ==
  {None, [site |-> "delete", at |-> 0, after |-> 1], [site |-> "key", at |-> 1, after |-> 0]}

MCEnabled == {"disk_utilization", "mem_info", "vm_stats"}
MCLens == [MCEnabled -> {1, 2}]

MCZones ==
  {<<>>, <<"*">>, <<"::main">>, <<"a">>, <<"m", "[:alpha:]", "n">>,
   <<"f", "@", "x">>, <<"s">>, <<"h", "@", "s">>}
MCGroups ==
  {"absent", "*", "server", "upstream@alone", "upstream@group", "cache", "filter", "other"}
=============================================================================
