-------------------------- MODULE MCRequestPhases ---------------------------
EXTENDS RequestPhases

(* Set rules: a server whose name holds an "@" and a "/", a plain one, a lone *)
(* upstream and two servers of a group, of which the configuration knows one. *)

Server == <<"NO", "US", "m", "@", "n", "/", "o">>
Other == <<"NO", "US", "a">>
Alone == <<"UA", "US", "s">>
KnownPeer == <<"UG", "US", "h", "US", "s">>
GonePeer == <<"UG", "US", "h", "US", "t">>
MCKeys == {Server, Other, Alone, KnownPeer, GonePeer}

\* No two keys share a hash.
MCHash ==
  (Server :> 1) @@ (Other :> 2) @@ (Alone :> 3) @@ (KnownPeer :> 4) @@ (GonePeer :> 5)

MCUpstreams ==
  <<[host |-> <<"h">>, servers |-> <<[addrs |-> <<<<"s">>, <<"t">>>>]>>]>>

Rule(group, zone_, member) == <<group, "/">> \o zone_ \o <<"/", member>>
ServerRule == Rule("server", <<"m", "[:alpha:]", "n", "[:slash:]", "o">>, "requestCounter")
OtherRule == Rule("server", <<"a">>, "requestCounter")
AloneRule == Rule("upstream@alone", <<"s">>, "weight")
KnownRule == Rule("upstream@group", <<"h", "@", "s">>, "requestCounter")
GoneRule == Rule("upstream@group", <<"h", "@", "t">>, "requestCounter")

MCRuleSets ==
  {<<ServerRule, OtherRule>>, <<AloneRule, GoneRule>>, <<GoneRule, KnownRule>>,
   <<Rule("servers", <<"a">>, "requestCounter"), <<"server", "/", "a">>, OtherRule>>}

(* Limits: two clients of one server, a filter by client in the http block and *)
(* one in the location, and a limit of every kind.                             *)

Vars(client, member) == ("$client" :> client) @@ ("$m" :> member)
NoUpstream == [used |-> FALSE, resolved |-> FALSE, host |-> <<>>, port |-> FALSE, peers |-> <<>>]
Group == [used |-> TRUE, resolved |-> TRUE, host |-> <<"h">>, port |-> FALSE, peers |-> <<<<"p">>>>]
Request(client, member, bytes, upstream, bypass) ==
  [vars |-> Vars(client, member), filter |-> TRUE, filter_host |-> FALSE, host |-> <<>>,
   server_name |-> <<"s">>, bytes |-> bytes, upstream |-> upstream, limit |-> TRUE,
   bypass_limit |-> bypass]

MCRequests ==
  {Request(<<"c">>, <<"in">>, 2, NoUpstream, FALSE),
   Request(<<"c">>, <<>>, 1, Group, TRUE),
   Request(<<>>, <<"in">>, 1, NoUpstream, FALSE)}

MCBlocks == <<[host |-> <<"h">>, port |-> FALSE]>>
MCHttpFilters == <<[key |-> <<"$client">>, name |-> <<"f">>]>>
MCLocFilters == <<[key |-> <<"$client">>, name |-> <<"g">>]>>
Limit(key, filter, variable, size, code_) ==
  [key |-> key, filter |-> filter, variable |-> variable, size |-> size, code |-> code_]
NoFilter == [key |-> <<>>, name |-> <<>>]
ServerLimit(variable, size, code_) == Limit(<<>>, NoFilter, variable, size, code_)
MCHttpLimits == <<ServerLimit(<<"in">>, 5, 0)>>
MCLocLimits == <<ServerLimit(<<"request">>, 4, 429)>>
MCHttpFilterLimits == <<Limit(<<"FG", "@", "f", "@", "$client">>, MCHttpFilters[1], <<"$m">>, 3, 410)>>
MCLocFilterLimits ==
  <<Limit(<<"FG", "@", "g", "@", "$client">>, MCLocFilters[1], <<"in">>, 2, 412),
    Limit(<<"FG", "@", "g", "@", "$client">>, MCLocFilters[1], <<"request">>, 0, 413)>>
=============================================================================
