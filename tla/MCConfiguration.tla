-------------------------- MODULE MCConfiguration ---------------------------
(* One server with one location.  Two of the rules have one hash, one has hash *)
(* 0, another is half the circle from it, and three hashes go round the circle. *)
EXTENDS Configuration

MCOrder == <<"server", "location">>
MCParent == [server |-> "http", location |-> "server"]
Rule(key) == [key |-> <<key>>, name |-> <<"n">>]
MCCrc(text) ==
  CASE text[1] = "a" -> 1 [] text[1] = "b" -> 1 [] text[1] = "c" -> 4
    [] text[1] = "d" -> 6 [] OTHER -> 0

MCRules ==
  ({"filter_keys"} \X {Rule("a"), Rule("b"), Rule("c"), Rule("d"), Rule("z")})
    \cup ({"limit_traffics", "limit_filter_traffics"} \X {Rule("a")})
MCRuleValues == [s \in Checks |-> {"on", "off"}]

MCScalarSlots ==
  Checks \cup {"enable", "format", "average_method", "average_period", "histogram_buckets"}
MCScalarValues ==
  [s \in MCScalarSlots |->
     CASE s \in Checks \cup {"enable"} -> {"on", "off"} [] s = "format" -> {"html"}
       [] s = "average_method" -> {"AMM", "WMA"} [] s = "average_period" -> {"60s"}
       [] OTHER -> {"5ms 1s", "1s"}]
MCScalarRules == {"filter_keys", "limit_filter_traffics", "filter_vars"} \X {Rule("a")}
=============================================================================
