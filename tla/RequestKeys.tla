---------------------------- MODULE RequestKeys -----------------------------
(***************************************************************************)
(* The keys that a request counts under: its server, the upstream peer     *)
(* that answered it and the filter rules of its location.  A rule's text   *)
(* holds variables, tokens that a request gives a string each.             *)
(***************************************************************************)
EXTENDS Integers, Sequences, KeyCodec

CONSTANT UpstreamBlocks   \* the upstream blocks: host and whether they have a port

\* ngx_http_complex_value
Value(text, r) ==
  FlattenSeq([i \in DOMAIN text |->
                IF text[i] \in DOMAIN r.vars THEN r.vars[text[i]] ELSE <<text[i]>>])

ServerKey(r) ==
  GenerateKey(FindName(r.filter /\ r.filter_host, r.host, r.server_name), "NO")

\* The block a request was proxied to: that of its location, or for a name that was
\* resolved at run time the block of this name, else a block made up from it.
BlockOf(u) ==
  LET matches == {i \in DOMAIN UpstreamBlocks :
                    UpstreamBlocks[i].host = u.host /\ UpstreamBlocks[i].port = u.port}
  IN IF u.resolved /\ matches # {} THEN UpstreamBlocks[CHOOSE i \in matches : TRUE]
     ELSE [host |-> u.host, port |-> u.port]

\* A block with a port is no group.  The key names the first peer tried.
UpstreamKeys(r) ==
  LET u == r.upstream
  IN IF ~u.used \/ u.peers = <<>> \/ Head(u.peers) = <<>> THEN <<>>
     ELSE IF BlockOf(u).port THEN <<GenerateKey(Head(u.peers), "UA")>>
     ELSE <<GenerateKey(BlockOf(u).host \o <<Sep>> \o Head(u.peers), "UG")>>

\* A rule without a name counts as a server.
FilterKey(key, name) ==
  IF name = <<>> THEN GenerateKey(key, "NO")
  ELSE GenerateKey(name \o <<Sep>> \o key, "FG")

\* The rules of one array, as far as they can be evaluated: those without a key are
\* passed over, one that fails ends the array.
FilterNodeKeys(rules, r, upto) ==
  LET known == SelectSeq(SubSeq(rules, 1, upto),
                         LAMBDA f : f.key # <<>> /\ Value(f.key, r) # <<>>)
  IN [i \in DOMAIN known |-> FilterKey(Value(known[i].key, r), Value(known[i].name, r))]

\* http_rules and rules are the arrays of the http block and of the location; the pool
\* lasts for upto[1] and upto[2] of them.
KeysOf(r, http_rules, rules, upto) ==
  <<ServerKey(r)>> \o UpstreamKeys(r)
    \o (IF r.filter
        THEN FilterNodeKeys(http_rules, r, upto[1]) \o FilterNodeKeys(rules, r, upto[2])
        ELSE <<>>)
=============================================================================
