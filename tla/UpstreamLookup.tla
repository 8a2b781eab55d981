--------------------------- MODULE UpstreamLookup ----------------------------
(***************************************************************************)
(* Finding the server of the configuration that a zone of the control      *)
(* interface, or of a set rule, names.                                     *)
(***************************************************************************)
EXTENDS Integers, Sequences, KeyCodec

CONSTANT Upstreams   \* the upstream blocks: host and servers with their addresses

\* The server of a group, by its first address only.
UpstreamKnown(zone) ==
  /\ HasPart(zone, 0) /\ HasPart(zone, 1)
  /\ \E i \in DOMAIN Upstreams :
       /\ Upstreams[i].host = PositionKey(zone, 0)
       /\ \A j \in 1 .. i - 1 : Upstreams[j].host # Upstreams[i].host
       /\ \E j \in DOMAIN Upstreams[i].servers :
            Head(Upstreams[i].servers[j].addrs) = PositionKey(zone, 1)

\* node_upstream_lookup: the count of the caller goes up when a server is found; one
\* without a group always is.
UpstreamCount(group, zone, count) ==
  IF group = "UA" \/ UpstreamKnown(zone) THEN count + 1 ELSE count
=============================================================================
