----------------------------- MODULE FilterKeys -----------------------------
(***************************************************************************)
(* The filters of a zone and their nodes, as the JSON page collects them.  *)
(* A walk is the zone's tree in the order of a recursive descent, as a     *)
(* sequence of keys.                                                       *)
(***************************************************************************)
EXTENDS Integers, Sequences, KeyCodec

CONSTANT NameOrder   \* the names of filters in the order of strcmp

IsFilter(key) == key[1] = "FG" /\ HasPart(key, 1)

UpTo(seq, room) == SubSeq(seq, 1, IF Len(seq) <= room THEN Len(seq) ELSE room)

\* The name of the filter of every filter node; the push after room fails.
GetKeys(walk, room) ==
  LET keys == Kept(walk, {k \in ToSet(walk) : IsFilter(k)})
      names == [i \in DOMAIN keys |-> PositionKey(keys[i], 1)]
  IN [ok |-> Len(names) <= room, names |-> UpTo(names, room)]

\* The nodes of filter name, appended to the array passed in, also on failure.
GetNodes(filter_nodes, name, walk, room) ==
  LET nodes == Kept(walk, {k \in ToSet(walk) : IsFilter(k) /\ PositionKey(k, 1) = name})
  IN [ok |-> Len(nodes) <= room, nodes |-> filter_nodes \o UpTo(nodes, room)]

\* qsort with cmp_keys: occurrences of one name become neighbours.
SortKeys(names) ==
  FlattenSeq([i \in DOMAIN NameOrder |-> Kept(names, {NameOrder[i]})])

\* filter_max_node bounds the nodes of a filter that matches one of these
\* prefixes, or of every filter when none is given.
MaxNodeMatch(matches, filter) ==
  matches = <<>> \/ \E i \in DOMAIN matches : IsPrefix(matches[i], filter)
=============================================================================
