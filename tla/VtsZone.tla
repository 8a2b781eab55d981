------------------------------- MODULE VtsZone -------------------------------
(***************************************************************************)
(* The life of the shared zone over starts, reloads and stops of the       *)
(* master process.  A configuration names zones; nginx gives a zone the    *)
(* pool that the running configuration has for its name and size, or a new *)
(* one, and calls init_zone for each; pools that the new configuration     *)
(* does not use are freed when it takes over.  The one main configuration  *)
(* is bound to every zone that it names; it locks the last one.            *)
(***************************************************************************)
EXTENDS Integers, Sequences

CONSTANTS
  Names, Sizes,
  MaxZones,    \* bound on the zones of a configuration
  MaxPools     \* bound on the pools ever made

ASSUME ZoneAssumption == MaxZones \in Nat \ {0} /\ MaxPools \in Nat

VARIABLES
  pc,        \* "stopped", "parse", "init" or "run"
  running,   \* whether a configuration runs
  zones,     \* its zones: name, size and pool
  tree,      \* its tree: a number of its own and the pool it is in, or NoTree
  next_zones, next_tree,   \* the same of the configuration being read
  pools,     \* pools that are allocated
  made,
  several    \* for the properties: a configuration since the start named several zones

vars == <<pc, running, zones, tree, next_zones, next_tree, pools, made, several>>

NoTree == [pool |-> 0, serial |-> 0]
PoolsOf(list) == {list[i].pool : i \in DOMAIN list}

Init ==
  /\ pc = "stopped" /\ running = FALSE /\ zones = <<>> /\ tree = NoTree
  /\ next_zones = <<>> /\ next_tree = NoTree /\ pools = {} /\ made = 0 /\ several = FALSE

\* The master reads its configuration, at its start or for a reload.
Read ==
  /\ pc \in {"stopped", "run"}
  /\ pc' = "parse"
  /\ UNCHANGED <<running, zones, tree, next_zones, next_tree, pools, made, several>>

\* What runs goes on running; the pools of the rejected configuration are freed.
Reject ==
  /\ pc' = IF running THEN "run" ELSE "stopped"
  /\ next_zones' = <<>> /\ next_tree' = NoTree
  /\ pools' = pools \cap PoolsOf(zones)
  /\ UNCHANGED <<running, zones, tree, made, several>>

\* vhost_traffic_status_zone.  The main configuration is the data of each zone it was
\* bound to, and a zone with data is refused, as are bad sizes and arguments.
Zone(name, size) ==
  /\ pc = "parse" /\ Len(next_zones) < MaxZones
  /\ \A i \in DOMAIN next_zones : next_zones[i].name # name
  /\ next_zones' = Append(next_zones, [name |-> name, size |-> size, pool |-> 0])
  /\ UNCHANGED <<pc, running, zones, tree, next_tree, pools, made, several>>

ZoneRefused == pc = "parse" /\ Reject

Parsed ==
  /\ pc = "parse" /\ pc' = "init"
  /\ UNCHANGED <<running, zones, tree, next_zones, next_tree, pools, made, several>>

Reused(zone) ==
  {i \in DOMAIN zones : zones[i].name = zone.name /\ zones[i].size = zone.size}

NewTree(pool) == [pool |-> pool, serial |-> made + 1]

\* Mutant: every zone gets a tree of its own.
TreeNew(i, pool) == NewTree(pool)

\* Mutant: a zone takes the tree that runs, kept or not.
TreeRunning(i, pool) == IF tree # NoTree THEN tree ELSE NewTree(pool)

\* init_zone: a zone that is kept brings the tree of the configuration it served.
TreeOf(i, pool) == IF Reused(next_zones[i]) # {} THEN tree ELSE NewTree(pool)

Due(i) == i \in DOMAIN next_zones /\ next_zones[i].pool = 0
First(i) == Due(i) /\ \A j \in DOMAIN next_zones : Due(j) => i <= j

InitZone(i) ==
  /\ pc = "init" /\ First(i)
  /\ \E pool \in (IF Reused(next_zones[i]) # {}
                  THEN {zones[j].pool : j \in Reused(next_zones[i])} ELSE {made + 1}) :
       /\ pool \in pools \/ made < MaxPools
       /\ made' = IF pool \in pools THEN made ELSE made + 1
       /\ pools' = pools \cup {pool}
       /\ next_zones' = [next_zones EXCEPT ![i].pool = pool]
       /\ next_tree' = TreeOf(i, pool)
  /\ UNCHANGED <<pc, running, zones, tree, several>>

\* The pool cannot be made, or the slab has no room for the tree, its sentinel or the
\* context of its messages.
InitZoneFailed(i) == pc = "init" /\ First(i) /\ Reused(next_zones[i]) = {} /\ Reject

\* Mutant: the pools of the configuration before are kept.
KeptPools == pools

\* The pools of the new configuration; the rest is freed.
NextPools == pools \cap PoolsOf(next_zones)

TakeOver ==
  /\ pc = "init" /\ \A i \in DOMAIN next_zones : ~Due(i)
  /\ pc' = "run" /\ running' = TRUE
  /\ zones' = next_zones /\ tree' = next_tree
  /\ next_zones' = <<>> /\ next_tree' = NoTree
  /\ pools' = NextPools
  /\ several' = (several \/ Len(next_zones) > 1)
  /\ UNCHANGED made

Stop ==
  /\ pc = "run" /\ pc' = "stopped" /\ running' = FALSE
  /\ zones' = <<>> /\ tree' = NoTree /\ pools' = {} /\ several' = FALSE
  /\ UNCHANGED <<next_zones, next_tree, made>>

Next ==
  \/ Read
  \/ \E name \in Names, size \in Sizes : Zone(name, size)
  \/ ZoneRefused \/ Parsed
  \/ \E i \in DOMAIN next_zones : InitZone(i) \/ InitZoneFailed(i)
  \/ TakeOver \/ Stop

Spec == Init /\ [][Next]_vars

(* Properties. *)

Zones == [name : Names, size : Sizes, pool : 0 .. MaxPools]
Trees == [pool : 0 .. MaxPools, serial : 0 .. MaxPools]
TypeOK ==
  /\ pc \in {"stopped", "parse", "init", "run"}
  /\ running \in BOOLEAN /\ several \in BOOLEAN
  /\ zones \in Seq(Zones) /\ next_zones \in Seq(Zones)
  /\ tree \in Trees /\ next_tree \in Trees
  /\ made \in 0 .. MaxPools /\ pools \subseteq 1 .. made

\* Workers never use memory that is gone, and a reload leaks none: the pools allocated
\* are those of the zones that run and, while it is read, of the next configuration.
PoolsHeld ==
  pools = PoolsOf(zones) \cup (PoolsOf(next_zones) \ {0})

\* The tree is in the zone whose mutex and slab its users take, the last one named,
\* through every reload and rejected configuration; as long as no configuration names
\* several zones.
TreeInZone ==
  running /\ ~several => tree.pool = IF zones = <<>> THEN 0 ELSE zones[Len(zones)].pool

\* A reload keeps the tree, and with it the counters, of a zone that keeps its name and
\* size.
ReloadKeeps ==
  running /\ running' /\ ~several' /\ zones # <<>> /\ zones' # <<>>
    /\ zones'[1].name = zones[1].name /\ zones'[1].size = zones[1].size
  => tree' = tree

ReloadKeepsTree == [][ReloadKeeps]_vars
=============================================================================
