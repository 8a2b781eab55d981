---------------------------- MODULE VtsZoneProofs ----------------------------
(***************************************************************************)
(* Proofs about VtsZone: over any sequence of starts, reloads, rejected    *)
(* configurations and stops, of any length and with any names and sizes,   *)
(* exactly the pools in use are allocated; and as long as no configuration *)
(* names several zones, the tree is in the zone that is locked and a       *)
(* reload that keeps the zone keeps the tree.                              *)
(***************************************************************************)
EXTENDS VtsZone, TLAPS

(* The inductive invariant: what each phase of the master says of the two  *)
(* configurations.                                                         *)

Phases ==
  /\ pc = "run" => running
  /\ pc = "stopped" => ~running
  /\ pc # "init" => next_tree = NoTree
  /\ pc \in {"run", "stopped"} => next_zones = <<>>
  /\ pc = "parse" => \A i \in DOMAIN next_zones : next_zones[i].pool = 0
  /\ ~running => zones = <<>> /\ tree = NoTree /\ ~several

Allocated == \A i \in DOMAIN zones : zones[i].pool # 0

FirstPool(list) == IF list = <<>> THEN 0 ELSE list[1].pool

One ==
  ~several => /\ Len(zones) <= 1 /\ tree.pool = FirstPool(zones)
              /\ Len(next_zones) <= 1 => next_tree.pool = FirstPool(next_zones)

\* The zone of the next configuration is the one that runs, and was given its pool.
Kept ==
  /\ zones # <<>> /\ next_zones # <<>>
  /\ next_zones[1].name = zones[1].name /\ next_zones[1].size = zones[1].size
  /\ next_zones[1].pool # 0

KeptTree == (~several /\ Len(next_zones) <= 1 /\ Kept) => next_tree = tree

IInv == TypeOK /\ PoolsHeld /\ Phases /\ Allocated /\ One /\ KeptTree

LEMMA Empty == NoTree \in Trees /\ NoTree.pool = 0 /\ <<>> \in Seq(Zones) /\ PoolsOf(<<>>) = {}
  <1>1. 0 \in 0 .. MaxPools
    BY ZoneAssumption
  <1>2. NoTree \in Trees /\ NoTree.pool = 0
    BY <1>1 DEF NoTree, Trees
  <1> QED BY <1>2 DEF PoolsOf

\* What writing the pool of one zone of a list does to the list.
LEMMA SetPool ==
  ASSUME NEW list \in Seq(Zones), NEW i \in DOMAIN list, NEW pool \in 0 .. MaxPools,
         NEW new, new = [list EXCEPT ![i].pool = pool]
  PROVE  /\ new \in Seq(Zones) /\ DOMAIN new = DOMAIN list /\ Len(new) = Len(list)
         /\ new[i].pool = pool /\ new[i].name = list[i].name /\ new[i].size = list[i].size
         /\ \A k \in DOMAIN list : k # i => new[k] = list[k]
  <1> DEFINE z == [list[i] EXCEPT !.pool = pool]
  <1>1. list[i] \in Zones
    OBVIOUS
  <1>2. z \in Zones /\ z.pool = pool /\ z.name = list[i].name /\ z.size = list[i].size
    BY <1>1 DEF Zones
  <1>3. new = [list EXCEPT ![i] = z]
    OBVIOUS
  <1> HIDE DEF z
  <1>4. new \in Seq(Zones) /\ DOMAIN new = DOMAIN list /\ Len(new) = Len(list)
    BY <1>2, <1>3
  <1>5. new[i] = z /\ \A k \in DOMAIN list : k # i => new[k] = list[k]
    BY <1>3
  <1> QED BY <1>2, <1>4, <1>5

\* Giving its pool to a zone without one adds the pool to those of the list.
LEMMA PoolAdded ==
  ASSUME NEW list, NEW new, DOMAIN new = DOMAIN list, NEW i \in DOMAIN list, NEW pool,
         list[i].pool = 0, pool # 0, new[i].pool = pool,
         \A k \in DOMAIN list : k # i => new[k] = list[k]
  PROVE  PoolsOf(new) \ {0} = (PoolsOf(list) \ {0}) \cup {pool}
  <1>1. ASSUME NEW p \in PoolsOf(new) \ {0}
        PROVE  p \in (PoolsOf(list) \ {0}) \cup {pool}
    <2>1. PICK k \in DOMAIN new : p = new[k].pool
      BY <1>1 DEF PoolsOf
    <2> QED BY <2>1, <1>1 DEF PoolsOf
  <1>2. ASSUME NEW p \in PoolsOf(list) \ {0}
        PROVE  p \in PoolsOf(new) \ {0}
    <2>1. PICK k \in DOMAIN list : p = list[k].pool
      BY <1>2 DEF PoolsOf
    <2>2. k # i
      BY <2>1, <1>2
    <2> QED BY <2>1, <2>2, <1>2 DEF PoolsOf
  <1>3. pool \in PoolsOf(new) \ {0}
    BY DEF PoolsOf
  <1> QED BY <1>1, <1>2, <1>3

LEMMA InitInv == Init => IInv
  <1> SUFFICES ASSUME Init PROVE IInv
    OBVIOUS
  <1>1. TypeOK
    <2>1. 0 \in 0 .. MaxPools
      BY ZoneAssumption
    <2>2. pools \subseteq 1 .. made /\ made \in 0 .. MaxPools
      BY <2>1 DEF Init
    <2>3. pc \in {"stopped", "parse", "init", "run"} /\ running \in BOOLEAN /\ several \in BOOLEAN
      BY DEF Init
    <2>4. zones \in Seq(Zones) /\ next_zones \in Seq(Zones) /\ tree \in Trees /\ next_tree \in Trees
      BY Empty DEF Init
    <2> QED BY <2>2, <2>3, <2>4 DEF TypeOK
  <1>2. PoolsHeld
    BY Empty DEF Init, PoolsHeld
  <1>3. Phases /\ Allocated
    BY DEF Init, Phases, Allocated
  <1>4. One /\ KeptTree
    BY Empty DEF Init, One, KeptTree, Kept, FirstPool
  <1> QED BY <1>1, <1>2, <1>3, <1>4 DEF IInv

LEMMA ReadInv == IInv /\ Read => IInv'
  BY DEF Read, IInv, TypeOK, PoolsHeld, PoolsOf, Phases, Allocated, One, KeptTree, Kept, FirstPool

LEMMA ParsedInv == IInv /\ Parsed => IInv'
  BY DEF Parsed, IInv, TypeOK, PoolsHeld, PoolsOf, Phases, Allocated, One, KeptTree, Kept,
     FirstPool

LEMMA StopInv == IInv /\ Stop => IInv'
  <1> SUFFICES ASSUME IInv, Stop PROVE IInv'
    OBVIOUS
  <1>1. next_zones = <<>> /\ next_tree = NoTree
    BY DEF IInv, Phases, Stop
  <1>2. TypeOK'
    BY Empty DEF IInv, TypeOK, Stop
  <1>3. PoolsHeld'
    BY Empty, <1>1 DEF Stop, PoolsHeld, PoolsOf
  <1>4. Phases' /\ Allocated'
    BY <1>1 DEF Stop, Phases, Allocated
  <1>5. One' /\ KeptTree'
    BY Empty, <1>1 DEF Stop, One, KeptTree, Kept, FirstPool, NoTree
  <1> QED BY <1>2, <1>3, <1>4, <1>5 DEF IInv

LEMMA RejectInv == IInv /\ pc \in {"parse", "init"} /\ Reject => IInv'
  BY ZoneAssumption DEF Reject, IInv, TypeOK, PoolsHeld, PoolsOf, Phases, Allocated, One,
     KeptTree, Kept, FirstPool, NoTree, Trees, Zones

LEMMA ZoneInv ==
  ASSUME NEW name \in Names, NEW size \in Sizes, IInv, Zone(name, size)
  PROVE  IInv'
  <1> DEFINE z == [name |-> name, size |-> size, pool |-> 0]
  <1>1. /\ next_zones' = Append(next_zones, z) /\ next_zones \in Seq(Zones)
        /\ pc = "parse" /\ UNCHANGED <<pc, running, zones, tree, next_tree, pools, made, several>>
    BY DEF Zone, IInv, TypeOK
  <1>2. z \in Zones
    BY ZoneAssumption DEF Zones
  <1>3. /\ next_zones' \in Seq(Zones) /\ Len(next_zones') = Len(next_zones) + 1
        /\ \A i \in DOMAIN next_zones' :
             next_zones'[i] = IF i = Len(next_zones) + 1 THEN z ELSE next_zones[i]
        /\ DOMAIN next_zones' = 1 .. Len(next_zones) + 1
    BY <1>1, <1>2
  <1>4. \A i \in DOMAIN next_zones : i \in DOMAIN next_zones' /\ i # Len(next_zones) + 1
    BY <1>1, <1>3
  <1>5. \A i \in DOMAIN next_zones' : next_zones'[i].pool = 0
    <2> SUFFICES ASSUME NEW i \in DOMAIN next_zones' PROVE next_zones'[i].pool = 0
      OBVIOUS
    <2>1. CASE i = Len(next_zones) + 1
      BY <2>1, <1>3
    <2>2. CASE i # Len(next_zones) + 1
      <3>1. i \in DOMAIN next_zones
        BY <2>2, <1>1, <1>3
      <3> QED BY <3>1, <2>2, <1>1, <1>3 DEF IInv, Phases
    <2> QED BY <2>1, <2>2
  <1>6. TypeOK'
    BY <1>1, <1>3 DEF IInv, TypeOK
  <1>7. PoolsOf(next_zones') \subseteq {0} /\ PoolsOf(next_zones) \subseteq {0}
    BY <1>1, <1>5 DEF PoolsOf, IInv, Phases
  <1>8. PoolsHeld'
    <2>1. PoolsOf(next_zones') \ {0} = PoolsOf(next_zones) \ {0}
      BY <1>7
    <2> QED BY <2>1, <1>1 DEF IInv, PoolsHeld, PoolsOf
  <1>9. Phases' /\ Allocated'
    BY <1>1, <1>5 DEF IInv, Phases, Allocated
  <1>10. FirstPool(next_zones') = 0 /\ next_zones'[1].pool = 0
    BY <1>1, <1>3, <1>5 DEF FirstPool
  <1>11. One' /\ KeptTree'
    BY <1>1, <1>10 DEF IInv, Phases, One, KeptTree, Kept, NoTree, FirstPool
  <1> QED BY <1>6, <1>8, <1>9, <1>11 DEF IInv

LEMMA InitZoneInv ==
  ASSUME NEW i \in DOMAIN next_zones, IInv, InitZone(i)
  PROVE  IInv'
  <1> USE ZoneAssumption
  <1>1. PICK pool \in (IF Reused(next_zones[i]) # {}
                       THEN {zones[j].pool : j \in Reused(next_zones[i])} ELSE {made + 1}) :
          /\ pool \in pools \/ made < MaxPools
          /\ made' = IF pool \in pools THEN made ELSE made + 1
          /\ pools' = pools \cup {pool}
          /\ next_zones' = [next_zones EXCEPT ![i].pool = pool]
          /\ next_tree' = TreeOf(i, pool)
    BY DEF InitZone
  <1>2. /\ pc = "init" /\ UNCHANGED <<pc, running, zones, tree, several>>
        /\ next_zones[i].pool = 0 /\ \A j \in DOMAIN next_zones : Due(j) => i <= j
    BY DEF InitZone, First, Due
  <1>3. /\ zones \in Seq(Zones) /\ next_zones \in Seq(Zones) /\ pools \subseteq 1 .. made
        /\ made \in 0 .. MaxPools /\ tree \in Trees /\ MaxPools \in Nat
    BY DEF IInv, TypeOK
  <1>4. CASE Reused(next_zones[i]) # {}
    <2>1. PICK j \in Reused(next_zones[i]) : pool = zones[j].pool
      BY <1>1, <1>4
    <2>2. /\ j \in DOMAIN zones /\ zones[j].name = next_zones[i].name
          /\ zones[j].size = next_zones[i].size
      BY <2>1 DEF Reused
    <2>3. pool \in pools
      BY <2>1, <2>2 DEF IInv, PoolsHeld, PoolsOf
    <2> QED
      <3>1. pool \in 1 .. made /\ made' = made /\ next_tree' = tree /\ pools' = pools
        BY <2>3, <1>1, <1>3, <1>4 DEF TreeOf
      <3>2. running /\ zones # <<>>
        BY <2>2, <1>3 DEF IInv, Phases
      <3>3. /\ next_zones' \in Seq(Zones) /\ DOMAIN next_zones' = DOMAIN next_zones
            /\ Len(next_zones') = Len(next_zones) /\ next_zones'[i].pool = pool
            /\ \A k \in DOMAIN next_zones : k # i => next_zones'[k] = next_zones[k]
        <4>1. pool \in 0 .. MaxPools
          BY <1>3, <3>1
        <4> QED BY <4>1, <1>1, <1>3, SetPool
      <3>4. TypeOK'
        BY <1>2, <1>3, <3>1, <3>3 DEF IInv, TypeOK
      <3>5. next_zones'[i].pool = pool
        BY <3>3
      <3>6. \A k \in DOMAIN next_zones : k # i => next_zones'[k] = next_zones[k]
        BY <3>3
      <3>7. PoolsOf(next_zones') \ {0} = (PoolsOf(next_zones) \ {0}) \cup {pool}
        <4>1. pool # 0 /\ next_zones[i].pool = 0 /\ DOMAIN next_zones' = DOMAIN next_zones
          BY <3>1, <3>3, <1>2, <1>3
        <4> QED BY <4>1, <3>5, <3>6, PoolAdded
      <3>8. PoolsHeld'
        BY <3>7, <3>1, <2>3, <1>2 DEF IInv, PoolsHeld, PoolsOf
      <3>9. Phases' /\ Allocated'
        BY <1>2, <3>2 DEF IInv, Phases, Allocated
      <3>10. ASSUME ~several, Len(next_zones) <= 1
             PROVE  next_tree.pool' = FirstPool(next_zones')
        <4>1. i = 1 /\ next_zones # <<>> /\ next_zones' # <<>>
          BY <3>10, <3>3, <1>3
        <4>2. Len(zones) <= 1 /\ tree.pool = FirstPool(zones)
          BY <3>10 DEF IInv, One
        <4>3. j = 1
          BY <4>2, <2>2, <1>3
        <4> QED BY <4>1, <4>2, <4>3, <3>1, <3>2, <3>5, <2>1 DEF FirstPool
      <3>11. One'
        BY <3>10, <3>3, <1>2 DEF IInv, One, FirstPool
      <3>12. KeptTree'
        BY <3>1, <1>2 DEF KeptTree
      <3> QED BY <3>4, <3>8, <3>9, <3>11, <3>12 DEF IInv
  <1>5. CASE Reused(next_zones[i]) = {}
    <2>1. pool = made + 1 /\ pool \notin pools /\ made < MaxPools /\ made' = made + 1
      BY <1>1, <1>3, <1>5
    <2>2. pool \in 1 .. made' /\ made' \in 0 .. MaxPools /\ pools' \subseteq 1 .. made'
      BY <2>1, <1>1, <1>3
    <2>3. next_tree' = [pool |-> pool, serial |-> made + 1] /\ next_tree' \in Trees
      BY <2>1, <2>2, <1>1, <1>5 DEF TreeOf, NewTree, Trees
    <2>4. /\ next_zones' \in Seq(Zones) /\ DOMAIN next_zones' = DOMAIN next_zones
          /\ Len(next_zones') = Len(next_zones) /\ next_zones'[i].pool = pool
          /\ next_zones'[i].name = next_zones[i].name /\ next_zones'[i].size = next_zones[i].size
          /\ \A k \in DOMAIN next_zones : k # i => next_zones'[k] = next_zones[k]
      <3>1. pool \in 0 .. MaxPools
        BY <1>3, <2>2
      <3>2. next_zones \in Seq(Zones) /\ next_zones' = [next_zones EXCEPT ![i].pool = pool]
        BY <1>1, <1>3
      <3> QED BY <3>1, <3>2, SetPool
    <2>5. TypeOK'
      BY <1>2, <1>3, <2>2, <2>3, <2>4 DEF IInv, TypeOK
    <2>6. next_zones'[i].pool = pool /\ pool # 0
      BY <2>1, <2>2, <2>4, <1>3
    <2>7. \A k \in DOMAIN next_zones : k # i => next_zones'[k] = next_zones[k]
      BY <2>4
    <2>8. PoolsOf(next_zones') \ {0} = (PoolsOf(next_zones) \ {0}) \cup {pool}
      <3>1. next_zones[i].pool = 0 /\ DOMAIN next_zones' = DOMAIN next_zones
        BY <2>4, <1>2
      <3> QED BY <3>1, <2>6, <2>7, PoolAdded
    <2>9. PoolsHeld'
      BY <2>8, <1>1, <1>2 DEF IInv, PoolsHeld, PoolsOf
    <2>10. Phases' /\ Allocated'
      BY <1>2 DEF IInv, Phases, Allocated
    <2>11. ASSUME Len(next_zones) <= 1 PROVE i = 1 /\ next_zones' # <<>>
      BY <2>11, <2>4, <1>3
    <2>12. One'
      BY <2>11, <2>3, <2>4, <2>6, <1>2 DEF IInv, One, FirstPool
    <2>13. ASSUME Len(next_zones) <= 1, zones # <<>>
           PROVE  next_zones'[1].name # zones[1].name \/ next_zones'[1].size # zones[1].size
      <3>1. next_zones'[1].name = next_zones[i].name /\ next_zones'[1].size = next_zones[i].size
        BY <2>13, <2>11, <2>4
      <3>2. 1 \in DOMAIN zones
        BY <2>13, <1>3
      <3> QED BY <3>1, <3>2, <1>5 DEF Reused
    <2>14. KeptTree'
      BY <2>13, <2>4, <1>2 DEF KeptTree, Kept
    <2> QED BY <2>5, <2>9, <2>10, <2>12, <2>14 DEF IInv
  <1> QED BY <1>4, <1>5

LEMMA TakeOverInv == IInv /\ TakeOver => IInv'
  <1> SUFFICES ASSUME IInv, TakeOver PROVE IInv'
    OBVIOUS
  <1>1. /\ pc = "init" /\ pc' = "run" /\ running' /\ zones' = next_zones /\ tree' = next_tree
        /\ next_zones' = <<>> /\ next_tree' = NoTree /\ pools' = pools \cap PoolsOf(next_zones)
        /\ several' = (several \/ Len(next_zones) > 1) /\ made' = made
    BY DEF TakeOver, NextPools
  <1>2. \A i \in DOMAIN next_zones : next_zones[i].pool # 0
    BY DEF TakeOver, Due
  <1>3. TypeOK'
    BY <1>1, Empty DEF IInv, TypeOK
  <1>4. PoolsOf(<<>>) = {} /\ PoolsOf(next_zones) \subseteq pools
    BY <1>2 DEF PoolsOf, IInv, PoolsHeld
  <1>5. PoolsHeld'
    BY <1>1, <1>4 DEF PoolsHeld, PoolsOf
  <1>6. Phases' /\ Allocated'
    BY <1>1, <1>2 DEF IInv, Phases, Allocated
  <1>7. One' /\ KeptTree'
    <2>1. Len(next_zones) \in Nat /\ FirstPool(<<>>) = 0
      BY DEF IInv, TypeOK, FirstPool
    <2>2. KeptTree'
      BY <1>1 DEF KeptTree, Kept
    <2>3. ASSUME ~several'
          PROVE  Len(next_zones) <= 1 /\ next_tree.pool = FirstPool(next_zones)
      <3>1. ~several /\ ~(Len(next_zones) > 1)
        BY <2>3, <1>1, Zenon
      <3>2. Len(next_zones) <= 1
        BY <3>1, <2>1
      <3> QED BY <3>1, <3>2 DEF IInv, One
    <2>4. Len(<<>>) = 0 /\ Len(<<>>) <= 1 /\ FirstPool(next_zones') = 0 /\ next_tree'.pool = 0
      BY <1>1, <2>1, Empty
    <2>5. One'
      BY <2>3, <2>4, <1>1 DEF One, FirstPool
    <2> QED BY <2>2, <2>5
  <1> QED BY <1>3, <1>5, <1>6, <1>7 DEF IInv

LEMMA StepInv == IInv /\ [Next]_vars => IInv'
  <1> SUFFICES ASSUME IInv, [Next]_vars PROVE IInv'
    OBVIOUS
  <1>1. CASE Read
    BY <1>1, ReadInv
  <1>2. ASSUME NEW name \in Names, NEW size \in Sizes, Zone(name, size) PROVE IInv'
    BY <1>2, ZoneInv
  <1>3. CASE ZoneRefused
    BY <1>3, RejectInv DEF ZoneRefused
  <1>4. CASE Parsed
    BY <1>4, ParsedInv
  <1>5. ASSUME NEW i \in DOMAIN next_zones, InitZone(i) PROVE IInv'
    BY <1>5, InitZoneInv
  <1>6. ASSUME NEW i \in DOMAIN next_zones, InitZoneFailed(i) PROVE IInv'
    BY <1>6, RejectInv DEF InitZoneFailed
  <1>7. CASE TakeOver
    BY <1>7, TakeOverInv
  <1>8. CASE Stop
    BY <1>8, StopInv
  <1>9. CASE UNCHANGED vars
    BY <1>9 DEF vars, IInv, TypeOK, PoolsHeld, PoolsOf, Phases, Allocated, One, KeptTree, Kept,
       FirstPool
  <1> QED BY <1>1, <1>2, <1>3, <1>4, <1>5, <1>6, <1>7, <1>8, <1>9 DEF Next

\* The state of the zone's life is always of its type.
THEOREM TypeCorrect == Spec => []TypeOK
  <1>1. IInv => TypeOK
    BY DEF IInv
  <1> QED BY <1>1, InitInv, StepInv, PTL DEF Spec

\* Over reloads and rejected configurations (the cycle of nginx around init_zone) the
\* pools allocated are those in use: none is used after it was freed and none leaks.
THEOREM PoolsHeldAlways == Spec => []PoolsHeld
  <1>1. IInv => PoolsHeld
    BY DEF IInv
  <1> QED BY <1>1, InitInv, StepInv, PTL DEF Spec

\* With one zone at a time, the tree that init_zone leaves in the main configuration is
\* in the zone whose mutex its users take.
THEOREM TreeInZoneAlways == Spec => []TreeInZone
  <1>1. IInv => TreeInZone
    BY DEF IInv, TypeOK, One, FirstPool, TreeInZone
  <1> QED BY <1>1, InitInv, StepInv, PTL DEF Spec

\* With one zone at a time, a reload that keeps its name and size keeps the tree.
THEOREM ReloadKeepsTreeAlways == Spec => ReloadKeepsTree
  <1>1. ASSUME IInv, [Next]_vars PROVE [ReloadKeeps]_vars
    <2>1. CASE TakeOver
      <3>1. /\ zones' = next_zones /\ tree' = next_tree
            /\ several' = (several \/ Len(next_zones) > 1)
            /\ \A i \in DOMAIN next_zones : next_zones[i].pool # 0
        BY <2>1 DEF TakeOver, Due
      <3>2. next_zones \in Seq(Zones)
        BY <1>1 DEF IInv, TypeOK
      <3>3. next_zones # <<>> => 1 \in DOMAIN next_zones
        BY <3>2
      <3>4. ASSUME ~several', zones # <<>>, zones' # <<>>,
                   zones'[1].name = zones[1].name, zones'[1].size = zones[1].size
            PROVE  tree' = tree
        <4>1. ~several /\ ~(Len(next_zones) > 1)
          BY <3>4, <3>1, Zenon
        <4>2. Len(next_zones) \in Nat
          BY <3>2
        <4>3. Len(next_zones) <= 1
          BY <4>1, <4>2
        <4>4. Kept
          BY <3>4, <3>1, <3>3 DEF Kept
        <4> QED BY <4>1, <4>3, <4>4, <3>1, <1>1 DEF IInv, KeptTree
      <3> QED BY <3>4 DEF ReloadKeeps
    <2>2. CASE Stop
      BY <2>2 DEF Stop, ReloadKeeps
    <2>3. CASE UNCHANGED <<zones, tree>>
      BY <2>3 DEF ReloadKeeps
    <2>4. CASE UNCHANGED vars
      BY <2>4 DEF vars
    <2> QED
      BY <1>1, <2>1, <2>2, <2>3, <2>4
      DEF Next, Read, Zone, ZoneRefused, Reject, Parsed, InitZone, InitZoneFailed
  <1> QED BY <1>1, InitInv, StepInv, PTL DEF Spec, ReloadKeepsTree
=============================================================================
