---------------------------- MODULE VtsShmProofs ----------------------------
(***************************************************************************)
(* Theorems about VtsShm, for every set of workers, locations, keys and    *)
(* slots, every hash function and every bound: the structure of the zone,  *)
(* then what it counts.                                                    *)
(*                                                                         *)
(* The invariant is Inv, a conjunction of the parts below; each part is    *)
(* preserved under the parts named in its lemma.                           *)
(***************************************************************************)
EXTENDS VtsShm, SequenceTheorems, FiniteSetTheorems, TLAPS

\* A worker past "idle" has a key to add.
HasKey == \A w \in Workers : pc[w] # "idle" => todo[w] # <<>>

\* A worker about to insert has allocated a slot.
HasSlot == \A w \in Workers : pc[w] = "insert" => slot[w] \in Slots

TypeInv == TypeOK /\ HasKey /\ HasSlot

\* A linked node carries the hash of its key.
HashInv == \A a \in rbtree : shm[a].key \in Keys /\ shm[a].hash = HashOf[shm[a].key]

\* What a worker between find and insert relies on: nobody has linked its key
\* meanwhile, and the slot it allocated is still out of the tree.
PendingInv ==
  \A w \in Workers :
    /\ pc[w] \in {"alloc", "insert"} /\ Head(todo[w]) \notin LongKeys =>
         \A a \in rbtree : shm[a].key # Head(todo[w])
    /\ pc[w] = "insert" => slot[w] \in slab \ rbtree

-----------------------------------------------------------------------------
(* What the operators return *)

LEMMA LookupFacts ==
  ASSUME NEW k
  PROVE  \/ /\ Lookup(k) \in rbtree
            /\ shm[Lookup(k)].hash = HashOf[k] /\ shm[Lookup(k)].key = k
            /\ k \notin LongKeys
         \/ /\ Lookup(k) = Null
            /\ \A a \in rbtree :
                 ~(shm[a].hash = HashOf[k] /\ shm[a].key = k /\ k \notin LongKeys)
BY DEF Lookup

LEMMA FindFacts ==
  ASSUME TypeOK, NEW w \in Workers, NEW l \in Locs, NEW k \in Keys
  PROVE  /\ FindNode(w, l, k) \in Slots \cup {Null}
         /\ FindNode(w, l, k) = Null =>
              \A a \in rbtree :
                ~(shm[a].hash = HashOf[k] /\ shm[a].key = k /\ k \notin LongKeys)
         /\ FindNode(w, l, k) # Null => shm[FindNode(w, l, k)].hash = HashOf[k]
<1>1. TypeOf[k] \in Groups
  BY KeyAssumption
<1>2. node_caches[w][l][TypeOf[k]] \in Slots \cup {Null}
  BY <1>1 DEF TypeOK
<1>3. rbtree \subseteq Slots /\ Null \notin Slots
  BY NullAssumption DEF TypeOK
<1>4. CASE CacheHit(w, l, k)
  BY <1>2, <1>4 DEF FindNode, CacheHit
<1>5. CASE ~CacheHit(w, l, k)
  BY <1>3, <1>5, LookupFacts DEF FindNode
<1> QED
  BY <1>4, <1>5

LEMMA HeadTail ==
  ASSUME NEW s \in Seq(Keys), s # <<>>
  PROVE  /\ Head(s) \in Keys /\ Tail(s) \in Seq(Keys)
         /\ Len(s) # 1 => Tail(s) # <<>>
<1>1. Head(s) \in Keys /\ Tail(s) \in Seq(Keys) /\ Len(Tail(s)) = Len(s) - 1
  BY HeadTailProperties
<1>2. Len(s) \in Nat \ {0}
  BY EmptySeq
<1>3. Len(<<>>) = 0
  BY EmptySeq
<1> QED
  BY <1>1, <1>2, <1>3

\* What the end of a shm_add_node leaves in the variables of the workers.
LEMMA ReturnType ==
  ASSUME TypeInv, NEW w \in Workers, pc[w] \in Critical, Return(w)
  PROVE  /\ pc' \in [Workers -> {"idle", "lock"} \cup Critical]
         /\ todo' \in [Workers -> Seq(Keys)]
         /\ slot' \in [Workers -> Slots \cup {Null}]
         /\ loc' = loc /\ now' = now
         /\ HasKey' /\ HasSlot'
<1>1. todo[w] \in Seq(Keys) /\ todo[w] # <<>>
  BY DEF TypeInv, TypeOK, HasKey, Critical
<1>2. Tail(todo[w]) \in Seq(Keys) /\ (Len(todo[w]) # 1 => Tail(todo[w]) # <<>>)
  BY <1>1, HeadTail
<1>3. pc' \in [Workers -> {"idle", "lock"} \cup Critical] /\ todo' \in [Workers -> Seq(Keys)]
  BY <1>2 DEF Return, TypeInv, TypeOK
<1>4. HasKey'
  BY <1>2 DEF Return, TypeInv, TypeOK, HasKey
<1>5. HasSlot'
  BY DEF Return, TypeInv, TypeOK, HasSlot
<1> QED
  BY <1>3, <1>4, <1>5 DEF Return, TypeInv, TypeOK

LEMMA HeadKey ==
  ASSUME TypeInv, NEW w \in Workers, pc[w] # "idle"
  PROVE  Head(todo[w]) \in Keys /\ TypeOf[Head(todo[w])] \in Groups
BY HeadTail, KeyAssumption DEF TypeInv, TypeOK, HasKey

LEMMA CacheType ==
  ASSUME TypeOK, NEW w \in Workers, NEW l \in Locs, NEW g \in Groups,
         NEW a \in Slots \cup {Null}, SetCache(w, l, g, a)
  PROVE  node_caches' \in [Workers -> [Locs -> [Groups -> Slots \cup {Null}]]]
BY DEF TypeOK, SetCache

LEMMA UnlinkType ==
  ASSUME TypeOK, NEW D, Unlink(D)
  PROVE  rbtree' \subseteq Slots /\ slab' \subseteq Slots /\ shm' \in [Slots -> NodeRec]
<1>1. PICK Z \in SUBSET D :
        shm' = [a \in Slots |-> IF a \in Z THEN [shm[a] EXCEPT !.hash = 0] ELSE shm[a]]
  BY DEF Unlink
<1>2. \A a \in Slots : [shm[a] EXCEPT !.hash = 0] \in NodeRec
  BY DEF TypeOK, NodeRec
<1> QED
  BY <1>1, <1>2 DEF TypeOK, Unlink

-----------------------------------------------------------------------------
(* Type correctness *)

LEMMA TypeInit == Init => TypeInv
<1> SUFFICES ASSUME Init PROVE TypeInv
  OBVIOUS
<1> USE DEF Init
<1>1. <<>> \in Seq(Keys)
  BY EmptySeq
<1>2. hist \in [due : [Keys -> Nat], requests : Nat, controls : Nat,
                removed : {0, 1}, crashes : Nat, oom : Nat]
  OBVIOUS
<1>3. node_caches \in [Workers -> [Locs -> [Groups -> Slots \cup {Null}]]]
  BY DEF EmptyCaches
<1>4. shm \in [Slots -> NodeRec]
  BY DEF NodeRec
<1> QED
  BY <1>1, <1>2, <1>3, <1>4 DEF TypeInv, TypeOK, HasKey, HasSlot

HistType == [due : [Keys -> Nat], requests : Nat, controls : Nat,
             removed : {0, 1}, crashes : Nat, oom : Nat]

LEMMA TypeStep == TypeInv /\ [Next]_vars => TypeInv'
<1> SUFFICES ASSUME TypeInv, [Next]_vars PROVE TypeInv'
  OBVIOUS
<1> USE NullAssumption
<1>0. TypeOK /\ HasKey /\ HasSlot /\ hist \in HistType
  BY DEF TypeInv, TypeOK, HistType
<1>1. CASE Tick
  BY <1>0, <1>1 DEF Tick, TypeInv, TypeOK, HasKey, HasSlot
<1>2. ASSUME NEW w \in Workers, LogRequest(w) PROVE TypeInv'
  <2>1. hist' \in HistType
    BY <1>0, <1>2 DEF LogRequest, HistType
  <2>2. HasKey' /\ HasSlot'
    BY <1>0, <1>2, RequestAssumption DEF LogRequest, HasKey, HasSlot, TypeOK
  <2>3. PICK l \in Locs, ks \in Requests : /\ loc' = [loc EXCEPT ![w] = l]
                                           /\ todo' = [todo EXCEPT ![w] = ks]
    BY <1>2 DEF LogRequest
  <2>4. /\ loc' \in [Workers -> Locs] /\ todo' \in [Workers -> Seq(Keys)]
        /\ pc' \in [Workers -> {"idle", "lock"} \cup Critical]
    BY <1>0, <1>2, <2>3, RequestAssumption DEF LogRequest, TypeOK
  <2> QED
    BY <1>0, <1>2, <2>1, <2>2, <2>4 DEF LogRequest, TypeInv, TypeOK, HistType
<1>3. ASSUME NEW w \in Workers, AddLock(w) PROVE TypeInv'
  BY <1>0, <1>3 DEF AddLock, TypeInv, TypeOK, HasKey, HasSlot, Critical
<1>4. ASSUME NEW w \in Workers, AddFound(w) PROVE TypeInv'
  <2> DEFINE k == Head(todo[w])
             a == FindNode(w, loc[w], k)
  <2>1. k \in Keys /\ TypeOf[k] \in Groups /\ loc[w] \in Locs
    BY <1>0, <1>4, HeadKey DEF AddFound, TypeOK
  <2>2. a \in Slots
    BY <1>0, <1>4, <2>1, FindFacts DEF AddFound
  <2>3. shm' \in [Slots -> NodeRec]
    <3>1. shm' = [shm EXCEPT ![a] = [shm[a] EXCEPT !.count = @ + 1, !.time = now]]
      BY <1>0, <1>4, <2>2 DEF AddFound, TypeOK
    <3>2. shm[a] \in NodeRec /\ shm[a].count + 1 \in Nat /\ now \in Nat
      BY <1>0, <2>2 DEF TypeOK, NodeRec
    <3>3. [shm[a] EXCEPT !.count = @ + 1, !.time = now] \in NodeRec
      BY <3>2 DEF NodeRec
    <3> QED
      BY <1>0, <3>1, <3>3 DEF TypeOK
  <2>4. hist' \in HistType
    <3>1. hist' = [hist EXCEPT !.due[k] = @ + 1]
      BY <1>4 DEF AddFound
    <3> QED
      BY <1>0, <2>1, <3>1 DEF HistType
  <2>5. node_caches' \in [Workers -> [Locs -> [Groups -> Slots \cup {Null}]]]
    BY <1>0, <1>4, <2>1, <2>2, CacheType DEF AddFound
  <2> QED
    BY <1>0, <1>4, <2>3, <2>4, <2>5, ReturnType
       DEF AddFound, TypeInv, TypeOK, HistType, Critical
<1>5. ASSUME NEW w \in Workers, AddEvict(w) PROVE TypeInv'
  <2>1. hist' \in HistType
    BY <1>0, <1>5 DEF AddEvict, HistType
  <2>2. rbtree' \subseteq Slots /\ slab' \subseteq Slots /\ shm' \in [Slots -> NodeRec]
    BY <1>0, <1>5, UnlinkType DEF AddEvict, TypeOK
  <2> QED
    BY <1>0, <1>5, <2>1, <2>2 DEF AddEvict, TypeInv, TypeOK, HistType, HasKey, HasSlot, Critical
<1>6. ASSUME NEW w \in Workers, AddEvictOom(w) PROVE TypeInv'
  <2>1. hist' \in HistType
    BY <1>0, <1>6 DEF AddEvictOom, HistType
  <2> QED
    BY <1>0, <1>6, <2>1 DEF AddEvictOom, TypeInv, TypeOK, HistType, HasKey, HasSlot, Critical
<1>7. ASSUME NEW w \in Workers, AddAlloc(w) PROVE TypeInv'
  BY <1>0, <1>7 DEF AddAlloc, TypeInv, TypeOK, HasKey, HasSlot, Critical
<1>8. ASSUME NEW w \in Workers, AddAllocFailed(w) PROVE TypeInv'
  BY <1>0, <1>8, ReturnType DEF AddAllocFailed, TypeInv, TypeOK, Critical
<1>9. ASSUME NEW w \in Workers, AddAllocLeak(w) PROVE TypeInv'
  <2>1. hist' \in HistType
    BY <1>0, <1>9 DEF AddAllocLeak, HistType
  <2> QED
    BY <1>0, <1>9, <2>1, ReturnType DEF AddAllocLeak, TypeInv, TypeOK, HistType, Critical
<1>10. ASSUME NEW w \in Workers, AddInsert(w) PROVE TypeInv'
  <2> DEFINE k == Head(todo[w])
             a == slot[w]
  <2>1. k \in Keys /\ TypeOf[k] \in Groups /\ loc[w] \in Locs
    BY <1>0, <1>10, HeadKey DEF AddInsert, TypeOK
  <2>2. a \in Slots
    BY <1>0, <1>10 DEF AddInsert, HasSlot
  <2>3. shm' \in [Slots -> NodeRec]
    <3>1. shm' = [shm EXCEPT ![a] = [key |-> k, hash |-> HashOf[k], count |-> 1, time |-> now]]
      BY <1>10 DEF AddInsert
    <3>2. [key |-> k, hash |-> HashOf[k], count |-> 1, time |-> now] \in NodeRec
      BY <1>0, <2>1, KeyAssumption DEF TypeOK, NodeRec
    <3> QED
      BY <1>0, <3>1, <3>2 DEF TypeOK
  <2>4. hist' \in HistType
    <3>1. hist' = [hist EXCEPT !.due[k] = 1]
      BY <1>10 DEF AddInsert
    <3> QED
      BY <1>0, <2>1, <3>1 DEF HistType
  <2>5. node_caches' \in [Workers -> [Locs -> [Groups -> Slots \cup {Null}]]]
    BY <1>0, <1>10, <2>1, <2>2, CacheType DEF AddInsert
  <2> QED
    BY <1>0, <1>10, <2>2, <2>3, <2>4, <2>5, ReturnType
       DEF AddInsert, TypeInv, TypeOK, HistType, Critical
<1>11. ASSUME NEW w \in Workers, NEW l \in Locs, NEW k \in Keys, NodeVariable(w, l, k)
       PROVE TypeInv'
  <2>1. FindNode(w, l, k) \in Slots \cup {Null} /\ "NO" \in Groups
    BY <1>0, FindFacts DEF Groups
  <2>2. node_caches' \in [Workers -> [Locs -> [Groups -> Slots \cup {Null}]]]
    BY <1>0, <1>11, <2>1, CacheType DEF NodeVariable
  <2> QED
    BY <1>0, <1>11, <2>2 DEF NodeVariable, TypeInv, TypeOK, HasKey, HasSlot
<1>12. ASSUME NEW w \in Workers, NEW l \in Locs, NEW k \in Keys, LimitTraffic(w, l, k)
       PROVE TypeInv'
  <2>1. FindNode(w, l, k) \in Slots \cup {Null} /\ TypeOf[k] \in Groups
    BY <1>0, FindFacts, KeyAssumption
  <2>2. node_caches' \in [Workers -> [Locs -> [Groups -> Slots \cup {Null}]]]
    BY <1>0, <1>12, <2>1, CacheType DEF LimitTraffic
  <2> QED
    BY <1>0, <1>12, <2>2 DEF LimitTraffic, TypeInv, TypeOK, HasKey, HasSlot
<1>13. ASSUME NEW w \in Workers, Delete(w) PROVE TypeInv'
  <2>1. PICK D \in Ranges : /\ Control(w, D) /\ Unlink(D)
                            /\ hist' = [hist EXCEPT !.controls = @ + 1, !.removed = 1]
    BY <1>13 DEF Delete
  <2>2. hist' \in HistType
    <3>1. hist.controls + 1 \in Nat
      BY <1>0 DEF HistType
    <3> QED
      BY <1>0, <2>1, <3>1 DEF HistType
  <2>3. rbtree' \subseteq Slots /\ slab' \subseteq Slots /\ shm' \in [Slots -> NodeRec]
    BY <1>0, <2>1, UnlinkType
  <2> QED
    BY <1>0, <2>1, <2>2, <2>3 DEF Control, TypeInv, TypeOK, HistType, HasKey, HasSlot
<1>14. ASSUME NEW w \in Workers, Reset(w) PROVE TypeInv'
  <2>1. PICK D \in Ranges :
          /\ Control(w, D)
          /\ shm' = [a \in Slots |-> IF a \in D THEN [shm[a] EXCEPT !.count = 0] ELSE shm[a]]
          /\ hist' = [hist EXCEPT !.controls = @ + 1,
                                  !.due = [k \in Keys |-> IF \E a \in D : shm[a].key = k
                                                          THEN 0 ELSE @[k]]]
          /\ UNCHANGED <<rbtree, slab>>
    BY <1>14 DEF Reset
  <2>2. hist' \in HistType
    <3>1. hist.controls + 1 \in Nat
      BY <1>0 DEF HistType
    <3> DEFINE d == [k \in Keys |-> IF \E a \in D : shm[a].key = k THEN 0 ELSE hist.due[k]]
    <3>2. d \in [Keys -> Nat]
      BY <1>0 DEF HistType
    <3>3. hist' = [hist EXCEPT !.controls = @ + 1, !.due = d]
      BY <2>1
    <3> HIDE DEF d
    <3> QED
      BY <1>0, <3>1, <3>2, <3>3 DEF HistType
  <2>3. \A a \in Slots : [shm[a] EXCEPT !.count = 0] \in NodeRec
    <3>1. \A r \in NodeRec : [r EXCEPT !.count = 0] \in NodeRec
      BY DEF NodeRec
    <3> QED
      BY <1>0, <3>1 DEF TypeOK
  <2>4. shm' \in [Slots -> NodeRec]
    BY <1>0, <2>1, <2>3 DEF TypeOK
  <2> QED
    BY <1>0, <2>1, <2>2, <2>4 DEF Control, TypeInv, TypeOK, HistType, HasKey, HasSlot
<1>15. ASSUME NEW w \in Workers, Crash(w) PROVE TypeInv'
  <2>1. hist' \in HistType
    BY <1>0, <1>15 DEF Crash, HistType
  <2>2. EmptyCaches \in [Locs -> [Groups -> Slots \cup {Null}]]
    BY DEF EmptyCaches
  <2>3. <<>> \in Seq(Keys)
    BY EmptySeq
  <2> QED
    BY <1>0, <1>15, <2>1, <2>2, <2>3 DEF Crash, TypeInv, TypeOK, HistType, HasKey, HasSlot
<1>16. CASE UNCHANGED vars
  BY <1>0, <1>16 DEF vars, TypeInv, TypeOK, HasKey, HasSlot
<1> QED
  BY <1>1, <1>2, <1>3, <1>4, <1>5, <1>6, <1>7, <1>8, <1>9, <1>10, <1>11, <1>12,
     <1>13, <1>14, <1>15, <1>16 DEF Next, Step, AddNode

(* The zone, the caches and the workers' states keep their types: no step, a
   crash included, leaves a pointer that is neither a slot nor NULL. *)
THEOREM TypeCorrect == Spec => []TypeOK
<1>1. Spec => []TypeInv
  BY TypeInit, TypeStep, PTL DEF Spec
<1> QED
  BY <1>1, PTL DEF TypeInv

-----------------------------------------------------------------------------
(* Mutual exclusion *)

LEMMA MutexStep == TypeInv /\ Mutex /\ [Next]_vars => Mutex'
<1> SUFFICES ASSUME TypeInv, Mutex, [Next]_vars PROVE Mutex'
  OBVIOUS
<1> USE NullAssumption DEF Mutex, Critical
<1>0. pc \in [Workers -> {"idle", "lock"} \cup Critical]
  BY DEF TypeInv, TypeOK
<1>1. ASSUME NEW w \in Workers, AddNode(w) PROVE Mutex'
  <2>1. CASE AddFound(w) \/ AddAllocFailed(w) \/ AddAllocLeak(w) \/ AddInsert(w)
    BY <1>0, <2>1 DEF AddFound, AddAllocFailed, AddAllocLeak, AddInsert, Return
  <2>2. CASE AddEvict(w) \/ AddEvictOom(w) \/ AddAlloc(w)
    BY <1>0, <2>2 DEF AddEvict, AddEvictOom, AddAlloc
  <2> QED
    BY <1>1, <2>1, <2>2 DEF AddNode
<1>2. ASSUME NEW w \in Workers, LogRequest(w) \/ AddLock(w) \/ Crash(w) PROVE Mutex'
  BY <1>0, <1>2 DEF LogRequest, AddLock, Crash
<1>3. ASSUME NEW w \in Workers, NEW l \in Locs, NEW k \in Keys,
             NodeVariable(w, l, k) \/ LimitTraffic(w, l, k)
      PROVE Mutex'
  BY <1>3 DEF NodeVariable, LimitTraffic
<1>4. ASSUME NEW w \in Workers, Delete(w) \/ Reset(w) PROVE Mutex'
  BY <1>4 DEF Delete, Reset, Control
<1>5. CASE Tick \/ UNCHANGED vars
  BY <1>5 DEF Tick, vars
<1> QED
  BY <1>1, <1>2, <1>3, <1>4, <1>5 DEF Next, Step

(* Two workers are never inside shm_add_node's critical section at once, for
   any number of workers, crashes and exhausted pools. *)
THEOREM MutualExclusion == Spec => []Mutex
<1>1. Init => Mutex
  BY DEF Init, Mutex, Critical
<1> QED
  BY <1>1, TypeInit, TypeStep, MutexStep, PTL DEF Spec

-----------------------------------------------------------------------------
(* One node per key, and the slab *)

TreeInv == HashInv /\ PendingInv /\ UniqueNodes /\ SlabAccounted

\* While a worker is inside, or a command runs, nobody else is inside.
LEMMA Alone ==
  ASSUME Mutex, NEW w \in Workers, pc[w] \in Critical \/ mutex = Null
  PROVE  \A v \in Workers \ {w} : pc[v] \notin Critical
BY NullAssumption DEF Mutex

\* Linked nodes that keep their key and hash, and no new ones.
LEMMA FewerNodes ==
  ASSUME HashInv, UniqueNodes, rbtree' \subseteq rbtree,
         \A a \in rbtree' : shm'[a].key = shm[a].key /\ shm'[a].hash = shm[a].hash
  PROVE  HashInv' /\ UniqueNodes'
BY DEF HashInv, UniqueNodes

\* What unlinking leaves of the nodes that stay.
LEMMA UnlinkFacts ==
  ASSUME TypeOK, NEW D, Unlink(D)
  PROVE  /\ rbtree' = rbtree \ D /\ slab' = slab \ D
         /\ \A a \in rbtree' : shm'[a] = shm[a]
BY DEF Unlink, TypeOK

\* A step after which worker w has nothing pending, and the tree, the slab and
\* the keys stay.
LEMMA OthersPending ==
  ASSUME PendingInv, SlabAccounted, NEW w \in Workers,
         rbtree' = rbtree, slab' = slab, hist'.crashes = hist.crashes,
         \A a \in rbtree : shm'[a].key = shm[a].key,
         pc[w] # "insert", pc'[w] \notin {"alloc", "insert"},
         \A v \in Workers \ {w} : pc'[v] = pc[v] /\ todo'[v] = todo[v] /\ slot'[v] = slot[v]
  PROVE  PendingInv' /\ SlabAccounted'
<1>1. PendingInv'
  <2> SUFFICES ASSUME NEW v \in Workers, pc'[v] \in {"alloc", "insert"}
               PROVE  /\ Head(todo'[v]) \notin LongKeys =>
                           \A a \in rbtree' : shm'[a].key # Head(todo'[v])
                      /\ pc'[v] = "insert" => slot'[v] \in slab' \ rbtree'
    BY DEF PendingInv
  <2>1. pc'[v] = pc[v] /\ todo'[v] = todo[v] /\ slot'[v] = slot[v]
    OBVIOUS
  <2> QED
    BY <2>1 DEF PendingInv
<1>2. SlabAccounted'
  <2> SUFFICES ASSUME hist'.crashes = 0, NEW a \in slab \ rbtree
               PROVE  \E v \in Workers : pc'[v] = "insert" /\ slot'[v] = a
    BY DEF SlabAccounted
  <2>1. PICK v \in Workers : pc[v] = "insert" /\ slot[v] = a
    BY DEF SlabAccounted
  <2> QED
    BY <2>1
<1> QED
  BY <1>1, <1>2

LEMMA TreeStep == TypeInv /\ TypeInv' /\ Mutex /\ TreeInv /\ [Next]_vars => TreeInv'
<1> SUFFICES ASSUME TypeInv, TypeInv', Mutex, TreeInv, [Next]_vars PROVE TreeInv'
  OBVIOUS
<1>0. TypeOK /\ HashInv /\ PendingInv /\ UniqueNodes /\ SlabAccounted
  BY DEF TypeInv, TreeInv
<1>1. ASSUME NEW w \in Workers, AddFound(w) PROVE TreeInv'
  <2> DEFINE a == FindNode(w, loc[w], Head(todo[w]))
  <2>1. /\ rbtree' = rbtree /\ slab' = slab /\ hist'.crashes = hist.crashes
        /\ pc[w] = "find" /\ pc'[w] # "insert" /\ pc'[w] # "alloc"
        /\ \A v \in Workers \ {w} : pc'[v] = pc[v] /\ todo'[v] = todo[v] /\ slot'[v] = slot[v]
    BY <1>0, <1>1 DEF AddFound, Return, TypeOK
  <2>2. \A b \in Slots : shm'[b].key = shm[b].key /\ shm'[b].hash = shm[b].hash
    BY <1>0, <1>1 DEF AddFound, TypeOK, NodeRec
  <2>3. HashInv' /\ UniqueNodes'
    BY <1>0, <2>1, <2>2, FewerNodes DEF TypeOK
  <2>4. PendingInv' /\ SlabAccounted'
    BY <1>0, <2>1, <2>2, OthersPending DEF TypeOK
  <2> QED
    BY <2>3, <2>4 DEF TreeInv
<1>2. ASSUME NEW w \in Workers, AddEvict(w) \/ AddEvictOom(w) PROVE TreeInv'
  <2> DEFINE k == Head(todo[w])
  <2>1. /\ pc[w] = "find" /\ pc' = [pc EXCEPT ![w] = "alloc"]
        /\ FindNode(w, loc[w], k) = Null
        /\ todo' = todo /\ slot' = slot /\ hist'.crashes = hist.crashes
    BY <1>0, <1>2 DEF AddEvict, AddEvictOom, TypeOK
  <2>2. PICK D : rbtree' = rbtree \ D /\ slab' = slab \ D /\ \A a \in rbtree' : shm'[a] = shm[a]
    <3>1. CASE \E v \in LruNodes : Unlink({v})
      BY <1>0, <3>1, UnlinkFacts
    <3>2. CASE UNCHANGED <<rbtree, slab, shm>>
      <4>1. rbtree' = rbtree \ {} /\ slab' = slab \ {}
        BY <3>2
      <4> QED
        BY <3>2, <4>1
    <3> QED
      BY <1>2, <3>1, <3>2 DEF AddEvict, AddEvictOom
  <2>3. HashInv' /\ UniqueNodes'
    BY <1>0, <2>2, FewerNodes
  <2>4. k \notin LongKeys => \A a \in rbtree : shm[a].key # k
    <3>1. k \in Keys /\ loc[w] \in Locs
      BY <1>0, <2>1, HeadKey DEF TypeOK
    <3> QED
      BY <1>0, <2>1, <3>1, FindFacts DEF HashInv
  <2>5. \A v \in Workers \ {w} : pc[v] \notin Critical
    BY <2>1, Alone DEF Critical
  <2>6. PendingInv'
    BY <1>0, <2>1, <2>2, <2>4, <2>5 DEF PendingInv, Critical, TypeOK
  <2>7. SlabAccounted'
    BY <1>0, <2>1, <2>2 DEF SlabAccounted, TypeOK
  <2> QED
    BY <2>3, <2>6, <2>7 DEF TreeInv
<1>3. ASSUME NEW w \in Workers, AddAlloc(w) PROVE TreeInv'
  <2>1. PICK a \in Slots \ slab : slab' = slab \cup {a} /\ slot' = [slot EXCEPT ![w] = a]
    BY <1>3 DEF AddAlloc
  <2>2. HashInv' /\ UniqueNodes'
    BY <1>0, <1>3, FewerNodes DEF AddAlloc
  <2>3. PendingInv' /\ SlabAccounted'
    BY <1>0, <1>3, <2>1 DEF AddAlloc, PendingInv, SlabAccounted, TypeOK
  <2> QED
    BY <2>2, <2>3 DEF TreeInv
<1>4. ASSUME NEW w \in Workers, AddAllocFailed(w) \/ AddAllocLeak(w) PROVE TreeInv'
  <2>1. /\ rbtree' = rbtree /\ slab' = slab /\ shm' = shm /\ hist'.crashes = hist.crashes
        /\ pc[w] = "alloc" /\ pc'[w] # "insert" /\ pc'[w] # "alloc"
        /\ \A v \in Workers \ {w} : pc'[v] = pc[v] /\ todo'[v] = todo[v] /\ slot'[v] = slot[v]
    BY <1>0, <1>4 DEF AddAllocFailed, AddAllocLeak, Return, TypeOK
  <2>2. HashInv' /\ UniqueNodes'
    BY <1>0, <2>1, FewerNodes
  <2>3. PendingInv' /\ SlabAccounted'
    BY <1>0, <2>1, OthersPending
  <2> QED
    BY <2>2, <2>3 DEF TreeInv
<1>5. ASSUME NEW w \in Workers, AddInsert(w) PROVE TreeInv'
  <2> DEFINE k == Head(todo[w])
             a == slot[w]
  <2>1. /\ pc[w] = "insert" /\ pc'[w] # "insert" /\ pc'[w] # "alloc"
        /\ rbtree' = rbtree \cup {a} /\ slab' = slab /\ hist'.crashes = hist.crashes
        /\ \A v \in Workers \ {w} : pc'[v] = pc[v] /\ todo'[v] = todo[v] /\ slot'[v] = slot[v]
    BY <1>0, <1>5 DEF AddInsert, Return, TypeOK
  <2>2. k \in Keys /\ a \in Slots /\ a \in slab \ rbtree
    BY <1>0, <2>1, HeadKey DEF TypeInv, HasSlot, PendingInv
  <2>3. /\ shm'[a].key = k /\ shm'[a].hash = HashOf[k]
        /\ \A b \in rbtree : shm'[b] = shm[b]
    BY <1>0, <1>5, <2>2 DEF AddInsert, TypeOK
  <2>4. \A v \in Workers \ {w} : pc[v] \notin Critical
    BY <2>1, Alone DEF Critical
  <2>5. HashInv'
    BY <1>0, <2>1, <2>2, <2>3 DEF HashInv
  <2>6. UniqueNodes'
    BY <1>0, <2>1, <2>2, <2>3 DEF UniqueNodes, PendingInv
  <2>7. PendingInv'
    BY <2>1, <2>4 DEF PendingInv, Critical
  <2>8. SlabAccounted'
    BY <1>0, <2>1, <2>2 DEF SlabAccounted
  <2> QED
    BY <2>5, <2>6, <2>7, <2>8 DEF TreeInv
<1>6. ASSUME NEW w \in Workers, LogRequest(w) \/ AddLock(w) PROVE TreeInv'
  <2>1. /\ rbtree' = rbtree /\ slab' = slab /\ shm' = shm /\ slot' = slot
        /\ hist'.crashes = hist.crashes
        /\ pc[w] # "insert" /\ pc'[w] # "insert" /\ pc'[w] # "alloc"
        /\ \A v \in Workers \ {w} : pc'[v] = pc[v] /\ todo'[v] = todo[v]
    BY <1>0, <1>6 DEF LogRequest, AddLock, TypeOK
  <2>2. HashInv' /\ UniqueNodes'
    BY <1>0, <2>1, FewerNodes
  <2>3. PendingInv' /\ SlabAccounted'
    BY <1>0, <2>1, OthersPending
  <2> QED
    BY <2>2, <2>3 DEF TreeInv
<1>7. ASSUME NEW w \in Workers, Delete(w) PROVE TreeInv'
  <2>1. PICK D \in Ranges : /\ Control(w, D) /\ Unlink(D)
                            /\ hist' = [hist EXCEPT !.controls = @ + 1, !.removed = 1]
    BY <1>7 DEF Delete
  <2>2. rbtree' = rbtree \ D /\ slab' = slab \ D /\ \A a \in rbtree' : shm'[a] = shm[a]
    BY <1>0, <2>1, UnlinkFacts
  <2>3. HashInv' /\ UniqueNodes'
    BY <1>0, <2>2, FewerNodes
  <2>4. \A v \in Workers : pc[v] \notin Critical
    BY <2>1, Alone DEF Control, Critical
  <2>5. PendingInv'
    BY <2>1, <2>4 DEF PendingInv, Critical, Control
  <2>6. SlabAccounted'
    BY <1>0, <2>1, <2>2 DEF SlabAccounted, Control, TypeOK
  <2> QED
    BY <2>3, <2>5, <2>6 DEF TreeInv
<1>8. ASSUME NEW w \in Workers, Reset(w) PROVE TreeInv'
  <2>1. /\ rbtree' = rbtree /\ slab' = slab /\ pc' = pc /\ todo' = todo /\ slot' = slot
        /\ \A a \in Slots : shm'[a].key = shm[a].key /\ shm'[a].hash = shm[a].hash
    BY <1>0, <1>8 DEF Reset, Control, TypeOK, NodeRec
  <2>2. hist'.crashes = hist.crashes
    BY <1>0, <1>8 DEF Reset, TypeOK
  <2>3. HashInv' /\ UniqueNodes'
    BY <1>0, <2>1, FewerNodes DEF TypeOK
  <2>4. PendingInv' /\ SlabAccounted'
    BY <1>0, <2>1, <2>2 DEF PendingInv, SlabAccounted, TypeOK
  <2> QED
    BY <2>3, <2>4 DEF TreeInv
<1>9. ASSUME NEW w \in Workers, Crash(w) PROVE TreeInv'
  <2>1. /\ rbtree' = rbtree /\ slab' = slab /\ shm' = shm /\ pc'[w] = "idle"
        /\ \A v \in Workers \ {w} : pc'[v] = pc[v] /\ todo'[v] = todo[v] /\ slot'[v] = slot[v]
    BY <1>0, <1>9 DEF Crash, TypeOK
  <2>2. hist'.crashes # 0
    <3>1. hist.crashes \in Nat /\ hist'.crashes = hist.crashes + 1
      BY <1>0, <1>9 DEF Crash, TypeOK
    <3> QED
      BY <3>1
  <2>3. HashInv' /\ UniqueNodes'
    BY <1>0, <2>1, FewerNodes
  <2>4. PendingInv' /\ SlabAccounted'
    BY <1>0, <2>1, <2>2 DEF PendingInv, SlabAccounted
  <2> QED
    BY <2>3, <2>4 DEF TreeInv
<1>10. ASSUME UNCHANGED <<rbtree, slab, shm, pc, todo, slot, hist>> PROVE TreeInv'
  BY <1>0, <1>10 DEF TreeInv, HashInv, PendingInv, UniqueNodes, SlabAccounted
<1>11. ASSUME NEW w \in Workers, NEW l \in Locs, NEW k \in Keys,
              NodeVariable(w, l, k) \/ LimitTraffic(w, l, k)
       PROVE TreeInv'
  BY <1>10, <1>11 DEF NodeVariable, LimitTraffic
<1>12. CASE Tick \/ UNCHANGED vars
  BY <1>10, <1>12 DEF Tick, vars
<1> QED
  BY <1>1, <1>2, <1>3, <1>4, <1>5, <1>6, <1>7, <1>8, <1>9, <1>11, <1>12
     DEF Next, Step, AddNode

LEMMA TreeInit == Init => TreeInv
BY DEF Init, TreeInv, HashInv, PendingInv, UniqueNodes, SlabAccounted

LEMMA TreeInvariant == Spec => [](TypeInv /\ Mutex /\ TreeInv)
<1>1. Init => Mutex
  BY DEF Init, Mutex, Critical
<1> QED
  BY <1>1, TypeInit, TypeStep, MutexStep, TreeInit, TreeStep, PTL DEF Spec

(* No key below 256 bytes ever has two nodes, in spite of the caches that skip
   the lookup, of colliding hashes and of workers that die half way. *)
THEOREM OneNodePerKey == Spec => []UniqueNodes
<1>1. TreeInv => UniqueNodes
  BY DEF TreeInv
<1> QED
  BY <1>1, TreeInvariant, PTL

(* No linked node is ever free, and without crashes no chunk is lost. *)
THEOREM SlabMatchesTree == Spec => []SlabAccounted
<1>1. TreeInv => SlabAccounted
  BY DEF TreeInv
<1> QED
  BY <1>1, TreeInvariant, PTL

-----------------------------------------------------------------------------
(* The bound on the filter nodes *)

\* A worker past the eviction has room for one more node.
Room(w) == pc[w] \in {"alloc", "insert"} =>
             Cardinality(FilterNodes) + 1 <= filter_max_node + hist.oom

FilterInv == FilterBound /\ (filter_max_node > 0 => \A w \in Workers : Room(w))

LEMMA FilterFinite ==
  ASSUME TypeOK
  PROVE  IsFiniteSet(FilterNodes) /\ Cardinality(FilterNodes) \in Nat
<1>1. FilterNodes \subseteq Slots
  BY DEF FilterNodes, TypeOK
<1>2. IsFiniteSet(FilterNodes)
  BY <1>1, SlotAssumption, FS_Subset
<1> QED
  BY <1>2, FS_CardinalityType

\* The nodes that stay keep their keys, and no node is added.
LEMMA FilterShrinks ==
  ASSUME TypeOK, rbtree' \subseteq rbtree, \A a \in rbtree' : shm'[a].key = shm[a].key
  PROVE  FilterNodes' \subseteq FilterNodes /\ Cardinality(FilterNodes') <= Cardinality(FilterNodes)
<1>1. FilterNodes' \subseteq FilterNodes
  BY DEF FilterNodes
<1> QED
  BY <1>1, FilterFinite, FS_Subset

LEMMA FilterStep ==
  TypeInv /\ TypeInv' /\ Mutex /\ TreeInv /\ FilterInv /\ [Next]_vars => FilterInv'
<1> SUFFICES ASSUME TypeInv, TypeInv', Mutex, TreeInv, FilterInv, [Next]_vars,
                    filter_max_node > 0
             PROVE  /\ Cardinality(FilterNodes') <= filter_max_node + hist'.oom
                    /\ \A w \in Workers : Room(w)'
  BY DEF FilterInv, FilterBound
<1> DEFINE N == Cardinality(FilterNodes)
           Goal == /\ Cardinality(FilterNodes') <= filter_max_node + hist'.oom
                   /\ \A w \in Workers : Room(w)'
<1>0. /\ TypeOK /\ TypeOK' /\ hist.oom \in Nat /\ hist'.oom \in Nat
      /\ N <= filter_max_node + hist.oom /\ \A w \in Workers : Room(w)
      /\ filter_max_node \in Nat
  BY NumberAssumption DEF TypeInv, TypeOK, FilterInv, FilterBound
<1>c. /\ N \in Nat /\ IsFiniteSet(FilterNodes)
      /\ Cardinality(FilterNodes') \in Nat
  <2>1. IsFiniteSet(FilterNodes') /\ Cardinality(FilterNodes') \in Nat
    <3>1. FilterNodes' \subseteq Slots
      BY <1>0 DEF FilterNodes, TypeOK
    <3> QED
      BY <3>1, SlotAssumption, FS_Subset, FS_CardinalityType
  <2> QED
    BY <1>0, <2>1, FilterFinite
\* Steps that add no node, count no more exhaustion than they meet, and put no
\* worker past the eviction.
<1>a. ASSUME rbtree' \subseteq rbtree, \A a \in rbtree' : shm'[a].key = shm[a].key,
             hist'.oom >= hist.oom,
             \A w \in Workers : pc'[w] \in {"alloc", "insert"} => pc[w] \in {"alloc", "insert"}
      PROVE  Goal
  <2>1. Cardinality(FilterNodes') <= N
    BY <1>0, <1>a, FilterShrinks
  <2>2. ASSUME NEW w \in Workers, pc'[w] \in {"alloc", "insert"}
        PROVE  Cardinality(FilterNodes') + 1 <= filter_max_node + hist'.oom
    <3>1. N + 1 <= filter_max_node + hist.oom
      BY <1>0, <1>a, <2>2 DEF Room
    <3> QED
      BY <1>0, <1>a, <1>c, <2>1, <3>1
  <2>3. Cardinality(FilterNodes') <= filter_max_node + hist'.oom
    BY <1>0, <1>a, <1>c, <2>1
  <2> QED
    BY <2>2, <2>3 DEF Room
<1>1. ASSUME NEW w \in Workers, AddFound(w) PROVE Goal
  <2>1. rbtree' = rbtree /\ \A a \in rbtree' : shm'[a].key = shm[a].key
    BY <1>0, <1>1 DEF AddFound, TypeOK, NodeRec
  <2>2. hist'.oom = hist.oom
    BY <1>0, <1>1 DEF AddFound, TypeOK
  <2>3. \A v \in Workers : pc'[v] \in {"alloc", "insert"} => pc[v] \in {"alloc", "insert"}
    BY <1>0, <1>1 DEF AddFound, Return, TypeOK
  <2> QED
    BY <1>0, <1>a, <2>1, <2>2, <2>3
<1>2. ASSUME NEW w \in Workers, AddEvict(w) PROVE Goal
  <2>1. pc' = [pc EXCEPT ![w] = "alloc"] /\ hist'.oom = hist.oom /\ pc[w] = "find"
    BY <1>0, <1>2 DEF AddEvict, TypeOK
  <2>2. Cardinality(FilterNodes') + 1 <= filter_max_node + hist.oom
    <3>1. CASE LruDue
      <4>1. PICK v \in LruNodes : Unlink({v})
        BY <1>2, <3>1 DEF AddEvict
      <4>2. FilterNodes' \subseteq FilterNodes \ {v}
        BY <1>0, <4>1, UnlinkFacts DEF FilterNodes
      <4>3. v \in FilterNodes
        BY <4>1 DEF LruNodes
      <4>4. Cardinality(FilterNodes \ {v}) = N - 1 /\ IsFiniteSet(FilterNodes \ {v})
        BY <1>c, <4>3, FS_RemoveElement
      <4>5. Cardinality(FilterNodes') <= N - 1
        BY <4>2, <4>4, FS_Subset
      <4> QED
        BY <1>0, <1>c, <4>5
    <3>2. CASE ~LruDue
      <4>1. UNCHANGED <<rbtree, shm>>
        BY <1>2, <3>2 DEF AddEvict
      <4>2. FilterNodes' = FilterNodes
        BY <4>1 DEF FilterNodes
      <4>3. N < filter_max_node
        BY <1>0, <1>c, <3>2 DEF LruDue
      <4> QED
        BY <1>0, <1>c, <4>2, <4>3
    <3> QED
      BY <3>1, <3>2
  <2> QED
    BY <1>0, <1>c, <2>1, <2>2 DEF Room
<1>3. ASSUME NEW w \in Workers, AddEvictOom(w) PROVE Goal
  <2>1. hist'.oom = hist.oom + 1
    BY <1>0, <1>3 DEF AddEvictOom, TypeOK
  <2>2. FilterNodes' = FilterNodes
    BY <1>3 DEF AddEvictOom, FilterNodes
  <2>3. Cardinality(FilterNodes') + 1 <= filter_max_node + hist'.oom
    BY <1>0, <1>c, <2>1, <2>2
  <2> QED
    BY <1>0, <1>c, <2>3 DEF Room
<1>4. ASSUME NEW w \in Workers, AddAlloc(w) \/ AddAllocFailed(w) PROVE Goal
  BY <1>0, <1>4, <1>a DEF AddAlloc, AddAllocFailed, Return, TypeOK
<1>5. ASSUME NEW w \in Workers, AddAllocLeak(w) PROVE Goal
  <2>1. hist'.oom >= hist.oom
    BY <1>0, <1>5 DEF AddAllocLeak, TypeOK
  <2> QED
    BY <1>0, <1>5, <1>a, <2>1 DEF AddAllocLeak, Return, TypeOK
<1>6. ASSUME NEW w \in Workers, AddInsert(w) PROVE Goal
  <2>1. /\ pc[w] = "insert" /\ pc'[w] \notin {"alloc", "insert"} /\ hist'.oom = hist.oom
        /\ rbtree' = rbtree \cup {slot[w]}
        /\ \A v \in Workers \ {w} : pc'[v] = pc[v]
    BY <1>0, <1>6 DEF AddInsert, Return, TypeOK
  <2>2. \A b \in rbtree : b # slot[w] => shm'[b] = shm[b]
    BY <1>0, <1>6 DEF AddInsert, TypeOK
  <2>3. FilterNodes' \subseteq FilterNodes \cup {slot[w]}
    BY <2>1, <2>2 DEF FilterNodes
  <2>4. Cardinality(FilterNodes') <= N + 1
    <3>0. /\ IsFiniteSet(FilterNodes \cup {slot[w]})
          /\ Cardinality(FilterNodes \cup {slot[w]}) =
               IF slot[w] \in FilterNodes THEN Cardinality(FilterNodes)
                                          ELSE Cardinality(FilterNodes) + 1
      BY <1>c, FS_AddElement, Zenon
    <3>1. /\ IsFiniteSet(FilterNodes \cup {slot[w]})
          /\ Cardinality(FilterNodes \cup {slot[w]}) <= N + 1
      BY <1>c, <3>0
    <3>2. /\ Cardinality(FilterNodes') <= Cardinality(FilterNodes \cup {slot[w]})
          /\ Cardinality(FilterNodes \cup {slot[w]}) \in Nat
      BY <2>3, <3>1, FS_Subset, FS_CardinalityType
    <3> QED
      BY <1>c, <3>1, <3>2
  <2>5. N + 1 <= filter_max_node + hist.oom
    BY <1>0, <2>1 DEF Room
  <2>6. \A v \in Workers : pc'[v] \notin {"alloc", "insert"}
    <3>1. \A v \in Workers \ {w} : pc[v] \notin Critical
      BY <2>1, Alone DEF Critical
    <3> QED
      BY <2>1, <3>1 DEF Critical
  <2>7. Cardinality(FilterNodes') <= filter_max_node + hist'.oom
    BY <1>0, <1>c, <2>1, <2>4, <2>5
  <2> QED
    BY <2>6, <2>7 DEF Room
<1>7. ASSUME NEW w \in Workers, LogRequest(w) \/ AddLock(w) PROVE Goal
  <2>1. hist'.oom = hist.oom /\ rbtree' = rbtree /\ shm' = shm
    BY <1>0, <1>7 DEF LogRequest, AddLock, TypeOK
  <2>2. \A v \in Workers : pc'[v] \in {"alloc", "insert"} => pc[v] \in {"alloc", "insert"}
    BY <1>0, <1>7 DEF LogRequest, AddLock, TypeOK
  <2> QED
    BY <1>0, <1>a, <2>1, <2>2
<1>8. ASSUME NEW w \in Workers, Delete(w) PROVE Goal
  <2>1. PICK D \in Ranges : /\ Control(w, D) /\ Unlink(D)
                            /\ hist' = [hist EXCEPT !.controls = @ + 1, !.removed = 1]
    BY <1>8 DEF Delete
  <2>2. rbtree' \subseteq rbtree /\ \A a \in rbtree' : shm'[a] = shm[a]
    BY <1>0, <2>1, UnlinkFacts
  <2>3. hist'.oom = hist.oom /\ pc' = pc
    BY <1>0, <2>1 DEF Control, TypeOK
  <2> QED
    BY <1>0, <1>a, <2>2, <2>3
<1>9. ASSUME NEW w \in Workers, Reset(w) PROVE Goal
  <2>1. \A a \in Slots : shm'[a].key = shm[a].key
    <3>1. TypeOK
      BY <1>0
    <3> QED
      BY <1>9, <3>1 DEF Reset, Control, TypeOK, NodeRec
  <2>2. rbtree' = rbtree /\ pc' = pc /\ rbtree' \subseteq Slots
    BY <1>0, <1>9 DEF Reset, Control, TypeOK
  <2>3. hist'.oom = hist.oom
    BY <1>0, <1>9 DEF Reset, TypeOK
  <2> QED
    BY <1>0, <1>a, <2>1, <2>2, <2>3
<1>10. ASSUME NEW w \in Workers, Crash(w) PROVE Goal
  BY <1>0, <1>10, <1>a DEF Crash, TypeOK
<1>11. ASSUME NEW w \in Workers, NEW l \in Locs, NEW k \in Keys,
              NodeVariable(w, l, k) \/ LimitTraffic(w, l, k)
       PROVE Goal
  BY <1>0, <1>11, <1>a DEF NodeVariable, LimitTraffic
<1>12. CASE Tick \/ UNCHANGED vars
  BY <1>0, <1>12, <1>a DEF Tick, vars
<1> QED
  BY <1>1, <1>2, <1>3, <1>4, <1>5, <1>6, <1>7, <1>8, <1>9, <1>10, <1>11, <1>12
     DEF Next, Step, AddNode

LEMMA FilterInit == Init => FilterInv
<1> SUFFICES ASSUME Init PROVE FilterInv
  OBVIOUS
<1>1. FilterNodes = {} /\ hist.oom = 0
  BY DEF Init, FilterNodes
<1>2. Cardinality(FilterNodes) = 0
  BY <1>1, FS_EmptySet
<1> QED
  BY <1>1, <1>2, NumberAssumption DEF Init, FilterInv, FilterBound, Room

(* filter_max_node bounds the nodes it matches for any number of workers: the
   eviction and the insertion are two steps of one critical section, and only
   a request pool exhausted in between lets a node in without an eviction. *)
THEOREM FilterNodesBounded == Spec => []FilterBound
<1>1. FilterInv => FilterBound
  BY DEF FilterInv
<1> QED
  BY <1>1, TypeInit, TypeStep, TreeInvariant, FilterInit, FilterStep, PTL DEF Spec

-----------------------------------------------------------------------------
(* What a counter says *)

\* NeverOvercounts and ExactUntilRemoval without their hypothesis on the hash.
AtMostDue == \A a \in rbtree : shm[a].key \notin LongKeys => shm[a].count <= hist.due[shm[a].key]
ExactlyDue == \A a \in rbtree : shm[a].key \notin LongKeys => shm[a].count = hist.due[shm[a].key]

CachesLinked ==
  \A w \in Workers, l \in Locs, g \in Groups : node_caches[w][l][g] \in rbtree \cup {Null}

\* What the steps that count nothing preserve: nodes and the number due to
\* them only go, and the caches and the number of removals go with them.
LEMMA CountsKept ==
  ASSUME NeverOvercounts, ExactUntilRemoval, TypeOK,
         rbtree' \subseteq rbtree, hist'.due = hist.due,
         \A a \in rbtree' : shm'[a].key = shm[a].key /\ shm'[a].count = shm[a].count,
         hist'.removed = 0 => hist.removed = 0 /\ rbtree' = rbtree /\ CachesLinked'
  PROVE  NeverOvercounts' /\ ExactUntilRemoval'
<1>1. NeverOvercounts'
  BY DEF NeverOvercounts
<1>2. ExactUntilRemoval'
  BY DEF ExactUntilRemoval, CachesLinked
<1> QED
  BY <1>1, <1>2

LEMMA CachesSet ==
  ASSUME TypeOK, CachesLinked, NEW w \in Workers, NEW l \in Locs, NEW g \in Groups,
         NEW a \in rbtree' \cup {Null}, SetCache(w, l, g, a), rbtree \subseteq rbtree'
  PROVE  CachesLinked'
BY DEF TypeOK, CachesLinked, SetCache

\* Until something is removed, what find_node returns is a node of the tree.
LEMMA FindLinked ==
  ASSUME TypeOK, CachesLinked, NEW w \in Workers, NEW l \in Locs, NEW k \in Keys
  PROVE  FindNode(w, l, k) \in rbtree \cup {Null}
<1>1. TypeOf[k] \in Groups
  BY KeyAssumption
<1> QED
  BY <1>1, LookupFacts DEF CachesLinked, FindNode, CacheHit

LEMMA CountStep ==
  /\ TypeInv /\ Mutex /\ TreeInv /\ NeverOvercounts /\ ExactUntilRemoval /\ [Next]_vars
  => NeverOvercounts' /\ ExactUntilRemoval'
<1> DEFINE Goal == NeverOvercounts' /\ ExactUntilRemoval'
<1> SUFFICES ASSUME TypeInv, Mutex, TreeInv, NeverOvercounts, ExactUntilRemoval, [Next]_vars
             PROVE  Goal
  OBVIOUS
<1>0. /\ TypeOK /\ HashInv /\ PendingInv /\ UniqueNodes
      /\ (hist.removed = 0 => CachesLinked)
      /\ hist \in HistType
  BY DEF TypeInv, TreeInv, ExactUntilRemoval, CachesLinked, TypeOK, HistType
<1>e. /\ InjectiveHash => AtMostDue
      /\ hist.removed = 0 /\ InjectiveHash => ExactlyDue
  BY DEF NeverOvercounts, ExactUntilRemoval, AtMostDue, ExactlyDue
<1>f. ASSUME InjectiveHash => AtMostDue',
             hist'.removed = 0 /\ InjectiveHash => ExactlyDue',
             hist'.removed = 0 => CachesLinked'
      PROVE  Goal
  BY <1>f DEF NeverOvercounts, ExactUntilRemoval, AtMostDue, ExactlyDue, CachesLinked
<1>k. ASSUME UNCHANGED <<rbtree, shm>>, hist'.due = hist.due, hist'.removed = hist.removed,
             hist.removed = 0 => CachesLinked'
      PROVE  Goal
  BY <1>0, <1>k, CountsKept
<1>1. ASSUME NEW w \in Workers, AddFound(w) PROVE Goal
  <2> DEFINE k == Head(todo[w])
             a == FindNode(w, loc[w], k)
  <2>1. k \in Keys /\ TypeOf[k] \in Groups /\ loc[w] \in Locs
    BY <1>0, <1>1, HeadKey DEF AddFound, TypeOK
  <2>2. a \in Slots /\ shm[a].hash = HashOf[k]
    BY <1>0, <1>1, <2>1, FindFacts DEF AddFound
  <2>3. a \in rbtree /\ InjectiveHash => shm[a].key = k
    BY <1>0, <2>1, <2>2 DEF HashInv, InjectiveHash
  <2>4. /\ rbtree' = rbtree /\ hist'.removed = hist.removed
        /\ \A b \in Slots : shm'[b].key = shm[b].key
        /\ \A b \in Slots \ {a} : shm'[b].count = shm[b].count
        /\ shm'[a].count = shm[a].count + 1
    BY <1>0, <1>1, <2>2 DEF AddFound, TypeOK, NodeRec
  <2>5. hist'.due = [hist.due EXCEPT ![k] = @ + 1]
    <3>1. hist' = [hist EXCEPT !.due[k] = @ + 1]
      BY <1>1 DEF AddFound
    <3> QED
      BY <1>0, <3>1 DEF HistType
  <2>6. hist.due \in [Keys -> Nat] /\ rbtree \subseteq Slots /\ \A b \in Slots : shm[b].count \in Nat
    BY <1>0 DEF HistType, TypeOK, NodeRec
  <2> HIDE DEF k, a
  <2>7. InjectiveHash => AtMostDue'
    BY <1>0, <1>e, <2>1, <2>2, <2>3, <2>4, <2>5, <2>6 DEF AtMostDue, HashInv
  <2>8. hist'.removed = 0 => CachesLinked'
    <3>1. SetCache(w, loc[w], TypeOf[k], a)
      BY <1>1 DEF AddFound, k, a
    <3>2. hist.removed = 0 => a \in rbtree \cup {Null}
      BY <1>0, <2>1, FindLinked DEF a
    <3> QED
      BY <1>0, <2>1, <2>4, <3>1, <3>2, CachesSet
  <2>9. hist'.removed = 0 /\ InjectiveHash => ExactlyDue'
    <3>1. hist.removed = 0 => a \in rbtree
      BY <1>0, <2>1, <2>2, FindLinked, NullAssumption DEF a
    <3>2. \A b \in rbtree \ {a} :
            hist.removed = 0 /\ InjectiveHash /\ shm[b].key \notin LongKeys => shm[b].key # k
      BY <1>0, <2>3, <3>1 DEF UniqueNodes
    <3> QED
      BY <1>0, <1>e, <2>1, <2>2, <2>3, <2>4, <2>5, <2>6, <3>1, <3>2 DEF ExactlyDue, HashInv
  <2> QED
    BY <1>f, <2>7, <2>8, <2>9
<1>2. ASSUME NEW w \in Workers, AddEvict(w) PROVE Goal
  <2>1. CASE LruDue
    <3>1. PICK v \in LruNodes : Unlink({v})
      BY <1>2, <2>1 DEF AddEvict
    <3>2. rbtree' \subseteq rbtree /\ \A a \in rbtree' : shm'[a] = shm[a]
      BY <1>0, <3>1, UnlinkFacts
    <3>3. hist'.due = hist.due /\ hist'.removed = 1
      BY <1>0, <1>2, <2>1 DEF AddEvict, HistType
    <3> QED
      BY <1>0, <3>2, <3>3, CountsKept
  <2>2. CASE ~LruDue
    BY <1>0, <1>2, <1>k, <2>2 DEF AddEvict, CachesLinked
  <2> QED
    BY <2>1, <2>2
<1>3. ASSUME NEW w \in Workers,
             \/ AddEvictOom(w) \/ AddAlloc(w) \/ AddAllocFailed(w) \/ AddAllocLeak(w)
             \/ LogRequest(w) \/ AddLock(w)
      PROVE  Goal
  <2>1. UNCHANGED <<rbtree, shm, node_caches>>
    BY <1>3 DEF AddEvictOom, AddAlloc, AddAllocFailed, AddAllocLeak, LogRequest, AddLock
  <2>2. hist'.due = hist.due /\ hist'.removed = hist.removed
    BY <1>0, <1>3 DEF AddEvictOom, AddAlloc, AddAllocFailed, AddAllocLeak, LogRequest, AddLock,
                      HistType
  <2> QED
    BY <1>0, <1>k, <2>1, <2>2 DEF CachesLinked
<1>4. ASSUME NEW w \in Workers, AddInsert(w) PROVE Goal
  <2> DEFINE k == Head(todo[w])
             a == slot[w]
  <2>1. k \in Keys /\ TypeOf[k] \in Groups /\ loc[w] \in Locs
    BY <1>0, <1>4, HeadKey DEF AddInsert, TypeOK
  <2>2. a \in Slots /\ a \notin rbtree
    BY <1>0, <1>4 DEF AddInsert, TypeInv, HasSlot, PendingInv
  <2>3. /\ rbtree' = rbtree \cup {a} /\ hist'.removed = hist.removed
        /\ \A b \in rbtree : shm'[b] = shm[b]
        /\ shm'[a].key = k /\ shm'[a].count = 1
    BY <1>0, <1>4, <2>2 DEF AddInsert, TypeOK
  <2>4. hist'.due = [hist.due EXCEPT ![k] = 1]
    <3>1. hist' = [hist EXCEPT !.due[k] = 1]
      BY <1>4 DEF AddInsert
    <3> QED
      BY <1>0, <3>1 DEF HistType
  <2>5. \A b \in rbtree : shm[b].key \notin LongKeys => shm[b].key # k
    BY <1>0, <1>4 DEF AddInsert, PendingInv
  <2>6. hist.due \in [Keys -> Nat]
    BY <1>0 DEF HistType
  <2>7. SetCache(w, loc[w], TypeOf[k], a)
    BY <1>4 DEF AddInsert
  <2> HIDE DEF k, a
  <2>8. (InjectiveHash => AtMostDue') /\ (hist'.removed = 0 /\ InjectiveHash => ExactlyDue')
    BY <1>0, <1>e, <2>1, <2>2, <2>3, <2>4, <2>5, <2>6 DEF AtMostDue, ExactlyDue, HashInv
  <2>9. hist'.removed = 0 => CachesLinked'
    BY <1>0, <2>1, <2>3, <2>7, CachesSet
  <2> QED
    BY <1>f, <2>8, <2>9
<1>5. ASSUME NEW w \in Workers, NEW l \in Locs, NEW k \in Keys,
             NodeVariable(w, l, k) \/ LimitTraffic(w, l, k)
      PROVE  Goal
  <2>1. \E g \in Groups : SetCache(w, l, g, FindNode(w, l, k))
    BY <1>5, KeyAssumption DEF NodeVariable, LimitTraffic, Groups
  <2>2. UNCHANGED <<rbtree, shm, hist>>
    BY <1>5 DEF NodeVariable, LimitTraffic
  <2>3. hist.removed = 0 => FindNode(w, l, k) \in rbtree \cup {Null}
    BY <1>0, FindLinked
  <2>4. hist.removed = 0 => CachesLinked'
    BY <1>0, <2>1, <2>2, <2>3, CachesSet
  <2> QED
    BY <1>k, <2>2, <2>4
<1>6. ASSUME NEW w \in Workers, Delete(w) PROVE Goal
  <2>1. PICK D \in Ranges : /\ Control(w, D) /\ Unlink(D)
                            /\ hist' = [hist EXCEPT !.controls = @ + 1, !.removed = 1]
    BY <1>6 DEF Delete
  <2>2. rbtree' \subseteq rbtree /\ \A a \in rbtree' : shm'[a] = shm[a]
    BY <1>0, <2>1, UnlinkFacts
  <2>3. hist'.due = hist.due /\ hist'.removed = 1
    BY <1>0, <2>1 DEF HistType
  <2> QED
    BY <1>0, <2>2, <2>3, CountsKept
<1>7. ASSUME NEW w \in Workers, Reset(w) PROVE Goal
  <2>1. PICK D \in Ranges :
          /\ Control(w, D)
          /\ shm' = [a \in Slots |-> IF a \in D THEN [shm[a] EXCEPT !.count = 0] ELSE shm[a]]
          /\ hist' = [hist EXCEPT !.controls = @ + 1,
                                  !.due = [k \in Keys |-> IF \E a \in D : shm[a].key = k
                                                          THEN 0 ELSE @[k]]]
          /\ UNCHANGED <<rbtree, slab>>
    BY <1>7 DEF Reset
  <2>2. D \subseteq rbtree /\ rbtree \subseteq Slots
    BY <1>0, <2>1, LookupFacts DEF Ranges, RangeAll, RangeGroup, RangeZone, TypeOK
  <2>3. /\ rbtree' = rbtree
        /\ \A a \in Slots : shm'[a].key = shm[a].key
        /\ \A a \in D : shm'[a].count = 0
        /\ \A a \in rbtree \ D : shm'[a].count = shm[a].count
    BY <1>0, <2>1, <2>2 DEF TypeOK, NodeRec
  <2>4. /\ hist'.removed = hist.removed
        /\ hist'.due = [k \in Keys |-> IF \E a \in D : shm[a].key = k THEN 0 ELSE hist.due[k]]
    BY <1>0, <2>1 DEF HistType
  <2>5. \A a \in rbtree : shm[a].key \in Keys
    BY <1>0 DEF HashInv
  <2>6. \A a \in rbtree \ D : shm[a].key \notin LongKeys => ~\E b \in D : shm[b].key = shm[a].key
    BY <1>0, <2>2 DEF UniqueNodes
  <2>7. \A a \in rbtree : shm'[a].key \notin LongKeys =>
          hist'.due[shm'[a].key] = IF a \in D THEN 0 ELSE hist.due[shm[a].key]
    BY <2>2, <2>3, <2>4, <2>5, <2>6
  <2>8. (InjectiveHash => AtMostDue') /\ (hist'.removed = 0 /\ InjectiveHash => ExactlyDue')
    <3>1. ASSUME InjectiveHash, NEW a \in rbtree', shm'[a].key \notin LongKeys
          PROVE  shm'[a].count <= hist'.due[shm'[a].key]
      <4>1. CASE a \in D
        BY <2>3, <2>7, <3>1, <4>1
      <4>2. CASE a \notin D
        BY <1>e, <2>2, <2>3, <2>7, <3>1, <4>2 DEF AtMostDue
      <4> QED
        BY <4>1, <4>2
    <3>2. ASSUME hist'.removed = 0, InjectiveHash
          PROVE  ExactlyDue'
      BY <1>e, <2>2, <2>3, <2>4, <2>7, <3>2 DEF ExactlyDue
    <3> QED
      BY <3>1, <3>2 DEF AtMostDue
  <2>9. hist'.removed = 0 => CachesLinked'
    BY <1>0, <2>1, <2>3, <2>4 DEF Control, CachesLinked
  <2> QED
    BY <1>f, <2>8, <2>9
<1>8. ASSUME NEW w \in Workers, Crash(w) PROVE Goal
  <2>1. UNCHANGED <<rbtree, shm>> /\ hist'.due = hist.due /\ hist'.removed = hist.removed
    BY <1>0, <1>8 DEF Crash, HistType
  <2>2. hist.removed = 0 => CachesLinked'
    BY <1>0, <1>8, <2>1 DEF Crash, CachesLinked, EmptyCaches, TypeOK
  <2> QED
    BY <1>k, <2>1, <2>2
<1>9. CASE Tick \/ UNCHANGED vars
  BY <1>0, <1>9, <1>k DEF Tick, vars, CachesLinked
<1> QED
  BY <1>1, <1>2, <1>3, <1>4, <1>5, <1>6, <1>7, <1>8, <1>9 DEF Next, Step, AddNode

LEMMA CountInit == Init => NeverOvercounts /\ ExactUntilRemoval
BY DEF Init, NeverOvercounts, ExactUntilRemoval, EmptyCaches

LEMMA CountInvariant == Spec => [](NeverOvercounts /\ ExactUntilRemoval)
BY TypeInit, TypeStep, TreeInvariant, CountInit, CountStep, PTL DEF Spec

(* No counter exceeds the requests logged for its key, whatever is evicted,
   deleted, reset or lost: a stale cache may lose counts but never adds them
   to another key, provided crc32 tells the keys apart. *)
THEOREM CountersBounded == Spec => []NeverOvercounts
BY CountInvariant, PTL

(* Until the first eviction or deletion every counter is exact and no cached
   pointer dangles, through resets, crashes and exhausted slabs. *)
THEOREM CountersExact == Spec => []ExactUntilRemoval
BY CountInvariant, PTL

(***************************************************************************)
(* VtsShm implements StatStore, when no key is longer than the eight-bit   *)
(* length field can say.  The mapping is VtsShm's Store: the counter of    *)
(* every key that has a node.                                              *)
(***************************************************************************)
ShortKeys == LongKeys = {}

ZoneBar == [k \in LiveKeys |-> shm[SlotOf(k)].count]

\* The mapping reads each node's own counter.
ZoneReads ==
  /\ DOMAIN ZoneBar = LiveKeys
  /\ \A a \in rbtree : shm[a].key \in LiveKeys /\ ZoneBar[shm[a].key] = shm[a].count

LEMMA ZoneFacts == ShortKeys /\ UniqueNodes => ZoneReads
<1> SUFFICES ASSUME ShortKeys, UniqueNodes, NEW a \in rbtree
             PROVE  shm[a].key \in LiveKeys /\ ZoneBar[shm[a].key] = shm[a].count
  BY DEF ZoneReads, ZoneBar
<1>1. SlotOf(shm[a].key) \in rbtree /\ shm[SlotOf(shm[a].key)].key = shm[a].key
  BY DEF SlotOf
<1>2. SlotOf(shm[a].key) = a
  BY <1>1 DEF UniqueNodes, ShortKeys
<1>3. shm[a].key \in LiveKeys
  BY DEF LiveKeys
<1> QED
  BY <1>2, <1>3 DEF ZoneBar

LEMMA ZoneFactsNext ==
  ASSUME ShortKeys
  PROVE  UniqueNodes' => ZoneReads'
<1>1. UniqueNodes => ZoneReads
  BY ZoneFacts
<1> QED
  BY <1>1, PTL

\* No counter of a linked node changes.
LEMMA ZoneSame ==
  ASSUME ShortKeys, UniqueNodes, UniqueNodes', rbtree' = rbtree,
         \A a \in rbtree : shm'[a].key = shm[a].key /\ shm'[a].count = shm[a].count
  PROVE  ZoneBar' = ZoneBar
<1>1. ZoneReads /\ ZoneReads'
  BY ZoneFacts, ZoneFactsNext
<1>2. LiveKeys' = LiveKeys
  BY DEF LiveKeys
<1>3. \A k \in LiveKeys : ZoneBar'[k] = ZoneBar[k]
  BY <1>1 DEF LiveKeys, ZoneReads
<1> QED
  BY <1>2, <1>3 DEF ZoneBar

\* Nodes are unlinked: their keys leave the table.
LEMMA ZoneWithout ==
  ASSUME ShortKeys, UniqueNodes, UniqueNodes', NEW D, D \subseteq rbtree, rbtree' = rbtree \ D,
         \A a \in rbtree' : shm'[a] = shm[a]
  PROVE  Store!Without({shm[a].key : a \in D})
<1>1. ZoneReads /\ ZoneReads'
  BY ZoneFacts, ZoneFactsNext
<1>2. LiveKeys' = LiveKeys \ {shm[a].key : a \in D}
  BY DEF LiveKeys, UniqueNodes, ShortKeys
<1>3. \A k \in LiveKeys' : ZoneBar'[k] = ZoneBar[k]
  BY <1>1 DEF LiveKeys, ZoneReads
<1>4. ZoneBar' = [k \in LiveKeys \ {shm[a].key : a \in D} |-> ZoneBar[k]]
  BY <1>2, <1>3 DEF ZoneBar
<1>5. DOMAIN ZoneBar = LiveKeys
  BY <1>1 DEF ZoneReads
<1> QED
  BY <1>4, <1>5 DEF Store!Without, ZoneBar

\* What a command's range of nodes is in terms of keys.
LEMMA ZoneRange ==
  ASSUME ShortKeys, UniqueNodes, HashInv, NEW D \in Ranges, D # {}
  PROVE  /\ D \subseteq rbtree
         /\ {shm[a].key : a \in D} \in SUBSET Keys
         /\ Store!Range({shm[a].key : a \in D})
<1> DEFINE K == {shm[a].key : a \in D}
<1>0. DOMAIN ZoneBar = LiveKeys
  BY DEF ZoneBar
<1>1. D \subseteq rbtree
  BY LookupFacts DEF Ranges, RangeAll, RangeGroup, RangeZone
<1>2. K \in SUBSET Keys
  BY <1>1 DEF HashInv
<1>3. \/ K = LiveKeys
      \/ \E g \in Groups : K = {k \in LiveKeys : TypeOf[k] = g}
      \/ \E k \in LiveKeys : K = {k}
  <2>1. CASE D = RangeAll
    BY <2>1 DEF RangeAll, LiveKeys
  <2>2. CASE \E g \in Groups \ {"CC"} : D = RangeGroup(g)
    BY <2>2 DEF RangeGroup, LiveKeys
  <2>3. CASE \E k \in Keys : D = RangeZone(k)
    <3>1. PICK k \in Keys : D = {Lookup(k)}
      BY <2>3 DEF RangeZone
    <3>2. K = {shm[Lookup(k)].key} /\ Lookup(k) \in rbtree
      BY <1>1, <3>1
    <3> QED
      BY <3>2 DEF LiveKeys
  <2> QED
    BY <2>1, <2>2, <2>3 DEF Ranges
<1> QED
  BY <1>0, <1>1, <1>2, <1>3 DEF Store!Range, ZoneBar

LEMMA StoreStep ==
  /\ ShortKeys /\ TypeInv /\ TreeInv /\ TreeInv' /\ [Next]_vars
  => [Store!Next]_<<ZoneBar, hist.controls>>
<1> SUFFICES ASSUME ShortKeys, TypeInv, TreeInv, TreeInv', [Next]_vars
             PROVE  Store!Next \/ UNCHANGED <<ZoneBar, hist.controls>>
  OBVIOUS
<1> DEFINE SameCommands == hist'.controls = hist.controls
           Goal == Store!Next \/ (ZoneBar' = ZoneBar /\ SameCommands)
<1>0. /\ TypeOK /\ HashInv /\ PendingInv /\ UniqueNodes /\ UniqueNodes'
      /\ ZoneReads /\ ZoneReads'
      /\ hist \in [due : [Keys -> Nat], requests : Nat, controls : Nat,
                   removed : {0, 1}, crashes : Nat, oom : Nat]
  BY ZoneFacts, ZoneFactsNext DEF TypeInv, TreeInv, TypeOK
<1>1. ASSUME NEW w \in Workers, AddFound(w) PROVE Goal
  <2> DEFINE a == FindNode(w, loc[w], Head(todo[w]))
  <2>1. rbtree' = rbtree /\ a \in Slots /\ rbtree \subseteq Slots
    <3>1. Head(todo[w]) \in Keys /\ loc[w] \in Locs
      BY <1>0, <1>1, HeadKey DEF AddFound, TypeOK
    <3> QED
      BY <1>0, <1>1, <3>1, FindFacts DEF AddFound, TypeOK
  <2>2. /\ \A b \in Slots : shm'[b].key = shm[b].key
        /\ \A b \in Slots \ {a} : shm'[b].count = shm[b].count
        /\ shm'[a].count = shm[a].count + 1
    BY <1>0, <1>1, <2>1 DEF AddFound, TypeOK, NodeRec
  <2> HIDE DEF a
  <2>0. SameCommands
    BY <1>0, <1>1 DEF AddFound
  <2>3. CASE a \notin rbtree
    BY <1>0, <2>0, <2>1, <2>2, <2>3, ZoneSame
  <2>4. CASE a \in rbtree
    <3> DEFINE k == shm[a].key
    <3>1. k \in Keys /\ k \in DOMAIN ZoneBar
      BY <1>0, <2>4 DEF HashInv, ZoneReads
    <3>2. LiveKeys' = LiveKeys
      BY <2>1, <2>2 DEF LiveKeys
    <3>3. ZoneBar'[k] = ZoneBar[k] + 1
      BY <1>0, <2>1, <2>2, <2>4 DEF ZoneReads
    <3>4. ASSUME NEW j \in LiveKeys, j # k
          PROVE  ZoneBar'[j] = ZoneBar[j]
      <4>1. PICK b \in rbtree : shm[b].key = j
        BY <3>4 DEF LiveKeys
      <4> QED
        BY <1>0, <2>1, <2>2, <3>4, <4>1 DEF ZoneReads
    <3>5. ZoneBar' = [ZoneBar EXCEPT ![k] = @ + 1]
      BY <3>2, <3>3, <3>4 DEF ZoneBar
    <3>6. Store!Count(k)
      BY <2>0, <3>1, <3>5 DEF Store!Count, ZoneBar
    <3> QED
      BY <3>1, <3>6 DEF Store!Next
  <2> QED
    BY <2>3, <2>4
<1>2. ASSUME NEW w \in Workers, AddEvict(w) PROVE Goal
  <2>0. SameCommands
    BY <1>0, <1>2 DEF AddEvict
  <2>1. CASE LruDue
    <3>1. PICK v \in LruNodes : Unlink({v})
      BY <1>2, <2>1 DEF AddEvict
    <3>2. v \in rbtree /\ shm[v].key \in MaxNodeMatch
      BY <3>1 DEF LruNodes, FilterNodes
    <3>3. rbtree' = rbtree \ {v} /\ \A a \in rbtree' : shm'[a] = shm[a]
      BY <1>0, <3>1, UnlinkFacts
    <3>4. Store!Without({shm[a].key : a \in {v}})
      BY <1>0, <3>2, <3>3, ZoneWithout
    <3>5. {shm[a].key : a \in {v}} = {shm[v].key}
      OBVIOUS
    <3>6. shm[v].key \in Keys /\ shm[v].key \in DOMAIN ZoneBar
      BY <1>0, <3>2 DEF HashInv, ZoneReads
    <3>7. Store!Evict(shm[v].key)
      BY <2>0, <3>2, <3>4, <3>5, <3>6 DEF Store!Evict, ZoneBar
    <3> QED
      BY <3>6, <3>7 DEF Store!Next
  <2>2. CASE ~LruDue
    BY <1>0, <1>2, <2>0, <2>2, ZoneSame DEF AddEvict
  <2> QED
    BY <2>1, <2>2
<1>3. ASSUME UNCHANGED <<rbtree, shm>>, SameCommands PROVE Goal
  BY <1>0, <1>3, ZoneSame
<1>4. ASSUME NEW w \in Workers,
             \/ AddEvictOom(w) \/ AddAlloc(w) \/ AddAllocFailed(w) \/ AddAllocLeak(w)
             \/ LogRequest(w) \/ AddLock(w) \/ Crash(w)
      PROVE  Goal
  BY <1>0, <1>3, <1>4 DEF AddEvictOom, AddAlloc, AddAllocFailed, AddAllocLeak, LogRequest, AddLock, Crash
<1>5. ASSUME NEW w \in Workers, AddInsert(w) PROVE Goal
  <2> DEFINE k == Head(todo[w])
             a == slot[w]
  <2>1. k \in Keys
    BY <1>0, <1>5, HeadKey DEF AddInsert
  <2>2. a \in Slots /\ a \notin rbtree /\ \A b \in rbtree : shm[b].key # k
    BY <1>0, <1>5 DEF AddInsert, TypeInv, HasSlot, PendingInv, ShortKeys
  <2>3. /\ rbtree' = rbtree \cup {a}
        /\ \A b \in rbtree : shm'[b] = shm[b]
        /\ shm'[a].key = k /\ shm'[a].count = 1
    BY <1>0, <1>5, <2>2 DEF AddInsert, TypeOK
  <2> HIDE DEF k, a
  <2>4. k \notin LiveKeys /\ LiveKeys' = LiveKeys \cup {k}
    BY <2>2, <2>3 DEF LiveKeys
  <2>5. ZoneBar'[k] = 1
    BY <1>0, <2>3 DEF ZoneReads
  <2>6. ASSUME NEW j \in LiveKeys PROVE ZoneBar'[j] = ZoneBar[j]
    <3>1. PICK b \in rbtree : shm[b].key = j
      BY <2>6 DEF LiveKeys
    <3> QED
      BY <1>0, <2>3, <3>1 DEF ZoneReads
  <2>7. ZoneBar' = [j \in LiveKeys \cup {k} |-> IF j = k THEN 1 ELSE ZoneBar[j]]
    BY <2>4, <2>5, <2>6 DEF ZoneBar
  <2>8. DOMAIN ZoneBar = LiveKeys
    BY <1>0 DEF ZoneReads
  <2>9. SameCommands
    BY <1>0, <1>5 DEF AddInsert
  <2>10. Store!Create(k)
    BY <2>4, <2>7, <2>8, <2>9 DEF Store!Create, ZoneBar
  <2> QED
    BY <2>1, <2>10 DEF Store!Next
<1>6. ASSUME NEW w \in Workers, NEW l \in Locs, NEW k \in Keys,
             NodeVariable(w, l, k) \/ LimitTraffic(w, l, k)
      PROVE  Goal
  BY <1>3, <1>6 DEF NodeVariable, LimitTraffic
<1>7. ASSUME NEW w \in Workers, Delete(w) PROVE Goal
  <2>1. PICK D \in Ranges : Control(w, D) /\ Unlink(D)
    BY <1>7 DEF Delete
  <2> DEFINE K == {shm[a].key : a \in D}
  <2>2. D \subseteq rbtree /\ K \in SUBSET Keys /\ Store!Range(K)
    BY <1>0, <2>1, ZoneRange DEF Control
  <2>3. Store!Without(K)
    BY <1>0, <2>1, <2>2, UnlinkFacts, ZoneWithout
  <2>0. hist'.controls = hist.controls + 1
    BY <1>0, <1>7 DEF Delete
  <2>4. Store!Delete(K)
    BY <2>0, <2>2, <2>3 DEF Store!Delete
  <2> QED
    BY <2>2, <2>4 DEF Store!Next
<1>8. ASSUME NEW w \in Workers, Reset(w) PROVE Goal
  <2>1. PICK D \in Ranges :
          /\ Control(w, D)
          /\ shm' = [a \in Slots |-> IF a \in D THEN [shm[a] EXCEPT !.count = 0] ELSE shm[a]]
          /\ rbtree' = rbtree
    BY <1>8 DEF Reset
  <2> DEFINE K == {shm[a].key : a \in D}
  <2>2. D \subseteq rbtree /\ K \in SUBSET Keys /\ Store!Range(K)
    BY <1>0, <2>1, ZoneRange DEF Control
  <2>3. /\ \A a \in rbtree : shm'[a].key = shm[a].key
        /\ \A a \in D : shm'[a].count = 0
        /\ \A a \in rbtree \ D : shm'[a].count = shm[a].count
    BY <1>0, <2>1, <2>2 DEF TypeOK, NodeRec
  <2>4. LiveKeys' = LiveKeys
    BY <2>1, <2>3 DEF LiveKeys
  <2>5. ASSUME NEW k \in LiveKeys
        PROVE  ZoneBar'[k] = IF k \in K THEN 0 ELSE ZoneBar[k]
    <3>1. PICK a \in rbtree : shm[a].key = k
      BY <2>5 DEF LiveKeys
    <3>2. k \in K <=> a \in D
      BY <1>0, <2>2, <3>1 DEF UniqueNodes, ShortKeys
    <3> QED
      BY <1>0, <2>1, <2>3, <3>1, <3>2 DEF ZoneReads
  <2>6. ZoneBar' = [k \in LiveKeys |-> IF k \in K THEN 0 ELSE ZoneBar[k]]
    BY <2>4, <2>5 DEF ZoneBar
  <2>7. DOMAIN ZoneBar = LiveKeys
    BY <1>0 DEF ZoneReads
  <2>0. hist'.controls = hist.controls + 1
    BY <1>0, <1>8 DEF Reset
  <2>8. Store!Reset(K)
    BY <2>0, <2>2, <2>6, <2>7 DEF Store!Reset, ZoneBar
  <2> QED
    BY <2>2, <2>8 DEF Store!Next
<1>9. CASE Tick \/ UNCHANGED vars
  BY <1>3, <1>9 DEF Tick, vars
<1> QED
  BY <1>1, <1>2, <1>4, <1>5, <1>6, <1>7, <1>8, <1>9 DEF Next, Step, AddNode

LEMMA StoreInit == Init => Store!Init
<1> SUFFICES ASSUME Init PROVE ZoneBar = [k \in {} |-> 0]
  BY DEF Store!Init, ZoneBar, Init
<1>1. LiveKeys = {}
  BY DEF Init, LiveKeys
<1> QED
  BY <1>1 DEF ZoneBar

(* The zone, with its slots, caches, mutex and crashing workers, implements
   the table of counters: no reader under the mutex can tell them apart, if
   every key is shorter than 256 bytes. *)
THEOREM ZoneImplementsStore == LongKeys = {} => (Spec => ImplementsStatStore)
<1> SUFFICES ASSUME LongKeys = {} PROVE Spec => ImplementsStatStore
  OBVIOUS
<1>1. TypeInv /\ TreeInv /\ TreeInv' /\ [Next]_vars => [Store!Next]_<<ZoneBar, hist.controls>>
  BY StoreStep DEF ShortKeys
<1> QED
  BY <1>1, StoreInit, TreeInvariant, PTL DEF Spec, ImplementsStatStore, Store!Spec, Store!vars, ZoneBar
=============================================================================
