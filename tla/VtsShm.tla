------------------------------- MODULE VtsShm -------------------------------
(***************************************************************************)
(* The shared traffic-status zone: a red-black tree of nodes kept in a     *)
(* slab of shared memory, one mutex, and the workers that log requests     *)
(* into it, read it for limits and variables, and delete or reset parts    *)
(* of it through the control interface.  Every location configuration of   *)
(* every worker caches the last node it touched per group (node_caches).   *)
(*                                                                         *)
(* A key stands for a whole group-prefixed string ("NO\x1fexample.org").   *)
(* The tree is the set of linked slots: its shape is nginx's business and  *)
(* only decides which of two equally old nodes the LRU walk meets last.    *)
(* The workers a run starts with are the only ones; a worker that dies is  *)
(* replaced by the master, with empty caches.                              *)
(*                                                                         *)
(* shm_add_node runs in three steps (find and evict, allocate, insert)     *)
(* because a worker can die between them; every other critical section is  *)
(* one step, which loses nothing: all writers hold the mutex.              *)
(***************************************************************************)
EXTENDS Integers, Sequences, FiniteSets

CONSTANTS
  Workers,           \* worker processes
  Locs,              \* location configurations
  Keys,              \* node keys
  TypeOf,            \* TypeOf[k]: the group a key is built for
  HashOf,            \* HashOf[k]: its crc32; two keys may collide
  LongKeys,          \* keys of 256 bytes and more
  Slots,             \* slab chunks that can hold a node
  filter_max_node,   \* vhost_traffic_status_filter_max_node; 0 disables it
  MaxNodeMatch,      \* the keys vhost_traffic_status_filter_max_node matches
  Requests,          \* per request, the keys its log phase adds, in order
  Null,
  MaxRequests, MaxControls, MaxCrashes, MaxOom, MaxTime   \* bounds

Groups == {"NO", "UA", "UG", "CC", "FG"}

ASSUME NullAssumption == Null \notin Workers /\ Null \notin Slots /\ Null \notin Keys
ASSUME KeyAssumption ==
  /\ TypeOf \in [Keys -> Groups]
  /\ HashOf \in [Keys -> Nat]
  /\ LongKeys \subseteq Keys
  /\ MaxNodeMatch \subseteq {k \in Keys : TypeOf[k] = "FG"}
ASSUME SlotAssumption == IsFiniteSet(Slots)
ASSUME RequestAssumption == Requests \subseteq Seq(Keys) \ {<<>>}
ASSUME NumberAssumption ==
  /\ filter_max_node \in Nat
  /\ {MaxRequests, MaxControls, MaxCrashes, MaxOom, MaxTime} \subseteq Nat

VARIABLES
  mutex,        \* the worker that holds shpool->mutex, or Null
  rbtree,       \* slots linked into the tree
  slab,         \* slots that are allocated
  shm,          \* contents of every slot, kept when the slot is freed
  node_caches,  \* node_caches[w][l][g]: slot cached by worker w, or Null
  pc,           \* where a worker is in shm_add_node
  loc,          \* the location of the request a worker logs
  todo,         \* the keys it still has to add
  slot,         \* the slot it has allocated and not yet inserted
  now,          \* ngx_http_vhost_traffic_status_current_msec
  hist          \* history: what the counters ought to read, and past events

vars == <<mutex, rbtree, slab, shm, node_caches, pc, loc, todo, slot, now, hist>>

\* Mutants, here and below, are faults of the definition that follows them.
\* Mutant: the pointers are not allocated per group.
CachesPerLoc == [l \in Locs |-> Null]

EmptyCaches == [l \in Locs |-> [g \in Groups |-> Null]]

Init ==
  /\ mutex = Null
  /\ rbtree = {}
  /\ slab = {}
  /\ shm = [a \in Slots |-> [key |-> Null, hash |-> 0, count |-> 0, time |-> 0]]
  /\ node_caches = [w \in Workers |-> EmptyCaches]
  /\ pc = [w \in Workers |-> "idle"]
  /\ loc \in [Workers -> Locs]
  /\ todo = [w \in Workers |-> <<>>]
  /\ slot = [w \in Workers |-> Null]
  /\ now = 0
  /\ hist = [due |-> [k \in Keys |-> 0], requests |-> 0, controls |-> 0,
             removed |-> 0, crashes |-> 0, oom |-> 0]

-----------------------------------------------------------------------------
(* Looking a key up *)

\* node_lookup descends by hash and then compares the stored bytes.  A long
\* key is stored with its length cut to eight bits, so no lookup equals it.
Lookup(k) ==
  LET hits == {a \in rbtree : shm[a].hash = HashOf[k] /\ shm[a].key = k /\ k \notin LongKeys}
  IN  IF hits = {} THEN Null ELSE CHOOSE a \in hits : TRUE

\* Mutant: any cached slot answers.
CacheSet(w, l, k) == node_caches[w][l][TypeOf[k]] # Null

\* find_node: the cached slot answers when its hash is the key's, whatever
\* became of that slot since it was cached.
CacheHit(w, l, k) ==
  LET c == node_caches[w][l][TypeOf[k]]
  IN  c # Null /\ shm[c].hash = HashOf[k]

\* Mutant: a cache miss is not looked up.
FindCached(w, l, k) ==
  IF CacheHit(w, l, k) THEN node_caches[w][l][TypeOf[k]] ELSE Null

FindNode(w, l, k) ==
  IF CacheHit(w, l, k) THEN node_caches[w][l][TypeOf[k]] ELSE Lookup(k)

SetCache(w, l, g, a) == node_caches' = [node_caches EXCEPT ![w][l][g] = a]

\* The nodes shm_info_node counts in filter_used_node.
FilterNodes == {a \in rbtree : shm[a].key \in MaxNodeMatch}

\* Mutant: the walk does not filter the nodes.
OldestNodes == {a \in rbtree : \A b \in rbtree : shm[a].time <= shm[b].time}

\* find_lru_node: a filter node whose last request is the oldest; between
\* equally old ones the walk keeps the last it meets.
LruNodes == {a \in FilterNodes : \A b \in FilterNodes : shm[a].time <= shm[b].time}

\* Mutant: eviction starts one node late.
LruOverdue == filter_max_node > 0 /\ Cardinality(FilterNodes) > filter_max_node

LruDue == filter_max_node > 0 /\ Cardinality(FilterNodes) >= filter_max_node

\* Mutant: the chunk is not freed.
UnlinkOnly(D) ==
  /\ rbtree' = rbtree \ D
  /\ UNCHANGED <<slab, shm>>

\* ngx_rbtree_delete clears node->key on some of its paths only (Z); then the
\* chunk is freed, with its contents left in place.
Unlink(D) ==
  /\ rbtree' = rbtree \ D
  /\ slab' = slab \ D
  /\ \E Z \in SUBSET D :
       shm' = [a \in Slots |-> IF a \in Z THEN [shm[a] EXCEPT !.hash = 0] ELSE shm[a]]

-----------------------------------------------------------------------------
(* The log phase: server, upstream and filter nodes, one shm_add_node each *)

LogRequest(w) ==
  /\ pc[w] = "idle"
  /\ hist.requests < MaxRequests
  /\ \E l \in Locs, ks \in Requests :
       /\ loc' = [loc EXCEPT ![w] = l]
       /\ todo' = [todo EXCEPT ![w] = ks]
  /\ pc' = [pc EXCEPT ![w] = "lock"]
  /\ hist' = [hist EXCEPT !.requests = @ + 1]
  /\ UNCHANGED <<mutex, rbtree, slab, shm, node_caches, slot, now>>

\* Mutant: the lock does not wait.
AddLockBarging(w) ==
  /\ pc[w] = "lock"
  /\ mutex' = w
  /\ pc' = [pc EXCEPT ![w] = "find"]
  /\ UNCHANGED <<rbtree, slab, shm, node_caches, loc, todo, slot, now, hist>>

AddLock(w) ==
  /\ pc[w] = "lock"
  /\ mutex = Null
  /\ mutex' = w
  /\ pc' = [pc EXCEPT ![w] = "find"]
  /\ UNCHANGED <<rbtree, slab, shm, node_caches, loc, todo, slot, now, hist>>

\* shm_add_node returns: the handler logs an error at most, and goes on.
Return(w) ==
  /\ todo' = [todo EXCEPT ![w] = Tail(@)]
  /\ pc' = [pc EXCEPT ![w] = IF Len(todo[w]) = 1 THEN "idle" ELSE "lock"]
  /\ slot' = [slot EXCEPT ![w] = Null]
  /\ UNCHANGED <<loc, now>>

\* The node is found: node_set counts the request on it.
AddFound(w) ==
  LET k == Head(todo[w])
      a == FindNode(w, loc[w], k)
  IN  /\ pc[w] = "find"
      /\ a # Null
      /\ shm' = [shm EXCEPT ![a].count = @ + 1, ![a].time = now]
      /\ SetCache(w, loc[w], TypeOf[k], a)
      /\ mutex' = Null
      /\ Return(w)
      /\ hist' = [hist EXCEPT !.due[k] = @ + 1]
      /\ UNCHANGED <<rbtree, slab>>

\* It is not: the LRU filter node goes first, whatever group is being added.
AddEvict(w) ==
  /\ pc[w] = "find"
  /\ FindNode(w, loc[w], Head(todo[w])) = Null
  /\ IF LruDue
     THEN /\ \E v \in LruNodes : Unlink({v})
          /\ hist' = [hist EXCEPT !.removed = 1]
     ELSE UNCHANGED <<rbtree, slab, shm, hist>>
  /\ pc' = [pc EXCEPT ![w] = "alloc"]
  /\ UNCHANGED <<mutex, node_caches, loc, todo, slot, now>>

\* find_lru cannot allocate its shm_info and evicts nothing.
AddEvictOom(w) ==
  /\ pc[w] = "find"
  /\ FindNode(w, loc[w], Head(todo[w])) = Null
  /\ filter_max_node > 0
  /\ hist.oom < MaxOom
  /\ hist' = [hist EXCEPT !.oom = @ + 1]
  /\ pc' = [pc EXCEPT ![w] = "alloc"]
  /\ UNCHANGED <<mutex, rbtree, slab, shm, node_caches, loc, todo, slot, now>>

AddAlloc(w) ==
  /\ pc[w] = "alloc"
  /\ \E a \in Slots \ slab :
       /\ slab' = slab \cup {a}
       /\ slot' = [slot EXCEPT ![w] = a]
  /\ pc' = [pc EXCEPT ![w] = "insert"]
  /\ UNCHANGED <<mutex, rbtree, shm, node_caches, loc, todo, now, hist>>

\* Mutant: the error return forgets the mutex.
AddAllocFailedLocked(w) ==
  /\ pc[w] = "alloc"
  /\ slab = Slots
  /\ Return(w)
  /\ UNCHANGED <<mutex, rbtree, slab, shm, node_caches, hist>>

AddAllocFailed(w) ==
  /\ pc[w] = "alloc"
  /\ slab = Slots
  /\ mutex' = Null
  /\ Return(w)
  /\ UNCHANGED <<rbtree, slab, shm, node_caches, hist>>

\* The slab is full and the request pool too: the early return keeps the mutex.
AddAllocLeak(w) ==
  /\ pc[w] = "alloc"
  /\ slab = Slots
  /\ hist.oom < MaxOom
  /\ hist' = [hist EXCEPT !.oom = @ + 1]
  /\ Return(w)
  /\ UNCHANGED <<mutex, rbtree, slab, shm, node_caches>>

\* Mutant: node_init leaves the counter at zero.
AddInsertUncounted(w) ==
  LET k == Head(todo[w])
      a == slot[w]
  IN  /\ pc[w] = "insert"
      /\ shm' = [shm EXCEPT ![a] = [key |-> k, hash |-> HashOf[k], count |-> 0, time |-> now]]
      /\ rbtree' = rbtree \cup {a}
      /\ SetCache(w, loc[w], TypeOf[k], a)
      /\ mutex' = Null
      /\ Return(w)
      /\ hist' = [hist EXCEPT !.due[k] = 1]
      /\ UNCHANGED slab

\* node_init counts the first request; the node is linked and cached.
AddInsert(w) ==
  LET k == Head(todo[w])
      a == slot[w]
  IN  /\ pc[w] = "insert"
      /\ shm' = [shm EXCEPT ![a] = [key |-> k, hash |-> HashOf[k], count |-> 1, time |-> now]]
      /\ rbtree' = rbtree \cup {a}
      /\ SetCache(w, loc[w], TypeOf[k], a)
      /\ mutex' = Null
      /\ Return(w)
      /\ hist' = [hist EXCEPT !.due[k] = 1]
      /\ UNCHANGED slab

-----------------------------------------------------------------------------
(* Readers that hold the mutex *)

\* node_variable: $vts_* of the server name; the cache is set, to NULL too.
NodeVariable(w, l, k) ==
  /\ pc[w] = "idle" /\ mutex = Null
  /\ TypeOf[k] = "NO"
  /\ SetCache(w, l, "NO", FindNode(w, l, k))
  /\ UNCHANGED <<mutex, rbtree, slab, shm, pc, loc, todo, slot, now, hist>>

\* One limit of limit_handler_traffic: only a node that is found is cached.
LimitTraffic(w, l, k) ==
  /\ pc[w] = "idle" /\ mutex = Null
  /\ FindNode(w, l, k) # Null
  /\ SetCache(w, l, TypeOf[k], FindNode(w, l, k))
  /\ UNCHANGED <<mutex, rbtree, slab, shm, pc, loc, todo, slot, now, hist>>

-----------------------------------------------------------------------------
(* Control commands *)

RangeAll == rbtree
RangeGroup(g) == {a \in rbtree : TypeOf[shm[a].key] = g}
RangeZone(k) == IF Lookup(k) = Null THEN {} ELSE {Lookup(k)}

\* What cmd=delete and cmd=reset can be asked for: *, a group, or one zone.
Ranges == {RangeAll} \cup {RangeGroup(g) : g \in Groups \ {"CC"}} \cup {RangeZone(k) : k \in Keys}

Control(w, D) ==
  /\ pc[w] = "idle" /\ mutex = Null
  /\ hist.controls < MaxControls
  /\ D # {}
  /\ UNCHANGED <<mutex, node_caches, pc, loc, todo, slot, now>>

Delete(w) ==
  \E D \in Ranges :
    /\ Control(w, D)
    /\ Unlink(D)
    /\ hist' = [hist EXCEPT !.controls = @ + 1, !.removed = 1]

\* node_zero: the counters restart; the time of the last request stays.
Reset(w) ==
  \E D \in Ranges :
    /\ Control(w, D)
    /\ shm' = [a \in Slots |-> IF a \in D THEN [shm[a] EXCEPT !.count = 0] ELSE shm[a]]
    /\ hist' = [hist EXCEPT !.controls = @ + 1,
                            !.due = [k \in Keys |-> IF \E a \in D : shm[a].key = k
                                                    THEN 0 ELSE @[k]]]
    /\ UNCHANGED <<rbtree, slab>>

-----------------------------------------------------------------------------
(* Around the module *)

\* A worker dies.  The master unlocks the mutexes it held and forks another,
\* whose configuration is the master's: its caches are empty.
Crash(w) ==
  /\ hist.crashes < MaxCrashes
  /\ hist' = [hist EXCEPT !.crashes = @ + 1]
  /\ mutex' = IF mutex = w THEN Null ELSE mutex
  /\ node_caches' = [node_caches EXCEPT ![w] = EmptyCaches]
  /\ pc' = [pc EXCEPT ![w] = "idle"]
  /\ todo' = [todo EXCEPT ![w] = <<>>]
  /\ slot' = [slot EXCEPT ![w] = Null]
  /\ UNCHANGED <<rbtree, slab, shm, loc, now>>

\* Wall-clock milliseconds: several requests fall in one of them, and the clock
\* may be set back.
Tick ==
  /\ now' \in 0 .. MaxTime
  /\ UNCHANGED <<mutex, rbtree, slab, shm, node_caches, pc, loc, todo, slot, hist>>

AddNode(w) ==
  \/ AddFound(w) \/ AddEvict(w) \/ AddEvictOom(w)
  \/ AddAlloc(w) \/ AddAllocFailed(w) \/ AddAllocLeak(w) \/ AddInsert(w)

Step(w) ==
  \/ LogRequest(w) \/ AddLock(w) \/ AddNode(w)
  \/ \E l \in Locs, k \in Keys : NodeVariable(w, l, k) \/ LimitTraffic(w, l, k)
  \/ Delete(w) \/ Reset(w) \/ Crash(w)

Next == Tick \/ \E w \in Workers : Step(w)

Spec == Init /\ [][Next]_vars

\* A worker inside shm_add_node keeps running, and the spin lock does not
\* starve a worker that keeps trying.
Fairness == \A w \in Workers : WF_vars(AddNode(w)) /\ SF_vars(AddLock(w))

FairSpec == Spec /\ Fairness

-----------------------------------------------------------------------------
(* Properties *)

NodeRec == [key : Keys \cup {Null}, hash : Nat, count : Nat, time : Nat]

Critical == {"find", "alloc", "insert"}

(* Type correctness of the zone, the caches and the workers. *)
TypeOK ==
  /\ mutex \in Workers \cup {Null}
  /\ rbtree \subseteq Slots
  /\ slab \subseteq Slots
  /\ shm \in [Slots -> NodeRec]
  /\ node_caches \in [Workers -> [Locs -> [Groups -> Slots \cup {Null}]]]
  /\ pc \in [Workers -> {"idle", "lock"} \cup Critical]
  /\ loc \in [Workers -> Locs]
  /\ todo \in [Workers -> Seq(Keys)]
  /\ slot \in [Workers -> Slots \cup {Null}]
  /\ now \in Nat
  /\ hist \in [due : [Keys -> Nat], requests : Nat, controls : Nat,
               removed : {0, 1}, crashes : Nat, oom : Nat]

(* A worker between shmtx_lock and shmtx_unlock of shm_add_node holds the
   mutex, so two are never inside together, even while a third died inside. *)
Mutex == \A w \in Workers : pc[w] \in Critical => mutex = w

(* The lookup under the mutex, the caches and the insertion together keep one
   node per key: no request splits its counters over two.  Keys of 256 bytes
   and more are excepted, because their stored length is cut to a byte. *)
UniqueNodes ==
  \A a, b \in rbtree :
    shm[a].key = shm[b].key /\ shm[a].key \notin LongKeys => a = b

(* The slab and the tree agree: a linked node is never free, and a chunk that
   is allocated but not linked is the one being inserted, unless the worker
   that allocated it died before the insertion. *)
SlabAccounted ==
  /\ rbtree \subseteq slab
  /\ hist.crashes = 0 =>
       \A a \in slab \ rbtree : \E w \in Workers : pc[w] = "insert" /\ slot[w] = a

(* filter_max_node bounds the filter nodes it matches, over every interleaving
   of evictions, insertions, deletions and crashes; each time a request pool
   was exhausted may cost one node more. *)
FilterBound ==
  filter_max_node > 0 => Cardinality(FilterNodes) <= filter_max_node + hist.oom

InjectiveHash == \A j, k \in Keys : HashOf[j] = HashOf[k] => j = k

(* A displayed counter never exceeds the requests logged for its key since the
   node was created or reset, although slots are reused for other keys while
   caches still point at them. *)
NeverOvercounts ==
  InjectiveHash =>
    \A a \in rbtree : shm[a].key \notin LongKeys => shm[a].count <= hist.due[shm[a].key]

(* As long as nothing has been evicted or deleted, every counter is exact and
   every cached slot is a live node.  After that, a request may be counted on
   a freed slot through a stale cache. *)
ExactUntilRemoval ==
  hist.removed = 0 =>
    /\ \A w \in Workers, l \in Locs, g \in Groups : node_caches[w][l][g] \in rbtree \cup {Null}
    /\ InjectiveHash =>
         \A a \in rbtree : shm[a].key \notin LongKeys => shm[a].count = hist.due[shm[a].key]

(* Every request that reached the log phase finishes it: no worker waits for
   the mutex forever, while pools and slab errors leave it unlocked. *)
LogCompletes == \A w \in Workers : todo[w] # <<>> ~> todo[w] = <<>>

(* The zone implements StatStore: whatever slots, caches and the mutex do, a
   reader under the mutex sees one counter per key and only the changes a
   logged request, an eviction or a control command makes. *)
LiveKeys == {shm[a].key : a \in rbtree}
SlotOf(k) == CHOOSE a \in rbtree : shm[a].key = k

Store == INSTANCE StatStore WITH
  zone <- [k \in LiveKeys |-> shm[SlotOf(k)].count], commands <- hist.controls

ImplementsStatStore == Store!Spec
=============================================================================
