------------------------------- MODULE VtsDump ------------------------------
(***************************************************************************)
(* Dumping the zone to a file and restoring it.  Every worker dumps from a *)
(* timer and once more when it exits, and restores when it starts, be that *)
(* at the start of the master, after a reload or in place of a worker that *)
(* died.  The file is truncated when it is opened and locked after that;   *)
(* the tree is walked, and the file read, without any lock.                *)
(*                                                                         *)
(* The zone is the set of keys that have a node and their counters: its    *)
(* own changes are VtsShm.  The file is a sequence of cells: the header, a *)
(* node, each piece of a key and a pad take one cell each, so records of   *)
(* keys of different lengths need not line up.                             *)
(*                                                                         *)
(* A node has its key's length modulo 256 (shm.c:150), so of a longer key  *)
(* the file holds the first bytes only, and of one of 256 bytes none.  A   *)
(* worker finds such a node through its cache and never by a lookup, so    *)
(* there may be several: each stands for a key of its own here.            *)
(***************************************************************************)
EXTENDS Integers, Sequences, FiniteSets, FiniteSetsExt

CONSTANTS
  Workers, Keys,
  KeyLen,            \* KeyLen[k]: cells that the bytes of k take in the file
  Stem,              \* Stem[k]: the key that these bytes spell, k itself unless it is cut
  Capacity,          \* nodes the slab holds
  dump_period,       \* vhost_traffic_status_dump's period
  Null,
  MaxRequests, MaxRemovals, MaxCrashes, MaxErrors, MaxRestarts, MaxStops, MaxRecords, MaxTime
                     \* bounds

ASSUME KeyAssumption ==
  /\ IsFiniteSet(Keys) /\ KeyLen \in [Keys -> Nat] /\ Stem \in [Keys -> Keys]
  /\ \A k \in Keys : Stem[Stem[k]] = Stem[k] /\ KeyLen[Stem[k]] = KeyLen[k]
ASSUME NullAssumption == Null \notin Workers /\ Null \notin Keys
ASSUME NumberAssumption ==
  {Capacity, dump_period, MaxRequests, MaxRemovals, MaxCrashes, MaxErrors, MaxRestarts,
   MaxStops, MaxRecords, MaxTime} \subseteq Nat

VARIABLES
  tree,      \* the keys that have a node
  count,     \* their counters; a removed node keeps its contents
  file,      \* the cells of the dump file
  lock,      \* the worker that holds the file lock, or Null
  now,
  pc,        \* where a worker is
  quit,      \* the workers that are exiting
  io,        \* a worker's dump or restore: offset, record under way, walk
  hist       \* history: requests logged and what a restart owes, under the keys that the
             \* bytes in the file spell, and past events

vars == <<tree, count, file, lock, now, pc, quit, io, hist>>

Cell(part, k, n) == [part |-> part, key |-> k, n |-> n]
Header(t) == Cell("header", Null, t)
Node(k) == Cell("node", k, count[k])
Pad == Cell("pad", Null, 0)
Hole == Cell("hole", Null, 0)
KeyBytes(k) == [i \in 1 .. KeyLen[k] |-> Cell("data", Stem[k], i)]

\* write(2) at a descriptor's own offset: what lies before it reads as zeros.
Put(f, pos, cells) ==
  LET end == pos + Len(cells)
  IN  [i \in 1 .. IF end > Len(f) THEN end ELSE Len(f) |->
        IF i \in pos + 1 .. end THEN cells[i - pos] ELSE IF i <= Len(f) THEN f[i] ELSE Hole]

NoIO == [pos |-> 0, key |-> Null, n |-> 0, seen |-> {}, records |-> 0, walk |-> "still"]

Live(k) == IF k \in tree THEN count[k] ELSE 0
Nothing == [k \in Keys |-> 0]

\* What the zone holds under the bytes of key c: of several nodes with these bytes, the
\* first one in a file is restored, so no more is sure than the least counter.
Spelling(c) == {k \in tree : Stem[k] = c}
Fewest(c) == IF Spelling(c) = {} THEN 0 ELSE Min({count[k] : k \in Spelling(c)})

Init ==
  /\ tree = {} /\ count = Nothing
  /\ file = <<>> /\ lock = Null /\ now = 0
  /\ pc = [w \in Workers |-> "off"]
  /\ quit = {}
  /\ io = [w \in Workers |-> NoIO]
  /\ hist = [logged |-> Nothing, saved |-> Nothing, taking |-> Nothing, owed |-> Nothing,
             up |-> FALSE, disturbed |-> FALSE,
             removals |-> 0, crashes |-> 0, errors |-> 0, restarts |-> 0, stops |-> 0]

Writing == {w \in Workers : pc[w] \in {"node", "key"}}
Opened == Writing \cup {w \in Workers : pc[w] = "wait"}
Reading == {w \in Workers : pc[w] \in {"restore", "restore_key"}}

\* How much a change of the tree upsets the walks that are under way.
Upset(how) ==
  io' = [w \in Workers |-> IF w \in Writing /\ io[w].walk # "torn" THEN [io[w] EXCEPT !.walk = how]
                           ELSE io[w]]

-----------------------------------------------------------------------------
(* The zone *)

\* A request is logged on a node, or creates it.
Request(w, k) ==
  /\ pc[w] = "run"
  /\ count[k] < MaxRequests
  /\ k \in tree \/ Cardinality(tree) < Capacity
  /\ IF k \in tree THEN UNCHANGED io ELSE Upset("moved")
  /\ tree' = tree \cup {k}
  /\ count' = [count EXCEPT ![k] = IF k \in tree THEN @ + 1 ELSE 1]
  /\ hist' = [hist EXCEPT !.logged[Stem[k]] = @ + 1,
                          !.taking = IF k \in tree THEN @ ELSE Nothing]
  /\ UNCHANGED <<file, lock, now, pc, quit>>

\* A node is evicted or deleted.
Remove(w, k) ==
  /\ pc[w] = "run"
  /\ k \in tree
  /\ hist.removals < MaxRemovals
  /\ tree' = tree \ {k}
  /\ Upset("torn")
  /\ hist' = [hist EXCEPT !.removals = @ + 1, !.owed[k] = 0, !.saved[k] = 0, !.taking = Nothing,
                          !.disturbed = @ \/ Writing # {}]
  /\ UNCHANGED <<count, file, lock, now, pc, quit>>

-----------------------------------------------------------------------------
(* Dumping *)

\* The file begins with this zone's header.
HasHeader == file # <<>> /\ file[1].part = "header"

\* The difference is unsigned: a time in the future is old as well.
Old == file[1].n > now \/ now - file[1].n > dump_period

\* dump_update_valid: there is no header, another one, or one that is too old.
Due == HasHeader => Old

\* Mutant: a file that cannot be read is left alone.
TimerReadable(w) ==
  /\ pc[w] = "run"
  /\ HasHeader /\ Due
  /\ pc' = [pc EXCEPT ![w] = "due"]
  /\ UNCHANGED <<tree, count, file, lock, now, quit, io, hist>>

\* dump_handler, once a second: dumps when the file is out of date.
Timer(w) ==
  /\ pc[w] = "run"
  /\ Due
  /\ pc' = [pc EXCEPT ![w] = "due"]
  /\ UNCHANGED <<tree, count, file, lock, now, quit, io, hist>>

\* Mutant: the last dump minds the period too.
ExitIfDue(w) ==
  /\ pc[w] = "run"
  /\ hist.stops < MaxStops
  /\ pc' = [pc EXCEPT ![w] = IF Due THEN "due" ELSE "off"]
  /\ quit' = IF Due THEN quit \cup {w} ELSE quit
  /\ hist' = [hist EXCEPT !.stops = @ + 1]
  /\ UNCHANGED <<tree, count, file, lock, now, io>>

\* exit_worker: a worker that is told to exit dumps unconditionally.
Exit(w) ==
  /\ pc[w] = "run"
  /\ hist.stops < MaxStops
  /\ pc' = [pc EXCEPT ![w] = "due"]
  /\ quit' = quit \cup {w}
  /\ hist' = [hist EXCEPT !.stops = @ + 1]
  /\ UNCHANGED <<tree, count, file, lock, now, io>>

\* dump_execute returns.
Done(w) ==
  /\ pc' = [pc EXCEPT ![w] = IF w \in quit THEN "off" ELSE "run"]
  /\ quit' = quit \ {w}
  /\ lock' = IF lock = w THEN Null ELSE lock
  /\ UNCHANGED <<tree, count, now>>

\* The file is opened, which empties it, whoever is writing it.
Open(w) ==
  /\ pc[w] = "due"
  /\ file' = <<>>
  /\ pc' = [pc EXCEPT ![w] = "wait"]
  /\ hist' = [hist EXCEPT !.saved = Nothing, !.taking = Nothing,
                          !.disturbed = @ \/ (Opened \cup Reading) # {}]
  /\ UNCHANGED <<tree, count, lock, now, quit, io>>

\* Mutant: the descriptor appends.
WalkAppending(w) ==
  /\ file' = Put(file, Len(file), <<Header(now)>>)
  /\ io' = [io EXCEPT ![w] = [NoIO EXCEPT !.pos = Len(file) + 1]]
  /\ pc' = [pc EXCEPT ![w] = "node"]

\* The header is written at the start, and the walk starts at the root.
Walk(w) ==
  /\ file' = Put(file, 0, <<Header(now)>>)
  /\ io' = [io EXCEPT ![w] = [NoIO EXCEPT !.pos = 1]]
  /\ pc' = [pc EXCEPT ![w] = "node"]

Lock(w) ==
  /\ pc[w] = "wait"
  /\ lock = Null
  /\ lock' = w
  /\ Walk(w)
  /\ hist' = [hist EXCEPT !.saved = Nothing,
                          !.taking = IF Writing = {} THEN [c \in Keys |-> Fewest(c)] ELSE Nothing]
  /\ UNCHANGED <<tree, count, now, quit>>

\* A signal interrupts the wait for the lock; the walk goes on without it.
LockInterrupted(w) ==
  /\ pc[w] = "wait"
  /\ lock # Null
  /\ hist.errors < MaxErrors
  /\ Walk(w)
  /\ hist' = [hist EXCEPT !.errors = @ + 1, !.saved = Nothing, !.taking = Nothing,
                          !.disturbed = TRUE]
  /\ UNCHANGED <<tree, count, lock, now, quit>>

\* The file cannot be opened, or its header not written.
DumpFailed(w) ==
  /\ pc[w] = "due" \/ (pc[w] = "wait" /\ lock = Null)
  /\ hist.errors < MaxErrors
  /\ Done(w)
  /\ hist' = [hist EXCEPT !.errors = @ + 1]
  /\ UNCHANGED <<file, io>>

\* The nodes a walk may come to next.  One that nothing upset comes to each
\* node once.  Rotations can hide a node from a walk or bring it back to one;
\* a node that was removed shows what its memory holds.
Ahead(w) ==
  IF io[w].walk = "still" THEN tree \ io[w].seen
  ELSE IF io[w].records = MaxRecords THEN {}
  ELSE IF io[w].walk = "moved" THEN tree ELSE {k \in Keys : count[k] > 0}

\* What remains of the promises of a dump by w when it comes to k: a record without key
\* bytes ends every restore, and what is behind it is lost.
Promised(w, k) ==
  IF KeyLen[k] # 0 THEN hist.taking
  ELSE [c \in Keys |-> IF \E j \in io[w].seen : Stem[j] = c THEN hist.taking[c] ELSE 0]

\* dump_node_write writes the node, then the key and the pad.
WriteNode(w, k) ==
  /\ pc[w] = "node"
  /\ k \in Ahead(w)
  /\ file' = Put(file, io[w].pos, <<Node(k)>>)
  /\ io' = [io EXCEPT ![w].pos = @ + 1, ![w].key = k, ![w].seen = @ \cup {k},
                      ![w].records = @ + 1]
  /\ pc' = [pc EXCEPT ![w] = "key"]
  /\ hist' = [hist EXCEPT !.taking = Promised(w, k)]
  /\ UNCHANGED <<tree, count, lock, now, quit>>

WriteKey(w) ==
  /\ pc[w] = "key"
  /\ \E k \in IF io[w].walk = "torn" THEN Keys ELSE {io[w].key} :
       LET cells == Append(KeyBytes(k), Pad)
       IN  /\ file' = Put(file, io[w].pos, cells)
           /\ io' = [io EXCEPT ![w].pos = @ + Len(cells), ![w].key = Null]
  /\ pc' = [pc EXCEPT ![w] = "node"]
  /\ UNCHANGED <<tree, count, lock, now, quit, hist>>

\* A write fails; nobody looks.
WriteFailed(w) ==
  /\ hist.errors < MaxErrors
  /\ \/ /\ pc[w] = "node"
        /\ \E k \in Ahead(w) :
             io' = [io EXCEPT ![w].key = k, ![w].seen = @ \cup {k}, ![w].records = @ + 1]
        /\ pc' = [pc EXCEPT ![w] = "key"]
     \/ /\ pc[w] = "key"
        /\ pc' = [pc EXCEPT ![w] = "node"]
        /\ UNCHANGED io
  /\ hist' = [hist EXCEPT !.errors = @ + 1, !.taking = Nothing, !.disturbed = TRUE]
  /\ UNCHANGED <<tree, count, file, lock, now, quit>>

\* Mutant: the lock is kept.
CloseLocked(w) ==
  /\ pc[w] = "node"
  /\ io[w].walk = "still" => Ahead(w) = {}
  /\ pc' = [pc EXCEPT ![w] = IF w \in quit THEN "off" ELSE "run"]
  /\ quit' = quit \ {w}
  /\ io' = [io EXCEPT ![w] = NoIO]
  /\ UNCHANGED <<tree, count, file, lock, now, hist>>

\* The walk is over.
Close(w) ==
  /\ pc[w] = "node"
  /\ io[w].walk = "still" => Ahead(w) = {}
  /\ Done(w)
  /\ io' = [io EXCEPT ![w] = NoIO]
  /\ hist' = [hist EXCEPT !.saved = IF lock = w THEN hist.taking ELSE @, !.taking = Nothing]
  /\ UNCHANGED file

-----------------------------------------------------------------------------
(* Restoring *)

Restored(w) ==
  /\ pc' = [pc EXCEPT ![w] = "run"]
  /\ io' = [io EXCEPT ![w] = NoIO]
  /\ hist' = [hist EXCEPT !.up = TRUE]
  /\ UNCHANGED <<tree, count>>

\* init_worker: the file is opened and its header checked.
Start(w) ==
  /\ pc[w] = "off"
  /\ \/ /\ HasHeader
        /\ pc' = [pc EXCEPT ![w] = "restore"]
        /\ io' = [io EXCEPT ![w].pos = 1]
        /\ hist' = [hist EXCEPT !.disturbed = @ \/ Opened # {}]
        /\ UNCHANGED <<tree, count>>
     \/ /\ ~ HasHeader
        /\ Restored(w)
  /\ UNCHANGED <<file, lock, now, quit>>

\* A node is read.  Cells that are no node make a length out of other bytes:
\* the restore goes on anywhere behind, over 1024 without a look at the pad, or
\* ends.  The key it may have read is nobody's.
ReadNode(w) ==
  LET pos == io[w].pos
  IN  /\ pc[w] = "restore"
      /\ \/ /\ pos < Len(file)
            /\ file[pos + 1].part = "node"
            /\ io' = [io EXCEPT ![w].pos = pos + 1, ![w].key = file[pos + 1].key,
                                ![w].n = file[pos + 1].n]
            /\ pc' = [pc EXCEPT ![w] = "restore_key"]
            /\ UNCHANGED <<tree, count, hist>>
         \/ /\ pos < Len(file)
            /\ file[pos + 1].part # "node"
            /\ \E end \in pos + 1 .. Len(file) : io' = [io EXCEPT ![w].pos = end]
            /\ UNCHANGED <<pc, tree, count, hist>>
         \/ /\ pos < Len(file) => file[pos + 1].part # "node"
            /\ Restored(w)
      /\ UNCHANGED <<file, lock, now, quit>>

\* Mutant: a node that exists takes the restored counter on top of its own.
AddNodeOnTop(w, k) ==
  /\ tree' = tree \cup {k}
  /\ count' = [count EXCEPT ![k] = IF k \in tree THEN @ + io[w].n ELSE io[w].n]

\* restore_add_node: only a key without a node gets one, the key that the bytes spell.
AddNode(w, k) ==
  IF k \in tree \cup {Null} THEN UNCHANGED <<tree, count>>
  ELSE /\ tree' = tree \cup {k}
       /\ count' = [count EXCEPT ![k] = io[w].n]

\* The keys that are spelled behind position pos; bytes pieced together from several
\* records are nobody's.
KeysAt(pos, n) ==
  {k \in Keys : Stem[k] = k /\ KeyLen[k] = n /\ SubSeq(file, pos + 1, pos + n) = KeyBytes(k)}

\* Mutant: the slab is taken to have room.
HasRoomAlways(k) == TRUE

HasRoom(k) == k \in tree \cup {Null} \/ Cardinality(tree) < Capacity

\* The key and the pad are read, and the node is added unless its key has one.  A node
\* that cannot be added, for its key is empty or the slab is full, ends the restore.
ReadKey(w) ==
  LET pos == io[w].pos
      end == pos + KeyLen[io[w].key] + 1
      whole == end <= Len(file) /\ file[end] = Pad
      keys == KeysAt(pos, KeyLen[io[w].key])
      k == IF keys = {} THEN Null ELSE CHOOSE j \in keys : TRUE
      added == whole /\ KeyLen[io[w].key] # 0 /\ HasRoom(k)
  IN  /\ pc[w] = "restore_key"
      /\ \/ /\ added
            /\ AddNode(w, k)
            /\ pc' = [pc EXCEPT ![w] = "restore"]
            /\ io' = [v \in Workers |->
                 IF v = w THEN [NoIO EXCEPT !.pos = end]
                 ELSE IF v \in Writing /\ tree' # tree /\ io[v].walk = "still"
                 THEN [io[v] EXCEPT !.walk = "moved"] ELSE io[v]]
            /\ hist' = [hist EXCEPT !.taking = IF tree' = tree THEN @ ELSE Nothing]
         \/ /\ ~added
            /\ Restored(w)
      /\ UNCHANGED <<file, lock, now, quit>>

-----------------------------------------------------------------------------
(* Around the module *)

\* A worker dies; the kernel releases the file lock.
Crash(w) ==
  /\ pc[w] # "off"
  /\ hist.crashes < MaxCrashes
  /\ pc' = [pc EXCEPT ![w] = "off"]
  /\ quit' = quit \ {w}
  /\ lock' = IF lock = w THEN Null ELSE lock
  /\ io' = [io EXCEPT ![w] = NoIO]
  /\ hist' = [hist EXCEPT !.crashes = @ + 1,
                          !.taking = IF w \in Writing THEN Nothing ELSE @]
  /\ UNCHANGED <<tree, count, file, now>>

\* The master stops and starts again, with a new zone.
Restart ==
  /\ \A w \in Workers : pc[w] = "off"
  /\ hist.restarts < MaxRestarts
  /\ tree' = {} /\ count' = Nothing
  /\ hist' = [hist EXCEPT !.restarts = @ + 1, !.owed = hist.saved, !.up = FALSE]
  /\ UNCHANGED <<file, lock, now, pc, quit, io>>

Tick ==
  /\ now' \in 0 .. MaxTime
  /\ UNCHANGED <<tree, count, file, lock, pc, quit, io, hist>>

Dump(w) ==
  \/ Timer(w) \/ Open(w) \/ (\E k \in Keys : WriteNode(w, k)) \/ WriteKey(w) \/ Close(w)

Restore(w) == ReadNode(w) \/ ReadKey(w)

Next ==
  \/ Restart \/ Tick
  \/ \E w \in Workers :
       \/ \E k \in Keys : Request(w, k) \/ Remove(w, k)
       \/ Dump(w) \/ Exit(w) \/ Lock(w) \/ LockInterrupted(w) \/ DumpFailed(w) \/ WriteFailed(w)
       \/ Start(w) \/ Restore(w) \/ Crash(w)

Spec == Init /\ [][Next]_vars

\* A worker that runs goes on with what it does, its timer fires again, and
\* the file lock is granted to one that keeps waiting.
Fairness == \A w \in Workers : WF_vars(Dump(w)) /\ WF_vars(Restore(w)) /\ SF_vars(Lock(w))

FairSpec == Spec /\ Fairness

-----------------------------------------------------------------------------
(* Properties *)

CellType == [part : {"header", "node", "data", "pad", "hole"}, key : Keys \cup {Null}, n : Nat]

(* Type correctness; restoring does not take more nodes than the slab has. *)
TypeOK ==
  /\ tree \subseteq Keys /\ Cardinality(tree) <= Capacity
  /\ count \in [Keys -> Nat]
  /\ file \in Seq(CellType)
  /\ lock \in Workers \cup {Null}
  /\ now \in Nat
  /\ pc \in [Workers -> {"off", "restore", "restore_key", "run", "due", "wait", "node", "key"}]
  /\ quit \subseteq Workers
  /\ io \in [Workers -> [pos : Nat, key : Keys \cup {Null}, n : Nat, seen : SUBSET Keys,
                         records : Nat, walk : {"still", "moved", "torn"}]]

(* When every worker has exited of its own accord, the file owes a restart the
   zone exactly as the last request left it, although the exiting workers
   truncate the file under each other's dumps: the one that gets the lock
   last writes over whatever is there, and nobody counts any more.  If the zone
   holds a key whose length is cut to 0, what the walk meets behind it is lost. *)
GracefulExact ==
  (\A w \in Workers : pc[w] = "off") /\ hist.crashes = 0 /\ hist.errors = 0 /\ hist.stops > 0
    /\ hist.restarts = 0 =>
    \A c \in Keys :
      \/ hist.saved[c] = Fewest(c)
      \/ hist.saved[c] = 0 /\ \E k \in tree : KeyLen[k] = 0

(* A restart brings back what the last dump owes it: every key of a dump that
   nobody truncated, upset or cut short, at no less than its counter when the
   dump took the lock.  A key of more than 256 bytes comes back as the one that its first
   bytes spell; a record without key bytes ends the restore, so that the dump owes
   only what it wrote before one. *)
RestartKeeps ==
  hist.up => \A k \in Keys : Live(k) >= hist.owed[k]

(* Restoring never invents requests: no counter exceeds what was ever logged
   for its key and those that are cut to the same bytes, through crashes at any step,
   partial files, nodes dumped twice and nodes restored after they were deleted.
   Dumps and restores that overlap, failed writes and removals under a walk are
   excepted: they can put one key's bytes behind another's counters. *)
NoInvention ==
  ~ hist.disturbed => \A k \in Keys : Live(k) <= hist.logged[Stem[k]]

(* A worker that has begun to dump comes to an end of it. *)
DumpCompletes == \A w \in Workers : w \in quit ~> w \notin quit

(* While a worker runs, a file that is missing, unreadable or out of date is
   dumped again, whatever became of earlier dumps. *)
DumpHappens ==
  (Due /\ \E w \in Workers : pc[w] = "run") ~> (~ Due \/ \A w \in Workers : pc[w] = "off")
=============================================================================
