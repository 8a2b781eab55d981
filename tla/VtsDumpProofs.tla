---------------------------- MODULE VtsDumpProofs ----------------------------
(***************************************************************************)
(* The dump and the restore, for any workers, keys and lengths of keys.    *)
(* TypeCorrect: a worker that restores a file written over by others, cut  *)
(* short or misread takes no more nodes than the slab has.  A type says    *)
(* too little of the file: a node's cell must name a key, or the restore   *)
(* would take the length of a key that is none.  GracefulIsExact,          *)
(* NothingInvented and RestartBringsBack say what the file and the         *)
(* restored zone hold.  NothingInvented rests on SoundInv, what is known   *)
(* of every record of the file and of every worker in the middle of one;   *)
(* the other two on KeepInv, which adds what a dump under way, the file    *)
(* and a restart owe.                                                      *)
(***************************************************************************)
EXTENDS VtsDump, Induction, FiniteSetTheorems, TLAPS

Labels == {"off", "restore", "restore_key", "run", "due", "wait", "node", "key"}
IOs == [pos : Nat, key : Keys \cup {Null}, n : Nat, seen : SUBSET Keys,
        records : Nat, walk : {"still", "moved", "torn"}]

Cells == {c \in CellType : c.part = "node" => c.key \in Keys}

\* Half way through a record a worker has its key in hand.
KeyInHand == \A w \in Workers : pc[w] \in {"key", "restore_key"} => io[w].key \in Keys

IInv == TypeOK /\ file \in Seq(Cells) /\ KeyInHand

LEMMA CellTypes ==
  ASSUME IInv, NEW k \in Keys
  PROVE  /\ Hole \in Cells /\ Pad \in Cells /\ Node(k) \in Cells /\ Header(now) \in Cells
         /\ KeyBytes(k) \in Seq(Cells) /\ Append(KeyBytes(k), Pad) \in Seq(Cells)
         /\ Len(Append(KeyBytes(k), Pad)) \in Nat
  <1>1. count[k] \in Nat /\ now \in Nat /\ KeyLen[k] \in Nat /\ Stem[k] \in Keys
    BY KeyAssumption DEF IInv, TypeOK
  <1>2. Hole \in Cells /\ Pad \in Cells /\ Node(k) \in Cells /\ Header(now) \in Cells
    BY <1>1 DEF Hole, Pad, Node, Header, Cell, Cells, CellType
  <1>3. \A i \in 1 .. KeyLen[k] : Cell("data", Stem[k], i) \in Cells
    BY <1>1 DEF Cell, Cells, CellType
  <1>4. KeyBytes(k) \in Seq(Cells)
    BY <1>1, <1>3 DEF KeyBytes
  <1> QED BY <1>2, <1>4

\* Writing at an offset, behind the end of the file or within it, leaves cells.
LEMMA PutType ==
  ASSUME NEW S, NEW f \in Seq(S), NEW pos \in Nat, NEW cells \in Seq(S), Hole \in S
  PROVE  Put(f, pos, cells) \in Seq(S)
  <1> DEFINE end == pos + Len(cells)
             len == IF end > Len(f) THEN end ELSE Len(f)
  <1>1. end \in Nat /\ len \in Nat
    OBVIOUS
  <1>2. ASSUME NEW i \in 1 .. len
        PROVE  (IF i \in pos + 1 .. end THEN cells[i - pos]
                ELSE IF i <= Len(f) THEN f[i] ELSE Hole) \in S
    <2>1. CASE i \in pos + 1 .. end
      <3>1. i - pos \in 1 .. Len(cells)
        BY <2>1
      <3> QED BY <3>1, <2>1
    <2>2. CASE i \notin pos + 1 .. end
      BY <2>2
    <2> QED BY <2>1, <2>2
  <1> HIDE DEF len
  <1>3. [i \in 1 .. len |-> IF i \in pos + 1 .. end THEN cells[i - pos]
                            ELSE IF i <= Len(f) THEN f[i] ELSE Hole] \in Seq(S)
    BY <1>1, <1>2
  <1> QED BY <1>3 DEF Put, len

\* Any node more is within the slab when the slab has room, one less always is.
LEMMA Room ==
  ASSUME tree \subseteq Keys, Cardinality(tree) <= Capacity, NEW k \in Keys
  PROVE  /\ Cardinality(tree) < Capacity => Cardinality(tree \cup {k}) <= Capacity
         /\ k \in tree => tree \cup {k} = tree
         /\ Cardinality(tree \ {k}) <= Capacity
  <1>1. IsFiniteSet(tree) /\ Capacity \in Nat
    BY FS_Subset, KeyAssumption, NumberAssumption
  <1>2. Cardinality(tree) \in Nat
    BY <1>1, FS_CardinalityType
  <1>3. k \in tree => tree \cup {k} = tree
    OBVIOUS
  <1>4. Cardinality(tree \cup {k}) = IF k \in tree THEN Cardinality(tree) ELSE Cardinality(tree) + 1
    BY <1>1, FS_AddElement
  <1>5. Cardinality(tree \ {k}) = IF k \in tree THEN Cardinality(tree) - 1 ELSE Cardinality(tree)
    BY <1>1, FS_RemoveElement
  <1> QED BY <1>1, <1>2, <1>3, <1>4, <1>5

LEMMA NoIOType == NoIO \in IOs /\ \A p \in Nat : [NoIO EXCEPT !.pos = p] \in IOs
  <1>1. NoIO \in IOs
    BY DEF NoIO, IOs
  <1> QED BY <1>1 DEF IOs

\* What a step writes into the record of a worker.
LEMMA Fields ==
  ASSUME NEW x \in IOs, NEW p \in Nat, NEW k \in Keys \cup {Null}, NEW n \in Nat,
         NEW s \in SUBSET Keys, NEW c \in Nat
  PROVE  /\ [x EXCEPT !.pos = p, !.key = k, !.n = n] \in IOs
         /\ [x EXCEPT !.pos = p, !.key = k, !.seen = s, !.records = c] \in IOs
         /\ [x EXCEPT !.key = k, !.seen = s, !.records = c] \in IOs
         /\ [x EXCEPT !.pos = p, !.key = k] \in IOs
  BY DEF IOs

\* A walk that is upset keeps its place and its key.
LEMMA UpsetType ==
  ASSUME IInv, NEW how \in {"still", "moved", "torn"}, Upset(how), pc' = pc
  PROVE  io' \in [Workers -> IOs] /\ KeyInHand'
  <1>1. io \in [Workers -> IOs]
    BY DEF IInv, TypeOK, IOs
  <1>2. ASSUME NEW w \in Workers
        PROVE  [io[w] EXCEPT !.walk = how] \in IOs /\ [io[w] EXCEPT !.walk = how].key = io[w].key
    <2>1. io[w] \in IOs
      BY <1>1
    <2> QED BY <2>1 DEF IOs
  <1>3. io' \in [Workers -> IOs] /\ \A w \in Workers : io'[w].key = io[w].key
    BY <1>1, <1>2 DEF Upset
  <1> QED BY <1>3 DEF IInv, KeyInHand

\* One worker goes on, with its key in hand where it needs one.
LEMMA WorkerStep ==
  ASSUME IInv, NEW w \in Workers, NEW r \in IOs, NEW l \in Labels,
         l \in {"key", "restore_key"} => r.key \in Keys,
         io' = [io EXCEPT ![w] = r], pc' = [pc EXCEPT ![w] = l]
  PROVE  io' \in [Workers -> IOs] /\ pc' \in [Workers -> Labels] /\ KeyInHand'
  <1>1. io \in [Workers -> IOs] /\ pc \in [Workers -> Labels] /\ KeyInHand
    BY DEF IInv, TypeOK, IOs, Labels
  <1>2. io' \in [Workers -> IOs] /\ pc' \in [Workers -> Labels]
    BY <1>1
  <1>3. /\ io'[w] = r /\ pc'[w] = l
        /\ \A v \in Workers : v # w => io'[v] = io[v] /\ pc'[v] = pc[v]
    BY <1>1
  <1>4. ASSUME NEW v \in Workers, pc'[v] \in {"key", "restore_key"} PROVE io'[v].key \in Keys
    BY <1>1, <1>3, <1>4 DEF KeyInHand
  <1> QED BY <1>2, <1>4 DEF KeyInHand

LEMMA WorkerAt ==
  ASSUME IInv, NEW w \in Workers
  PROVE  io[w] \in IOs /\ pc[w] \in Labels /\ io = [io EXCEPT ![w] = io[w]]
  BY DEF IInv, TypeOK, IOs, Labels

\* A worker goes on to a place where it needs no key, or stays with what it has.
LEMMA PlaceStep ==
  ASSUME IInv, NEW w \in Workers, NEW l \in Labels \ {"key", "restore_key"},
         io' = io, pc' = [pc EXCEPT ![w] = l]
  PROVE  io' \in [Workers -> IOs] /\ pc' \in [Workers -> Labels] /\ KeyInHand'
  <1>1. l \in {"key", "restore_key"} => io[w].key \in Keys
    OBVIOUS
  <1> QED BY <1>1, WorkerAt, WorkerStep

\* What is left to show of a step once the parts of the state are typed.
LEMMA Parts ==
  ASSUME tree' \subseteq Keys, Cardinality(tree') <= Capacity, count' \in [Keys -> Nat],
         file' \in Seq(Cells), lock' \in Workers \cup {Null}, now' \in Nat,
         pc' \in [Workers -> Labels], quit' \subseteq Workers, io' \in [Workers -> IOs], KeyInHand'
  PROVE  IInv'
  <1>1. Cells \subseteq CellType
    BY DEF Cells
  <1>2. file' \in Seq(CellType)
    <2>1. \A i \in 1 .. Len(file') : file'[i] \in CellType
      BY <1>1
    <2>2. Len(file') \in Nat /\ file' = [i \in 1 .. Len(file') |-> file'[i]]
      OBVIOUS
    <2>3. [i \in 1 .. Len(file') |-> file'[i]] \in Seq(CellType)
      BY <2>1, <2>2
    <2> QED BY <2>2, <2>3
  <1> QED BY <1>2 DEF IInv, TypeOK, Labels, IOs

LEMMA Now ==
  ASSUME IInv
  PROVE  /\ tree \subseteq Keys /\ Cardinality(tree) <= Capacity /\ count \in [Keys -> Nat]
         /\ file \in Seq(Cells) /\ lock \in Workers \cup {Null} /\ now \in Nat
         /\ pc \in [Workers -> Labels] /\ quit \subseteq Workers
         /\ io \in [Workers -> IOs] /\ KeyInHand
  BY DEF IInv, TypeOK, Labels, IOs

(* The zone. *)

LEMMA RequestInv == ASSUME IInv, NEW w \in Workers, NEW k \in Keys, Request(w, k) PROVE IInv'
  <1>1. /\ tree' = tree \cup {k}
        /\ k \in tree \/ Cardinality(tree) < Capacity
        /\ count' = [count EXCEPT ![k] = IF k \in tree THEN @ + 1 ELSE 1]
        /\ UNCHANGED <<file, lock, now, pc, quit>>
    BY DEF Request
  <1>2. tree' \subseteq Keys /\ Cardinality(tree') <= Capacity
    BY <1>1, Now, Room
  <1>3. count' \in [Keys -> Nat]
    BY <1>1, Now
  <1>4. io' \in [Workers -> IOs] /\ KeyInHand'
    <2>1. CASE k \in tree
      <3>1. io' = io
        BY <2>1 DEF Request
      <3> QED BY <3>1, <1>1, Now DEF KeyInHand
    <2>2. CASE k \notin tree
      <3>1. Upset("moved")
        BY <2>2 DEF Request
      <3> QED BY <3>1, <1>1, UpsetType
    <2> QED BY <2>1, <2>2
  <1> QED BY <1>1, <1>2, <1>3, <1>4, Now, Parts

LEMMA RemoveInv == ASSUME IInv, NEW w \in Workers, NEW k \in Keys, Remove(w, k) PROVE IInv'
  <1>1. /\ tree' = tree \ {k} /\ Upset("torn")
        /\ UNCHANGED <<count, file, lock, now, pc, quit>>
    BY DEF Remove
  <1>2. tree' \subseteq Keys /\ Cardinality(tree') <= Capacity
    BY <1>1, Now, Room
  <1>3. io' \in [Workers -> IOs] /\ KeyInHand'
    BY <1>1, UpsetType
  <1> QED BY <1>1, <1>2, <1>3, Now, Parts

(* Dumping. *)

LEMMA PlacesInv ==
  ASSUME IInv, NEW w \in Workers, Timer(w) \/ Exit(w) \/ Open(w) PROVE IInv'
  <1>1. PICK l \in {"due", "wait"} : pc' = [pc EXCEPT ![w] = l]
    BY DEF Timer, Exit, Open
  <1>2. /\ io' = io /\ tree' = tree /\ count' = count /\ lock' = lock /\ now' = now
        /\ quit' \in {quit, quit \cup {w}} /\ file' \in {file, <<>>}
    BY DEF Timer, Exit, Open
  <1>3. l \in Labels \ {"key", "restore_key"}
    BY DEF Labels
  <1>4. io' \in [Workers -> IOs] /\ pc' \in [Workers -> Labels] /\ KeyInHand'
    BY <1>1, <1>2, <1>3, PlaceStep
  <1>5. file' \in Seq(Cells) /\ quit' \subseteq Workers
    <2>1. <<>> \in Seq(Cells) /\ file \in Seq(Cells)
      BY Now
    <2>2. quit \cup {w} \subseteq Workers /\ quit \subseteq Workers
      BY Now
    <2> QED BY <1>2, <2>1, <2>2
  <1> QED BY <1>2, <1>4, <1>5, Now, Parts

LEMMA WalkStep ==
  ASSUME IInv, NEW w \in Workers, Walk(w)
  PROVE  /\ file' \in Seq(Cells) /\ io' \in [Workers -> IOs] /\ pc' \in [Workers -> Labels]
         /\ KeyInHand'
  <1> DEFINE r == [NoIO EXCEPT !.pos = 1]
  <1>1. file' = Put(file, 0, <<Header(now)>>) /\ io' = [io EXCEPT ![w] = r]
        /\ pc' = [pc EXCEPT ![w] = "node"]
    BY DEF Walk
  <1>2. Header(now) \in Cells /\ Hole \in Cells
    BY Now DEF Header, Hole, Cell, Cells, CellType
  <1>3. file' \in Seq(Cells)
    <2>1. <<Header(now)>> \in Seq(Cells)
      BY <1>2
    <2> QED BY <1>1, <1>2, <2>1, Now, PutType
  <1>4. r \in IOs /\ "node" \in Labels
    BY NoIOType DEF Labels
  <1> QED BY <1>1, <1>3, <1>4, WorkerStep

LEMMA LockInv ==
  ASSUME IInv, NEW w \in Workers, Lock(w) \/ LockInterrupted(w) PROVE IInv'
  <1>1. Walk(w) /\ UNCHANGED <<tree, count, now, quit>> /\ lock' \in {w, lock}
    BY DEF Lock, LockInterrupted
  <1> QED BY <1>1, WalkStep, Now, Parts

LEMMA DoneStep ==
  ASSUME IInv, NEW w \in Workers, Done(w)
  PROVE  /\ \E l \in {"off", "run"} : pc' = [pc EXCEPT ![w] = l]
         /\ quit' \subseteq Workers /\ lock' \in Workers \cup {Null}
         /\ tree' = tree /\ count' = count /\ now' = now
  <1>1. pc' = [pc EXCEPT ![w] = IF w \in quit THEN "off" ELSE "run"]
    BY DEF Done
  <1>2. quit' \subseteq Workers /\ lock' \in Workers \cup {Null} /\ tree' = tree /\ count' = count
        /\ now' = now
    BY Now DEF Done
  <1> QED BY <1>1, <1>2

LEMMA DumpFailedInv == ASSUME IInv, NEW w \in Workers, DumpFailed(w) PROVE IInv'
  <1>1. Done(w) /\ UNCHANGED <<file, io>>
    BY DEF DumpFailed
  <1>2. PICK l \in {"off", "run"} : pc' = [pc EXCEPT ![w] = l]
    BY <1>1, DoneStep
  <1>3. l \in Labels \ {"key", "restore_key"}
    BY DEF Labels
  <1>4. io' \in [Workers -> IOs] /\ pc' \in [Workers -> Labels] /\ KeyInHand'
    BY <1>1, <1>2, <1>3, PlaceStep
  <1> QED BY <1>1, <1>4, DoneStep, Now, Parts

LEMMA AheadKeys == ASSUME IInv, NEW w \in Workers PROVE Ahead(w) \subseteq Keys
  BY Now DEF Ahead

\* The node is written, or not, and its key is next.
LEMMA WriteNodeInv ==
  ASSUME IInv, NEW w \in Workers, NEW k \in Keys, WriteNode(w, k) PROVE IInv'
  <1> DEFINE r == [io[w] EXCEPT !.pos = io[w].pos + 1, !.key = k, !.seen = io[w].seen \cup {k},
                                !.records = io[w].records + 1]
  <1>1. /\ file' = Put(file, io[w].pos, <<Node(k)>>) /\ pc' = [pc EXCEPT ![w] = "key"]
        /\ io' = [io EXCEPT ![w] = r]
        /\ UNCHANGED <<tree, count, lock, now, quit>>
    BY Now DEF WriteNode
  <1>2. io[w] \in IOs
    BY WorkerAt
  <1>3. r \in IOs /\ r.key = k /\ "key" \in Labels
    <2>1. /\ io[w].pos + 1 \in Nat /\ k \in Keys \cup {Null}
          /\ io[w].seen \cup {k} \in SUBSET Keys /\ io[w].records + 1 \in Nat
      BY <1>2 DEF IOs
    <2>2. "key" \in Labels
      BY DEF Labels
    <2>3. r \in IOs
      BY <1>2, <2>1, Fields
    <2>4. r.key = k
      BY <1>2 DEF IOs
    <2> QED BY <2>2, <2>3, <2>4
  <1>4. io' \in [Workers -> IOs] /\ pc' \in [Workers -> Labels] /\ KeyInHand'
    <2> HIDE DEF r
    <2> QED BY <1>1, <1>3, WorkerStep
  <1>5. file' \in Seq(Cells)
    <2>1. <<Node(k)>> \in Seq(Cells) /\ Hole \in Cells
      BY CellTypes
    <2>2. io[w].pos \in Nat
      BY <1>2 DEF IOs
    <2> QED BY <1>1, <2>1, <2>2, Now, PutType
  <1> QED BY <1>1, <1>4, <1>5, Now, Parts

LEMMA WriteKeyInv == ASSUME IInv, NEW w \in Workers, WriteKey(w) PROVE IInv'
  <1>1. io[w] \in IOs /\ io[w].pos \in Nat
    BY WorkerAt DEF IOs
  <1>2. PICK k \in IF io[w].walk = "torn" THEN Keys ELSE {io[w].key} :
          /\ file' = Put(file, io[w].pos, Append(KeyBytes(k), Pad))
          /\ io' = [io EXCEPT ![w].pos = @ + Len(Append(KeyBytes(k), Pad)), ![w].key = Null]
    BY DEF WriteKey
  <1>3. pc[w] = "key" /\ pc' = [pc EXCEPT ![w] = "node"] /\ UNCHANGED <<tree, count, lock, now, quit>>
    BY DEF WriteKey
  <1>4. k \in Keys
    BY <1>2, <1>3, Now DEF KeyInHand
  <1> DEFINE cells == Append(KeyBytes(k), Pad)
             r == [io[w] EXCEPT !.pos = io[w].pos + Len(cells), !.key = Null]
  <1>5. cells \in Seq(Cells) /\ Len(cells) \in Nat /\ Hole \in Cells
    BY <1>4, CellTypes
  <1> HIDE DEF cells
  <1>6. io' = [io EXCEPT ![w] = r]
    BY <1>2, Now DEF cells
  <1>7. r \in IOs /\ "node" \in Labels
    <2>1. io[w].pos + Len(cells) \in Nat /\ Null \in Keys \cup {Null} /\ "node" \in Labels
      BY <1>1, <1>5 DEF Labels
    <2> QED BY <1>1, <2>1, Fields
  <1>8. io' \in [Workers -> IOs] /\ pc' \in [Workers -> Labels] /\ KeyInHand'
    <2> HIDE DEF r
    <2> QED BY <1>3, <1>6, <1>7, WorkerStep
  <1>9. file' \in Seq(Cells)
    <2>1. file' = Put(file, io[w].pos, cells)
      BY <1>2 DEF cells
    <2> QED BY <2>1, <1>1, <1>5, Now, PutType
  <1> QED BY <1>3, <1>8, <1>9, Now, Parts

LEMMA WriteFailedInv == ASSUME IInv, NEW w \in Workers, WriteFailed(w) PROVE IInv'
  <1>1. UNCHANGED <<tree, count, file, lock, now, quit>>
    BY DEF WriteFailed
  <1>2. io' \in [Workers -> IOs] /\ pc' \in [Workers -> Labels] /\ KeyInHand'
    <2>1. CASE pc[w] = "node"
      <3>1. PICK k \in Ahead(w) :
              io' = [io EXCEPT ![w].key = k, ![w].seen = @ \cup {k}, ![w].records = @ + 1]
        BY <2>1 DEF WriteFailed
      <3> DEFINE r == [io[w] EXCEPT !.key = k, !.seen = io[w].seen \cup {k},
                                    !.records = io[w].records + 1]
      <3>2. io' = [io EXCEPT ![w] = r] /\ pc' = [pc EXCEPT ![w] = "key"]
        BY <2>1, <3>1, Now DEF WriteFailed
      <3>3. k \in Keys /\ io[w] \in IOs
        BY AheadKeys, WorkerAt
      <3>4. r \in IOs /\ r.key = k /\ "key" \in Labels
        <4>1. /\ k \in Keys \cup {Null} /\ io[w].seen \cup {k} \in SUBSET Keys
              /\ io[w].records + 1 \in Nat
          BY <3>3 DEF IOs
        <4>2. "key" \in Labels
          BY DEF Labels
        <4>3. r \in IOs
          BY <3>3, <4>1, Fields
        <4>4. r.key = k
          BY <3>3 DEF IOs
        <4> QED BY <4>2, <4>3, <4>4
      <3> HIDE DEF r
      <3> QED BY <3>2, <3>3, <3>4, WorkerStep
    <2>2. CASE pc[w] # "node"
      <3>1. io' = io /\ pc' = [pc EXCEPT ![w] = "node"] /\ "node" \in Labels \ {"key", "restore_key"}
        BY <2>2 DEF WriteFailed, Labels
      <3> QED BY <3>1, PlaceStep
    <2> QED BY <2>1, <2>2
  <1> QED BY <1>1, <1>2, Now, Parts

LEMMA CloseInv == ASSUME IInv, NEW w \in Workers, Close(w) PROVE IInv'
  <1>1. Done(w) /\ io' = [io EXCEPT ![w] = NoIO] /\ file' = file
    BY DEF Close
  <1>2. PICK l \in {"off", "run"} : pc' = [pc EXCEPT ![w] = l]
    BY <1>1, DoneStep
  <1>3. l \in Labels /\ l \notin {"key", "restore_key"}
    BY DEF Labels
  <1>4. io' \in [Workers -> IOs] /\ pc' \in [Workers -> Labels] /\ KeyInHand'
    BY <1>1, <1>2, <1>3, NoIOType, WorkerStep
  <1> QED BY <1>1, <1>4, DoneStep, Now, Parts

(* Restoring. *)

LEMMA RestoredStep ==
  ASSUME IInv, NEW w \in Workers, Restored(w)
  PROVE  /\ io' \in [Workers -> IOs] /\ pc' \in [Workers -> Labels] /\ KeyInHand'
         /\ tree' = tree /\ count' = count
  <1>1. io' = [io EXCEPT ![w] = NoIO] /\ pc' = [pc EXCEPT ![w] = "run"] /\ "run" \in Labels
    BY DEF Restored, Labels
  <1>2. io' \in [Workers -> IOs] /\ pc' \in [Workers -> Labels] /\ KeyInHand'
    BY <1>1, NoIOType, WorkerStep
  <1> QED BY <1>2 DEF Restored

LEMMA StartInv == ASSUME IInv, NEW w \in Workers, Start(w) PROVE IInv'
  <1>1. UNCHANGED <<file, lock, now, quit>>
    BY DEF Start
  <1>2. CASE Restored(w)
    BY <1>1, <1>2, RestoredStep, Now, Parts
  <1>3. CASE ~Restored(w)
    <2> DEFINE r == [io[w] EXCEPT !.pos = 1]
    <2>1. io' = [io EXCEPT ![w] = r] /\ pc' = [pc EXCEPT ![w] = "restore"]
          /\ tree' = tree /\ count' = count
      BY <1>3, Now DEF Start
    <2>2. io[w] \in IOs
      BY WorkerAt
    <2>3. r \in IOs /\ "restore" \in Labels
      BY <2>2 DEF IOs, Labels
    <2>4. io' \in [Workers -> IOs] /\ pc' \in [Workers -> Labels] /\ KeyInHand'
      <3> HIDE DEF r
      <3> QED BY <2>1, <2>3, WorkerStep
    <2> QED BY <1>1, <2>1, <2>4, Now, Parts
  <1> QED BY <1>2, <1>3

LEMMA ReadNodeInv == ASSUME IInv, NEW w \in Workers, ReadNode(w) PROVE IInv'
  <1>1. UNCHANGED <<file, lock, now, quit>> /\ pc[w] = "restore"
    BY DEF ReadNode
  <1>2. io[w] \in IOs /\ io[w].pos \in Nat
    BY WorkerAt DEF IOs
  <1> DEFINE pos == io[w].pos
  <1>3. CASE Restored(w)
    BY <1>1, <1>3, RestoredStep, Now, Parts
  <1>4. CASE pos < Len(file) /\ file[pos + 1].part = "node" /\ ~Restored(w)
    <2> DEFINE cell == file[pos + 1]
               r == [io[w] EXCEPT !.pos = pos + 1, !.key = cell.key, !.n = cell.n]
    <2>1. cell \in Cells /\ cell.key \in Keys /\ cell.n \in Nat
      <3>1. pos + 1 \in 1 .. Len(file) /\ file \in Seq(Cells)
        BY <1>2, <1>4, Now
      <3>2. cell \in Cells
        BY <3>1
      <3> QED BY <3>2, <1>4 DEF Cells, CellType
    <2>2. io' = [io EXCEPT ![w].pos = pos + 1, ![w].key = cell.key, ![w].n = cell.n]
          /\ pc' = [pc EXCEPT ![w] = "restore_key"] /\ tree' = tree /\ count' = count
      BY <1>4 DEF ReadNode
    <2> HIDE DEF cell
    <2>3. io' = [io EXCEPT ![w] = r]
      BY <2>2, Now
    <2>4. r \in IOs /\ r.key \in Keys /\ "restore_key" \in Labels
      <3>1. pos + 1 \in Nat /\ cell.key \in Keys \cup {Null} /\ "restore_key" \in Labels
        BY <1>2, <2>1 DEF Labels
      <3>2. r \in IOs
        BY <1>2, <2>1, <3>1, Fields
      <3>3. r.key = cell.key
        BY <1>2 DEF IOs
      <3> QED BY <2>1, <3>1, <3>2, <3>3
    <2>5. io' \in [Workers -> IOs] /\ pc' \in [Workers -> Labels] /\ KeyInHand'
      <3> HIDE DEF r
      <3> QED BY <2>2, <2>3, <2>4, WorkerStep
    <2> QED BY <1>1, <2>2, <2>5, Now, Parts
  <1>5. CASE pos < Len(file) /\ file[pos + 1].part # "node" /\ ~Restored(w)
    <2>1. PICK end \in pos + 1 .. Len(file) : io' = [io EXCEPT ![w].pos = end]
      BY <1>5 DEF ReadNode
    <2> DEFINE r == [io[w] EXCEPT !.pos = end]
    <2>2. io' = [io EXCEPT ![w] = r] /\ pc' = pc /\ tree' = tree /\ count' = count
      BY <1>5, <2>1, Now DEF ReadNode
    <2>3. r \in IOs
      BY <1>2, <2>1 DEF IOs
    <2>4. pc' = [pc EXCEPT ![w] = "restore"] /\ "restore" \in Labels
      BY <1>1, <2>2, Now DEF Labels
    <2>5. io' \in [Workers -> IOs] /\ pc' \in [Workers -> Labels] /\ KeyInHand'
      <3> HIDE DEF r
      <3> QED BY <2>2, <2>3, <2>4, WorkerStep
    <2> QED BY <1>1, <2>2, <2>5, Now, Parts
  <1> QED BY <1>3, <1>4, <1>5 DEF ReadNode

\* The key that was read is one that its bytes are, or nobody's.
KeyRead(w) ==
  LET keys == KeysAt(io[w].pos, KeyLen[io[w].key])
  IN  IF keys = {} THEN Null ELSE CHOOSE j \in keys : TRUE
EndOf(w) == io[w].pos + KeyLen[io[w].key] + 1

\* The file may repeat a key and hold keys that are no longer there: only the look for
\* room, which the slab takes, keeps the nodes within it.
LEMMA AddNodeStep ==
  ASSUME IInv, NEW w \in Workers, NEW k \in Keys \cup {Null}, HasRoom(k), AddNode(w, k)
  PROVE  tree' \subseteq Keys /\ Cardinality(tree') <= Capacity /\ count' \in [Keys -> Nat]
  <1>1. CASE k \in tree \cup {Null}
    BY <1>1, Now DEF AddNode
  <1>2. CASE k \notin tree \cup {Null}
    <2>1. k \in Keys /\ Cardinality(tree) < Capacity
      BY <1>2 DEF HasRoom
    <2>2. tree' = tree \cup {k} /\ count' = [count EXCEPT ![k] = io[w].n]
      BY <1>2 DEF AddNode
    <2>3. tree' \subseteq Keys /\ Cardinality(tree') <= Capacity
      BY <2>1, <2>2, Now, Room
    <2>4. io[w].n \in Nat
      BY WorkerAt DEF IOs
    <2> QED BY <2>2, <2>3, <2>4, Now
  <1> QED BY <1>1, <1>2

LEMMA ReadKeyInv == ASSUME IInv, NEW w \in Workers, ReadKey(w) PROVE IInv'
  <1>1. UNCHANGED <<file, lock, now, quit>> /\ pc[w] = "restore_key"
    BY DEF ReadKey
  <1>2. CASE Restored(w)
    BY <1>1, <1>2, RestoredStep, Now, Parts
  <1>3. CASE ~Restored(w)
    <2> DEFINE r == [NoIO EXCEPT !.pos = EndOf(w)]
    <2>1. /\ HasRoom(KeyRead(w)) /\ AddNode(w, KeyRead(w))
          /\ pc' = [pc EXCEPT ![w] = "restore"]
          /\ io' = [v \in Workers |->
               IF v = w THEN r
               ELSE IF v \in Writing /\ tree' # tree /\ io[v].walk = "still"
               THEN [io[v] EXCEPT !.walk = "moved"] ELSE io[v]]
      BY <1>3 DEF ReadKey, KeyRead, EndOf
    <2>2. KeyRead(w) \in Keys \cup {Null}
      <3>1. KeysAt(io[w].pos, KeyLen[io[w].key]) \subseteq Keys
        BY DEF KeysAt
      <3> QED BY <3>1 DEF KeyRead
    <2>3. tree' \subseteq Keys /\ Cardinality(tree') <= Capacity /\ count' \in [Keys -> Nat]
      BY <2>1, <2>2, AddNodeStep
    <2>4. r \in IOs
      <3>1. io[w].key \in Keys /\ io[w].pos \in Nat
        BY <1>1, Now, WorkerAt DEF KeyInHand, IOs
      <3>2. EndOf(w) \in Nat
        BY <3>1, KeyAssumption DEF EndOf
      <3> QED BY <3>2, NoIOType
    <2> HIDE DEF r
    <2>5. ASSUME NEW v \in Workers, v # w
          PROVE  io'[v] \in IOs /\ io'[v].key = io[v].key /\ pc'[v] = pc[v]
      <3>1. io[v] \in IOs /\ pc'[v] = pc[v]
        BY <2>1, <2>5, Now
      <3>2. [io[v] EXCEPT !.walk = "moved"] \in IOs
            /\ [io[v] EXCEPT !.walk = "moved"].key = io[v].key
        BY <3>1 DEF IOs
      <3>3. io'[v] = io[v] \/ io'[v] = [io[v] EXCEPT !.walk = "moved"]
        BY <2>1, <2>5
      <3> QED BY <3>1, <3>2, <3>3
    <2>6. io'[w] = r /\ pc'[w] = "restore" /\ "restore" \in Labels
      BY <2>1, Now DEF Labels
    <2>7. io' \in [Workers -> IOs] /\ pc' \in [Workers -> Labels]
      <3>1. \A v \in Workers : io'[v] \in IOs
        BY <2>4, <2>5, <2>6
      <3>2. DOMAIN io' = Workers /\ io' = [v \in Workers |-> io'[v]]
        BY <2>1
      <3>3. io' \in [Workers -> IOs]
        BY <3>1, <3>2
      <3> QED BY <3>3, <2>1, <2>6, Now
    <2>8. KeyInHand'
      <3>1. ASSUME NEW v \in Workers, pc'[v] \in {"key", "restore_key"} PROVE io'[v].key \in Keys
        BY <3>1, <2>5, <2>6, Now DEF KeyInHand
      <3> QED BY <3>1 DEF KeyInHand
    <2> QED BY <1>1, <2>3, <2>7, <2>8, Now, Parts
  <1> QED BY <1>2, <1>3

(* Around the module. *)

LEMMA CrashInv == ASSUME IInv, NEW w \in Workers, Crash(w) PROVE IInv'
  <1>1. /\ pc' = [pc EXCEPT ![w] = "off"] /\ io' = [io EXCEPT ![w] = NoIO]
        /\ UNCHANGED <<tree, count, file, now>>
    BY DEF Crash
  <1>2. quit' \subseteq Workers /\ lock' \in Workers \cup {Null}
    BY Now DEF Crash
  <1>3. "off" \in Labels
    BY DEF Labels
  <1>4. io' \in [Workers -> IOs] /\ pc' \in [Workers -> Labels] /\ KeyInHand'
    BY <1>1, <1>3, NoIOType, WorkerStep
  <1> QED BY <1>1, <1>2, <1>4, Now, Parts

LEMMA NoNodes ==
  {} \subseteq Keys /\ Cardinality({}) <= Capacity /\ Nothing \in [Keys -> Nat]
  <1>1. Cardinality({}) = 0 /\ Capacity \in Nat
    BY FS_EmptySet, NumberAssumption
  <1> QED BY <1>1 DEF Nothing

LEMMA RestartInv == IInv /\ Restart => IInv'
  <1> SUFFICES ASSUME IInv, Restart PROVE IInv'
    OBVIOUS
  <1>1. tree' = {} /\ count' = Nothing /\ UNCHANGED <<file, lock, now, pc, quit, io>>
    BY DEF Restart
  <1>2. KeyInHand'
    BY <1>1, Now DEF KeyInHand
  <1> QED BY <1>1, <1>2, NoNodes, Now, Parts

LEMMA TickInv == IInv /\ Tick => IInv'
  <1> SUFFICES ASSUME IInv, Tick PROVE IInv'
    OBVIOUS
  <1>1. now' \in 0 .. MaxTime /\ UNCHANGED <<tree, count, file, lock, pc, quit, io>>
    BY DEF Tick
  <1>2. now' \in Nat
    BY <1>1, NumberAssumption
  <1>3. KeyInHand'
    BY <1>1, Now DEF KeyInHand
  <1> QED BY <1>1, <1>2, <1>3, Now, Parts

LEMMA InitInv == Init => IInv
  <1> SUFFICES ASSUME Init PROVE IInv
    OBVIOUS
  <1>1. NoIO \in IOs
    BY NoIOType
  <1>2. /\ lock \in Workers \cup {Null} /\ now \in Nat /\ quit \subseteq Workers
        /\ pc \in [Workers -> Labels] /\ io \in [Workers -> IOs]
    BY <1>1 DEF Init, Labels
  <1>3. tree \subseteq Keys /\ Cardinality(tree) <= Capacity /\ count \in [Keys -> Nat]
    BY NoNodes DEF Init
  <1>4. file \in Seq(Cells) /\ file \in Seq(CellType)
    BY DEF Init
  <1>5. KeyInHand
    BY DEF Init, KeyInHand
  <1> QED BY <1>2, <1>3, <1>4, <1>5 DEF IInv, TypeOK, Labels, IOs

LEMMA StepInv == IInv /\ [Next]_vars => IInv'
  <1> SUFFICES ASSUME IInv, [Next]_vars PROVE IInv'
    OBVIOUS
  <1>1. CASE UNCHANGED vars
    <2>1. KeyInHand'
      BY <1>1, Now DEF vars, KeyInHand
    <2> QED BY <1>1, <2>1, Now, Parts DEF vars
  <1>2. CASE Restart \/ Tick
    BY <1>2, RestartInv, TickInv
  <1>3. ASSUME NEW w \in Workers, \E k \in Keys : Request(w, k) \/ Remove(w, k) PROVE IInv'
    BY <1>3, RequestInv, RemoveInv
  <1>4. ASSUME NEW w \in Workers, Dump(w) PROVE IInv'
    BY <1>4, PlacesInv, WriteNodeInv, WriteKeyInv, CloseInv DEF Dump
  <1>5. ASSUME NEW w \in Workers,
               Exit(w) \/ Lock(w) \/ LockInterrupted(w) \/ DumpFailed(w) \/ WriteFailed(w)
        PROVE  IInv'
    BY <1>5, PlacesInv, LockInv, DumpFailedInv, WriteFailedInv
  <1>6. ASSUME NEW w \in Workers, Start(w) \/ Restore(w) \/ Crash(w) PROVE IInv'
    BY <1>6, StartInv, ReadNodeInv, ReadKeyInv, CrashInv DEF Restore
  <1> QED BY <1>1, <1>2, <1>3, <1>4, <1>5, <1>6 DEF Next

\* The slab is never overdrawn and every cell, offset and key is what its reader takes it
\* for: restoring asks for room, and no worker measures the length of a key that is none.
THEOREM TypeCorrect == Spec => []TypeOK
  <1>1. IInv => TypeOK
    BY DEF IInv
  <1> QED BY <1>1, InitInv, StepInv, PTL DEF Spec
(***************************************************************************)
(* What the dump keeps and what the restore brings back                    *)
(***************************************************************************)

Tables == [Keys -> Nat]
Hists == [logged : Tables, saved : Tables, taking : Tables, owed : Tables,
          up : BOOLEAN, disturbed : BOOLEAN,
          removals : Nat, crashes : Nat, errors : Nat, restarts : Nat, stops : Nat]

(* An exit in good order. *)

Snapshot(t) ==
  \A c \in Keys : t[c] = Fewest(c) \/ (t[c] = 0 /\ \E k \in tree : KeyLen[k] = 0)
Ordered == hist.errors = 0 /\ hist.crashes = 0 /\ hist.restarts = 0

\* Without errors the lock excludes, and the snapshot of a worker that is the last one is
\* the zone.
Graceful ==
  Ordered =>
    /\ \A w \in Workers :
         pc[w] \in {"node", "key"} =>
           /\ lock = w
           /\ (\A v \in Workers \ {w} : pc[v] = "off") => Snapshot(hist.taking)
    /\ (\A w \in Workers : pc[w] = "off") /\ hist.stops > 0 => Snapshot(hist.saved)

(* The file as long as nothing disturbs it. *)

\* A node's counter was logged, and its key follows it unless it is the last cell.
CellSound(i) ==
  file[i].part = "node" =>
    LET k == file[i].key
    IN /\ file[i].n <= hist.logged[Stem[k]]
       /\ i # Len(file) =>
            /\ i + KeyLen[k] < Len(file)
            /\ \A j \in 1 .. KeyLen[k] : file[i + j] = Cell("data", Stem[k], j)

\* A worker that writes is at the end of the file, one that reads has what it read.
PlaceSound(w) ==
  /\ pc[w] = "wait" => file = <<>>
  /\ pc[w] \in {"node", "key"} => io[w].walk # "torn" /\ io[w].pos = Len(file) /\ Len(file) > 0
  /\ pc[w] = "node" => file[Len(file)].part # "node"
  /\ pc[w] = "key" => file[Len(file)].part = "node" /\ file[Len(file)].key = io[w].key
  /\ pc[w] = "restore_key" =>
       /\ io[w].pos \in 1 .. Len(file) /\ file[io[w].pos].part = "node"
       /\ file[io[w].pos].key = io[w].key /\ file[io[w].pos].n = io[w].n

Undisturbed ==
  ~hist.disturbed =>
    /\ \A k \in tree : count[k] <= hist.logged[Stem[k]]
    /\ \A i \in 1 .. Len(file) : CellSound(i)
    /\ \A w \in Workers : PlaceSound(w)
    /\ \A v, w \in Workers :
         /\ pc[v] \in {"wait", "node", "key"}
         /\ pc[w] \in {"wait", "node", "key", "restore", "restore_key"}
         => v = w

(* The records of a dump. *)

\* A whole record, of a key that is not empty, lies behind offset p and ends at or before e.
RecordAt(f, p, e) ==
  LET k == f[p + 1].key
  IN /\ f[p + 1].part = "node" /\ k \in Keys /\ KeyLen[k] # 0 /\ p + KeyLen[k] + 2 <= e
     /\ \A i \in 1 .. KeyLen[k] : f[p + 1 + i] = Cell("data", Stem[k], i)
     /\ f[p + KeyLen[k] + 2] = Pad

\* The records behind the header begin at the offsets of P, one after the other up to e.
\* What lies behind e is of other dumps.
Chain(f, P, e) ==
  /\ 1 \in P /\ e \in P /\ P \subseteq 1 .. e /\ e <= Len(f) /\ f[1].part = "header"
  /\ \A p \in P \ {e} : RecordAt(f, p, e) /\ p + KeyLen[f[p + 1].key] + 2 \in P

\* The keys that their bytes spell.
Stems(S) == {Stem[k] : k \in S}
KeysIn(f, P, e) == {Stem[f[p + 1].key] : p \in P \ {e}}

\* And their counters are at least those of table t.
Enough(f, P, e, t) == \A p \in P \ {e} : f[p + 1].n >= t[Stem[f[p + 1].key]]

\* What table t promises is in those records.
Within(f, P, e, t) == \A c \in Keys : t[c] > 0 => c \in KeysIn(f, P, e)

\* Worker w has written the records of the nodes it has seen, is half way through one, or
\* has come to a key without bytes: what it writes behind that one is promised to nobody.
Progress(w, P, e) ==
  \/ pc[w] = "node" /\ io[w].pos = e /\ KeysIn(file, P, e) = Stems(io[w].seen)
  \/ /\ pc[w] = "key" /\ io[w].pos = e + 1 /\ e < Len(file)
     /\ file[e + 1].part = "node" /\ file[e + 1].key = io[w].key /\ KeyLen[io[w].key] # 0
     /\ file[e + 1].n >= hist.taking[Stem[io[w].key]]
     /\ Stems(io[w].seen) = KeysIn(file, P, e) \cup {Stem[io[w].key]}
  \/ io[w].pos \in e .. Len(file) /\ Within(file, P, e, hist.taking)

\* The dump that the lock was taken for: its snapshot is of nodes that are still there.
Half(w) ==
  \E P \in SUBSET (1 .. Len(file)) :
    \E e \in P :
      /\ Chain(file, P, e) /\ Enough(file, P, e, hist.taking)
      /\ io[w].seen \subseteq tree /\ KeysIn(file, P, e) \subseteq Stems(io[w].seen)
      /\ Progress(w, P, e)

\* Table t promises no more than the zone holds.
Sure(t) ==
  /\ \A k \in tree : t[Stem[k]] <= count[k]
  /\ \A c \in Keys : t[c] > 0 => c \in Stems(tree)

Taking ==
  hist.taking # Nothing =>
    \E w \in Workers :
      /\ lock = w /\ Writing = {w} /\ io[w].walk = "still"
      /\ Sure(hist.taking)
      /\ Half(w)

\* A record that a worker goes for has been read, or is next.
Ready(w, P, e) ==
  /\ pc[w] = "restore" =>
       /\ io[w].pos \in P
       /\ \A p \in P \ {e} : p < io[w].pos => Stem[file[p + 1].key] \in tree
  /\ pc[w] = "restore_key" =>
       \E q \in P \ {e} :
         /\ io[w].pos = q + 1 /\ io[w].key = file[q + 1].key /\ io[w].n = file[q + 1].n
         /\ \A p \in P \ {e} : p < q => Stem[file[p + 1].key] \in tree

\* The file holds what the last dump that nothing upset has saved, and the slab has room for it.
Holds(P, e) ==
  /\ Chain(file, P, e) /\ Enough(file, P, e, hist.saved)
  /\ Cardinality(KeysIn(file, P, e)) <= Capacity
  /\ Within(file, P, e, hist.saved)

\* Until a first worker is up again the zone holds nothing else, or all of it.
Coming(P, e) ==
  \/ KeysIn(file, P, e) \subseteq tree
  \/ tree \subseteq KeysIn(file, P, e) /\ \A w \in Workers : Ready(w, P, e)

Saved ==
  hist.saved # Nothing =>
    /\ Writing = {}
    /\ \E P \in SUBSET (1 .. Len(file)) : \E e \in P : Holds(P, e) /\ (~hist.up => Coming(P, e))

\* What was owed when the zone was made.
Owed ==
  /\ hist.up => \A k \in Keys : Live(k) >= hist.owed[k]
  /\ ~hist.up => /\ hist.owed = hist.saved
                 /\ \A k \in tree : count[k] >= hist.saved[k]
                 /\ \A w \in Workers : pc[w] \in {"off", "restore", "restore_key"}

LEMMA LiveType == ASSUME IInv, NEW k \in Keys PROVE Live(k) \in Nat
  BY Now DEF Live

LEMMA NothingType == Nothing \in Tables /\ \A k \in Keys : Nothing[k] = 0
  BY DEF Nothing, Tables

LEMMA StemType ==
  ASSUME NEW k \in Keys
  PROVE  /\ Stem[k] \in Keys /\ Stem[Stem[k]] = Stem[k] /\ KeyLen[Stem[k]] = KeyLen[k]
         /\ KeyLen[k] \in Nat
  BY KeyAssumption

\* The least counter of the nodes with one key's bytes is one of them.
LEMMA FewestOf ==
  ASSUME IInv, NEW c \in Keys
  PROVE  /\ Fewest(c) \in Nat
         /\ \A k \in tree : Stem[k] = c => Fewest(c) <= count[k]
         /\ Fewest(c) > 0 => c \in Stems(tree)
  <1>1. tree \subseteq Keys /\ count \in [Keys -> Nat] /\ Spelling(c) \subseteq tree
    BY Now DEF Spelling
  <1>2. CASE Spelling(c) = {}
    BY <1>2 DEF Fewest, Spelling
  <1>3. CASE Spelling(c) # {}
    <2>1. PICK T \in SUBSET Nat : T = {count[k] : k \in Spelling(c)}
      BY <1>1
    <2>2. T # {}
      BY <1>3, <2>1
    <2>3. \E m \in T : \A n \in T : m <= n
      BY <2>2, Least
    <2>4. Min(T) \in T /\ \A n \in T : Min(T) <= n
      BY <2>3 DEF Min
    <2>5. Fewest(c) = Min(T)
      BY <1>3, <2>1 DEF Fewest
    <2> QED BY <1>3, <2>1, <2>4, <2>5 DEF Spelling, Stems
  <1> QED BY <1>2, <1>3

\* A promise is kept or taken back.
LEMMA PromisedOf ==
  ASSUME hist \in Hists, NEW w, NEW k
  PROVE  /\ Promised(w, k) \in Tables
         /\ \A c \in Keys : Promised(w, k)[c] \in {0, hist.taking[c]}
         /\ KeyLen[k] # 0 => Promised(w, k) = hist.taking
         /\ KeyLen[k] = 0 => \A c \in Keys : Promised(w, k)[c] > 0 => c \in Stems(io[w].seen)
         /\ hist.taking = Nothing => Promised(w, k) = Nothing
  <1>1. hist.taking \in Tables
    BY DEF Hists
  <1>2. CASE KeyLen[k] # 0
    BY <1>1, <1>2 DEF Promised
  <1>3. CASE KeyLen[k] = 0
    <2>1. Promised(w, k) =
            [c \in Keys |-> IF \E j \in io[w].seen : Stem[j] = c THEN hist.taking[c] ELSE 0]
      BY <1>3 DEF Promised
    <2>2. \A c \in Keys : Promised(w, k)[c] =
            IF \E j \in io[w].seen : Stem[j] = c THEN hist.taking[c] ELSE 0
      BY <2>1
    <2>3. Promised(w, k) \in Tables
      BY <1>1, <2>1 DEF Tables
    <2>4. hist.taking = Nothing => Promised(w, k) = Nothing
      <3> SUFFICES ASSUME hist.taking = Nothing PROVE Promised(w, k) = Nothing
        OBVIOUS
      <3>1. \A c \in Keys : Promised(w, k)[c] = 0
        BY <2>2, NothingType
      <3> QED BY <2>3, <3>1 DEF Nothing, Tables
    <2> QED BY <1>3, <2>2, <2>3, <2>4 DEF Stems
  <1> QED BY <1>2, <1>3

\* What a step writes into the history.
LEMMA HistFields ==
  ASSUME hist \in Hists
  PROVE  /\ hist.removals + 1 \in Nat /\ hist.crashes + 1 \in Nat /\ hist.errors + 1 \in Nat
         /\ hist.restarts + 1 \in Nat /\ hist.stops + 1 \in Nat
         /\ \A k \in Keys : /\ [hist.logged EXCEPT ![Stem[k]] = @ + 1] \in Tables
                            /\ [hist.owed EXCEPT ![k] = 0] \in Tables
                            /\ [hist.saved EXCEPT ![k] = 0] \in Tables
         /\ \A x : (hist.disturbed \/ x) \in BOOLEAN
  BY StemType DEF Hists, Tables

\* The history keeps its type.
LEMMA HistType ==
  ASSUME IInv, hist \in Hists, [Next]_vars
  PROVE  hist' \in Hists
  <1>1. CASE UNCHANGED vars
    BY <1>1 DEF vars
  <1>2. CASE Restart
    BY <1>2, HistFields DEF Restart, Hists
  <1>3. CASE Tick
    BY <1>3 DEF Tick
  <1>4. ASSUME NEW w \in Workers, NEW k \in Keys, Request(w, k) PROVE hist' \in Hists
    BY <1>4, NothingType, HistFields DEF Request, Hists
  <1>5. ASSUME NEW w \in Workers, NEW k \in Keys, Remove(w, k) PROVE hist' \in Hists
    BY <1>5, NothingType, HistFields DEF Remove, Hists
  <1>6. ASSUME NEW w \in Workers, Timer(w) \/ WriteKey(w) \/ ReadNode(w) PROVE hist' \in Hists
    BY <1>6 DEF Timer, WriteKey, ReadNode, Restored, Hists
  <1>7. ASSUME NEW w \in Workers, NEW k \in Keys, WriteNode(w, k) PROVE hist' \in Hists
    <2>1. hist' = [hist EXCEPT !.taking = Promised(w, k)] /\ Promised(w, k) \in Tables
      BY <1>7, PromisedOf DEF WriteNode
    <2> QED BY <2>1 DEF Hists
  <1>8. ASSUME NEW w \in Workers, Open(w) \/ Exit(w) PROVE hist' \in Hists
    BY <1>8, NothingType, HistFields DEF Open, Exit, Hists
  <1>9. ASSUME NEW w \in Workers, Lock(w) PROVE hist' \in Hists
    <2>1. [c \in Keys |-> Fewest(c)] \in Tables
      BY FewestOf DEF Tables
    <2> QED BY <1>9, <2>1, NothingType DEF Lock, Hists
  <1>10. ASSUME NEW w \in Workers, LockInterrupted(w) \/ DumpFailed(w) \/ WriteFailed(w)
         PROVE  hist' \in Hists
    BY <1>10, NothingType, HistFields DEF LockInterrupted, DumpFailed, WriteFailed, Hists
  <1>11. ASSUME NEW w \in Workers, Close(w) PROVE hist' \in Hists
    BY <1>11, NothingType DEF Close, Hists
  <1>12. ASSUME NEW w \in Workers, Start(w) PROVE hist' \in Hists
    BY <1>12 DEF Start, Restored, Hists
  <1>13. ASSUME NEW w \in Workers, ReadKey(w) PROVE hist' \in Hists
    BY <1>13, NothingType DEF ReadKey, Restored, Hists
  <1>14. ASSUME NEW w \in Workers, Crash(w) PROVE hist' \in Hists
    BY <1>14, NothingType, HistFields DEF Crash, Hists
  <1> QED BY <1>1, <1>2, <1>3, <1>4, <1>5, <1>6, <1>7, <1>8, <1>9, <1>10, <1>11, <1>12, <1>13,
             <1>14 DEF Next, Dump, Restore

\* Only a request, a removal, a restored node and a restart change what a key counts.
LEMMA GracefulKept ==
  ASSUME IInv, hist \in Hists, Graceful, Taking, [Next]_vars
  PROVE  Graceful'
  <1>1. CASE UNCHANGED vars
    BY <1>1 DEF vars, Graceful, Ordered, Snapshot, Fewest, Spelling
  <1>2. CASE Restart
    <2>1. hist'.restarts = hist.restarts + 1 /\ hist.restarts \in Nat
      BY <1>2 DEF Restart, Hists
    <2> QED BY <2>1 DEF Graceful, Ordered
  <1>3. CASE Tick
    <2>1. UNCHANGED <<tree, count, lock, pc, hist>>
      BY <1>3 DEF Tick
    <2>2. \A c \in Keys : Fewest(c)' = Fewest(c)
      BY <2>1 DEF Fewest, Spelling
    <2> QED BY <2>1, <2>2 DEF Graceful, Ordered, Snapshot
  <1> SUFFICES ASSUME NEW w \in Workers,
                      \/ \E k \in Keys : Request(w, k) \/ Remove(w, k)
                      \/ Dump(w) \/ Exit(w) \/ Lock(w) \/ LockInterrupted(w)
                      \/ DumpFailed(w) \/ WriteFailed(w)
                      \/ Start(w) \/ Restore(w) \/ Crash(w)
               PROVE  Graceful'
    BY <1>1, <1>2, <1>3 DEF Next
  <1>4. pc \in [Workers -> Labels] /\ lock \in Workers \cup {Null} /\ w # Null
    BY Now, NullAssumption
  \* The worker runs, and neither reads nor writes.
  <1>5. ASSUME NEW k \in Keys, Request(w, k) \/ Remove(w, k) PROVE Graceful'
    <2>1. /\ pc[w] = "run" /\ pc' = pc /\ lock' = lock
          /\ Ordered' => Ordered
      BY <1>5 DEF Request, Remove, Ordered, Hists
    <2> QED BY <2>1, <1>4 DEF Graceful
  <1>6. CASE Timer(w) \/ Exit(w) \/ Open(w)
    <2>1. PICK l \in {"due", "wait"} : pc' = [pc EXCEPT ![w] = l]
      BY <1>6 DEF Timer, Exit, Open
    <2>2. /\ lock' = lock /\ tree' = tree /\ count' = count /\ pc[w] # "off"
          /\ Ordered' => Ordered
      BY <1>6 DEF Timer, Exit, Open, Ordered, Hists
    <2>3. pc'[w] = l /\ \A v \in Workers \ {w} : pc'[v] = pc[v]
      BY <2>1, <1>4
    <2> QED BY <2>2, <2>3 DEF Graceful
  <1>7. CASE Lock(w)
    <2>1. /\ pc' = [pc EXCEPT ![w] = "node"] /\ lock = Null /\ lock' = w
          /\ tree' = tree /\ count' = count
          /\ hist'.taking = IF Writing = {} THEN [c \in Keys |-> Fewest(c)] ELSE Nothing
          /\ Ordered' => Ordered
      BY <1>7 DEF Lock, Walk, Ordered, Hists
    <2>2. pc'[w] = "node" /\ \A v \in Workers \ {w} : pc'[v] = pc[v]
      BY <2>1, <1>4
    <2>3. ASSUME Ordered' PROVE Writing = {} /\ Snapshot(hist.taking)'
      <3>1. Writing = {}
        BY <2>1, <2>3, NullAssumption DEF Graceful, Writing
      <3>2. \A c \in Keys : hist'.taking[c] = Fewest(c) /\ Fewest(c)' = Fewest(c)
        BY <2>1, <3>1 DEF Fewest, Spelling
      <3> QED BY <2>1, <3>1, <3>2 DEF Snapshot
    <2> QED BY <2>1, <2>2, <2>3 DEF Graceful, Writing
  <1>8. CASE LockInterrupted(w) \/ DumpFailed(w) \/ WriteFailed(w)
    <2>1. hist'.errors = hist.errors + 1 /\ hist.errors \in Nat
      BY <1>8 DEF LockInterrupted, DumpFailed, WriteFailed, Hists
    <2> QED BY <2>1 DEF Graceful, Ordered
  <1>9. ASSUME (\E k \in Keys : WriteNode(w, k)) \/ WriteKey(w) PROVE Graceful'
    <2>1. PICK l \in {"node", "key"} : pc' = [pc EXCEPT ![w] = l]
      BY <1>9 DEF WriteNode, WriteKey
    <2>2. /\ lock' = lock /\ tree' = tree /\ count' = count /\ pc[w] \in {"node", "key"}
          /\ Ordered' => Ordered
          /\ hist'.saved = hist.saved
      BY <1>9 DEF WriteNode, WriteKey, Ordered, Hists
    <2>3. pc'[w] = l /\ \A v \in Workers \ {w} : pc'[v] = pc[v]
      BY <2>1, <1>4
    <2>4. Snapshot(hist.taking) => Snapshot(hist'.taking)
      <3>1. CASE WriteKey(w)
        BY <3>1 DEF WriteKey
      <3>2. ASSUME NEW k \in Keys, WriteNode(w, k), Snapshot(hist.taking)
            PROVE  Snapshot(hist'.taking)
        <4>1. hist'.taking = Promised(w, k) /\ k \in Ahead(w) /\ w \in Writing
          BY <3>2 DEF WriteNode, Writing, Hists
        <4>2. CASE KeyLen[k] # 0 \/ hist.taking = Nothing
          BY <3>2, <4>1, <4>2, PromisedOf
        <4>3. CASE KeyLen[k] = 0 /\ hist.taking # Nothing
          <5>1. k \in tree
            BY <4>1, <4>3 DEF Taking, Ahead
          <5> QED BY <3>2, <4>1, <4>3, <5>1, PromisedOf DEF Snapshot
        <4> QED BY <4>2, <4>3
      <3> QED BY <1>9, <3>1, <3>2
    <2>5. \A t : Snapshot(t) => Snapshot(t)'
      BY <2>2 DEF Snapshot, Fewest, Spelling
    <2>6. Snapshot(hist'.taking) => Snapshot(hist.taking)'
      BY <2>2 DEF Snapshot, Fewest, Spelling
    <2> QED BY <2>2, <2>3, <2>4, <2>6 DEF Graceful
  <1>10. CASE Close(w)
    <2>1. /\ pc' = [pc EXCEPT ![w] = IF w \in quit THEN "off" ELSE "run"]
          /\ lock' = (IF lock = w THEN Null ELSE lock) /\ tree' = tree /\ count' = count
          /\ pc[w] = "node"
      BY <1>10 DEF Close, Done
    <2>2. /\ hist'.saved = IF lock = w THEN hist.taking ELSE hist.saved
          /\ Ordered' => Ordered
      BY <1>10 DEF Close, Hists, Ordered
    <2>3. pc'[w] \in {"off", "run"} /\ \A v \in Workers \ {w} : pc'[v] = pc[v]
      BY <2>1, <1>4
    <2>4. ASSUME Ordered' PROVE lock = w /\ \A v \in Workers \ {w} : pc[v] \notin {"node", "key"}
      BY <2>1, <2>2, <2>4 DEF Graceful
    <2>5. ASSUME Ordered', \A v \in Workers : pc'[v] = "off" PROVE Snapshot(hist.saved)'
      <3>1. Snapshot(hist.taking)
        BY <2>1, <2>2, <2>3, <2>5 DEF Graceful
      <3>2. hist'.saved = hist.taking
        BY <2>2, <2>4, <2>5
      <3> QED BY <2>1, <3>1, <3>2 DEF Snapshot, Fewest, Spelling
    <2> QED BY <2>3, <2>4, <2>5 DEF Graceful
  \* The worker comes up: it neither writes nor is it off any more.
  <1>11. CASE Start(w) \/ Restore(w)
    <2>1. PICK l \in {"restore", "restore_key", "run"} : pc' = [pc EXCEPT ![w] = l]
      <3>1. CASE pc' = pc
        BY <1>4, <1>11, <3>1 DEF Start, Restore, ReadNode, ReadKey, Restored
      <3> QED BY <1>11, <3>1 DEF Start, Restore, ReadNode, ReadKey, Restored
    <2>2. lock' = lock /\ pc[w] \notin {"node", "key"} /\ (Ordered' => Ordered)
      BY <1>11 DEF Start, Restore, ReadNode, ReadKey, Restored, Ordered, Hists
    <2>3. pc'[w] = l /\ \A v \in Workers \ {w} : pc'[v] = pc[v]
      BY <2>1, <1>4
    <2>4. ASSUME Ordered', NEW v \in Workers, pc'[v] \in {"node", "key"}
          PROVE  lock' = v /\ pc'[w] # "off" /\ v # w
      BY <2>2, <2>3, <2>4 DEF Graceful
    <2> QED BY <2>3, <2>4 DEF Graceful
  <1>12. CASE Crash(w)
    <2>1. hist'.crashes = hist.crashes + 1 /\ hist.crashes \in Nat
      BY <1>12 DEF Crash, Hists
    <2> QED BY <2>1 DEF Graceful, Ordered
  <1> QED BY <1>5, <1>6, <1>7, <1>8, <1>9, <1>10, <1>11, <1>12 DEF Dump

\* File g is f with m cells written over it, or added to it, behind offset pos.
Written(f, pos, cells, m, g) ==
  /\ Len(g) = IF pos + m > Len(f) THEN pos + m ELSE Len(f)
  /\ \A i \in 1 .. pos : g[i] = f[i]
  /\ \A i \in 1 .. m : g[pos + i] = cells[i]
  /\ \A i \in pos + m + 1 .. Len(f) : g[i] = f[i]

\* A write within the file or at its end.
LEMMA PutCells ==
  ASSUME NEW f \in Seq(Cells), NEW pos \in Nat, NEW cells \in Seq(Cells), Hole \in Cells,
         pos <= Len(f), NEW m \in Nat, Len(cells) = m, NEW g, g = Put(f, pos, cells)
  PROVE  g \in Seq(Cells) /\ Written(f, pos, cells, m, g)
  <1> DEFINE end == pos + m
             len == IF end > Len(f) THEN end ELSE Len(f)
  <1>1. end \in Nat /\ len \in Nat /\ len >= end /\ len >= Len(f) /\ pos <= len
    OBVIOUS
  <1>2. g \in Seq(Cells)
    BY PutType
  <1>3. g = [i \in 1 .. len |-> IF i \in pos + 1 .. end THEN cells[i - pos]
                              ELSE IF i <= Len(f) THEN f[i] ELSE Hole]
    BY DEF Put
  <1>4. Len(g) = len
    <2> HIDE DEF len, end
    <2>1. DOMAIN g = 1 .. len
      BY <1>3
    <2> QED BY <1>1, <1>2, <2>1
  <1> HIDE DEF len
  <1>5. \A i \in 1 .. pos : g[i] = f[i]
    BY <1>1, <1>3
  <1>6. ASSUME NEW i \in 1 .. m PROVE g[pos + i] = cells[i]
    <2> DEFINE j == pos + i
    <2>1. j \in pos + 1 .. end /\ j \in 1 .. len /\ j - pos = i
      BY <1>1
    <2> HIDE DEF j, end
    <2>2. g[j] = cells[j - pos]
      BY <1>3, <2>1
    <2> QED BY <2>1, <2>2 DEF j
  <1>7. \A i \in pos + m + 1 .. Len(f) : g[i] = f[i]
    BY <1>1, <1>3
  <1> QED BY <1>2, <1>4, <1>5, <1>6, <1>7 DEF len, end, Written

LEMMA PutOne ==
  ASSUME NEW f \in Seq(Cells), NEW pos \in Nat, NEW c \in Cells, Hole \in Cells,
         pos <= Len(f), NEW g, g = Put(f, pos, <<c>>)
  PROVE  /\ Len(g) = (IF pos + 1 > Len(f) THEN pos + 1 ELSE Len(f))
         /\ \A i \in 1 .. pos : g[i] = f[i]
         /\ g[pos + 1] = c
         /\ \A i \in pos + 2 .. Len(f) : g[i] = f[i]
  <1>1. PICK one : one = <<c>>
    OBVIOUS
  <1>2. one \in Seq(Cells) /\ Len(one) = 1 /\ one[1] = c /\ 1 \in Nat
    BY <1>1
  <1>3. g = Put(f, pos, one)
    BY <1>1
  <1>4. PICK m \in Nat : m = 1
    OBVIOUS
  <1>5. Len(one) = m
    BY <1>2, <1>4
  <1>6. Written(f, pos, one, m, g)
    BY <1>2, <1>3, <1>5, PutCells
  <1>7. g[pos + 1] = c /\ \A i \in pos + 2 .. Len(f) : g[i] = f[i]
    BY <1>2, <1>4, <1>6 DEF Written
  <1> QED BY <1>4, <1>6, <1>7 DEF Written

\* Where a node lies in the file, its key is one.
LEMMA NodeKey ==
  ASSUME IInv, NEW i \in 1 .. Len(file), file[i].part = "node"
  PROVE  file[i].key \in Keys /\ file[i].n \in Nat /\ KeyLen[file[i].key] \in Nat
  <1>1. file[i] \in Cells
    BY Now
  <1>2. file[i].key \in Keys /\ file[i].n \in Nat
    BY <1>1 DEF Cells, CellType
  <1> QED BY <1>2, KeyAssumption

LEMMA CellsKept ==
  ASSUME IInv, \A i \in 1 .. Len(file) : CellSound(i), file' = file,
         hist \in Hists, hist' \in Hists, \A k \in Keys : hist'.logged[k] >= hist.logged[k]
  PROVE  \A i \in 1 .. Len(file') : CellSound(i)'
  <1> SUFFICES ASSUME NEW i \in 1 .. Len(file), file[i].part = "node" PROVE CellSound(i)'
    BY DEF CellSound
  <1>1. file[i].key \in Keys /\ file[i].n \in Nat
    BY NodeKey
  <1>2. PICK c \in Keys : c = Stem[file[i].key]
    BY <1>1, StemType
  <1>3. file[i].n <= hist'.logged[c]
    <2>1. hist.logged[c] \in Nat /\ hist'.logged[c] \in Nat
      BY DEF Hists, Tables
    <2> QED BY <1>1, <1>2, <2>1 DEF CellSound
  <1> QED BY <1>2, <1>3 DEF CellSound

LEMMA PlaceKept ==
  ASSUME NEW v, PlaceSound(v), file' = file, pc'[v] = pc[v], io'[v].pos = io[v].pos,
         io'[v].key = io[v].key, io'[v].n = io[v].n,
         io'[v].walk = "torn" => io[v].walk = "torn"
  PROVE  PlaceSound(v)'
  BY DEF PlaceSound

LEMMA LoggedNat == ASSUME hist \in Hists, NEW k \in Keys PROVE hist.logged[k] \in Nat
  BY DEF Hists, Tables

\* A walk that is upset, but not torn.
LEMMA UpsetMoved ==
  ASSUME IInv, NEW v \in Workers, Upset("moved")
  PROVE  /\ io'[v].pos = io[v].pos /\ io'[v].key = io[v].key /\ io'[v].n = io[v].n
         /\ io'[v].walk = "torn" => io[v].walk = "torn"
         /\ io'[v].seen = io[v].seen
  <1>1. io[v] \in IOs
    BY WorkerAt
  <1>2. io'[v] = io[v] \/ io'[v] = [io[v] EXCEPT !.walk = "moved"]
    BY DEF Upset
  <1> QED BY <1>1, <1>2 DEF IOs

LEMMA RequestSound ==
  ASSUME IInv, hist \in Hists, hist' \in Hists, Undisturbed, NEW w \in Workers, NEW k \in Keys,
         Request(w, k)
  PROVE  Undisturbed'
  <1> SUFFICES ASSUME ~hist'.disturbed PROVE Undisturbed'
    BY DEF Undisturbed
  <1>1. /\ file' = file /\ pc' = pc /\ tree' = tree \cup {k}
        /\ count' = [count EXCEPT ![k] = IF k \in tree THEN @ + 1 ELSE 1]
        /\ k \in tree => io' = io
        /\ k \notin tree => Upset("moved")
    BY DEF Request
  <1>2. /\ hist'.logged = [hist.logged EXCEPT ![Stem[k]] = @ + 1]
        /\ hist'.disturbed = hist.disturbed
    BY DEF Request, Hists
  <1>3. /\ \A j \in tree : count[j] <= hist.logged[Stem[j]]
        /\ \A i \in 1 .. Len(file) : CellSound(i)
        /\ \A v \in Workers : PlaceSound(v)
    BY <1>2 DEF Undisturbed
  <1>4. /\ hist'.logged[Stem[k]] = hist.logged[Stem[k]] + 1
        /\ \A c \in Keys \ {Stem[k]} : hist'.logged[c] = hist.logged[c]
    BY <1>2, StemType DEF Hists, Tables
  <1>5. \A i \in 1 .. Len(file') : CellSound(i)'
    <2>1. \A j \in Keys : hist'.logged[j] >= hist.logged[j]
      BY <1>4, LoggedNat
    <2> QED BY <1>1, <1>3, <2>1, CellsKept
  <1>6. ASSUME NEW v \in Workers PROVE PlaceSound(v)'
    <2>1. /\ io'[v].pos = io[v].pos /\ io'[v].key = io[v].key /\ io'[v].n = io[v].n
          /\ io'[v].walk = "torn" => io[v].walk = "torn"
      BY <1>1, UpsetMoved
    <2> QED BY <1>1, <1>3, <2>1, PlaceKept
  <1>7. ASSUME NEW j \in tree' PROVE count'[j] <= hist'.logged[Stem[j]]
    <2>1. /\ j \in Keys /\ (j # k => j \in tree /\ count'[j] = count[j])
          /\ count'[k] = IF k \in tree THEN count[k] + 1 ELSE 1
      BY <1>1, Now
    <2>2. PICK c \in Keys : c = Stem[j]
      BY <2>1, StemType
    <2>3. count[j] \in Nat /\ hist.logged[c] \in Nat
      BY <2>1, Now, LoggedNat
    <2>4. hist'.logged[c] \in {hist.logged[c], hist.logged[c] + 1}
      BY <1>4
    <2>5. CASE j = k
      <3>1. hist'.logged[c] = hist.logged[c] + 1
        BY <1>4, <2>2, <2>5
      <3>2. k \in tree => count[k] <= hist.logged[c]
        BY <1>3, <2>2, <2>5
      <3>3. count'[j] <= hist'.logged[c]
        BY <2>1, <2>3, <2>5, <3>1, <3>2
      <3> QED BY <2>2, <3>3
    <2>6. CASE j # k
      <3>1. count[j] <= hist.logged[c] /\ count'[j] = count[j]
        BY <1>3, <2>1, <2>2, <2>6
      <3>2. count'[j] <= hist'.logged[c]
        BY <2>3, <2>4, <3>1
      <3> QED BY <2>2, <3>2
    <2> QED BY <2>5, <2>6
  <1> QED BY <1>1, <1>2, <1>5, <1>6, <1>7 DEF Undisturbed

LEMMA RemoveSound ==
  ASSUME IInv, hist \in Hists, hist' \in Hists, Undisturbed, NEW w \in Workers, NEW k \in Keys,
         Remove(w, k)
  PROVE  Undisturbed'
  <1> SUFFICES ASSUME ~hist'.disturbed PROVE Undisturbed'
    BY DEF Undisturbed
  <1>1. /\ file' = file /\ pc' = pc /\ tree' = tree \ {k} /\ count' = count /\ Upset("torn")
    BY DEF Remove
  <1>2. ~hist.disturbed /\ Writing = {} /\ hist'.logged = hist.logged
    BY DEF Remove, Hists
  <1>3. \A i \in 1 .. Len(file') : CellSound(i)'
    BY <1>1, <1>2, CellsKept, LoggedNat DEF Undisturbed
  <1>4. ASSUME NEW v \in Workers PROVE PlaceSound(v)'
    <2>1. io'[v] = io[v]
      BY <1>1, <1>2 DEF Upset
    <2> QED BY <1>1, <1>2, <2>1, PlaceKept DEF Undisturbed
  <1> QED BY <1>1, <1>2, <1>3, <1>4 DEF Undisturbed

\* A worker goes on, or begins to read, and leaves the file and the zone alone.
LEMMA StepSound ==
  ASSUME IInv, hist \in Hists, hist' \in Hists, Undisturbed, ~hist.disturbed,
         hist'.logged = hist.logged, UNCHANGED <<tree, count, file>>,
         NEW w \in Workers, NEW l \in Labels, pc' = [pc EXCEPT ![w] = l],
         \A v \in Workers \ {w} : io'[v] = io[v],
         PlaceSound(w)',
         \/ l \in {"off", "run", "due"}
         \/ /\ l \in {"restore", "restore_key"}
            /\ \/ pc[w] \in {"restore", "restore_key"}
               \/ \A v \in Workers : pc[v] \notin {"wait", "node", "key"}
  PROVE  Undisturbed'
  <1>1. pc'[w] = l /\ \A v \in Workers \ {w} : pc'[v] = pc[v]
    BY Now
  <1>2. \A i \in 1 .. Len(file') : CellSound(i)'
    BY CellsKept, LoggedNat DEF Undisturbed
  <1>3. ASSUME NEW v \in Workers PROVE PlaceSound(v)'
    <2>1. CASE v # w
      <3>1. pc'[v] = pc[v] /\ io'[v] = io[v] /\ PlaceSound(v)
        BY <1>1, <2>1 DEF Undisturbed
      <3> QED BY <3>1, PlaceKept
    <2> QED BY <2>1
  <1>4. \A u, v \in Workers :
          /\ pc'[u] \in {"wait", "node", "key"}
          /\ pc'[v] \in {"wait", "node", "key", "restore", "restore_key"}
          => u = v
    BY <1>1 DEF Undisturbed
  <1>5. \A k \in tree' : count'[k] <= hist'.logged[Stem[k]]
    BY DEF Undisturbed
  <1> QED BY <1>2, <1>3, <1>4, <1>5 DEF Undisturbed

LEMMA PlainSound ==
  ASSUME IInv, hist \in Hists, hist' \in Hists, Undisturbed, NEW w \in Workers,
         Timer(w) \/ Exit(w) \/ DumpFailed(w) \/ Close(w) \/ Crash(w) \/ Start(w)
  PROVE  Undisturbed'
  <1> SUFFICES ASSUME ~hist'.disturbed PROVE Undisturbed'
    BY DEF Undisturbed
  <1>1. /\ hist'.logged = hist.logged /\ ~hist.disturbed /\ UNCHANGED <<tree, count, file>>
    BY DEF Timer, Exit, DumpFailed, Close, Crash, Start, Done, Restored, Hists
  <1>2. io \in [Workers -> IOs] /\ pc \in [Workers -> Labels]
    BY Now
  <1>3. \A v \in Workers \ {w} : io'[v] = io[v]
    BY <1>2 DEF Timer, Exit, DumpFailed, Close, Crash, Start, Restored
  <1>4. CASE \E l \in {"off", "run", "due"} : pc' = [pc EXCEPT ![w] = l]
    <2>1. PICK l \in {"off", "run", "due"} : pc' = [pc EXCEPT ![w] = l]
      BY <1>4
    <2>2. PlaceSound(w)' /\ l \in Labels
      BY <1>2, <2>1 DEF PlaceSound, Labels
    <2> QED BY <1>1, <1>3, <2>1, <2>2, StepSound
  <1>5. CASE pc' = [pc EXCEPT ![w] = "restore"] /\ hist' = [hist EXCEPT !.disturbed = @ \/ Opened # {}]
    <2>1. \A v \in Workers : pc[v] \notin {"wait", "node", "key"}
      BY <1>5 DEF Opened, Writing, Hists
    <2>2. PlaceSound(w)' /\ "restore" \in Labels
      BY <1>2, <1>5 DEF PlaceSound, Labels
    <2> QED BY <1>1, <1>3, <1>5, <2>1, <2>2, StepSound
  <1>6. CASE Start(w)
    BY <1>4, <1>5, <1>6 DEF Start, Restored
  <1> QED BY <1>4, <1>6 DEF Timer, Exit, DumpFailed, Close, Crash, Done

LEMMA ReadNodeSound ==
  ASSUME IInv, hist \in Hists, hist' \in Hists, Undisturbed, NEW w \in Workers, ReadNode(w)
  PROVE  Undisturbed'
  <1> SUFFICES ASSUME ~hist'.disturbed PROVE Undisturbed'
    BY DEF Undisturbed
  <1> DEFINE pos == io[w].pos
  <1>1. /\ hist'.logged = hist.logged /\ ~hist.disturbed /\ UNCHANGED <<tree, count, file>>
        /\ pc[w] = "restore"
    BY DEF ReadNode, Restored, Hists
  <1>2. io \in [Workers -> IOs] /\ pc \in [Workers -> Labels] /\ io[w] \in IOs /\ pos \in Nat
    BY Now DEF IOs
  <1>3. \A v \in Workers \ {w} : io'[v] = io[v]
    BY <1>2 DEF ReadNode, Restored
  <1>4. CASE pc' = [pc EXCEPT ![w] = "run"]
    <2>1. PlaceSound(w)' /\ "run" \in Labels
      BY <1>2, <1>4 DEF PlaceSound, Labels
    <2> QED BY <1>1, <1>3, <1>4, <2>1, StepSound
  <1>5. CASE pc' = pc
    <2>1. pc' = [pc EXCEPT ![w] = "restore"]
      BY <1>1, <1>2, <1>5
    <2>2. PlaceSound(w)' /\ "restore" \in Labels
      BY <1>1, <1>5 DEF PlaceSound, Labels
    <2> QED BY <1>1, <1>3, <2>1, <2>2, StepSound
  <1>6. CASE /\ pos < Len(file) /\ file[pos + 1].part = "node"
             /\ io' = [io EXCEPT ![w].pos = pos + 1, ![w].key = file[pos + 1].key,
                                 ![w].n = file[pos + 1].n]
             /\ pc' = [pc EXCEPT ![w] = "restore_key"]
    <2>1. /\ io'[w].pos = pos + 1 /\ io'[w].key = file[pos + 1].key /\ io'[w].n = file[pos + 1].n
          /\ pc'[w] = "restore_key"
      BY <1>2, <1>6 DEF IOs
    <2>2. pos + 1 \in 1 .. Len(file)
      BY <1>2, <1>6
    <2>3. PlaceSound(w)' /\ "restore_key" \in Labels
      BY <1>1, <1>6, <2>1, <2>2 DEF PlaceSound, Labels
    <2> QED BY <1>1, <1>3, <1>6, <2>3, StepSound
  <1> QED BY <1>4, <1>5, <1>6 DEF ReadNode, Restored

\* The file is emptied when nobody has it open.
LEMMA OpenSound ==
  ASSUME IInv, hist \in Hists, hist' \in Hists, Undisturbed, NEW w \in Workers, Open(w)
  PROVE  Undisturbed'
  <1> SUFFICES ASSUME ~hist'.disturbed PROVE Undisturbed'
    BY DEF Undisturbed
  <1>1. /\ hist'.logged = hist.logged /\ ~hist.disturbed /\ (Opened \cup Reading) = {}
        /\ UNCHANGED <<tree, count, io>> /\ file' = <<>> /\ pc' = [pc EXCEPT ![w] = "wait"]
    BY DEF Open, Hists
  <1>2. /\ pc'[w] = "wait"
        /\ \A v \in Workers \ {w} :
             pc'[v] \notin {"wait", "node", "key", "restore", "restore_key"}
    BY <1>1, Now DEF Opened, Writing, Reading
  <1>3. \A v \in Workers : PlaceSound(v)'
    BY <1>1, <1>2 DEF PlaceSound
  <1>4. \A i \in 1 .. Len(file') : CellSound(i)'
    BY <1>1
  <1>5. \A k \in tree' : count'[k] <= hist'.logged[Stem[k]]
    BY <1>1 DEF Undisturbed
  <1> QED BY <1>2, <1>3, <1>4, <1>5 DEF Undisturbed

LEMMA LockSound ==
  ASSUME IInv, hist \in Hists, hist' \in Hists, Undisturbed, NEW w \in Workers, Lock(w)
  PROVE  Undisturbed'
  <1> SUFFICES ASSUME ~hist'.disturbed PROVE Undisturbed'
    BY DEF Undisturbed
  <1>1. /\ hist'.logged = hist.logged /\ ~hist.disturbed /\ pc[w] = "wait"
        /\ UNCHANGED <<tree, count>> /\ file' = Put(file, 0, <<Header(now)>>)
        /\ io' = [io EXCEPT ![w] = [NoIO EXCEPT !.pos = 1]] /\ pc' = [pc EXCEPT ![w] = "node"]
    BY DEF Lock, Walk, Hists
  <1>2. file = <<>>
    BY <1>1 DEF Undisturbed, PlaceSound
  <1>3. Len(file') = 1 /\ file'[1] = Header(now)
    <2>1. Header(now) \in Cells /\ Hole \in Cells
      BY Now DEF Header, Hole, Cell, Cells, CellType
    <2>2. PICK p \in Nat : p = 0
      OBVIOUS
    <2>3. p <= Len(file) /\ file \in Seq(Cells) /\ file' = Put(file, p, <<Header(now)>>)
      BY <1>1, <1>2, <2>2, Now
    <2>4. /\ Len(file') = (IF p + 1 > Len(file) THEN p + 1 ELSE Len(file))
          /\ file'[p + 1] = Header(now)
      BY <2>1, <2>3, PutOne
    <2> QED BY <1>2, <2>2, <2>4
  <1>4. file'[1].part = "header"
    BY <1>3 DEF Header, Cell
  <1>5. /\ pc'[w] = "node" /\ io'[w].pos = 1 /\ io'[w].walk = "still"
        /\ \A v \in Workers \ {w} :
             pc'[v] \notin {"wait", "node", "key", "restore", "restore_key"}
    BY <1>1, Now DEF Undisturbed, NoIO
  <1>6. \A v \in Workers : PlaceSound(v)'
    BY <1>3, <1>4, <1>5 DEF PlaceSound
  <1>7. \A i \in 1 .. Len(file') : CellSound(i)'
    BY <1>3, <1>4 DEF CellSound
  <1>8. \A k \in tree' : count'[k] <= hist'.logged[Stem[k]]
    BY <1>1 DEF Undisturbed
  <1> QED BY <1>5, <1>6, <1>7, <1>8 DEF Undisturbed

\* What a walk that no removal tears comes to is in the tree.
LEMMA AheadInTree ==
  ASSUME NEW w \in Workers, IInv, io[w].walk # "torn"
  PROVE  Ahead(w) \subseteq tree
  <1>1. io[w].walk \in {"still", "moved", "torn"}
    BY WorkerAt DEF IOs
  <1> QED BY <1>1 DEF Ahead

\* The record goes to the end of the file, its counter no more than was logged.
LEMMA WriteNodeSound ==
  ASSUME IInv, hist \in Hists, hist' \in Hists, Undisturbed, NEW w \in Workers, NEW k \in Keys,
         WriteNode(w, k)
  PROVE  Undisturbed'
  <1> SUFFICES ASSUME ~hist.disturbed PROVE Undisturbed'
    BY DEF Undisturbed, WriteNode, Hists
  <1> DEFINE n == Len(file)
  <1>1. /\ hist'.logged = hist.logged /\ pc[w] = "node" /\ UNCHANGED <<tree, count>>
        /\ file' = Put(file, io[w].pos, <<Node(k)>>) /\ pc' = [pc EXCEPT ![w] = "key"]
        /\ io' = [io EXCEPT ![w].pos = @ + 1, ![w].key = k, ![w].seen = @ \cup {k},
                            ![w].records = @ + 1]
        /\ k \in Ahead(w)
    BY DEF WriteNode, Hists
  <1>2. /\ io[w].pos = n /\ n > 0 /\ n \in Nat /\ io[w].walk # "torn" /\ file[n].part # "node"
    BY <1>1, Now DEF Undisturbed, PlaceSound
  <1>3. Len(file') = n + 1 /\ file'[n + 1] = Node(k) /\ \A i \in 1 .. n : file'[i] = file[i]
    <2>1. Node(k) \in Cells /\ Hole \in Cells
      BY CellTypes
    <2>2. io[w].pos \in Nat /\ io[w].pos <= Len(file)
      BY <1>2
    <2>3. /\ Len(file') = (IF io[w].pos + 1 > Len(file) THEN io[w].pos + 1 ELSE Len(file))
          /\ \A i \in 1 .. io[w].pos : file'[i] = file[i]
          /\ file'[io[w].pos + 1] = Node(k)
      BY <1>1, <2>1, <2>2, Now, PutOne
    <2> QED BY <1>2, <2>3
  <1>4. k \in tree /\ count[k] <= hist.logged[Stem[k]]
    BY <1>1, <1>2, AheadInTree DEF Undisturbed
  <1>5. Node(k).part = "node" /\ Node(k).key = k /\ Node(k).n = count[k]
    BY DEF Node, Cell
  <1>6. /\ io'[w].pos = n + 1 /\ io'[w].key = k /\ io'[w].walk # "torn" /\ pc'[w] = "key"
        /\ \A v \in Workers \ {w} : io'[v] = io[v] /\ pc'[v] = pc[v]
    <2>1. io[w] \in IOs /\ io \in [Workers -> IOs] /\ pc \in [Workers -> Labels]
      BY Now
    <2> QED BY <1>1, <1>2, <2>1 DEF IOs
  <1>7. \A v \in Workers \ {w} : pc'[v] \notin {"wait", "node", "key", "restore", "restore_key"}
    BY <1>1, <1>6 DEF Undisturbed
  <1>8. \A v \in Workers : PlaceSound(v)'
    BY <1>2, <1>3, <1>5, <1>6, <1>7 DEF PlaceSound
  <1>9. ASSUME NEW i \in 1 .. Len(file') PROVE CellSound(i)'
    <2>1. CASE i = n + 1
      BY <1>1, <1>3, <1>4, <1>5, <2>1 DEF CellSound
    <2>2. CASE i \in 1 .. n /\ file[i].part = "node"
      <3>1. i # n /\ i \in Nat
        BY <1>2, <2>2
      <3>2. PICK len \in Nat : len = KeyLen[file[i].key]
        BY <2>2, NodeKey
      <3>3. /\ file[i].n <= hist.logged[Stem[file[i].key]]
            /\ i + len < n /\ \A j \in 1 .. len : file[i + j] = Cell("data", Stem[file[i].key], j)
        BY <2>2, <3>1, <3>2 DEF Undisturbed, CellSound
      <3>4. file'[i] = file[i] /\ i + len < Len(file')
        BY <1>2, <1>3, <2>2, <3>3
      <3>5. ASSUME NEW j \in 1 .. len PROVE file'[i + j] = file[i + j]
        <4>1. i + j \in 1 .. n
          BY <1>2, <3>1, <3>3
        <4> QED BY <1>3, <4>1
      <3> QED BY <1>1, <3>2, <3>3, <3>4, <3>5 DEF CellSound
    <2>3. CASE i \in 1 .. n /\ file[i].part # "node"
      BY <1>3, <2>3 DEF CellSound
    <2> QED BY <1>2, <1>3, <2>1, <2>2, <2>3
  <1>10. \A j \in tree' : count'[j] <= hist'.logged[Stem[j]]
    BY <1>1 DEF Undisturbed
  <1> QED BY <1>6, <1>7, <1>8, <1>9, <1>10 DEF Undisturbed

\* The cells of a key and its pad.
LEMMA KeyCells ==
  ASSUME IInv, NEW k \in Keys
  PROVE  \E cells \in Seq(Cells) :
           /\ cells = Append(KeyBytes(k), Pad) /\ Len(cells) = KeyLen[k] + 1
           /\ \A i \in 1 .. KeyLen[k] : cells[i] = Cell("data", Stem[k], i)
           /\ cells[KeyLen[k] + 1] = Pad
  <1>1. KeyLen[k] \in Nat
    BY KeyAssumption
  <1>2. PICK bytes \in Seq(Cells) : bytes = KeyBytes(k)
    BY CellTypes
  <1>3. /\ DOMAIN bytes = 1 .. KeyLen[k]
        /\ \A i \in 1 .. KeyLen[k] : bytes[i] = Cell("data", Stem[k], i)
    BY <1>2 DEF KeyBytes
  <1>4. Len(bytes) = KeyLen[k]
    BY <1>1, <1>3
  <1>5. PICK pad \in Cells : pad = Pad
    BY CellTypes
  <1>6. PICK cells : cells = Append(bytes, pad)
    OBVIOUS
  <1>7. /\ cells \in Seq(Cells) /\ Len(cells) = KeyLen[k] + 1 /\ cells[KeyLen[k] + 1] = pad
        /\ \A i \in 1 .. KeyLen[k] : cells[i] = bytes[i]
    BY <1>1, <1>4, <1>6
  <1> QED BY <1>2, <1>3, <1>5, <1>6, <1>7

LEMMA WriteKeySound ==
  ASSUME IInv, hist \in Hists, hist' \in Hists, Undisturbed, NEW w \in Workers, WriteKey(w)
  PROVE  Undisturbed'
  <1> SUFFICES ASSUME ~hist.disturbed PROVE Undisturbed'
    BY DEF Undisturbed, WriteKey
  <1>1. /\ hist' = hist /\ pc[w] = "key" /\ UNCHANGED <<tree, count>>
        /\ pc' = [pc EXCEPT ![w] = "node"]
    BY DEF WriteKey
  <1>2. PICK n \in Nat : n = Len(file)
    BY Now
  <1>3. /\ io[w].pos = n /\ n > 0 /\ io[w].walk # "torn"
        /\ file[n].part = "node" /\ file[n].key = io[w].key
    BY <1>1, <1>2 DEF Undisturbed, PlaceSound
  <1>4. PICK k \in Keys : k = io[w].key
    BY <1>1, Now DEF KeyInHand
  <1>5. PICK cells \in Seq(Cells) :
           /\ cells = Append(KeyBytes(k), Pad) /\ Len(cells) = KeyLen[k] + 1
           /\ \A i \in 1 .. KeyLen[k] : cells[i] = Cell("data", Stem[k], i)
           /\ cells[KeyLen[k] + 1] = Pad
    BY KeyCells
  <1>6. PICK m \in Nat : m = KeyLen[k]
    BY KeyAssumption
  <1>7. /\ file' = Put(file, n, cells)
        /\ io' = [io EXCEPT ![w].pos = @ + Len(cells), ![w].key = Null]
    BY <1>3, <1>4, <1>5 DEF WriteKey
  <1>8. /\ Len(file') = n + m + 1 /\ \A i \in 1 .. n : file'[i] = file[i]
        /\ \A i \in 1 .. m : file'[n + i] = Cell("data", Stem[k], i)
        /\ file'[n + m + 1] = Pad
    <2>1. Hole \in Cells /\ file \in Seq(Cells) /\ n <= Len(file)
      BY <1>2, Now, CellTypes
    <2>2. PICK l \in Nat : l = m + 1 /\ Len(cells) = l
      <3>1. m + 1 \in Nat /\ Len(cells) = m + 1
        BY <1>5, <1>6
      <3> QED BY <3>1
    <2>3. Written(file, n, cells, l, file')
      BY <1>7, <2>1, <2>2, PutCells
    <2>4. Len(file') = n + m + 1 /\ \A i \in 1 .. n : file'[i] = file[i]
      BY <1>2, <2>2, <2>3 DEF Written
    <2>5. \A i \in 1 .. m + 1 : file'[n + i] = cells[i]
      BY <2>2, <2>3 DEF Written
    <2>6. file'[n + (m + 1)] = Pad
      <3>1. m + 1 \in 1 .. m + 1 /\ cells[m + 1] = Pad
        BY <1>5, <1>6
      <3> QED BY <2>5, <3>1
    <2>7. \A i \in 1 .. m : file'[n + i] = Cell("data", Stem[k], i)
      <3>1. \A i \in 1 .. m : i \in 1 .. m + 1 /\ cells[i] = Cell("data", Stem[k], i)
        BY <1>5, <1>6
      <3> QED BY <2>5, <3>1
    <2>8. n + (m + 1) = n + m + 1
      OBVIOUS
    <2> QED BY <2>4, <2>6, <2>7, <2>8
  <1>9. /\ io'[w].pos = n + m + 1 /\ io'[w].walk # "torn" /\ pc'[w] = "node"
        /\ \A v \in Workers \ {w} : pc'[v] = pc[v]
    <2>1. io[w] \in IOs /\ io \in [Workers -> IOs] /\ pc \in [Workers -> Labels]
      BY Now
    <2> QED BY <1>1, <1>3, <1>5, <1>6, <1>7, <2>1 DEF IOs
  <1>10. \A v \in Workers \ {w} : pc'[v] \notin {"wait", "node", "key", "restore", "restore_key"}
    BY <1>1, <1>9 DEF Undisturbed
  <1>11. Pad.part # "node" /\ \A i \in 1 .. m : Cell("data", Stem[k], i).part # "node"
    BY DEF Pad, Cell
  <1>12. \A v \in Workers : PlaceSound(v)'
    BY <1>8, <1>9, <1>10, <1>11 DEF PlaceSound
  <1>13. ASSUME NEW i \in 1 .. Len(file') PROVE CellSound(i)'
    <2>1. CASE i = n
      <3>1. file'[i] = file[i] /\ file[i].key = k /\ file[i].n <= hist.logged[Stem[k]]
        BY <1>2, <1>3, <1>4, <1>8, <2>1 DEF Undisturbed, CellSound
      <3>2. i + m < Len(file') /\ \A j \in 1 .. m : file'[i + j] = Cell("data", Stem[k], j)
        BY <1>8, <2>1
      <3> QED BY <1>1, <1>6, <3>1, <3>2 DEF CellSound
    <2>2. CASE i \in 1 .. n - 1 /\ file[i].part = "node"
      <3>1. i \in 1 .. Len(file) /\ i # Len(file)
        BY <1>2, <2>2
      <3>2. PICK len \in Nat : len = KeyLen[file[i].key]
        BY <2>2, <3>1, NodeKey
      <3>3. /\ file[i].n <= hist.logged[Stem[file[i].key]]
            /\ i + len < n /\ \A j \in 1 .. len : file[i + j] = Cell("data", Stem[file[i].key], j)
        BY <1>2, <2>2, <3>1, <3>2 DEF Undisturbed, CellSound
      <3>4. file'[i] = file[i] /\ i + len < Len(file') /\ i \in Nat
        BY <1>2, <1>8, <2>2, <3>3
      <3>5. ASSUME NEW j \in 1 .. len PROVE file'[i + j] = file[i + j]
        <4>1. i + j \in 1 .. n
          BY <1>2, <3>3, <3>4
        <4> QED BY <1>8, <4>1
      <3> QED BY <1>1, <3>2, <3>3, <3>4, <3>5 DEF CellSound
    <2>3. CASE i \in 1 .. n /\ file[i].part # "node"
      BY <1>8, <2>3 DEF CellSound
    <2>4. CASE i > n
      <3>1. file'[i].part # "node"
        <4>1. CASE i = n + m + 1
          BY <1>8, <1>11, <4>1
        <4>2. CASE i # n + m + 1
          <5>1. PICK j \in 1 .. m : i = n + j
            <6>1. i - n \in 1 .. m /\ i = n + (i - n)
              BY <1>8, <2>4, <4>2
            <6> QED BY <6>1
          <5> QED BY <1>8, <1>11, <5>1
        <4> QED BY <4>1, <4>2
      <3> QED BY <3>1 DEF CellSound
    <2> QED BY <1>3, <2>1, <2>2, <2>3, <2>4
  <1>14. \A j \in tree' : count'[j] <= hist'.logged[Stem[j]]
    BY <1>1 DEF Undisturbed
  <1> QED BY <1>9, <1>10, <1>12, <1>13, <1>14 DEF Undisturbed

\* Where the bytes of a key lie, it is the one that is read.
LEMMA KeyThere ==
  ASSUME IInv, NEW k \in Keys, KeyLen[k] # 0, NEW pos \in Nat, pos + KeyLen[k] <= Len(file),
         \A i \in 1 .. KeyLen[k] : file[pos + i] = Cell("data", Stem[k], i)
  PROVE  KeysAt(pos, KeyLen[k]) = {Stem[k]}
  <1>1. PICK m \in Nat : m = KeyLen[k] /\ m > 0
    BY KeyAssumption
  <1>2. PICK s : s = SubSeq(file, pos + 1, pos + m)
    OBVIOUS
  <1>3. /\ s = [i \in 1 .. m |-> file[pos + i]] /\ s[1] = file[pos + 1]
    <2>1. file \in Seq(Cells)
      BY Now
    <2>2. PICK a \in Nat, b \in Nat : a = pos + 1 /\ b = pos + m /\ b <= Len(file) /\ a \in 1 .. b
      <3>1. pos + 1 \in Nat /\ pos + m \in Nat /\ pos + m <= Len(file) /\ pos + 1 \in 1 .. pos + m
        BY <1>1
      <3> QED BY <3>1
    <2>3. s = SubSeq(file, a, b)
      BY <1>2, <2>2
    <2>4. a \in 1 .. Len(file) /\ b \in 1 .. Len(file) /\ a <= b /\ Len(file) \in Nat
      BY <2>1, <2>2
    <2>4a. s \in Seq(Cells) /\ Len(s) = b - a + 1
      BY <2>1, <2>3, <2>4
    <2>5. \A i \in 1 .. b - a + 1 : s[i] = file[a + i - 1]
      BY <2>1, <2>3, <2>4
    <2>6. b - a + 1 = m /\ \A i \in 1 .. m : a + i - 1 = pos + i
      BY <2>2
    <2>7. s \in Seq(Cells) /\ Len(s) = m
      BY <2>4a, <2>6
    <2>8. \A i \in 1 .. m : s[i] = file[pos + i]
      BY <2>5, <2>6
    <2> QED BY <1>1, <2>7, <2>8
  <1>4. PICK c \in Keys : c = Stem[k] /\ Stem[c] = c /\ KeyLen[c] = m
    BY <1>1, StemType
  <1>5. s = KeyBytes(c)
    BY <1>1, <1>3, <1>4 DEF KeyBytes
  <1>6. ASSUME NEW j \in Keys, Stem[j] = j, s = KeyBytes(j), KeyLen[j] = m PROVE j = c
    <2>1. s[1] = Cell("data", j, 1) /\ s[1] = Cell("data", c, 1)
      BY <1>1, <1>4, <1>5, <1>6 DEF KeyBytes
    <2> QED BY <2>1 DEF Cell
  <1> QED BY <1>1, <1>2, <1>4, <1>5, <1>6 DEF KeysAt

\* A key is read whole and added, or the restore ends.
LEMMA ReadKeyCases ==
  ASSUME IInv, NEW w \in Workers, ReadKey(w)
  PROVE  /\ UNCHANGED <<file, lock, now, quit>> /\ pc[w] = "restore_key"
         /\ \/ /\ EndOf(w) <= Len(file) /\ file[EndOf(w)] = Pad /\ KeyLen[io[w].key] # 0
               /\ HasRoom(KeyRead(w)) /\ AddNode(w, KeyRead(w))
               /\ pc' = [pc EXCEPT ![w] = "restore"]
               /\ io' = [v \in Workers |->
                    IF v = w THEN [NoIO EXCEPT !.pos = EndOf(w)]
                    ELSE IF v \in Writing /\ tree' # tree /\ io[v].walk = "still"
                    THEN [io[v] EXCEPT !.walk = "moved"] ELSE io[v]]
               /\ hist' = [hist EXCEPT !.taking = IF tree' = tree THEN @ ELSE Nothing]
            \/ /\ ~ /\ EndOf(w) <= Len(file) /\ file[EndOf(w)] = Pad /\ KeyLen[io[w].key] # 0
                    /\ HasRoom(KeyRead(w))
               /\ Restored(w)
  BY DEF ReadKey, EndOf, KeyRead

LEMMA ReadKeySound ==
  ASSUME IInv, hist \in Hists, hist' \in Hists, Undisturbed, NEW w \in Workers, ReadKey(w)
  PROVE  Undisturbed'
  <1> SUFFICES ASSUME ~hist.disturbed PROVE Undisturbed'
    BY DEF Undisturbed, ReadKey, Restored, Hists
  <1>1. hist'.logged = hist.logged /\ file' = file /\ pc[w] = "restore_key"
    BY DEF ReadKey, Restored, Hists
  <1>2. CASE Restored(w)
    <2>1. /\ pc' = [pc EXCEPT ![w] = "run"] /\ UNCHANGED <<tree, count>>
          /\ \A v \in Workers \ {w} : io'[v] = io[v]
      BY <1>2, Now DEF Restored
    <2>2. PlaceSound(w)' /\ "run" \in Labels
      BY <2>1, Now DEF PlaceSound, Labels
    <2> QED BY <1>1, <2>1, <2>2, StepSound
  <1>3. CASE ~Restored(w)
    <2>1. /\ EndOf(w) <= Len(file) /\ AddNode(w, KeyRead(w)) /\ pc' = [pc EXCEPT ![w] = "restore"]
          /\ KeyLen[io[w].key] # 0
          /\ io' = [v \in Workers |->
               IF v = w THEN [NoIO EXCEPT !.pos = EndOf(w)]
               ELSE IF v \in Writing /\ tree' # tree /\ io[v].walk = "still"
               THEN [io[v] EXCEPT !.walk = "moved"] ELSE io[v]]
      BY <1>3, ReadKeyCases
    <2>2. PICK k \in Keys : k = io[w].key
      BY <1>1, Now DEF KeyInHand
    <2>3. PICK i \in 1 .. Len(file) :
            /\ i = io[w].pos /\ file[i].part = "node" /\ file[i].key = k /\ file[i].n = io[w].n
      BY <1>1, <2>2 DEF Undisturbed, PlaceSound
    <2>4. i \in Nat /\ KeyLen[k] \in Nat /\ Len(file) \in Nat /\ EndOf(w) = i + KeyLen[k] + 1
      BY <2>2, <2>3, Now, KeyAssumption DEF EndOf
    <2>5. /\ i # Len(file) /\ io[w].n <= hist.logged[Stem[k]]
          /\ \A j \in 1 .. KeyLen[k] : file[i + j] = Cell("data", Stem[k], j)
      <3>1. i # Len(file)
        BY <2>1, <2>4
      <3>2. CellSound(i)
        BY DEF Undisturbed
      <3> QED BY <2>3, <3>1, <3>2 DEF CellSound
    <2>6. PICK c \in Keys : c = Stem[k] /\ Stem[c] = c /\ KeyRead(w) = c
      <3>1. KeysAt(i, KeyLen[k]) = {Stem[k]}
        <4>1. i + KeyLen[k] <= Len(file) /\ KeyLen[k] # 0
          BY <2>1, <2>2, <2>4
        <4> QED BY <2>4, <2>5, <4>1, KeyThere
      <3>2. KeysAt(io[w].pos, KeyLen[io[w].key]) = {Stem[k]}
        BY <2>2, <2>3, <3>1
      <3>3. (CHOOSE j \in {Stem[k]} : TRUE) = Stem[k]
        OBVIOUS
      <3> QED BY <3>2, <3>3, StemType DEF KeyRead
    <2>7. \A j \in tree' : count'[j] <= hist'.logged[Stem[j]]
      BY <1>1, <2>1, <2>5, <2>6, Now DEF AddNode, Undisturbed
    <2>8. /\ pc'[w] = "restore" /\ \A v \in Workers \ {w} : pc'[v] = pc[v] /\ io'[v] = io[v]
      <3>1. Writing = {}
        BY <1>1 DEF Undisturbed, Writing
      <3> QED BY <2>1, <3>1, Now
    <2>9. ASSUME NEW v \in Workers PROVE PlaceSound(v)'
      <3>1. CASE v # w
        BY <1>1, <2>8, <3>1, PlaceKept DEF Undisturbed
      <3> QED BY <2>8, <3>1 DEF PlaceSound
    <2>10. \A l \in 1 .. Len(file') : CellSound(l)'
      BY <1>1, CellsKept, LoggedNat DEF Undisturbed
    <2>11. \A u, v \in Workers :
             /\ pc'[u] \in {"wait", "node", "key"}
             /\ pc'[v] \in {"wait", "node", "key", "restore", "restore_key"}
             => u = v
      BY <1>1, <2>8 DEF Undisturbed
    <2> QED BY <2>7, <2>9, <2>10, <2>11 DEF Undisturbed
  <1> QED BY <1>2, <1>3

\* What leaves the file, the workers and the counters alone, or gives up the promise.
LEMMA RestSound ==
  ASSUME IInv, hist \in Hists, hist' \in Hists, Undisturbed,
         \/ UNCHANGED vars \/ Tick \/ Restart
         \/ \E w \in Workers : LockInterrupted(w) \/ WriteFailed(w)
  PROVE  Undisturbed'
  <1>1. CASE \E w \in Workers : LockInterrupted(w) \/ WriteFailed(w)
    <2>1. hist'.disturbed
      BY <1>1 DEF LockInterrupted, WriteFailed, Hists
    <2> QED BY <2>1 DEF Undisturbed
  <1>2. CASE UNCHANGED vars \/ Tick
    <2>1. UNCHANGED <<tree, count, file, pc, io, hist>>
      BY <1>2 DEF vars, Tick
    <2> QED BY <2>1 DEF Undisturbed, CellSound, PlaceSound
  <1>3. CASE Restart
    <2>1. /\ tree' = {} /\ UNCHANGED <<file, pc, io>>
          /\ hist'.logged = hist.logged /\ hist'.disturbed = hist.disturbed
      BY <1>3 DEF Restart, Hists
    <2> QED BY <2>1 DEF Undisturbed, CellSound, PlaceSound
  <1> QED BY <1>1, <1>2, <1>3

LEMMA UndisturbedKept ==
  ASSUME IInv, hist \in Hists, hist' \in Hists, Undisturbed, [Next]_vars
  PROVE  Undisturbed'
  <1>1. CASE UNCHANGED vars \/ Tick \/ Restart
    BY <1>1, RestSound
  <1>2. ASSUME NEW w \in Workers, \E k \in Keys : Request(w, k) \/ Remove(w, k) PROVE Undisturbed'
    BY <1>2, RequestSound, RemoveSound
  <1>3. ASSUME NEW w \in Workers, Dump(w) \/ Exit(w) \/ Lock(w) PROVE Undisturbed'
    BY <1>3, PlainSound, OpenSound, LockSound, WriteNodeSound, WriteKeySound DEF Dump
  <1>4. ASSUME NEW w \in Workers, LockInterrupted(w) \/ DumpFailed(w) \/ WriteFailed(w)
        PROVE  Undisturbed'
    BY <1>4, RestSound, PlainSound
  <1>5. ASSUME NEW w \in Workers, Start(w) \/ Restore(w) \/ Crash(w) PROVE Undisturbed'
    BY <1>5, PlainSound, ReadNodeSound, ReadKeySound DEF Restore
  <1> QED BY <1>1, <1>2, <1>3, <1>4, <1>5 DEF Next

\* The history and the file that nothing disturbs, together.
SoundInv == IInv /\ hist \in Hists /\ Undisturbed

LEMMA InitSound == Init => SoundInv
  <1> SUFFICES ASSUME Init PROVE SoundInv
    OBVIOUS
  <1>1. hist \in Hists
    BY NothingType DEF Init, Hists
  <1>2. Undisturbed
    BY DEF Init, Undisturbed, CellSound, PlaceSound
  <1> QED BY <1>1, <1>2, InitInv DEF SoundInv

LEMMA StepIsSound == SoundInv /\ [Next]_vars => SoundInv'
  <1> SUFFICES ASSUME SoundInv, [Next]_vars PROVE SoundInv'
    OBVIOUS
  <1>1. IInv' /\ hist' \in Hists
    BY StepInv, HistType DEF SoundInv
  <1>2. Undisturbed'
    BY <1>1, UndisturbedKept DEF SoundInv
  <1> QED BY <1>1, <1>2 DEF SoundInv



\* A restart counts nothing that was not logged: through crashes at any step, partial
\* files and nodes dumped twice, a node in the file is followed by its own key, or by
\* nothing, and what is read is what was written.
THEOREM NothingInvented == Spec => []NoInvention
  <1>1. SoundInv => NoInvention
    <2> SUFFICES ASSUME SoundInv, ~hist.disturbed, NEW k \in Keys
                 PROVE  Live(k) <= hist.logged[Stem[k]]
      BY DEF NoInvention
    <2>1. PICK c \in Keys : c = Stem[k]
      BY StemType
    <2>2. hist.logged[c] \in Nat
      BY LoggedNat DEF SoundInv
    <2> QED BY <2>1, <2>2 DEF SoundInv, Undisturbed, Live
  <1> QED BY <1>1, InitSound, StepIsSound, PTL DEF Spec

(* The records of a dump. *)

LEMMA RecordAhead ==
  ASSUME NEW f, NEW P, NEW e \in Nat, Chain(f, P, e), NEW p \in P \ {e}
  PROVE  /\ p \in Nat /\ p >= 1 /\ p < e /\ e <= Len(f)
         /\ f[p + 1].part = "node" /\ f[p + 1].key \in Keys /\ KeyLen[f[p + 1].key] \in Nat \ {0}
         /\ p + KeyLen[f[p + 1].key] + 2 <= e
         /\ \A i \in 1 .. KeyLen[f[p + 1].key] : f[p + 1 + i] = Cell("data", Stem[f[p + 1].key], i)
         /\ f[p + KeyLen[f[p + 1].key] + 2] = Pad
         /\ p + KeyLen[f[p + 1].key] + 2 \in P
  <1>1. p \in 1 .. e /\ p # e /\ RecordAt(f, p, e) /\ e <= Len(f)
        /\ p + KeyLen[f[p + 1].key] + 2 \in P
    BY DEF Chain
  <1>2. f[p + 1].key \in Keys
    BY <1>1 DEF RecordAt
  <1> QED BY <1>1, <1>2, KeyAssumption DEF RecordAt

LEMMA RecordKey ==
  ASSUME NEW f, NEW P, NEW e \in Nat, Chain(f, P, e), NEW p \in P \ {e}
  PROVE  /\ p \in Nat /\ p < e /\ e <= Len(f) /\ f[p + 1].part = "node"
         /\ f[p + 1].key \in Keys /\ KeyLen[f[p + 1].key] \in Nat \ {0}
         /\ Stem[f[p + 1].key] \in Keys
  <1>1. p \in 1 .. e /\ p # e /\ RecordAt(f, p, e) /\ e <= Len(f)
    BY DEF Chain
  <1>2. f[p + 1].key \in Keys /\ f[p + 1].part = "node" /\ KeyLen[f[p + 1].key] # 0
    BY <1>1 DEF RecordAt
  <1> QED BY <1>1, <1>2, StemType

\* Nobody has written before offset e.
Untouched(f, g, e) == e <= Len(g) /\ \A i \in 1 .. e : g[i] = f[i]

Carried(f, g, P, e) ==
  /\ Chain(g, P, e) /\ KeysIn(g, P, e) = KeysIn(f, P, e)
  /\ \A t : Enough(f, P, e, t) => Enough(g, P, e, t)
  /\ \A t : Within(f, P, e, t) => Within(g, P, e, t)

\* They stay what they are as long as nobody writes before their end.
LEMMA ChainKept ==
  ASSUME NEW f, NEW g, NEW P, NEW e \in Nat, Chain(f, P, e), Untouched(f, g, e)
  PROVE  Carried(f, g, P, e)
  <1>0. e <= Len(g) /\ \A i \in 1 .. e : g[i] = f[i]
    BY DEF Untouched
  <1>1. ASSUME NEW p \in P \ {e}
        PROVE  g[p + 1] = f[p + 1] /\ RecordAt(g, p, e) /\ p + KeyLen[g[p + 1].key] + 2 \in P
    <2>1. PICK k \in Keys : k = f[p + 1].key
      BY RecordAhead
    <2>2. PICK m \in Nat : m = KeyLen[k] /\ m > 0
      BY <2>1, RecordAhead
    <2>3. /\ p \in Nat /\ p >= 1 /\ p + m + 2 <= e /\ f[p + 1].part = "node"
          /\ \A i \in 1 .. m : f[p + 1 + i] = Cell("data", Stem[k], i)
          /\ f[p + m + 2] = Pad /\ p + m + 2 \in P
      BY <2>1, <2>2, RecordAhead
    <2>4. g[p + 1] = f[p + 1] /\ g[p + m + 2] = f[p + m + 2]
      BY <1>0, <2>3
    <2>5. \A i \in 1 .. m : g[p + 1 + i] = f[p + 1 + i]
      BY <1>0, <2>3
    <2>6. RecordAt(g, p, e)
      BY <1>0, <2>1, <2>2, <2>3, <2>4, <2>5 DEF RecordAt
    <2> QED BY <2>1, <2>2, <2>3, <2>4, <2>6
  <1>2. 1 \in P /\ e \in P /\ P \subseteq 1 .. e /\ f[1].part = "header"
    BY DEF Chain
  <1>3. g[1] = f[1]
    BY <1>0, <1>2
  <1>4. Chain(g, P, e)
    BY <1>0, <1>1, <1>2, <1>3 DEF Chain
  <1>5. KeysIn(g, P, e) = KeysIn(f, P, e)
    BY <1>1 DEF KeysIn
  <1> QED BY <1>1, <1>4, <1>5 DEF Carried, Enough, Within

With(S, x) == S \cup {x}

\* The record of k lies behind offset e and ends at d.
Follows(f, e, k, d) ==
  /\ d = e + KeyLen[k] + 2 /\ d <= Len(f) /\ f[e + 1].part = "node" /\ f[e + 1].key = k
  /\ KeyLen[k] # 0
  /\ \A i \in 1 .. KeyLen[k] : f[e + 1 + i] = Cell("data", Stem[k], i)
  /\ f[e + KeyLen[k] + 2] = Pad

\* A record more.
LEMMA ChainGrows ==
  ASSUME NEW f, NEW P, NEW e \in Nat, Chain(f, P, e), NEW k \in Keys, NEW d \in Nat,
         Follows(f, e, k, d)
  PROVE  /\ Chain(f, With(P, d), d) /\ KeysIn(f, With(P, d), d) = With(KeysIn(f, P, e), Stem[k])
         /\ \A t : Enough(f, P, e, t) /\ f[e + 1].n >= t[Stem[k]] => Enough(f, With(P, d), d, t)
  <1>0. KeyLen[k] \in Nat /\ d = e + KeyLen[k] + 2 /\ e <= d /\ d <= Len(f) /\ f[e + 1].key = k
    BY KeyAssumption DEF Follows
  <1>1. 1 \in P /\ e \in P /\ P \subseteq 1 .. e /\ f[1].part = "header"
    BY DEF Chain
  <1>2. With(P, d) \ {d} = (P \ {e}) \cup {e}
    BY <1>0, <1>1 DEF With
  <1>3. ASSUME NEW p \in P \ {e}
        PROVE  RecordAt(f, p, d) /\ p + KeyLen[f[p + 1].key] + 2 \in P
    <2>1. RecordAt(f, p, e) /\ p + KeyLen[f[p + 1].key] + 2 \in P
      BY DEF Chain
    <2>2. p + KeyLen[f[p + 1].key] + 2 <= d
      <3>1. PICK j \in Nat : j = p + KeyLen[f[p + 1].key] + 2 /\ j <= e
        BY RecordAhead
      <3> QED BY <1>0, <3>1
    <2> QED BY <2>1, <2>2 DEF RecordAt
  <1>4. RecordAt(f, e, d) /\ e + KeyLen[f[e + 1].key] + 2 = d
    BY <1>0 DEF RecordAt, Follows
  <1>5. With(P, d) \subseteq 1 .. d
    <2>1. 1 \in 1 .. e
      BY <1>1
    <2>2. d \in 1 .. d /\ 1 .. e \subseteq 1 .. d
      BY <1>0, <2>1
    <2> QED BY <1>1, <2>2 DEF With
  <1>6. \A p \in With(P, d) \ {d} :
          RecordAt(f, p, d) /\ p + KeyLen[f[p + 1].key] + 2 \in P \cup {d}
    BY <1>2, <1>3, <1>4
  <1>7. Chain(f, With(P, d), d)
    BY <1>0, <1>1, <1>5, <1>6 DEF Chain, With
  <1>8. KeysIn(f, With(P, d), d) = With(KeysIn(f, P, e), Stem[k])
    BY <1>0, <1>2 DEF KeysIn, With
  <1>9. ASSUME NEW t, Enough(f, P, e, t), f[e + 1].n >= t[Stem[k]]
        PROVE  Enough(f, With(P, d), d, t)
    BY <1>0, <1>2, <1>9 DEF Enough
  <1> QED BY <1>7, <1>8, <1>9

(* The dump that the lock was taken for. *)

\* The worker of that dump.
Taker(w) ==
  /\ lock = w /\ Writing = {w} /\ io[w].walk = "still"
  /\ Sure(hist.taking)
  /\ Half(w)

\* Nothing that the dump depends on has changed, unless a counter has grown.
LEMMA TakerKept ==
  ASSUME IInv, hist \in Hists, NEW v \in Workers, Taker(v), lock' = lock, Writing' = Writing,
         pc'[v] = pc[v], io'[v] = io[v], UNCHANGED <<file, tree>>, hist'.taking = hist.taking,
         count' \in [Keys -> Nat], \A k \in tree : count'[k] >= count[k]
  PROVE  Taker(v)'
  <1>1. ASSUME NEW k \in tree PROVE hist.taking[Stem[k]] <= count'[k]
    <2>1. PICK c \in Keys : c = Stem[k] /\ k \in Keys
      BY Now, StemType
    <2>2. hist.taking[c] \in Nat /\ count[k] \in Nat /\ count'[k] \in Nat
      BY <2>1, Now DEF Hists, Tables
    <2>3. hist.taking[c] <= count[k]
      BY <2>1 DEF Taker, Sure
    <2> QED BY <2>1, <2>2, <2>3
  <1>2. Sure(hist.taking)'
    BY <1>1 DEF Taker, Sure
  <1>3. Half(v)'
    BY DEF Half, Progress, Taker
  <1> QED BY <1>2, <1>3 DEF Taker

\* A step of a worker that does not write, and leaves file and tree alone.
LEMMA TakingBeside ==
  ASSUME IInv, hist \in Hists, Taking, NEW w \in Workers, NEW l \in Labels,
         w \notin Writing, l \notin {"node", "key"}, pc' = [pc EXCEPT ![w] = l],
         \A v \in Workers \ {w} : io'[v] = io[v],
         lock' = lock \/ lock' = (IF lock = w THEN Null ELSE lock),
         UNCHANGED <<file, tree, count>>, hist'.taking = hist.taking
  PROVE  Taking'
  <1> SUFFICES ASSUME hist'.taking # Nothing PROVE \E v \in Workers : Taker(v)'
    BY DEF Taking, Taker
  <1>1. PICK v \in Workers : Taker(v)
    BY DEF Taking, Taker
  <1>2. pc'[w] = l /\ \A u \in Workers \ {w} : pc'[u] = pc[u]
    BY Now
  <1>3. Writing' = Writing
    BY <1>2 DEF Writing
  <1>4. v # w /\ lock = v
    BY <1>1 DEF Taker
  <1>5. lock' = lock /\ pc'[v] = pc[v] /\ io'[v] = io[v]
    BY <1>2, <1>4
  <1>6. \A k \in tree : count'[k] >= count[k]
    BY Now
  <1>7. count' \in [Keys -> Nat]
    BY Now
  <1>8. Taker(v)'
    BY <1>1, <1>3, <1>5, <1>6, <1>7, TakerKept
  <1> QED BY <1>8

LEMMA TakingPlain ==
  ASSUME IInv, hist \in Hists, Taking, NEW w \in Workers,
         Timer(w) \/ Exit(w) \/ DumpFailed(w) \/ Crash(w) \/ Start(w) \/ ReadNode(w)
  PROVE  Taking'
  <1>1. pc \in [Workers -> Labels] /\ io \in [Workers -> IOs]
    BY Now
  <1>2. CASE Crash(w) /\ w \in Writing
    <2>1. hist'.taking = Nothing
      BY <1>2 DEF Crash, Hists
    <2> QED BY <2>1 DEF Taking
  <1>3. CASE w \notin Writing
    <2>1. /\ UNCHANGED <<file, tree, count>> /\ \A v \in Workers \ {w} : io'[v] = io[v]
      BY <1>1 DEF Timer, Exit, DumpFailed, Crash, Start, ReadNode, Restored, Done
    <2>2. lock' = lock \/ lock' = (IF lock = w THEN Null ELSE lock)
      BY DEF Timer, Exit, DumpFailed, Crash, Start, ReadNode, Restored, Done
    <2>3. hist'.taking = hist.taking
      BY <1>3 DEF Timer, Exit, DumpFailed, Crash, Start, ReadNode, Restored, Hists
    <2>4. PICK l \in {"due", "off", "run", "restore", "restore_key"} : pc' = [pc EXCEPT ![w] = l]
      <3>1. CASE pc' = pc
        BY <1>1, <3>1 DEF Timer, Exit, DumpFailed, Crash, Start, ReadNode, Restored, Done
      <3> QED BY <3>1 DEF Timer, Exit, DumpFailed, Crash, Start, ReadNode, Restored, Done
    <2>5. l \in Labels /\ l \notin {"node", "key"}
      BY DEF Labels
    <2> QED BY <1>3, <2>1, <2>2, <2>3, <2>4, <2>5, TakingBeside
  <1>4. w \in Writing => Crash(w)
    BY DEF Writing, Timer, Exit, DumpFailed, Start, ReadNode
  <1> QED BY <1>2, <1>3, <1>4

\* The snapshot is given up.
LEMMA TakingGivenUp ==
  ASSUME hist \in Hists, NEW w \in Workers,
         \/ \E k \in Keys : Remove(w, k)
         \/ Open(w) \/ LockInterrupted(w) \/ WriteFailed(w) \/ Close(w)
  PROVE  Taking'
  <1>1. hist'.taking = Nothing
    BY DEF Remove, Open, LockInterrupted, WriteFailed, Close, Hists
  <1> QED BY <1>1 DEF Taking

LEMMA TakingRequest ==
  ASSUME IInv, hist \in Hists, Taking, NEW w \in Workers, NEW k \in Keys, Request(w, k)
  PROVE  Taking'
  <1>1. CASE k \notin tree
    <2>1. hist'.taking = Nothing
      BY <1>1 DEF Request, Hists
    <2> QED BY <2>1 DEF Taking
  <1>2. CASE k \in tree
    <2>1. /\ UNCHANGED <<file, lock, pc, io>> /\ tree' = tree /\ count' = [count EXCEPT ![k] = @ + 1]
          /\ hist'.taking = hist.taking
      BY <1>2 DEF Request, Hists
    <2>2. count' \in [Keys -> Nat] /\ \A j \in tree : count'[j] >= count[j]
      <3>1. count[k] + 1 \in Nat /\ count \in [Keys -> Nat] /\ tree \subseteq Keys
        BY Now
      <3>2. count' \in [Keys -> Nat] /\ \A j \in Keys : count'[j] >= count[j]
        BY <2>1, <3>1
      <3> QED BY <3>1, <3>2
    <2>3. Writing' = Writing
      BY <2>1 DEF Writing
    <2>4. ASSUME NEW v \in Workers, Taker(v) PROVE Taker(v)'
      BY <2>1, <2>2, <2>3, <2>4, TakerKept
    <2> QED BY <2>1, <2>4 DEF Taking, Taker
  <1> QED BY <1>1, <1>2

\* The lock is taken, and the header written.
LEMMA LockWrites ==
  ASSUME IInv, NEW w \in Workers, Walk(w)
  PROVE  Len(file') >= 1 /\ file'[1] = Header(now) /\ file'[1].part = "header"
  <1>1. Header(now) \in Cells /\ Hole \in Cells
    BY Now DEF Header, Hole, Cell, Cells, CellType
  <1>2. PICK p \in Nat : p = 0
    OBVIOUS
  <1>3. p <= Len(file) /\ file \in Seq(Cells) /\ file' = Put(file, p, <<Header(now)>>)
    BY <1>2, Now DEF Walk
  <1>4. /\ Len(file') = (IF p + 1 > Len(file) THEN p + 1 ELSE Len(file))
        /\ file'[p + 1] = Header(now)
    BY <1>1, <1>3, PutOne
  <1>5. Len(file) \in Nat
    BY <1>3
  <1> QED BY <1>2, <1>4, <1>5 DEF Header, Cell

LEMMA TakingLock ==
  ASSUME IInv, hist \in Hists, NEW w \in Workers, Lock(w)
  PROVE  Taking'
  <1> SUFFICES ASSUME hist'.taking # Nothing PROVE Taker(w)'
    BY DEF Taking, Taker
  <1>1. /\ Writing = {} /\ hist'.taking = [c \in Keys |-> Fewest(c)] /\ lock' = w
        /\ UNCHANGED <<tree, count>> /\ Walk(w)
    BY DEF Lock, Hists
  <1>2. /\ io'[w] = [NoIO EXCEPT !.pos = 1] /\ pc'[w] = "node"
        /\ \A v \in Workers \ {w} : pc'[v] = pc[v]
    BY <1>1, Now DEF Walk
  <1>3. io'[w].walk = "still" /\ io'[w].pos = 1 /\ io'[w].seen = {}
    BY <1>2 DEF NoIO
  <1>4. Writing' = {w}
    BY <1>1, <1>2 DEF Writing
  <1>5. Sure(hist.taking)'
    <2>1. ASSUME NEW k \in tree PROVE hist'.taking[Stem[k]] <= count[k]
      <3>1. PICK c \in Keys : c = Stem[k]
        BY Now, StemType
      <3> QED BY <1>1, <3>1, FewestOf
    <2>2. ASSUME NEW c \in Keys, hist'.taking[c] > 0 PROVE c \in Stems(tree)
      BY <1>1, <2>2, FewestOf
    <2> QED BY <1>1, <2>1, <2>2 DEF Sure
  <1>6. Half(w)'
    <2> DEFINE P == {1}
    <2>1. Len(file') >= 1 /\ Len(file') \in Nat /\ file'[1].part = "header"
      BY <1>1, LockWrites, WalkStep
    <2>2. P \ {1} = {} /\ P \in SUBSET (1 .. Len(file')) /\ 1 \in P
      BY <2>1
    <2>3. Chain(file', P, 1)
      BY <2>1, <2>2 DEF Chain
    <2>4. Enough(file', P, 1, hist'.taking) /\ KeysIn(file', P, 1) = {} /\ Stems({}) = {}
      BY <2>2 DEF Enough, KeysIn, Stems
    <2>5. Progress(w, P, 1)'
      BY <1>2, <1>3, <2>4 DEF Progress
    <2> QED BY <1>3, <2>2, <2>3, <2>4, <2>5 DEF Half
  <1> QED BY <1>1, <1>3, <1>4, <1>5, <1>6 DEF Taker

\* Whoever takes a snapshot is the only one to write.
LEMMA TakerAlone ==
  ASSUME Taking, hist.taking # Nothing, NEW w \in Workers, w \in Writing
  PROVE  Taker(w)
  <1>1. PICK v \in Workers : Taker(v)
    BY DEF Taking, Taker
  <1> QED BY <1>1 DEF Taker

\* A restored node that joins the tree ends the promise; one that does not changes nothing.
LEMMA TakingReadKey ==
  ASSUME IInv, hist \in Hists, Taking, NEW w \in Workers, ReadKey(w)
  PROVE  Taking'
  <1>1. w \notin Writing /\ UNCHANGED <<file, lock>> /\ pc \in [Workers -> Labels]
    BY Now DEF ReadKey, Writing
  <1>2. CASE Restored(w)
    <2>1. /\ UNCHANGED <<tree, count>> /\ pc' = [pc EXCEPT ![w] = "run"]
          /\ hist'.taking = hist.taking /\ \A v \in Workers \ {w} : io'[v] = io[v]
      BY <1>2, Now DEF Restored, Hists
    <2>2. "run" \in Labels /\ "run" \notin {"node", "key"}
      BY DEF Labels
    <2> QED BY <1>1, <2>1, <2>2, TakingBeside
  <1>3. CASE ~Restored(w) /\ tree' # tree
    <2>1. hist'.taking = Nothing
      BY <1>3, ReadKeyCases DEF Hists
    <2> QED BY <2>1 DEF Taking
  <1>4. CASE ~Restored(w) /\ tree' = tree
    <2>1. /\ AddNode(w, KeyRead(w)) /\ pc' = [pc EXCEPT ![w] = "restore"]
          /\ \A v \in Workers \ {w} : io'[v] = io[v]
          /\ hist'.taking = hist.taking
      BY <1>4, ReadKeyCases DEF Hists
    <2>2. UNCHANGED <<tree, count>>
      BY <1>4, <2>1 DEF AddNode
    <2>3. "restore" \in Labels /\ "restore" \notin {"node", "key"}
      BY DEF Labels
    <2> QED BY <1>1, <2>1, <2>2, <2>3, TakingBeside
  <1> QED BY <1>2, <1>3, <1>4

\* The taker writes on: what it promises is what it promised, or less.
LEMMA TakerWrites ==
  ASSUME IInv, hist \in Hists, NEW w \in Workers, Taker(w), UNCHANGED <<tree, count, lock>>,
         hist'.taking \in Tables, \A c \in Keys : hist'.taking[c] \in {0, hist.taking[c]},
         io'[w].walk = io[w].walk, pc'[w] \in {"node", "key"},
         \A v \in Workers \ {w} : pc'[v] = pc[v],
         Half(w)'
  PROVE  Taker(w)'
  <1>1. Writing' = {w}
    BY DEF Writing, Taker
  <1>2. ASSUME NEW k \in tree PROVE hist'.taking[Stem[k]] <= count[k]
    <2>1. PICK c \in Keys : c = Stem[k] /\ k \in Keys
      BY Now, StemType
    <2>2. hist.taking[c] <= count[k] /\ count[k] \in Nat
      BY <2>1, Now DEF Taker, Sure
    <2>3. hist'.taking[c] <= count[k]
      BY <2>1, <2>2
    <2> QED BY <2>1, <2>3
  <1>3. ASSUME NEW c \in Keys, hist'.taking[c] > 0 PROVE c \in Stems(tree)
    BY <1>3 DEF Taker, Sure
  <1>4. Sure(hist.taking)'
    BY <1>2, <1>3 DEF Sure
  <1> QED BY <1>1, <1>4 DEF Taker

\* The records stay what they are when cells are written behind them.
LEMMA TakerBehind ==
  ASSUME IInv, hist \in Hists, NEW w \in Workers, Taker(w),
         NEW P \in SUBSET (1 .. Len(file)), NEW e \in P,
         Chain(file, P, e), Enough(file, P, e, hist.taking),
         KeysIn(file, P, e) \subseteq Stems(io[w].seen), io[w].pos >= e,
         NEW cells \in Seq(Cells), file' = Put(file, io[w].pos, cells), io[w].pos <= Len(file),
         io'[w].pos = io[w].pos + Len(cells), UNCHANGED <<tree, count, lock>>,
         io[w].seen \subseteq io'[w].seen, io'[w].seen \subseteq tree,
         hist'.taking \in Tables, \A c \in Keys : hist'.taking[c] \in {0, hist.taking[c]},
         Within(file, P, e, hist'.taking),
         io'[w].walk = io[w].walk, pc'[w] \in {"node", "key"},
         \A v \in Workers \ {w} : pc'[v] = pc[v]
  PROVE  Taker(w)'
  <1>1. PICK pos \in Nat : pos = io[w].pos
    BY WorkerAt DEF IOs
  <1>2. PICK m \in Nat : m = Len(cells)
    OBVIOUS
  <1>3. file \in Seq(Cells) /\ Len(file) \in Nat /\ Hole \in Cells
    BY Now DEF Hole, Cell, Cells, CellType
  <1>4. e \in Nat /\ e <= pos
    BY <1>1
  <1>5. Written(file, pos, cells, m, file') /\ file' \in Seq(Cells)
    BY <1>1, <1>2, <1>3, PutCells
  <1>6. /\ Len(file') >= Len(file) /\ Len(file') >= pos + m /\ Len(file') \in Nat
        /\ \A i \in 1 .. e : file'[i] = file[i]
    BY <1>3, <1>4, <1>5 DEF Written
  <1>7. e <= Len(file')
    BY <1>1, <1>3, <1>4, <1>6
  <1>8. /\ Chain(file', P, e) /\ KeysIn(file', P, e) = KeysIn(file, P, e)
        /\ \A t : Enough(file, P, e, t) => Enough(file', P, e, t)
        /\ \A t : Within(file, P, e, t) => Within(file', P, e, t)
    <2>1. Untouched(file, file', e) /\ e \in Nat
      BY <1>4, <1>6, <1>7 DEF Untouched
    <2>2. Carried(file, file', P, e)
      BY <2>1, ChainKept
    <2> QED BY <2>2 DEF Carried
  <1>9. Enough(file, P, e, hist'.taking)
    <2> SUFFICES ASSUME NEW p \in P \ {e}
                 PROVE  file[p + 1].n >= hist'.taking[Stem[file[p + 1].key]]
      BY DEF Enough
    <2>1. /\ p \in Nat /\ p < e /\ e <= Len(file) /\ file[p + 1].part = "node"
          /\ file[p + 1].key \in Keys
      BY <1>4, RecordKey
    <2>2. PICK c \in Keys : c = Stem[file[p + 1].key]
      BY <2>1, StemType
    <2>3. p + 1 \in 1 .. Len(file)
      BY <1>3, <1>4, <2>1
    <2>4. file[p + 1].n \in Nat
      BY <2>1, <2>3, NodeKey
    <2>5. file[p + 1].n >= hist.taking[c]
      BY <2>2 DEF Enough
    <2>6. hist'.taking[c] \in {0, hist.taking[c]}
      OBVIOUS
    <2>7. file[p + 1].n >= hist'.taking[c]
      BY <2>4, <2>5, <2>6
    <2> QED BY <2>2, <2>7
  <1>10. KeysIn(file', P, e) \subseteq Stems(io'[w].seen)
    BY <1>8 DEF Stems
  <1>11. Progress(w, P, e)'
    <2>1. io'[w].pos \in e .. Len(file')
      BY <1>1, <1>2, <1>3, <1>4, <1>6
    <2>2. Within(file', P, e, hist'.taking)
      BY <1>8
    <2> QED BY <2>1, <2>2 DEF Progress
  <1>12. Half(w)'
    <2>1. P \in SUBSET (1 .. Len(file'))
      BY <1>3, <1>6
    <2>2. Enough(file', P, e, hist'.taking)
      BY <1>8, <1>9
    <2> QED BY <1>8, <1>10, <1>11, <2>1, <2>2 DEF Half
  <1> QED BY <1>12, TakerWrites

\* A key without bytes, or one behind it.
LEMMA TakingLostNode ==
  ASSUME IInv, hist \in Hists, Taking, NEW w \in Workers, NEW k \in Keys, WriteNode(w, k),
         hist.taking # Nothing,
         NEW P \in SUBSET (1 .. Len(file)), NEW e \in P,
         Chain(file, P, e), Enough(file, P, e, hist.taking),
         io[w].seen \subseteq tree, KeysIn(file, P, e) \subseteq Stems(io[w].seen),
         \/ KeyLen[k] = 0 /\ io[w].pos = e /\ KeysIn(file, P, e) = Stems(io[w].seen)
         \/ io[w].pos \in e .. Len(file) /\ Within(file, P, e, hist.taking)
  PROVE  Taker(w)'
  <1>1. /\ hist'.taking = Promised(w, k) /\ pc[w] = "node" /\ UNCHANGED <<tree, count, lock>>
        /\ file' = Put(file, io[w].pos, <<Node(k)>>) /\ pc' = [pc EXCEPT ![w] = "key"]
        /\ io' = [io EXCEPT ![w].pos = @ + 1, ![w].key = k, ![w].seen = @ \cup {k},
                            ![w].records = @ + 1]
        /\ k \in Ahead(w)
    BY DEF WriteNode, Hists
  <1>2. Taker(w)
    BY <1>1, TakerAlone DEF Writing
  <1>3. k \in tree
    BY <1>1, <1>2 DEF Taker, Ahead
  <1>4. /\ io'[w].pos = io[w].pos + 1 /\ io'[w].walk = io[w].walk /\ pc'[w] = "key"
        /\ io'[w].seen = io[w].seen \cup {k}
        /\ \A v \in Workers \ {w} : pc'[v] = pc[v]
    <2>1. io[w] \in IOs /\ io \in [Workers -> IOs] /\ pc \in [Workers -> Labels]
      BY Now
    <2> QED BY <1>1, <2>1 DEF IOs
  <1>5. PICK one \in Seq(Cells) : one = <<Node(k)>> /\ Len(one) = 1
    <2>1. PICK c \in Cells : c = Node(k)
      BY CellTypes
    <2>2. PICK s : s = <<c>>
      OBVIOUS
    <2>3. s \in Seq(Cells) /\ Len(s) = 1
      BY <2>2
    <2> QED BY <2>1, <2>2, <2>3
  <1>6. io[w].pos >= e /\ io[w].pos <= Len(file)
    BY Now
  <1>7. /\ Promised(w, k) \in Tables /\ \A c \in Keys : Promised(w, k)[c] \in {0, hist.taking[c]}
        /\ KeyLen[k] = 0 => \A c \in Keys : Promised(w, k)[c] > 0 => c \in Stems(io[w].seen)
    BY PromisedOf
  <1>8. Within(file, P, e, hist'.taking)
    BY <1>1, <1>7 DEF Within
  <1> QED BY <1>1, <1>2, <1>3, <1>4, <1>5, <1>6, <1>7, <1>8, TakerBehind

\* The record of the next node is begun.
LEMMA TakingWriteNode ==
  ASSUME IInv, hist \in Hists, Taking, NEW w \in Workers, NEW k \in Keys, WriteNode(w, k)
  PROVE  Taking'
  <1> SUFFICES ASSUME hist'.taking # Nothing PROVE Taker(w)'
    BY DEF Taking, Taker
  <1>0. hist'.taking = Promised(w, k) /\ hist.taking # Nothing /\ pc[w] = "node" /\ Taker(w)
    <2>1. hist'.taking = Promised(w, k) /\ pc[w] = "node"
      BY DEF WriteNode, Hists
    <2>2. hist.taking # Nothing
      BY <2>1, PromisedOf
    <2> QED BY <2>1, <2>2, TakerAlone DEF Writing
  <1>p. PICK P \in SUBSET (1 .. Len(file)), e \in 1 .. Len(file) :
          /\ e \in P
          /\ Chain(file, P, e) /\ Enough(file, P, e, hist.taking)
          /\ io[w].seen \subseteq tree /\ KeysIn(file, P, e) \subseteq Stems(io[w].seen)
          /\ \/ io[w].pos = e /\ KeysIn(file, P, e) = Stems(io[w].seen)
             \/ io[w].pos \in e .. Len(file) /\ Within(file, P, e, hist.taking)
    BY <1>0 DEF Taker, Half, Progress
  <1>c. CASE \/ KeyLen[k] = 0
             \/ io[w].pos \in e .. Len(file) /\ Within(file, P, e, hist.taking)
    BY <1>0, <1>p, <1>c, TakingLostNode
  <1> SUFFICES ASSUME KeyLen[k] # 0, io[w].pos = e, KeysIn(file, P, e) = Stems(io[w].seen)
               PROVE  Taker(w)'
    BY <1>p, <1>c
  <1>1. /\ hist'.taking = hist.taking /\ pc[w] = "node" /\ UNCHANGED <<tree, count, lock>>
        /\ file' = Put(file, io[w].pos, <<Node(k)>>) /\ pc' = [pc EXCEPT ![w] = "key"]
        /\ io' = [io EXCEPT ![w].pos = @ + 1, ![w].key = k, ![w].seen = @ \cup {k},
                            ![w].records = @ + 1]
        /\ k \in Ahead(w)
    BY <1>0, PromisedOf DEF WriteNode
  <1>2. Taker(w)
    BY <1>0
  <1>3. /\ e \in P
        /\ Chain(file, P, e) /\ Enough(file, P, e, hist.taking)
        /\ io[w].seen \subseteq tree /\ io[w].pos = e
    BY <1>p
  <1>4. e \in Nat /\ e <= Len(file) /\ e >= 1 /\ Len(file) \in Nat
    BY <1>3, Now DEF Chain
  <1>5. k \in tree /\ hist.taking[Stem[k]] <= count[k]
    BY <1>1, <1>2 DEF Taker, Ahead, Sure
  <1>6. /\ io'[w].pos = e + 1 /\ io'[w].key = k /\ io'[w].walk = "still" /\ pc'[w] = "key"
        /\ io'[w].seen = io[w].seen \cup {k}
        /\ \A v \in Workers \ {w} : pc'[v] = pc[v]
    <2>1. io[w] \in IOs /\ io \in [Workers -> IOs] /\ pc \in [Workers -> Labels]
      BY Now
    <2> QED BY <1>1, <1>2, <1>3, <2>1 DEF IOs, Taker
  <1>7. Len(file') >= e + 1 /\ Len(file') \in Nat /\ file'[e + 1] = Node(k)
        /\ \A i \in 1 .. e : file'[i] = file[i]
    <2>1. Node(k) \in Cells /\ Hole \in Cells /\ file \in Seq(Cells)
      BY CellTypes, Now
    <2>2. file' = Put(file, e, <<Node(k)>>)
      BY <1>1, <1>3
    <2>3. /\ Len(file') = (IF e + 1 > Len(file) THEN e + 1 ELSE Len(file))
          /\ \A i \in 1 .. e : file'[i] = file[i]
          /\ file'[e + 1] = Node(k)
      BY <1>4, <2>1, <2>2, PutOne
    <2> QED BY <1>4, <2>3
  <1>8. Node(k).part = "node" /\ Node(k).key = k /\ Node(k).n = count[k]
    BY DEF Node, Cell
  <1>9. Stems(io'[w].seen) = Stems(io[w].seen) \cup {Stem[k]}
    BY <1>6 DEF Stems
  <1>10. /\ Chain(file', P, e) /\ KeysIn(file', P, e) = Stems(io[w].seen)
         /\ Enough(file', P, e, hist.taking)
    <2>1. e <= Len(file')
      BY <1>4, <1>7
    <2>2. \A i \in 1 .. e : file'[i] = file[i]
      BY <1>7
    <2>3. Untouched(file, file', e) /\ e \in Nat
      BY <1>4, <2>1, <2>2 DEF Untouched
    <2>4. Carried(file, file', P, e)
      BY <1>3, <2>3, ChainKept
    <2> QED BY <1>3, <2>4 DEF Carried
  <1>11. Half(w)'
    <2>1. P \in SUBSET (1 .. Len(file'))
      BY <1>3, <1>4, <1>7, <1>10 DEF Chain
    <2>2. /\ io'[w].seen \subseteq tree'
          /\ Stems(io'[w].seen) = KeysIn(file', P, e) \cup {Stem[io'[w].key]}
      BY <1>1, <1>3, <1>5, <1>6, <1>9, <1>10
    <2>3. e < Len(file') /\ file'[e + 1].n >= hist'.taking[Stem[io'[w].key]]
      <3>1. PICK c \in Keys : c = Stem[k]
        BY StemType
      <3>2. hist.taking[c] \in Nat /\ count[k] \in Nat /\ hist.taking[c] <= count[k]
        BY <1>5, <3>1, Now DEF Hists, Tables
      <3> QED BY <1>1, <1>4, <1>6, <1>7, <1>8, <3>1, <3>2
    <2>4. /\ file'[e + 1].part = "node" /\ file'[e + 1].key = io'[w].key
          /\ KeyLen[io'[w].key] # 0 /\ Enough(file', P, e, hist'.taking)
      BY <1>1, <1>6, <1>7, <1>8, <1>10
    <2>5. Progress(w, P, e)'
      BY <1>6, <2>2, <2>3, <2>4 DEF Progress
    <2> QED BY <1>3, <1>10, <2>1, <2>2, <2>4, <2>5 DEF Half
  <1>12. hist'.taking \in Tables /\ \A c \in Keys : hist'.taking[c] \in {0, hist.taking[c]}
    BY <1>1 DEF Hists
  <1>13. io'[w].walk = io[w].walk
    BY <1>2, <1>6 DEF Taker
  <1> QED BY <1>1, <1>2, <1>6, <1>11, <1>12, <1>13, TakerWrites

LEMMA TakingLostKey ==
  ASSUME IInv, hist \in Hists, NEW w \in Workers, WriteKey(w), Taker(w),
         NEW P \in SUBSET (1 .. Len(file)), NEW e \in P,
         Chain(file, P, e), Enough(file, P, e, hist.taking),
         io[w].seen \subseteq tree, KeysIn(file, P, e) \subseteq Stems(io[w].seen),
         io[w].pos \in e .. Len(file), Within(file, P, e, hist.taking)
  PROVE  Taker(w)'
  <1>1. /\ hist' = hist /\ pc[w] = "key" /\ UNCHANGED <<tree, count, lock>>
        /\ pc' = [pc EXCEPT ![w] = "node"]
    BY DEF WriteKey
  <1>2. PICK k \in Keys : k = io[w].key
    BY <1>1, Now DEF KeyInHand
  <1>3. PICK cells \in Seq(Cells) : cells = Append(KeyBytes(k), Pad)
    BY KeyCells
  <1>4. /\ file' = Put(file, io[w].pos, cells)
        /\ io' = [io EXCEPT ![w].pos = @ + Len(cells), ![w].key = Null]
    BY <1>2, <1>3 DEF WriteKey, Taker
  <1>5. /\ io'[w].pos = io[w].pos + Len(cells) /\ io'[w].walk = io[w].walk
        /\ io'[w].seen = io[w].seen /\ pc'[w] = "node"
        /\ \A v \in Workers \ {w} : pc'[v] = pc[v]
    <2>1. io[w] \in IOs /\ io \in [Workers -> IOs] /\ pc \in [Workers -> Labels]
      BY Now
    <2>2. PICK l \in Nat : l = Len(cells)
      OBVIOUS
    <2>3. io'[w] = [io[w] EXCEPT !.pos = @ + l, !.key = Null]
      BY <1>4, <2>1, <2>2
    <2> QED BY <1>1, <2>1, <2>2, <2>3 DEF IOs
  <1>6. io[w].pos >= e /\ io[w].pos <= Len(file)
    BY Now
  <1>7. hist'.taking \in Tables /\ \A c \in Keys : hist'.taking[c] \in {0, hist.taking[c]}
    BY <1>1 DEF Hists
  <1> QED BY <1>1, <1>4, <1>5, <1>6, <1>7, TakerBehind

\* And its key ends it.
LEMMA TakingWriteKey ==
  ASSUME IInv, hist \in Hists, Taking, NEW w \in Workers, WriteKey(w)
  PROVE  Taking'
  <1> SUFFICES ASSUME hist'.taking # Nothing PROVE Taker(w)'
    BY DEF Taking, Taker
  <1>1. /\ hist' = hist /\ pc[w] = "key" /\ UNCHANGED <<tree, count, lock>>
        /\ pc' = [pc EXCEPT ![w] = "node"]
    BY DEF WriteKey
  <1>2. Taker(w)
    BY <1>1, TakerAlone DEF Writing
  <1>p. PICK P \in SUBSET (1 .. Len(file)), e \in 1 .. Len(file) :
          /\ e \in P
          /\ Chain(file, P, e) /\ Enough(file, P, e, hist.taking)
          /\ io[w].seen \subseteq tree /\ KeysIn(file, P, e) \subseteq Stems(io[w].seen)
          /\ Progress(w, P, e)
    BY <1>1, <1>2 DEF Taker, Half
  <1>c. CASE io[w].pos \in e .. Len(file) /\ Within(file, P, e, hist.taking)
    BY <1>2, <1>p, <1>c, TakingLostKey
  <1> SUFFICES ASSUME ~(io[w].pos \in e .. Len(file) /\ Within(file, P, e, hist.taking))
               PROVE  Taker(w)'
    BY <1>c
  <1>3. /\ e \in P
        /\ Chain(file, P, e) /\ Enough(file, P, e, hist.taking)
        /\ io[w].seen \subseteq tree /\ io[w].pos = e + 1 /\ e < Len(file)
        /\ file[e + 1].part = "node" /\ file[e + 1].key = io[w].key /\ KeyLen[io[w].key] # 0
        /\ file[e + 1].n >= hist.taking[Stem[io[w].key]]
        /\ Stems(io[w].seen) = KeysIn(file, P, e) \cup {Stem[io[w].key]}
    BY <1>1, <1>p DEF Progress
  <1>4. e \in Nat /\ e >= 1 /\ Len(file) \in Nat
    BY <1>3, Now DEF Chain
  <1>5. PICK k \in Keys : k = io[w].key
    BY <1>1, Now DEF KeyInHand
  <1>6. PICK cells \in Seq(Cells) :
           /\ cells = Append(KeyBytes(k), Pad) /\ Len(cells) = KeyLen[k] + 1
           /\ \A i \in 1 .. KeyLen[k] : cells[i] = Cell("data", Stem[k], i)
           /\ cells[KeyLen[k] + 1] = Pad
    BY KeyCells
  <1>7. PICK m \in Nat : m = KeyLen[k] /\ m > 0
    BY <1>3, <1>5, KeyAssumption
  <1>8. PICK n \in Nat : n = e + 1
    BY <1>4
  <1>9. /\ file' = Put(file, n, cells)
        /\ io' = [io EXCEPT ![w].pos = @ + Len(cells), ![w].key = Null]
    BY <1>2, <1>3, <1>5, <1>6, <1>8 DEF WriteKey, Taker
  <1>10. PICK d \in Nat : d = e + m + 2
    BY <1>4
  <1>11. /\ Len(file') >= d /\ Len(file') \in Nat /\ \A i \in 1 .. e + 1 : file'[i] = file[i]
         /\ \A i \in 1 .. m : file'[e + 1 + i] = Cell("data", Stem[k], i)
         /\ file'[e + m + 2] = Pad
    <2>1. Hole \in Cells /\ file \in Seq(Cells) /\ n <= Len(file)
      BY <1>3, <1>4, <1>8, Now, CellTypes
    <2>2. PICK l \in Nat : l = m + 1 /\ Len(cells) = l
      BY <1>6, <1>7
    <2>3. Written(file, n, cells, l, file')
      BY <1>9, <2>1, <2>2, PutCells
    <2>4. /\ Len(file') = (IF n + l > Len(file) THEN n + l ELSE Len(file))
          /\ \A i \in 1 .. n : file'[i] = file[i]
          /\ \A i \in 1 .. l : file'[n + i] = cells[i]
      BY <2>3 DEF Written
    <2>5. file'[n + l] = Pad /\ n + l = e + m + 2
      <3>1. l \in 1 .. l /\ cells[l] = Pad
        BY <1>6, <1>7, <2>2
      <3> QED BY <1>8, <2>2, <2>4, <3>1
    <2>6. \A i \in 1 .. m : file'[e + 1 + i] = Cell("data", Stem[k], i)
      <3>1. \A i \in 1 .. m : i \in 1 .. l /\ cells[i] = Cell("data", Stem[k], i)
        BY <1>6, <1>7, <2>2
      <3> QED BY <1>8, <2>4, <3>1
    <2> QED BY <1>4, <1>8, <1>10, <2>4, <2>5, <2>6
  <1>12. /\ io'[w].pos = d /\ io'[w].walk = "still" /\ pc'[w] = "node"
         /\ io'[w].seen = io[w].seen
         /\ \A v \in Workers \ {w} : pc'[v] = pc[v]
    <2>1. io[w] \in IOs /\ io \in [Workers -> IOs] /\ pc \in [Workers -> Labels]
      BY Now
    <2>2. PICK l \in Nat : l = Len(cells) /\ e + 1 + l = d
      BY <1>4, <1>6, <1>7, <1>10
    <2>3. io' = [io EXCEPT ![w].pos = @ + l, ![w].key = Null] /\ io[w].pos = e + 1
      BY <1>3, <1>9, <2>2
    <2>4. io'[w] = [io[w] EXCEPT !.pos = @ + l, !.key = Null]
      BY <2>1, <2>3
    <2>5. io'[w].pos = d /\ io'[w].walk = "still" /\ io'[w].seen = io[w].seen
      BY <1>2, <2>1, <2>2, <2>3, <2>4 DEF IOs, Taker
    <2> QED BY <1>1, <2>1, <2>5
  <1>13. Writing' = Writing
    BY <1>1, <1>12 DEF Writing
  <1>14. PICK K : K = KeysIn(file, P, e)
    OBVIOUS
  <1>15. Chain(file', P, e) /\ KeysIn(file', P, e) = K /\ Enough(file', P, e, hist.taking)
    <2>1. e \in Nat /\ e <= Len(file')
      BY <1>4, <1>10, <1>11
    <2>2. \A i \in 1 .. e : file'[i] = file[i]
      <3>1. \A i \in 1 .. e : i \in 1 .. e + 1
        BY <2>1
      <3> QED BY <1>11, <3>1
    <2>3. Untouched(file, file', e)
      BY <2>1, <2>2 DEF Untouched
    <2>4. Carried(file, file', P, e)
      BY <1>3, <2>1, <2>3, ChainKept
    <2> QED BY <1>3, <1>14, <2>4 DEF Carried
  <1>16. /\ Chain(file', With(P, d), d) /\ KeysIn(file', With(P, d), d) = With(K, Stem[k])
         /\ Enough(file', With(P, d), d, hist.taking)
    <2>1. file'[e + 1] = file[e + 1]
      <3>1. e + 1 \in 1 .. e + 1
        BY <1>4
      <3> QED BY <1>11, <3>1
    <2>2. e + m + 2 <= Len(file') /\ file'[e + 1].part = "node" /\ file'[e + 1].key = k
      BY <1>3, <1>5, <1>10, <1>11, <2>1
    <2>3. file'[e + 1].n >= hist.taking[Stem[k]]
      BY <1>3, <1>5, <2>1
    <2>4. Follows(file', e, k, d)
      BY <1>7, <1>10, <1>11, <2>2 DEF Follows
    <2>5. /\ Chain(file', With(P, d), d) /\ KeysIn(file', With(P, d), d) = With(K, Stem[k])
          /\ \A t : Enough(file', P, e, t) /\ file'[e + 1].n >= t[Stem[k]]
                      => Enough(file', With(P, d), d, t)
      BY <1>4, <1>15, <2>4, ChainGrows
    <2> QED BY <1>15, <2>3, <2>5
  <1>17. PICK Q : Q = With(P, d)
    OBVIOUS
  <1>18. Half(w)'
    <2>1. Q \in SUBSET (1 .. Len(file')) /\ d \in Q
      BY <1>10, <1>11, <1>16, <1>17 DEF Chain
    <2>2. io'[w].seen \subseteq tree' /\ KeysIn(file', Q, d) = Stems(io'[w].seen)
      BY <1>1, <1>3, <1>5, <1>12, <1>14, <1>16, <1>17 DEF With
    <2>3. Chain(file', Q, d) /\ Enough(file', Q, d, hist'.taking)
      BY <1>1, <1>16, <1>17
    <2>4. Progress(w, Q, d)'
      BY <1>12, <2>2 DEF Progress
    <2> QED BY <2>1, <2>2, <2>3, <2>4 DEF Half
  <1>19. hist'.taking \in Tables /\ \A c \in Keys : hist'.taking[c] \in {0, hist.taking[c]}
    BY <1>1 DEF Hists
  <1>20. io'[w].walk = io[w].walk
    BY <1>2, <1>12 DEF Taker
  <1> QED BY <1>1, <1>2, <1>12, <1>18, <1>19, <1>20, TakerWrites

LEMMA TakingKept ==
  ASSUME IInv, hist \in Hists, hist' \in Hists, Taking, [Next]_vars
  PROVE  Taking'
  <1>1. CASE UNCHANGED vars \/ Tick
    <2>1. UNCHANGED <<tree, count, file, lock, pc, io, hist>>
      BY <1>1 DEF vars, Tick
    <2> QED BY <2>1 DEF Taking, Half, Progress, Sure, Writing
  <1>2. CASE Restart
    <2>1. Writing = {} /\ hist'.taking = hist.taking
      BY <1>2 DEF Restart, Writing, Hists
    <2> QED BY <2>1 DEF Taking
  <1>3. ASSUME NEW w \in Workers, \E k \in Keys : Request(w, k) \/ Remove(w, k) PROVE Taking'
    BY <1>3, TakingRequest, TakingGivenUp
  <1>4. ASSUME NEW w \in Workers, Dump(w) \/ Exit(w) \/ Lock(w) PROVE Taking'
    BY <1>4, TakingPlain, TakingGivenUp, TakingLock, TakingWriteNode, TakingWriteKey DEF Dump
  <1>5. ASSUME NEW w \in Workers, LockInterrupted(w) \/ DumpFailed(w) \/ WriteFailed(w)
        PROVE  Taking'
    BY <1>5, TakingPlain, TakingGivenUp
  <1>6. ASSUME NEW w \in Workers, Start(w) \/ Restore(w) \/ Crash(w) PROVE Taking'
    BY <1>6, TakingPlain, TakingReadKey DEF Restore
  <1> QED BY <1>1, <1>2, <1>3, <1>4, <1>5, <1>6 DEF Next

(* What is saved, and what is owed. *)

LEMMA UpWhen ==
  ASSUME hist \in Hists, Owed, NEW w \in Workers, pc[w] \notin {"off", "restore", "restore_key"}
  PROVE  hist.up = TRUE
  BY DEF Owed, Hists

\* Once a worker is up, a step that leaves the zone and the file alone keeps both.
LEMMA KeptWhenUp ==
  ASSUME Saved, Owed, hist.up, hist'.up, hist'.owed = hist.owed, UNCHANGED <<tree, count>>,
         hist'.saved = Nothing \/ (hist'.saved = hist.saved /\ file' = file /\ Writing' \subseteq Writing)
  PROVE  Saved' /\ Owed'
  <1>1. Owed'
    BY DEF Owed, Live
  <1>2. ASSUME hist'.saved = hist.saved, file' = file, Writing' \subseteq Writing,
               hist'.saved # Nothing
        PROVE  Saved'
    <2>1. Writing' = {}
      BY <1>2 DEF Saved
    <2>2. PICK P \in SUBSET (1 .. Len(file)), e \in 1 .. Len(file) : e \in P /\ Holds(P, e)
      BY <1>2 DEF Saved
    <2>3. Holds(P, e)'
      BY <1>2, <2>2 DEF Holds
    <2> QED BY <1>2, <2>1, <2>2, <2>3 DEF Saved
  <1> QED BY <1>1, <1>2 DEF Saved

LEMMA KeptPlain ==
  ASSUME IInv, hist \in Hists, Saved, Owed, NEW w \in Workers,
         Timer(w) \/ Exit(w) \/ DumpFailed(w) \/ Open(w) \/ Lock(w) \/ LockInterrupted(w)
  PROVE  Saved' /\ Owed'
  <1>1. pc \in [Workers -> Labels]
    BY Now
  <1>2. pc[w] \notin {"off", "restore", "restore_key"}
    BY DEF Timer, Exit, DumpFailed, Open, Lock, LockInterrupted
  <1>3. /\ hist.up /\ hist'.up = hist.up /\ hist'.owed = hist.owed /\ UNCHANGED <<tree, count>>
    BY <1>2, UpWhen DEF Timer, Exit, DumpFailed, Open, Lock, LockInterrupted, Done, Hists
  <1>4. CASE Open(w) \/ Lock(w) \/ LockInterrupted(w)
    <2>1. hist'.saved = Nothing
      BY <1>4 DEF Open, Lock, LockInterrupted, Hists
    <2> QED BY <1>3, <2>1, KeptWhenUp
  <1>5. CASE Timer(w) \/ Exit(w) \/ DumpFailed(w)
    <2>1. hist'.saved = hist.saved /\ file' = file
      BY <1>5 DEF Timer, Exit, DumpFailed, Hists
    <2>2. PICK l \in {"due", "off", "run"} : pc' = [pc EXCEPT ![w] = l]
      BY <1>5 DEF Timer, Exit, DumpFailed, Done
    <2>3. Writing' \subseteq Writing
      BY <1>1, <2>2 DEF Writing
    <2> QED BY <1>3, <2>1, <2>3, KeptWhenUp
  <1> QED BY <1>4, <1>5

\* A file that is being written holds nothing yet.
LEMMA KeptWriting ==
  ASSUME IInv, hist \in Hists, Saved, Owed, NEW w \in Workers,
         (\E k \in Keys : WriteNode(w, k)) \/ WriteKey(w) \/ WriteFailed(w)
  PROVE  Saved' /\ Owed'
  <1>1. pc[w] \in {"node", "key"} /\ w \in Writing
    BY DEF WriteNode, WriteKey, WriteFailed, Writing
  <1>2. hist.saved = Nothing
    BY <1>1 DEF Saved
  <1>3. /\ hist.up /\ hist'.up = hist.up /\ hist'.owed = hist.owed /\ hist'.saved = hist.saved
        /\ UNCHANGED <<tree, count>>
    BY <1>1, UpWhen DEF WriteNode, WriteKey, WriteFailed, Hists
  <1> QED BY <1>2, <1>3, KeptWhenUp

LEMMA KeptRequest ==
  ASSUME IInv, hist \in Hists, Saved, Owed, NEW w \in Workers, NEW k \in Keys, Request(w, k)
  PROVE  Saved' /\ Owed'
  <1>1. /\ file' = file /\ pc' = pc /\ tree' = tree \cup {k}
        /\ count' = [count EXCEPT ![k] = IF k \in tree THEN @ + 1 ELSE 1] /\ pc[w] = "run"
    BY DEF Request
  <1>2. hist'.saved = hist.saved /\ hist'.owed = hist.owed /\ hist'.up = hist.up /\ hist.up
    BY <1>1, UpWhen DEF Request, Hists
  <1>3. Owed'
    <2> SUFFICES ASSUME NEW j \in Keys PROVE Live(j)' >= hist'.owed[j]
      BY <1>2 DEF Owed
    <2>1. Live(j) >= hist.owed[j] /\ hist.owed[j] \in Nat /\ Live(j) \in Nat
      BY <1>2, LiveType DEF Owed, Hists, Tables
    <2>2. count[j] \in Nat /\ count \in [Keys -> Nat]
      BY Now
    <2>3. CASE j # k
      <3>1. Live(j)' = Live(j)
        BY <1>1, <2>2, <2>3 DEF Live
      <3> QED BY <1>2, <2>1, <3>1
    <2>4. CASE j = k
      <3>1. Live(j)' = Live(j) + 1
        BY <1>1, <2>2, <2>4 DEF Live
      <3> QED BY <1>2, <2>1, <3>1
    <2> QED BY <2>3, <2>4
  <1>4. Saved'
    <2> SUFFICES ASSUME hist.saved # Nothing PROVE Saved'
      BY <1>2 DEF Saved
    <2>1. PICK P \in SUBSET (1 .. Len(file)), e \in 1 .. Len(file) : e \in P /\ Holds(P, e)
      BY DEF Saved
    <2>2. Holds(P, e)' /\ Writing' = {}
      BY <1>1, <1>2, <2>1 DEF Holds, Saved, Writing
    <2> QED BY <1>1, <1>2, <2>1, <2>2 DEF Saved
  <1> QED BY <1>3, <1>4

\* A node that is removed is owed no longer.
LEMMA KeptRemove ==
  ASSUME IInv, hist \in Hists, Saved, Owed, NEW w \in Workers, NEW k \in Keys, Remove(w, k)
  PROVE  Saved' /\ Owed'
  <1>1. /\ file' = file /\ pc' = pc /\ tree' = tree \ {k} /\ count' = count /\ pc[w] = "run"
    BY DEF Remove
  <1>2. /\ hist'.saved = [hist.saved EXCEPT ![k] = 0] /\ hist'.owed = [hist.owed EXCEPT ![k] = 0]
        /\ hist'.up = hist.up /\ hist.up
    BY <1>1, UpWhen DEF Remove, Hists
  <1>3. hist.saved \in Tables /\ hist.owed \in Tables
    BY DEF Hists
  <1>4. Owed'
    <2> SUFFICES ASSUME NEW j \in Keys PROVE Live(j)' >= hist'.owed[j]
      BY <1>2 DEF Owed
    <2>1. Live(j) >= hist.owed[j] /\ Live(j)' \in {0, Live(j)} /\ (j # k => Live(j)' = Live(j))
      BY <1>1, <1>2 DEF Owed, Live
    <2>2. hist'.owed[j] = IF j = k THEN 0 ELSE hist.owed[j]
      BY <1>2, <1>3 DEF Tables
    <2>3. Live(j) \in Nat
      BY LiveType
    <2> QED BY <2>1, <2>2, <2>3
  <1>5. ASSUME NEW j \in Keys
        PROVE  /\ hist.saved[j] \in Nat /\ hist'.saved[j] \in {0, hist.saved[j]}
               /\ hist.saved = Nothing => hist'.saved[j] = 0
    BY <1>2, <1>3, NothingType DEF Tables
  <1>6. Saved'
    <2> SUFFICES ASSUME hist'.saved # Nothing PROVE Saved'
      BY DEF Saved
    <2>1. hist.saved # Nothing
      <3>1. hist'.saved \in Tables
        BY <1>2, <1>3 DEF Tables
      <3> QED BY <1>5, <3>1 DEF Nothing, Tables
    <2>2. PICK P \in SUBSET (1 .. Len(file)), e \in 1 .. Len(file) : e \in P /\ Holds(P, e)
      BY <2>1 DEF Saved
    <2>3. e \in Nat /\ Chain(file, P, e)
      BY <2>2, Now DEF Holds
    <2>4. Enough(file, P, e, hist'.saved)
      <3> SUFFICES ASSUME NEW p \in P \ {e}
                   PROVE  file[p + 1].n >= hist'.saved[Stem[file[p + 1].key]]
        BY DEF Enough
      <3>1. PICK j \in Keys : j = Stem[file[p + 1].key]
        BY <2>3, RecordKey
      <3>2. file[p + 1].n \in Nat
        <4>1. p \in Nat /\ p < e /\ e <= Len(file) /\ file[p + 1].part = "node"
          BY <2>3, RecordKey
        <4>2. p + 1 \in 1 .. Len(file)
          BY <2>3, <4>1
        <4> QED BY <4>1, <4>2, NodeKey
      <3>3. file[p + 1].n >= hist.saved[j]
        BY <2>2, <3>1 DEF Holds, Enough
      <3> QED BY <1>5, <3>1, <3>2, <3>3
    <2>5. \A j \in Keys : hist'.saved[j] > 0 => hist.saved[j] > 0
      BY <1>5
    <2>6. Holds(P, e)'
      BY <1>1, <2>2, <2>4, <2>5 DEF Holds, Within
    <2>7. Writing' = {}
      BY <1>1, <2>1 DEF Saved, Writing
    <2> QED BY <1>1, <1>2, <2>2, <2>6, <2>7 DEF Saved
  <1> QED BY <1>4, <1>6

\* There are no more keys that are spelled than nodes.
LEMMA StemsRoom ==
  ASSUME IInv, NEW K, K \subseteq Stems(tree)
  PROVE  Cardinality(K) <= Capacity
  <1>1. tree \subseteq Keys /\ Cardinality(tree) <= Capacity /\ Capacity \in Nat
    BY Now, NumberAssumption
  <1>2. IsFiniteSet(tree)
    BY <1>1, FS_Subset, KeyAssumption
  <1>3. PICK S : S = Stems(tree)
    OBVIOUS
  <1>4. IsFiniteSet(S) /\ Cardinality(S) <= Cardinality(tree)
    <2>1. \A x \in tree : Stem[x] \in S
      BY <1>3 DEF Stems
    <2>2. PICK f : f = [x \in tree |-> Stem[x]]
      OBVIOUS
    <2>3. f \in Surjection(tree, S)
      BY <1>3, <2>1, <2>2 DEF Stems, Surjection
    <2> QED BY <1>2, <2>3, FS_Surjection
  <1>5. IsFiniteSet(K) /\ Cardinality(K) <= Cardinality(S)
    BY <1>3, <1>4, FS_Subset
  <1>6. Cardinality(K) \in Nat /\ Cardinality(S) \in Nat /\ Cardinality(tree) \in Nat
    BY <1>2, <1>4, <1>5, FS_CardinalityType
  <1> QED BY <1>1, <1>4, <1>5, <1>6

\* The walk that nothing upset is over: it has seen the whole tree, which the slab holds.
LEMMA KeptClose ==
  ASSUME IInv, hist \in Hists, Taking, Saved, Owed, NEW w \in Workers, Close(w)
  PROVE  Saved' /\ Owed'
  <1>1. /\ pc[w] = "node" /\ w \in Writing /\ file' = file /\ UNCHANGED <<tree, count>>
        /\ pc' = [pc EXCEPT ![w] = IF w \in quit THEN "off" ELSE "run"]
        /\ io[w].walk = "still" => Ahead(w) = {}
    BY DEF Close, Done, Writing
  <1>2. /\ hist'.saved = IF lock = w THEN hist.taking ELSE hist.saved
        /\ hist'.owed = hist.owed /\ hist'.up = hist.up /\ hist.up
    BY <1>1, UpWhen DEF Close, Hists
  <1>3. hist.saved = Nothing
    BY <1>1 DEF Saved
  <1>4. Owed'
    BY <1>1, <1>2 DEF Owed, Live
  <1>5. Saved'
    <2> SUFFICES ASSUME hist'.saved # Nothing PROVE Saved'
      BY DEF Saved
    <2>1. hist'.saved = hist.taking /\ hist.taking # Nothing
      BY <1>2, <1>3
    <2>2. Taker(w)
      BY <1>1, <2>1, TakerAlone
    <2>3. PICK P \in SUBSET (1 .. Len(file)), e \in 1 .. Len(file) :
            /\ e \in P
            /\ Chain(file, P, e) /\ Enough(file, P, e, hist.taking)
            /\ io[w].seen \subseteq tree /\ KeysIn(file, P, e) \subseteq Stems(io[w].seen)
            /\ \/ KeysIn(file, P, e) = Stems(io[w].seen)
               \/ Within(file, P, e, hist.taking)
      BY <1>1, <2>2 DEF Taker, Half, Progress
    <2>4. io[w].seen = tree
      BY <1>1, <2>2, <2>3 DEF Taker, Ahead
    <2>5. Within(file, P, e, hist.taking)
      BY <2>2, <2>3, <2>4 DEF Taker, Sure, Within
    <2>6. Cardinality(KeysIn(file, P, e)) <= Capacity
      BY <2>3, <2>4, StemsRoom
    <2>7. Holds(P, e)'
      BY <1>1, <2>1, <2>3, <2>5, <2>6 DEF Holds
    <2>8. Writing' = {}
      BY <1>1, <2>2, Now DEF Writing, Taker
    <2> QED BY <1>1, <1>2, <2>3, <2>7, <2>8 DEF Saved
  <1> QED BY <1>4, <1>5

\* A first worker is up when the zone has what is owed.
LEMMA KeptRestored ==
  ASSUME IInv, hist \in Hists, Saved, Owed, NEW w \in Workers, Restored(w), file' = file,
         \/ hist.up
         \/ hist.saved = Nothing
         \/ \A k \in Keys : hist.saved[k] > 0 => k \in tree
  PROVE  Saved' /\ Owed'
  <1>1. /\ pc' = [pc EXCEPT ![w] = "run"] /\ UNCHANGED <<tree, count>>
        /\ hist'.up = TRUE /\ hist'.owed = hist.owed /\ hist'.saved = hist.saved
    BY DEF Restored, Hists
  <1>2. Writing' \subseteq Writing
    BY <1>1, Now DEF Writing
  <1>3. CASE hist.up
    BY <1>1, <1>2, <1>3, KeptWhenUp
  <1>4. CASE ~hist.up
    <2>1. hist.owed = hist.saved /\ \A k \in tree : count[k] >= hist.saved[k]
      BY <1>4 DEF Owed
    <2>2. ASSUME NEW k \in Keys PROVE Live(k)' >= hist'.owed[k]
      <3>1. hist.saved[k] \in Nat /\ count[k] \in Nat
        BY Now DEF Hists, Tables
      <3>2. CASE k \in tree
        BY <1>1, <2>1, <3>1, <3>2 DEF Live
      <3>3. CASE k \notin tree
        <4>1. hist.saved[k] = 0
          BY <1>4, <3>1, <3>3, NothingType
        <4> QED BY <1>1, <2>1, <3>3, <4>1 DEF Live
      <3> QED BY <3>2, <3>3
    <2>3. Owed'
      BY <1>1, <2>2 DEF Owed
    <2>4. Saved'
      <3> SUFFICES ASSUME hist.saved # Nothing PROVE Saved'
        BY <1>1 DEF Saved
      <3>1. PICK P \in SUBSET (1 .. Len(file)), e \in 1 .. Len(file) : e \in P /\ Holds(P, e)
        BY DEF Saved
      <3>2. Holds(P, e)' /\ Writing' = {}
        BY <1>1, <1>2, <3>1 DEF Holds, Saved
      <3> QED BY <1>1, <3>1, <3>2 DEF Saved
    <2> QED BY <2>3, <2>4
  <1> QED BY <1>3, <1>4

\* Before one is, a worker that goes on reading leaves no record out.
LEMMA KeptComing ==
  ASSUME IInv, Saved, Owed, ~hist.up, ~hist'.up, hist'.saved = hist.saved, hist'.owed = hist.owed,
         UNCHANGED <<tree, count, file>>, NEW w \in Workers,
         NEW l \in {"off", "restore", "restore_key"}, pc' = [pc EXCEPT ![w] = l],
         \A v \in Workers \ {w} : io'[v] = io[v],
         \A P \in SUBSET (1 .. Len(file)), e \in 1 .. Len(file) :
           e \in P /\ Holds(P, e) /\ Ready(w, P, e)
             => Ready(w, P, e)' \/ KeysIn(file, P, e) \subseteq tree
  PROVE  Saved' /\ Owed'
  <1>1. pc'[w] = l /\ \A v \in Workers \ {w} : pc'[v] = pc[v]
    BY Now
  <1>2. Owed'
    BY <1>1 DEF Owed
  <1>3. Saved'
    <2> SUFFICES ASSUME hist.saved # Nothing PROVE Saved'
      BY DEF Saved
    <2>1. PICK P \in SUBSET (1 .. Len(file)), e \in 1 .. Len(file) :
            e \in P /\ Holds(P, e) /\ Coming(P, e)
      BY DEF Saved
    <2>2. Holds(P, e)' /\ Writing' = {}
      BY <1>1, <2>1 DEF Holds, Saved, Writing
    <2>3. ASSUME NEW v \in Workers, v # w, Ready(v, P, e) PROVE Ready(v, P, e)'
      <3>1. pc'[v] = pc[v] /\ io'[v] = io[v]
        BY <1>1, <2>3
      <3> QED BY <2>3, <3>1 DEF Ready
    <2>4. Coming(P, e)'
      <3>1. CASE KeysIn(file, P, e) \subseteq tree
        BY <3>1 DEF Coming
      <3>2. CASE tree \subseteq KeysIn(file, P, e) /\ \A v \in Workers : Ready(v, P, e)
        <4>1. Ready(w, P, e)' \/ KeysIn(file, P, e) \subseteq tree
          BY <2>1, <3>2
        <4> QED BY <2>3, <3>2, <4>1 DEF Coming
      <3> QED BY <2>1, <3>1, <3>2 DEF Coming
    <2> QED BY <2>1, <2>2, <2>4 DEF Saved
  <1> QED BY <1>2, <1>3

LEMMA KeptStart ==
  ASSUME IInv, hist \in Hists, Saved, Owed, NEW w \in Workers, Start(w)
  PROVE  Saved' /\ Owed'
  <1>1. pc[w] = "off" /\ UNCHANGED <<tree, count, file>> /\ pc \in [Workers -> Labels]
        /\ io \in [Workers -> IOs] /\ io[w] \in IOs
    BY Now DEF Start, Restored
  <1>2. CASE Restored(w)
    <2>1. hist.saved # Nothing => HasHeader
      <3> SUFFICES ASSUME hist.saved # Nothing PROVE HasHeader
        OBVIOUS
      <3>1. PICK P \in SUBSET (1 .. Len(file)), e \in 1 .. Len(file) : e \in P /\ Holds(P, e)
        BY DEF Saved
      <3>2. file[1].part = "header" /\ 1 \in 1 .. e
        BY <3>1 DEF Holds, Chain
      <3> QED BY <3>2 DEF HasHeader
    <2>2. CASE HasHeader
      <3>1. pc' = [pc EXCEPT ![w] = "restore"] /\ pc'[w] = "restore"
        BY <1>1, <1>2, <2>2 DEF Start, Restored
      <3>2. pc'[w] = "run"
        BY <1>1, <1>2 DEF Restored
      <3> QED BY <3>1, <3>2
    <2> QED BY <1>1, <1>2, <2>1, <2>2, KeptRestored
  <1>3. CASE ~Restored(w)
    <2>1. /\ pc' = [pc EXCEPT ![w] = "restore"] /\ io' = [io EXCEPT ![w].pos = 1]
          /\ hist'.up = hist.up /\ hist'.owed = hist.owed /\ hist'.saved = hist.saved
      BY <1>3 DEF Start, Hists
    <2>2. pc'[w] = "restore" /\ io'[w].pos = 1 /\ \A v \in Workers \ {w} : io'[v] = io[v]
      BY <1>1, <2>1 DEF IOs
    <2>3. CASE hist.up
      <3>1. Writing' \subseteq Writing
        BY <1>1, <2>1 DEF Writing
      <3> QED BY <1>1, <2>1, <2>3, <3>1, KeptWhenUp
    <2>4. CASE ~hist.up
      <3>1. ASSUME NEW P \in SUBSET (1 .. Len(file)), NEW e \in 1 .. Len(file), Holds(P, e)
            PROVE  Ready(w, P, e)'
        <4>1. 1 \in P /\ \A p \in P : p >= 1
          BY <3>1 DEF Holds, Chain
        <4> QED BY <2>2, <4>1 DEF Ready
      <3> QED BY <1>1, <2>1, <2>2, <2>4, <3>1, KeptComing
    <2> QED BY <2>3, <2>4
  <1> QED BY <1>2, <1>3

\* A worker that reads nodes has a record before it, or has read them all.
LEMMA AtRecord ==
  ASSUME IInv, NEW w \in Workers, pc[w] = "restore", NEW P \in SUBSET (1 .. Len(file)),
         NEW e \in 1 .. Len(file), e \in P, Holds(P, e), Ready(w, P, e)
  PROVE  \/ KeysIn(file, P, e) \subseteq tree
         \/ /\ io[w].pos \in P \ {e} /\ io[w].pos < Len(file)
            /\ file[io[w].pos + 1].part = "node"
            /\ \A p \in P \ {e} : p < io[w].pos => Stem[file[p + 1].key] \in tree
  <1>1. e \in Nat /\ Chain(file, P, e) /\ e <= Len(file)
    BY Now DEF Holds
  <1>2. io[w].pos \in P /\ \A p \in P \ {e} : p < io[w].pos => Stem[file[p + 1].key] \in tree
    BY DEF Ready
  <1>3. CASE io[w].pos = e
    <2>1. ASSUME NEW p \in P \ {e} PROVE Stem[file[p + 1].key] \in tree
      <3>1. p < e
        BY <1>1, RecordAhead
      <3> QED BY <1>2, <1>3, <3>1
    <2> QED BY <2>1 DEF KeysIn
  <1>4. CASE io[w].pos # e
    <2>1. PICK p \in P \ {e} : p = io[w].pos
      BY <1>2, <1>4
    <2>2. p < e /\ file[p + 1].part = "node" /\ p \in Nat
      BY <1>1, RecordAhead
    <2> QED BY <1>1, <1>2, <2>1, <2>2, Now
  <1> QED BY <1>3, <1>4

LEMMA KeptReadNode ==
  ASSUME IInv, hist \in Hists, Saved, Owed, NEW w \in Workers, ReadNode(w)
  PROVE  Saved' /\ Owed'
  <1>1. /\ pc[w] = "restore" /\ UNCHANGED <<tree, count, file>> /\ pc \in [Workers -> Labels]
        /\ io \in [Workers -> IOs] /\ io[w] \in IOs /\ io[w].pos \in Nat
    BY Now DEF ReadNode, Restored, IOs
  <1>2. CASE Restored(w)
    <2>1. io[w].pos < Len(file) => file[io[w].pos + 1].part # "node"
      <3>1. pc'[w] = "run"
        BY <1>1, <1>2 DEF Restored
      <3>2. pc' # pc /\ pc' # [pc EXCEPT ![w] = "restore_key"]
        BY <1>1, <3>1
      <3> QED BY <3>2 DEF ReadNode
    <2>2. ~hist.up /\ hist.saved # Nothing => \A k \in Keys : hist.saved[k] > 0 => k \in tree
      <3> SUFFICES ASSUME ~hist.up, hist.saved # Nothing
                   PROVE  \A k \in Keys : hist.saved[k] > 0 => k \in tree
        OBVIOUS
      <3>1. PICK P \in SUBSET (1 .. Len(file)), e \in 1 .. Len(file) :
              e \in P /\ Holds(P, e) /\ Coming(P, e)
        BY DEF Saved
      <3>2. KeysIn(file, P, e) \subseteq tree
        BY <1>1, <2>1, <3>1, AtRecord DEF Coming
      <3> QED BY <3>1, <3>2 DEF Holds, Within
    <2> QED BY <1>1, <1>2, <2>2, KeptRestored
  <1>3. CASE ~Restored(w)
    <2>1. /\ hist'.up = hist.up /\ hist'.owed = hist.owed /\ hist'.saved = hist.saved
          /\ \A v \in Workers \ {w} : io'[v] = io[v]
      BY <1>1, <1>3 DEF ReadNode
    <2>2. PICK l \in {"restore", "restore_key"} : pc' = [pc EXCEPT ![w] = l]
      <3>1. CASE pc' = pc
        BY <1>1, <3>1
      <3> QED BY <1>3, <3>1 DEF ReadNode
    <2>3. CASE hist.up
      <3>1. Writing' \subseteq Writing
        BY <1>1, <2>2 DEF Writing
      <3> QED BY <1>1, <2>1, <2>3, <3>1, KeptWhenUp
    <2>4. CASE ~hist.up
      <3>1. ASSUME NEW P \in SUBSET (1 .. Len(file)), NEW e \in 1 .. Len(file), e \in P,
                   Holds(P, e), Ready(w, P, e), ~(KeysIn(file, P, e) \subseteq tree)
            PROVE  Ready(w, P, e)'
        <4>1. PICK q \in P \ {e} :
                /\ q = io[w].pos /\ q < Len(file) /\ file[q + 1].part = "node"
                /\ \A p \in P \ {e} : p < q => Stem[file[p + 1].key] \in tree
          BY <1>1, <3>1, AtRecord
        <4>2. /\ io' = [io EXCEPT ![w].pos = q + 1, ![w].key = file[q + 1].key,
                                  ![w].n = file[q + 1].n]
              /\ pc' = [pc EXCEPT ![w] = "restore_key"]
          BY <1>3, <4>1 DEF ReadNode
        <4>3. io'[w].pos = q + 1 /\ io'[w].key = file[q + 1].key /\ io'[w].n = file[q + 1].n
              /\ pc'[w] = "restore_key"
          BY <1>1, <4>2 DEF IOs
        <4> QED BY <1>1, <4>1, <4>3 DEF Ready
      <3> QED BY <1>1, <2>1, <2>2, <2>4, <3>1, KeptComing
    <2> QED BY <2>3, <2>4
  <1> QED BY <1>2, <1>3

\* What a worker reads of a record that is whole.
LEMMA AtKey ==
  ASSUME IInv, NEW w \in Workers, pc[w] = "restore_key", NEW P \in SUBSET (1 .. Len(file)),
         NEW e \in 1 .. Len(file), e \in P, Holds(P, e), Ready(w, P, e)
  PROVE  /\ KeyRead(w) = Stem[io[w].key] /\ KeyRead(w) \in Keys /\ KeyRead(w) \in KeysIn(file, P, e)
         /\ EndOf(w) \in P /\ EndOf(w) <= Len(file) /\ file[EndOf(w)] = Pad
         /\ KeyLen[io[w].key] # 0
         /\ io[w].n >= hist.saved[KeyRead(w)]
         /\ \A p \in P \ {e} : p < EndOf(w) => Stem[file[p + 1].key] \in tree \cup {KeyRead(w)}
  <1>1. e \in Nat /\ Chain(file, P, e) /\ e <= Len(file)
    BY Now DEF Holds
  <1>2. PICK q \in P \ {e} :
          /\ io[w].pos = q + 1 /\ io[w].key = file[q + 1].key /\ io[w].n = file[q + 1].n
          /\ \A p \in P \ {e} : p < q => Stem[file[p + 1].key] \in tree
    BY DEF Ready
  <1>3. PICK k \in Keys : k = file[q + 1].key
    BY <1>1, RecordKey
  <1>4. PICK m \in Nat : m = KeyLen[k] /\ m > 0
    BY <1>1, <1>3, RecordKey
  <1>5. /\ q \in Nat /\ q + m + 2 <= e /\ q + m + 2 \in P
        /\ \A i \in 1 .. m : file[q + 1 + i] = Cell("data", Stem[k], i)
        /\ file[q + m + 2] = Pad
    <2>1. RecordAt(file, q, e) /\ q + KeyLen[file[q + 1].key] + 2 \in P /\ q \in 1 .. e
      BY <1>1 DEF Chain
    <2>2. /\ q + m + 2 <= e /\ file[q + m + 2] = Pad
          /\ \A i \in 1 .. m : file[q + 1 + i] = Cell("data", Stem[k], i)
      BY <1>3, <1>4, <2>1 DEF RecordAt
    <2> QED BY <1>1, <1>3, <1>4, <2>1, <2>2
  <1>6. EndOf(w) = q + m + 2
    <2>1. io[w].pos = q + 1 /\ KeyLen[io[w].key] = m
      BY <1>2, <1>3, <1>4
    <2> QED BY <1>5, <2>1 DEF EndOf
  <1>7. KeyRead(w) = Stem[k]
    <2>1. PICK pos \in Nat : pos = q + 1
      BY <1>5
    <2>2. pos + m <= Len(file) /\ Len(file) \in Nat
      BY <1>1, <1>5, <2>1, Now
    <2>3. KeysAt(pos, KeyLen[k]) = {Stem[k]}
      <3>1. KeyLen[k] # 0 /\ pos + KeyLen[k] <= Len(file)
        BY <1>4, <2>2
      <3>2. \A i \in 1 .. KeyLen[k] : file[pos + i] = Cell("data", Stem[k], i)
        BY <1>4, <1>5, <2>1
      <3> QED BY <3>1, <3>2, KeyThere
    <2>4. KeysAt(io[w].pos, KeyLen[io[w].key]) = {Stem[k]}
      BY <1>2, <1>3, <2>1, <2>3
    <2>5. (CHOOSE j \in {Stem[k]} : TRUE) = Stem[k]
      OBVIOUS
    <2> QED BY <2>4, <2>5 DEF KeyRead
  <1>8. ASSUME NEW p \in P \ {e}, p < EndOf(w) PROVE Stem[file[p + 1].key] \in tree \cup {Stem[k]}
    <2>1. p \in Nat /\ file[p + 1].part = "node"
      <3>1. \A x \in P \ {e} : x \in Nat /\ file[x + 1].part = "node"
        BY <1>1, RecordKey
      <3> QED BY <3>1
    <2>2. CASE p < q
      BY <1>2, <2>2
    <2>3. CASE p = q
      BY <1>3, <2>3
    <2>4. CASE p > q
      <3>1. Pad.part # "node" /\ \A i \in 1 .. m : Cell("data", Stem[k], i).part # "node"
        BY DEF Pad, Cell
      <3>2. CASE p + 1 = q + m + 2
        BY <1>5, <2>1, <3>1, <3>2
      <3>3. CASE p + 1 # q + m + 2
        <4>1. PICK i \in 1 .. m : p + 1 = q + 1 + i
          <5>1. p - q \in 1 .. m /\ p + 1 = q + 1 + (p - q)
            BY <1>5, <1>6, <1>8, <2>1, <2>4, <3>3
          <5> QED BY <5>1
        <4> QED BY <1>5, <2>1, <3>1, <4>1
      <3> QED BY <3>2, <3>3
    <2> QED BY <1>5, <2>1, <2>2, <2>3, <2>4
  <1>9. Stem[k] \in KeysIn(file, P, e) /\ io[w].n >= hist.saved[Stem[k]]
    BY <1>2, <1>3 DEF KeysIn, Holds, Enough
  <1> QED BY <1>1, <1>2, <1>3, <1>4, <1>5, <1>6, <1>7, <1>8, <1>9, StemType, Now

\* A zone that holds nothing but keys of the dump has room for the others.
LEMMA RoomLeft ==
  ASSUME IInv, NEW P, NEW e \in Nat, Holds(P, e), tree \subseteq KeysIn(file, P, e),
         NEW k \in KeysIn(file, P, e)
  PROVE  HasRoom(k)
  <1> SUFFICES ASSUME k \notin tree PROVE Cardinality(tree) < Capacity
    BY DEF HasRoom
  <1> DEFINE K == KeysIn(file, P, e)
  <1>1. K \subseteq Keys
    <2>1. Chain(file, P, e)
      BY DEF Holds
    <2>2. \A p \in P \ {e} : Stem[file[p + 1].key] \in Keys
      BY <2>1, RecordKey
    <2> QED BY <2>2 DEF KeysIn
  <1>2. Cardinality(K) <= Capacity
    BY DEF Holds
  <1> HIDE DEF K
  <1>3. IsFiniteSet(K)
    BY <1>1, FS_Subset, KeyAssumption
  <1>4. tree \in SUBSET K /\ tree # K
    BY DEF K
  <1>5. /\ IsFiniteSet(tree) /\ Cardinality(tree) <= Cardinality(K)
        /\ Cardinality(tree) # Cardinality(K)
    BY <1>3, <1>4, FS_Subset
  <1>6. Cardinality(tree) \in Nat /\ Cardinality(K) \in Nat /\ Capacity \in Nat
    BY <1>3, <1>5, FS_CardinalityType, NumberAssumption
  <1> QED BY <1>2, <1>5, <1>6

\* A node that is added counts what is owed, and the ones there are stay.
LEMMA AddedLive ==
  ASSUME IInv, NEW w \in Workers, NEW k \in Keys \cup {Null}, AddNode(w, k)
  PROVE  /\ tree \subseteq tree' /\ tree' \subseteq tree \cup ({k} \ {Null})
         /\ k # Null => k \in tree'
         /\ \A j \in tree : count'[j] = count[j]
         /\ k \notin tree \cup {Null} => count'[k] = io[w].n
         /\ count' \in [Keys -> Nat]
  <1>1. io[w].n \in Nat /\ count \in [Keys -> Nat] /\ tree \subseteq Keys
    BY Now, WorkerAt DEF IOs
  <1> QED BY <1>1 DEF AddNode

LEMMA KeptReadKey ==
  ASSUME IInv, hist \in Hists, Saved, Owed, NEW w \in Workers, ReadKey(w)
  PROVE  Saved' /\ Owed'
  <1>1. /\ pc[w] = "restore_key" /\ file' = file /\ pc \in [Workers -> Labels]
        /\ io \in [Workers -> IOs]
    BY Now DEF ReadKey
  <1>2. CASE Restored(w)
    <2>1. ~ /\ EndOf(w) <= Len(file) /\ file[EndOf(w)] = Pad /\ KeyLen[io[w].key] # 0
            /\ HasRoom(KeyRead(w))
      <3>1. pc'[w] = "run"
        BY <1>1, <1>2 DEF Restored
      <3>2. pc' # [pc EXCEPT ![w] = "restore"]
        BY <1>1, <3>1
      <3> QED BY <3>2, ReadKeyCases
    <2>2. ~hist.up /\ hist.saved # Nothing => \A k \in Keys : hist.saved[k] > 0 => k \in tree
      <3> SUFFICES ASSUME ~hist.up, hist.saved # Nothing
                   PROVE  \A k \in Keys : hist.saved[k] > 0 => k \in tree
        OBVIOUS
      <3>1. PICK P \in SUBSET (1 .. Len(file)), e \in 1 .. Len(file) :
              e \in P /\ Holds(P, e) /\ Coming(P, e)
        BY DEF Saved
      <3>2. KeysIn(file, P, e) \subseteq tree
        <4> SUFFICES ASSUME tree \subseteq KeysIn(file, P, e), Ready(w, P, e) PROVE FALSE
          BY <3>1 DEF Coming
        <4>1. /\ EndOf(w) <= Len(file) /\ file[EndOf(w)] = Pad /\ KeyLen[io[w].key] # 0
              /\ KeyRead(w) \in KeysIn(file, P, e)
          BY <1>1, <3>1, AtKey
        <4>2. e \in Nat
          BY <3>1
        <4>3. HasRoom(KeyRead(w))
          BY <3>1, <4>1, <4>2, RoomLeft
        <4> QED BY <2>1, <4>1, <4>3
      <3> QED BY <3>1, <3>2 DEF Holds, Within
    <2> QED BY <1>1, <1>2, <2>2, KeptRestored
  <1>3. CASE ~Restored(w)
    <2>1. /\ AddNode(w, KeyRead(w)) /\ pc' = [pc EXCEPT ![w] = "restore"]
          /\ io' = [v \in Workers |->
               IF v = w THEN [NoIO EXCEPT !.pos = EndOf(w)]
               ELSE IF v \in Writing /\ tree' # tree /\ io[v].walk = "still"
               THEN [io[v] EXCEPT !.walk = "moved"] ELSE io[v]]
          /\ hist'.up = hist.up /\ hist'.owed = hist.owed /\ hist'.saved = hist.saved
      BY <1>3, ReadKeyCases DEF Hists
    <2>2. /\ pc'[w] = "restore" /\ io'[w].pos = EndOf(w)
          /\ \A v \in Workers \ {w} : pc'[v] = pc[v]
          /\ \A v \in Workers \ {w} : v \notin Writing => io'[v] = io[v]
      <3>1. io'[w] = [NoIO EXCEPT !.pos = EndOf(w)]
        BY <2>1
      <3> QED BY <1>1, <2>1, <3>1 DEF NoIO
    <2>3. KeyRead(w) \in Keys \cup {Null}
      <3>1. KeysAt(io[w].pos, KeyLen[io[w].key]) \subseteq Keys
        BY DEF KeysAt
      <3> QED BY <3>1 DEF KeyRead
    <2>4. PICK k \in Keys \cup {Null} : k = KeyRead(w)
      BY <2>3
    <2>5. /\ tree \subseteq tree' /\ tree' \subseteq tree \cup ({k} \ {Null})
          /\ k # Null => k \in tree'
          /\ \A j \in tree : count'[j] = count[j]
          /\ k \notin tree \cup {Null} => count'[k] = io[w].n
          /\ count' \in [Keys -> Nat]
      BY <2>1, <2>4, AddedLive
    <2>6. Writing' = Writing
      BY <1>1, <2>2 DEF Writing
    \* What the key that joins counts is owed, when the file still owes it.
    <2>7. ASSUME ~hist.up, hist.saved # Nothing
          PROVE  /\ Saved'
                 /\ k \notin tree \cup {Null} => io[w].n >= hist.saved[k]
      <3>1. PICK P \in SUBSET (1 .. Len(file)), e \in 1 .. Len(file) :
              e \in P /\ Holds(P, e) /\ Coming(P, e)
        BY <2>7 DEF Saved
      <3>2. Holds(P, e)' /\ Writing' = {} /\ Writing = {}
        BY <1>1, <2>1, <2>6, <2>7, <3>1 DEF Holds, Saved
      <3>3. CASE KeysIn(file, P, e) \subseteq tree
        <4>1. Coming(P, e)'
          BY <1>1, <2>5, <3>3 DEF Coming
        <4>2. k \notin tree \cup {Null} => io[w].n >= hist.saved[k]
          <5> SUFFICES ASSUME k \notin tree \cup {Null} PROVE io[w].n >= hist.saved[k]
            OBVIOUS
          <5>1. k \in Keys /\ ~(hist.saved[k] > 0) /\ hist.saved[k] \in Nat
            BY <3>1, <3>3 DEF Holds, Within, Hists, Tables
          <5>2. io[w].n \in Nat
            BY WorkerAt DEF IOs
          <5> QED BY <5>1, <5>2
        <4> QED BY <1>1, <2>1, <3>1, <3>2, <4>1, <4>2 DEF Saved
      <3>4. CASE tree \subseteq KeysIn(file, P, e) /\ \A v \in Workers : Ready(v, P, e)
        <4>1. /\ k \in Keys /\ k \in KeysIn(file, P, e) /\ EndOf(w) \in P
              /\ io[w].n >= hist.saved[k]
              /\ \A p \in P \ {e} : p < EndOf(w) => Stem[file[p + 1].key] \in tree \cup {k}
          BY <1>1, <2>4, <3>1, <3>4, AtKey
        <4>2. k # Null
          BY <4>1, NullAssumption
        <4>3. Ready(w, P, e)'
          BY <1>1, <2>2, <2>5, <4>1, <4>2 DEF Ready
        <4>4. ASSUME NEW v \in Workers \ {w} PROVE Ready(v, P, e)'
          <5>1. pc'[v] = pc[v] /\ io'[v] = io[v]
            BY <2>2, <3>2
          <5> QED BY <1>1, <2>5, <3>4, <5>1 DEF Ready
        <4>5. Coming(P, e)'
          BY <1>1, <2>5, <3>4, <4>1, <4>3, <4>4 DEF Coming
        <4> QED BY <1>1, <2>1, <3>1, <3>2, <4>1, <4>5 DEF Saved
      <3> QED BY <3>1, <3>3, <3>4 DEF Coming
    <2>8. Saved'
      <3>1. CASE hist.up
        <4> SUFFICES ASSUME hist.saved # Nothing PROVE Saved'
          BY <2>1 DEF Saved
        <4>1. PICK P \in SUBSET (1 .. Len(file)), e \in 1 .. Len(file) : e \in P /\ Holds(P, e)
          BY DEF Saved
        <4>2. Holds(P, e)' /\ Writing' = {}
          BY <1>1, <2>1, <2>6, <4>1 DEF Holds, Saved
        <4> QED BY <1>1, <2>1, <3>1, <4>1, <4>2 DEF Saved
      <3>2. CASE hist.saved = Nothing
        BY <2>1, <3>2 DEF Saved
      <3> QED BY <2>7, <3>1, <3>2
    <2>9. Owed'
      <3>1. CASE hist.up
        <4> SUFFICES ASSUME NEW j \in Keys PROVE Live(j)' >= hist'.owed[j]
          BY <2>1, <3>1 DEF Owed
        <4>1. Live(j) >= hist.owed[j] /\ hist.owed[j] \in Nat
          BY <3>1 DEF Owed, Hists, Tables
        <4>2. count'[j] \in Nat
          BY <2>5
        <4>3. CASE j \in tree
          BY <2>1, <2>5, <4>1, <4>3 DEF Live
        <4>4. CASE j \notin tree
          <5>1. 0 >= hist.owed[j]
            BY <4>1, <4>4 DEF Live
          <5> QED BY <2>1, <4>1, <4>2, <5>1 DEF Live
        <4> QED BY <4>3, <4>4
      <3>2. CASE ~hist.up
        <4>1. /\ hist.owed = hist.saved /\ \A j \in tree : count[j] >= hist.saved[j]
              /\ \A v \in Workers : pc[v] \in {"off", "restore", "restore_key"}
          BY <3>2 DEF Owed
        <4>2. ASSUME NEW j \in tree' PROVE count'[j] >= hist'.saved[j]
          <5>1. CASE j \in tree
            BY <2>1, <2>5, <4>1, <5>1
          <5>2. CASE j \notin tree
            <6>1. j = k /\ k \in Keys /\ k \notin tree \cup {Null} /\ count'[k] = io[w].n
              BY <2>4, <2>5, <4>2, <5>2
            <6>2. io[w].n \in Nat /\ (hist.saved = Nothing => hist.saved[k] = 0)
              BY <6>1, WorkerAt, NothingType DEF IOs
            <6>3. io[w].n >= hist.saved[k]
              BY <2>7, <3>2, <6>1, <6>2
            <6> QED BY <2>1, <6>1, <6>3
          <5> QED BY <5>1, <5>2
        <4> QED BY <2>1, <2>2, <3>2, <4>1, <4>2 DEF Owed
      <3> QED BY <3>1, <3>2
    <2> QED BY <2>8, <2>9
  <1> QED BY <1>2, <1>3

LEMMA KeptCrash ==
  ASSUME IInv, hist \in Hists, Saved, Owed, NEW w \in Workers, Crash(w)
  PROVE  Saved' /\ Owed'
  <1>1. /\ pc' = [pc EXCEPT ![w] = "off"] /\ UNCHANGED <<tree, count, file>>
        /\ \A v \in Workers \ {w} : io'[v] = io[v]
        /\ hist'.up = hist.up /\ hist'.owed = hist.owed /\ hist'.saved = hist.saved
    BY Now DEF Crash, Hists
  <1>2. pc'[w] = "off" /\ Writing' \subseteq Writing
    BY <1>1, Now DEF Writing
  <1>3. CASE hist.up
    BY <1>1, <1>2, <1>3, KeptWhenUp
  <1>4. CASE ~hist.up
    <2>1. \A P, e : Ready(w, P, e)'
      BY <1>2 DEF Ready
    <2> QED BY <1>1, <1>4, <2>1, KeptComing
  <1> QED BY <1>3, <1>4

\* The new zone is empty, and owed what the file holds.
LEMMA KeptRestart ==
  ASSUME IInv, hist \in Hists, Saved, Restart
  PROVE  Saved' /\ Owed'
  <1>1. /\ \A w \in Workers : pc[w] = "off"
        /\ tree' = {} /\ UNCHANGED <<file, pc, io>>
        /\ hist'.saved = hist.saved /\ hist'.owed = hist.saved /\ hist'.up = FALSE
    BY DEF Restart, Hists
  <1>2. Owed'
    BY <1>1 DEF Owed
  <1>3. Saved'
    <2> SUFFICES ASSUME hist.saved # Nothing PROVE Saved'
      BY <1>1 DEF Saved
    <2>1. PICK P \in SUBSET (1 .. Len(file)), e \in 1 .. Len(file) : e \in P /\ Holds(P, e)
      BY DEF Saved
    <2>2. Holds(P, e)' /\ Writing' = {}
      BY <1>1, <2>1 DEF Holds, Writing
    <2>3. Coming(P, e)'
      BY <1>1 DEF Coming, Ready
    <2> QED BY <1>1, <2>1, <2>2, <2>3 DEF Saved
  <1> QED BY <1>2, <1>3

LEMMA KeptStep ==
  ASSUME IInv, hist \in Hists, Taking, Saved, Owed, [Next]_vars
  PROVE  Saved' /\ Owed'
  <1>1. CASE UNCHANGED vars \/ Tick
    <2>1. UNCHANGED <<tree, count, file, pc, io, hist>>
      BY <1>1 DEF vars, Tick
    <2>2. Owed'
      BY <2>1 DEF Owed, Live
    <2>3. Saved'
      <3> SUFFICES ASSUME hist.saved # Nothing PROVE Saved'
        BY <2>1 DEF Saved
      <3>1. PICK P \in SUBSET (1 .. Len(file)), e \in 1 .. Len(file) :
              e \in P /\ Holds(P, e) /\ (~hist.up => Coming(P, e))
        BY DEF Saved
      <3>2. Holds(P, e)' /\ Writing' = {}
        BY <2>1, <3>1 DEF Holds, Writing, Saved
      <3>3. \A w \in Workers : Ready(w, P, e) => Ready(w, P, e)'
        BY <2>1 DEF Ready
      <3>4. Coming(P, e) => Coming(P, e)'
        BY <2>1, <3>3 DEF Coming
      <3> QED BY <2>1, <3>1, <3>2, <3>4 DEF Saved
    <2> QED BY <2>2, <2>3
  <1>2. CASE Restart
    BY <1>2, KeptRestart
  <1>3. ASSUME NEW w \in Workers, \E k \in Keys : Request(w, k) \/ Remove(w, k)
        PROVE  Saved' /\ Owed'
    BY <1>3, KeptRequest, KeptRemove
  <1>4. ASSUME NEW w \in Workers, Dump(w) \/ Exit(w) \/ Lock(w) PROVE Saved' /\ Owed'
    BY <1>4, KeptPlain, KeptWriting, KeptClose DEF Dump
  <1>5. ASSUME NEW w \in Workers, LockInterrupted(w) \/ DumpFailed(w) \/ WriteFailed(w)
        PROVE  Saved' /\ Owed'
    BY <1>5, KeptPlain, KeptWriting
  <1>6. ASSUME NEW w \in Workers, Start(w) \/ Restore(w) \/ Crash(w) PROVE Saved' /\ Owed'
    BY <1>6, KeptStart, KeptReadNode, KeptReadKey, KeptCrash DEF Restore
  <1> QED BY <1>1, <1>2, <1>3, <1>4, <1>5, <1>6 DEF Next

\* And the dump that is under way, the one that is saved and what a zone is owed.
KeepInv == SoundInv /\ Taking /\ Graceful /\ Saved /\ Owed

LEMMA InitKept == Init => KeepInv
  <1> SUFFICES ASSUME Init PROVE KeepInv
    OBVIOUS
  <1>1. SoundInv
    BY InitSound
  <1>2. hist.taking = Nothing /\ hist.saved = Nothing /\ hist.owed = Nothing /\ hist.up = FALSE
        /\ tree = {} /\ \A w \in Workers : pc[w] = "off"
    BY DEF Init
  <1>3. Taking /\ Saved /\ Owed
    BY <1>2 DEF Taking, Saved, Owed
  <1>4. Graceful
    BY DEF Init, Graceful
  <1> QED BY <1>1, <1>3, <1>4 DEF SoundInv, KeepInv

LEMMA StepKept == KeepInv /\ [Next]_vars => KeepInv'
  <1> SUFFICES ASSUME KeepInv, [Next]_vars PROVE KeepInv'
    OBVIOUS
  <1>1. SoundInv'
    BY StepIsSound DEF KeepInv, SoundInv
  <1>2. Taking' /\ Graceful' /\ Saved' /\ Owed'
    BY <1>1, TakingKept, GracefulKept, KeptStep DEF KeepInv, SoundInv
  <1> QED BY <1>1, <1>2 DEF KeepInv, SoundInv

\* Whatever the exiting workers truncate of each other's dumps, the one that gets the lock
\* last leaves the whole zone as it stands: the snapshot it took is still the zone when it
\* closes, because whoever could have counted a request since had to exit too.  Only a key
\* of which no byte is left cuts what a restart is owed.
THEOREM GracefulIsExact == Spec => []GracefulExact
  <1>1. KeepInv => GracefulExact
    BY DEF KeepInv, Graceful, Ordered, Snapshot, GracefulExact
  <1> QED BY <1>1, InitKept, StepKept, PTL DEF Spec

\* The records of a dump that nothing upset stay in the file as they were written, one
\* after the other, a restore comes to each of them before the first worker is up, and the
\* slab that held the zone has room for them all; who deletes a node, opens the file or
\* walks without the lock takes back what was promised.
THEOREM RestartBringsBack == Spec => []RestartKeeps
  <1>1. KeepInv => RestartKeeps
    BY DEF KeepInv, Owed, RestartKeeps
  <1> QED BY <1>1, InitKept, StepKept, PTL DEF Spec
=============================================================================
