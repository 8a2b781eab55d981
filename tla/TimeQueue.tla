----------------------------- MODULE TimeQueue ------------------------------
(***************************************************************************)
(* The ring of recent request times that every node carries, and the two   *)
(* averages taken over it.  A queue that has been initialized is full: its *)
(* QLEN - 1 entries start as zeros, so inserting is popping the oldest and *)
(* pushing the newest.                                                     *)
(*                                                                         *)
(* C leaves the order of the two calls in "pop(q) | push(q)" open; the     *)
(* compilers nginx is built with evaluate the left one first.              *)
(***************************************************************************)
EXTENDS Integers, Functions

CONSTANT QLEN      \* NGX_HTTP_VHOST_TRAFFIC_STATUS_DEFAULT_QUEUE_LEN

ASSUME QueueAssumption == QLEN \in Nat \ {0, 1}

Index == 0 .. QLEN - 1
Sample == [time : Nat, msec : Nat]
Queue == [times : [Index -> Sample], front : Index, rear : Index]

Zero == [time |-> 0, msec |-> 0]

QueueInit == [times |-> [i \in Index |-> Zero], front |-> 0, rear |-> QLEN - 1]

CanPush(q) == (q.rear + 1) % QLEN # q.front

\* Mutant: the rear index does not wrap.
PushNoWrap(q, t, x) == [q EXCEPT !.times[q.rear] = [time |-> t, msec |-> x], !.rear = q.rear + 1]

Push(q, t, x) == [q EXCEPT !.times[q.rear] = [time |-> t, msec |-> x],
                           !.rear = (q.rear + 1) % QLEN]

CanPop(q) == q.front # q.rear

Pop(q) == [q EXCEPT !.front = (q.front + 1) % QLEN]

\* Mutant: the compiler pushes first; on a full queue that fails.
InsertPushFirst(q, t, x) ==
  IF CanPush(q) /\ CanPop(Push(q, t, x)) THEN Pop(Push(q, t, x)) ELSE QueueInit

\* If either half fails the queue restarts, without x.
Insert(q, t, x) ==
  IF CanPop(q) /\ CanPush(Pop(q)) THEN Push(Pop(q), t, x) ELSE QueueInit

\* Mutant: the next free slot, which still holds the sample popped last.
RearFree(q) == q.rear

Rear(q) == IF q.rear > 0 THEN q.rear - 1 ELSE QLEN - 1

\* The entries from the oldest (1) to the newest (Used(q)), as the averages
\* walk them.
Used(q) == IF q.front <= q.rear THEN q.rear - q.front ELSE q.rear - q.front + QLEN
Entry(q, j) == q.times[(q.front + j - 1) % QLEN]

\* The instant an entry must be younger than; period 0 takes every real entry.
Since(now, period) == IF period = 0 THEN 0 ELSE now - period

Plus(a, b) == a + b

Total(q, since, w) ==
  FoldFunction(Plus, 0, [j \in 1 .. Used(q) |->
    IF since < Entry(q, j).time THEN Entry(q, j).msec * w[j] ELSE 0])

\* The arithmetic mean; entries outside the period count as zeros.
Amm(q, now, period) == Total(q, Since(now, period), [j \in Index |-> 1]) \div (QLEN - 1)

\* Mutant: the newest sample weighs least.
WmaReversed(q, now, period) ==
  Total(q, Since(now, period), [j \in Index |-> QLEN - j]) \div ((QLEN * (QLEN - 1)) \div 2)

\* The weighted mean: the newest sample weighs most.
Wma(q, now, period) ==
  Total(q, Since(now, period), [j \in Index |-> j]) \div ((QLEN * (QLEN - 1)) \div 2)

Methods == {"AMM", "WMA"}

Average(q, method, now, period) ==
  IF method = "AMM" THEN Amm(q, now, period) ELSE Wma(q, now, period)

\* What taking an average does to the queue.
Averaged(q) == IF Used(q) + 1 # QLEN THEN QueueInit ELSE q
=============================================================================
