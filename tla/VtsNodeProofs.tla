--------------------------- MODULE VtsNodeProofs ----------------------------
(***************************************************************************)
(* What a node promises for every ring length, counter width, period and   *)
(* set of requests: types, exact totals over wraps and resets, cumulative  *)
(* histograms, the newest sample where the LRU walk looks, averages of the *)
(* last samples, and queues that implement a sliding window.               *)
(***************************************************************************)
EXTENDS VtsNode, Induction, TLAPS

(***************************************************************************)
(* The ring                                                                *)
(***************************************************************************)

Full(q) == q.front = IF q.rear = QLEN - 1 THEN 0 ELSE q.rear + 1

\* An index at most once around the ring.
LEMMA Around ==
  ASSUME NEW a \in 0 .. 2 * QLEN - 1
  PROVE  a % QLEN = IF a < QLEN THEN a ELSE a - QLEN
<1> QLEN \in Nat \ {0, 1} BY QueueAssumption
<1>1. CASE a < QLEN BY <1>1
<1>2. CASE a >= QLEN
  <2>1. a % QLEN = a - QLEN BY <1>2
  <2> QED BY <1>2, <2>1
<1> QED BY <1>1, <1>2

\* A queue that was initialized is full of zeros.
LEMMA InitFull ==
  /\ QueueInit \in Queue /\ Full(QueueInit)
  /\ \A j \in 1 .. QLEN - 1 : Entry(QueueInit, j) = Zero
<1> QLEN \in Nat \ {0, 1} BY QueueAssumption
<1>1. QueueInit \in Queue BY DEF QueueInit, Queue, Index, Sample, Zero
<1>2. Full(QueueInit) BY DEF QueueInit, Full
<1>3. ASSUME NEW j \in 1 .. QLEN - 1 PROVE Entry(QueueInit, j) = Zero
  <2>1. (0 + j - 1) % QLEN \in Index
    <3>1. 0 + j - 1 \in 0 .. 2 * QLEN - 1 OBVIOUS
    <3> QED BY <3>1, Around DEF Index
  <2> QED BY <2>1 DEF Entry, QueueInit
<1> QED BY <1>1, <1>2, <1>3

\* On a full queue neither half of an insertion fails.
LEMMA InsertPushes ==
  ASSUME NEW q \in Queue, Full(q), NEW t \in Nat, NEW x \in Nat
  PROVE  LET r == Insert(q, t, x) IN
         /\ r \in Queue
         /\ r.times = [q.times EXCEPT ![q.rear] = [time |-> t, msec |-> x]]
         /\ r.front = IF q.front = QLEN - 1 THEN 0 ELSE q.front + 1
         /\ r.rear = q.front
<1> DEFINE next == IF q.front = QLEN - 1 THEN 0 ELSE q.front + 1
           p == Pop(q)
<1> QLEN \in Nat \ {0, 1} BY QueueAssumption
<1>1. q.front \in Index /\ q.rear \in Index /\ q.times \in [Index -> Sample] BY DEF Queue
<1>2. CanPop(q) BY <1>1 DEF CanPop, Full, Index
<1>3. (q.front + 1) % QLEN = next
  <2> DEFINE a == q.front + 1
  <2>1. a \in 0 .. 2 * QLEN - 1 BY <1>1 DEF Index
  <2> HIDE DEF a
  <2>2. a % QLEN = IF a < QLEN THEN a ELSE a - QLEN BY <2>1, Around
  <2> QED BY <1>1, <2>2 DEF Index, a
<1>4. (q.rear + 1) % QLEN = q.front
  <2> DEFINE a == q.rear + 1
  <2>1. a \in 0 .. 2 * QLEN - 1 BY <1>1 DEF Index
  <2> HIDE DEF a
  <2>2. a % QLEN = IF a < QLEN THEN a ELSE a - QLEN BY <2>1, Around
  <2> QED BY <1>1, <2>2 DEF Index, Full, a
<1>5. p \in Queue /\ p.times = q.times /\ p.front = next /\ p.rear = q.rear
  <2>1. next \in Index BY <1>1 DEF Index
  <2> QED BY <1>3, <2>1 DEF Pop, Queue
<1> HIDE DEF p
<1>6. CanPush(p)
  <2>1. next # q.front BY <1>1 DEF Index
  <2> QED BY <1>4, <1>5, <2>1 DEF CanPush
<1>7. Insert(q, t, x) = Push(p, t, x) BY <1>2, <1>6 DEF Insert, p
<1>8. /\ Push(p, t, x) \in Queue
      /\ Push(p, t, x).times = [q.times EXCEPT ![q.rear] = [time |-> t, msec |-> x]]
      /\ Push(p, t, x).front = next
      /\ Push(p, t, x).rear = q.front
  <2>1. [time |-> t, msec |-> x] \in Sample BY DEF Sample
  <2>2. (p.rear + 1) % QLEN = q.front BY <1>4, <1>5
  <2> QED BY <1>1, <1>5, <2>1, <2>2 DEF Push, Queue
<1> QED BY <1>7, <1>8

\* What an insertion keeps of a full queue and what it adds.
LEMMA InsertSlides ==
  ASSUME NEW q \in Queue, Full(q), NEW t \in Nat, NEW x \in Nat
  PROVE  LET r == Insert(q, t, x) IN
         /\ r \in Queue /\ Full(r)
         /\ r.times[Rear(r)] = [time |-> t, msec |-> x]
         /\ Entry(r, QLEN - 1) = [time |-> t, msec |-> x]
         /\ \A j \in 1 .. QLEN - 2 : Entry(r, j) = Entry(q, j + 1)
<1> DEFINE r == Insert(q, t, x)
<1> QLEN \in Nat \ {0, 1} BY QueueAssumption
<1>1. /\ r \in Queue
      /\ r.times = [q.times EXCEPT ![q.rear] = [time |-> t, msec |-> x]]
      /\ q.times \in [Index -> Sample]
  BY InsertPushes DEF Queue
<1>2. /\ q.front \in 0 .. QLEN - 1 /\ q.rear \in 0 .. QLEN - 1
      /\ r.front \in 0 .. QLEN - 1 /\ r.rear = q.front
      /\ IF q.front = QLEN - 1 THEN r.front = 0 ELSE r.front = q.front + 1
      /\ IF q.rear = QLEN - 1 THEN q.front = 0 ELSE q.front = q.rear + 1
  <2>1. q.front \in Index /\ q.rear \in Index BY DEF Queue
  <2>2. r.front \in Index BY <1>1 DEF Queue
  <2>3. r.rear = q.front /\ r.front = IF q.front = QLEN - 1 THEN 0 ELSE q.front + 1
    BY InsertPushes
  <2> HIDE DEF r
  <2> QED BY <2>1, <2>2, <2>3 DEF Index, Full
<1> HIDE DEF r
<1>3. Full(r) BY <1>2 DEF Full
<1>4. r.times[q.rear] = [time |-> t, msec |-> x] BY <1>1, <1>2 DEF Index
<1>5. Rear(r) = q.rear BY <1>2 DEF Rear
<1>6. (r.front + (QLEN - 1) - 1) % QLEN = q.rear
  <2> DEFINE a == r.front + (QLEN - 1) - 1
  <2>1. a \in 0 .. 2 * QLEN - 1 BY <1>2
  <2>2. q.rear = IF a < QLEN THEN a ELSE a - QLEN BY <1>2
  <2> HIDE DEF a
  <2>3. a % QLEN = q.rear BY <2>1, <2>2, Around
  <2> QED BY <2>3 DEF a
<1>7. Entry(r, QLEN - 1) = [time |-> t, msec |-> x] BY <1>4, <1>6 DEF Entry
<1>8. ASSUME NEW j \in 1 .. QLEN - 2 PROVE Entry(r, j) = Entry(q, j + 1)
  <2> DEFINE a == r.front + j - 1
             b == q.front + (j + 1) - 1
             i == IF a < QLEN THEN a ELSE a - QLEN
  <2>1. a \in 0 .. 2 * QLEN - 1 BY <1>2
  <2>2. b \in 0 .. 2 * QLEN - 1 BY <1>2
  <2>3. i = IF b < QLEN THEN b ELSE b - QLEN BY <1>2
  <2>4. i \in Index BY <1>2 DEF Index
  <2>5. i # q.rear BY <1>2
  <2>6. Entry(r, j) = r.times[a % QLEN] /\ Entry(q, j + 1) = q.times[b % QLEN] BY DEF Entry
  <2>7. a % QLEN = i
    <3> HIDE DEF a
    <3> QED BY <2>1, Around
  <2>8. b % QLEN = i
    <3> HIDE DEF a, b, i
    <3> QED BY <2>2, <2>3, Around
  <2> HIDE DEF a, b, i
  <2>9. r.times[i] = q.times[i] BY <1>1, <2>4, <2>5
  <2> QED BY <2>6, <2>7, <2>8, <2>9
<1> QED BY <1>1, <1>3, <1>4, <1>5, <1>7, <1>8 DEF r

\* Taking an average leaves a full queue as it is.
LEMMA AveragedKeeps ==
  ASSUME NEW q \in Queue, Full(q)
  PROVE  Averaged(q) = q
BY QueueAssumption DEF Averaged, Used, Queue, Index, Full

(***************************************************************************)
(* The node                                                                *)
(***************************************************************************)

Past == [time : Nat, msec : [Sides -> Nat]]

\* A record with the fields of a node, whatever their values.
Record(n) ==
  n = [counter |-> n.counter, oc |-> n.oc, times |-> n.times, buckets |-> n.buckets,
       average |-> n.average]

Shape ==
  /\ Record(vtsn)
  /\ now \in Nat
  /\ hist \in [due : [Counters -> Nat], resets : Nat, samples : Seq(Past)]

CounterInv ==
  /\ vtsn.counter \in [Counters -> 0 .. Modulus - 1]
  /\ vtsn.oc \in [Counters -> Nat]
  /\ TotalsExact

\* Queues never leave the state they are initialized in: full, with the newest
\* sample at the rear.
QueueInv ==
  /\ hist.samples # << >>
  /\ vtsn.times \in [Sides -> Queue]
  /\ \A s \in Sides :
       /\ Full(vtsn.times[s])
       /\ vtsn.times[s].times[Rear(vtsn.times[s])].time = hist.samples[Len(hist.samples)].time

IInv == Shape /\ CounterInv /\ QueueInv

\* A request adds less than a whole modulus to each counter.
LEMMA GainType ==
  ASSUME NEW rq \in Requests
  PROVE  /\ Gain(rq) \in [Counters -> 0 .. Modulus - 1]
         /\ \A s \in Sides : Msec[rq][s] \in Nat
<1>1. Modulus \in Nat /\ Modulus > 1 BY NodeAssumption
<1>2. Length[rq] \in 0 .. Modulus - 1 /\ Sent[rq] \in 0 .. Modulus - 1
  BY <1>1, RequestAssumption, NodeAssumption
<1>3. ASSUME NEW s \in Sides PROVE Msec[rq][s] \in 0 .. Modulus - 1
  <2>1. Msec[rq][s] \in Nat BY RequestAssumption
  <2>2. Msec[rq][s] < Modulus BY NodeAssumption
  <2> QED BY <1>1, <2>1, <2>2
<1>4. ASSUME NEW c \in Counters PROVE Gain(rq)[c] \in 0 .. Modulus - 1
  BY <1>1, <1>2, <1>3 DEF Gain, Sides
<1>5. Gain(rq) = [c \in Counters |-> Gain(rq)[c]] BY DEF Gain
<1> QED BY <1>1, <1>3, <1>4, <1>5

\* Adding less than a modulus and comparing finds every wrap.
LEMMA AddWraps ==
  ASSUME NEW a \in 0 .. Modulus - 1, NEW g \in 0 .. Modulus - 1, NEW o \in Nat
  PROVE  LET b == (a + g) % Modulus IN
         /\ b \in 0 .. Modulus - 1
         /\ b + Modulus * (IF a > b THEN o + 1 ELSE o) = a + Modulus * o + g
<1> DEFINE M == Modulus
           b == (a + g) % M
<1>1. M \in Nat /\ M > 1 BY NodeAssumption
<1> HIDE DEF M
<1>2. a \in 0 .. M - 1 /\ g \in 0 .. M - 1 BY DEF M
<1>3. M * (o + 1) = M * o + M BY <1>1
<1>4. M * o \in Nat BY <1>1
<1>5. CASE a + g < M
  <2>1. b = a + g BY <1>1, <1>2, <1>5
  <2>2. ~ (a > b) /\ b \in 0 .. M - 1 BY <1>1, <1>2, <1>5, <2>1
  <2>3. b + M * o = a + M * o + g BY <1>1, <1>2, <1>4, <2>1
  <2> QED BY <2>2, <2>3 DEF M
<1>6. CASE a + g >= M
  <2>1. b = a + g - M BY <1>1, <1>2, <1>6
  <2>2. a > b /\ b \in 0 .. M - 1 BY <1>1, <1>2, <1>6, <2>1
  <2>3. b + M * (o + 1) = a + M * o + g BY <1>1, <1>2, <1>3, <1>4, <2>1
  <2> QED BY <2>2, <2>3 DEF M
<1>7. a + g < M \/ a + g >= M BY <1>1, <1>2
<1> QED BY <1>5, <1>6, <1>7

\* A new node.
LEMMA NewNode ==
  ASSUME NEW rq \in Requests, now \in Nat, NEW n, NEW h,
         n = NodeInit(rq), h = Fresh(rq)
  PROVE  /\ Record(n)
         /\ h \in [due : [Counters -> Nat], resets : Nat, samples : Seq(Past)]
         /\ n.counter \in [Counters -> 0 .. Modulus - 1] /\ n.oc \in [Counters -> Nat]
         /\ \A c \in Counters : n.counter[c] + Modulus * n.oc[c] = h.due[c]
         /\ h.samples = <<[time |-> now, msec |-> Msec[rq]]>>
         /\ n.times = [s \in Sides |-> Insert(QueueInit, now, Msec[rq][s])]
<1>1. Modulus \in Nat BY NodeAssumption
<1>2. Gain(rq) \in [Counters -> 0 .. Modulus - 1] BY GainType
<1>3. n.counter = Gain(rq) /\ n.oc = [c \in Counters |-> 0] /\ h.due = Gain(rq)
  BY DEF NodeInit, Fresh
<1>4. h \in [due : [Counters -> Nat], resets : Nat, samples : Seq(Past)]
  <2>1. [time |-> now, msec |-> Msec[rq]] \in Past BY RequestAssumption DEF Past
  <2>2. Gain(rq) \in [Counters -> Nat] BY <1>1, <1>2
  <2> QED BY <2>1, <2>2 DEF Fresh
<1>5. ASSUME NEW c \in Counters PROVE n.counter[c] + Modulus * n.oc[c] = h.due[c]
  <2>1. Gain(rq)[c] \in Nat BY <1>1, <1>2
  <2>2. Modulus * 0 = 0 BY <1>1
  <2> QED BY <1>3, <2>1, <2>2
<1>6. /\ Record(n)
      /\ n.times = [s \in Sides |-> Insert(QueueInit, now, Msec[rq][s])]
  BY DEF NodeInit, Record
<1>7. h.samples = <<[time |-> now, msec |-> Msec[rq]]>> BY DEF Fresh
<1>8. n.oc \in [Counters -> Nat] BY <1>3
<1> QED BY <1>2, <1>3, <1>4, <1>5, <1>6, <1>7, <1>8

-----------------------------------------------------------------------------

LEMMA InitIInv == Init => IInv
<1> SUFFICES ASSUME Init PROVE IInv OBVIOUS
<1>1. PICK rq \in Requests : vtsn = NodeInit(rq) /\ hist = Fresh(rq) BY DEF Init
<1>2. now \in Nat BY NodeAssumption DEF Init
<1>3. /\ Record(vtsn)
      /\ hist \in [due : [Counters -> Nat], resets : Nat, samples : Seq(Past)]
      /\ vtsn.counter \in [Counters -> 0 .. Modulus - 1] /\ vtsn.oc \in [Counters -> Nat]
      /\ \A c \in Counters : vtsn.counter[c] + Modulus * vtsn.oc[c] = hist.due[c]
      /\ hist.samples = <<[time |-> now, msec |-> Msec[rq]]>>
      /\ vtsn.times = [s \in Sides |-> Insert(QueueInit, now, Msec[rq][s])]
  BY <1>1, <1>2, NewNode
<1>4. Shape BY <1>2, <1>3 DEF Shape
<1>5. CounterInv BY <1>3 DEF CounterInv, TotalsExact
<1>6. QueueInv
  <2>1. ASSUME NEW s \in Sides
        PROVE  LET q == vtsn.times[s] IN
               q \in Queue /\ Full(q) /\ q.times[Rear(q)].time = now
    <3> DEFINE r == Insert(QueueInit, now, Msec[rq][s])
    <3>1. Msec[rq][s] \in Nat BY GainType
    <3>2. r \in Queue /\ Full(r) /\ r.times[Rear(r)] = [time |-> now, msec |-> Msec[rq][s]]
      BY <1>2, <3>1, InitFull, InsertSlides
    <3>3. vtsn.times[s] = r BY <1>3
    <3> HIDE DEF r
    <3> QED BY <3>2, <3>3
  <2>2. vtsn.times \in [Sides -> Queue] BY <1>3, <2>1
  <2>3. hist.samples # << >> /\ hist.samples[Len(hist.samples)].time = now BY <1>3
  <2> QED BY <2>1, <2>2, <2>3 DEF QueueInv
<1> QED BY <1>4, <1>5, <1>6 DEF IInv

\* What logging a request does to the counters and the queues, whichever
\* average is configured.
LEMMA LogStep ==
  ASSUME IInv, NEW rq \in Requests, Log(rq)
  PROVE  /\ Record(vtsn')
         /\ vtsn'.counter = [c \in Counters |-> (vtsn.counter[c] + Gain(rq)[c]) % Modulus]
         /\ vtsn'.oc = [c \in Counters |->
              IF vtsn.counter[c] > vtsn'.counter[c] THEN vtsn.oc[c] + 1 ELSE vtsn.oc[c]]
         /\ vtsn'.times = [s \in Sides |-> Insert(vtsn.times[s], now, Msec[rq][s])]
         /\ hist'.due = [c \in Counters |-> hist.due[c] + Gain(rq)[c]]
         /\ hist'.resets = hist.resets
         /\ hist'.samples = Append(hist.samples, [time |-> now, msec |-> Msec[rq]])
         /\ hist' \in [due : [Counters -> Nat], resets : Nat, samples : Seq(Past)]
         /\ now' = now
<1> DEFINE times == [s \in Sides |-> Averaged(Insert(vtsn.times[s], now, Msec[rq][s]))]
<1>1. PICK method \in Methods : vtsn' = NodeSet(rq, method) BY DEF Log
<1>2. /\ Record(vtsn')
      /\ vtsn'.counter = [c \in Counters |-> (vtsn.counter[c] + Gain(rq)[c]) % Modulus]
      /\ vtsn'.oc = Overflow(vtsn, vtsn'.counter)
      /\ vtsn'.times = times
  BY <1>1 DEF NodeSet, Record
<1>3. ASSUME NEW s \in Sides
      PROVE  Averaged(Insert(vtsn.times[s], now, Msec[rq][s])) =
               Insert(vtsn.times[s], now, Msec[rq][s])
  <2> DEFINE q == vtsn.times[s]
  <2>1. q \in Queue /\ Full(q) /\ now \in Nat BY DEF IInv, QueueInv, Shape
  <2>2. Msec[rq][s] \in Nat BY GainType
  <2> HIDE DEF q
  <2>3. Insert(q, now, Msec[rq][s]) \in Queue /\ Full(Insert(q, now, Msec[rq][s]))
    BY <2>1, <2>2, InsertSlides
  <2>4. Averaged(Insert(q, now, Msec[rq][s])) = Insert(q, now, Msec[rq][s])
    BY <2>3, AveragedKeeps
  <2> QED BY <2>4 DEF q
<1>4. times = [s \in Sides |-> Insert(vtsn.times[s], now, Msec[rq][s])] BY <1>3
<1>5. hist \in [due : [Counters -> Nat], resets : Nat, samples : Seq(Past)]
  BY DEF IInv, Shape
<1>6. /\ hist'.due = [c \in Counters |-> hist.due[c] + Gain(rq)[c]]
      /\ hist'.resets = hist.resets
      /\ hist'.samples = Append(hist.samples, [time |-> now, msec |-> Msec[rq]])
      /\ hist' = [due |-> hist'.due, resets |-> hist'.resets, samples |-> hist'.samples]
  BY <1>5 DEF Log
<1>7. hist'.due \in [Counters -> Nat]
  <2>1. Modulus \in Nat /\ Gain(rq) \in [Counters -> 0 .. Modulus - 1] BY NodeAssumption, GainType
  <2>2. hist.due \in [Counters -> Nat] BY <1>5
  <2>3. ASSUME NEW c \in Counters PROVE hist.due[c] + Gain(rq)[c] \in Nat BY <2>1, <2>2
  <2> QED BY <1>6, <2>3
<1>8. hist'.samples \in Seq(Past)
  <2>1. [time |-> now, msec |-> Msec[rq]] \in Past BY RequestAssumption DEF Past, IInv, Shape
  <2> QED BY <1>5, <1>6, <2>1
<1>9. now' = now BY DEF Log
<1> QED BY <1>2, <1>4, <1>5, <1>6, <1>7, <1>8, <1>9 DEF Overflow

LEMMA LogIInv ==
  ASSUME IInv, NEW rq \in Requests, Log(rq)
  PROVE  IInv'
<1>1. Shape' BY LogStep DEF IInv, Shape, Record
<1>2. CounterInv'
  <2>1. Gain(rq) \in [Counters -> 0 .. Modulus - 1] /\ Modulus \in Nat BY GainType, NodeAssumption
  <2>2. ASSUME NEW c \in Counters
        PROVE  /\ vtsn'.counter[c] \in 0 .. Modulus - 1
               /\ vtsn'.oc[c] \in Nat
               /\ vtsn'.counter[c] + Modulus * vtsn'.oc[c] =
                    vtsn.counter[c] + Modulus * vtsn.oc[c] + Gain(rq)[c]
    <3> DEFINE a == vtsn.counter[c]
               g == Gain(rq)[c]
               o == vtsn.oc[c]
               b == (a + g) % Modulus
    <3>1. a \in 0 .. Modulus - 1 /\ o \in Nat /\ g \in 0 .. Modulus - 1
      BY <2>1 DEF IInv, CounterInv
    <3>2. vtsn'.counter[c] = b /\ vtsn'.oc[c] = IF a > b THEN o + 1 ELSE o
      <4>1. vtsn'.counter[c] = b BY LogStep
      <4>2. vtsn'.oc[c] = IF a > vtsn'.counter[c] THEN o + 1 ELSE o BY LogStep
      <4> HIDE DEF a, b, o
      <4> QED BY <4>1, <4>2
    <3>3. /\ b \in 0 .. Modulus - 1
          /\ b + Modulus * (IF a > b THEN o + 1 ELSE o) = a + Modulus * o + g
      BY <3>1, AddWraps
    <3>4. (IF a > b THEN o + 1 ELSE o) \in Nat BY <3>1
    <3> HIDE DEF a, g, o, b
    <3> QED BY <3>2, <3>3, <3>4 DEF a, g, o
  <2>3. vtsn'.counter \in [Counters -> 0 .. Modulus - 1] BY <2>2, LogStep
  <2>4. vtsn'.oc \in [Counters -> Nat] BY <2>2, LogStep
  <2>5. TotalsExact'
    <3>1. ASSUME NEW c \in Counters, c # "response_time" \/ hist'.resets = 0
          PROVE  vtsn'.counter[c] + Modulus * vtsn'.oc[c] = hist'.due[c]
      <4>1. vtsn.counter[c] + Modulus * vtsn.oc[c] = hist.due[c]
        BY <3>1, LogStep DEF IInv, CounterInv, TotalsExact
      <4>2. hist'.due[c] = hist.due[c] + Gain(rq)[c] BY LogStep
      <4> QED BY <2>2, <4>1, <4>2
    <3> QED BY <3>1 DEF TotalsExact
  <2> QED BY <2>3, <2>4, <2>5 DEF CounterInv
<1>3. QueueInv'
  <2>1. /\ hist'.samples # << >>
        /\ hist'.samples[Len(hist'.samples)].time = now
    <3> DEFINE e == [time |-> now, msec |-> Msec[rq]]
    <3>1. hist.samples \in Seq(Past) BY DEF IInv, Shape
    <3>2. e \in Past BY RequestAssumption DEF Past, IInv, Shape
    <3>3. hist'.samples = Append(hist.samples, e) /\ e.time = now BY LogStep
    <3> HIDE DEF e
    <3> QED BY <3>1, <3>2, <3>3
  <2>2. ASSUME NEW s \in Sides
        PROVE  LET q == vtsn'.times[s] IN
               q \in Queue /\ Full(q) /\ q.times[Rear(q)].time = now
    <3> DEFINE q == vtsn.times[s]
    <3>1. q \in Queue /\ Full(q) /\ now \in Nat BY DEF IInv, QueueInv, Shape
    <3>2. Msec[rq][s] \in Nat BY GainType
    <3>3. vtsn'.times[s] = Insert(q, now, Msec[rq][s]) BY LogStep
    <3> DEFINE r == Insert(q, now, Msec[rq][s])
    <3> HIDE DEF q
    <3>4. r \in Queue /\ Full(r) /\ r.times[Rear(r)] = [time |-> now, msec |-> Msec[rq][s]]
      BY <3>1, <3>2, InsertSlides
    <3> HIDE DEF r
    <3>5. vtsn'.times[s] = r BY <3>3 DEF r
    <3> QED BY <3>4, <3>5
  <2>3. vtsn'.times \in [Sides -> Queue] BY <2>2, LogStep
  <2>4. ASSUME NEW s \in Sides PROVE Full(vtsn.times[s])' BY <2>2 DEF Full
  <2>5. ASSUME NEW s \in Sides PROVE Rear(vtsn.times[s])' = Rear(vtsn'.times[s]) BY DEF Rear
  <2> QED BY <2>1, <2>2, <2>3, <2>4, <2>5 DEF QueueInv
<1> QED BY <1>1, <1>2, <1>3 DEF IInv

\* The queues of a new node.
LEMMA NewQueues ==
  ASSUME NEW rq \in Requests, NEW t \in Nat, NEW s \in Sides
  PROVE  LET q == Insert(QueueInit, t, Msec[rq][s])
             e == [time |-> t, msec |-> Msec[rq][s]] IN
         /\ q \in Queue /\ Full(q) /\ q.times[Rear(q)] = e /\ Entry(q, QLEN - 1) = e
         /\ \A j \in 1 .. QLEN - 2 : Entry(q, j) = Zero
<1> DEFINE q == Insert(QueueInit, t, Msec[rq][s])
           e == [time |-> t, msec |-> Msec[rq][s]]
<1>1. Msec[rq][s] \in Nat BY GainType
<1>2. /\ q \in Queue /\ Full(q) /\ q.times[Rear(q)] = e /\ Entry(q, QLEN - 1) = e
      /\ \A j \in 1 .. QLEN - 2 : Entry(q, j) = Entry(QueueInit, j + 1)
  BY <1>1, InitFull, InsertSlides
<1>3. \A j \in 1 .. QLEN - 2 : j + 1 \in 1 .. QLEN - 1 BY QueueAssumption
<1> HIDE DEF q, e
<1>4. \A j \in 1 .. QLEN - 2 : Entry(q, j) = Zero BY <1>2, <1>3, InitFull
<1> QED BY <1>2, <1>4 DEF q, e

LEMMA RecreateIInv ==
  ASSUME IInv, NEW rq \in Requests, Recreate(rq)
  PROVE  IInv'
<1>1. vtsn' = NodeInit(rq) /\ hist' = Fresh(rq) /\ now' = now /\ now \in Nat
  BY DEF Recreate, IInv, Shape
<1>2. /\ Record(vtsn')
      /\ hist' \in [due : [Counters -> Nat], resets : Nat, samples : Seq(Past)]
      /\ vtsn'.counter \in [Counters -> 0 .. Modulus - 1] /\ vtsn'.oc \in [Counters -> Nat]
      /\ \A c \in Counters : vtsn'.counter[c] + Modulus * vtsn'.oc[c] = hist'.due[c]
      /\ hist'.samples = <<[time |-> now, msec |-> Msec[rq]]>>
      /\ vtsn'.times = [s \in Sides |-> Insert(QueueInit, now, Msec[rq][s])]
  BY <1>1, NewNode
<1>3. Shape' BY <1>1, <1>2 DEF Shape, Record
<1>4. CounterInv' BY <1>2 DEF CounterInv, TotalsExact
<1>5. QueueInv'
  <2>1. ASSUME NEW s \in Sides
        PROVE  /\ vtsn'.times[s] \in Queue
               /\ Full(vtsn.times[s])'
               /\ vtsn'.times[s].times[Rear(vtsn.times[s])'].time = now
    <3> DEFINE q == Insert(QueueInit, now, Msec[rq][s])
    <3>1. q \in Queue /\ Full(q) /\ q.times[Rear(q)] = [time |-> now, msec |-> Msec[rq][s]]
      BY <1>1, NewQueues
    <3> HIDE DEF q
    <3>2. vtsn'.times[s] = q BY <1>2 DEF q
    <3> QED BY <3>1, <3>2 DEF Full, Rear
  <2>2. vtsn'.times \in [Sides -> Queue] BY <1>2, <2>1
  <2>3. hist'.samples # << >> /\ hist'.samples[Len(hist'.samples)].time = now BY <1>2
  <2> QED BY <2>1, <2>2, <2>3 DEF QueueInv
<1> QED BY <1>3, <1>4, <1>5 DEF IInv

\* Showing a node changes nothing: its queues are full.
LEMMA ShowKeeps ==
  ASSUME IInv, Show
  PROVE  UNCHANGED vars
<1>1. ASSUME NEW s \in Sides PROVE Averaged(vtsn.times[s]) = vtsn.times[s]
  BY AveragedKeeps DEF IInv, QueueInv
<1>2. [s \in Sides |-> Averaged(vtsn.times[s])] = vtsn.times BY <1>1 DEF IInv, QueueInv
<1>3. vtsn' = [vtsn EXCEPT !.times = [s \in Sides |-> Averaged(vtsn.times[s])]] BY DEF Show
<1>4. vtsn' = vtsn BY <1>2, <1>3 DEF IInv, Shape, Record
<1> QED BY <1>4 DEF Show, vars

LEMMA ResetIInv ==
  ASSUME IInv, Reset
  PROVE  IInv'
<1> DEFINE keep(f) == [c \in Counters |-> IF c = "response_time" THEN f[c] ELSE 0]
<1>1. /\ Record(vtsn')
      /\ vtsn'.counter = keep(vtsn.counter)
      /\ vtsn'.oc = [c \in Counters |-> 0]
      /\ vtsn'.times = vtsn.times
  BY DEF Reset, NodeZero, Record, IInv, Shape
<1>2. hist \in [due : [Counters -> Nat], resets : Nat, samples : Seq(Past)] BY DEF IInv, Shape
<1>3. /\ hist'.due = keep(hist.due)
      /\ hist'.resets = hist.resets + 1
      /\ hist'.samples = hist.samples
      /\ hist' = [due |-> hist'.due, resets |-> hist'.resets, samples |-> hist'.samples]
  BY <1>2 DEF Reset
<1>4. Modulus \in Nat /\ Modulus > 1 BY NodeAssumption
<1>5. Shape'
  <2>1. keep(hist.due) \in [Counters -> Nat] /\ hist.resets + 1 \in Nat
        /\ hist.samples \in Seq(Past)
    BY <1>2
  <2>2. now' \in Nat BY DEF Reset, IInv, Shape
  <2> HIDE DEF keep
  <2>3. hist' \in [due : [Counters -> Nat], resets : Nat, samples : Seq(Past)] BY <1>3, <2>1
  <2> QED BY <1>1, <2>2, <2>3 DEF Shape, Record
<1>6. CounterInv'
  <2>1. vtsn.counter \in [Counters -> 0 .. Modulus - 1] BY DEF IInv, CounterInv
  <2>2. vtsn'.counter \in [Counters -> 0 .. Modulus - 1] BY <1>1, <1>4, <2>1
  <2>3. hist'.resets # 0 BY <1>2, <1>3
  <2>4. ASSUME NEW c \in Counters, c # "response_time"
        PROVE  vtsn'.counter[c] + Modulus * vtsn'.oc[c] = hist'.due[c]
    <3>1. vtsn'.counter[c] = 0 /\ vtsn'.oc[c] = 0 /\ hist'.due[c] = 0 BY <1>1, <1>3, <2>4
    <3>2. Modulus * 0 = 0 BY <1>4
    <3> QED BY <3>1, <3>2
  <2> QED BY <1>1, <2>2, <2>3, <2>4 DEF CounterInv, TotalsExact
<1>7. QueueInv' BY <1>1, <1>3 DEF IInv, QueueInv, Full, Rear
<1> QED BY <1>5, <1>6, <1>7 DEF IInv

LEMMA KeepsIInv ==
  ASSUME IInv, UNCHANGED <<vtsn, hist>>, now' \in Nat
  PROVE  IInv'
BY DEF IInv, Shape, Record, CounterInv, TotalsExact, QueueInv, Full, Rear

\* IInv is inductive.
THEOREM Inductive == Spec => []IInv
<1>1. Init => IInv BY InitIInv
<1>2. IInv /\ [Next]_vars => IInv'
  <2> SUFFICES ASSUME IInv, [Next]_vars PROVE IInv' OBVIOUS
  <2>1. ASSUME NEW rq \in Requests, Log(rq) PROVE IInv' BY <2>1, LogIInv
  <2>2. ASSUME NEW rq \in Requests, Recreate(rq) PROVE IInv' BY <2>2, RecreateIInv
  <2>3. CASE Reset BY <2>3, ResetIInv
  <2>4. CASE UNCHANGED vars
    <3>1. UNCHANGED <<vtsn, hist>> /\ now' \in Nat BY <2>4 DEF vars, IInv, Shape
    <3> QED BY <3>1, KeepsIInv
  <2>5. CASE Show BY <2>4, <2>5, ShowKeeps
  <2>6. CASE Clock
    <3>1. UNCHANGED <<vtsn, hist>> /\ now' \in Nat BY <2>6, NodeAssumption DEF Clock
    <3> QED BY <3>1, KeepsIInv
  <2> QED BY <2>1, <2>2, <2>3, <2>4, <2>5, <2>6 DEF Next
<1> QED BY <1>1, <1>2, PTL DEF Spec

(* Counter and overflow counter (node.c node_set, add_oc) give the exact
   total for every width of the counters and every load of requests. *)
THEOREM TotalsAreExact == Spec => []TotalsExact
<1>1. IInv => TotalsExact BY DEF IInv, CounterInv
<1> QED BY <1>1, Inductive, PTL

(* find_lru_node compares the time of the node's last request, for every
   length of the ring. *)
THEOREM RearAlwaysNewest == Spec => []RearIsNewest
<1>1. IInv => RearIsNewest BY DEF IInv, QueueInv, RearIsNewest
<1> QED BY <1>1, Inductive, PTL

-----------------------------------------------------------------------------
(* The histograms *)

Buckets == [DOMAIN Bounds -> Nat]

\* A larger bound counts at least as many samples, and none counts more than n.
Cumulative(b, n) ==
  \A i \in DOMAIN Bounds :
    /\ b[i] <= n
    /\ \A j \in DOMAIN Bounds : Bounds[i] <= Bounds[j] => b[i] <= b[j]

\* What holds of the histograms as long as no bucket can have wrapped.  A bucket
\* is bounded by the samples since the creation, which a reset leaves alone.
HistInv ==
  /\ vtsn.buckets \in [Sides -> Buckets]
  /\ hist.resets = 0 => hist.due["request"] = Len(hist.samples)
  /\ Len(hist.samples) < Modulus =>
       \A s \in Sides : Cumulative(vtsn.buckets[s], Len(hist.samples))

LEMMA ObserveType ==
  ASSUME NEW b \in Buckets, NEW x \in Nat
  PROVE  Observe(b, x) \in Buckets
<1>1. Modulus \in Nat \ {0} BY NodeAssumption
<1>2. ASSUME NEW i \in DOMAIN Bounds PROVE (b[i] + 1) % Modulus \in Nat
  BY <1>1 DEF Buckets
<1> QED BY <1>2 DEF Observe, Buckets

\* A sample keeps a histogram cumulative: it counts in every bucket above the
\* first that takes it, once.
LEMMA ObserveCumulative ==
  ASSUME NEW b \in Buckets, NEW x \in Nat, NEW n \in Nat, n + 1 < Modulus, Cumulative(b, n)
  PROVE  Cumulative(Observe(b, x), n + 1)
<1> DEFINE o == Observe(b, x)
<1>1. Modulus \in Nat \ {0} BY NodeAssumption
<1>2. ASSUME NEW i \in DOMAIN Bounds
      PROVE  /\ Bounds[i] \in Nat /\ b[i] \in Nat /\ b[i] <= n
             /\ o[i] = IF x <= Bounds[i] THEN b[i] + 1 ELSE b[i]
  <2>1. Bounds[i] \in Nat BY NodeAssumption
  <2>2. b[i] \in Nat BY DEF Buckets
  <2>3. b[i] <= n BY DEF Cumulative
  <2>4. (b[i] + 1) % Modulus = b[i] + 1 BY <1>1, <2>2, <2>3
  <2> QED BY <2>1, <2>2, <2>3, <2>4 DEF Observe
<1> HIDE DEF o
<1>3. ASSUME NEW i \in DOMAIN Bounds, NEW j \in DOMAIN Bounds, Bounds[i] <= Bounds[j]
      PROVE  o[i] <= o[j]
  <2>1. b[i] <= b[j] BY <1>3 DEF Cumulative
  <2>2. x <= Bounds[i] => x <= Bounds[j] BY <1>2, <1>3
  <2> QED BY <1>2, <2>1, <2>2
<1>4. ASSUME NEW i \in DOMAIN Bounds PROVE o[i] <= n + 1 BY <1>2
<1>5. Cumulative(o, n + 1) BY <1>3, <1>4 DEF Cumulative
<1> QED BY <1>5 DEF o

LEMMA EmptyCumulative == EmptyBuckets \in Buckets /\ \A n \in Nat : Cumulative(EmptyBuckets, n)
BY DEF EmptyBuckets, Buckets, Cumulative

\* The histograms of a new node, before and after the first sample of the
\* response side.
LEMMA NewHistograms ==
  ASSUME NEW rq \in Requests, now \in Nat, NEW n, NEW h, n = NodeInit(rq), h = Fresh(rq)
  PROVE  /\ n.buckets \in [Sides -> Buckets]
         /\ h.due["request"] = 1 /\ Len(h.samples) = 1
         /\ \A s \in Sides : Cumulative(n.buckets[s], 1)
<1>1. n.buckets = [s \in Sides |-> IF s = "request" THEN EmptyBuckets
                                   ELSE Observe(EmptyBuckets, Msec[rq][s])]
  BY DEF NodeInit
<1>2. ASSUME NEW s \in Sides
      PROVE  /\ Observe(EmptyBuckets, Msec[rq][s]) \in Buckets
             /\ Cumulative(Observe(EmptyBuckets, Msec[rq][s]), 0 + 1)
  <2>1. Msec[rq][s] \in Nat BY GainType
  <2>2. 0 + 1 < Modulus BY NodeAssumption
  <2> QED BY <2>1, <2>2, EmptyCumulative, ObserveType, ObserveCumulative
<1>3. ASSUME NEW s \in Sides PROVE n.buckets[s] \in Buckets /\ Cumulative(n.buckets[s], 1)
  BY <1>1, <1>2, EmptyCumulative
<1>4. n.buckets \in [Sides -> Buckets] BY <1>1, <1>3
<1>5. h.due["request"] = 1 BY DEF Fresh, Gain, Counters
<1>6. Len(h.samples) = 1 BY DEF Fresh
<1> QED BY <1>3, <1>4, <1>5, <1>6

LEMMA LogHistInv ==
  ASSUME IInv, HistInv, NEW rq \in Requests, Log(rq)
  PROVE  HistInv'
<1> DEFINE n == Len(hist.samples)
<1>1. PICK method \in Methods : vtsn' = NodeSet(rq, method) BY DEF Log
<1>2. vtsn'.buckets = [s \in Sides |-> Observe(vtsn.buckets[s], Msec[rq][s])]
  BY <1>1 DEF NodeSet
<1>3. ASSUME NEW s \in Sides PROVE vtsn.buckets[s] \in Buckets /\ Msec[rq][s] \in Nat
  BY GainType DEF HistInv
<1>4. vtsn'.buckets \in [Sides -> Buckets] BY <1>2, <1>3, ObserveType
<1>5. n \in Nat /\ Len(hist'.samples) = n + 1
  <2> DEFINE e == [time |-> now, msec |-> Msec[rq]]
  <2>1. hist.samples \in Seq(Past) BY DEF IInv, Shape
  <2>2. e \in Past BY RequestAssumption DEF Past, IInv, Shape
  <2>3. hist'.samples = Append(hist.samples, e) BY LogStep
  <2> HIDE DEF e
  <2> QED BY <2>1, <2>2, <2>3
<1>6. hist'.resets = 0 => hist'.due["request"] = n + 1
  <2>1. hist'.due["request"] = hist.due["request"] + Gain(rq)["request"]
    BY LogStep DEF Counters
  <2>2. Gain(rq)["request"] = 1 BY DEF Gain, Counters
  <2>3. hist'.resets = hist.resets BY LogStep
  <2> QED BY <2>1, <2>2, <2>3 DEF HistInv
<1>7. ASSUME n + 1 < Modulus, NEW s \in Sides PROVE Cumulative(vtsn'.buckets[s], n + 1)
  <2>1. n < Modulus BY <1>5, <1>7, NodeAssumption
  <2>2. Cumulative(vtsn.buckets[s], n) BY <2>1 DEF HistInv
  <2> HIDE DEF n
  <2>3. Cumulative(Observe(vtsn.buckets[s], Msec[rq][s]), n + 1)
    BY <1>3, <1>5, <1>7, <2>2, ObserveCumulative
  <2> QED BY <1>2, <2>3
<1> HIDE DEF n
<1> QED BY <1>4, <1>5, <1>6, <1>7 DEF HistInv, Cumulative

LEMMA HistInductive == Spec => []HistInv
<1>1. Init => HistInv
  <2> SUFFICES ASSUME Init PROVE HistInv OBVIOUS
  <2>1. PICK rq \in Requests : vtsn = NodeInit(rq) /\ hist = Fresh(rq) BY DEF Init
  <2>2. now \in Nat BY NodeAssumption DEF Init
  <2> QED BY <2>1, <2>2, NewHistograms DEF HistInv
<1>2. IInv /\ HistInv /\ [Next]_vars => HistInv'
  <2> SUFFICES ASSUME IInv, HistInv, [Next]_vars PROVE HistInv' OBVIOUS
  <2>1. ASSUME NEW rq \in Requests, Log(rq) PROVE HistInv' BY <2>1, LogHistInv
  <2>2. ASSUME NEW rq \in Requests, Recreate(rq) PROVE HistInv'
    <3>1. vtsn' = NodeInit(rq) /\ hist' = Fresh(rq) /\ now \in Nat
      BY <2>2 DEF Recreate, IInv, Shape
    <3> QED BY <3>1, NewHistograms DEF HistInv, Cumulative
  <2>3. CASE Reset
    <3>1. vtsn'.buckets = vtsn.buckets BY <2>3 DEF Reset, NodeZero, IInv, Shape, Record
    <3>2. hist \in [due : [Counters -> Nat], resets : Nat, samples : Seq(Past)]
      BY DEF IInv, Shape
    <3>3. hist'.samples = hist.samples /\ hist'.resets = hist.resets + 1
      BY <2>3, <3>2 DEF Reset
    <3> QED BY <3>1, <3>2, <3>3 DEF HistInv, Cumulative
  <2>4. CASE UNCHANGED vars BY <2>4 DEF vars, HistInv, Cumulative
  <2>5. CASE Show BY <2>4, <2>5, ShowKeeps
  <2>6. CASE Clock BY <2>6 DEF Clock, HistInv, Cumulative
  <2> QED BY <2>1, <2>2, <2>3, <2>4, <2>5, <2>6 DEF Next
<1> QED BY <1>1, <1>2, Inductive, PTL DEF Spec

(* Histograms (node.c histogram_observe) are cumulative for any bounds, and
   until a reset no bucket exceeds the request count it is shown beside, while
   fewer requests than a counter can hold came. *)
THEOREM HistogramsConsistent == Spec => []HistogramConsistent
<1>1. IInv /\ HistInv => HistogramConsistent
  <2> SUFFICES ASSUME IInv, HistInv, Len(hist.samples) < Modulus,
                      NEW s \in Sides, NEW i \in DOMAIN Bounds
               PROVE  /\ \A j \in DOMAIN Bounds :
                           Bounds[i] <= Bounds[j] => vtsn.buckets[s][i] <= vtsn.buckets[s][j]
                      /\ hist.resets = 0 => vtsn.buckets[s][i] <= vtsn.counter["request"]
    BY DEF HistogramConsistent
  <2> DEFINE n == Len(hist.samples)
             c == vtsn.counter["request"]
             o == vtsn.oc["request"]
  <2>1. Cumulative(vtsn.buckets[s], n) BY DEF HistInv
  <2>2. ASSUME hist.resets = 0 PROVE c = n
    <3>1. Modulus \in Nat /\ Modulus > 1 BY NodeAssumption
    <3>2. n \in Nat /\ n < Modulus BY DEF IInv, Shape
    <3>3. c \in Nat /\ o \in Nat BY <3>1 DEF IInv, CounterInv, Counters
    <3>4. c + Modulus * o = n
      BY <2>2 DEF IInv, CounterInv, TotalsExact, HistInv, Counters
    <3> HIDE DEF n, c, o
    <3>5. o = 0
      <4>1. SUFFICES ASSUME o # 0 PROVE FALSE OBVIOUS
      <4>2. o - 1 \in Nat BY <3>3, <4>1
      <4>3. Modulus * o = Modulus + Modulus * (o - 1) BY <3>1, <3>3
      <4>4. Modulus * (o - 1) \in Nat BY <3>1, <4>2
      <4> QED BY <3>1, <3>2, <3>3, <3>4, <4>3, <4>4
    <3>6. Modulus * 0 = 0 BY <3>1
    <3> QED BY <3>3, <3>4, <3>5, <3>6
  <2>3. vtsn.buckets[s][i] <= n BY <2>1 DEF Cumulative
  <2> HIDE DEF n
  <2> QED BY <2>1, <2>2, <2>3 DEF Cumulative
<1> QED BY <1>1, Inductive, HistInductive, PTL

-----------------------------------------------------------------------------
(* The averages *)

\* A fold of additions is a sum, in whatever order the library folds.
LEMMA FoldSums ==
  ASSUME NEW D, IsFiniteSet(D), NEW f \in [D -> Nat]
  PROVE  \E g : IsSum(g, f, D) /\ FoldFunction(Plus, 0, f) = g[D]
<1> DEFINE ch == [s \in SUBSET D |-> CHOOSE x \in s : TRUE]
           iter == CHOOSE g : TakesAny(g, f, SUBSET D)
<1>1. FoldFunction(Plus, 0, f) = (CHOOSE g : TakesAny(g, f, SUBSET DOMAIN f))[DOMAIN f]
  BY DEF FoldFunction, FoldFunctionOnSet, MapThenFoldSet, Plus, TakesAny
<1>2. DOMAIN f = D OBVIOUS
<1>3. \A g : Takes(g, f, ch, SUBSET D) <=> TakesAny(g, f, SUBSET D) BY DEF Takes, TakesAny
<1>4. \A s \in SUBSET D : s # {} => ch[s] \in s OBVIOUS
<1> HIDE DEF ch
<1>5. \E g : Takes(g, f, ch, SUBSET D) BY <1>4, TakesExists
<1>6. \E g : TakesAny(g, f, SUBSET D) BY <1>3, <1>5
<1>7. TakesAny(iter, f, SUBSET D) BY <1>6
<1>8. FoldFunction(Plus, 0, f) = iter[D] BY <1>1, <1>2
<1> HIDE DEF iter
<1>9. Takes(iter, f, ch, SUBSET D) BY <1>3, <1>7
<1>10. IsSum(iter, f, D) BY <1>4, <1>9, TakesSum
<1> QED BY <1>8, <1>10

LEMMA FoldType ==
  ASSUME NEW D, IsFiniteSet(D), NEW f \in [D -> Nat]
  PROVE  FoldFunction(Plus, 0, f) \in Nat
<1>1. PICK g : IsSum(g, f, D) /\ FoldFunction(Plus, 0, f) = g[D] BY FoldSums
<1> QED BY <1>1 DEF IsSum

\* The oldest entries first or the newest first: the same sum.
LEMMA FoldReversed ==
  ASSUME NEW n \in Nat, NEW e \in [1 .. n -> Nat], NEW f \in [1 .. n -> Nat],
         Reversed(e, f, n)
  PROVE  FoldFunction(Plus, 0, e) = FoldFunction(Plus, 0, f)
<1> DEFINE D == 1 .. n
<1>1. IsFiniteSet(D) BY FS_Interval
<1>2. D = 1 .. n /\ e \in [D -> Nat] /\ f \in [D -> Nat] OBVIOUS
<1> HIDE DEF D
<1>3. PICK g : IsSum(g, e, D) /\ FoldFunction(Plus, 0, e) = g[D] BY <1>1, <1>2, FoldSums
<1>4. PICK h : IsSum(h, f, D) /\ FoldFunction(Plus, 0, f) = h[D] BY <1>1, <1>2, FoldSums
<1>5. IsSum(g, e, D) /\ IsSum(h, f, D) BY <1>3, <1>4
<1>6. g[D] = h[D] BY <1>2, <1>5, SumReversed, Z3
<1> QED BY <1>3, <1>4, <1>6

\* The weights of the weighted mean, which the code has in closed form.
LEMMA Weights ==
  /\ FoldFunction(Plus, 0, [j \in Index |-> j]) = (QLEN * (QLEN - 1)) \div 2
  /\ (QLEN * (QLEN - 1)) \div 2 \in Nat \ {0}
<1> DEFINE n == QLEN - 1
           e == [j \in 0 .. n |-> j]
<1>1. n \in Nat \ {0} /\ QLEN = n + 1 BY QueueAssumption
<1>2. e \in [0 .. n -> Nat] /\ \A j \in 0 .. n : e[j] = j OBVIOUS
<1>3. IsFiniteSet(0 .. n) BY <1>1, FS_Interval
<1> HIDE DEF e, n
<1>4. PICK g : IsSum(g, e, 0 .. n) /\ FoldFunction(Plus, 0, e) = g[0 .. n]
  BY <1>2, <1>3, FoldSums
<1>5. 2 * g[0 .. n] = n * (n + 1) BY <1>1, <1>2, <1>4, SumBelow
<1>6. g[0 .. n] \in Nat BY <1>4 DEF IsSum
<1>7. QLEN * (QLEN - 1) = n * (n + 1)
  <2>1. QLEN - 1 = n BY DEF n
  <2> QED BY <1>1, <2>1
<1>8. n * (n + 1) > 1
  <2>1. n * (n + 1) = n * n + n /\ n * n \in Nat BY <1>1
  <2>2. n * n >= 1
    <3>1. n * n = n * (n - 1) + n /\ n - 1 \in Nat BY <1>1
    <3>2. n * (n - 1) \in Nat BY <1>1, <3>1
    <3> QED BY <1>1, <3>1, <3>2
  <2> QED BY <1>1, <2>1, <2>2
<1>9. (QLEN * (QLEN - 1)) \div 2 = g[0 .. n] /\ g[0 .. n] # 0
  <2> DEFINE v == g[0 .. n]
  <2>1. v \in Nat /\ QLEN * (QLEN - 1) = 2 * v /\ 2 * v > 1 BY <1>5, <1>6, <1>7, <1>8
  <2> HIDE DEF v
  <2>2. (2 * v) \div 2 = v BY <2>1
  <2>3. v # 0 BY <2>1
  <2> QED BY <2>1, <2>2, <2>3 DEF v
<1>10. [j \in Index |-> j] = e BY DEF e, n, Index
<1> QED BY <1>4, <1>6, <1>9, <1>10

\* What the ring holds, seen from the history, and what the clock gives.
AverageInv ==
  /\ now > 0
  /\ \A i \in DOMAIN hist.samples : hist.samples[i].time > 0
  /\ \A s \in Sides : \A j \in 1 .. QLEN - 1 : Entry(vtsn.times[s], QLEN - j) = Recent(s, j)

NewTimes(rq, t) == [s \in Sides |-> Insert(QueueInit, t, Msec[rq][s])]

\* The j-th newest of a list of requests, as side s sees it.
RecentOf(samples, s, j) ==
  IF j > Len(samples) THEN Zero
  ELSE [time |-> samples[Len(samples) + 1 - j].time, msec |-> samples[Len(samples) + 1 - j].msec[s]]

LEMMA AppendRecent ==
  ASSUME NEW samples \in Seq(Past), NEW e \in Past, NEW s \in Sides
  PROVE  /\ RecentOf(Append(samples, e), s, 1) = [time |-> e.time, msec |-> e.msec[s]]
         /\ \A j \in Nat \ {0} : RecentOf(Append(samples, e), s, j + 1) = RecentOf(samples, s, j)
<1> DEFINE new == Append(samples, e)
           n == Len(samples)
<1>1. n \in Nat /\ Len(new) = n + 1 /\ new[n + 1] = e /\ \A i \in 1 .. n : new[i] = samples[i]
  OBVIOUS
<1> HIDE DEF new
<1>2. RecentOf(new, s, 1) = [time |-> e.time, msec |-> e.msec[s]]
  <2>1. ~(1 > Len(new)) /\ Len(new) + 1 - 1 = n + 1 BY <1>1
  <2> QED BY <1>1, <2>1 DEF RecentOf
<1>3. ASSUME NEW j \in Nat \ {0} PROVE RecentOf(new, s, j + 1) = RecentOf(samples, s, j)
  <2>1. CASE j > n
    <3>1. j + 1 > Len(new) BY <1>1, <2>1
    <3> QED BY <2>1, <3>1 DEF RecentOf
  <2>2. CASE ~(j > n)
    <3>1. /\ ~(j + 1 > Len(new)) /\ n + 1 - j \in 1 .. n
          /\ Len(new) + 1 - (j + 1) = n + 1 - j
      BY <1>1, <2>2
    <3>2. new[n + 1 - j] = samples[n + 1 - j] BY <1>1, <3>1
    <3> QED BY <2>2, <3>1, <3>2 DEF RecentOf
  <2> QED BY <2>1, <2>2
<1> QED BY <1>2, <1>3 DEF new

\* A new node's ring holds its one sample and zeros.
LEMMA NewAverageInv ==
  ASSUME NEW rq \in Requests, NEW t \in Nat, t > 0, NEW s \in Sides, NEW j \in 1 .. QLEN - 1
  PROVE  Entry(Insert(QueueInit, t, Msec[rq][s]), QLEN - j) =
           RecentOf(<<[time |-> t, msec |-> Msec[rq]]>>, s, j)
<1> DEFINE q == Insert(QueueInit, t, Msec[rq][s])
           one == <<[time |-> t, msec |-> Msec[rq]]>>
<1>1. /\ Entry(q, QLEN - 1) = [time |-> t, msec |-> Msec[rq][s]]
      /\ \A i \in 1 .. QLEN - 2 : Entry(q, i) = Zero
  BY NewQueues
<1> HIDE DEF q
<1>2. CASE j = 1
  <2>1. RecentOf(one, s, 1) = [time |-> t, msec |-> Msec[rq][s]] BY DEF RecentOf
  <2> QED BY <1>1, <1>2, <2>1 DEF q
<1>3. CASE j # 1
  <2>1. QLEN - j \in 1 .. QLEN - 2 /\ j > 1 BY <1>3, QueueAssumption
  <2>2. RecentOf(one, s, j) = Zero BY <2>1 DEF RecentOf
  <2> QED BY <1>1, <2>1, <2>2 DEF q
<1> QED BY <1>2, <1>3

LEMMA LogAverageInv ==
  ASSUME IInv, AverageInv, NEW rq \in Requests, Log(rq)
  PROVE  AverageInv'
<1> DEFINE e == [time |-> now, msec |-> Msec[rq]]
<1>1. hist.samples \in Seq(Past) /\ now \in Nat BY DEF IInv, Shape
<1>2. e \in Past BY <1>1, RequestAssumption DEF Past
<1>3. hist'.samples = Append(hist.samples, e) /\ now' = now BY LogStep
<1>4. e.time = now /\ e.msec = Msec[rq] OBVIOUS
<1> HIDE DEF e
<1>5. ASSUME NEW s \in Sides, NEW j \in 1 .. QLEN - 1
      PROVE  Entry(vtsn'.times[s], QLEN - j) = RecentOf(hist'.samples, s, j)
  <2> DEFINE q == vtsn.times[s]
             r == Insert(q, now, Msec[rq][s])
  <2>1. q \in Queue /\ Full(q) BY DEF IInv, QueueInv
  <2>2. Msec[rq][s] \in Nat BY GainType
  <2> HIDE DEF q
  <2>3. /\ Entry(r, QLEN - 1) = [time |-> now, msec |-> Msec[rq][s]]
        /\ \A i \in 1 .. QLEN - 2 : Entry(r, i) = Entry(q, i + 1)
    BY <1>1, <2>1, <2>2, InsertSlides
  <2>4. vtsn'.times[s] = r BY LogStep DEF q
  <2> HIDE DEF r
  <2>5. CASE j = 1
    <3>1. RecentOf(hist'.samples, s, 1) = [time |-> now, msec |-> Msec[rq][s]]
      BY <1>1, <1>2, <1>3, <1>4, AppendRecent
    <3> QED BY <2>3, <2>4, <2>5, <3>1
  <2>6. CASE j # 1
    <3> DEFINE l == j - 1
    <3>1. l \in Nat \ {0} /\ l \in 1 .. QLEN - 1 /\ j = l + 1 BY <2>6, QueueAssumption
    <3>2. QLEN - j \in 1 .. QLEN - 2 /\ QLEN - j + 1 = QLEN - l BY <2>6, QueueAssumption
    <3>3. Entry(r, QLEN - j) = Entry(q, QLEN - l) BY <2>3, <3>2
    <3> HIDE DEF l
    <3>4. Entry(q, QLEN - l) = Recent(s, l) BY <3>1 DEF AverageInv, q
    <3>5. Recent(s, l) = RecentOf(hist.samples, s, l) BY DEF Recent, RecentOf
    <3>6. RecentOf(hist'.samples, s, j) = RecentOf(hist.samples, s, l)
      BY <1>1, <1>2, <1>3, <3>1, AppendRecent
    <3> QED BY <2>4, <3>3, <3>4, <3>5, <3>6
  <2> QED BY <2>5, <2>6
<1>6. ASSUME NEW i \in DOMAIN hist'.samples PROVE hist'.samples[i].time > 0
  <2>1. i \in 1 .. Len(hist.samples) + 1 BY <1>1, <1>2, <1>3
  <2>2. CASE i = Len(hist.samples) + 1
    <3>1. hist'.samples[i] = e BY <1>1, <1>2, <1>3, <2>2
    <3> QED BY <1>4, <3>1 DEF AverageInv
  <2>3. CASE i # Len(hist.samples) + 1
    <3>1. i \in DOMAIN hist.samples BY <1>1, <2>1, <2>3
    <3>2. hist'.samples[i] = hist.samples[i] BY <1>1, <1>2, <1>3, <3>1
    <3> QED BY <3>1, <3>2 DEF AverageInv
  <2> QED BY <2>2, <2>3
<1>7. now' > 0 BY <1>3 DEF AverageInv
<1> QED BY <1>5, <1>6, <1>7 DEF AverageInv, Entry, Recent, RecentOf

LEMMA AverageInductive == Spec => []AverageInv
<1>1. ASSUME NEW rq \in Requests, NEW t \in Nat, t > 0, NEW n, NEW h, n = NewTimes(rq, t),
             h = <<[time |-> t, msec |-> Msec[rq]]>>
      PROVE  /\ \A i \in DOMAIN h : h[i].time > 0
             /\ \A s \in Sides : \A j \in 1 .. QLEN - 1 : Entry(n[s], QLEN - j) = RecentOf(h, s, j)
  BY <1>1, NewAverageInv DEF NewTimes
<1>2. Init => AverageInv
  <2> SUFFICES ASSUME Init PROVE AverageInv OBVIOUS
  <2>1. PICK rq \in Requests : vtsn = NodeInit(rq) /\ hist = Fresh(rq) BY DEF Init
  <2>2. now \in Nat /\ now > 0 BY NodeAssumption DEF Init
  <2>3. vtsn.times = NewTimes(rq, now) /\ hist.samples = <<[time |-> now, msec |-> Msec[rq]]>>
    BY <2>1 DEF NodeInit, NewTimes, Fresh
  <2>4. /\ \A i \in DOMAIN hist.samples : hist.samples[i].time > 0
        /\ \A s \in Sides : \A j \in 1 .. QLEN - 1 :
             Entry(vtsn.times[s], QLEN - j) = RecentOf(hist.samples, s, j)
    BY <1>1, <2>2, <2>3
  <2> QED BY <2>2, <2>4 DEF AverageInv, Recent, RecentOf
<1>3. IInv /\ AverageInv /\ [Next]_vars => AverageInv'
  <2> SUFFICES ASSUME IInv, AverageInv, [Next]_vars PROVE AverageInv' OBVIOUS
  <2>1. ASSUME NEW rq \in Requests, Log(rq) PROVE AverageInv' BY <2>1, LogAverageInv
  <2>2. ASSUME NEW rq \in Requests, Recreate(rq) PROVE AverageInv'
    <3>1. vtsn' = NodeInit(rq) /\ hist' = Fresh(rq) /\ now' = now BY <2>2 DEF Recreate
    <3>2. now \in Nat /\ now > 0 BY DEF IInv, Shape, AverageInv
    <3>3. vtsn'.times = NewTimes(rq, now) /\ hist'.samples = <<[time |-> now, msec |-> Msec[rq]]>>
      BY <3>1 DEF NodeInit, NewTimes, Fresh
    <3>4. /\ \A i \in DOMAIN hist'.samples : hist'.samples[i].time > 0
          /\ \A s \in Sides : \A j \in 1 .. QLEN - 1 :
               Entry(vtsn'.times[s], QLEN - j) = RecentOf(hist'.samples, s, j)
      BY <1>1, <3>2, <3>3
    <3> QED BY <3>1, <3>2, <3>4 DEF AverageInv, Entry, Recent, RecentOf
  <2>3. CASE Reset
    <3>1. vtsn'.times = vtsn.times BY <2>3 DEF Reset, NodeZero, IInv, Shape, Record
    <3>2. hist'.samples = hist.samples /\ now' = now BY <2>3 DEF Reset, IInv, Shape
    <3> QED BY <3>1, <3>2 DEF AverageInv, Entry, Recent
  <2>4. CASE UNCHANGED vars BY <2>4 DEF vars, AverageInv, Entry, Recent
  <2>5. CASE Show BY <2>4, <2>5, ShowKeeps
  <2>6. CASE Clock
    <3>1. now' > 0 BY <2>6, NodeAssumption DEF Clock
    <3> QED BY <2>6, <3>1 DEF Clock, AverageInv, Entry, Recent
  <2> QED BY <2>1, <2>2, <2>3, <2>4, <2>5, <2>6 DEF Next
<1> QED BY <1>2, <1>3, Inductive, PTL DEF Spec

\* An entry counts in the averages exactly if its sample is in the period.
LEMMA PeriodAgrees ==
  ASSUME IInv, AverageInv, NEW s \in Sides, NEW j \in 1 .. QLEN - 1
  PROVE  Since(now, Period) < Recent(s, j).time <=> InPeriod(s, j)
<1> DEFINE n == Len(hist.samples)
<1>1. n \in Nat /\ hist.samples \in Seq(Past) /\ now \in Nat /\ Period \in Nat
  BY NodeAssumption DEF IInv, Shape
<1>2. CASE j > n
  <2>1. Recent(s, j).time = 0 BY <1>2 DEF Recent, Zero
  <2>2. ~(j <= n) BY <1>1, <1>2
  <2>3. now > Period => ~(now - Period < 0) BY <1>1
  <2> QED BY <1>1, <2>1, <2>2 DEF Since, InPeriod, AverageInv
<1>3. CASE ~(j > n)
  <2> DEFINE i == n + 1 - j
  <2>1. i \in 1 .. n /\ j <= n BY <1>1, <1>3
  <2>2. Recent(s, j).time = hist.samples[i].time BY <1>3 DEF Recent
  <2>3. hist.samples[i] \in Past BY <1>1, <2>1
  <2>4. hist.samples[i].time \in Nat BY <2>3 DEF Past
  <2>5. hist.samples[i].time > 0 BY <1>1, <2>1 DEF AverageInv
  <2> DEFINE t == hist.samples[i].time
  <2>6. t \in Nat /\ t > 0 /\ Recent(s, j).time = t BY <2>2, <2>4, <2>5
  <2> HIDE DEF t, i
  <2> QED BY <1>1, <2>1, <2>6 DEF Since, InPeriod
<1> QED BY <1>2, <1>3

LEMMA EntryType ==
  ASSUME NEW q \in Queue, NEW j \in 1 .. QLEN - 1
  PROVE  Entry(q, j) \in Sample
<1> DEFINE a == q.front + j - 1
<1>1. q.front \in Index BY DEF Queue
<1>2. a \in 0 .. 2 * QLEN - 1 BY <1>1, QueueAssumption DEF Index
<1>3. Entry(q, j) = q.times[a % QLEN] BY DEF Entry
<1> HIDE DEF a
<1>4. a % QLEN \in Index BY <1>2, Around, QueueAssumption DEF Index
<1> QED BY <1>3, <1>4 DEF Queue

\* A total over the ring is the sum over the recent samples, weighed the other
\* way round.
LEMMA TotalsAgree ==
  ASSUME IInv, AverageInv, NEW s \in Sides,
         NEW w \in [Index -> Nat], NEW v \in [Index -> Nat],
         \A j \in 1 .. QLEN - 1 : w[j] = v[QLEN - j]
  PROVE  Total(vtsn.times[s], Since(now, Period), w) = RecentSum(s, v)
<1> DEFINE q == vtsn.times[s]
           n == QLEN - 1
           e == [j \in 1 .. n |->
                   IF Since(now, Period) < Entry(q, j).time THEN Entry(q, j).msec * w[j] ELSE 0]
           f == [j \in 1 .. n |-> IF InPeriod(s, j) THEN v[j] * Recent(s, j).msec ELSE 0]
<1>1. n \in Nat /\ q \in Queue /\ q.front \in Index /\ Used(q) = n
  <2>1. q \in Queue /\ Full(q) BY DEF IInv, QueueInv
  <2> HIDE DEF q
  <2>2. q.front \in Index /\ q.rear \in Index BY <2>1 DEF Queue
  <2>3. Used(q) = n BY <2>1, <2>2, QueueAssumption DEF Used, Full, Index
  <2> QED BY <2>1, <2>2, <2>3, QueueAssumption
<1>2. ASSUME NEW j \in 1 .. n
      PROVE  QLEN - j \in 1 .. n /\ Entry(q, j) = Recent(s, QLEN - j) /\ Entry(q, j) \in Sample
  <2>1. QLEN - j \in 1 .. n /\ QLEN - (QLEN - j) = j BY QueueAssumption
  <2>2. Entry(q, j) = Recent(s, QLEN - j) BY <2>1 DEF AverageInv
  <2>3. Entry(q, j) \in Sample BY <1>1, EntryType
  <2> QED BY <2>1, <2>2, <2>3
<1>3. ASSUME NEW j \in 1 .. n PROVE Recent(s, j).msec \in Nat
  <2>1. QLEN - j \in 1 .. n /\ QLEN - (QLEN - j) = j BY QueueAssumption
  <2>2. Recent(s, j) = Entry(q, QLEN - j) BY <2>1 DEF AverageInv
  <2>3. Entry(q, QLEN - j) \in Sample BY <1>2, <2>1
  <2> QED BY <2>2, <2>3 DEF Sample
<1> HIDE DEF q
<1>4. ASSUME NEW j \in 1 .. n
      PROVE  /\ w[j] \in Nat /\ v[j] \in Nat
             /\ Entry(q, j).msec \in Nat
             /\ Entry(q, j).msec * w[j] \in Nat /\ v[j] * Recent(s, j).msec \in Nat
  <2>1. j \in Index BY QueueAssumption DEF Index
  <2>2. w[j] \in Nat /\ v[j] \in Nat BY <2>1
  <2>3. Entry(q, j).msec \in Nat BY <1>2 DEF Sample
  <2> QED BY <1>3, <2>2, <2>3
<1>5. e \in [1 .. n -> Nat]
  <2> SUFFICES ASSUME NEW j \in 1 .. n PROVE e[j] \in Nat OBVIOUS
  <2> QED BY <1>4
<1>6. f \in [1 .. n -> Nat]
  <2> SUFFICES ASSUME NEW j \in 1 .. n PROVE f[j] \in Nat OBVIOUS
  <2> QED BY <1>4
<1>7. ASSUME NEW j \in 1 .. n PROVE e[j] = f[n + 1 - j]
  <2> DEFINE l == QLEN - j
             x == Recent(s, l).msec
  <2>1. l \in 1 .. n /\ n + 1 - j = l /\ QLEN - l = j BY QueueAssumption
  <2>2. Entry(q, j) = Recent(s, l) BY <1>2
  <2>3. Since(now, Period) < Recent(s, l).time <=> InPeriod(s, l) BY <2>1, PeriodAgrees
  <2>4. w[j] = v[l] OBVIOUS
  <2>5. x \in Nat /\ v[l] \in Nat BY <1>3, <1>4, <2>1
  <2>6. x * v[l] = v[l] * x
    <3> HIDE DEF x, l
    <3> QED BY <2>5
  <2>7. f[l] = IF InPeriod(s, l) THEN v[l] * x ELSE 0 BY <2>1
  <2>8. e[j] = IF InPeriod(s, l) THEN x * v[l] ELSE 0 BY <2>2, <2>3, <2>4
  <2> QED BY <2>1, <2>6, <2>7, <2>8
<1>8. Total(q, Since(now, Period), w) = FoldFunction(Plus, 0, e) BY <1>1 DEF Total
<1>9. RecentSum(s, v) = FoldFunction(Plus, 0, f) BY DEF RecentSum
<1>10. Reversed(e, f, n)
  <2> HIDE DEF e, f, n
  <2> QED BY <1>7 DEF Reversed
<1> HIDE DEF e, f, n
<1>11. FoldFunction(Plus, 0, e) = FoldFunction(Plus, 0, f) BY <1>1, <1>5, <1>6, <1>10, FoldReversed
<1>12. Total(q, Since(now, Period), w) = RecentSum(s, v) BY <1>8, <1>9, <1>11
<1> QED BY <1>12 DEF q

(* Both averages (node.c time_queue_amm, time_queue_wma) are those of the last
   QLEN - 1 samples of the history, for every length of the ring and every
   period, wherever front and rear stand. *)
THEOREM AveragesAreRecent == Spec => []AveragesRecent
<1>1. IInv /\ AverageInv => AveragesRecent
  <2> SUFFICES ASSUME IInv, AverageInv, NEW s \in Sides
               PROVE  /\ Amm(vtsn.times[s], now, Period) =
                           RecentSum(s, [j \in Index |-> 1]) \div (QLEN - 1)
                      /\ LET weights == FoldFunction(Plus, 0, [j \in Index |-> j])
                         IN  Wma(vtsn.times[s], now, Period) =
                               RecentSum(s, [j \in Index |-> QLEN - j]) \div weights
    BY DEF AveragesRecent
  <2> DEFINE ones == [j \in Index |-> 1]
             up == [j \in Index |-> j]
             down == [j \in Index |-> QLEN - j]
  <2>1. ones \in [Index -> Nat] /\ \A j \in 1 .. QLEN - 1 : ones[j] = ones[QLEN - j]
    BY QueueAssumption DEF Index
  <2>2. /\ up \in [Index -> Nat] /\ down \in [Index -> Nat]
        /\ \A j \in 1 .. QLEN - 1 : up[j] = down[QLEN - j]
    BY QueueAssumption DEF Index
  <2>3. Amm(vtsn.times[s], now, Period) = Total(vtsn.times[s], Since(now, Period), ones) \div (QLEN - 1)
    BY DEF Amm
  <2>4. Wma(vtsn.times[s], now, Period) =
          Total(vtsn.times[s], Since(now, Period), up) \div ((QLEN * (QLEN - 1)) \div 2)
    BY DEF Wma
  <2>5. FoldFunction(Plus, 0, up) = (QLEN * (QLEN - 1)) \div 2 BY Weights
  <2> HIDE DEF ones, up, down
  <2>6. Total(vtsn.times[s], Since(now, Period), ones) = RecentSum(s, ones) BY <2>1, TotalsAgree
  <2>7. Total(vtsn.times[s], Since(now, Period), up) = RecentSum(s, down) BY <2>2, TotalsAgree
  <2>8. Amm(vtsn.times[s], now, Period) = RecentSum(s, ones) \div (QLEN - 1) BY <2>3, <2>6
  <2>9. Wma(vtsn.times[s], now, Period) = RecentSum(s, down) \div FoldFunction(Plus, 0, up)
    BY <2>4, <2>5, <2>7
  <2> QED BY <2>8, <2>9 DEF ones, up, down
<1> QED BY <1>1, Inductive, AverageInductive, PTL

LEMMA TotalType ==
  ASSUME NEW q \in Queue, NEW since, NEW w \in [Index -> Nat]
  PROVE  Total(q, since, w) \in Nat
<1> DEFINE n == Used(q)
           f == [j \in 1 .. n |-> IF since < Entry(q, j).time THEN Entry(q, j).msec * w[j] ELSE 0]
<1>1. n \in 0 .. QLEN - 1 /\ QLEN \in Nat
  <2>1. q.front \in Index /\ q.rear \in Index BY DEF Queue
  <2> QED BY <2>1, QueueAssumption DEF Used, Index
<1>2. f \in [1 .. n -> Nat]
  <2> HIDE DEF n
  <2> SUFFICES ASSUME NEW j \in 1 .. n PROVE Entry(q, j).msec * w[j] \in Nat OBVIOUS
  <2>1. j \in 1 .. QLEN - 1 BY <1>1
  <2>2. Entry(q, j).msec \in Nat BY <2>1, EntryType DEF Sample
  <2>3. w[j] \in Nat BY <1>1, <2>1 DEF Index
  <2> QED BY <2>2, <2>3
<1>3. IsFiniteSet(1 .. n) BY <1>1, FS_Interval
<1>4. Total(q, since, w) = FoldFunction(Plus, 0, f) BY DEF Total
<1> HIDE DEF f, n
<1> QED BY <1>2, <1>3, <1>4, FoldType

LEMMA AverageType ==
  ASSUME NEW q \in Queue, NEW method, NEW t
  PROVE  Average(q, method, t, Period) \in Nat
<1> DEFINE ones == [j \in Index |-> 1]
           up == [j \in Index |-> j]
           a == Total(q, Since(t, Period), ones)
           b == Total(q, Since(t, Period), up)
           d == (QLEN * (QLEN - 1)) \div 2
<1>1. ones \in [Index -> Nat] /\ up \in [Index -> Nat] BY QueueAssumption DEF Index
<1>2. Amm(q, t, Period) = a \div (QLEN - 1) /\ Wma(q, t, Period) = b \div d BY DEF Amm, Wma
<1> HIDE DEF ones, up
<1>3. a \in Nat /\ b \in Nat BY <1>1, TotalType
<1>4. d \in Nat \ {0} BY Weights
<1> HIDE DEF a, b, d
<1>5. a \div (QLEN - 1) \in Nat BY <1>3, QueueAssumption
<1>6. b \div d \in Nat BY <1>3, <1>4
<1> QED BY <1>2, <1>5, <1>6 DEF Average

AverageTyped == vtsn.average \in [Sides -> Nat]

LEMMA AverageTypedInductive == Spec => []AverageTyped
<1>1. \A rq \in Requests : Msec[rq] \in [Sides -> Nat] BY RequestAssumption
<1>2. Init => AverageTyped BY <1>1 DEF Init, NodeInit, AverageTyped
<1>3. IInv /\ AverageTyped /\ [Next]_vars => AverageTyped'
  <2> SUFFICES ASSUME IInv, AverageTyped, [Next]_vars PROVE AverageTyped' OBVIOUS
  <2>1. ASSUME NEW rq \in Requests, Log(rq) PROVE AverageTyped'
    <3>1. PICK method \in Methods : vtsn' = NodeSet(rq, method) BY <2>1 DEF Log
    <3>2. vtsn'.average =
            [s \in Sides |->
               Average(Insert(vtsn.times[s], now, Msec[rq][s]), method, now, Period)]
      BY <3>1 DEF NodeSet
    <3>3. ASSUME NEW s \in Sides
          PROVE  Average(Insert(vtsn.times[s], now, Msec[rq][s]), method, now, Period) \in Nat
      <4>1. vtsn.times[s] \in Queue /\ Full(vtsn.times[s]) /\ now \in Nat
        BY DEF IInv, QueueInv, Shape
      <4>2. Msec[rq][s] \in Nat BY GainType
      <4>3. Insert(vtsn.times[s], now, Msec[rq][s]) \in Queue BY <4>1, <4>2, InsertSlides
      <4> QED BY <4>3, AverageType
    <3> QED BY <3>2, <3>3 DEF AverageTyped
  <2>2. ASSUME NEW rq \in Requests, Recreate(rq) PROVE AverageTyped'
    BY <1>1, <2>2 DEF Recreate, NodeInit, AverageTyped
  <2>3. CASE Reset BY <2>3 DEF Reset, NodeZero, IInv, Shape, Record, AverageTyped
  <2>4. CASE UNCHANGED vars BY <2>4 DEF vars, AverageTyped
  <2>5. CASE Show BY <2>4, <2>5, ShowKeeps
  <2>6. CASE Clock BY <2>6 DEF Clock, AverageTyped
  <2> QED BY <2>1, <2>2, <2>3, <2>4, <2>5, <2>6 DEF Next
<1> QED BY <1>2, <1>3, Inductive, PTL DEF Spec

(* Every field of a node keeps its type and its width, the averages, which are
   divided sums, included. *)
THEOREM TypeCorrect == Spec => []TypeOK
<1>1. IInv /\ HistInv /\ AverageTyped => TypeOK
  BY DEF IInv, Shape, Record, CounterInv, QueueInv, HistInv, Buckets, AverageTyped, TypeOK
<1> QED BY <1>1, Inductive, HistInductive, AverageTypedInductive, PTL

-----------------------------------------------------------------------------
(* The queues as a sliding window *)

WindowOf(times) == [j \in 1 .. QLEN - 1 |-> [s \in Sides |-> Entry(times[s], j)]]
W == WindowOf(vtsn.times)
ZeroRow == [s \in Sides |-> Zero]
Row(rq, t) == [s \in Sides |-> [time |-> t, msec |-> Msec[rq][s]]]

LEMMA RowType ==
  ASSUME NEW rq \in Requests, NEW t \in Nat
  PROVE  Row(rq, t) \in [Sides -> Sample]
BY GainType DEF Row, Sample

\* A new node's window.
LEMMA NewWindow ==
  ASSUME NEW rq \in Requests, NEW t \in Nat
  PROVE  WindowOf(NewTimes(rq, t)) =
           [j \in 1 .. QLEN - 1 |-> IF j = QLEN - 1 THEN Row(rq, t) ELSE ZeroRow]
<1> DEFINE times == NewTimes(rq, t)
<1>1. ASSUME NEW s \in Sides
      PROVE  /\ Entry(times[s], QLEN - 1) = [time |-> t, msec |-> Msec[rq][s]]
             /\ \A j \in 1 .. QLEN - 2 : Entry(times[s], j) = Zero
  <2>1. times[s] = Insert(QueueInit, t, Msec[rq][s]) BY DEF NewTimes
  <2> QED BY <2>1, NewQueues
<1>2. ASSUME NEW j \in 1 .. QLEN - 1
      PROVE  [s \in Sides |-> Entry(times[s], j)] = IF j = QLEN - 1 THEN Row(rq, t) ELSE ZeroRow
  <2>1. CASE j = QLEN - 1 BY <1>1, <2>1 DEF Row
  <2>2. CASE j # QLEN - 1
    <3>1. j \in 1 .. QLEN - 2 BY <2>2, QueueAssumption
    <3> QED BY <1>1, <2>2, <3>1 DEF ZeroRow
  <2> QED BY <2>1, <2>2
<1> QED BY <1>2 DEF WindowOf

\* Logging a request moves the window by its sample.
LEMMA LogSlides ==
  ASSUME IInv, NEW rq \in Requests, Log(rq)
  PROVE  W' = [j \in 1 .. QLEN - 1 |-> IF j = QLEN - 1 THEN Row(rq, now) ELSE W[j + 1]]
<1>1. ASSUME NEW s \in Sides
      PROVE  /\ Entry(vtsn'.times[s], QLEN - 1) = [time |-> now, msec |-> Msec[rq][s]]
             /\ \A j \in 1 .. QLEN - 2 : Entry(vtsn'.times[s], j) = Entry(vtsn.times[s], j + 1)
  <2> DEFINE q == vtsn.times[s]
             r == Insert(q, now, Msec[rq][s])
  <2>1. q \in Queue /\ Full(q) /\ now \in Nat BY DEF IInv, QueueInv, Shape
  <2>2. Msec[rq][s] \in Nat BY GainType
  <2> HIDE DEF q
  <2>3. /\ Entry(r, QLEN - 1) = [time |-> now, msec |-> Msec[rq][s]]
        /\ \A j \in 1 .. QLEN - 2 : Entry(r, j) = Entry(q, j + 1)
    BY <2>1, <2>2, InsertSlides
  <2>4. vtsn'.times[s] = r BY LogStep DEF q
  <2> HIDE DEF r
  <2> QED BY <2>3, <2>4 DEF q
<1>2. W' = [j \in 1 .. QLEN - 1 |-> [s \in Sides |-> Entry(vtsn'.times[s], j)]]
  BY DEF W, WindowOf, Entry
<1>3. ASSUME NEW j \in 1 .. QLEN - 1
      PROVE  [s \in Sides |-> Entry(vtsn'.times[s], j)] =
               IF j = QLEN - 1 THEN Row(rq, now) ELSE W[j + 1]
  <2>1. CASE j = QLEN - 1 BY <1>1, <2>1 DEF Row
  <2>2. CASE j # QLEN - 1
    <3>1. j \in 1 .. QLEN - 2 /\ j + 1 \in 1 .. QLEN - 1 BY <2>2, QueueAssumption
    <3>2. W[j + 1] = [s \in Sides |-> Entry(vtsn.times[s], j + 1)] BY <3>1 DEF W, WindowOf
    <3> QED BY <1>1, <2>2, <3>1, <3>2
  <2> QED BY <2>1, <2>2
<1> QED BY <1>2, <1>3

(* A node's queues implement the sliding window (node.c
   node_time_queue_insert): every sample enters as the newest, one leaves, and
   no step restarts a queue, for every length of the ring. *)
THEOREM QueuesImplementWindow == Spec => ImplementsWindow
<1> DEFINE WA == <<W, Arrived>>
<1>1. Init => Window!Init
  <2> SUFFICES ASSUME Init PROVE Window!Init OBVIOUS
  <2>1. PICK rq \in Requests : vtsn = NodeInit(rq) /\ hist = Fresh(rq) BY DEF Init
  <2>2. now \in Nat BY NodeAssumption DEF Init
  <2>3. W = WindowOf(NewTimes(rq, now)) BY <2>1 DEF W, NewTimes, NodeInit
  <2>4. Arrived = Row(rq, now) BY <2>1 DEF Arrived, Fresh, Row
  <2>5. W = [j \in 1 .. QLEN - 1 |-> IF j = QLEN - 1 THEN Arrived ELSE ZeroRow]
    BY <2>2, <2>3, <2>4, NewWindow
  <2>6. Arrived \in [Sides -> Sample] BY <2>2, <2>4, RowType
  <2> QED BY <2>5, <2>6 DEF Window!Init, Window!Only, W, WindowOf, ZeroRow
<1>2. IInv /\ [Next]_vars => [Window!Next]_WA
  <2> SUFFICES ASSUME IInv, [Next]_vars PROVE [Window!Next]_WA OBVIOUS
  <2>0. now \in Nat /\ hist.samples \in Seq(Past) BY DEF IInv, Shape
  <2>1. ASSUME NEW rq \in Requests, Log(rq) PROVE Window!Next
    <3>1. Arrived' = Row(rq, now)
      <4> DEFINE e == [time |-> now, msec |-> Msec[rq]]
      <4>1. e \in Past BY <2>0, RequestAssumption DEF Past
      <4>2. hist'.samples = Append(hist.samples, e) BY <2>1, LogStep
      <4>3. e.time = now /\ e.msec = Msec[rq] OBVIOUS
      <4> HIDE DEF e
      <4>4. hist'.samples[Len(hist'.samples)] = e BY <2>0, <4>1, <4>2
      <4> QED BY <4>3, <4>4 DEF Arrived, Row
    <3>2. W' = [j \in 1 .. QLEN - 1 |-> IF j = QLEN - 1 THEN Arrived' ELSE W[j + 1]]
      BY <2>1, <3>1, LogSlides
    <3>3. Arrived' \in [Sides -> Sample] BY <2>0, <3>1, RowType
    <3> QED BY <3>2, <3>3 DEF Window!Next, Window!Slide, W, WindowOf
  <2>2. ASSUME NEW rq \in Requests, Recreate(rq) PROVE Window!Next
    <3>1. vtsn' = NodeInit(rq) /\ hist' = Fresh(rq) BY <2>2 DEF Recreate
    <3>2. vtsn'.times = NewTimes(rq, now) BY <3>1 DEF NodeInit, NewTimes
    <3>3. W' = WindowOf(NewTimes(rq, now)) BY <3>2 DEF W, WindowOf, Entry
    <3>4. Arrived' = Row(rq, now) BY <3>1 DEF Arrived, Fresh, Row
    <3>5. W' = [j \in 1 .. QLEN - 1 |-> IF j = QLEN - 1 THEN Arrived' ELSE ZeroRow]
      BY <2>0, <3>3, <3>4, NewWindow
    <3>6. Arrived' \in [Sides -> Sample] BY <2>0, <3>4, RowType
    <3> QED BY <3>5, <3>6 DEF Window!Next, Window!Restart, Window!Only, W, WindowOf, ZeroRow
  <2>3. CASE Reset
    <3>1. vtsn'.times = vtsn.times BY <2>3 DEF Reset, NodeZero, IInv, Shape, Record
    <3>2. hist'.samples = hist.samples BY <2>3 DEF Reset, IInv, Shape
    <3> QED BY <3>1, <3>2 DEF W, WindowOf, Entry, Arrived
  <2>4. CASE UNCHANGED vars BY <2>4 DEF vars, W, WindowOf, Entry, Arrived
  <2>5. CASE Show BY <2>4, <2>5, ShowKeeps
  <2>6. CASE Clock BY <2>6 DEF Clock, W, WindowOf, Entry, Arrived
  <2> QED BY <2>1, <2>2, <2>3, <2>4, <2>5, <2>6 DEF Next
<1>3. [Window!Next]_WA =>
        [Window!Next]_(<<[j \in 1 .. QLEN - 1 |-> [s \in Sides |-> Entry(vtsn.times[s], j)]], Arrived>>)
  BY DEF W, WindowOf
<1> HIDE DEF WA
<1> QED BY <1>1, <1>2, <1>3, Inductive, PTL DEF Spec, ImplementsWindow, Window!Spec, Window!vars
=============================================================================
