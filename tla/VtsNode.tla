------------------------------ MODULE VtsNode -------------------------------
(***************************************************************************)
(* One upstream node of the zone: its counters and their overflow          *)
(* counters, the queues and histograms of request and response times, and  *)
(* what creating, updating, resetting and showing the node does to them.   *)
(* A server or filter node is the same without the response side.          *)
(*                                                                         *)
(* Every action runs under the zone's mutex (VtsShm), so the node's life   *)
(* is sequential; what is hard here is arithmetic and history.             *)
(***************************************************************************)
EXTENDS TimeQueue, Sequences, FiniteSets

CONSTANTS
  Modulus,       \* 2^64: counters are ngx_atomic_t
  Bounds,        \* Bounds[i]: upper bound of histogram bucket i, in msec
  Period,        \* vhost_traffic_status_average_method's period
  Status,        \* Status[rq], Length[rq], Sent[rq], Msec[rq][side]: what a
  Length,        \*   request in Requests brings to the log phase
  Sent,
  Msec,
  Requests,
  MaxRequests, MaxResets, MaxTime   \* bounds

Sides == {"request", "response"}
Classes == {"1xx", "2xx", "3xx", "4xx", "5xx"}
Counters == Classes \cup {"request", "in_bytes", "out_bytes", "request_time", "response_time"}

ASSUME RequestAssumption ==
  /\ Status \in [Requests -> Nat] /\ Length \in [Requests -> Nat] /\ Sent \in [Requests -> Nat]
  /\ Msec \in [Requests -> [Sides -> Nat]]
ASSUME NodeAssumption ==
  /\ Modulus \in Nat \ {0, 1}
  /\ \A rq \in Requests :
       Length[rq] < Modulus /\ Sent[rq] < Modulus /\ \A s \in Sides : Msec[rq][s] < Modulus
  /\ Bounds \in Seq(Nat)
  /\ {Period, MaxRequests, MaxResets, MaxTime} \subseteq Nat

VARIABLES
  vtsn,      \* the node: its counters (stat_*_counter), how often each has
             \*   wrapped (oc), and per side the queue (times), the histogram
             \*   (buckets) and the average kept in it
  now,       \* ngx_http_vhost_traffic_status_current_msec
  hist       \* history: the totals due, the samples since creation, events

vars == <<vtsn, now, hist>>

Class(status) ==
  CASE status < 200 -> "1xx"
    [] status \in 200 .. 299 -> "2xx"
    [] status \in 300 .. 399 -> "3xx"
    [] status \in 400 .. 499 -> "4xx"
    [] OTHER -> "5xx"

\* What a request adds to each counter.
Gain(rq) == [c \in Counters |->
  CASE c = "request" -> 1
    [] c = "in_bytes" -> Length[rq]
    [] c = "out_bytes" -> Sent[rq]
    [] c = "request_time" -> Msec[rq]["request"]
    [] c = "response_time" -> Msec[rq]["response"]
    [] OTHER -> IF c = Class(Status[rq]) THEN 1 ELSE 0]

\* Mutant: a sample counts in the first bucket that takes it only.
ObserveFirst(b, x) ==
  [i \in DOMAIN Bounds |-> IF x <= Bounds[i] /\ \A j \in 1 .. i - 1 : x > Bounds[j]
                           THEN (b[i] + 1) % Modulus ELSE b[i]]

\* histogram_observe: a sample counts in every bucket whose bound it meets.
Observe(b, x) ==
  [i \in DOMAIN Bounds |-> IF x <= Bounds[i] THEN (b[i] + 1) % Modulus ELSE b[i]]

\* add_oc: a counter that went down has wrapped.
Overflow(n, new) == [c \in Counters |-> IF n.counter[c] > new[c] THEN n.oc[c] + 1 ELSE n.oc[c]]

EmptyBuckets == [i \in DOMAIN Bounds |-> 0]

\* node_init and add_node_upstream on a new node.  Only the response side
\* observes the first request.
NodeInit(rq) ==
  [counter |-> Gain(rq),
   oc      |-> [c \in Counters |-> 0],
   times   |-> [s \in Sides |-> Insert(QueueInit, now, Msec[rq][s])],
   buckets |-> [s \in Sides |-> IF s = "request" THEN EmptyBuckets
                                ELSE Observe(EmptyBuckets, Msec[rq][s])],
   average |-> Msec[rq]]

\* node_set and add_node_upstream on a node that was found.
NodeSet(rq, method) ==
  LET n == vtsn
      new == [c \in Counters |-> (n.counter[c] + Gain(rq)[c]) % Modulus]
      queue == [s \in Sides |-> Insert(n.times[s], now, Msec[rq][s])]
  IN  [counter |-> new,
       oc      |-> Overflow(n, new),
       times   |-> [s \in Sides |-> Averaged(queue[s])],
       buckets |-> [s \in Sides |-> Observe(n.buckets[s], Msec[rq][s])],
       average |-> [s \in Sides |-> Average(queue[s], method, now, Period)]]

\* Mutant: the overflow counters survive.
NodeZeroCounters ==
  [vtsn EXCEPT !.counter = [c \in Counters |-> IF c = "response_time" THEN @[c] ELSE 0]]

\* node_zero: the counters restart, except the response time, whose overflow
\* counter does; queues and histograms stay.
NodeZero ==
  [vtsn EXCEPT !.counter = [c \in Counters |-> IF c = "response_time" THEN @[c] ELSE 0],
               !.oc = [c \in Counters |-> 0],
               !.average["request"] = 0]

-----------------------------------------------------------------------------

Fresh(rq) == [due |-> Gain(rq), resets |-> 0,
              samples |-> <<[time |-> now, msec |-> Msec[rq]]>>]

Init ==
  /\ now \in 1 + Period .. MaxTime
  /\ \E rq \in Requests : vtsn = NodeInit(rq) /\ hist = Fresh(rq)

\* A request is logged on the node.
Log(rq) ==
  /\ Len(hist.samples) < MaxRequests
  /\ \E method \in Methods : vtsn' = NodeSet(rq, method)
  /\ hist' = [hist EXCEPT !.due = [c \in Counters |-> @[c] + Gain(rq)[c]],
                          !.samples = Append(@, [time |-> now, msec |-> Msec[rq]])]
  /\ UNCHANGED now

\* The node is evicted or deleted, and created again by a later request.
Recreate(rq) ==
  /\ vtsn' = NodeInit(rq)
  /\ hist' = Fresh(rq)
  /\ UNCHANGED now

Reset ==
  /\ hist.resets < MaxResets
  /\ vtsn' = NodeZero
  /\ hist' = [hist EXCEPT !.resets = @ + 1,
                          !.due = [c \in Counters |-> IF c = "response_time" THEN @[c] ELSE 0]]
  /\ UNCHANGED now

\* Showing the node takes the averages again.
Show ==
  /\ vtsn' = [vtsn EXCEPT !.times = [s \in Sides |-> Averaged(@[s])]]
  /\ UNCHANGED <<now, hist>>

\* The wall clock, which may be set back.
Clock ==
  /\ now' \in 1 + Period .. MaxTime
  /\ UNCHANGED <<vtsn, hist>>

Next == (\E rq \in Requests : Log(rq) \/ Recreate(rq)) \/ Reset \/ Show \/ Clock

Spec == Init /\ [][Next]_vars

-----------------------------------------------------------------------------
(* Properties *)

(* Type correctness; counters stay within their width. *)
TypeOK ==
  /\ vtsn \in [counter : [Counters -> 0 .. Modulus - 1], oc : [Counters -> Nat],
               times : [Sides -> Queue], buckets : [Sides -> [DOMAIN Bounds -> Nat]],
               average : [Sides -> Nat]]
  /\ now \in Nat
  /\ hist.due \in [Counters -> Nat] /\ hist.resets \in Nat

(* A counter and its overflow counter together are exactly what the requests
   since the node's creation or reset add up to, however often it wrapped.
   The response time is exact until the first reset, which forgets its
   overflows and keeps the rest. *)
TotalsExact ==
  \A c \in Counters :
    c # "response_time" \/ hist.resets = 0 =>
      vtsn.counter[c] + Modulus * vtsn.oc[c] = hist.due[c]

(* Histograms are cumulative, and until a reset no bucket counts more samples
   than the count shown beside it, as long as nothing has wrapped. *)
HistogramConsistent ==
  Len(hist.samples) < Modulus =>
    \A s \in Sides, i \in DOMAIN Bounds :
      /\ \A j \in DOMAIN Bounds : Bounds[i] <= Bounds[j] => vtsn.buckets[s][i] <= vtsn.buckets[s][j]
      /\ hist.resets = 0 => vtsn.buckets[s][i] <= vtsn.counter["request"]

(* The sample the LRU walk compares is the time of the node's last request,
   at every position of the ring. *)
RearIsNewest ==
  \A s \in Sides :
    vtsn.times[s].times[Rear(vtsn.times[s])].time = hist.samples[Len(hist.samples)].time

\* The last QLEN - 1 samples, read off the history: the j-th newest.
Recent(s, j) ==
  LET n == Len(hist.samples)
  IN  IF j > n THEN Zero ELSE [time |-> hist.samples[n + 1 - j].time,
                               msec |-> hist.samples[n + 1 - j].msec[s]]

InPeriod(s, j) == IF Period = 0 THEN j <= Len(hist.samples) ELSE Recent(s, j).time + Period > now

\* Sum over the recent samples in the period, the j-th newest w times.
RecentSum(s, w) ==
  FoldFunction(Plus, 0, [j \in 1 .. QLEN - 1 |->
    IF InPeriod(s, j) THEN w[j] * Recent(s, j).msec ELSE 0])

(* Both averages, taken at any time, are those of the last QLEN - 1 samples:
   walking the ring loses none and counts none twice, and the newest weighs
   QLEN - 1 times the oldest in the weighted mean. *)
AveragesRecent ==
  \A s \in Sides :
    /\ Amm(vtsn.times[s], now, Period) = RecentSum(s, [j \in Index |-> 1]) \div (QLEN - 1)
    /\ LET weights == FoldFunction(Plus, 0, [j \in Index |-> j])
       IN  Wma(vtsn.times[s], now, Period) = RecentSum(s, [j \in Index |-> QLEN - j]) \div weights

\* The request that came last, as both sides see it.
Arrived ==
  LET e == hist.samples[Len(hist.samples)]
  IN  [s \in Sides |-> [time |-> e.time, msec |-> e.msec[s]]]

(* The queues implement the sliding window: every sample that arrives enters
   as the newest and one leaves, and no insertion, average or reset ever
   restarts them. *)
Window == INSTANCE SlidingWindow WITH
  N <- QLEN - 1, Sample <- [Sides -> Sample], Zero <- [s \in Sides |-> Zero],
  window <- [j \in 1 .. QLEN - 1 |-> [s \in Sides |-> Entry(vtsn.times[s], j)]],
  arrived <- Arrived

ImplementsWindow == Window!Spec
=============================================================================
