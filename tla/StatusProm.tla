----------------------------- MODULE StatusProm -----------------------------
(***************************************************************************)
(* The Prometheus page: the text that display_prometheus_set writes for a  *)
(* zone, followed by the texts of the host collectors as far as their      *)
(* budget goes.                                                            *)
(*                                                                         *)
(* The text is a sequence of lines: a help line (its type line with it)    *)
(* that declares a family of metrics, or a sample of a family with the     *)
(* labels that identify its node.  Values are left out.                    *)
(***************************************************************************)
EXTENDS KeyCodec

CONSTANTS
  Buckets,       \* Buckets[side]: the length of a node's histogram, by side
  metrics_size,  \* vhost_traffic_status_metrics_size
  Enabled        \* the collectors that the configuration turns on

\* The order in which the collectors are asked.
Collectors ==
  <<"disk_utilization", "cpu_stats", "mem_info", "net_stats", "disk_stats", "load_avg",
    "netdev_stats", "uname_info", "vm_stats", "live_session_stats">>

Help(fam) == [t |-> "help", fam |-> fam, labels |-> <<>>, le |-> 0]
Sample(fam, labels) == [t |-> "sample", fam |-> fam, labels |-> labels, le |-> 0]
Bucket(fam, labels, le) == [t |-> "sample", fam |-> fam, labels |-> labels, le |-> le]

FMT_MAIN ==
  <<Help(<<"info">>), Sample(<<"info">>, <<>>),
    Help(<<"start_time">>), Sample(<<"start_time">>, <<>>),
    Help(<<"main_connections">>), Sample(<<"main_connections">>, <<>>)>>

\* What every kind of node reports, in the order of its format.
Plain == <<"bytes_total", "requests_total", "request_seconds_total", "request_seconds">>
OfUpstream == Plain \o <<"response_seconds_total", "response_seconds">>

Declare(section, fams) == [i \in DOMAIN fams |-> Help(<<section, fams[i]>>)]
FMT_SERVER_S == Declare("server", Append(Plain, "request_duration_seconds"))
FMT_FILTER_S == Declare("filter", Append(Plain, "request_duration_seconds"))
FMT_UPSTREAM_S ==
  Declare("upstream", OfUpstream \o <<"request_duration_seconds", "response_duration_seconds">>)

Samples(section, fams, labels) == [i \in DOMAIN fams |-> Sample(<<section, fams[i]>>, labels)]

\* The buckets, +Inf, sum and count; nothing for a node without a histogram.
Histogram(fam, labels, n) ==
  IF n = 0 THEN <<>>
  ELSE [i \in 1 .. n |-> Bucket(fam, labels, i)]
         \o <<Bucket(fam, labels, n + 1), Sample(fam, labels), Sample(fam, labels)>>

SetServerNode(buf, key) ==
  LET server == <<PositionKey(key, 1)>>
  IN buf \o Samples("server", Plain, server)
         \o Histogram(<<"server", "request_duration_seconds">>, server, Buckets["request"])

SetFilterNode(buf, key) ==
  LET filter == <<PositionKey(key, 1), PositionKey(key, 2)>>
  IN buf \o Samples("filter", Plain, filter)
         \o Histogram(<<"filter", "request_duration_seconds">>, filter, Buckets["request"])

Backend(key) ==
  IF key[1] = "UG" THEN <<PositionKey(key, 1), PositionKey(key, 2)>>
  ELSE <<<<"::nogroups">>, PositionKey(key, 1)>>

SetUpstreamNode(buf, key) ==
  buf \o Samples("upstream", OfUpstream, Backend(key))
      \o Histogram(<<"upstream", "request_duration_seconds">>, Backend(key), Buckets["request"])
      \o Histogram(<<"upstream", "response_duration_seconds">>, Backend(key), Buckets["response"])

\* The three walks.
SetServer(buf, walk) ==
  FoldLeft(LAMBDA b, k : IF k[1] = "NO" THEN SetServerNode(b, k) ELSE b, buf, walk)
SetFilter(buf, walk) ==
  FoldLeft(LAMBDA b, k : IF k[1] = "FG" THEN SetFilterNode(b, k) ELSE b, buf, walk)
SetUpstream(buf, walk) ==
  FoldLeft(LAMBDA b, k : IF k[1] \in {"UG", "UA"} THEN SetUpstreamNode(b, k) ELSE b, buf, walk)

\* A section without a node is taken back with its help lines.
Section(buf, opened, filled) == IF filled = opened THEN buf ELSE filled

\* A collector's text counts against the budget before it is known to fit; the
\* first that does not ends the page.
Collect(acc, c, lens) ==
  IF c \notin Enabled \/ acc.full THEN acc
  ELSE IF acc.size + lens[c] > metrics_size THEN [acc EXCEPT !.full = TRUE]
  ELSE [acc EXCEPT !.size = @ + lens[c], !.buf = Append(@, Sample(<<"collector">>, <<c>>))]

\* Mutant: the help lines of filters are written once, with those of servers.
PrometheusSetHelpFirst(walk, lens) ==
  LET servers == SetServer(FMT_MAIN \o FMT_SERVER_S, walk)
      filters == SetFilter(servers, walk)
      upstreams == Section(filters, filters \o FMT_UPSTREAM_S,
                           SetUpstream(filters \o FMT_UPSTREAM_S, walk))
  IN FoldLeft(LAMBDA acc, c : Collect(acc, c, lens),
              [buf |-> upstreams, size |-> 0, full |-> FALSE], Collectors)

\* The page, with the size its collectors took and whether they were cut short;
\* lens[c] is the length of the text of collector c on this scrape.
PrometheusSet(walk, lens) ==
  LET servers == SetServer(FMT_MAIN \o FMT_SERVER_S, walk)
      filters == Section(servers, servers \o FMT_FILTER_S,
                         SetFilter(servers \o FMT_FILTER_S, walk))
      upstreams == Section(filters, filters \o FMT_UPSTREAM_S,
                           SetUpstream(filters \o FMT_UPSTREAM_S, walk))
  IN FoldLeft(LAMBDA acc, c : Collect(acc, c, lens),
              [buf |-> upstreams, size |-> 0, full |-> FALSE], Collectors)

(* Reading the page back. *)

IsSample(line) == line.t = "sample" /\ line.fam # <<"collector">>

\* Every family that has a sample is declared before its first one, and none twice.
FamiliesDeclared(text) ==
  /\ \A i \in DOMAIN text : IsSample(text[i]) =>
       \E j \in 1 .. i - 1 : text[j] = Help(text[i].fam)
  /\ \A i, j \in DOMAIN text : text[i].t = "help" /\ text[i] = text[j] => i = j

\* The nodes a family of a section shows, in order.
NodesShown(text, section, fam) ==
  LET of == Kept(text, {l \in ToSet(text) : IsSample(l) /\ l.fam = <<section, fam>>})
  IN [i \in DOMAIN of |-> of[i].labels]

\* The collectors whose text was appended, in order.
Collected(text) ==
  LET of == Kept(text, {l \in ToSet(text) : l.fam = <<"collector">>})
  IN [i \in DOMAIN of |-> of[i].labels[1]]
=============================================================================
