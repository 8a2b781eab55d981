# Verification of the vhost traffic status module

This directory holds TLA+ models of the nginx module in `ngx_metric_module/`
(a fork of nginx-module-vts with host metric collectors), the TLC configurations
that check them on small instances, and proofs that hold for every instance.
File names below are short for
`ngx_metric_module/src/ngx_http_vhost_traffic_status_<name>`.

## 1. The system

nginx runs a master and several single-threaded worker processes. All workers map
one shared-memory zone: a slab with a mutex, and in it a red-black tree of *nodes*,
one per key. A key is a group (server `NO`, upstream `UA`/`UG`, cache `CC`, filter
`FG`) and a name. In the log phase of every request a worker adds the request to
one node per key it touches. Other requests read nodes (limits, variables, status
pages), remove or zero them (control), and timers write the tree to a file and
read it back at start (dump).

| Component | State | Operations | Interaction |
|---|---|---|---|
| Shared zone (`shm.c`, `node.c`) | tree, slab, mutex; per worker and location `node_caches[5]` | `shm_add_node` (find, evict the LRU filter node, allocate, insert), `find_node`, `node_lookup`, `find_lru`, `shm_info` | every other component goes through it |
| Log phase (`module.c` handler, `shm.c` add_*) | none | one `shm_add_node` for the server, the upstream and each filter of a request | calls the zone, goes on after an error |
| Node statistics (`node.c`, `node.h`, macros of `module.h`) | counters, overflow counters, two time queues, two histograms per node | `node_init`, `node_set`, `node_zero`, queue push/pop/insert, averages, histogram observe | called under the zone's mutex |
| Control (`control.c`, `display.c` handler) | the parsed arguments, the buffer | `status`, `delete`, `reset` of all, a group, a zone | under the mutex, except for parsing and for sizing its buffer |
| Limits (`limit.c`) | the rules of the configuration | `limit_handler_traffic`, `traffic_unique` | reads counters under the mutex and fills the caches |
| Variables (`variables.c`) | none | `node_variable` | reads under the mutex and fills the caches |
| Set directive (`set.c`) | `control->count` of the request | `set_by_filter_init`, `_node`, `_node_member` | reads the tree *without* the mutex |
| Dump (`dump.c`) | a file, a timer per worker | `dump_execute`, `dump_handler`, `dump_restore` | reads the tree without the mutex, file lock |
| Display (`display*.c`) | buffers | JSON and Prometheus output | sizes without the mutex, fills with it |
| Filters (`filter.c`) | none | `filter_unique`, `filter_get_keys`, `filter_get_nodes`, `filter_max_node_match` | pure, on configuration and tree |
| Strings and keys (`string.c`, `node.c`) | none | key building and splitting, escaping | pure |
| Configuration (`module.c`, directives) | main and location configurations | create, directives, init, merge | sequential, at start and reload |
| Zone over reloads (`module.c`) | the zones and the tree of a configuration | `zone`, `init_zone` | the master, with the memory of nginx |
| Host collectors (`collector/`) | none | nine parsers of `/proc` files and system calls | called by the Prometheus page, under the mutex |
| Live sessions (`collector/ngx_metric_collect_live_session_stats.c`) | none | a listing, and per process its command line, counters and use | the same, over processes that come and go |
| RTMP (`collector/ngx_metric_collect_rtmp_stats.c`) | XML | a parser | never called |

**What is hard.** Workers interleave at the mutex and die inside it. Caches outlive
the nodes they point at. The slab and the request pools run out. Counters wrap, the
clock steps back, crc32 collides, the stored length of a key is cut to a byte. A
delete or reset meets requests at any point of their log phase. The ring is written
by an expression whose operand order C leaves open. Files are truncated and
written by several workers. Pages and replies are sized before the mutex is taken and
filled after. Limits are asked array by array with the mutex free in between. A reload
reads a new configuration over a zone in use. Processes, disks and mounts vanish between
the line that names them and the call that measures them. `PROJECT.json` lists each of these hazards at its line.

**What makes each component correct.**

- Zone: one node per key, the tree and the slab agree, filter nodes stay within
  `filter_max_node`, counters are never too high, and exact until something is
  removed; a reader under the mutex sees a plain table of counters; every logged
  request finishes.
- Node: totals are exact over wraps, the newest sample is where the LRU walk looks,
  averages are those of the last samples, histograms are cumulative and never exceed
  their count.
- Dump: a restart brings back what the last complete dump held, as far as its records have a key; nothing a restore adds
  exceeds what was logged; an outdated file is dumped again; a stop loses nothing.
- Display: a page is a text that its readers take, shows what is in the tree once and in its
  place, and its buffer was sized for each node it shows, whatever is added while it is made.
- Control: a command acts on the nodes its arguments name and on no others, on all of
  them or none; `count` is their number.
- Limits: whoever had used up a limit is refused, and nobody else.
- Set directive: a variable shows what the counter of its key held while the request ran.
- Filters, strings: of rules with one hash one stays, none is lost.
- Configuration: the nearest block that gives a value decides; a reload keeps the tree of
  a zone that stays, and the memory that is allocated is the memory in use.
- Collectors: a sample carries the value of the row, column or process that its labels
  name; a scrape comes to its end.

## 2. Modules

| Module | What it is |
|---|---|
| `StatStore` | abstract: the zone as a table from keys to counters |
| `VtsShm` | the zone, its mutex, the workers' caches and log phases, readers, delete and reset, worker death |
| `MCVtsShm` | keys, hashes, requests and symmetry for TLC |
| `VtsShmProofs` | proofs about `VtsShm`, and that it implements `StatStore` |
| `SlidingWindow` | abstract: the last N samples of a node |
| `TimeQueue` | the ring and its averages, as pure operators |
| `VtsNode` | the life of one upstream node over `TimeQueue` |
| `MCVtsNode` | request kinds and histogram bounds for TLC |
| `VtsNodeProofs` | proofs about `TimeQueue` and `VtsNode` |
| `VtsDump` | dumping the zone to its file and restoring it, over several workers, deaths and restarts |
| `VtsDumpProofs` | proofs about `VtsDump`: the bound of the slab, what the file holds, what a restart owes |
| `MCVtsDump` | keys with their lengths and stems, and symmetry, for TLC |
| `KeyCodec` | keys of nodes, their parts, replacement and escaping, over strings of tokens |
| `Selection` | what a loop picks out of a sequence |
| `FilterKeys` | the names of filters and their nodes, as collected and sorted for the JSON page |
| `StatusJson`, `StatusProm` | the pages, as operators from a tree to a sequence of tokens or lines |
| `UpstreamLookup` | an upstream server looked up in the configuration |
| `StatusDisplay` | the request for a page |
| `VtsControl` | the request for a command |
| `StatusRequests`, `MCStatusRequests` | composes `StatusDisplay` and `VtsControl` over one tree |
| `StatusProofs` | proofs about `StatusRequests`: its JSON and Prometheus pages, its commands |
| `RequestKeys`, `LimitRules` | the keys of a request; the limit directives, as operators |
| `LimitTraffic` | the preaccess phase of requests against the log phases of others |
| `SetByFilter` | the access phase: the rules of a location, without the mutex |
| `RequestPhases`, `MCRequestPhases` | composes `LimitTraffic` and `SetByFilter` |
| `RequestPhasesProofs` | proofs about both |
| `UniqueRules` | removal of duplicate rules by hash, as operators |
| `VtsConf` | the directives, `init_main_conf` and `merge_loc_conf` |
| `VtsZone`, `VtsZoneProofs` | the zones over starts and reloads, and proofs about them |
| `Configuration`, `MCConfiguration` | composes `VtsZone` and `VtsConf` |
| `ConfigurationProofs` | proofs about `VtsConf` and `UniqueRules` in it |
| `HostText` | the parsers of the host collectors, as operators from lines of words to samples |
| `HostStats` | a scrape of all of them on a host that changes |
| `LiveSessions` | the collector of live sessions |
| `CollectorScrape`, `MCCollectorScrape` | composes `HostStats` and `LiveSessions` |
| `Induction` | induction over numbers and finite sets, sums, and folds over sequences, as lemmas for the proofs |

### VtsShm

State: `mutex` (`shpool->mutex`), `rbtree` (slots linked), `slab` (slots allocated),
`shm` (contents of every slot: key, hash, request counter, time of the last
request), `node_caches` per worker, location and group, and per worker where it is in
its log phase (`pc`, `loc`, `todo`, `slot`).

| Code | Action |
|---|---|
| `module.c` handler, `shm.c` add_server, add_upstream, add_filter | `LogRequest`: the keys of the request in order |
| `shm_add_node`, lock | `AddLock` |
| found: `node_set`, cache, unlock | `AddFound` |
| not found: `find_lru`, delete | `AddEvict`, `AddEvictOom` (its pool is exhausted) |
| `ngx_slab_alloc_locked` | `AddAlloc`, `AddAllocFailed`, `AddAllocLeak` (its pool is exhausted) |
| `node_init`, insert, cache, unlock | `AddInsert` |
| `node_variable` | `NodeVariable` |
| a rule of `limit_handler_traffic` | `LimitTraffic` |
| `node_delete_*`, `node_reset_*` | `Delete`, `Reset` |
| nginx master | `Crash`: mutexes of the dead worker are unlocked, the new one starts with the master's empty caches |
| `current_msec` | `Tick`: to any time, the wall clock may step back |

`shm_add_node` is three steps because a worker can die between them. The other
critical sections are one step: every writer holds the mutex, so nothing could see
their middle. What a freed slot keeps matters, because a stale cache may still point
at it. A node holds two 64-entry queues and two 32-bucket histograms, more than half
a page, so a slot is whole slab pages, and freeing pages leaves their contents.
`ngx_rbtree_delete` clears `node->key` on some of its paths only: `Unlink` clears the
hash or not. The tree's shape is not modelled; it decides only which of two equally
old filter nodes is evicted, which is a choice here.

### VtsNode and TimeQueue

State: `vtsn`, a record of the counters, their overflow counters (`*_oc`), and per
side (request, response) the queue, the histogram and the stored average; `now`;
and `hist`, the totals due and the samples since the node was created.

| Code | Action or operator |
|---|---|
| `node_set`, `shm_add_node_upstream` on a node found, `add_oc` | `Log`, with either average method |
| `node_init`, `shm_add_node_upstream` on a new node | `NodeInit`, `Recreate` |
| `node_zero` | `Reset` |
| `display_set_upstream_node` (takes averages, which may restart a queue) | `Show` |
| `node_time_queue_*` | `TimeQueue` operators of the same names |

Counters count modulo `Modulus` (2^64 in the build). `pop(q) | push(q)` in
`node_time_queue_insert` is evaluated left to right, as GCC and Clang do; pushing
first would restart the queue at every insertion, and that is the mutant of
`ImplementsWindow`. The merge into the sum row is left out: it is compiled with
`ADD_SUM_ALL` 0 and its result is never shown.

### VtsDump

State: `tree` and `count` (the zone, reduced to its keys and their counters; `VtsShm`
has the rest), `file` (its cells: header, node, the pieces of a key, pad, and holes),
`lock` (the file lock), `now`, and per worker `pc`, `quit` (it is exiting) and `io`
(the offset in the file, the record under way, and what a walk has met). `hist` keeps
what was logged (`logged`), what the dump under way will hold at least (`taking`), what
the file holds at least (`saved`), what a restart therefore owes (`owed`), and whether
one of the exceptions below has happened (`disturbed`).

| Code | Action |
|---|---|
| `shm_add_node`; eviction, delete | `Request`; `Remove` |
| `dump_handler`, `dump_update_valid` | `Timer` with `Due` |
| `exit_worker` | `Exit`: dumps whatever the age of the file |
| `dump_execute`: open, lock, header | `Open`, `Lock`; `LockInterrupted` (fcntl fails with EINTR, which is logged only), `DumpFailed` |
| `dump_node_write` | `WriteNode`, `WriteKey`; `WriteFailed` |
| unlock, close | `Close` |
| `init_worker`, `dump_restore`, `dump_restore_add_node` | `Start`, `ReadNode`, `ReadKey` with `AddNode` |
| nginx master | `Crash`, `Restart` (a stop of all workers and a start with a new zone) |

A worker is single-threaded, so it serves no request while it dumps or restores; the
others do, and nothing keeps the tree still under a walk. `Upset` says how a walk fares:
an insertion rotates the tree and may hide a node from the walk or bring it back to one
(`moved`), a removal may lead it into freed memory (`torn`), where it shows what a node
held. Both are cut off after `MaxRecords` records. The file is a sequence of cells and
not of bytes, one for each `write` and more for a longer key, so a dump that writes over
the rest of another one need not line up with it. A restore that reads a node from cells
that hold none takes some length out of them and goes on anywhere behind, or ends; the
key it might have made of such bytes is nobody's and is left out, with the room it takes.
A reset (`VtsShm`) is left out too: after it a restart may bring old counters back.

A node has the length of its key modulo 256 (`shm.c:150`), and the dump writes so many bytes
of it. `KeyLen` is what these take in the file and `Stem` the key that they spell: of a key of
up to 255 bytes the key itself, of a longer one the key of its first bytes, under which it comes
back; of one of 256 bytes no byte is left. `dump_restore_add_node` answers `NGX_ERROR` for such
a record (`dump.c:269`), which ends the restore (`dump.c:427`): all that lies behind it is lost,
however whole the dump was. `ReadKey` does so, and `WriteNode` takes back what the dump under
way has promised of the keys that it has not written before (`Promised`). Since several nodes may
have the same bytes, and the first record wins, a dump promises the least of their counters
(`Fewest`). `logged`, `taking`, `saved` and `owed` go by stems.

### StatusDisplay, VtsControl and StatusRequests

State: `tree` (keys linked), `pc` of the request, `format`, `reserved` (nodes the buffer
has a share for), `added` and `raced` (what happened to the tree since it was sized, or
while), `reply`. `VtsControl` adds `count` (the request counter of a key) and `args`.

| Code | Action or operator |
|---|---|
| `display_handler`: method, last segment of the path | `Request` with `Refused`, `IsControl`; `StatusRequests` lets the same worker answer both |
| `display_handler_default`: the format in the path | `FormatOf` |
| `display_get_size`, with `shm_info` unlocked | `GetSize`: any count, if the tree changed under the walk |
| buffer not allocated | `NoBuffer` |
| `display_set`, `display_prometheus_set`, under the mutex | `FillJson`, `FillPrometheus` over `StatusJson`, `StatusProm` |
| HTML | `FillHtml` |
| other workers | `AddNode`, `RemoveNode`, `Log` |
| `display_handler_control`: arguments | `Args`, `Group`, `Command`, `Zone` in `Request` |
| `node_status`, `node_delete`, `node_reset` | `Status`, `Delete`, `Reset` over `NodeStatus`, `NodeDelete`, `NodeReset` |
| unknown command, refused arguments, no memory | `Refuse`, `NoReply` |

A walk of the red-black tree visits the nodes in an order that depends on hashes and
history: any permutation here. One allocation of the request's pool may fail; `oom` says
which. A text is the tokens a JSON parser or a scraper tells apart, so `buf--` drops the
token that the code drops. A name in a text is written as the code passes it: the key of a server
with its separator, the name of a filter escaped, so a reader can ask whether the
brackets nest (`Nested`) and whether every name is a string, too (`WellFormed`). Sizes are counted
in shares: `get_size` reserves the same number of bytes for each node that it counts
(`display.c:530`: 417 words of 20 digits and 1024 for names, 9364 in the build), whatever the node prints. How much that
is depends on the name and, on a Prometheus page, on the buckets, each of which repeats the name;
an upstream or filter node with 32 of them can print more than its share, so that a
page may leave its buffer although every node was counted. That is not modelled. The failing
copy of the argument `zone` is left out.

### RequestKeys, LimitTraffic, SetByFilter and RequestPhases

`LimitTraffic` has the zone as `tree` and `stat` and several workers with a request, the
array it asks next, and the keys left to log; `spent`, `owed`, `seen` and `cut` are
history. `SetByFilter` has the memory of nodes, since its lookup is not protected: `mem`
also holds freed nodes, and `change` is the change another worker is in the middle of.

| Code | Action |
|---|---|
| `limit_handler`: flags, the four arrays | `Arrive`, `LimitArray` (one array, under the mutex) |
| `limit_handler_traffic`: a rule | `Evaluated`, `Over`, `Traffic` |
| content, then `handler` in the log phase | `Serve`, `LogKey`, `LogDone` |
| `node_reset_all` | `Reset` |
| `set_by_filter_variables`, a variable | `Start`, `Abandon` (a text that cannot be evaluated) |
| `set_by_filter_init`, the lookup of `set_by_filter_node` | `Find` with `Parse`, `Cached`, `Walk` |
| the rest of it, `set_by_filter_node_member` | `Read` with `Member`, `UpstreamCount` |
| an exhausted pool; a fault of the walk | `PoolExhausted`; `WalkFaults`, after which nginx starts another worker |
| other workers | `Log`, `InsertBegin`/`End`, `RemoveBegin`/`End`; `LogCached` is the same worker |

`Walk` gives any outcome an unlocked walk next to a change of the tree can have: the
node, nothing, or a node half inserted. Each limit directive is run through
`LimitRules` (defaults, bad sizes, codes, placeholders in keys) before a request meets it.

### VtsConf, VtsZone and Configuration

`VtsConf`: `conf` (slots and arrays of rules of every block), `ctx` (the main
configuration), and the parser's position. A directive is an action: `SetSlot` for every
flag and scalar of the command table, `AverageMethod`, `HistogramBuckets`, `AddRule` (the
four directives that append), `Zone`, `Dump`, `FilterMaxNode`; `Open` and `Close` are
nginx's, `InitMain` is `init_main_conf` and `Merge` is `merge_loc_conf` of one block. `UniqueRules`
sorts by the difference of 32-bit hashes, which is no order: `Sorted` gives all outcomes.

`VtsZone`: the zones of the running and of the next configuration, the tree of each, and
the pools of memory that are allocated. `Read`, `Parsed`, `TakeOver`, `Reject` and `Stop`
are nginx's cycle; `Zone` and `InitZone` are the module's. A reload is any sequence of
names and sizes. The two meet in the directive `zone` only, so `Configuration` explores a
file for one of three subjects at a time, its zones, its rules or its scalar slots: their product
would multiply the states and show nothing that one of them does not.

### HostText, HostStats, LiveSessions and CollectorScrape

A line is a sequence of words; a number is the word `<<"n", row, column, time>>`, so that a
sample that takes the neighbouring column or the line before is a different value. A name in
which some code looks for a pattern is a sequence of parts. `HostText` has one operator
for each collector, with the fields that its `sscanf` format assigns (`Scan`, `Fields`) and
those that keep the value of the line before. In `HostStats` each collector is one step,
as one read of a proc file is atomic; `ReadMounts`, `StatMount` and `MountsDone` are apart,
since mounts change between a line and its `statvfs`. `Tick` lets time pass and one disk, interface
or mount come or go. `LiveSessions` has a step for each check, open and read, with `Spawn`,
`Exit` and `Age` between any two: `Pidof`, `Check`, `CmdlineStat`, `CmdlineRead`, `IoStat`,
`IoOpen`, `IoRead`, `CpuUtilization`, `MemoryUtilization`, `ListDone`.

What is abstracted: no text contains a conversion character; at most ten processors; help
lines of the collectors; interface names of one letter; a process identifier is not used again; the search for encoders is
itself listed and gone by the time it is looked at; `statvfs` of an unmounted point gives
the file system around it or fails.

## 3. What the runs check

`CHECK_DEADLOCK FALSE` stands in the `VtsShm` and `VtsDump` runs only, whose bounds on
requests, controls, stops, restarts and crashes stop the system.

| Run | Instance | Shows |
|---|---|---|
| `zone_base` | 2 workers, a server and 2 filter keys, 2 slots, 1 filter node allowed, 3 requests, a control command, a crash, 2 clock values | `TypeOK`, `Mutex`, `NeverOvercounts`, `ExactUntilRemoval`, and that the zone implements `StatStore` |
| `zone_collide` | 2 workers, 3 filter keys of which two share hash 0 and one is too long, 3 slots, 2 filter nodes allowed, 2 exhausted pools | `UniqueNodes`, `SlabAccounted`, `FilterBound` under collisions, truncated lengths and memory errors |
| `zone_live` | 2 workers, server and upstream keys, a crash, no pool exhausted | `LogCompletes` |
| `node_wrap` | width 4, ring of 4, two kinds of requests, 6 requests, a reset, a clock of three values | the node's totals, histograms, averages and the sliding window |
| `dump_restart` | 2 workers, a key of one byte, one that is cut to it and one that is cut to nothing, 1 request per key, a death, 2 orderly exits, a restart, period 0, 2 clock values | `GracefulExact`, `RestartKeeps`, `NoInvention` |
| `dump_faults` | 2 workers, keys of 1 and 2 cells, a slab of one node, a removal, one failing open, write or lock, no death | `TypeOK`, `RestartKeeps`, `NoInvention` |
| `dump_live` | 2 workers, one key, a death, a failure, 2 exits | `DumpCompletes`, `DumpHappens` |
| `status_replies` | 7 keys of every kind of which 3 at a time, 3 upstream blocks, pages in every format, control arguments of 8 groups and 8 zones, 1 change under a request, one failing allocation | `JsonNests`, `PrometheusComplete`, `RepliesShow`, `RepliesCounted`, `ControlSelects` |
| `status_json` | the same | `PagesParse` is violated, see 4 |
| `request_phases` | limits: 2 workers, 4 requests, counters modulo 8, a rule or two in each of the four arrays, a failure or reset; rules: 4 lists, 5 keys, 2 pieces of memory, 3 changes | `RefusedWhenOver`, `SetValueOfKey`, `SetWhenKnown` |
| `configuration` | zones: 2 names, 2 sizes, up to 2 in a file, 5 pools; rules and slots: http, a server and a location, up to 4 rule or 3 scalar directives | `TypeOK`, `PoolsHeld`, `TreeInZone`, `ReloadKeepsTree`, `RulesKeptOnce`, `NearestWins` |
| `collector_scrape` | one disk, interface and mount that come and go among those that stay, 4 combinations of unreadable files, 3 encoders | `SamplesOwn`, `SamplesOnce`, `ScrapeEnds` |

The properties, and why they could fail:

- `UniqueNodes`: a cache answer by hash alone must not hide a key's own node, and two
  workers must not both insert. Keys of 256 bytes and more are excepted: `vtsn->len`
  is a byte, so no lookup finds them and every cache miss inserts another node.
- `SlabAccounted`: a chunk that is allocated and not linked belongs to an insertion in
  progress; only a death in between leaks one.
- `FilterBound`: `find_lru` runs before the insertion in the same critical section.
  When its request pool is exhausted it evicts nothing and the insertion goes on, so
  every exhausted pool may cost one node more: the bound is `filter_max_node + oom`.
- `NeverOvercounts`, `ExactUntilRemoval`: a cache still pointing at an evicted or
  deleted node is believed as long as the hash matches. A request may then be counted
  on freed memory and be lost, but no other key ever gains it, if crc32 tells the keys
  apart; and nothing is lost before the first removal.
- `ImplementsStatStore`: each step is, to a reader under the mutex, one counted
  request, one created key, one evicted filter key, one delete or reset, or nothing.
- `LogCompletes`: with the worker in the section running on (weak fairness of
  `AddNode`) and a spin lock that does not starve (strong fairness of `AddLock`),
  every request finishes, over deaths inside the section. `MaxOom` is 0 there: with an
  exhausted slab and an exhausted pool, `shm_add_node` returns at `shm.c:133` without
  unlocking, and everyone waits until that worker dies. `zone_collide` has that step.
- `TotalsExact`: `counter + Modulus * oc` is the sum of what was logged. `node_zero`
  zeroes the overflow counter of the response time and not the counter, so after a
  reset the response time is excepted.
- `HistogramConsistent`: the first request of a node is not observed in its request
  histogram, later ones are; buckets stay cumulative and within the count.
- `RearIsNewest`, `AveragesRecent`, `ImplementsWindow`: at every rotation of the ring,
  with a clock that may step back, insertion, averages and the LRU comparison agree
  on what the ring holds.

- `GracefulExact`: exiting workers truncate the file under each other's dumps, because
  the open comes before the lock (`dump.c:196`, `:208`). All opens of a stop still come
  before the last lock, the last locker writes from the start of the file, and nobody
  logs any more when it walks, so after an orderly stop the file is the zone exactly, but for what
  the walk met behind a node whose key is cut to no bytes.
  A dump that minded the period like the timer's would lose the last requests.
- `RestartKeeps`: a dump that got the lock, was neither truncated, upset nor cut short,
  and was not written over since, comes back: the first record of a key wins over
  whatever remains behind it of an older, longer dump. What was behind a record without key bytes
  does not come back and is not owed. A walk that the tree moved under, and a dump with a failed
  write, owe nothing either: of those it only says that they do no harm to what others owe. Between the opening of one dump
  and the end of the next the file owes nothing: a death there loses it, which the model
  shows and the code accepts.
- `NoInvention`: a worker that replaces a dead one restores the file into a zone in use,
  where nodes that exist must win; deleted nodes do come back. Three overlaps are excepted
  (`disturbed`), because the cells of one key can then follow the node of another:
  opening the file while another dumps or restores, a removal under a walk, a failed
  write or lock.
- `TypeOK` of `VtsDump` says that restoring stops when the slab is full.
- `DumpCompletes`, `DumpHappens`: the lock is released on every path, and a file that is
  empty, unreadable or from the future is out of date.

- `JsonNests`, `RepliesShow`: every section ends with a `buf--` that must meet a
  comma, for every mix of empty and filled sections; filters are collected by one walk for
  the names and one for each name, sorted in between, into an array that must be emptied.
  `RepliesShow` asks the same of the status of a command, with the nodes that its arguments
  name (`StatusShowsSelected`). Neither says that a text can be parsed, which it cannot (see 4):
  they are about its structure and about which names it holds. They except a zone without a server node
  and a failed allocation, where the code keeps neither.
- `PrometheusComplete`: a section writes its help lines first and takes them back if no node
  follows; a family is declared once and before its samples. The collectors are asked one
  after the other what they would add, and stop at the first that `metrics_size` has no room
  for.
- `RepliesCounted`: pages and statuses show addresses of upstreams that have no node, which are
  to be counted apart; what was added after the sizing is counted against the text, so that
  by so many nodes a buffer may be too short. It is about shares, not bytes (see 2). A sizing walk that the tree changed under, and a
  page without a server node, are excepted.
- `ControlSelects`: the arguments are parsed by three functions of which each looks at a
  part; the names of a zone are written with placeholders; a delete of a group goes through
  an array that may fail to grow.
- `RefusedWhenOver`: the four arrays are asked one after the other while other workers
  log. A request is refused if its server or client was over a limit all the while, with the
  code of the first such rule or an earlier one, and only if it was over one at some time. It excepts
  a reset, a counter that has wrapped, and a text that cannot be evaluated.
- `SetValueOfKey`, `SetWhenKnown`: a cache may point at a freed node, a walk may meet a
  change, and the count of found upstreams is carried from rule to rule. They except rules
  whose walk met a change, and values once a node was removed: a stale cache is believed.
- `TreeInZone`, `PoolsHeld`, `ReloadKeepsTree`: the one main configuration is the data of every zone
  it names; the tree is that of the last one initialised. They except configurations that
  name several zones (`several`), where the tree and the mutex that guards it may part.
- `RulesKeptOnce`: the order of hashes is circular, hash 0 is what the pass starts from, and
  the check runs at three levels under flags of three blocks. One of each hash is claimed where
  comparing is an order: the hashes do not go round the circle, and none are exactly half of it
  apart, since then neither is above the other and equal hashes may stay apart between them.
  No rule is lost unless its hash is 0.
- `NearestWins`: a value skips blocks without one; the flags of the checks for duplicates
  come from the http block where a block has rules.
- `SamplesOwn`, `SamplesOnce`: each parser keeps state from one line to the next; a process or
  mount may be gone when it is read. They except values of processes that have exited, which
  are what happened to be in a variable, of a process younger than a second (a division by
  zero seconds), of a mount that went, and the two families of free space (see 4).
- `ScrapeEnds`: the list shrinks on every path. It allows the spin after an exit between the open and the
  read of a file (`ngx_util.c:222`), which holds the mutex for good.

**Bounds.** Two workers suffice for every race at one mutex; the third role, the
control command, is played by either. Two slots and three keys make slots be reused
for other keys while caches point at them. Three requests of up to two adds give six
critical sections, enough for evict, reuse, and a hit on the stale cache. Six requests
turn a ring of four around one and a half times and wrap counters of width four several
times. Symmetry permutes workers and slots, which no definition tells apart; it is not
used in the liveness run. For the dump, two workers are the one that dumps and the one
that truncates, dumps or restores meanwhile; keys of different lengths (`dump_faults`) make their records
misalign; two keys with one stem and one whose record ends a restore, in every order of a walk
(`dump_restart`), are the three things that cutting a length to a byte does; one request per key makes any counter that is added twice exceed what was
logged; two exits end the life of both workers, and one restart reads the result. For a page
three nodes make every mix of empty, single and shared sections, filters with two nodes
included. Counters modulo 8 pass sizes of 2 to 5 and wrap within four requests of two bytes. Two
pieces of memory and three changes free a node and give its memory to another key under a
request. Three blocks are the least in which a value skips one; four rules hold a pair of one
hash, two that are half the circle of 8 apart and three that go round it. Three encoders are one in hand, one behind it
and one that starts late.

**Fairness.** A worker in `shm_add_node` makes no blocking call, so it runs on: weak
fairness of `AddNode`. `ngx_shmtx_lock` spins with back-off and then yields or waits on
a semaphore; it is not a fair lock, but a worker that keeps trying while the mutex
becomes free again and again gets it: strong fairness of `AddLock`. Nothing else is
fair: requests, commands, deaths and the clock need not happen. In `VtsDump` a worker that
dumps or restores runs on and its timer is rearmed on every path (`dump.c:252`): weak
fairness of `Dump` and `Restore`. `fcntl` queues those that wait for the file lock: strong
fairness of `Lock`. That a worker starts, stops or dies is not fair. The collector of live
sessions is one function that runs through without a wait: weak fairness of `Collect`, none of
what processes do.

## 4. Where the code does not do what it says

`status_json` violates `PagesParse`: `display_set_server_node` prints the key of a server as it is,
`NO`, the separator 0x1f and the name (`display_json.c:120-121`; the escaped copy is for the build
with cache statistics), so every page of a zone that holds a server has a control character within
a string, while `display.c:362` announces `application/json` and the status page of `share/`
calls `JSON.parse` (`status.template.html:828`). The run finds the page of a zone with one server.
The name of a filter node is printed raw by the same function.

While modelling, more was met, each confirmed by a small configuration that is not kept:

- `display_json.c:812`: `buf--` after `serverZones` is unconditional, so a page without a server
  node loses the brace that opens the section and does not even nest.
- `control.c:301`: a status of an existing zone without a group passes the switch, and the reply is
  a `{` alone.
- `dump.c:269`: one node whose key has 256 bytes ends the restore, and what was dumped behind it is
  lost.
- `display.c:530`: the share of a node in the buffer does not depend on its name or buckets, see 2;
  read off the code, since no model here counts bytes.
- `display_json.c:325`: the array is to be destroyed "to prevent duplication", but is not when
  `get_nodes` fails half way; its nodes are shown under the next filter.
- `ngx_metric_collect_disk_utilization_info.h:26`: "space available to non-root users" is
  given `f_bfree` (`.c:47`, `:58`), and the free space `f_favail`, a number of file nodes,
  times the block size.
- `ngx_metric_collect_disk_stats.h:51`, `:54`: families in bytes and seconds are given
  sectors and milliseconds.
- `ngx_metric_collect_disk_utilization_info.c:6`: the alternative file is not reached when the
  first cannot be opened: the comparison is of NULL.
- `ngx_metric_collect_live_session_stats.c:170`, `:455`: the command that is to be skipped ends
  the listing.

## 5. What is proved

All theorems hold for every value of the constants under the named assumptions of the
modules. These say what the build or nginx fixes: model values are distinct; the bytes of a key that a dump
holds spell a key, which they are the whole of (`KeyAssumption`; their number may be 0); upstreams and names come as arrays (`ListsAssumption`),
lengths and bucket counts as numbers (`LensAssumption`, `BucketsAssumption`); keys and slots are
finite; a request logs a non-empty sequence of keys and adds less than a counter's width; a limit
has passed the checks of its directive and no two names make one key (`LimitsAssumption`,
`KeysAssumption`); a name holds no placeholder for a character (`NamesAssumption`) and, on a status page, is not empty; an argument
holds no control character (`ZonesAssumption`); a block is inside one opened before it (`BlocksAssumption`); a hash is a number
of its width (`RulesAssumption`). One is stronger than the code: `HashAssumption` gives the keys
that the set directive looks up different checksums. The same condition is a premise of
the counting properties of `VtsShm`, and `UniqueNodes` is proved without it.

**The zone.** `VtsShmProofs`: `TypeCorrect`, `MutualExclusion`, `OneNodePerKey`,
`SlabMatchesTree`. `TypeOK` is inductive only with `HasKey` and `HasSlot` (a worker
inside has a key to add and, before the insertion, a slot). `UniqueNodes` needs
`HashInv` (a linked node carries the hash of its key, so a lookup by hash and bytes
finds it) and `PendingInv` (between find and insert nobody links the key), the latter
from `Mutex`. `FilterNodesBounded` rests on `Room`: past the eviction, a worker inside has room
for one more. `CountersBounded` and `CountersExact` rest on the structural invariant: with an
injective hash a cache hit on a linked node is a hit on the key's own node.
`ZoneImplementsStore`: without keys of 256 bytes and more every
step of `VtsShm` is a step or a stutter of `StatStore`.

**A node.** `VtsNodeProofs`: `TotalsAreExact`, `RearAlwaysNewest`, `HistogramsConsistent`,
`AveragesAreRecent`, `TypeCorrect`, `QueuesImplementWindow`. The invariant is that queues are
always full (`Full`): then neither half of an insertion fails and taking an average restarts
nothing, so `Show` stutters (`ShowKeeps`). `AddWraps` is the arithmetic of `add_oc`: adding less
than a modulus and comparing finds every wrap. A bucket stays at least as full as a smaller one
since both count the same samples from the same start, which is zero whatever memory held. Both
averages are folds over the ring. A fold is a recursive function over the subsets of the positions;
`Induction` shows what it is: the sum, in whatever order elements are taken out (`TakesSum`), and two
sums over an interval that run in opposite directions are one (`SumReversed`), so the walk from
`rear` around the ring gives the sum over the history backwards. With it go the weights, whose sum is
`n (n + 1) / 2` (`SumBelow`), and the type of the stored averages.

**The dump.** `VtsDumpProofs`: `TypeCorrect`, with the bound of the slab, is inductive only with
two facts about records: a node's cell in the file names a key (`Cells`), and a worker
half way through a record has one in hand (`KeyInHand`); otherwise a restore would
measure the length of a key that is none. `GracefulIsExact` needs that without errors the file lock
excludes, and that what a worker promises that dumps while all others are gone is the zone, less what
a record without key bytes cuts off (`Graceful`). `NothingInvented` needs what each cell and each worker in the middle of one is
(`CellSound`, `PlaceSound`): a node's cell has a number logged under its key's bytes and is followed by these or by
the end. `RestartBringsBack` is the longest: `Taking` says of a dump under way that the records behind it, each with key bytes, hold every key
it has passed and promises, `Saved` that the file holds a set of records, one behind another from the
header (`Holds`), that covers what is saved, and that until a first worker is up every
restoring worker is yet to come to each of them or the zone has them (`Coming`); `Owed` carries it
into the zone. The room in the slab is that all keys of the records were in it together.

**Limits and the set directive.** `RequestPhasesProofs`: `RefusesTheRight`: `LimitInv` ties the
node of a subject to what its requests logged (`Counted`, modulo the width), keeps every limit that was
used up when the request came ahead of the array asked next (`Waiting`), and what was answered to a
limit that was seen over (`Answered`). `ValuesOfKeys` and `KnownAreSet` rest on `SetInv`:
`ZoneInv` for the memory that the lookup reads without the mutex (a slot with a hash holds a
node of a key; until a removal its counter is one that was noted; a key that stayed is linked), and
`RulesInv` for the rules answered so far and the one in hand. The lemmas in between are about texts: a
rule asks for the key that `Parse` makes of it, through both replacements of placeholders.

**Configuration.** `VtsZoneProofs`: `TypeCorrect`, `PoolsHeldAlways`, `TreeInZoneAlways`,
`ReloadKeepsTreeAlways`, over any number of names, sizes, zones and reloads. The invariant
`IInv` adds to the properties what each phase of the master says of the two
configurations (`Phases`), that the zones that run have memory (`Allocated`), that with one zone
the tree is in its memory (`One`), and that the next tree is the running one from the
moment its zone is given the old memory (`KeptTree`). `ConfigurationProofs`:
`RulesKeptAlways`, `NearestAlways`, for any nesting of the blocks. The first half is about sorting:
where comparing is an order, neighbours in order are all in order (`SortedAll`), so equal
hashes are neighbours and one of them is kept (`UniqueOnce`); without an order still none is lost
(`UniqueKeeps`). The second is about the merge: blocks are merged in the order of the file, so a
parent before its children (`ParentMerged`); `ConfInv` says of the blocks merged so far that each
array and slot is what the nearest block gives (`RulesMerged`, `SlotsMerged`), and of the others
that they are as given (`AsGiven`). An attempt to prove `EachOnce` under
transitivity alone failed for hashes half the circle apart; TLC shows the counterexample once the
instance has such a pair, and `Comparable` asks for totality since.

**The status page.** `StatusProofs`: `JsonAlwaysNests`, `PrometheusIsComplete`, `ControlAlwaysSelects`.
The invariant is that a page is what
`DisplaySet` or `PrometheusSet` makes of some tree in some order (`PageInv`), so the work is about these operators. `JsonAlwaysNests` is about brackets, commas and where names stand, and
says nothing of what the names hold. A reader of JSON is a fold over the tokens; `At` says of a text that the reader gets through it, and
with which brackets open (`ReadBack` ties it to the fold of the property), and an item of a list is
read from one place where it may stand to the next (`Items`). A lemma for each helper of
`display_json.c` says what it appends; the loops over nodes, addresses, filters and
upstreams are inductions over their length (`ServerFold`, `FiltersFold`, `GroupsFold`). A section is
a list whose closing bracket replaces a comma, and an empty section takes its opening back
(`ListClosed`), which is right because something stands before it: the servers, which is where the premise
that the zone holds one is used.

A Prometheus page is a sequence of lines of which the property looks at two things: which families
are declared before their samples (`Declares`), and which nodes the samples of one family name
(`Shown`). Both go through concatenation (`SamplesBehind`, `ShownBehind`), so a section is right when
the lines of each node are (`ServerPiece`, `FilterPiece`, `UpstreamPiece`) and when it takes its help
lines back exactly if it showed no node (`Filled`, `Taken`). Sections do not see each other because
their families differ (`FamsApart`). `CollectorsAppended` is the fold over the collectors: what has
been written is the first few of those turned on, and within the budget.

For the commands, the zone of an argument is rewritten character by character on its way in
(`Inward`), and `OutAndIn` shows that this undoes how the interface writes a name, so that the key
that is built is that of the node named (`NamedByZone`, `RangeSelects`). `DeleteHits` and `ResetHits`
say that what a command affects is what its arguments name or nothing, and `ControlInv` that a
request answers once and has done nothing before. `NamesAssumption` is what that takes: a name
that contains the placeholder `[:alpha:]` itself cannot be asked for, and `*` stands for the group
and names no single node.

**Only model-checked.** Liveness, which is out of the prover's reach: `LogCompletes`,
`DumpCompletes`, `DumpHappens`, `ScrapeEnds`. The pages and commands:
`RepliesShow` and `RepliesCounted` count what a text names, node by node, over nested folds and a sorted
list of filters, and compare the count with the configuration. The collectors: `SamplesOwn`,
`SamplesOnce`, whose parsers are folds over the lines of a file, each with a state of its own. `VtsShm` and `VtsNode` have no proof about a tree's shape or a
hash function, which they do not model.

## 6. Plan

Done: models of every component but those of section 7; proofs about the zone and its abstract
store, nodes, dump and restore, limits, the set directive, status pages and commands, the configuration and zones over
reloads. Left:

1. Proofs: that a reply shows what it owes (`RepliesShow`) and was sized for it (`RepliesCounted`), with `Shown` of
   the Prometheus proof carried over to tokens; that a sample is of the process that carries its
   key (`SamplesOwn`).
2. A red-black tree with a shape, to replace the free outcomes of the walks without a mutex
   (`SetByFilter.Walk`, `VtsDump.Upset`, `StatusDisplay.GetSize`).
3. Restoring under `filter_max_node`: a restore inserts without the check.
4. The second half of a page's text: lengths in bytes instead of shares, and with them
   `display.c:530`.

## 7. Not modelled, and why

- The RTMP collector: `ngx_metric_collect_rtmp_stats.c` defines it and nothing calls it; the
  directive is accepted (`VtsConf`) and `display_prometheus_set` has no branch for it.
- The HTML page: `module_html.h` is one generated string literal of 8078 lines, `share/` its
  source; what its script expects of the JSON page is in `PagesParse`.
- The cache group `CC`: compiled out (`CACHE_STATS` 0), its keys are never added. The sum row: `ADD_SUM_ALL` is 0.
- Helpers that nothing calls: trimming and replacing in `ngx_util.c`, the first functions of
  `ngx_metric_collect_live_session_stats.c` (lines 20-61 and 86-108).
- Formatting, logging and layout, wherever no property is about them.
- The red-black tree and the slab are nginx's: the first is the set of its nodes, the second a set
  of chunks of one size. The memory of a zone over reloads is nginx's too, and in the map it is external.
