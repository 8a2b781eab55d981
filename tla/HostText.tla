------------------------------ MODULE HostText ------------------------------
(***************************************************************************)
(* The collectors of host metrics: what each makes of the files of /proc   *)
(* that it reads.  A file is a sequence of lines, a line one of words and  *)
(* a word one of tokens, so that code can look at the parts of it; a       *)
(* number is one token.  The text is a sequence of samples, each with its  *)
(* family, labels and value; help lines are left out.                      *)
(***************************************************************************)
EXTENDS Integers, Sequences, FiniteSets, SequencesExt

CONSTANTS
  Numbers,     \* the tokens that are numbers
  ShortNames   \* the names of one letter

\* str_split by the end of line.  strtok passes over empty lines, but they count for the
\* length: as many NULLs, lines without words here, stand at the end.
StrSplit(content) ==
  SelectSeq(content, LAMBDA line : line # <<>>) \o SelectSeq(content, LAMBDA line : line = <<>>)

StartWith(word, token) == word # <<>> /\ word[1] = token
Numeric(word) == word # <<>> /\ word[1] \in Numbers
Digits(word) == SelectSeq(word, LAMBDA token : token \in Numbers)
Unwritten == <<"unwritten">>

\* sscanf of words and numbers: how many it converts, and what the variables hold then.
Fields(line, kinds) ==
  Cardinality({i \in DOMAIN kinds :
    i <= Len(line) /\ \A j \in 1 .. i : kinds[j] = "n" => Numeric(line[j])})
Scan(vars, line, kinds) ==
  [i \in DOMAIN kinds |-> IF i <= Fields(line, kinds) THEN line[i] ELSE vars[i]]
Kinds(pattern, n) == pattern \o [i \in 1 .. n |-> "n"]

Sample(fam, labels, value) == [fam |-> fam, labels |-> labels, value |-> value]
Samples(fams, labels, values) == [i \in DOMAIN fams |-> Sample(fams[i], labels, values[i])]

\* CPU_PROM_FMT, in hundredths of seconds.  The line without a number is the sum.
Modes == <<"user", "nice", "system", "idle", "iowait", "irq", "softirq">>
ParseCpuStats(line) ==
  LET vars == Scan([i \in 1 .. 8 |-> Unwritten], line, Kinds(<<"s">>, 7))
      cpu == Digits(vars[1])
  IN IF cpu = <<>> THEN <<>>
     ELSE [m \in DOMAIN Modes |->
             Sample("cpu_seconds_total", <<cpu, <<Modes[m]>>>>, vars[m + 1])]
CpuStats(content) ==
  <<Sample("cpu_cores_total", <<>>, <<"cores">>)>>
    \o FlattenSeq([i \in DOMAIN StrSplit(content) |->
         IF StartWith(StrSplit(content)[i][1], "cpu") THEN ParseCpuStats(StrSplit(content)[i])
         ELSE <<>>])

\* Parentheses and the colon leave the name; kbytes become bytes.
MemKey(key) ==
  SelectSeq([i \in DOMAIN key |-> IF key[i] = "(" THEN "_" ELSE key[i]],
            LAMBDA token : token \notin {")", ":"})
MemInfo(content) ==
  FoldLeft(LAMBDA acc, line :
             LET vars == Scan(acc.vars, line, <<"s", "n">>)
                 key == MemKey(vars[1])
             IN [vars |-> <<key, vars[2]>>,
                 text |-> Append(acc.text, Sample("memory_bytes", <<key>>, vars[2] \o <<"*1024">>))],
           [vars |-> <<<<>>, Unwritten>>, text |-> <<>>], StrSplit(content)).text

\* oom_kill, pgpg.., pswp.. and pg..fault
MatchVm(key) ==
  \/ StartWith(key, "pg") /\ Last(key) = "fault"
  \/ key[1] \in {"pswp", "pgpg"}
  \/ key = <<"oom_kill">>
VmStats(content) ==
  FoldLeft(LAMBDA acc, line :
             LET vars == Scan(acc.vars, line, <<"s", "n">>)
             IN [vars |-> vars,
                 text |-> IF MatchVm(vars[1])
                          THEN Append(acc.text, Sample("vmstat", <<vars[1]>>, vars[2]))
                          ELSE acc.text],
           [vars |-> <<<<>>, Unwritten>>, text |-> <<>>], StrSplit(content)).text

\* The names that are shown of each protocol; the first tokens of some stand for all.
Wanted ==
  [TcpExt |-> {"Listen", "Syncookies", "TCPSynRetrans", "InErrors"},
   IpExt |-> {"InOctets", "OutOctets"},
   Ip |-> {"Forwarding"},
   Icmp |-> {"InErrors", "InMsgs", "OutMsgs"},
   Tcp |-> {"ActiveOpens", "InSegs", "OutSegs", "PassiveOpens", "RetransSegs", "CurrEstab",
            "InErrors", "InErrs"},
   Udp |-> {"InErrors", "InDatagrams", "NoPortss", "OutDatagrams"},
   UdpLite |-> {"InErrors"}]
Match(proto, name) ==
  IF name[1] \in {"Listen", "Syncookies"} THEN proto = "TcpExt"
  ELSE Len(name) = 1 /\ name[1] \in Wanted[proto]

\* Mutant: the values are those of the next column.
ParseKeyValueShifted(proto, names, values) ==
  FlattenSeq([i \in 1 .. Len(names) - 1 |->
    IF i > 1 /\ i + 1 <= Len(values) /\ Match(proto, names[i])
    THEN <<Sample("netstat", <<<<proto>>, names[i]>>, values[i + 1])>> ELSE <<>>])

\* A line of names and one of values, column by column.
ParseKeyValue(proto, names, values) ==
  FlattenSeq([i \in DOMAIN names |->
    IF i > 1 /\ i <= Len(values) /\ Match(proto, names[i])
    THEN <<Sample("netstat", <<<<proto>>, names[i]>>, values[i])>> ELSE <<>>])

\* Lines are taken in pairs; a name line may be the last.
ReadNetStat(content) ==
  LET lines == StrSplit(content)
  IN FlattenSeq([i \in DOMAIN lines |->
       IF i % 2 = 0 \/ i = Len(lines) \/ lines[i][1][1] \notin DOMAIN Wanted THEN <<>>
       ELSE ParseKeyValue(lines[i][1][1], lines[i], lines[i + 1])])

\* METRIC_DISK_READ_FMT, WRITE_FMT and IO_FMT, for whole disks.
DiskFamilies ==
  <<"reads_completed_total", "reads_merged_total", "read_bytes_total", "read_time_seconds_total",
    "writes_completed_total", "writes_merged_total", "written_bytes_total",
    "write_time_seconds_total", "io_now", "io_time_seconds_total",
    "io_time_weighted_seconds_total">>
IsDiskDevice(name) == name[1] \in {"sd", "hd", "vd", "xvd"}
NameNotContainNumber(name) == Digits(name) = <<>>
DiskKinds == Kinds(<<"n", "n", "s">>, 11)
DiskStats(content) ==
  FlattenSeq([i \in DOMAIN StrSplit(content) |->
    LET line == StrSplit(content)[i]
    IN IF Fields(line, DiskKinds) = 14 /\ IsDiskDevice(line[3]) /\ NameNotContainNumber(line[3])
       THEN Samples(DiskFamilies, <<line[3]>>, SubSeq(line, 4, 14))
       ELSE <<>>])

\* NETDEV_STATS_FMT, without the two title lines.  The colon goes with the last
\* character of a name, unless the name has one letter.
NetdevFamilies ==
  <<"receive_bytes", "receive_packets", "receive_errs", "receive_drop", "receive_fifo",
    "receive_frame", "receive_compressed", "receive_multicast", "transmit_bytes",
    "transmit_packets", "transmit_errs", "transmit_drop", "transmit_fifo", "transmit_colls",
    "transmit_carrier", "transmit_compressed">>
IfName(word) == IF word[1] \in ShortNames THEN word ELSE Front(word)
NetdevStats(content) ==
  FlattenSeq([i \in DOMAIN StrSplit(content) |->
    LET line == StrSplit(content)[i]
    IN IF i > 2 /\ Fields(line, Kinds(<<"s">>, 16)) = 17
       THEN Samples(NetdevFamilies, <<IfName(line[1])>>, SubSeq(line, 2, 17))
       ELSE <<>>])

IgnoredFsTypes ==
  {"autofs", "binfmt_misc", "bpf", "cgroup", "configfs", "debugfs", "devpts", "devtmpfs",
   "fusectl", "hugetlbfs", "iso9660", "mqueue", "nsfs", "overlay", "proc", "procfs", "pstore",
   "rpc_pipefs", "securityfs", "selinuxfs", "squashfs", "sysfs", "tracefs"}
IgnoredMountPoints == {"/dev", "/proc", "/sys", "/var/lib", "/home/kubernetes"}
Shown(mount, fs) == mount[1] \notin IgnoredMountPoints /\ fs[1] \notin IgnoredFsTypes

\* CPU_DISK_UTILIZATION_INFO_FORMAT, and what it is given of statvfs.
UtilizationFamilies ==
  <<"size_bytes", "avail_bytes", "free_bytes", "files", "files_free", "files_avail">>
UtilizationValues(fs) ==
  <<Append(fs.blocks, "*bsize"), Append(fs.bfree, "*bsize"), Append(fs.favail, "*bsize"),
    fs.files, fs.ffree, fs.favail>>

\* READ_LINE_FORMAT: device, mount point, type and options; of the options the first.
MountLine(vars, line) == Scan(vars, line, <<"s", "s", "s", "s">>)

\* What a line of the mounts shows; fs is empty when statvfs fails.
MountText(vars, fs) ==
  LET labels == <<vars[1], vars[3], vars[2]>>
      readonly == IF StartWith(vars[4], "ro") THEN <<"1">> ELSE <<"0">>
      sizes == IF fs = {} THEN <<>>
               ELSE Samples(UtilizationFamilies, labels, UtilizationValues(CHOOSE v \in fs : TRUE))
                      \o <<Sample("readonly", labels, readonly)>>
  IN IF ~Shown(vars[2], vars[3]) THEN <<>>
     ELSE sizes \o <<Sample("device_error", labels, IF fs = {} THEN <<"1">> ELSE <<"0">>)>>

\* A call that fails leaves no text.
LoadAvg(loads) ==
  IF loads = <<>> THEN <<>> ELSE Samples(<<"load1", "load5", "load15">>, <<>>, loads)
UnameInfo(names) == IF names = <<>> THEN <<>> ELSE <<Sample("uname_info", names, <<"1">>)>>
=============================================================================
