----------------------------- MODULE HostStats -----------------------------
(***************************************************************************)
(* A scrape of the host collectors, one after the other, while the host    *)
(* goes on: counters advance, disks and interfaces come and go, a mounted  *)
(* file system is unmounted between the line that names it and the call    *)
(* that measures it.  One read of a file is one step.                      *)
(*                                                                         *)
(* A number is a word <<"n", row, column, time>>: what the kernel shows    *)
(* in that row and column of the file at that time.                        *)
(***************************************************************************)
EXTENDS HostText

CONSTANTS
  Things,      \* what may come and go
  DiskNames,   \* the block devices, in order; one that is not in Things stays
  IfNames,     \* the interfaces, in order
  Mounts,      \* the lines of the mounts: [device, mount, type, options]
  Cpus,        \* the names in /proc/stat, in order
  MemKeys,     \* MemKeys[i] = [raw, label]: a key of meminfo and how it is to be shown
  VmKeys,
  Protocols,   \* Protocols[file]: the pairs of lines, [proto, names]
  Fates,       \* what may become of the files: [file |-> "ok", "empty" or "unopened"]
  MaxTime

VARIABLES time, up, fates, pc, text, lines, scanned, since, steady

host == <<time, up, fates>>
vars == <<time, up, fates, pc, text, lines, scanned, since, steady>>

(* The files of the kernel, at a time and with what is up. *)

Number(row, col) == <<"n", row, col, time>>
Here(thing) == thing \notin Things \/ thing \in up
Numbered(row, cols) == [i \in DOMAIN cols |-> Number(row, cols[i])]
Words(names) == [i \in DOMAIN names |-> <<names[i]>>]

DiskColumns ==
  Words(<<"reads", "reads merged", "sectors read", "ms reading", "writes", "writes merged",
          "sectors written", "ms writing", "in progress", "ms of io", "weighted ms of io">>)
StatFile == [i \in DOMAIN Cpus |-> <<Cpus[i]>> \o Numbered(Cpus[i], Words(Modes))]
MemFile == [i \in DOMAIN MemKeys |-> <<MemKeys[i].raw, Number(MemKeys[i].label, <<"kB">>)>>]
VmFile == [i \in DOMAIN VmKeys |-> <<VmKeys[i], Number(VmKeys[i], <<"count">>)>>]
NetFile(file) ==
  FlattenSeq([i \in DOMAIN Protocols[file] |->
    LET p == Protocols[file][i]
    IN <<<<<<p.proto, ":">>>> \o p.names, <<<<p.proto, ":">>>> \o Numbered(<<p.proto>>, p.names)>>])
DiskFile ==
  LET present == SelectSeq(DiskNames, Here)
  IN [i \in DOMAIN present |->
        <<Number(present[i], <<"major">>), Number(present[i], <<"minor">>), present[i]>>
          \o Numbered(present[i], DiskColumns)]
NetdevFile ==
  LET present == SelectSeq(IfNames, Here)
  IN <<<<<<"Inter-|">>>>, <<<<"face">>>>>>
       \o [i \in DOMAIN present |->
             <<Append(present[i], ":")>> \o Numbered(present[i], Words(NetdevFamilies))]
MountsFile ==
  LET present == SelectSeq(Mounts, LAMBDA m : Here(m.device))
  IN [i \in DOMAIN present |->
        <<present[i].device, present[i].mount, present[i].type, present[i].options>>]

Measures == <<"blocks", "bfree", "bavail", "files", "ffree", "favail">>
Measure(device) ==
  [m \in {Measures[i] : i \in DOMAIN Measures} |-> Number(device, <<m>>)]

\* What statvfs may give of a mount point: the file system that is mounted there, or
\* else the one its directory lies in; or nothing, where it fails.
StatVfs(mount) ==
  LET there == {i \in DOMAIN Mounts : Mounts[i].mount = mount /\ Here(Mounts[i].device)}
      root == {i \in DOMAIN Mounts : Mounts[i].mount = <<"/">>}
  IN {{}} \cup {{Measure(Mounts[i].device)} : i \in IF there # {} THEN there ELSE root}

(* The files as the collectors read them. *)

\* NULL of a file that cannot be opened; the callers but two show nothing of it then.
Unopened(file) == fates[file] = "unopened"
ReadProcFile(file, content) == IF fates[file] = "ok" THEN content ELSE <<>>

Init ==
  /\ time = 0 /\ up \in SUBSET Things /\ fates \in Fates
  /\ pc = "idle" /\ text = <<>> /\ lines = <<>> /\ scanned = <<>>
  /\ since = 0 /\ steady = {}

Tick ==
  /\ time < MaxTime
  /\ time' = time + 1
  /\ up' \in {up} \cup {up \cup {thing} : thing \in Things} \cup {up \ {thing} : thing \in Things}
  /\ steady' = steady \cap up'
  /\ UNCHANGED <<fates, pc, text, lines, scanned, since>>

Scrape ==
  /\ pc = "idle"
  /\ pc' = "disk_utilization"
  /\ since' = time /\ steady' = up
  /\ UNCHANGED <<host, text, lines, scanned>>

\* The first file; the second in place of it when it is empty, but not when it cannot
\* be opened: the comparison with "" is of a NULL then.
ReadMounts ==
  /\ pc = "disk_utilization"
  /\ LET fallback == fates["1/mounts"] = "empty"
     IN IF Unopened("1/mounts") \/ (fallback /\ Unopened("mounts"))
        THEN pc' = "crashed" /\ UNCHANGED <<lines, scanned>>
        ELSE /\ pc' = "statvfs"
             /\ lines' = IF fallback THEN ReadProcFile("mounts", MountsFile)
                         ELSE StrSplit(MountsFile)
             /\ scanned' = [i \in 1 .. 4 |-> <<>>]
  /\ UNCHANGED <<host, text, since, steady>>

\* Mutant: a line whose mount point is measured keeps the device of the line before.
StatMountKeepsDevice ==
  /\ pc = "statvfs" /\ lines # <<>>
  /\ LET read == MountLine(scanned, lines[1])
         now == IF scanned[1] = <<>> THEN read ELSE [read EXCEPT ![1] = scanned[1]]
     IN \E fs \in StatVfs(now[2]) :
          /\ scanned' = now
          /\ text' = text \o MountText(now, fs)
  /\ lines' = Tail(lines)
  /\ UNCHANGED <<host, pc, since, steady>>

StatMount ==
  /\ pc = "statvfs" /\ lines # <<>>
  /\ LET now == MountLine(scanned, lines[1])
     IN \E fs \in StatVfs(now[2]) :
          /\ scanned' = now
          /\ text' = text \o MountText(now, fs)
  /\ lines' = Tail(lines)
  /\ UNCHANGED <<host, pc, since, steady>>

MountsDone ==
  /\ pc = "statvfs" /\ lines = <<>>
  /\ pc' = "cpu_stats" /\ scanned' = <<>>
  /\ UNCHANGED <<host, text, lines, since, steady>>

\* A collector of one read, and the next in the order of display_prometheus_set.
Collect(name, next, more) ==
  /\ pc = name
  /\ pc' = next
  /\ text' = text \o more
  /\ UNCHANGED <<host, lines, scanned, since, steady>>

GetCpuStats == Collect("cpu_stats", "mem_info", CpuStats(ReadProcFile("stat", StatFile)))
GetMemInfo == Collect("mem_info", "netstat", MemInfo(ReadProcFile("meminfo", MemFile)))
GetNetstat ==
  Collect("netstat", "snmp", ReadNetStat(ReadProcFile("netstat", NetFile("netstat"))))
GetSnmp == Collect("snmp", "disk_stats", ReadNetStat(ReadProcFile("snmp", NetFile("snmp"))))
\* The log is asked of the open mode, which is no request.
GetDiskStats ==
  IF Unopened("diskstats") THEN Collect("disk_stats", "crashed", <<>>)
  ELSE Collect("disk_stats", "load_avg", DiskStats(ReadProcFile("diskstats", DiskFile)))
GetLoadAvg ==
  \E failed \in BOOLEAN :
    Collect("load_avg", "netdev_stats",
            LoadAvg(IF failed THEN <<>>
                    ELSE Numbered(<<"load">>, Words(<<"load1", "load5", "load15">>))))
GetNetdevStats ==
  Collect("netdev_stats", "uname_info", NetdevStats(ReadProcFile("netdev", NetdevFile)))
GetUnameInfo == Collect("uname_info", "vm_stats", UnameInfo(<<<<"linux">>>>))
GetVmStats == Collect("vm_stats", "done", VmStats(ReadProcFile("vmstat", VmFile)))

\* The page is sent; or the worker is gone, and the master starts another.
Respond ==
  /\ pc \in {"done", "crashed"}
  /\ pc' = "idle" /\ text' = <<>> /\ lines' = <<>> /\ scanned' = <<>>
  /\ since' = 0 /\ steady' = {}
  /\ UNCHANGED host

Next ==
  \/ Tick \/ Scrape \/ ReadMounts \/ StatMount \/ MountsDone
  \/ GetCpuStats \/ GetMemInfo \/ GetNetstat \/ GetSnmp \/ GetDiskStats \/ GetLoadAvg
  \/ GetNetdevStats \/ GetUnameInfo \/ GetVmStats
  \/ Respond

Spec == Init /\ [][Next]_vars

(* What the page owes. *)

PlaceOf(s) ==
  CASE s.fam = "cpu_seconds_total" -> <<<<"cpu">> \o s.labels[1], s.labels[2]>>
    [] s.fam = "memory_bytes" -> <<s.labels[1], <<"kB">>>>
    [] s.fam = "vmstat" -> <<s.labels[1], <<"count">>>>
    [] s.fam = "netstat" -> <<s.labels[1], s.labels[2]>>
    [] s.fam \in {"load1", "load5", "load15"} -> <<<<"load">>, <<s.fam>>>>
    [] OTHER -> <<s.labels[1], <<s.fam>>>>

InSeq(x, seq) == \E i \in DOMAIN seq : seq[i] = x

\* The column of the kernel's table that a family of disk_stats names.
DiskColumn(fam) ==
  DiskColumns[CHOOSE i \in DOMAIN DiskFamilies : DiskFamilies[i] = fam]
FilesColumn == [files |-> "files", files_free |-> "ffree", files_avail |-> "favail",
                size_bytes |-> "blocks"]

Place(s) ==
  IF InSeq(s.fam, DiskFamilies) THEN <<s.labels[1], DiskColumn(s.fam)>>
  ELSE IF s.fam \in DOMAIN FilesColumn THEN <<s.labels[1], <<FilesColumn[s.fam]>>>>
  ELSE PlaceOf(s)

\* Those without a number of the kernel; the two families of free space, which are given
\* each the value of another one; and those of a file system that did not stay mounted.
Apart(s) ==
  \/ s.fam \in {"cpu_cores_total", "uname_info", "readonly", "device_error",
                "avail_bytes", "free_bytes"}
  \/ s.fam \in DOMAIN FilesColumn /\ s.labels[1] \in Things \ steady

\* Whatever comes and goes during the scrape, a sample carries the number of the row that
\* its labels name and the column that its family names, as it was at a moment of the
\* scrape: no column is off by one and nothing is left over from the line before.
ValuesOwn ==
  \A i \in DOMAIN text :
    LET v == text[i].value
    IN \/ Apart(text[i])
       \/ Len(v) >= 4 /\ SubSeq(v, 1, 3) = <<"n">> \o Place(text[i]) /\ v[4] \in since .. time

Times(fam, label, k) ==
  Cardinality({i \in DOMAIN text : text[i].fam = fam /\ text[i].labels # <<>>
                                     /\ text[i].labels[1] = label})
    = k
Whole(disk) == IsDiskDevice(disk) /\ NameNotContainNumber(disk)

\* A scrape that reaches its end shows every disk and interface that was there all along
\* once per family, a device of the file systems once, and none twice.
ShownOnce ==
  pc = "done" =>
    /\ \A i \in DOMAIN DiskNames : \A f \in DOMAIN DiskFamilies :
         LET there == DiskNames[i] \notin Things \ steady /\ Whole(DiskNames[i])
         IN IF there THEN Times(DiskFamilies[f], DiskNames[i], 1)
            ELSE Whole(DiskNames[i]) \/ Times(DiskFamilies[f], DiskNames[i], 0)
    /\ fates["netdev"] = "ok" =>
         \A i \in DOMAIN IfNames : \A f \in DOMAIN NetdevFamilies :
           IfNames[i] \notin Things \ steady => Times(NetdevFamilies[f], IfNames[i], 1)
    /\ "ok" \in {fates["1/mounts"], fates["mounts"]} => \A i \in DOMAIN Mounts :
         Mounts[i].device \notin Things \ steady /\ Shown(Mounts[i].mount, Mounts[i].type)
           => Times("device_error", Mounts[i].device, 1)
    /\ \A i, j \in DOMAIN text :
         text[i].fam = text[j].fam /\ text[i].labels = text[j].labels => i = j
=============================================================================
