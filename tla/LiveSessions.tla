---------------------------- MODULE LiveSessions ----------------------------
(***************************************************************************)
(* The collector of live sessions: it lists the processes of the encoder,  *)
(* finds the key of the stream in the command line of each, and reads the  *)
(* counters of the process from the files of /proc, while processes start  *)
(* and exit.  A check that a file exists, its open and its read are steps  *)
(* of their own: a process may be gone between any two.                    *)
(*                                                                         *)
(* A value is <<process, family>>, <<"unwritten">> of a variable that      *)
(* nothing was read into, or <<"not a number">>.                           *)
(***************************************************************************)
EXTENDS Integers, Sequences, FiniteSets, SequencesExt

CONSTANTS
  Pids,     \* the processes there may be, in the order of the listing
  Search,   \* the process of the search, which its own command line has listed
  Cmdline,  \* Cmdline[pid]: words, each a sequence of the parts between slashes
  Keys      \* the parts that begin with live_

ASSUME SearchAssumption == \E i \in DOMAIN Pids : Pids[i] = Search

VARIABLES
  alive,    \* the processes that run
  young,    \* those that have not run for a second
  gone,     \* those that have exited
  pc,
  listed,   \* the processes still to be looked at; the first is the one in hand
  key,      \* its stream key
  text,     \* the samples
  found     \* what the search listed

vars == <<alive, young, gone, pc, listed, key, text, found>>
host == <<alive, young, gone>>

Processes == {Pids[i] : i \in DOMAIN Pids} \ {Search}
Pid == listed[1]
Unwritten == <<"unwritten">>
Sample(fam, value) == [fam |-> fam, key |-> key, value |-> value]

IoFamilies ==
  <<"rchar", "wchar", "syscr", "syscw", "read_bytes", "write_bytes", "cancelled_write_bytes">>
Families == IoFamilies \o <<"cpu_utilization", "memory_utilization">>

\* The command whose output goes elsewhere is the shell's, not the encoder's.
Wrapper(cmd) == \E i \in DOMAIN cmd : cmd[i] = <<"2>&1">>

\* The live_ part of an rtmp:// address, the last one if there are several.
KeyParts(cmd) ==
  FlattenSeq([i \in DOMAIN cmd |->
    IF cmd[i][1] = "rtmp:" THEN SelectSeq(cmd[i], LAMBDA part : part \in Keys) ELSE <<>>])
ParseStreamKey(cmd) ==
  IF Wrapper(cmd) \/ KeyParts(cmd) = <<>> THEN {} ELSE {Last(KeyParts(cmd))}

Init ==
  /\ alive \in SUBSET Processes /\ young = {} /\ gone = {}
  /\ pc = "idle" /\ listed = <<>> /\ key = "" /\ text = <<>> /\ found = {}

(* The host. *)

Spawn(p) ==
  /\ p \in Processes \ (alive \cup gone)
  /\ alive' = alive \cup {p} /\ young' = young \cup {p}
  /\ UNCHANGED <<gone, pc, listed, key, text, found>>

Exit(p) ==
  /\ p \in alive
  /\ alive' = alive \ {p} /\ young' = young \ {p} /\ gone' = gone \cup {p}
  /\ UNCHANGED <<pc, listed, key, text, found>>

\* A second passes.
Age ==
  /\ young # {} /\ young' = {}
  /\ UNCHANGED <<alive, gone, pc, listed, key, text, found>>

(* The collector. *)

\* popen fails, or lists the search with the encoders; the search is gone by pclose.
Pidof ==
  /\ pc = "idle"
  /\ \/ pc' = "done" /\ UNCHANGED <<listed, found>>
     \/ /\ pc' = "next"
        /\ listed' = SelectSeq(Pids, LAMBDA p : p \in alive \cup {Search})
        /\ found' = alive
  /\ UNCHANGED <<host, key, text>>

\* Mutant: the list does not advance over a process that is gone.
CheckStaying ==
  /\ pc = "next" /\ listed # <<>>
  /\ pc' = IF Pid \in alive THEN "cmdline_stat" ELSE "next"
  /\ UNCHANGED <<host, listed, key, text, found>>

\* A process that is gone is passed over.
Check ==
  /\ pc = "next" /\ listed # <<>>
  /\ IF Pid \in alive THEN pc' = "cmdline_stat" /\ UNCHANGED listed
     ELSE pc' = "next" /\ listed' = Tail(listed)
  /\ UNCHANGED <<host, key, text, found>>

\* Without a command line there is no key, and without a key the collector returns.
CmdlineStat ==
  /\ pc = "cmdline_stat"
  /\ pc' = IF Pid \in alive THEN "cmdline_read" ELSE "done"
  /\ UNCHANGED <<host, listed, key, text, found>>

\* The buffer's pointer has no first value, so that realloc of it may fail; of a process
\* that is gone the file is NULL, or the pointer is returned as it is: NULL is no key.
CmdlineRead ==
  /\ pc = "cmdline_read"
  /\ \/ pc' = "crashed" /\ UNCHANGED key
     \/ /\ Pid \in alive
        /\ LET parsed == ParseStreamKey(Cmdline[Pid])
           IN IF parsed = {} THEN pc' = "done" /\ UNCHANGED key
              ELSE pc' = "io_stat" /\ key' = CHOOSE k \in parsed : TRUE
     \/ Pid \notin alive /\ pc' = "done" /\ UNCHANGED key
  /\ UNCHANGED <<host, listed, text, found>>

IoStat ==
  /\ pc = "io_stat"
  /\ pc' = IF Pid \in alive THEN "io_open" ELSE "cpu"
  /\ UNCHANGED <<host, listed, key, text, found>>

\* The failure to open is logged to the open mode, which is no request.
IoOpen ==
  /\ pc = "io_open"
  /\ pc' = IF Pid \in alive THEN "io_read" ELSE "crashed"
  /\ UNCHANGED <<host, listed, key, text, found>>

\* A read of the file of a process that is gone fails: no end of file ever comes.
IoRead ==
  /\ pc = "io_read"
  /\ IF Pid \in alive
     THEN /\ pc' = "cpu"
          /\ text' = text \o [i \in DOMAIN IoFamilies |->
                                Sample(IoFamilies[i], <<Pid, IoFamilies[i]>>)]
     ELSE pc' = "spin" /\ UNCHANGED text
  /\ UNCHANGED <<host, listed, key, found>>

\* The ticks over the seconds that the process has run; a process that is gone leaves
\* the ticks and its start without a value.
CpuUtilization ==
  /\ pc = "cpu"
  /\ pc' = "memory"
  /\ text' = Append(text, Sample("cpu_utilization",
               IF Pid \notin alive THEN Unwritten
               ELSE IF Pid \in young THEN <<"not a number">>
               ELSE <<Pid, "cpu_utilization">>))
  /\ UNCHANGED <<host, listed, key, found>>

MemoryUtilization ==
  /\ pc = "memory"
  /\ pc' = "next" /\ listed' = Tail(listed)
  /\ text' = Append(text, Sample("memory_utilization",
               IF Pid \in alive THEN <<Pid, "memory_utilization">> ELSE Unwritten))
  /\ UNCHANGED <<host, key, found>>

ListDone ==
  /\ pc = "next" /\ listed = <<>>
  /\ pc' = "done"
  /\ UNCHANGED <<host, listed, key, text, found>>

\* The page is sent, or the worker that crashed or spins is replaced by another.
Respond ==
  /\ pc \in {"done", "crashed", "spin"}
  /\ pc' = "idle" /\ listed' = <<>> /\ key' = "" /\ text' = <<>> /\ found' = {}
  /\ UNCHANGED host

Collect ==
  \/ Check \/ CmdlineStat \/ CmdlineRead \/ IoStat \/ IoOpen \/ IoRead
  \/ CpuUtilization \/ MemoryUtilization \/ ListDone

Next ==
  \/ \E p \in Processes : Spawn(p) \/ Exit(p)
  \/ Age \/ Pidof \/ Collect \/ Respond

\* The collector is one function that the worker runs through without a wait.
Spec == Init /\ [][Next]_vars /\ WF_vars(Collect)

(* What the page owes. *)

HasKey(p) == ParseStreamKey(Cmdline[p]) # {}
KeyOf(p) == CHOOSE k \in ParseStreamKey(Cmdline[p]) : TRUE
Shows(fam, p) == {i \in DOMAIN text : text[i].fam = fam /\ text[i].key = KeyOf(p)}

\* What is shown of a stream is of the process that carries its key, and it is a number
\* that was read unless the process has exited, or has run for less than a second.
ValuesOwn ==
  \A i \in DOMAIN text : \E p \in found :
    /\ HasKey(p) /\ KeyOf(p) = text[i].key
    /\ \/ text[i].value = <<p, text[i].fam>>
       \/ text[i].value = Unwritten /\ p \in gone
       \/ text[i].value = <<"not a number">> /\ text[i].fam = "cpu_utilization"

\* A collector that reaches its end without an exit, and without a process that has no key,
\* has shown every encoder that it found once in every family.
ShownOnce ==
  (pc = "next" /\ listed = <<>> /\ found \cap gone = {}) =>
    \A p \in found : \A f \in DOMAIN Families : Cardinality(Shows(Families[f], p)) = 1

\* The collector comes to its end, whatever starts and exits meanwhile; only an exit, of a
\* process between the open and the read of its file, leaves the worker spinning instead,
\* with the mutex of the zone.
ScrapeEnds ==
  (pc = "next") ~> (pc \in {"done", "crashed"} \/ (pc = "spin" /\ gone # {}))
=============================================================================
