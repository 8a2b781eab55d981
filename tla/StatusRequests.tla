--------------------------- MODULE StatusRequests ---------------------------
(***************************************************************************)
(* display_handler: a worker answers requests for pages and requests of    *)
(* the control interface, which share the tree and the counters of its     *)
(* nodes.  The last path segment decides which of the two a request is     *)
(* (StatusDisplay!IsControl).  One control request runs, after any number  *)
(* of pages.                                                               *)
(***************************************************************************)
EXTENDS StatusDisplay

CONSTANTS
  Zones, Groups, MaxCount,   \* of the control interface
  ControlOoms                \* its allocations that may fail

ASSUME CountAssumption == MaxCount \in Nat \ {0}

VARIABLES
  count,             \* count[k]: the request counter of k's node
  control_pc, args, control_reply

control == <<control_pc, args, control_reply>>
page == <<pc, format, raced, reply>>
requestVars == <<vars, count, control>>

C == INSTANCE VtsControl WITH pc <- control_pc, reply <- control_reply, Ooms <- ControlOoms

\* A key is the type of a node and its name, which is not empty.  The placeholder that
\* stands for an "@" in the arguments is part of no name, and the separator, a control
\* character, of no argument.
ASSUME NamesAssumption ==
  \A k \in Keys : /\ IsList(k) /\ Len(k) > 2 /\ "[:alpha:]" \notin ToSet(k)
                  /\ k[1] \in {"NO", "UA", "UG", "CC", "FG"} /\ k[2] = C!Sep
ASSUME ZonesAssumption == \A z \in Zones : IsList(z) /\ C!Sep \notin ToSet(z)

RequestInit == Init /\ C!Init

\* A node starts with one request, and its counter goes with it.
Counted ==
  count' = [k \in Keys |-> IF k \notin tree' THEN 0 ELSE IF k \in tree THEN count[k] ELSE 1]
PageStep == control_pc = "idle" /\ Next /\ Counted /\ UNCHANGED control
ControlStep == pc = "idle" /\ C!Next /\ UNCHANGED page

RequestNext == PageStep \/ ControlStep
RequestSpec == RequestInit /\ [][RequestNext]_requestVars

(* Properties. *)

\* The buffer of a reply has a share for every node that the reply shows: of the pages
\* and of the status of the control interface, each sized without the mutex.
RepliesCounted == PageCounted /\ C!StatusCounted

\* What is asked for is shown, each node once and nothing else: by a JSON page all of
\* the tree, by the status of a control command the nodes that its arguments name.
RepliesShow == JsonShowsEachOnce /\ C!StatusShowsSelected

\* A control command acts on the nodes that its arguments name and on no others: a
\* delete and a reset affect them, all or none, and report how many they were.
ControlSelects == C!AffectsSelected
=============================================================================
