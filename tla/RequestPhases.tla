---------------------------- MODULE RequestPhases ----------------------------
(***************************************************************************)
(* The phases of a request before its content: limits by traffic in the    *)
(* preaccess phase, the set rules in the access phase.  A location has     *)
(* either here: each part has the zone in the form that it reads it, the   *)
(* limits the counters under the mutex, the set rules the memory of nodes  *)
(* without it.                                                             *)
(***************************************************************************)
EXTENDS LimitTraffic

CONSTANTS
  Keys, Slots, Hash, RuleSets, Upstreams, MaxCount, MaxChanges, NoSlot, NoKey  \* of SetByFilter

VARIABLES
  location,   \* "limits" or "rules"
  mem, linked, change, changes, cache, set_pc, set_rules, set_i, control, found, set_vars,
  held, stayed, removed, missed   \* of SetByFilter

S == INSTANCE SetByFilter WITH pc <- set_pc, rules <- set_rules, i <- set_i, vars <- set_vars

ASSUME SetAssumption ==
  /\ MaxCount \in Nat \ {0} /\ MaxChanges \in Nat /\ NoSlot \notin Slots
  /\ RuleSets \subseteq Seq(Seq(STRING)) \ {<<>>}
  /\ \A n \in 0 .. MaxCount : S!ToString(n) \notin {"unset", "not_found"}

\* The hash tells the keys apart, which a crc32 need not do.
ASSUME HashAssumption ==
  /\ Hash \in [Keys -> Nat \ {0}]
  /\ \A k, l \in Keys : Hash[k] = Hash[l] => k = l

\* A key is a group and a name, and no name holds a placeholder for a character.
ASSUME NamesAssumption ==
  \A k \in Keys :
    /\ k \in Seq(STRING) /\ Len(k) >= 2 /\ k[1] \in S!Groups /\ k[2] = S!Sep
    /\ \A j \in 3 .. Len(k) : k[j] \notin {"[:alpha:]", "[:slash:]"}

setVars ==
  <<mem, linked, change, changes, cache, set_pc, set_rules, set_i, control, found, set_vars,
    held, stayed, removed, missed>>
phaseVars == <<location, vars, setVars>>

PhaseInit == location \in {"limits", "rules"} /\ Init /\ S!Init

LimitStep == location = "limits" /\ Next /\ UNCHANGED <<location, setVars>>
SetStep == location = "rules" /\ S!Next /\ UNCHANGED <<location, vars>>

PhaseNext == LimitStep \/ SetStep
PhaseSpec == PhaseInit /\ [][PhaseNext]_phaseVars

(* Properties. *)

\* limit_handler_traffic refuses whom it should: a server or client that had used up a
\* limit when its request came, whatever other workers log between the arrays, and
\* nobody who kept to the limits all the while.
RefusedWhenOver == OverIsRefused /\ RefusalJustified

\* What set_by_filter reads without the mutex is, before any removal, a value that the
\* counter of the rule's key had while the request ran.
SetValueOfKey == S!ValueOfKey

\* set_by_filter sets a variable for a node that is there, and for an upstream only
\* when the configuration knows it, or knew another one earlier in the request.
SetWhenKnown == S!KnownIsSet /\ S!UnknownNotSet
=============================================================================
