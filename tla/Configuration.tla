---------------------------- MODULE Configuration ----------------------------
(***************************************************************************)
(* Reading a configuration: what the zone directive does to the shared     *)
(* zone over starts and reloads, and what the other directives leave in    *)
(* the blocks.  A configuration is read for one of three subjects: its     *)
(* zones, its rules, with the checks for duplicates, or its scalar slots.  *)
(***************************************************************************)
EXTENDS VtsZone

CONSTANTS
  Order, Parent, Crc(_), HashModulus,   \* of VtsConf
  RuleSlots, RuleValues, Rules, MaxRules,     \* what is explored of the rules
  ScalarSlots, ScalarValues, ScalarRules, Dumps, MaxNodes, MaxScalars   \* of the slots

Checks == {"filter_check_duplicate", "limit_check_duplicate"}

ASSUME ConfAssumption ==
  /\ MaxRules \in Nat /\ MaxScalars \in Nat
  /\ Checks \subseteq RuleSlots /\ Checks \subseteq ScalarSlots

\* A block is read once, inside one that was opened before it.
ASSUME BlocksAssumption ==
  /\ Order \in Seq(STRING)
  /\ \A i, j \in DOMAIN Order : Order[i] = Order[j] => i = j
  /\ \A i \in DOMAIN Order :
       Order[i] # "http" /\ Parent[Order[i]] \in {"http"} \cup {Order[j] : j \in 1 .. i - 1}

\* A rule is of one of the arrays, and a checksum is a number of its width.
ASSUME RulesAssumption ==
  /\ HashModulus \in Nat \ {0}
  /\ \A arg \in Rules \cup ScalarRules :
       /\ arg[1] \in {"filter_keys", "limit_traffics", "limit_filter_traffics", "filter_vars"}
       /\ Crc(arg[2].key \o arg[2].name) \in 0 .. HashModulus - 1

VARIABLES
  subject,   \* "zones", "rules" or "slots"
  conf_pc, open, unread, conf, ctx, todo, count, given   \* of VtsConf

R == INSTANCE VtsConf WITH pc <- conf_pc, Slots <- RuleSlots, Values <- RuleValues,
       RuleArgs <- Rules, Dumps <- {}, MaxNodes <- {}, MaxDirectives <- MaxRules
S == INSTANCE VtsConf WITH pc <- conf_pc, Slots <- ScalarSlots, Values <- ScalarValues,
       RuleArgs <- ScalarRules, MaxDirectives <- MaxScalars

confVars == <<conf_pc, open, unread, conf, ctx, todo, count, given>>
configurationVars == <<subject, vars, confVars>>

ConfigurationInit ==
  /\ subject \in {"zones", "rules", "slots"} /\ Init
  /\ IF subject = "rules" THEN R!Init ELSE S!Init

ZonesStep == subject = "zones" /\ Next /\ UNCHANGED <<subject, confVars>>
RulesStep == subject = "rules" /\ R!Next /\ UNCHANGED <<subject, vars>>
SlotsStep == subject = "slots" /\ S!Next /\ UNCHANGED <<subject, vars>>

ConfigurationNext == ZonesStep \/ RulesStep \/ SlotsStep
ConfigurationSpec == ConfigurationInit /\ [][ConfigurationNext]_configurationVars

(* Properties. *)

\* What filter_unique and limit_traffic_unique make of the rules at every level: none is
\* lost whose hash does not stay with another, none is added, and where comparing them
\* is an order, one of each hash is left.
RulesKeptOnce == subject = "rules" => R!RulesKept /\ R!EachOnce

\* After merge_loc_conf a slot has the value of the nearest block that gives one, also
\* across a block without any, and no slot is left unset.
NearestWins == subject = "slots" => S!NearestWins
=============================================================================
