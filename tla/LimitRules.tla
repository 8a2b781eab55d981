----------------------------- MODULE LimitRules -----------------------------
(***************************************************************************)
(* The two directives that make a rule of a limit.  The text "member:size" *)
(* is split where the configuration gives it: size is a number, NoSize     *)
(* without a colon and BadSize when it is no size.                         *)
(***************************************************************************)
EXTENDS Integers, Sequences, KeyCodec

NoSize == -1
BadSize == -2

\* A variable of the module itself cannot be limited.
Accepted(variable, size) ==
  /\ variable # <<>>
  /\ ~(Len(variable) > 1 /\ \E i \in DOMAIN variable : variable[i] = "$vts_")
  /\ size \notin {NoSize, BadSize}

\* string_to_group, by the first two characters.
StringToGroup(text) ==
  IF text # <<>> /\ text[1] \in {"NO", "UA", "UG", "CC", "FG"} THEN text[1] ELSE "NO"

\* status 0 stands for an argument left out.
CodeOf(status) == IF status = 0 THEN 503 ELSE status

\* limit_traffic, which limits the server: the key stays empty.
LimitTraffic(a) ==
  IF ~Accepted(a.variable, a.size) THEN <<>>
  ELSE <<[key |-> <<>>, variable |-> a.variable, size |-> a.size, code |-> CodeOf(a.code),
          type |-> "NO"]>>

\* The key, which the directive rewrites in place.
KeyText(text) == ReplaceStrc(ReplaceChrc(text, "@", Sep), "[:alpha:]", "@", TRUE)

\* limit_traffic_by_set_key
LimitTrafficBySetKey(a) ==
  IF a.key = <<>> \/ ~Accepted(a.variable, a.size) THEN <<>>
  ELSE <<[key |-> KeyText(a.key), variable |-> a.variable, size |-> a.size,
          code |-> CodeOf(a.code), type |-> StringToGroup(a.key)]>>
=============================================================================
