------------------------------ MODULE KeyCodec ------------------------------
(***************************************************************************)
(* Strings of the module: the keys of nodes, the names inside them, and    *)
(* their escaping for JSON.  A string is a sequence of tokens: a name that *)
(* nothing looks into is one token, a character that some code looks for   *)
(* (the separator, a quote, the "@" of the control interface) is its own.  *)
(***************************************************************************)
EXTENDS Integers, Sequences, SequencesExt, Selection

\* NGX_HTTP_VHOST_TRAFFIC_STATUS_KEY_SEPARATOR, the control character 0x1f.
Sep == "US"

\* The group of a node's type; a number above the last group counts as NO.
GroupToString(type) ==
  IF type \in {"NO", "UA", "UG", "CC", "FG"} THEN type ELSE "NO"

GenerateKey(dst, type) == <<GroupToString(type), Sep>> \o dst

\* The parts of a key between its separators.
Parts(key) ==
  FoldLeft(LAMBDA parts, ch :
             IF ch = Sep THEN Append(parts, <<>>)
             ELSE Front(parts) \o <<Append(Last(parts), ch)>>,
           << <<>> >>, key)

\* Part pos of a key, counted from 0.  When there is none, or it is empty, the
\* caller keeps the string it passed.
HasPart(key, pos) == pos < Len(Parts(key)) /\ Parts(key)[pos + 1] # <<>>

PositionKey(key, pos) == IF HasPart(key, pos) THEN Parts(key)[pos + 1] ELSE key

ReplaceChrc(buf, in, to) == [i \in DOMAIN buf |-> IF buf[i] = in THEN to ELSE buf[i]]

\* replace_strc, whose pattern is one token here, needs the zero byte after the
\* string that copy_str puts there.
ReplaceStrc(buf, dst, c, terminated) ==
  IF terminated THEN ReplaceChrc(buf, dst, c) ELSE buf

Quoted == {"\"", "\\"}
Escape(ch) ==
  CASE ch \in Quoted -> <<"\\", ch>>
    [] ch = Sep -> <<"\\u001f">>
    [] OTHER -> <<ch>>

EscapeJson(src) == FlattenSeq([i \in DOMAIN src |-> Escape(src[i])])

\* The name a request counts under: its Host header when filters by host are
\* on, else the server's first name, else "_".
FindName(filter_host, host, server_name) ==
  CASE filter_host /\ host # <<>> -> host
    [] server_name = <<>> -> <<"_">>
    [] OTHER -> server_name
=============================================================================
