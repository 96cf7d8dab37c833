------------------------------- MODULE HttpUrl ------------------------------
(***************************************************************************)
(* http_parser_parse_url of tools/wrk/src/http_parser.c: the parts of a    *)
(* URL, found character by character with the state machine that checks    *)
(* the URL of a request line too (parse_url_char).                         *)
(***************************************************************************)
EXTENDS Naturals, Sequences, FiniteSets

CONSTANTS
  MaxUrl,    \* bound: how long a URL is
  MaxPort    \* 0xffff, the largest port

VARIABLES
  uconnect,  \* is_connect
  ustate,    \* s
  ufield,    \* old_uf, the field it is in
  fields,    \* u->field_data and u->field_set
  uport,     \* the port as strtoul reads it
  ulabels,   \* history: for each character, its field or "delimiter"
  uresult    \* "parsing", "ok" or "invalid"

uvars == <<uconnect, ustate, ufield, fields, uport, ulabels, uresult>>

(* A character of each class the parser tells apart: a digit, letters that *)
(* are hexadecimal digits or not, and a further character of a path.       *)
Alpha == {"a", "x"}
Num == {"0", "1"}
Hex == Num \cup {"a"}
Host == Alpha \cup Num \cup {"."}
Url == Host \cup {"/", "*", ":", "[", "]"}
Chars == Url \cup {"?", "#"}

UrlFields == {"schema", "host", "port", "path", "query", "fragment"}
None == [off |-> 0, len |-> 0]

(* The states of a host, and where they lead with ch.                      *)
HostChar(s, ch) ==
  CASE s = "host_start" /\ ch = "[" -> "host_v6_start"
    [] s \in {"host_start", "host"} /\ ch \in Host -> "host"
    [] s \in {"host", "host_v6_end"} /\ ch = ":" -> "port_start"
    [] s \in {"host", "host_v6_end", "port"} /\ ch = "/" -> "path"
    [] s \in {"host", "host_v6_end", "port"} /\ ch = "?" -> "query_start"
    [] s = "host_v6" /\ ch = "]" -> "host_v6_end"
    [] s \in {"host_v6", "host_v6_start"} /\ ch \in Hex \cup {":"} -> "host_v6"
    [] s \in {"port", "port_start"} /\ ch \in Num -> "port"
    [] OTHER -> "dead"

PathChar(s, ch) ==
  CASE s = "path" /\ ch \in Url -> "path"
    [] s = "path" /\ ch = "?" -> "query_start"
    [] s \in {"query_start", "query"} /\ ch \in Url \cup {"?"} -> "query"
    [] s \in {"path", "query_start", "query"} /\ ch = "#" -> "fragment_start"
    [] s = "fragment_start" /\ ch = "#" -> "fragment_start"
    [] s = "fragment_start" /\ ch \in Url \cup {"?"} -> "fragment"
    [] s = "fragment" -> "fragment"
    [] OTHER -> "dead"

parse_url_char(s, ch) ==
  CASE s = "spaces_before_url" -> IF ch \in {"/", "*"} THEN "path"
                                  ELSE IF ch \in Alpha THEN "schema" ELSE "dead"
    [] s = "schema" -> IF ch \in Alpha THEN "schema"
                       ELSE IF ch = ":" THEN "schema_slash" ELSE "dead"
    [] s = "schema_slash" -> IF ch = "/" THEN "schema_slash_slash" ELSE "dead"
    [] s = "schema_slash_slash" -> IF ch = "/" THEN "host_start" ELSE "dead"
    [] s \in {"path", "query_start", "query", "fragment_start", "fragment"} -> PathChar(s, ch)
    [] OTHER -> HostChar(s, ch)

FieldOf(s) == CASE s \in {"host", "host_v6"} -> "host"
                [] s \in UrlFields -> s
                [] OTHER -> "delimiter"

Init ==
  /\ uconnect = FALSE /\ ustate = "none" /\ ufield = "none"
  /\ fields = [f \in UrlFields |-> None]
  /\ uport = 0 /\ ulabels = <<>> /\ uresult = "parsing"

Begin(is_connect) ==
  /\ ustate = "none"
  /\ uconnect' = is_connect
  /\ ustate' = IF is_connect THEN "host_start" ELSE "spaces_before_url"
  /\ UNCHANGED <<ufield, fields, uport, ulabels, uresult>>

(* Slip: the offset moves on with every character of the field.             *)
CharSlip(ch) ==
  LET s == parse_url_char(ustate, ch)
      f == FieldOf(s)
      here == Len(ulabels)
  IN
  /\ ustate # "none" /\ uresult = "parsing" /\ here < MaxUrl
  /\ ustate' = s /\ ulabels' = Append(ulabels, f) /\ UNCHANGED uconnect
  /\ uresult' = IF s = "dead" THEN "invalid" ELSE "parsing"
  /\ IF s = "dead" \/ f = "delimiter" THEN UNCHANGED <<ufield, fields, uport>>
     ELSE /\ ufield' = f
          /\ fields' = [fields EXCEPT ![f] = [off |-> here, len |-> @.len + 1]]
          /\ uport' = IF f = "port" THEN uport * 10 + (IF ch = "1" THEN 1 ELSE 0) ELSE uport

(* One character: it starts a field, goes on with one, or is skipped.      *)
Char(ch) ==
  LET s == parse_url_char(ustate, ch)
      f == FieldOf(s)
      here == Len(ulabels)
  IN
  /\ ustate # "none" /\ uresult = "parsing" /\ here < MaxUrl
  /\ ustate' = s /\ ulabels' = Append(ulabels, f) /\ UNCHANGED uconnect
  /\ uresult' = IF s = "dead" THEN "invalid" ELSE "parsing"
  /\ IF s = "dead" \/ f = "delimiter" THEN UNCHANGED <<ufield, fields, uport>>
     ELSE /\ ufield' = f
          /\ fields' = IF f = ufield THEN [fields EXCEPT ![f].len = @ + 1]
                       ELSE [fields EXCEPT ![f] = [off |-> here, len |-> 1]]
          /\ uport' = IF f = "port" THEN uport * 10 + (IF ch = "1" THEN 1 ELSE 0) ELSE uport

FieldSet == {f \in UrlFields : fields[f] # None}

(* The end of the string: CONNECT takes a host and a port and no more.     *)
Unfinished == {"host_v6_start", "host_v6", "host_v6_end", "host", "port_start"}

End ==
  /\ ustate # "none" /\ uresult = "parsing"
  /\ uresult' = IF \/ uconnect /\ FieldSet # {"host", "port"}
                   \/ ustate \in Unfinished
                   \/ "port" \in FieldSet /\ uport > MaxPort
                THEN "invalid" ELSE "ok"
  /\ UNCHANGED <<uconnect, ustate, ufield, fields, uport, ulabels>>

Next ==
  \/ \E c \in BOOLEAN : Begin(c)
  \/ End
  \/ \E ch \in Chars : Char(ch)

Spec == Init /\ [][Next]_uvars

-----------------------------------------------------------------------------
TypeOK ==
  /\ ufield \in UrlFields \cup {"none"}
  /\ fields \in [UrlFields -> [off : 0..MaxUrl, len : 0..MaxUrl]]
  /\ uresult \in {"parsing", "ok", "invalid"}

(* A field is the run of characters that the states call its own, and the  *)
(* port of a URL that is accepted is one (http_parser_parse_url).          *)
FieldsAreRuns ==
  /\ uresult # "invalid" =>
       \A f \in UrlFields :
         {i \in 1..Len(ulabels) : ulabels[i] = f} =
           (fields[f].off + 1)..(fields[f].off + fields[f].len)
  /\ uresult = "ok" => uport <= MaxPort
=============================================================================
