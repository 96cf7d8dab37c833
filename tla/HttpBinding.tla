----------------------------- MODULE HttpBinding -----------------------------
(***************************************************************************)
(* node_http_parser.cc, between http_parser, which calls it for each run   *)
(* of a message's bytes, and parserOnHeaders, parserOnHeadersComplete and  *)
(* parserOnMessageComplete of lib/http.js.  A run is remembered where it   *)
(* lies in the buffer that is being parsed, and is copied when it goes on  *)
(* elsewhere or when the buffer is left.  A byte is known by the run it    *)
(* belongs to and its place there; callbacks do not call the parser.       *)
(***************************************************************************)
EXTENDS Integers, Sequences, FiniteSets

CONSTANTS
  Slots,       \* ARRAY_SIZE(fields_), 32 in the code
  MaxHeaders,  \* bound: how many headers there are in all, trailers included
  MaxMessages, \* bound: how many messages follow one another
  MaxBuffers,  \* bound: how many buffers they come in
  ValueLengths,\* bound: how long a value is; a URL or a name has one byte
  Limits       \* the values of maxHeaderPairs, in headers; 0 for none

VARIABLES
  hexec,       \* http_parser_execute is running
  hmem,        \* the bytes of the buffer up to where the parser is
  hphase,      \* where in a message it is
  hrun,        \* the run it is in: what, number, the bytes read and left
  hurl, hfields, hvalues, \* url_, fields_ and values_, each a StringPtr
  num_fields, num_values, have_flushed,
  jsHeaders,   \* parser._headers
  jsUrl,       \* parser._url
  hlimit,      \* parser.maxHeaderPairs
  hsent,       \* history: the URL and the headers of the message, as sent
  hgot,        \* history: what the last callback had and should have had
  hleft,       \* history: what was in _url when the parser was used again
  hbuffers,    \* history: how many buffers were parsed
  hheaders,    \* history: how many headers were begun
  hmessages    \* history: how many messages were begun

hbvars == <<hexec, hmem, hphase, hrun, hurl, hfields, hvalues, num_fields, num_values,
            have_flushed, jsHeaders, jsUrl, hlimit, hsent, hgot, hleft, hbuffers, hheaders,
            hmessages>>

Junk == <<"junk", 0, 0>>
Null == [at |-> 0, size |-> 0, heap |-> <<>>, on_heap |-> FALSE]
NoRun == [what |-> "none", no |-> 0, read |-> 0, left |-> 0, cut |-> FALSE]
Run(what, no, n) == [NoRun EXCEPT !.what = what, !.no = no, !.left = n]
NoMessage == [url |-> <<>>, headers |-> <<>>]

Init ==
  /\ hexec = FALSE /\ hmem = <<>> /\ hphase = "idle" /\ hrun = NoRun
  /\ hurl = Null /\ hfields = [i \in 1 .. Slots |-> Null] /\ hvalues = [i \in 1 .. Slots |-> Null]
  /\ num_fields = 0 /\ num_values = 0 /\ have_flushed = FALSE
  /\ jsHeaders = <<>> /\ jsUrl = <<>> /\ hlimit = 0
  /\ hsent = NoMessage /\ hgot = [is |-> NoMessage, was |-> NoMessage] /\ hmessages = 0
  /\ hleft = <<>> /\ hbuffers = 0 /\ hheaders = 0

(* StringPtr: str_ is null, an address in the buffer, or on the heap.      *)
InBuffer(at, size) == [i \in 1 .. size |->
  IF at + i - 1 \in DOMAIN hmem THEN hmem[at + i - 1] ELSE Junk]
(* The length of a string on the heap is that of what is there.            *)
ToString(s) == IF s.on_heap THEN s.heap ELSE InBuffer(s.at, s.size)
IsNull(s) == s.at = 0 /\ ~s.on_heap

(* A slip: what is in the buffer is taken to be there still.               *)
SaveNothing(s) == s

Save(s) == IF ~s.on_heap /\ s.size > 0
           THEN [Null EXCEPT !.heap = ToString(s), !.on_heap = TRUE] ELSE s

Update(s, at, bytes) ==
  IF IsNull(s) THEN [Null EXCEPT !.at = at, !.size = Len(bytes)]
  ELSE IF s.on_heap \/ s.at + s.size # at
  THEN [Null EXCEPT !.heap = ToString(s) \o bytes, !.on_heap = TRUE]
  ELSE [s EXCEPT !.size = @ + Len(bytes)]

(* parserOnHeaders collects headers until the limit is reached, which they *)
(* may exceed; parserOnHeadersComplete counts them off up to the limit.    *)
parserOnHeaders(headers) ==
  IF hlimit = 0 \/ Len(jsHeaders) < hlimit THEN jsHeaders \o headers ELSE jsHeaders
CountedOff(headers) ==
  IF hlimit = 0 \/ Len(headers) <= hlimit THEN headers ELSE [i \in 1 .. hlimit |-> headers[i]]

(* Flush hands the pairs and the URL to parserOnHeaders.                   *)
CreateHeaders == [i \in 1 .. num_values |-> <<ToString(hfields[i]), ToString(hvalues[i])>>]
Flush ==
  /\ jsHeaders' = parserOnHeaders(CreateHeaders) /\ jsUrl' = jsUrl \o ToString(hurl)
  /\ hurl' = Null /\ have_flushed' = TRUE

(* Execute of the next buffer, and its end: the strings are saved, and the *)
(* buffer is somebody else's from then on.                                 *)
Execute ==
  /\ ~hexec /\ hexec' = TRUE
  /\ hbuffers < MaxBuffers /\ hbuffers' = hbuffers + 1
  /\ UNCHANGED <<hmem, hphase, hrun, hurl, hfields, hvalues, num_fields, num_values,
                 have_flushed, jsHeaders, jsUrl, hlimit, hsent, hgot, hleft, hheaders, hmessages>>

EndExecute ==
  /\ hexec /\ hmem # <<>>
  /\ hexec' = FALSE /\ hmem' = <<>> /\ hrun' = [hrun EXCEPT !.cut = FALSE]
  /\ hurl' = Save(hurl)
  /\ hfields' = [i \in 1 .. Slots |-> IF i <= num_fields THEN Save(hfields[i]) ELSE hfields[i]]
  /\ hvalues' = [i \in 1 .. Slots |-> IF i <= num_values THEN Save(hvalues[i]) ELSE hvalues[i]]
  /\ UNCHANGED <<hphase, num_fields, num_values, have_flushed, jsHeaders, jsUrl, hlimit,
                 hsent, hgot, hleft, hbuffers, hheaders, hmessages>>

(* http_parser begins a message, and finds its URL, if it is a request's.  *)
on_message_begin(request) ==
  /\ hexec /\ hphase = "idle" /\ hmessages < MaxMessages
  /\ num_fields' = 0 /\ num_values' = 0 /\ hurl' = Null
  /\ hmem' = Append(hmem, Junk) /\ hmessages' = hmessages + 1
  /\ hphase' = IF request THEN "url" ELSE "headers"
  /\ hrun' = IF request THEN Run("url", hmessages, 1) ELSE NoRun
  /\ hsent' = NoMessage /\ hgot' = [is |-> NoMessage, was |-> NoMessage]
  /\ UNCHANGED <<hexec, hfields, hvalues, have_flushed, jsHeaders, jsUrl, hlimit, hleft, hbuffers, hheaders>>

(* A run begins: the name of a header, or the value after it.              *)
BeginRun(what, n) ==
  /\ hexec /\ hrun.what = "none"
  /\ IF what = "field" THEN /\ hphase \in {"headers", "trailers"}
                            /\ hheaders < MaxHeaders /\ n = 1
     ELSE hphase \in {"header value", "trailer value"} /\ n \in ValueLengths
  /\ hrun' = Run(what, Len(hsent.headers), n)
  /\ hmem' = Append(hmem, Junk)
  /\ hheaders' = IF what = "field" THEN hheaders + 1 ELSE hheaders
  /\ UNCHANGED <<hexec, hphase, hurl, hfields, hvalues, num_fields, num_values,
                 have_flushed, jsHeaders, jsUrl, hlimit, hsent, hgot, hleft, hbuffers, hmessages>>

on_url(at, bytes) ==
  /\ hrun.what = "url" /\ hurl' = Update(hurl, at, bytes)
  /\ hsent' = [hsent EXCEPT !.url = @ \o bytes]
  /\ UNCHANGED <<hfields, hvalues, num_fields, num_values, have_flushed, jsHeaders, jsUrl>>

on_header_field(at, bytes) ==
  LET new == num_fields = num_values
      full == new /\ num_fields + 1 = Slots
      slot == IF full THEN 1 ELSE IF new THEN num_fields + 1 ELSE num_fields
  IN /\ hrun.what = "field"
     /\ num_fields' = slot
     /\ hfields' = [hfields EXCEPT ![slot] = Update(IF new THEN Null ELSE @, at, bytes)]
     /\ IF full THEN num_values' = 0 /\ Flush
        ELSE UNCHANGED <<num_values, hurl, have_flushed, jsHeaders, jsUrl>>
     /\ hsent' = IF hrun.read = 0 THEN [hsent EXCEPT !.headers = Append(@, <<bytes, <<>>>>)]
                 ELSE [hsent EXCEPT !.headers[hrun.no + 1][1] = @ \o bytes]
     /\ UNCHANGED hvalues

on_header_value(at, bytes) ==
  LET new == num_values # num_fields
      slot == IF new THEN num_values + 1 ELSE num_values
  IN /\ hrun.what = "value"
     /\ num_values' = slot
     /\ hvalues' = [hvalues EXCEPT ![slot] = Update(IF new THEN Null ELSE @, at, bytes)]
     /\ hsent' = [hsent EXCEPT !.headers[hrun.no][2] = @ \o bytes]
     /\ UNCHANGED <<hurl, hfields, num_fields, have_flushed, jsHeaders, jsUrl>>

(* http_parser reports n bytes of a run: all that are left, even if none,  *)
(* or those up to the buffer's end, or those before a break in a value.    *)
Report(n, then) ==
  LET at == Len(hmem) + 1
      bytes == [i \in 1 .. n |-> <<hrun.what, hrun.no, hrun.read + i>>]
  IN /\ hexec /\ hrun.what # "none" /\ ~hrun.cut /\ n <= hrun.left
     /\ then = "done" => n = hrun.left
     /\ then # "done" => n > 0
     /\ then = "fold" => hrun.what = "value" /\ n < hrun.left
     /\ on_url(at, bytes) \/ on_header_field(at, bytes) \/ on_header_value(at, bytes)
     /\ hmem' = hmem \o bytes \o (IF then = "fold" THEN <<Junk>> ELSE <<>>)
     /\ hrun' = IF then = "done" THEN NoRun
                ELSE [hrun EXCEPT !.read = @ + n, !.left = @ - n, !.cut = (then = "cut")]
     /\ hphase' = IF then # "done" THEN hphase
                  ELSE CASE hphase = "headers" -> "header value"
                         [] hphase = "trailers" -> "trailer value"
                         [] hphase = "trailer value" -> "trailers"
                         [] OTHER -> "headers"
     /\ UNCHANGED <<hexec, hlimit, hgot, hleft, hbuffers, hheaders, hmessages>>

(* The headers are given in the argument, or, once there was a Flush, are  *)
(* those the script has collected; so is a URL that is not given.  Those   *)
(* beyond the limit are left out.                                          *)
on_headers_complete ==
  /\ hexec /\ hphase = "headers" /\ hrun.what = "none"
  /\ IF have_flushed
     THEN /\ hgot' = [was |-> hsent, is |-> [url |-> jsUrl \o ToString(hurl),
                                             headers |-> CountedOff(parserOnHeaders(CreateHeaders))]]
          /\ hurl' = Null /\ jsHeaders' = <<>> /\ jsUrl' = <<>>
     ELSE /\ hgot' = [was |-> hsent, is |-> [headers |-> CountedOff(CreateHeaders),
                        url |-> IF ToString(hurl) = <<>> THEN jsUrl ELSE ToString(hurl)]]
          /\ jsUrl' = (IF ToString(hurl) = <<>> THEN <<>> ELSE jsUrl)
          /\ UNCHANGED <<hurl, jsHeaders>>
  /\ num_fields' = 0 /\ num_values' = 0
  /\ hphase' = "body" /\ hsent' = NoMessage /\ hmem' = Append(hmem, Junk)
  /\ UNCHANGED <<hexec, hrun, hfields, hvalues, have_flushed, hlimit, hleft, hbuffers, hheaders,
                 hmessages>>

(* A piece of the body, given as a slice of the buffer.                    *)
on_body ==
  /\ hexec /\ hphase = "body" /\ Len(hmem) < 2 /\ hmem' = Append(hmem, Junk)
  /\ UNCHANGED <<hexec, hphase, hrun, hurl, hfields, hvalues, num_fields, num_values,
                 have_flushed, jsHeaders, jsUrl, hlimit, hsent, hgot, hleft, hbuffers, hheaders, hmessages>>

(* After the last chunk of a body further headers may follow.              *)
BeginTrailers ==
  /\ hexec /\ hphase = "body" /\ hphase' = "trailers" /\ hmem' = Append(hmem, Junk)
  /\ UNCHANGED <<hexec, hrun, hurl, hfields, hvalues, num_fields, num_values,
                 have_flushed, jsHeaders, jsUrl, hlimit, hsent, hgot, hleft, hbuffers, hheaders, hmessages>>

on_message_complete ==
  /\ hexec /\ hphase \in {"body", "trailers"} /\ hrun.what = "none"
  /\ IF num_fields # 0 THEN hurl' = Null /\ have_flushed' = TRUE ELSE UNCHANGED <<hurl, have_flushed>>
  /\ hgot' = [was |-> hsent,
              is |-> [url |-> <<>>,
                      headers |-> IF num_fields = 0 THEN jsHeaders
                                 ELSE parserOnHeaders(CreateHeaders)]]
  /\ jsHeaders' = <<>> /\ jsUrl' = <<>> /\ hleft' = <<>>
  /\ hphase' = "idle" /\ hsent' = NoMessage /\ hmem' = Append(hmem, Junk)
  /\ UNCHANGED <<hexec, hrun, hfields, hvalues, num_fields, num_values, hlimit, hbuffers, hheaders,
                 hmessages>>

(* The parser is taken for a connection, new or from freeParser, which     *)
(* leaves _url as it is: reinitialize, and the limit of the server.        *)
Reinitialize ==
  /\ ~hexec /\ hmessages < MaxMessages
  /\ hurl' = Null /\ num_fields' = 0 /\ num_values' = 0 /\ have_flushed' = FALSE
  /\ jsHeaders' = <<>> /\ hphase' = "idle" /\ hlimit' \in Limits /\ hrun' = NoRun
  /\ hsent' = NoMessage /\ hleft' = jsUrl /\ hgot' = [is |-> NoMessage, was |-> NoMessage]
  /\ UNCHANGED <<hexec, hmem, hfields, hvalues, jsUrl, hbuffers, hheaders, hmessages>>

Next ==
  \/ Execute \/ EndExecute
  \/ \E request \in BOOLEAN : on_message_begin(request)
  \/ \E what \in {"field", "value"}, n \in ValueLengths \cup {1} : BeginRun(what, n)
  \/ \E n \in 0 .. 2, then \in {"done", "cut", "fold"} : Report(n, then)
  \/ on_headers_complete \/ on_body \/ BeginTrailers \/ on_message_complete
  \/ Reinitialize

Spec == Init /\ [][Next]_hbvars

TypeOK ==
  /\ hexec \in BOOLEAN /\ have_flushed \in BOOLEAN
  /\ num_fields \in 0 .. Slots - 1 /\ num_values \in 0 .. num_fields
  /\ hrun.what \in {"none", "url", "field", "value"}
  /\ Len(jsHeaders) <= MaxHeaders

-----------------------------------------------------------------------------

(* The first headers there are, and all of them below the limit.           *)
UpToTheLimit(is, was) ==
  /\ Len(is) <= Len(was) /\ \A i \in 1 .. Len(is) : is[i] = was[i]
  /\ Len(is) < Len(was) => hlimit # 0 /\ hlimit <= Len(is)

(* Wherever the buffers end, and however many headers do not fit in        *)
(* fields_ and values_, the script is given each message's URL, headers    *)
(* and trailers as they were sent, and nothing of another message, but for *)
(* what maxHeaderPairs leaves out, which is the last headers beyond it and *)
(* all of these, and maybe trailers beyond it; and for the URL of a        *)
(* message that was left unfinished when its parser was taken for another  *)
(* connection: that may stand before the URL or in its place (StringPtr,   *)
(* Flush, on_headers_complete and on_message_complete; parserOnHeaders and *)
(* parserOnHeadersComplete).                                               *)
MessagesAsSent ==
  /\ UpToTheLimit(hgot.is.headers, hgot.was.headers)
  /\ hlimit # 0 /\ hphase # "idle" => Len(hgot.is.headers) <= hlimit
  /\ hgot.is.url \in {hgot.was.url, hleft \o hgot.was.url}
=============================================================================
