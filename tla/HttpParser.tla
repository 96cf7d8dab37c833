----------------------------- MODULE HttpParser -----------------------------
(***************************************************************************)
(* http_parser_execute of tools/wrk/src/http_parser.c: a parser fed with   *)
(* chunks of any length, which may end anywhere, and stopped by a callback *)
(* that pauses or fails.                                                   *)
(*                                                                         *)
(* A step takes one byte, where a byte stands for a run of characters that *)
(* meet the same branch: "HTTP/" is one, and so are "ontent-length" and    *)
(* "hunked".  Names, values and URLs are two bytes and more, so that a     *)
(* chunk may end within them.  The errno of an error is left out: "error". *)
(* The library is built with HTTP_PARSER_STRICT, as http_parser.h says.    *)
(***************************************************************************)
EXTENDS Naturals

CONSTANTS
  HttpMaxHeaderSize,   \* HTTP_MAX_HEADER_SIZE, in bytes of the model
  HttpWidth            \* content_length is an integer of that many bits

VARIABLES
  htype,     \* parser->type
  hstate,    \* parser->state
  hname,     \* parser->header_state
  hpflags,   \* parser->flags
  clen,      \* parser->content_length
  nread,     \* parser->nread
  about,     \* method, version, status code and upgrade: what is tested later
  errno,     \* parser->http_errno: "ok", "paused" or "error"
  call,      \* http_parser_execute: "none", "begun", or "fed" with a byte
  mark,      \* the mark that is set, and how many bytes behind p it is
  owed,      \* history: bytes of the current field no callback was given
  exact,     \* history: every data callback was given the bytes due to it
  gap,       \* history: body bytes declared and not yet given
  event      \* history: the last callback, or "end" of the connection

pvars == <<htype, hstate, hname, hpflags, clen, nread, about, errno, call, mark, owed, exact,
           gap, event>>

Max64 == 2^HttpWidth - 1     \* ULLONG_MAX
NoMark == [f |-> "none", n |-> 0]

StartStates == {"s_start_req_or_res", "s_start_res", "s_start_req"}
BodyStates == {"s_body_identity", "s_body_identity_eof", "s_chunk_data",
               "s_chunk_data_almost_done", "s_chunk_data_done", "s_message_done"}
ParsingHeader(s) == s \notin BodyStates

start_state == IF htype = "request" THEN "s_start_req" ELSE "s_start_res"

-----------------------------------------------------------------------------
http_message_needs_eof ==
  /\ htype # "request"
  /\ about.status # "bodyless" /\ "skipbody" \notin hpflags
  /\ "chunked" \notin hpflags /\ clen = Max64

http_should_keep_alive ==
  /\ IF about.version = "1.1" THEN "close" \notin hpflags ELSE "keep-alive" \in hpflags
  /\ ~http_message_needs_eof

NewMessage == IF http_should_keep_alive THEN start_state ELSE "s_dead"

Init ==
  /\ htype = "either" /\ hstate = "s_start_req_or_res"
  /\ hname = "general" /\ hpflags = {} /\ clen = 0 /\ nread = 0
  /\ about = [connect |-> FALSE, version |-> "1.0", status |-> "other", upgrade |-> FALSE]
  /\ errno = "ok" /\ call = "none" /\ mark = NoMark
  /\ owed = 0 /\ exact = TRUE /\ gap = 0 /\ event = "none"

(* For requests, for responses, or for whatever comes.                     *)
http_parser_init(t) ==
  /\ htype = "either" /\ call = "none" /\ nread = 0 /\ event = "none" /\ errno = "ok"
  /\ htype' = t /\ hstate' = IF t = "request" THEN "s_start_req" ELSE "s_start_res"
  /\ UNCHANGED <<hname, hpflags, clen, nread, about, errno, call, mark, owed, exact, gap, event>>

-----------------------------------------------------------------------------
(* Callbacks.  One that pauses or fails ends the call at once.             *)
Answers == {"ok", "paused", "error"}

Answer(a) == errno' = a /\ call' = IF a = "ok" THEN "fed" ELSE "none"
NextByte == errno' = errno /\ call' = "fed"

SameField == UNCHANGED <<mark, owed, exact>>
Quiet == NextByte /\ SameField /\ UNCHANGED <<gap, event>>

CALLBACK_NOTIFY(what) ==
  /\ event' = what
  /\ \E a \in Answers : Answer(a)
  /\ SameField

(* MARK, when n bytes belong to field f.                                   *)
MARK(f, n) ==
  /\ mark' = IF mark.f = "none" THEN [f |-> f, n |-> n] ELSE [mark EXCEPT !.n = @ + n]
  /\ owed' = owed + n
  /\ UNCHANGED <<exact, gap, event>>

(* One byte more of a field that is marked already.                        *)
Within ==
  /\ mark' = IF mark.f = "none" THEN mark ELSE [mark EXCEPT !.n = @ + 1]
  /\ owed' = owed + 1
  /\ UNCHANGED <<exact, gap, event>>

(* The bytes since mark m, and n more, are given to the callback of m.     *)
Give(m, n) ==
  IF m.f = "none" THEN UNCHANGED <<mark, owed, exact, gap, event>>
  ELSE /\ exact' = (exact /\ m.n = owed)
       /\ owed' = 0 /\ mark' = NoMark
       /\ gap' = IF m.f = "body" THEN gap - (m.n + n) ELSE gap
       /\ event' = m.f

CALLBACK_DATA ==
  /\ Give(mark, 0)
  /\ IF mark.f = "none" THEN NextByte ELSE \E a \in Answers : Answer(a)

-----------------------------------------------------------------------------
(* The start of a call with some bytes: a field that is open is marked     *)
(* again.  A parser in an error state does nothing.                        *)
Fields == [s \in {"s_header_field", "s_header_value", "s_req_url"} |->
             CASE s = "s_header_field" -> "field" [] s = "s_header_value" -> "value"
               [] OTHER -> "url"]

(* Slip: an open URL is not marked again.                                  *)
ExecuteBeginForgets ==
  /\ call = "none" /\ errno = "ok" /\ event # "end"
  /\ call' = "begun"
  /\ mark' = IF hstate \in DOMAIN Fields \ {"s_req_url"}
             THEN [f |-> Fields[hstate], n |-> 0] ELSE NoMark
  /\ UNCHANGED <<htype, hstate, hname, hpflags, clen, nread, about, errno, owed, exact, gap, event>>

ExecuteBegin ==
  /\ call = "none" /\ errno = "ok" /\ event # "end"
  /\ call' = "begun"
  /\ mark' = IF hstate \in DOMAIN Fields THEN [f |-> Fields[hstate], n |-> 0] ELSE NoMark
  /\ UNCHANGED <<htype, hstate, hname, hpflags, clen, nread, about, errno, owed, exact, gap, event>>

(* A call with no bytes: the connection has ended.                         *)
ExecuteEof ==
  /\ call = "none" /\ errno = "ok" /\ event # "end"
  /\ event' = "end"
  /\ errno' \in CASE hstate = "s_body_identity_eof" -> Answers
                  [] hstate \in StartStates \cup {"s_dead"} -> {"ok"}
                  [] OTHER -> {"error"}
  /\ UNCHANGED <<htype, hstate, hname, hpflags, clen, nread, about, call, mark, owed, exact, gap>>

(* The bytes are used up: what is marked is given.  Two states never wait  *)
(* for a byte: the one that led to them is still at hand.                  *)
ExecuteEnd ==
  /\ call = "fed" /\ hstate \notin {"s_headers_done", "s_message_done"}
  /\ Give(mark, 0)
  /\ IF mark.f = "none" THEN errno' = errno ELSE errno' \in Answers
  /\ call' = "none"
  /\ UNCHANGED <<htype, hstate, hname, hpflags, clen, nread, about>>

http_parser_pause ==
  /\ call = "none" /\ errno = "paused"
  /\ errno' = "ok"
  /\ UNCHANGED <<htype, hstate, hname, hpflags, clen, nread, about, call, mark, owed, exact, gap, event>>

(* Every byte of a header counts.                                          *)
Reads(s) == call # "none" /\ hstate = s /\ (ParsingHeader(s) => nread < HttpMaxHeaderSize)
At(s) == Reads(s) /\ nread' = IF ParsingHeader(s) THEN nread + 1 ELSE nread

(* The line end of s_headers_done counts only when it comes a second time. *)
HeaderOverflow ==
  /\ call # "none" /\ ParsingHeader(hstate) /\ nread = HttpMaxHeaderSize
  /\ hstate = "s_headers_done" => call = "begun"
  /\ nread' = nread + 1 /\ errno' = "error" /\ call' = "none"
  /\ UNCHANGED <<htype, hstate, hname, hpflags, clen, about, mark, owed, exact, gap, event>>

(* A byte the state does not take.                                         *)
Lenient == {"s_res_status", "s_chunk_parameters", "s_headers_done", "s_message_done",
            "s_body_identity", "s_body_identity_eof", "s_chunk_data"}

BadByte ==
  /\ At(hstate) /\ hstate \notin Lenient
  /\ hstate \in {"s_header_value_start", "s_header_value"} => hname = "content_length"
  /\ errno' = "error" /\ call' = "none"
  /\ UNCHANGED <<htype, hstate, hname, hpflags, clen, about, mark, owed, exact, gap, event>>

Go(s) == hstate' = s

-----------------------------------------------------------------------------
(* The first line.                                                         *)
(* Before a message, line ends are skipped; before a response each of them *)
(* calls message_begin.                                                    *)
SkipLineEnds ==
  /\ At("s_start_req_or_res") \/ At("s_start_req") \/ At("s_dead")
  /\ Go(hstate) /\ Quiet
  /\ UNCHANGED <<htype, hname, hpflags, clen, about>>

StartReqOrRes ==
  /\ At("s_start_req_or_res")
  /\ hpflags' = {} /\ clen' = Max64
  /\ \/ /\ Go("s_res_or_resp_H") /\ CALLBACK_NOTIFY("begin")
        /\ UNCHANGED <<htype, about, gap>>
     \/ /\ Go("s_req_method") /\ htype' = "request" /\ CALLBACK_NOTIFY("begin")
        /\ about' = [about EXCEPT !.connect = FALSE] /\ UNCHANGED gap
  /\ UNCHANGED hname

ResOrRespH ==
  /\ At("s_res_or_resp_H") /\ Quiet
  /\ \/ Go("s_res_http") /\ htype' = "response" /\ UNCHANGED about
     \/ /\ Go("s_req_spaces_before_url") /\ htype' = "request"
        /\ about' = [about EXCEPT !.connect = FALSE]
  /\ UNCHANGED <<hname, hpflags, clen>>

StartRes ==
  /\ At("s_start_res")
  /\ hpflags' = {} /\ clen' = Max64
  /\ Go("s_start_res") \/ Go("s_res_http")
  /\ CALLBACK_NOTIFY("begin")
  /\ UNCHANGED <<htype, hname, about, gap>>

ResVersion ==
  /\ At("s_res_http") /\ Go("s_res_status_code") /\ Quiet
  /\ \E v \in {"1.0", "1.1"} : about' = [about EXCEPT !.version = v]
  /\ UNCHANGED <<htype, hname, hpflags, clen>>

ResStatus ==
  /\ At("s_res_status_code") /\ Go("s_res_status") /\ Quiet
  /\ \E c \in {"bodyless", "other"} : about' = [about EXCEPT !.status = c]
  /\ UNCHANGED <<htype, hname, hpflags, clen>>

ResLineEnd ==
  /\ At("s_res_status") /\ Quiet
  /\ Go("s_line_almost_done") \/ Go("s_header_field_start")
  /\ UNCHANGED <<htype, hname, hpflags, clen, about>>

StartReq ==
  /\ At("s_start_req")
  /\ hpflags' = {} /\ clen' = Max64
  /\ Go("s_req_method") /\ CALLBACK_NOTIFY("begin")
  /\ about' = [about EXCEPT !.connect = FALSE]
  /\ UNCHANGED <<htype, hname, gap>>

ReqMethod ==
  /\ At("s_req_method") /\ Go("s_req_spaces_before_url") /\ Quiet
  /\ \E c \in BOOLEAN : about' = [about EXCEPT !.connect = c]
  /\ UNCHANGED <<htype, hname, hpflags, clen>>

ReqUrlStart ==
  /\ At("s_req_spaces_before_url") /\ Go("s_req_url")
  /\ MARK("url", 1) /\ NextByte
  /\ UNCHANGED <<htype, hname, hpflags, clen, about>>

(* The URL goes on, or a space or a line end (HTTP/0.9) ends it.           *)
ReqUrl ==
  /\ At("s_req_url")
  /\ \/ Go("s_req_url") /\ Within /\ NextByte /\ UNCHANGED about
     \/ Go("s_req_http") /\ CALLBACK_DATA /\ UNCHANGED about
     \/ /\ Go("s_line_almost_done") \/ Go("s_header_field_start")
        /\ CALLBACK_DATA /\ about' = [about EXCEPT !.version = "0.9"]
  /\ UNCHANGED <<htype, hname, hpflags, clen>>

ReqVersion ==
  /\ At("s_req_http") /\ Quiet
  /\ \E v \in {"1.0", "1.1"} : about' = [about EXCEPT !.version = v]
  /\ Go("s_line_almost_done") \/ Go("s_header_field_start")
  /\ UNCHANGED <<htype, hname, hpflags, clen>>

LineAlmostDone ==
  /\ At("s_line_almost_done") /\ Go("s_header_field_start") /\ Quiet
  /\ UNCHANGED <<htype, hname, hpflags, clen, about>>

-----------------------------------------------------------------------------
(* Header fields.  A name is recognised as it comes: first its first       *)
(* letter, then the rest; a letter more makes it another name.             *)
FirstLetter == [general |-> {"general"}, C |-> {"connection", "content_length"},
                T |-> {"transfer_encoding"}, U |-> {"upgrade"}, P |-> {"connection"}]

HeaderFieldStart ==
  /\ At("s_header_field_start") /\ Go("s_header_field")
  /\ MARK("field", 1) /\ NextByte
  /\ \E c \in DOMAIN FirstLetter : hname' = c
  /\ UNCHANGED <<htype, hpflags, clen, about>>

(* An empty line: LF alone is read again as the end of CR LF.              *)
HeadersEnd ==
  /\ At("s_header_field_start") /\ Go("s_headers_almost_done") /\ Quiet
  /\ UNCHANGED <<htype, hname, hpflags, clen, about>>

HeaderField ==
  /\ At("s_header_field") /\ Go("s_header_field")
  /\ Within /\ NextByte
  /\ hname' \in IF hname \in DOMAIN FirstLetter THEN FirstLetter[hname] \cup {"general"}
                ELSE {"general"}
  /\ UNCHANGED <<htype, hpflags, clen, about>>

HeaderFieldEnd ==
  /\ At("s_header_field") /\ CALLBACK_DATA
  /\ \E s \in {"s_header_value_start", "s_header_almost_done", "s_header_field_start"} : Go(s)
  /\ UNCHANGED <<htype, hname, hpflags, clen, about>>

(* Values: the first letter or digit.                                      *)
Digit == {0, 2}
FirstOfValue(name) ==
  CASE name = "transfer_encoding" -> {"c-chunked", "general"}
    [] name = "connection" -> {"k-keep-alive", "c-close", "general"}
    [] OTHER -> {"general"}

HeaderValueStart ==
  /\ At("s_header_value_start") /\ Go("s_header_value")
  /\ MARK("value", 1) /\ NextByte
  /\ \/ /\ hname = "content_length" /\ hname' = hname
        /\ clen' \in Digit /\ UNCHANGED hpflags
     \/ /\ hname = "upgrade" /\ hname' = "general"
        /\ hpflags' = hpflags \cup {"upgrade"} /\ UNCHANGED clen
     \/ /\ hname \notin {"content_length", "upgrade"}
        /\ hname' \in FirstOfValue(hname) /\ UNCHANGED <<hpflags, clen>>
  /\ UNCHANGED <<htype, about>>

(* Nothing but the line end: a value of no bytes.                          *)
HeaderValueEmpty ==
  /\ At("s_header_value_start")
  /\ \/ Go("s_header_almost_done") /\ hname' = "general"
     \/ Go("s_header_field_start") /\ hname' = hname
  /\ mark' = NoMark
  /\ exact' = (exact /\ owed = 0) /\ event' = "value"
  /\ \E a \in Answers : Answer(a)
  /\ UNCHANGED <<htype, hpflags, clen, about, owed, gap>>

Matched == [x \in {"c-chunked", "k-keep-alive", "c-close"} |->
              CASE x = "c-chunked" -> "chunked" [] x = "k-keep-alive" -> "keep-alive"
                [] OTHER -> "close"]

(* Another digit: refused when the product has wrapped below what it was.  *)
Larger(t) == t >= clen /\ t # Max64

(* A space after a value that matched changes nothing.                     *)
HeaderValue ==
  /\ At("s_header_value") /\ Go("s_header_value")
  /\ Within /\ NextByte
  /\ \/ /\ hname = "content_length" /\ hname' = hname
        /\ \/ UNCHANGED clen
           \/ \E d \in Digit : LET t == (clen * 10 + d) % 2^HttpWidth
                               IN  Larger(t) /\ clen' = t
     \/ /\ hname # "content_length" /\ UNCHANGED clen
        /\ hname' \in {"general", hname}
                      \cup (IF hname \in DOMAIN Matched THEN {Matched[hname]} ELSE {})
  /\ UNCHANGED <<htype, hpflags, about>>

HeaderValueEnd ==
  /\ At("s_header_value") /\ Go("s_header_almost_done")
  /\ CALLBACK_DATA
  /\ UNCHANGED <<htype, hname, hpflags, clen, about>>

HeaderAlmostDone ==
  /\ At("s_header_almost_done") /\ Go("s_header_value_lws") /\ Quiet
  /\ hpflags' = hpflags \cup ({hname} \cap {"keep-alive", "close", "chunked"})
  /\ UNCHANGED <<htype, hname, clen, about>>

(* A space goes on with the value; any other byte is read as the start of  *)
(* the next field, within this step.                                       *)
HeaderFold ==
  /\ At("s_header_value_lws") /\ Go("s_header_value_start") /\ Quiet
  /\ UNCHANGED <<htype, hname, hpflags, clen, about>>

HeaderNext ==
  /\ At("s_header_value_lws")
  /\ \/ /\ Go("s_header_field") /\ MARK("field", 1) /\ NextByte
        /\ \E c \in DOMAIN FirstLetter : hname' = c
     \/ Go("s_headers_almost_done") /\ Quiet /\ UNCHANGED hname
  /\ UNCHANGED <<htype, hpflags, clen, about>>

-----------------------------------------------------------------------------
(* The end of the headers.  The callback may say that there is no body; it *)
(* leaves the line end to s_headers_done, which a pause delays.            *)
HeadersAlmostDone ==
  /\ At("s_headers_almost_done")
  /\ \/ /\ "trailing" \in hpflags
        /\ Go(NewMessage) /\ CALLBACK_NOTIFY("complete")
        /\ UNCHANGED <<hpflags, about, gap>>
     \/ /\ "trailing" \notin hpflags
        /\ Go("s_headers_done")
        /\ about' = [about EXCEPT !.upgrade = "upgrade" \in hpflags \/ about.connect]
        /\ hpflags' = hpflags \/ hpflags' = hpflags \cup {"skipbody"}
        /\ CALLBACK_NOTIFY("headers")
        /\ UNCHANGED gap
  /\ UNCHANGED <<htype, hname, clen>>

NoBody ==
  \/ about.upgrade
  \/ "skipbody" \in hpflags
  \/ /\ "chunked" \notin hpflags
     /\ clen = 0 \/ (clen = Max64 /\ ~http_message_needs_eof)

(* The same line end is read here.  After an upgrade the call is over.     *)
HeadersDone ==
  /\ Reads("s_headers_done") \/ (call = "fed" /\ hstate = "s_headers_done")
  /\ nread' = 0
  /\ \/ /\ NoBody /\ Go(NewMessage)
        /\ event' = "complete" /\ SameField /\ UNCHANGED gap
        /\ \E a \in Answers : /\ errno' = a
                              /\ call' = IF a = "ok" /\ ~about.upgrade THEN "fed" ELSE "none"
     \/ /\ ~NoBody /\ "chunked" \in hpflags
        /\ Go("s_chunk_size_start") /\ Quiet
     \/ /\ ~NoBody /\ "chunked" \notin hpflags /\ clen # Max64
        /\ Go("s_body_identity") /\ gap' = gap + clen
        /\ NextByte /\ SameField /\ UNCHANGED event
     \/ /\ ~NoBody /\ "chunked" \notin hpflags /\ clen = Max64
        /\ Go("s_body_identity_eof") /\ Quiet
  /\ UNCHANGED <<htype, hname, hpflags, clen, about>>

(* Bytes the chunk holds, n of them, when the message wants more: the call *)
(* ends with them.                                                         *)
Body(m) == IF m.f = "none" THEN [f |-> "body", n |-> 0] ELSE m

RestOfChunk(n) ==
  /\ Give(Body(mark), n)
  /\ errno' \in Answers /\ call' = "none"

(* With the last byte the body is given, and MessageDone follows on it.    *)
BodyIdentity ==
  /\ At("s_body_identity")
  /\ \/ \E n \in 1..clen - 1 : clen' = clen - n /\ RestOfChunk(n) /\ UNCHANGED hstate
     \/ /\ clen' = 0 /\ Go("s_message_done")
        /\ Give(Body(mark), clen)
        /\ \E a \in Answers : Answer(a)
  /\ UNCHANGED <<htype, hname, hpflags, about>>

(* Slip: the last byte is left out.                                        *)
BodyIdentityShort ==
  /\ At("s_body_identity")
  /\ \/ \E n \in 1..clen - 1 : clen' = clen - n /\ RestOfChunk(n) /\ UNCHANGED hstate
     \/ /\ clen' = 0 /\ Go("s_message_done")
        /\ Give(Body(mark), clen - 1)
        /\ \E a \in Answers : Answer(a)
  /\ UNCHANGED <<htype, hname, hpflags, about>>

BodyIdentityEof ==
  /\ At("s_body_identity_eof") /\ Go("s_body_identity_eof")
  /\ exact' = (exact /\ owed = 0) /\ event' = "body"
  /\ errno' \in Answers /\ call' = "none"
  /\ UNCHANGED <<htype, hname, hpflags, clen, about, mark, owed, gap>>

MessageDone ==
  /\ At("s_message_done") /\ Go(NewMessage) /\ CALLBACK_NOTIFY("complete")
  /\ UNCHANGED <<htype, hname, hpflags, clen, about, gap>>

-----------------------------------------------------------------------------
(* Chunks: a size in hexadecimal digits, parameters, a line end; the data  *)
(* and a line end; a chunk of no data, and trailing fields.                *)
ChunkSizeStart ==
  /\ At("s_chunk_size_start") /\ Go("s_chunk_size") /\ Quiet
  /\ clen' \in Digit
  /\ UNCHANGED <<htype, hname, hpflags, about>>

ChunkSize ==
  /\ At("s_chunk_size") /\ Quiet
  /\ \/ /\ \E d \in Digit : LET t == (clen * 16 + d) % 2^HttpWidth
                            IN  Larger(t) /\ clen' = t
        /\ Go("s_chunk_size")
     \/ Go("s_chunk_size_almost_done") /\ UNCHANGED clen
     \/ Go("s_chunk_parameters") /\ UNCHANGED clen
  /\ UNCHANGED <<htype, hname, hpflags, about>>

ChunkParameters ==
  /\ At("s_chunk_parameters") /\ Go("s_chunk_size_almost_done") /\ Quiet
  /\ UNCHANGED <<htype, hname, hpflags, clen, about>>

ChunkSizeAlmostDone ==
  /\ Reads("s_chunk_size_almost_done")
  /\ nread' = 0 /\ SameField /\ NextByte /\ UNCHANGED event
  /\ \/ /\ clen = 0 /\ hpflags' = hpflags \cup {"trailing"}
        /\ Go("s_header_field_start") /\ UNCHANGED gap
     \/ /\ clen # 0 /\ gap' = gap + clen
        /\ Go("s_chunk_data") /\ UNCHANGED hpflags
  /\ UNCHANGED <<htype, hname, clen, about>>

ChunkData ==
  /\ At("s_chunk_data")
  /\ \/ \E n \in 1..clen - 1 : clen' = clen - n /\ RestOfChunk(n) /\ UNCHANGED hstate
     \/ /\ clen' = 0 /\ Go("s_chunk_data_almost_done")
        /\ MARK("body", clen) /\ NextByte
  /\ UNCHANGED <<htype, hname, hpflags, about>>

ChunkDataAlmostDone ==
  /\ At("s_chunk_data_almost_done") /\ Go("s_chunk_data_done") /\ CALLBACK_DATA
  /\ UNCHANGED <<htype, hname, hpflags, clen, about>>

ChunkDataDone ==
  /\ Reads("s_chunk_data_done") /\ Go("s_chunk_size_start") /\ Quiet
  /\ nread' = 0
  /\ UNCHANGED <<htype, hname, hpflags, clen, about>>

Next ==
  \/ \E t \in {"request", "response"} : http_parser_init(t)
  \/ ExecuteBegin \/ ExecuteEof \/ ExecuteEnd \/ http_parser_pause
  \/ HeaderOverflow \/ BadByte \/ SkipLineEnds
  \/ StartReqOrRes \/ ResOrRespH \/ StartRes \/ ResVersion \/ ResStatus \/ ResLineEnd
  \/ StartReq \/ ReqMethod \/ ReqUrlStart \/ ReqUrl \/ ReqVersion \/ LineAlmostDone
  \/ HeaderFieldStart \/ HeadersEnd \/ HeaderField \/ HeaderFieldEnd
  \/ HeaderValueStart \/ HeaderValueEmpty \/ HeaderValue \/ HeaderValueEnd
  \/ HeaderAlmostDone \/ HeaderFold \/ HeaderNext \/ HeadersAlmostDone \/ HeadersDone
  \/ BodyIdentity \/ BodyIdentityEof \/ MessageDone
  \/ ChunkSizeStart \/ ChunkSize \/ ChunkParameters \/ ChunkSizeAlmostDone
  \/ ChunkData \/ ChunkDataAlmostDone \/ ChunkDataDone

Spec == Init /\ [][Next]_pvars
-----------------------------------------------------------------------------
TypeOK ==
  /\ htype \in {"either", "request", "response"}
  /\ hpflags \subseteq {"upgrade", "chunked", "keep-alive", "close", "trailing", "skipbody"}
  /\ clen \in 0..Max64 /\ nread \in 0..HttpMaxHeaderSize + 1
  /\ errno \in Answers /\ call \in {"none", "begun", "fed"}
  /\ mark.f \in {"none", "field", "value", "url", "body"}
  /\ owed \in Nat

(* Wherever the chunks end: what the marks say is what no callback was     *)
(* given yet, and each callback is given just what was due to it.          *)
SpansExact ==
  /\ exact
  /\ errno # "error" => owed = mark.n
  /\ mark.f # "none" =>
       \/ hstate \in DOMAIN Fields /\ mark.f = Fields[hstate]
       \/ hstate = "s_chunk_data_almost_done" /\ mark.f = "body"

(* The body given is as long as the message said when it is complete.      *)
BodyAsDeclared ==
  errno # "error" =>
    /\ hstate \in StartStates \cup {"s_dead"} => gap = 0
    /\ hstate \in {"s_body_identity", "s_chunk_data"} => gap = clen
    /\ gap \in Nat

(* The callbacks come in the order of a message.                           *)
CallbacksInOrder ==
  errno # "error" =>
    /\ hstate \in StartStates => event \in {"none", "begin", "complete", "end"}
    /\ hstate \in BodyStates \ {"s_message_done"} => event \in {"headers", "body", "end"}
    /\ hstate \in {"s_header_field", "s_header_value"} /\ "trailing" \notin hpflags =>
         event \in {"begin", "url", "field", "value"}

(* The assertions http_parser_execute makes.                               *)
AssertionsHold ==
  errno # "error" =>
    /\ hstate = "s_chunk_size_start" => nread = 0
    /\ hstate = "s_header_value" => hname \notin {"connection", "transfer_encoding"}
    /\ hstate \in {"s_body_identity", "s_chunk_data"} => clen \notin {0, Max64}
    /\ hstate \in {"s_chunk_size", "s_chunk_data", "s_chunk_data_done"} => "chunked" \in hpflags

(* Together: the events of a message do not depend on where its bytes were *)
(* cut or a callback paused (tools/wrk/src/http_parser.c).                 *)
EventsIndependentOfChunks ==
  SpansExact /\ BodyAsDeclared /\ CallbacksInOrder /\ AssertionsHold
=============================================================================
