--------------------------- MODULE NodeDataProofs ---------------------------
(***************************************************************************)
(* Each part of NodeData by itself: its inductive invariant, that every    *)
(* step keeps it, and what follows from it, for any values of the          *)
(* constants.  NodeCoreProofs draws the conclusions.                       *)
(***************************************************************************)
EXTENDS NodeData, FiniteSetTheorems, SequenceTheorems, WellFoundedInduction,
        TLAPS

-----------------------------------------------------------------------------
(* HttpParser.                                                             *)

(* The states between the first line and the end of the headers, which     *)
(* trailing fields go through again, and those of a chunk.                 *)
FieldStates ==
  {"s_header_field_start", "s_header_field", "s_header_value_start", "s_header_value",
   "s_header_almost_done", "s_header_value_lws", "s_headers_almost_done"}
LineStates ==
  {"s_res_or_resp_H", "s_res_http", "s_res_status_code", "s_res_status", "s_req_method",
   "s_req_spaces_before_url", "s_req_url", "s_req_http", "s_line_almost_done"}
SizeStates ==
  {"s_chunk_size_start", "s_chunk_size", "s_chunk_size_almost_done", "s_chunk_parameters"}
DataStates == {"s_chunk_data", "s_chunk_data_almost_done", "s_chunk_data_done"}

HttpTypes ==
  /\ Htp!TypeOK
  /\ mark \in [f : {"none", "field", "value", "url", "body"}, n : Nat]
  /\ hstate \in Htp!StartStates \cup FieldStates \cup LineStates \cup SizeStates \cup DataStates
       \cup {"s_dead", "s_headers_done", "s_body_identity", "s_body_identity_eof",
             "s_message_done"}

(* The field the parser is in is marked, or the data of a chunk that a     *)
(* line end follows, and nothing else.                                     *)
MarkPlaced ==
  mark.f # "none" =>
    \/ hstate \in DOMAIN Htp!Fields /\ mark.f = Htp!Fields[hstate]
    \/ hstate = "s_chunk_data_almost_done" /\ mark.f = "body"

(* What is marked is what is owed, a field is marked as long as the call   *)
(* is in it, and between calls nothing is.                                 *)
MarkKept ==
  /\ owed = mark.n
  /\ mark.f = "none" => mark.n = 0
  /\ call # "none" /\ hstate \in DOMAIN Htp!Fields => mark.f # "none"
  /\ call = "none" => mark.f = "none"

(* What is owed of a body is what the message has left, or is marked.      *)
GapKept ==
  gap = CASE hstate \in {"s_body_identity", "s_chunk_data"} -> clen
          [] hstate = "s_chunk_data_almost_done" -> mark.n
          [] OTHER -> 0

(* The callbacks so far, wherever the parser is.                           *)
EventKept ==
  /\ event = "none" => hstate \in Htp!StartStates
  /\ hstate \in Htp!StartStates => event \in {"none", "begin", "complete", "end"}
  /\ hstate \in LineStates \cup FieldStates /\ "trailing" \notin hpflags =>
       event \in {"begin", "url", "field", "value"}
  /\ hstate \in LineStates => "trailing" \notin hpflags
  /\ hstate = "s_headers_done" => event = "headers"
  /\ hstate \in SizeStates \cup DataStates \cup {"s_body_identity"} => event \in {"headers", "body"}
  /\ hstate = "s_body_identity_eof" => event \in {"headers", "body", "end"}

(* What the assertions of http_parser_execute rest on.                     *)
StateKept ==
  /\ hstate = "s_chunk_size_start" => nread = 0
  /\ hstate = "s_header_value" => hname \notin {"connection", "transfer_encoding"}
  /\ hstate \in {"s_body_identity", "s_chunk_data"} => clen \notin {0, Htp!Max64}
  /\ hstate \in SizeStates \ {"s_chunk_size_start"} => clen # Htp!Max64
  /\ hstate \in SizeStates \cup DataStates => "chunked" \in hpflags

EInv ==
  /\ HttpTypes /\ exact /\ MarkPlaced
  /\ call # "none" => errno = "ok" /\ event # "end"
  /\ errno # "error" => MarkKept /\ GapKept /\ EventKept /\ StateKept

LEMMA InitEInv == Htp!Init => EInv
BY HttpAssumption DEF Htp!Init, EInv, HttpTypes, Htp!TypeOK, MarkPlaced, MarkKept, GapKept, EventKept, StateKept,
   Htp!StartStates, FieldStates, LineStates, SizeStates, DataStates, Htp!Fields, Htp!NoMark, Htp!Answers, Htp!Max64

LEMMA EventsKept == EInv => Htp!EventsIndependentOfChunks
<1> SUFFICES ASSUME EInv PROVE Htp!EventsIndependentOfChunks
  OBVIOUS
<1>1. Htp!SpansExact
  BY DEF EInv, MarkKept, MarkPlaced, Htp!SpansExact
<1>2. Htp!BodyAsDeclared
  BY HttpAssumption DEF EInv, GapKept, Htp!BodyAsDeclared, HttpTypes, Htp!TypeOK, Htp!StartStates, Htp!Max64
<1>3. Htp!CallbacksInOrder
  BY DEF EInv, EventKept, Htp!CallbacksInOrder, Htp!StartStates, Htp!BodyStates, LineStates, FieldStates, SizeStates, DataStates
<1>4. Htp!AssertionsHold
  BY DEF EInv, StateKept, Htp!AssertionsHold, SizeStates, DataStates
<1> QED
  BY <1>1, <1>2, <1>3, <1>4 DEF Htp!EventsIndependentOfChunks

LEMMA Width ==
  /\ Htp!Max64 \in Nat /\ Htp!Max64 > 2
  /\ \A x \in Nat : x % 2^HttpWidth \in 0..Htp!Max64
<1> DEFINE w == 2^HttpWidth
<1>1. w \in Nat /\ w > 3 /\ Htp!Max64 = w - 1
  BY HttpAssumption DEF Htp!Max64
<1> HIDE DEF w
<1>2. \A x \in Nat : x % w \in 0..(w - 1)
  BY <1>1
<1> QED
  BY <1>1, <1>2 DEF w

(* What the callback of a mark is given.                                   *)
LEMMA Gives ==
  ASSUME EInv, errno # "error", Htp!Give(mark, 0)
  PROVE  /\ exact' /\ owed' = 0 /\ mark' = Htp!NoMark
         /\ gap' = IF mark.f = "body" THEN gap - mark.n ELSE gap
         /\ event' = IF mark.f = "none" THEN event ELSE mark.f
<1>1. /\ mark \in [f : {"none", "field", "value", "url", "body"}, n : Nat] /\ exact
      /\ owed = mark.n /\ (mark.f = "none" => mark.n = 0)
  BY DEF EInv, HttpTypes, MarkKept
<1>2. CASE mark.f = "none"
  <2>1. mark = Htp!NoMark
    BY <1>1, <1>2 DEF Htp!NoMark
  <2> QED
    BY <1>1, <1>2, <2>1 DEF Htp!Give
<1>3. CASE mark.f # "none" /\ mark.f # "body"
  BY <1>1, <1>3 DEF Htp!Give
<1>4. CASE mark.f = "body"
  <2>1. gap' = gap - (mark.n + 0) /\ gap \in Int
    BY <1>4 DEF Htp!Give, EInv, HttpTypes, Htp!TypeOK, GapKept, MarkPlaced, Htp!Fields
  <2>2. exact' /\ owed' = 0 /\ mark' = Htp!NoMark /\ event' = "body"
    BY <1>1, <1>4 DEF Htp!Give
  <2>3. gap' = gap - mark.n
    BY <1>1, <2>1
  <2> QED
    BY <1>4, <2>2, <2>3
<1> QED
  BY <1>2, <1>3, <1>4

LEMMA GivesAndAnswers ==
  ASSUME EInv, call # "none", Htp!CALLBACK_DATA
  PROVE  /\ exact' /\ owed' = 0 /\ mark' = Htp!NoMark
         /\ gap' = IF mark.f = "body" THEN gap - mark.n ELSE gap
         /\ event' = IF mark.f = "none" THEN event ELSE mark.f
         /\ errno' \in Htp!Answers /\ call' = IF errno' = "ok" THEN "fed" ELSE "none"
<1>1. errno = "ok" /\ Htp!Give(mark, 0)
  BY DEF EInv, Htp!CALLBACK_DATA
<1>2. errno' \in Htp!Answers /\ call' = IF errno' = "ok" THEN "fed" ELSE "none"
  BY <1>1 DEF Htp!CALLBACK_DATA, Htp!NextByte, Htp!Answer, Htp!Answers
<1> QED
  BY <1>1, <1>2, Gives

LEMMA GivesBody ==
  ASSUME EInv, call # "none", hstate \in {"s_body_identity", "s_chunk_data"}, NEW n \in Nat,
         Htp!Give(Htp!Body(mark), n)
  PROVE  /\ exact' /\ owed' = 0 /\ mark' = Htp!NoMark /\ gap' = gap - n /\ event' = "body"
<1>1. mark.f = "none" /\ mark.n = 0 /\ owed = 0 /\ gap \in Int /\ exact
  BY DEF EInv, HttpTypes, Htp!TypeOK, MarkKept, MarkPlaced, GapKept, Htp!Fields
<1>2. Htp!Body(mark) = [f |-> "body", n |-> 0]
  BY <1>1 DEF Htp!Body
<1>3. /\ exact' = (exact /\ 0 = owed) /\ owed' = 0 /\ mark' = Htp!NoMark
      /\ gap' = gap - (0 + n) /\ event' = "body"
  BY <1>2 DEF Htp!Give
<1>4. exact'
  BY <1>1, <1>3, Zenon
<1>5. gap' = gap - n
  BY <1>1, <1>3
<1> QED
  BY <1>3, <1>4, <1>5

LEMMA NewMessages == Htp!NewMessage \in {"s_start_req", "s_start_res", "s_dead"}
BY DEF Htp!NewMessage, Htp!start_state

LEMMA NextEInv == ASSUME EInv, [Htp!Next]_httpVars PROVE EInv'
<1> USE DEF EInv, HttpTypes, Htp!TypeOK, MarkPlaced, MarkKept, GapKept, EventKept, StateKept,
      Htp!StartStates, FieldStates, LineStates, SizeStates, DataStates, Htp!Fields, Htp!NoMark, Htp!Answers,
      Htp!At, Htp!Reads, Htp!ParsingHeader, Htp!BodyStates, Htp!Go, Htp!Quiet, Htp!NextByte,
      Htp!SameField
<1>w. Htp!Max64 \in Nat /\ Htp!Max64 > 2 /\ HttpMaxHeaderSize \in Nat
  BY Width, HttpAssumption
<1>1. CASE \E t \in {"request", "response"} : Htp!http_parser_init(t)
  BY <1>w, <1>1 DEF Htp!http_parser_init
<1>2. CASE Htp!ExecuteBegin
  BY <1>w, <1>2 DEF Htp!ExecuteBegin
<1>3. CASE Htp!ExecuteEof
  BY <1>w, <1>3 DEF Htp!ExecuteEof
<1>4. CASE Htp!ExecuteEnd
  <2>1. errno = "ok" /\ Htp!Give(mark, 0)
    BY <1>4 DEF Htp!ExecuteEnd
  <2>2. errno' \in Htp!Answers /\ call' = "none" /\ UNCHANGED <<htype, hstate, hname, hpflags, clen, nread, about>>
        /\ (mark.f = "none" => errno' = errno)
    BY <1>4, <2>1 DEF Htp!ExecuteEnd
  <2>3. /\ exact' /\ owed' = 0 /\ mark' = Htp!NoMark
        /\ gap' = IF mark.f = "body" THEN gap - mark.n ELSE gap
        /\ event' = IF mark.f = "none" THEN event ELSE mark.f
    BY <2>1, Gives
  <2> QED
    BY <2>1, <2>2, <2>3, <1>w
<1>5. CASE Htp!http_parser_pause
  BY <1>w, <1>5 DEF Htp!http_parser_pause
<1>6. CASE Htp!HeaderOverflow
  BY <1>w, <1>6 DEF Htp!HeaderOverflow
<1>7. CASE Htp!BadByte
  BY <1>w, <1>7 DEF Htp!BadByte, Htp!Lenient
<1>8. CASE Htp!SkipLineEnds
  BY <1>w, <1>8 DEF Htp!SkipLineEnds
<1>9. CASE Htp!ResOrRespH
  BY <1>w, <1>9 DEF Htp!ResOrRespH
<1>10. CASE Htp!ResVersion
  BY <1>w, <1>10 DEF Htp!ResVersion
<1>11. CASE Htp!ResStatus
  BY <1>w, <1>11 DEF Htp!ResStatus
<1>12. CASE Htp!ResLineEnd
  BY <1>w, <1>12 DEF Htp!ResLineEnd
<1>13. CASE Htp!ReqMethod
  BY <1>w, <1>13 DEF Htp!ReqMethod
<1>14. CASE Htp!ReqVersion
  BY <1>w, <1>14 DEF Htp!ReqVersion
<1>15. CASE Htp!LineAlmostDone
  BY <1>w, <1>15 DEF Htp!LineAlmostDone
<1>16. CASE Htp!HeadersEnd
  BY <1>w, <1>16 DEF Htp!HeadersEnd
<1>17. CASE Htp!HeaderAlmostDone
  BY <1>w, <1>17 DEF Htp!HeaderAlmostDone
<1>18. CASE Htp!HeaderFold
  BY <1>w, <1>18 DEF Htp!HeaderFold
<1>19. CASE Htp!ChunkParameters
  BY <1>w, <1>19 DEF Htp!ChunkParameters
<1>20. CASE Htp!ChunkDataDone
  BY <1>w, <1>20 DEF Htp!ChunkDataDone
<1>21. CASE Htp!ChunkSizeAlmostDone
  BY <1>w, <1>21 DEF Htp!ChunkSizeAlmostDone
<1>22. CASE Htp!StartReqOrRes
  <2>1. /\ hstate = "s_start_req_or_res" /\ hstate' \in {"s_res_or_resp_H", "s_req_method"}
        /\ htype' \in {htype, "request"} /\ hpflags' = {} /\ clen' = Htp!Max64 /\ hname' = hname
        /\ nread' = nread + 1 /\ nread < HttpMaxHeaderSize
        /\ event' = "begin" /\ gap' = gap /\ UNCHANGED <<mark, owed, exact>>
        /\ errno' \in Htp!Answers /\ call' = (IF errno' = "ok" THEN "fed" ELSE "none") /\ call # "none"
    BY <1>22 DEF Htp!StartReqOrRes, Htp!CALLBACK_NOTIFY, Htp!Answer, Htp!Answers
  <2> QED
    BY <2>1, <1>w
<1>23. CASE Htp!StartRes
  BY <1>w, <1>23 DEF Htp!StartRes, Htp!CALLBACK_NOTIFY, Htp!Answer
<1>24. CASE Htp!StartReq
  BY <1>w, <1>24 DEF Htp!StartReq, Htp!CALLBACK_NOTIFY, Htp!Answer
<1>25. CASE Htp!ReqUrlStart
  BY <1>w, <1>25 DEF Htp!ReqUrlStart, Htp!MARK
<1>26. CASE Htp!ReqUrl
  <2>1. CASE Htp!Go("s_req_url") /\ Htp!Within /\ Htp!NextByte /\ UNCHANGED about
    <3>1. /\ hstate = "s_req_url" /\ hstate' = hstate /\ call # "none" /\ call' = "fed" /\ errno' = errno
          /\ UNCHANGED <<htype, hname, hpflags, clen, exact, gap, event>>
          /\ nread \in 0..HttpMaxHeaderSize /\ nread' = nread + 1
      BY <1>26, <2>1, <1>w DEF Htp!ReqUrl, Htp!Within
    <3>2. mark.f = "url" /\ mark' = [mark EXCEPT !.n = @ + 1] /\ owed' = owed + 1
      BY <2>1, <3>1 DEF Htp!Within
    <3> QED
      BY <3>1, <3>2, <1>w
  <2>2. CASE Htp!CALLBACK_DATA
    <3>1. /\ call # "none" /\ UNCHANGED <<htype, hname, hpflags, clen>>
          /\ nread' = (IF Htp!ParsingHeader(hstate) THEN nread + 1 ELSE nread)
          /\ nread' \in 0..HttpMaxHeaderSize + 1
      BY <1>26, <2>2, <1>w DEF Htp!ReqUrl
    <3>2. /\ exact' /\ owed' = 0 /\ mark' = Htp!NoMark
          /\ gap' = IF mark.f = "body" THEN gap - mark.n ELSE gap
          /\ event' = IF mark.f = "none" THEN event ELSE mark.f
          /\ errno' \in Htp!Answers /\ call' = IF errno' = "ok" THEN "fed" ELSE "none"
      BY <2>2, <3>1, GivesAndAnswers
    <3>3. mark.f = "url" /\ hstate = "s_req_url"
      BY <1>26, <3>1 DEF Htp!ReqUrl
    <3>4. CASE hstate' \in {"s_req_http", "s_line_almost_done", "s_header_field_start"}
      BY <3>1, <3>2, <3>3, <3>4, <1>w
    <3> QED
      BY <1>26, <2>1, <3>4 DEF Htp!ReqUrl
  <2> QED
    BY <1>26, <2>1, <2>2 DEF Htp!ReqUrl
<1>27. CASE Htp!HeaderFieldStart
  BY <1>w, <1>27 DEF Htp!HeaderFieldStart, Htp!MARK, Htp!FirstLetter
<1>28. CASE Htp!HeaderField
  BY <1>w, <1>28 DEF Htp!HeaderField, Htp!Within
<1>29. CASE Htp!HeaderFieldEnd
  <2>2. CASE Htp!CALLBACK_DATA
    <3>1. /\ call # "none" /\ UNCHANGED <<htype, hname, hpflags, clen>>
          /\ nread' = (IF Htp!ParsingHeader(hstate) THEN nread + 1 ELSE nread)
          /\ nread' \in 0..HttpMaxHeaderSize + 1
      BY <1>29, <2>2, <1>w DEF Htp!HeaderFieldEnd
    <3>2. /\ exact' /\ owed' = 0 /\ mark' = Htp!NoMark
          /\ gap' = IF mark.f = "body" THEN gap - mark.n ELSE gap
          /\ event' = IF mark.f = "none" THEN event ELSE mark.f
          /\ errno' \in Htp!Answers /\ call' = IF errno' = "ok" THEN "fed" ELSE "none"
      BY <2>2, <3>1, GivesAndAnswers
    <3> QED
      BY <1>29, <2>2, <3>1, <3>2, <1>w DEF Htp!HeaderFieldEnd
  <2> QED
    BY <1>29, <2>2 DEF Htp!HeaderFieldEnd
<1>30. CASE Htp!HeaderValueStart
  BY <1>w, <1>30 DEF Htp!HeaderValueStart, Htp!MARK, Htp!FirstOfValue, Htp!Digit
<1>31. CASE Htp!HeaderValueEmpty
  <2>1. /\ hstate = "s_header_value_start" /\ nread' = nread + 1 /\ nread < HttpMaxHeaderSize
        /\ errno' \in Htp!Answers /\ call' = (IF errno' = "ok" THEN "fed" ELSE "none") /\ call # "none"
        /\ hstate' \in {"s_header_almost_done", "s_header_field_start"}
        /\ mark' = Htp!NoMark /\ event' = "value"
        /\ UNCHANGED <<htype, hpflags, clen, about, owed, gap>>
    BY <1>31 DEF Htp!HeaderValueEmpty, Htp!Answer, Htp!Answers
  <2>2. mark.f = "none" /\ owed = 0
    BY <2>1
  <2>3. exact'
    BY <1>31, <2>2 DEF Htp!HeaderValueEmpty
  <2> QED
    BY <2>1, <2>2, <2>3, <1>w
<1>32. CASE Htp!HeaderValue
  <2>1. /\ hstate = "s_header_value" /\ hstate' = hstate /\ call # "none" /\ call' = "fed" /\ errno' = errno
        /\ UNCHANGED <<htype, hpflags, exact, gap, event>>
        /\ nread < HttpMaxHeaderSize /\ nread' = nread + 1
    BY <1>32 DEF Htp!HeaderValue, Htp!Within
  <2>2. mark.f = "value" /\ mark' = [mark EXCEPT !.n = @ + 1] /\ owed' = owed + 1
    BY <1>32, <2>1 DEF Htp!HeaderValue, Htp!Within
  <2>3. hname' \notin {"connection", "transfer_encoding"}
    BY <1>32, <2>1 DEF Htp!HeaderValue, Htp!Matched
  <2>4. clen' \in 0..Htp!Max64
    <3>1. CASE clen' = clen
      BY <3>1
    <3>2. ASSUME NEW d \in Htp!Digit, clen' = (clen * 10 + d) % 2^HttpWidth PROVE clen' \in 0..Htp!Max64
      <4>1. clen * 10 + d \in Nat
        BY <1>w DEF Htp!Digit
      <4> QED
        BY <3>2, <4>1, Width
    <3> QED
      BY <1>32, <3>1, <3>2 DEF Htp!HeaderValue
  <2> QED
    BY <2>1, <2>2, <2>3, <2>4, <1>w
<1>33. CASE Htp!HeaderValueEnd
  <2>2. CASE Htp!CALLBACK_DATA
    <3>1. /\ call # "none" /\ UNCHANGED <<htype, hname, hpflags, clen>>
          /\ nread' = (IF Htp!ParsingHeader(hstate) THEN nread + 1 ELSE nread)
          /\ nread' \in 0..HttpMaxHeaderSize + 1
      BY <1>33, <2>2, <1>w DEF Htp!HeaderValueEnd
    <3>2. /\ exact' /\ owed' = 0 /\ mark' = Htp!NoMark
          /\ gap' = IF mark.f = "body" THEN gap - mark.n ELSE gap
          /\ event' = IF mark.f = "none" THEN event ELSE mark.f
          /\ errno' \in Htp!Answers /\ call' = IF errno' = "ok" THEN "fed" ELSE "none"
      BY <2>2, <3>1, GivesAndAnswers
    <3> QED
      BY <1>33, <2>2, <3>1, <3>2, <1>w DEF Htp!HeaderValueEnd
  <2> QED
    BY <1>33, <2>2 DEF Htp!HeaderValueEnd
<1>34. CASE Htp!HeaderNext
  <2>1. /\ hstate = "s_header_value_lws" /\ nread' = nread + 1 /\ nread < HttpMaxHeaderSize
        /\ errno' = errno /\ call' = "fed" /\ call # "none"
        /\ UNCHANGED <<htype, hpflags, clen, gap, exact, event>>
    BY <1>34 DEF Htp!HeaderNext, Htp!MARK
  <2>2. mark = Htp!NoMark
    BY <2>1
  <2>3. CASE hstate' = "s_header_field" /\ Htp!MARK("field", 1)
    <3>1. mark' = [f |-> "field", n |-> 1] /\ owed' = 1
      BY <2>1, <2>2, <2>3 DEF Htp!MARK
    <3> QED
      BY <2>1, <2>2, <2>3, <3>1, <1>w
  <2>4. CASE hstate' = "s_headers_almost_done" /\ Htp!Quiet
    BY <2>1, <2>2, <2>4, <1>w
  <2> QED
    BY <1>34, <2>3, <2>4 DEF Htp!HeaderNext
<1>35. CASE Htp!HeadersAlmostDone
  <2>1. /\ hstate = "s_headers_almost_done" /\ nread' = nread + 1 /\ nread < HttpMaxHeaderSize
        /\ errno' \in Htp!Answers /\ call' = (IF errno' = "ok" THEN "fed" ELSE "none") /\ call # "none"
        /\ UNCHANGED <<htype, hname, clen, mark, owed, exact, gap>>
        /\ \/ "trailing" \in hpflags /\ hstate' = Htp!NewMessage /\ event' = "complete" /\ hpflags' = hpflags
           \/ /\ "trailing" \notin hpflags /\ hstate' = "s_headers_done" /\ event' = "headers"
              /\ hpflags' \in {hpflags, hpflags \cup {"skipbody"}}
    BY <1>35 DEF Htp!HeadersAlmostDone, Htp!CALLBACK_NOTIFY, Htp!Answer, Htp!Answers
  <2>2. CASE hstate' = Htp!NewMessage /\ event' = "complete" /\ hpflags' = hpflags
    <3>1. hstate' \in {"s_start_req", "s_start_res", "s_dead"}
      BY <2>2, NewMessages
    <3> QED
      BY <2>1, <2>2, <3>1, <1>w
  <2> QED
    BY <2>1, <2>2, <1>w
<1>36. CASE Htp!HeadersDone
  <2>1. /\ hstate = "s_headers_done" /\ nread' = 0 /\ call # "none"
        /\ UNCHANGED <<htype, hname, hpflags, clen, mark, owed, exact>>
        /\ errno' \in Htp!Answers /\ call' \in {"fed", "none"} /\ (errno' # "ok" => call' = "none")
    BY <1>36 DEF Htp!HeadersDone, Htp!Answers
  <2>2. gap = 0 /\ mark.f = "none" /\ event = "headers" /\ errno = "ok"
    BY <2>1
  <2>3. CASE hstate' = Htp!NewMessage /\ event' = "complete" /\ gap' = gap
    <3>1. hstate' \in {"s_start_req", "s_start_res", "s_dead"}
      BY <2>3, NewMessages
    <3> QED
      BY <2>1, <2>2, <2>3, <3>1, <1>w
  <2>4. CASE "chunked" \in hpflags /\ hstate' = "s_chunk_size_start" /\ UNCHANGED <<event, gap>>
    BY <2>1, <2>2, <2>4, <1>w
  <2>5. CASE clen # 0 /\ clen # Htp!Max64 /\ hstate' = "s_body_identity" /\ gap' = gap + clen /\ event' = event
    BY <2>1, <2>2, <2>5, <1>w
  <2>6. CASE hstate' = "s_body_identity_eof" /\ UNCHANGED <<event, gap>>
    BY <2>1, <2>2, <2>6, <1>w
  <2> QED
    BY <1>36, <2>3, <2>4, <2>5, <2>6
    DEF Htp!HeadersDone, Htp!NoBody
<1>37. CASE Htp!BodyIdentity
  <2>1. /\ hstate = "s_body_identity" /\ nread' = nread /\ call # "none"
        /\ UNCHANGED <<htype, hname, hpflags>>
    BY <1>37 DEF Htp!BodyIdentity
  <2>2. gap = clen /\ clen \in 1..Htp!Max64 /\ clen # Htp!Max64 /\ mark.f = "none" /\ mark = Htp!NoMark /\ owed = 0
    BY <2>1, <1>w
  <2>3. ASSUME NEW n \in 1..(clen - 1), clen' = clen - n, Htp!RestOfChunk(n), UNCHANGED hstate PROVE EInv'
    <3>1. /\ exact' /\ owed' = 0 /\ mark' = Htp!NoMark /\ gap' = gap - n /\ event' = "body"
      BY <2>1, <2>2, <2>3, <1>w, GivesBody DEF Htp!RestOfChunk
    <3>2. errno' \in Htp!Answers /\ call' = "none"
      BY <2>3 DEF Htp!RestOfChunk
    <3> QED
      BY <2>1, <2>2, <2>3, <3>1, <3>2, <1>w
  <2>4. ASSUME clen' = 0, hstate' = "s_message_done", Htp!Give(Htp!Body(mark), clen),
               errno' \in Htp!Answers, call' = (IF errno' = "ok" THEN "fed" ELSE "none")
        PROVE  EInv'
    <3>1. /\ exact' /\ owed' = 0 /\ mark' = Htp!NoMark /\ gap' = gap - clen /\ event' = "body"
      BY <2>1, <2>2, <2>4, <1>w, GivesBody
    <3> QED
      BY <2>1, <2>2, <2>4, <3>1, <1>w
  <2> QED
    BY <1>37, <2>3, <2>4 DEF Htp!BodyIdentity, Htp!Answer
<1>38. CASE Htp!BodyIdentityEof
  BY <1>w, <1>38 DEF Htp!BodyIdentityEof
<1>39. CASE Htp!MessageDone
  BY <1>w, <1>39 DEF Htp!MessageDone, Htp!CALLBACK_NOTIFY, Htp!Answer, Htp!NewMessage, Htp!start_state
<1>40. CASE Htp!ChunkSizeStart
  BY <1>w, <1>40 DEF Htp!ChunkSizeStart, Htp!Digit
<1>41. CASE Htp!ChunkSize
  <2>1. /\ hstate = "s_chunk_size" /\ nread' = nread + 1 /\ nread < HttpMaxHeaderSize
        /\ errno' = errno /\ call' = "fed" /\ call # "none"
        /\ UNCHANGED <<htype, hname, hpflags, mark, owed, exact, gap, event>>
        /\ hstate' \in {"s_chunk_size", "s_chunk_size_almost_done", "s_chunk_parameters"}
    BY <1>41 DEF Htp!ChunkSize
  <2>2. clen' \in 0..Htp!Max64 /\ clen' # Htp!Max64
    <3>1. CASE clen' = clen
      BY <3>1, <2>1
    <3>2. ASSUME NEW d \in Htp!Digit, clen' = (clen * 16 + d) % 2^HttpWidth, Htp!Larger(clen')
          PROVE clen' \in 0..Htp!Max64 /\ clen' # Htp!Max64
      <4>1. clen * 16 + d \in Nat
        BY <1>w DEF Htp!Digit
      <4>2. clen' \in 0..Htp!Max64
        BY <3>2, <4>1, Width
      <4> QED
        BY <3>2, <4>2 DEF Htp!Larger
    <3> QED
      BY <1>41, <3>1, <3>2 DEF Htp!ChunkSize
  <2> QED
    BY <2>1, <2>2, <1>w
<1>42. CASE Htp!ChunkData
  <2>1. /\ hstate = "s_chunk_data" /\ nread' = nread /\ call # "none"
        /\ UNCHANGED <<htype, hname, hpflags>>
    BY <1>42 DEF Htp!ChunkData
  <2>2. gap = clen /\ clen \in 1..Htp!Max64 /\ clen # Htp!Max64 /\ mark.f = "none" /\ mark = Htp!NoMark /\ owed = 0
    BY <2>1, <1>w
  <2>3. ASSUME NEW n \in 1..(clen - 1), clen' = clen - n, Htp!RestOfChunk(n), UNCHANGED hstate PROVE EInv'
    <3>1. /\ exact' /\ owed' = 0 /\ mark' = Htp!NoMark /\ gap' = gap - n /\ event' = "body"
      BY <2>1, <2>2, <2>3, <1>w, GivesBody DEF Htp!RestOfChunk
    <3>2. errno' \in Htp!Answers /\ call' = "none"
      BY <2>3 DEF Htp!RestOfChunk
    <3> QED
      BY <2>1, <2>2, <2>3, <3>1, <3>2, <1>w
  <2>4. ASSUME clen' = 0, hstate' = "s_chunk_data_almost_done", Htp!MARK("body", clen), Htp!NextByte
        PROVE  EInv'
    <3>1. /\ mark' = [f |-> "body", n |-> clen] /\ owed' = clen /\ UNCHANGED <<exact, gap, event>>
          /\ errno' = errno /\ call' = "fed"
      BY <2>2, <2>4 DEF Htp!MARK
    <3> QED
      BY <2>1, <2>2, <2>4, <3>1, <1>w
  <2> QED
    BY <1>42, <2>3, <2>4 DEF Htp!ChunkData
<1>43. CASE Htp!ChunkDataAlmostDone
  <2>2. CASE Htp!CALLBACK_DATA
    <3>1. /\ call # "none" /\ UNCHANGED <<htype, hname, hpflags, clen>>
          /\ nread' = (IF Htp!ParsingHeader(hstate) THEN nread + 1 ELSE nread)
          /\ nread' \in 0..HttpMaxHeaderSize + 1
      BY <1>43, <2>2, <1>w DEF Htp!ChunkDataAlmostDone
    <3>2. /\ exact' /\ owed' = 0 /\ mark' = Htp!NoMark
          /\ gap' = IF mark.f = "body" THEN gap - mark.n ELSE gap
          /\ event' = IF mark.f = "none" THEN event ELSE mark.f
          /\ errno' \in Htp!Answers /\ call' = IF errno' = "ok" THEN "fed" ELSE "none"
      BY <2>2, <3>1, GivesAndAnswers
    <3> QED
      BY <1>43, <2>2, <3>1, <3>2, <1>w DEF Htp!ChunkDataAlmostDone
  <2> QED
    BY <1>43, <2>2 DEF Htp!ChunkDataAlmostDone
<1>44. CASE UNCHANGED httpVars
  BY <1>44 DEF httpVars, Htp!http_should_keep_alive, Htp!http_message_needs_eof
<1> QED
  BY <1>1, <1>2, <1>3, <1>4, <1>5, <1>6, <1>7, <1>8, <1>9, <1>10, <1>11, <1>12, <1>13, <1>14, <1>15, <1>16, <1>17, <1>18, <1>19, <1>20, <1>21, <1>22, <1>23, <1>24, <1>25, <1>26, <1>27, <1>28, <1>29, <1>30, <1>31, <1>32, <1>33, <1>34, <1>35, <1>36, <1>37, <1>38, <1>39, <1>40, <1>41, <1>42, <1>43, <1>44 DEF Htp!Next

-----------------------------------------------------------------------------
(* HttpBinding.                                                            *)

Byte == {"junk", "url", "field", "value", "none"} \X Nat \X Nat
Ptr == [at : Nat, size : Nat, heap : Seq(Byte), on_heap : BOOLEAN]
Header == Seq(Byte) \X Seq(Byte)

(* A StringPtr on the heap, or in the first n bytes of the buffer, and     *)
(* what it stands for.                                                     *)
Lies(s, n) ==
  IF s.on_heap THEN s.at = 0 /\ s.size = 0
  ELSE (s.at = 0 => s.size = 0) /\ (s.size # 0 => s.at + s.size <= n + 1)

Text(s, data) ==
  IF s.on_heap THEN s.heap
  ELSE [i \in 1..s.size |-> IF s.at + i - 1 \in DOMAIN data THEN data[s.at + i - 1] ELSE Hbi!Junk]

LEMMA TextIs == ASSUME NEW s PROVE Hbi!ToString(s) = Text(s, hmem)
BY DEF Hbi!ToString, Hbi!InBuffer, Text

LEMMA JunkIsByte == Hbi!Junk \in Byte
BY DEF Hbi!Junk, Byte

LEMMA NullIs == ASSUME NEW n \in Nat, NEW data \in Seq(Byte)
                PROVE Hbi!Null \in Ptr /\ Lies(Hbi!Null, n) /\ Text(Hbi!Null, data) = <<>>
<1>1. Hbi!Null \in Ptr
  BY EmptySeq DEF Hbi!Null, Ptr
<1>2. Text(Hbi!Null, data) = <<>>
  <2>1. Text(Hbi!Null, data) = [i \in 1..0 |-> IF 0 + i - 1 \in DOMAIN data THEN data[0 + i - 1] ELSE Hbi!Junk]
    BY DEF Text, Hbi!Null
  <2> QED
    BY <2>1
<1> QED
  BY <1>1, <1>2 DEF Lies, Hbi!Null

LEMMA TextIn ==
  ASSUME NEW s \in Ptr, NEW data \in Seq(Byte), ~s.on_heap, Lies(s, Len(data))
  PROVE  /\ Text(s, data) \in Seq(Byte) /\ Len(Text(s, data)) = s.size
         /\ \A i \in 1..s.size : Text(s, data)[i] = data[s.at + i - 1]
<1>1. s.at \in Nat /\ s.size \in Nat /\ DOMAIN data = 1..Len(data) /\ Len(data) \in Nat
  BY LenProperties DEF Ptr
<1>2. \A i \in 1..s.size : s.at + i - 1 \in 1..Len(data)
  BY <1>1 DEF Lies
<1>3. Text(s, data) = [i \in 1..s.size |-> IF s.at + i - 1 \in DOMAIN data THEN data[s.at + i - 1] ELSE Hbi!Junk]
  BY DEF Text
<1>4. Text(s, data) \in [1..s.size -> Byte] /\ \A i \in 1..s.size : Text(s, data)[i] = data[s.at + i - 1]
  BY <1>1, <1>2, <1>3, ElementOfSeq
<1> QED
  BY <1>1, <1>4, SeqDef, LenProperties

LEMMA TextIsSeq ==
  ASSUME NEW s \in Ptr, NEW data \in Seq(Byte), Lies(s, Len(data))
  PROVE  Text(s, data) \in Seq(Byte)
<1>1. CASE s.on_heap
  BY <1>1 DEF Text, Ptr
<1> QED
  BY <1>1, TextIn

(* The buffer goes on.                                                     *)
LEMMA TextStays ==
  ASSUME NEW s \in Ptr, NEW data \in Seq(Byte), NEW more \in Seq(Byte), Lies(s, Len(data))
  PROVE  Lies(s, Len(data \o more)) /\ Text(s, data \o more) = Text(s, data)
<1>1. data \o more \in Seq(Byte) /\ Len(data \o more) = Len(data) + Len(more) /\ Len(data) \in Nat /\ Len(more) \in Nat
      /\ \A i \in 1..Len(data) : (data \o more)[i] = data[i]
  BY ConcatProperties, LenProperties
<1>2. Lies(s, Len(data \o more))
  BY <1>1 DEF Lies, Ptr
<1>3. CASE s.on_heap
  BY <1>2, <1>3 DEF Text
<1>4. CASE ~s.on_heap
  <2>1. /\ Text(s, data \o more) \in Seq(Byte) /\ Len(Text(s, data \o more)) = s.size
        /\ \A i \in 1..s.size : Text(s, data \o more)[i] = (data \o more)[s.at + i - 1]
    BY <1>1, <1>2, <1>4, TextIn
  <2>2. /\ Text(s, data) \in Seq(Byte) /\ Len(Text(s, data)) = s.size
        /\ \A i \in 1..s.size : Text(s, data)[i] = data[s.at + i - 1]
    BY <1>4, TextIn
  <2>3. \A i \in 1..s.size : s.at + i - 1 \in 1..Len(data)
    BY <1>1, <1>4 DEF Lies, Ptr
  <2>4. \A i \in 1..s.size : Text(s, data \o more)[i] = Text(s, data)[i]
    BY <1>1, <2>1, <2>2, <2>3
  <2> QED
    BY <1>2, <2>1, <2>2, <2>4, SeqEqual
<1> QED
  BY <1>3, <1>4

LEMMA PtrOf ==
  ASSUME NEW a \in Nat, NEW n \in Nat, NEW h \in Seq(Byte), NEW b \in BOOLEAN
  PROVE  [at |-> a, size |-> n, heap |-> h, on_heap |-> b] \in Ptr
BY DEF Ptr

(* Save keeps the text when the buffer is left.                            *)
LEMMA TextSaved ==
  ASSUME NEW s \in Ptr, hmem \in Seq(Byte), Lies(s, Len(hmem))
  PROVE  Hbi!Save(s) \in Ptr /\ Lies(Hbi!Save(s), 0) /\ Text(Hbi!Save(s), <<>>) = Text(s, hmem)
<1>1. CASE ~s.on_heap /\ s.size > 0
  <2>1. Hbi!Save(s) = [at |-> 0, size |-> 0, heap |-> Text(s, hmem), on_heap |-> TRUE]
    BY <1>1, TextIs DEF Hbi!Save, Hbi!Null
  <2>2. Text(s, hmem) \in Seq(Byte)
    BY TextIsSeq
  <2> QED
    BY <2>1, <2>2 DEF Ptr, Lies, Text
<1>2. CASE s.on_heap
  <2>1. Hbi!Save(s) = s
    BY <1>2 DEF Hbi!Save
  <2> QED
    BY <1>2, <2>1 DEF Ptr, Lies, Text
<1>3. CASE ~s.on_heap /\ s.size = 0
  <2>1. Hbi!Save(s) = s
    BY <1>3 DEF Hbi!Save
  <2>2. \A data : Text(s, data) = <<>>
    <3> TAKE data
    <3>1. Text(s, data) = [i \in 1..0 |-> IF s.at + i - 1 \in DOMAIN data THEN data[s.at + i - 1] ELSE Hbi!Junk]
      BY <1>3 DEF Text
    <3> QED
      BY <3>1
  <2> QED
    BY <1>3, <2>1, <2>2 DEF Lies
<1> QED
  BY <1>1, <1>2, <1>3 DEF Ptr

(* Update appends bytes that lie behind what the buffer had.               *)
LEMMA TextUpdated ==
  ASSUME NEW s \in Ptr, hmem \in Seq(Byte), Lies(s, Len(hmem)),
         NEW bytes \in Seq(Byte), NEW u, u = Hbi!Update(s, Len(hmem) + 1, bytes)
  PROVE  /\ u \in Ptr /\ Lies(u, Len(hmem \o bytes))
         /\ Text(u, hmem \o bytes) = Text(s, hmem) \o bytes
<1> DEFINE data == hmem \o bytes
<1>0. data \in Seq(Byte) /\ Len(data) = Len(hmem) + Len(bytes) /\ Len(hmem) \in Nat /\ Len(bytes) \in Nat
  BY ConcatProperties, LenProperties
<1>1. /\ \A i \in 1..Len(hmem) : data[i] = hmem[i]
      /\ \A i \in 1..Len(bytes) : data[Len(hmem) + i] = bytes[i]
  BY ConcatProperties, LenProperties
<1>2. s.at \in Nat /\ s.size \in Nat /\ s.heap \in Seq(Byte) /\ s.on_heap \in BOOLEAN
  BY DEF Ptr
<1>3. Text(s, hmem) \in Seq(Byte)
  BY TextIsSeq
<1> HIDE DEF data
<1>4. CASE Hbi!IsNull(s)
  <2>1. u = [at |-> Len(hmem) + 1, size |-> Len(bytes), heap |-> <<>>, on_heap |-> FALSE]
    BY <1>4 DEF Hbi!Update, Hbi!Null
  <2>a. ~u.on_heap /\ u.at = Len(hmem) + 1 /\ u.size = Len(bytes)
    BY <2>1
  <2>b. u \in Ptr
    <3>1. Len(hmem) + 1 \in Nat /\ <<>> \in Seq(Byte)
      BY <1>0, EmptySeq
    <3> QED
      BY <1>0, <2>1, <3>1, PtrOf, Zenon
  <2>2. u \in Ptr /\ Lies(u, Len(data)) /\ ~u.on_heap
    BY <1>0, <2>a, <2>b DEF Lies
  <2>3. /\ Text(u, data) \in Seq(Byte) /\ Len(Text(u, data)) = Len(bytes)
        /\ \A i \in 1..Len(bytes) : Text(u, data)[i] = data[Len(hmem) + 1 + i - 1]
    <3>1. /\ Text(u, data) \in Seq(Byte) /\ Len(Text(u, data)) = u.size
          /\ \A i \in 1..u.size : Text(u, data)[i] = data[u.at + i - 1]
      BY <1>0, <2>2, TextIn
    <3> QED
      BY <2>a, <3>1
  <2>4. \A i \in 1..Len(bytes) : Text(u, data)[i] = bytes[i]
    <3>1. \A i \in 1..Len(bytes) : Len(hmem) + 1 + i - 1 = Len(hmem) + i
      BY <1>0
    <3> QED
      BY <1>1, <2>3, <3>1
  <2>5. Text(u, data) = bytes
    BY <2>3, <2>4, SeqEqual
  <2>6. Text(s, hmem) = <<>>
    <3>1. ~s.on_heap /\ s.size = 0
      BY <1>4 DEF Hbi!IsNull, Lies
    <3>2. Text(s, hmem) = [i \in 1..0 |-> IF s.at + i - 1 \in DOMAIN hmem THEN hmem[s.at + i - 1] ELSE Hbi!Junk]
      BY <3>1 DEF Text
    <3> QED
      BY <3>2
  <2> QED
    BY <2>2, <2>5, <2>6, ConcatEmptySeq DEF data
<1>5. CASE ~Hbi!IsNull(s) /\ (s.on_heap \/ s.at + s.size # Len(hmem) + 1)
  <2>1. u = [at |-> 0, size |-> 0, heap |-> Text(s, hmem) \o bytes, on_heap |-> TRUE]
    BY <1>5, TextIs DEF Hbi!Update, Hbi!Null
  <2>2. Text(s, hmem) \o bytes \in Seq(Byte)
    BY <1>3, ConcatProperties
  <2>a. u.on_heap /\ u.heap = Text(s, hmem) \o bytes /\ u.at = 0 /\ u.size = 0
    BY <2>1
  <2>3. u \in Ptr
    BY <2>1, <2>2, PtrOf
  <2> QED
    BY <2>3, <2>a DEF Lies, Text
<1>6. CASE ~s.on_heap /\ s.at # 0 /\ s.at + s.size = Len(hmem) + 1
  <2>1. u = [s EXCEPT !.size = s.size + Len(bytes)]
    BY <1>6 DEF Hbi!Update, Hbi!IsNull
  <2>2. u \in Ptr /\ u.at = s.at /\ u.size = s.size + Len(bytes) /\ u.on_heap = s.on_heap
    BY <1>0, <1>2, <2>1 DEF Ptr
  <2>3. Lies(u, Len(data))
    BY <1>0, <1>2, <1>6, <2>2 DEF Lies
  <2>4. Text(u, data) \in Seq(Byte) /\ Len(Text(u, data)) = s.size + Len(bytes)
        /\ \A i \in 1..(s.size + Len(bytes)) : Text(u, data)[i] = data[s.at + i - 1]
    <3>1. /\ Text(u, data) \in Seq(Byte) /\ Len(Text(u, data)) = u.size
          /\ \A i \in 1..u.size : Text(u, data)[i] = data[u.at + i - 1]
      BY <1>0, <1>6, <2>2, <2>3, TextIn
    <3> QED
      BY <2>2, <3>1
  <2>5. Len(Text(s, hmem)) = s.size /\ \A i \in 1..s.size : Text(s, hmem)[i] = hmem[s.at + i - 1]
    BY <1>6, TextIn
  <2>6. Text(s, hmem) \o bytes \in Seq(Byte) /\ Len(Text(s, hmem) \o bytes) = s.size + Len(bytes)
        /\ \A i \in 1..(s.size + Len(bytes)) :
             (Text(s, hmem) \o bytes)[i] = IF i <= s.size THEN Text(s, hmem)[i] ELSE bytes[i - s.size]
    <3> DEFINE t == Text(s, hmem)
    <3>1. t \in Seq(Byte) /\ Len(t) = s.size
      BY <1>3, <2>5
    <3> HIDE DEF t
    <3>2. /\ t \o bytes \in Seq(Byte) /\ Len(t \o bytes) = s.size + Len(bytes)
          /\ \A i \in 1..(s.size + Len(bytes)) : (t \o bytes)[i] = IF i <= s.size THEN t[i] ELSE bytes[i - s.size]
      BY <3>1, ConcatProperties
    <3> QED
      BY <3>2 DEF t
  <2>7. ASSUME NEW i \in 1..(s.size + Len(bytes)) PROVE Text(u, data)[i] = (Text(s, hmem) \o bytes)[i]
    <3>1. CASE i <= s.size
      <4>1. s.at + i - 1 \in 1..Len(hmem) /\ i \in 1..s.size
        BY <1>0, <1>2, <1>6, <3>1
      <4> QED
        BY <1>1, <2>4, <2>5, <2>6, <3>1, <4>1
    <3>2. CASE ~(i <= s.size)
      <4>1. i - s.size \in 1..Len(bytes) /\ s.at + i - 1 = Len(hmem) + (i - s.size)
        <5>1. i \in Int /\ i <= s.size + Len(bytes)
          BY <1>0, <1>2
        <5>2. i - s.size \in 1..Len(bytes)
          BY <1>0, <1>2, <3>2, <5>1
        <5>3. s.at + i - 1 = Len(hmem) + (i - s.size)
          <6>1. PICK a \in Nat : a = s.at
            BY <1>2
          <6>2. PICK n \in Nat : n = s.size
            BY <1>2
          <6>3. PICK l \in Nat : l = Len(hmem)
            BY <1>0
          <6>4. a + n = l + 1
            BY <1>6, <6>1, <6>2, <6>3
          <6>5. a + i - 1 = l + (i - n)
            BY <5>1, <6>4
          <6> QED
            BY <6>1, <6>2, <6>3, <6>5
        <5> QED
          BY <5>2, <5>3
      <4>2. data[s.at + i - 1] = bytes[i - s.size]
        BY <1>0, <1>1, <4>1
      <4> QED
        BY <2>4, <2>6, <3>2, <4>1, <4>2
    <3> QED
      BY <1>2, <3>1, <3>2
  <2> QED
    BY <2>2, <2>3, <2>4, <2>6, <2>7, SeqEqual DEF data
<1>7. Hbi!IsNull(s) \/ s.on_heap \/ s.at + s.size # Len(hmem) + 1 \/ (s.at # 0 /\ s.at + s.size = Len(hmem) + 1)
  BY <1>2 DEF Hbi!IsNull
<1> QED
  BY <1>2, <1>4, <1>5, <1>6, <1>7 DEF data, Hbi!IsNull

BindTypes ==
  /\ hexec \in BOOLEAN /\ have_flushed \in BOOLEAN
  /\ hphase \in {"idle", "url", "headers", "header value", "body", "trailers", "trailer value"}
  /\ hmem \in Seq(Byte) /\ hmessages \in Nat
  /\ hrun \in [what : {"none", "url", "field", "value"}, no : Nat, read : Nat, left : Nat, cut : BOOLEAN]
  /\ hurl \in Ptr /\ hfields \in [1..Slots -> Ptr] /\ hvalues \in [1..Slots -> Ptr]
  /\ num_fields \in 0..(Slots - 1) /\ num_values \in 0..num_fields
  /\ jsHeaders \in Seq(Header) /\ jsUrl \in Seq(Byte) /\ hleft \in Seq(Byte) /\ hlimit \in Nat
  /\ hsent \in [url : Seq(Byte), headers : Seq(Header)]

(* The strings in use lie in the buffer or on the heap.                    *)
PtrsLie ==
  /\ Lies(hurl, Len(hmem))
  /\ \A i \in 1..num_fields : Lies(hfields[i], Len(hmem))
  /\ \A i \in 1..num_values : Lies(hvalues[i], Len(hmem))

(* The last header has a name and no value yet.                            *)
Half ==
  \/ hrun.what = "field" /\ hrun.read # 0
  \/ hphase \in {"header value", "trailer value"} /\ ~(hrun.what = "value" /\ hrun.read # 0)

(* Each run belongs to its phase and to the header that was sent last.     *)
RunPlaced ==
  /\ hphase = "url" <=> hrun.what = "url"
  /\ hrun.what = "field" =>
       /\ hphase \in {"headers", "trailers"}
       /\ Len(hsent.headers) = hrun.no + (IF hrun.read = 0 THEN 0 ELSE 1)
  /\ hrun.what = "value" =>
       hphase \in {"header value", "trailer value"} /\ Len(hsent.headers) = hrun.no
  /\ hphase # "idle" => num_fields = num_values + (IF Half THEN 1 ELSE 0)
  /\ hphase \in {"header value", "trailer value"} => num_fields # 0

HeaderOf(i) ==
  <<Text(hfields[i], hmem), IF i <= num_values THEN Text(hvalues[i], hmem) ELSE <<>> >>

(* f headers have left the slots; the script has them all, or the first of *)
(* them once the limit is reached.                                         *)
HeadersAfter(f) ==
  /\ Len(hsent.headers) = f + num_fields /\ Len(jsHeaders) <= f
  /\ Len(jsHeaders) < f => hlimit # 0 /\ hlimit <= Len(jsHeaders)
  /\ \A i \in 1..Len(jsHeaders) : hsent.headers[i] = jsHeaders[i]
  /\ \A i \in 1..num_fields : hsent.headers[f + i] = HeaderOf(i)

(* What was sent is what was handed over, and then what is in the slots.   *)
HeadersKept == hphase # "idle" => \E f \in Nat : HeadersAfter(f)

(* The URL is in url_, or was flushed behind what was left in _url.        *)
UrlApart ==
  \/ jsUrl = hleft /\ Text(hurl, hmem) = hsent.url
  \/ hphase # "url" /\ have_flushed /\ hurl = Hbi!Null /\ jsUrl = hleft \o hsent.url

UrlKept ==
  /\ hphase = "idle" => jsHeaders = <<>> /\ jsUrl = hleft
  /\ ~have_flushed => jsHeaders = <<>>
  /\ hphase \in {"url", "headers", "header value"} => UrlApart
  /\ hphase \in {"body", "trailers", "trailer value"} => hsent.url = <<>>

MInv == BindTypes /\ PtrsLie /\ RunPlaced /\ HeadersKept /\ UrlKept /\ Hbi!MessagesAsSent

LEMMA InitMInv == Hbi!Init => MInv
<1> SUFFICES ASSUME Hbi!Init PROVE MInv
  OBVIOUS
<1> USE DEF Hbi!Init
<1>1. <<>> \in Seq(Byte) /\ <<>> \in Seq(Header) /\ Len(<<>>) = 0 /\ Hbi!Null \in Ptr /\ Lies(Hbi!Null, 0)
  BY EmptySeq, NullIs
<1>a. hrun \in [what : {"none", "url", "field", "value"}, no : Nat, read : Nat, left : Nat, cut : BOOLEAN]
  BY DEF Hbi!NoRun
<1>b. hsent \in [url : Seq(Byte), headers : Seq(Header)]
  BY <1>1 DEF Hbi!NoMessage
<1>c. 0 \in 0..(Slots - 1) /\ 0 \in 0..0
  BY BindingAssumption
<1>d. hfields \in [1..Slots -> Ptr] /\ hvalues \in [1..Slots -> Ptr]
  BY <1>1
<1>e. hexec \in BOOLEAN /\ have_flushed \in BOOLEAN /\ hphase = "idle" /\ hmessages = 0
      /\ hmem = <<>> /\ hurl = Hbi!Null /\ num_fields = 0 /\ num_values = 0
      /\ jsHeaders = <<>> /\ jsUrl = <<>> /\ hleft = <<>> /\ hlimit = 0
  OBVIOUS
<1> HIDE DEF Hbi!Init
<1>2. BindTypes
  BY <1>1, <1>a, <1>b, <1>c, <1>d, <1>e DEF BindTypes
<1> USE DEF Hbi!Init
<1>3. PtrsLie
  BY <1>1 DEF PtrsLie
<1>4. RunPlaced /\ HeadersKept /\ UrlKept
  BY DEF RunPlaced, HeadersKept, UrlKept, Hbi!NoRun
<1>5. Hbi!MessagesAsSent
  BY <1>1 DEF Hbi!MessagesAsSent, Hbi!UpToTheLimit, Hbi!NoMessage
<1> QED
  BY <1>2, <1>3, <1>4, <1>5 DEF MInv

LEMMA InSlots ==
  ASSUME MInv
  PROVE  /\ num_fields \in Nat /\ num_values \in Nat /\ num_values <= num_fields
         /\ num_fields <= Slots - 1 /\ Slots \in Nat
         /\ \A i \in 1..num_fields :
              i \in 1..Slots /\ hfields[i] \in Ptr /\ Lies(hfields[i], Len(hmem))
         /\ \A i \in 1..num_values :
              i \in 1..num_fields /\ i \in 1..Slots /\ hvalues[i] \in Ptr /\ Lies(hvalues[i], Len(hmem))
<1>1. /\ num_fields \in 0..(Slots - 1) /\ num_values \in 0..num_fields /\ Slots \in Nat
      /\ hfields \in [1..Slots -> Ptr] /\ hvalues \in [1..Slots -> Ptr]
  BY BindingAssumption DEF MInv, BindTypes
<1>2. /\ num_fields \in Nat /\ num_values \in Nat /\ num_values <= num_fields
      /\ num_fields <= Slots - 1 /\ Slots \in Nat
      /\ \A i \in 1..num_fields : i \in 1..Slots
      /\ \A i \in 1..num_values : i \in 1..num_fields /\ i \in 1..Slots
  BY <1>1
<1>3. (\A i \in 1..num_fields : hfields[i] \in Ptr) /\ \A i \in 1..num_values : hvalues[i] \in Ptr
  BY <1>1, <1>2
<1> QED
  BY <1>2, <1>3 DEF MInv, PtrsLie

(* As the buffer goes on the strings stay what they are.                   *)
LEMMA BufferGrows ==
  ASSUME MInv, NEW more \in Seq(Byte)
  PROVE  LET data == hmem \o more IN
         /\ data \in Seq(Byte)
         /\ Lies(hurl, Len(data)) /\ Text(hurl, data) = Text(hurl, hmem)
         /\ \A i \in 1..num_fields :
              Lies(hfields[i], Len(data)) /\ Text(hfields[i], data) = Text(hfields[i], hmem)
         /\ \A i \in 1..num_values :
              Lies(hvalues[i], Len(data)) /\ Text(hvalues[i], data) = Text(hvalues[i], hmem)
<1> DEFINE data == hmem \o more
<1>1. hmem \in Seq(Byte) /\ data \in Seq(Byte) /\ hurl \in Ptr
  BY ConcatProperties DEF MInv, BindTypes
<1>2. Lies(hurl, Len(data)) /\ Text(hurl, data) = Text(hurl, hmem)
  BY <1>1, TextStays DEF MInv, PtrsLie
<1>3. ASSUME NEW i \in 1..num_fields
      PROVE  Lies(hfields[i], Len(data)) /\ Text(hfields[i], data) = Text(hfields[i], hmem)
  <2>1. hfields[i] \in Ptr /\ Lies(hfields[i], Len(hmem))
    BY InSlots
  <2> QED
    BY <1>1, <2>1, TextStays
<1>4. ASSUME NEW i \in 1..num_values
      PROVE  Lies(hvalues[i], Len(data)) /\ Text(hvalues[i], data) = Text(hvalues[i], hmem)
  <2>1. hvalues[i] \in Ptr /\ Lies(hvalues[i], Len(hmem))
    BY InSlots
  <2> QED
    BY <1>1, <2>1, TextStays
<1> QED
  BY <1>1, <1>2, <1>3, <1>4

(* A step that leaves the strings alone.                                   *)
LEMMA StringsStand ==
  ASSUME MInv, NEW more \in Seq(Byte), hmem' = hmem \o more,
         UNCHANGED <<hurl, hfields, hvalues, num_fields, num_values>>
  PROVE  /\ hmem' \in Seq(Byte) /\ PtrsLie' /\ Text(hurl', hmem') = Text(hurl, hmem)
         /\ \A i \in 1..num_fields : HeaderOf(i)' = HeaderOf(i)
<1>1. /\ hmem' \in Seq(Byte)
      /\ Lies(hurl, Len(hmem')) /\ Text(hurl, hmem') = Text(hurl, hmem)
      /\ \A i \in 1..num_fields :
           Lies(hfields[i], Len(hmem')) /\ Text(hfields[i], hmem') = Text(hfields[i], hmem)
      /\ \A i \in 1..num_values :
           Lies(hvalues[i], Len(hmem')) /\ Text(hvalues[i], hmem') = Text(hvalues[i], hmem)
  BY BufferGrows, Zenon
<1>2. PtrsLie' /\ Text(hurl', hmem') = Text(hurl, hmem)
  BY <1>1 DEF PtrsLie
<1>3. ASSUME NEW i \in 1..num_fields PROVE HeaderOf(i)' = HeaderOf(i)
  <2>1. Text(hfields[i], hmem') = Text(hfields[i], hmem)
    BY <1>1
  <2>2. i <= num_values => Text(hvalues[i], hmem') = Text(hvalues[i], hmem)
    BY <1>1, InSlots
  <2> QED
    BY <2>1, <2>2 DEF HeaderOf
<1> QED
  BY <1>1, <1>2, <1>3

LEMMA JunkMore ==
  ASSUME MInv PROVE Append(hmem, Hbi!Junk) = hmem \o <<Hbi!Junk>> /\ <<Hbi!Junk>> \in Seq(Byte)
<1>1. hmem \in Seq(Byte)
  BY DEF MInv, BindTypes
<1>2. <<Hbi!Junk>> \in Seq(Byte)
  BY JunkIsByte
<1> QED
  BY <1>1, <1>2, JunkIsByte, AppendIsConcat

LEMMA NothingMore == ASSUME MInv PROVE hmem = hmem \o <<>> /\ <<>> \in Seq(Byte)
BY ConcatEmptySeq, EmptySeq DEF MInv, BindTypes

(* What the callbacks had stays what it was.                               *)
LEMMA GotStands ==
  ASSUME MInv, UNCHANGED <<hgot, hleft, hlimit>>, hphase' # "idle" => hphase # "idle"
  PROVE  Hbi!MessagesAsSent'
BY DEF MInv, Hbi!MessagesAsSent, Hbi!UpToTheLimit

(* Steps that read on and leave strings, headers and URL alone.            *)
LEMMA ReadsOnMInv ==
  ASSUME MInv, NEW more \in Seq(Byte), hmem' = hmem \o more, BindTypes', RunPlaced',
         UNCHANGED <<hurl, hfields, hvalues, num_fields, num_values, have_flushed,
                     jsHeaders, jsUrl, hlimit, hsent, hgot, hleft>>,
         hphase' # "idle" => hphase # "idle",
         hphase' \in {"url", "headers", "header value"} => hphase' = hphase,
         hphase' \in {"body", "trailers", "trailer value"} => hphase \in {"body", "trailers", "trailer value"},
         hphase' = "idle" => hphase = "idle"
  PROVE  MInv'
<1>1. /\ hmem' \in Seq(Byte) /\ PtrsLie' /\ Text(hurl', hmem') = Text(hurl, hmem)
      /\ \A i \in 1..num_fields : HeaderOf(i)' = HeaderOf(i)
  BY StringsStand
<1>2. HeadersKept'
  <2>1. ASSUME NEW f \in Nat, HeadersAfter(f) PROVE HeadersAfter(f)'
    BY <1>1, <2>1 DEF HeadersAfter
  <2> QED
    BY <2>1 DEF MInv, HeadersKept
<1>3. UrlKept'
  BY <1>1 DEF MInv, UrlKept, UrlApart
<1>4. Hbi!MessagesAsSent'
  BY GotStands
<1> QED
  BY <1>1, <1>2, <1>3, <1>4 DEF MInv

LEMMA ExecuteMInv == ASSUME MInv, Hbi!Execute PROVE MInv'
<1>1. BindTypes'
  BY DEF MInv, Hbi!Execute, BindTypes
<1>2. RunPlaced'
  BY DEF MInv, Hbi!Execute, RunPlaced, Half
<1>3. hmem' = hmem \o <<>> /\ <<>> \in Seq(Byte)
  BY NothingMore DEF Hbi!Execute
<1> QED
  BY <1>1, <1>2, <1>3, ReadsOnMInv DEF Hbi!Execute

LEMMA BeginRunMInv ==
  ASSUME MInv, NEW what \in {"field", "value"}, NEW n \in ValueLengths \cup {1},
         Hbi!BeginRun(what, n)
  PROVE  MInv'
<1>1. hmem' = hmem \o <<Hbi!Junk>> /\ <<Hbi!Junk>> \in Seq(Byte)
  BY JunkMore DEF Hbi!BeginRun
<1>2. hmem' \in Seq(Byte)
  BY <1>1, ConcatProperties DEF MInv, BindTypes
<1>3. hrun' = [what |-> what, no |-> Len(hsent.headers), read |-> 0, left |-> n, cut |-> FALSE]
  BY DEF Hbi!BeginRun, Hbi!Run, Hbi!NoRun
<1>4. n \in Nat /\ Len(hsent.headers) \in Nat
  <2>1. hsent.headers \in Seq(Header)
    BY DEF MInv, BindTypes
  <2> QED
    BY <2>1, BindingAssumption, LenProperties
<1>5. hrun' \in [what : {"none", "url", "field", "value"}, no : Nat, read : Nat, left : Nat, cut : BOOLEAN]
  BY <1>3, <1>4
<1>6. BindTypes'
  BY <1>2, <1>5 DEF MInv, Hbi!BeginRun, BindTypes
<1>7. RunPlaced'
  <2>1. hrun'.what = what /\ hrun'.no = Len(hsent.headers) /\ hrun'.read = 0 /\ hrun.what = "none"
    <3>1. hrun.what = "none"
      BY DEF Hbi!BeginRun
    <3> QED
      BY <1>3, <3>1
  <2>2. /\ UNCHANGED <<hphase, hsent, num_fields, num_values>>
        /\ what = "field" => hphase \in {"headers", "trailers"}
        /\ what = "value" => hphase \in {"header value", "trailer value"}
    BY DEF Hbi!BeginRun
  <2>3. /\ hphase = "url" <=> hrun.what = "url"
        /\ hphase # "idle" => num_fields = num_values + (IF Half THEN 1 ELSE 0)
    BY DEF MInv, RunPlaced
  <2>4. Half' <=> Half
    BY <2>1, <2>2 DEF Half
  <2> HIDE DEF Half
  <2>5. num_fields' = num_fields /\ num_values' = num_values
    BY <2>2
  <2>6. hphase' # "idle" => num_fields' = num_values' + (IF Half' THEN 1 ELSE 0)
    BY <2>2, <2>3, <2>4, <2>5
  <2>7. hphase' = "url" <=> hrun'.what = "url"
    BY <2>1, <2>2, <2>3
  <2>8. hrun'.what = "field" =>
          /\ hphase' \in {"headers", "trailers"}
          /\ Len(hsent'.headers) = hrun'.no + (IF hrun'.read = 0 THEN 0 ELSE 1)
    BY <1>4, <2>1, <2>2
  <2>9. hrun'.what = "value" =>
          hphase' \in {"header value", "trailer value"} /\ Len(hsent'.headers) = hrun'.no
    BY <2>1, <2>2
  <2>10. hphase' \in {"header value", "trailer value"} => num_fields' # 0
    BY <2>2, <2>5 DEF MInv, RunPlaced
  <2> QED
    BY <2>6, <2>7, <2>8, <2>9, <2>10 DEF RunPlaced
<1> QED
  BY <1>1, <1>6, <1>7, ReadsOnMInv DEF Hbi!BeginRun

LEMMA BodyMInv == ASSUME MInv, Hbi!on_body \/ Hbi!BeginTrailers PROVE MInv'
<1>1. hmem' = hmem \o <<Hbi!Junk>> /\ <<Hbi!Junk>> \in Seq(Byte)
  BY JunkMore DEF Hbi!on_body, Hbi!BeginTrailers
<1>2. hmem' \in Seq(Byte)
  BY <1>1, ConcatProperties DEF MInv, BindTypes
<1>3. BindTypes'
  BY <1>2 DEF MInv, Hbi!on_body, Hbi!BeginTrailers, BindTypes
<1>4. RunPlaced'
  BY DEF MInv, Hbi!on_body, Hbi!BeginTrailers, RunPlaced, Half
<1> QED
  BY <1>1, <1>3, <1>4, ReadsOnMInv DEF Hbi!on_body, Hbi!BeginTrailers

(* The buffer is left.                                                     *)
LEMMA EndExecuteMInv == ASSUME MInv, Hbi!EndExecute PROVE MInv'
<1> USE DEF Hbi!EndExecute
<1>0. hmem \in Seq(Byte) /\ hmem' = <<>> /\ <<>> \in Seq(Byte) /\ Len(<<>>) = 0
  BY EmptySeq DEF MInv, BindTypes
<1>1. hurl' \in Ptr /\ Lies(hurl', 0) /\ Text(hurl', <<>>) = Text(hurl, hmem)
  BY <1>0, TextSaved DEF MInv, BindTypes, PtrsLie
<1>2. ASSUME NEW i \in 1..num_fields
      PROVE  hfields'[i] \in Ptr /\ Lies(hfields'[i], 0) /\ Text(hfields'[i], <<>>) = Text(hfields[i], hmem)
  <2>1. hfields[i] \in Ptr /\ Lies(hfields[i], Len(hmem)) /\ hfields'[i] = Hbi!Save(hfields[i])
    BY InSlots
  <2> QED
    BY <1>0, <2>1, TextSaved
<1>3. ASSUME NEW i \in 1..num_values
      PROVE  hvalues'[i] \in Ptr /\ Lies(hvalues'[i], 0) /\ Text(hvalues'[i], <<>>) = Text(hvalues[i], hmem)
  <2>1. hvalues[i] \in Ptr /\ Lies(hvalues[i], Len(hmem)) /\ hvalues'[i] = Hbi!Save(hvalues[i])
    BY InSlots
  <2> QED
    BY <1>0, <2>1, TextSaved
<1>4. hfields' \in [1..Slots -> Ptr] /\ hvalues' \in [1..Slots -> Ptr]
  <2>0. hfields \in [1..Slots -> Ptr] /\ hvalues \in [1..Slots -> Ptr]
    BY DEF MInv, BindTypes
  <2>1. ASSUME NEW i \in 1..Slots PROVE hfields'[i] \in Ptr
    <3>1. CASE i <= num_fields
      <4>1. i \in 1..num_fields
        BY <3>1, InSlots
      <4> QED
        BY <1>2, <4>1
    <3>2. CASE ~(i <= num_fields)
      BY <2>0, <3>2
    <3> QED
      BY <3>1, <3>2
  <2>2. ASSUME NEW i \in 1..Slots PROVE hvalues'[i] \in Ptr
    <3>1. CASE i <= num_values
      <4>1. i \in 1..num_values
        BY <3>1, InSlots
      <4> QED
        BY <1>3, <4>1
    <3>2. CASE ~(i <= num_values)
      BY <2>0, <3>2
    <3> QED
      BY <3>1, <3>2
  <2>3. DOMAIN hfields' = 1..Slots /\ DOMAIN hvalues' = 1..Slots
        /\ hfields' = [i \in 1..Slots |-> hfields'[i]] /\ hvalues' = [i \in 1..Slots |-> hvalues'[i]]
    OBVIOUS
  <2> QED
    BY <2>1, <2>2, <2>3
<1>5. /\ hrun' \in [what : {"none", "url", "field", "value"}, no : Nat, read : Nat, left : Nat, cut : BOOLEAN]
      /\ hrun'.what = hrun.what /\ hrun'.no = hrun.no /\ hrun'.read = hrun.read
  BY DEF MInv, BindTypes
<1>6. BindTypes'
  BY <1>0, <1>1, <1>4, <1>5 DEF MInv, BindTypes
<1>7. PtrsLie'
  BY <1>0, <1>1, <1>2, <1>3 DEF PtrsLie
<1>8. RunPlaced'
  BY <1>5 DEF MInv, RunPlaced, Half
<1>9. ASSUME NEW i \in 1..num_fields PROVE HeaderOf(i)' = HeaderOf(i)
  <2>1. ASSUME i <= num_values PROVE Text(hvalues'[i], <<>>) = Text(hvalues[i], hmem)
    <3>1. i \in 1..num_values
      BY <2>1, InSlots
    <3> QED
      BY <1>3, <3>1
  <2> QED
    BY <1>0, <1>2, <2>1 DEF HeaderOf
<1>10. HeadersKept'
  <2>1. ASSUME NEW f \in Nat, HeadersAfter(f) PROVE HeadersAfter(f)'
    BY <1>9, <2>1 DEF HeadersAfter
  <2> QED
    BY <2>1 DEF MInv, HeadersKept
<1>11. UrlKept'
  <2>1. hurl = Hbi!Null => hurl' = Hbi!Null
    <3>1. ~(Hbi!Null.size > 0)
      BY DEF Hbi!Null
    <3> QED
      BY <3>1 DEF Hbi!Save
  <2> QED
    BY <1>0, <1>1, <2>1 DEF MInv, UrlKept, UrlApart
<1>12. Hbi!MessagesAsSent'
  BY GotStands
<1> QED
  BY <1>6, <1>7, <1>8, <1>10, <1>11, <1>12 DEF MInv

LEMMA on_message_beginMInv ==
  ASSUME MInv, NEW request \in BOOLEAN, Hbi!on_message_begin(request)
  PROVE  MInv'
<1> USE DEF Hbi!on_message_begin
<1>1. hmem' = hmem \o <<Hbi!Junk>> /\ <<Hbi!Junk>> \in Seq(Byte)
  BY JunkMore
<1>2. hmem' \in Seq(Byte) /\ Len(hmem') \in Nat
  BY <1>1, ConcatProperties, LenProperties DEF MInv, BindTypes
<1>3. <<>> \in Seq(Byte) /\ <<>> \in Seq(Header) /\ Len(<<>>) = 0
      /\ Hbi!Null \in Ptr /\ Lies(Hbi!Null, Len(hmem')) /\ Text(Hbi!Null, hmem') = <<>>
  BY <1>2, EmptySeq, NullIs
<1>4. hrun' \in [what : {"none", "url", "field", "value"}, no : Nat, read : Nat, left : Nat, cut : BOOLEAN]
  BY DEF MInv, BindTypes, Hbi!Run, Hbi!NoRun
<1>5. BindTypes'
  BY <1>2, <1>3, <1>4, BindingAssumption DEF MInv, BindTypes, Hbi!NoMessage
<1>6. PtrsLie'
  BY <1>3 DEF PtrsLie
<1>7. RunPlaced'
  BY DEF RunPlaced, Half, Hbi!Run, Hbi!NoRun
<1>8. HeadersKept'
  <2>1. jsHeaders' = <<>> /\ hsent'.headers = <<>> /\ num_fields' = 0
    BY DEF MInv, UrlKept, Hbi!NoMessage
  <2>2. HeadersAfter(0)'
    BY <1>3, <2>1 DEF HeadersAfter
  <2> QED
    BY <2>2 DEF HeadersKept
<1>9. UrlKept'
  BY <1>3 DEF MInv, UrlKept, UrlApart, Hbi!NoMessage
<1>10. Hbi!MessagesAsSent'
  <2>1. hgot'.is.headers = <<>> /\ hgot'.was.headers = <<>> /\ hgot'.is.url = hgot'.was.url
    BY DEF Hbi!NoMessage
  <2>2. hlimit' \in Nat
    BY <1>5 DEF BindTypes
  <2> QED
    BY <1>3, <2>1, <2>2 DEF Hbi!MessagesAsSent, Hbi!UpToTheLimit
<1> QED
  BY <1>5, <1>6, <1>7, <1>8, <1>9, <1>10 DEF MInv

LEMMA ReinitializeMInv == ASSUME MInv, Hbi!Reinitialize PROVE MInv'
<1> USE DEF Hbi!Reinitialize
<1>3. <<>> \in Seq(Byte) /\ <<>> \in Seq(Header) /\ Len(<<>>) = 0
      /\ Hbi!Null \in Ptr /\ Lies(Hbi!Null, Len(hmem))
  BY EmptySeq, NullIs, LenProperties DEF MInv, BindTypes
<1>a. hrun' \in [what : {"none", "url", "field", "value"}, no : Nat, read : Nat, left : Nat, cut : BOOLEAN]
  BY DEF Hbi!NoRun
<1>b. hsent' \in [url : Seq(Byte), headers : Seq(Header)]
  BY <1>3 DEF Hbi!NoMessage
<1>c. 0 \in 0..(Slots - 1) /\ 0 \in 0..0
  BY BindingAssumption
<1>d. /\ UNCHANGED <<hexec, hmem, hfields, hvalues, jsUrl, hmessages>>
      /\ have_flushed' = FALSE /\ hphase' = "idle" /\ hurl' = Hbi!Null /\ num_fields' = 0
      /\ num_values' = 0 /\ jsHeaders' = <<>> /\ hleft' = jsUrl
      /\ hlimit' \in Nat
  BY BindingAssumption
<1> HIDE DEF Hbi!Reinitialize
<1>5. BindTypes'
  BY <1>3, <1>a, <1>b, <1>c, <1>d DEF MInv, BindTypes
<1> USE DEF Hbi!Reinitialize
<1>6. PtrsLie'
  BY <1>3 DEF PtrsLie
<1>7. RunPlaced' /\ HeadersKept' /\ UrlKept'
  BY DEF RunPlaced, HeadersKept, UrlKept, Hbi!NoRun
<1>10. Hbi!MessagesAsSent'
  BY <1>3 DEF Hbi!MessagesAsSent, Hbi!UpToTheLimit, Hbi!NoMessage
<1> QED
  BY <1>5, <1>6, <1>7, <1>10 DEF MInv

(* What Flush hands over, or on_headers_complete.                          *)
LEMMA CreatedHeaders ==
  ASSUME MInv
  PROVE  /\ Hbi!CreateHeaders \in Seq(Header) /\ Len(Hbi!CreateHeaders) = num_values
         /\ \A i \in 1..num_values : Hbi!CreateHeaders[i] = HeaderOf(i)
<1> DEFINE c == Hbi!CreateHeaders
<1>1. c = [i \in 1..num_values |-> <<Text(hfields[i], hmem), Text(hvalues[i], hmem)>>]
  BY TextIs DEF Hbi!CreateHeaders
<1>2. hmem \in Seq(Byte) /\ num_values \in Nat
  BY InSlots DEF MInv, BindTypes
<1>3. ASSUME NEW i \in 1..num_values
      PROVE  <<Text(hfields[i], hmem), Text(hvalues[i], hmem)>> \in Header /\ c[i] = HeaderOf(i)
  <2>1. hfields[i] \in Ptr /\ hvalues[i] \in Ptr /\ Lies(hfields[i], Len(hmem)) /\ Lies(hvalues[i], Len(hmem))
    BY InSlots
  <2>2. Text(hfields[i], hmem) \in Seq(Byte) /\ Text(hvalues[i], hmem) \in Seq(Byte)
    BY <1>2, <2>1, TextIsSeq
  <2>3. i <= num_values
    BY <1>2
  <2> QED
    BY <1>1, <2>2, <2>3 DEF Header, HeaderOf
<1>4. c \in [1..num_values -> Header]
  BY <1>1, <1>3
<1> HIDE DEF c
<1>5. c \in Seq(Header) /\ Len(c) = num_values
  BY <1>2, <1>4, SeqDef, LenProperties
<1> QED
  BY <1>3, <1>5 DEF c

LEMMA Collected ==
  ASSUME MInv, hphase # "idle", num_fields = num_values
  PROVE  /\ Hbi!parserOnHeaders(Hbi!CreateHeaders) \in Seq(Header)
         /\ Hbi!UpToTheLimit(Hbi!parserOnHeaders(Hbi!CreateHeaders), hsent.headers)
<1> DEFINE c == Hbi!CreateHeaders
<1> DEFINE h == hsent.headers
<1>1. c \in Seq(Header) /\ Len(c) = num_values /\ \A i \in 1..num_values : c[i] = HeaderOf(i)
  BY CreatedHeaders
<1>f. PICK f \in Nat : HeadersAfter(f)
  BY DEF MInv, HeadersKept
<1>2. /\ jsHeaders \in Seq(Header) /\ h \in Seq(Header) /\ num_values \in Nat /\ hlimit \in Nat
      /\ Len(h) = f + num_values /\ Len(jsHeaders) <= f
      /\ Len(jsHeaders) < f => hlimit # 0 /\ hlimit <= Len(jsHeaders)
      /\ \A i \in 1..Len(jsHeaders) : h[i] = jsHeaders[i]
      /\ \A i \in 1..num_values : h[f + i] = HeaderOf(i)
  BY <1>f, InSlots DEF MInv, BindTypes, HeadersAfter
<1> HIDE DEF c, h
<1>4. Len(jsHeaders) \in Nat
  BY <1>2, LenProperties
<1>5. CASE hlimit = 0 \/ Len(jsHeaders) < hlimit
  <2>1. Hbi!parserOnHeaders(c) = jsHeaders \o c
    BY <1>5 DEF Hbi!parserOnHeaders
  <2>2. f = Len(jsHeaders)
    BY <1>2, <1>4, <1>5
  <2>3. /\ jsHeaders \o c \in Seq(Header) /\ Len(jsHeaders \o c) = Len(h)
        /\ \A i \in 1..(Len(jsHeaders) + num_values) :
             (jsHeaders \o c)[i] = IF i <= Len(jsHeaders) THEN jsHeaders[i] ELSE c[i - Len(jsHeaders)]
    BY <1>1, <1>2, <2>2, ConcatProperties
  <2>4. ASSUME NEW i \in 1..Len(h) PROVE (jsHeaders \o c)[i] = h[i]
    <3>1. CASE i <= Len(jsHeaders)
      <4>1. i \in 1..Len(jsHeaders) /\ i \in 1..(Len(jsHeaders) + num_values)
        BY <1>2, <1>4, <3>1
      <4>2. (jsHeaders \o c)[i] = jsHeaders[i]
        BY <2>3, <3>1, <4>1
      <4> QED
        BY <1>2, <4>1, <4>2
    <3>2. CASE ~(i <= Len(jsHeaders))
      <4>1. PICK j \in Int : j = i - Len(jsHeaders)
        BY <1>4
      <4>2. j \in 1..num_values /\ Len(jsHeaders) + j = i
        BY <1>2, <1>4, <2>2, <3>2, <4>1
      <4>3. h[i] = c[j]
        BY <1>1, <1>2, <2>2, <4>2
      <4> QED
        BY <1>2, <2>2, <2>3, <3>2, <4>1, <4>3
    <3> QED
      BY <3>1, <3>2
  <2>5. Len(h) \in Nat
    BY <1>2
  <2> QED
    BY <2>1, <2>3, <2>4, <2>5 DEF Hbi!UpToTheLimit, c, h
<1>6. CASE ~(hlimit = 0 \/ Len(jsHeaders) < hlimit)
  <2>1. Hbi!parserOnHeaders(c) = jsHeaders
    BY <1>6 DEF Hbi!parserOnHeaders
  <2>2. Len(jsHeaders) <= Len(h) /\ hlimit # 0 /\ hlimit <= Len(jsHeaders)
    BY <1>2, <1>4, <1>6
  <2> QED
    BY <1>2, <2>1, <2>2 DEF Hbi!UpToTheLimit, c, h
<1> QED
  BY <1>5, <1>6

(* What is left when they are counted off.                                 *)
LEMMA CountedOffKept ==
  ASSUME hlimit \in Nat, NEW g \in Seq(Header), NEW h \in Seq(Header), Hbi!UpToTheLimit(g, h)
  PROVE  /\ Hbi!UpToTheLimit(Hbi!CountedOff(g), h)
         /\ hlimit # 0 => Len(Hbi!CountedOff(g)) <= hlimit
<1>1. Len(g) \in Nat /\ Len(h) \in Nat
  BY LenProperties
<1>2. /\ Len(g) <= Len(h) /\ \A i \in 1..Len(g) : g[i] = h[i]
      /\ Len(g) < Len(h) => hlimit # 0 /\ hlimit <= Len(g)
  BY DEF Hbi!UpToTheLimit
<1>3. CASE hlimit = 0 \/ Len(g) <= hlimit
  <2>1. Hbi!CountedOff(g) = g
    BY <1>3 DEF Hbi!CountedOff
  <2> QED
    BY <1>3, <2>1
<1>4. CASE ~(hlimit = 0 \/ Len(g) <= hlimit)
  <2>1. PICK t : t = [i \in 1..hlimit |-> g[i]]
    OBVIOUS
  <2>2. Hbi!CountedOff(g) = t
    BY <1>4, <2>1 DEF Hbi!CountedOff
  <2>3. ASSUME NEW i \in 1..hlimit PROVE t[i] = h[i] /\ t[i] \in Header
    <3>1. i \in 1..Len(g)
      BY <1>1, <1>4
    <3>2. g[i] \in Header
      BY <3>1, ElementOfSeq
    <3> QED
      BY <1>2, <2>1, <3>1, <3>2
  <2>4. t \in [1..hlimit -> Header]
    BY <2>1, <2>3
  <2>5. t \in Seq(Header) /\ Len(t) = hlimit
    BY <2>4, SeqDef, LenProperties
  <2>6. hlimit <= Len(h) /\ hlimit # 0
    BY <1>1, <1>2, <1>4
  <2> QED
    BY <2>2, <2>3, <2>5, <2>6 DEF Hbi!UpToTheLimit
<1> QED
  BY <1>3, <1>4

LEMMA UrlTextIsSeq == ASSUME MInv PROVE Text(hurl, hmem) \in Seq(Byte) /\ Hbi!ToString(hurl) = Text(hurl, hmem)
BY TextIs, TextIsSeq DEF MInv, BindTypes, PtrsLie

LEMMA on_headers_completeMInv == ASSUME MInv, Hbi!on_headers_complete PROVE MInv'
<1>0. /\ hphase = "headers" /\ hrun.what = "none" /\ hphase' = "body" /\ num_fields' = 0 /\ num_values' = 0
      /\ hsent' = Hbi!NoMessage /\ hmem' = Append(hmem, Hbi!Junk)
      /\ UNCHANGED <<hexec, hrun, hfields, hvalues, have_flushed, hlimit, hleft, hmessages>>
  BY DEF Hbi!on_headers_complete
<1>1. hmem' = hmem \o <<Hbi!Junk>> /\ <<Hbi!Junk>> \in Seq(Byte)
  BY <1>0, JunkMore
<1>2. hmem' \in Seq(Byte) /\ Len(hmem') \in Nat
  BY <1>1, ConcatProperties, LenProperties DEF MInv, BindTypes
<1>3. <<>> \in Seq(Byte) /\ <<>> \in Seq(Header) /\ Len(<<>>) = 0
      /\ Hbi!Null \in Ptr /\ Lies(Hbi!Null, Len(hmem'))
  BY <1>2, EmptySeq, NullIs
<1>4. ~Half /\ num_fields = num_values
  <2>1. ~Half
    BY <1>0 DEF Half
  <2>2. num_fields = num_values + 0 /\ num_values \in Nat
    BY <1>0, <2>1, InSlots DEF MInv, RunPlaced
  <2> QED
    BY <2>1, <2>2
<1>5. /\ Hbi!parserOnHeaders(Hbi!CreateHeaders) \in Seq(Header)
      /\ Hbi!UpToTheLimit(Hbi!parserOnHeaders(Hbi!CreateHeaders), hsent.headers)
  BY <1>0, <1>4, Collected
<1>6. Text(hurl, hmem) \in Seq(Byte) /\ Hbi!ToString(hurl) = Text(hurl, hmem)
  BY UrlTextIsSeq
<1>7. UrlApart /\ (~have_flushed => jsHeaders = <<>>)
  BY <1>0 DEF MInv, UrlKept
<1>8. /\ hleft \in Seq(Byte) /\ jsUrl \in Seq(Byte) /\ hsent.url \in Seq(Byte)
      /\ hsent.headers \in Seq(Header) /\ hlimit \in Nat
  BY DEF MInv, BindTypes
<1>9. PICK g \in Seq(Header) : /\ Hbi!UpToTheLimit(g, hsent.headers)
                               /\ hgot'.is.headers = Hbi!CountedOff(g) /\ hgot'.was.headers = hsent.headers
  <2>1. CASE have_flushed
    <3>1. PICK g \in Seq(Header) : g = Hbi!parserOnHeaders(Hbi!CreateHeaders)
      BY <1>5
    <3>2. hgot'.is.headers = Hbi!CountedOff(Hbi!parserOnHeaders(Hbi!CreateHeaders))
          /\ hgot'.was.headers = hsent.headers
      BY <2>1 DEF Hbi!on_headers_complete
    <3> QED
      BY <1>5, <3>1, <3>2
  <2>2. CASE ~have_flushed
    <3>1. jsHeaders = <<>> /\ Len(<<>>) = 0
      BY <1>3, <1>7, <2>2
    <3>2. hlimit = 0 \/ Len(jsHeaders) < hlimit
      BY <1>8, <3>1
    <3>3. Hbi!parserOnHeaders(Hbi!CreateHeaders) = Hbi!CreateHeaders
      BY <3>1, <3>2, CreatedHeaders, ConcatEmptySeq DEF Hbi!parserOnHeaders
    <3> QED
      BY <1>5, <2>2, <3>3 DEF Hbi!on_headers_complete
  <2> QED
    BY <2>1, <2>2
<1>c. /\ Hbi!UpToTheLimit(hgot'.is.headers, hgot'.was.headers)
      /\ hlimit # 0 => Len(hgot'.is.headers) <= hlimit
  BY <1>8, <1>9, CountedOffKept
<1>10. hgot'.is.url \in {hgot'.was.url, hleft' \o hgot'.was.url}
  <2>1. CASE have_flushed
    <3>1. hgot'.is.url = jsUrl \o Text(hurl, hmem) /\ hgot'.was.url = hsent.url
      BY <1>6, <2>1 DEF Hbi!on_headers_complete
    <3>2. CASE jsUrl = hleft /\ Text(hurl, hmem) = hsent.url
      BY <1>0, <3>1, <3>2
    <3>3. CASE hurl = Hbi!Null /\ jsUrl = hleft \o hsent.url
      <4>1. Text(hurl, hmem) = <<>>
        BY <1>2, <3>3, NullIs DEF MInv, BindTypes
      <4>2. jsUrl \o <<>> = jsUrl
        BY <1>8, ConcatEmptySeq
      <4> QED
        BY <1>0, <3>1, <3>3, <4>1, <4>2
    <3> QED
      BY <1>7, <3>2, <3>3 DEF UrlApart
  <2>2. CASE ~have_flushed
    <3>1. jsUrl = hleft /\ Text(hurl, hmem) = hsent.url
      BY <1>7, <2>2 DEF UrlApart
    <3>2. hgot'.is.url = (IF hsent.url = <<>> THEN hleft ELSE hsent.url) /\ hgot'.was.url = hsent.url
      BY <1>6, <2>2, <3>1 DEF Hbi!on_headers_complete
    <3>3. hleft \o <<>> = hleft
      BY <1>8, ConcatEmptySeq
    <3> QED
      BY <1>0, <3>2, <3>3
  <2> QED
    BY <2>1, <2>2
<1>11. hurl' \in {hurl, Hbi!Null} /\ jsHeaders' = <<>> /\ jsUrl' \in {<<>>, jsUrl}
  BY <1>7 DEF Hbi!on_headers_complete
<1>12. Lies(hurl', Len(hmem'))
  <2>1. Lies(hurl, Len(hmem'))
    BY <1>1, BufferGrows
  <2> QED
    BY <1>3, <1>11, <2>1
<1>13. BindTypes'
  <2>1. hsent' \in [url : Seq(Byte), headers : Seq(Header)]
    BY <1>0, <1>3 DEF Hbi!NoMessage
  <2>2. 0 \in 0..(Slots - 1) /\ 0 \in 0..0
    BY BindingAssumption
  <2> QED
    BY <1>0, <1>2, <1>3, <1>11, <2>1, <2>2 DEF MInv, BindTypes
<1>14. PtrsLie'
  BY <1>0, <1>12 DEF PtrsLie
<1>15. RunPlaced' /\ HeadersKept'
  <2>1. RunPlaced'
    BY <1>0, <1>3, <1>11 DEF RunPlaced, Half, Hbi!NoMessage
  <2>2. hsent'.headers = <<>>
    BY <1>0 DEF Hbi!NoMessage
  <2>3. HeadersAfter(0)'
    BY <1>0, <1>3, <1>11, <2>2 DEF HeadersAfter
  <2> QED
    BY <2>1, <2>3 DEF HeadersKept
<1>16. UrlKept'
  BY <1>0, <1>11 DEF UrlKept, Hbi!NoMessage
<1>17. Hbi!MessagesAsSent'
  <2>1. hlimit' = hlimit
    BY <1>0
  <2>2. Hbi!UpToTheLimit(hgot.is.headers, hgot.was.headers)'
    BY <1>c, <2>1 DEF Hbi!UpToTheLimit
  <2> QED
    BY <1>c, <1>10, <2>1, <2>2 DEF Hbi!MessagesAsSent
<1> QED
  BY <1>13, <1>14, <1>15, <1>16, <1>17 DEF MInv

LEMMA on_message_completeMInv == ASSUME MInv, Hbi!on_message_complete PROVE MInv'
<1>0. /\ hphase \in {"body", "trailers"} /\ hrun.what = "none" /\ hphase' = "idle"
      /\ jsHeaders' = <<>> /\ jsUrl' = <<>> /\ hleft' = <<>>
      /\ hsent' = Hbi!NoMessage /\ hmem' = Append(hmem, Hbi!Junk)
      /\ UNCHANGED <<hexec, hrun, hfields, hvalues, num_fields, num_values, hlimit, hmessages>>
      /\ hurl' \in {hurl, Hbi!Null} /\ have_flushed' \in {have_flushed, TRUE}
  BY DEF Hbi!on_message_complete
<1>1. hmem' = hmem \o <<Hbi!Junk>> /\ <<Hbi!Junk>> \in Seq(Byte)
  BY <1>0, JunkMore
<1>2. hmem' \in Seq(Byte) /\ Len(hmem') \in Nat
  BY <1>1, ConcatProperties, LenProperties DEF MInv, BindTypes
<1>3. <<>> \in Seq(Byte) /\ <<>> \in Seq(Header) /\ Len(<<>>) = 0
      /\ Hbi!Null \in Ptr /\ Lies(Hbi!Null, Len(hmem'))
  BY <1>2, EmptySeq, NullIs
<1>4. num_fields = num_values
  <2>1. ~Half
    BY <1>0 DEF Half
  <2>2. num_fields = num_values + 0 /\ num_values \in Nat
    BY <1>0, <2>1, InSlots DEF MInv, RunPlaced
  <2> QED
    BY <2>2
<1>5. Hbi!UpToTheLimit(Hbi!parserOnHeaders(Hbi!CreateHeaders), hsent.headers)
  BY <1>0, <1>4, Collected
<1>6. Hbi!UpToTheLimit(hgot'.is.headers, hgot'.was.headers)
  <2>1. CASE num_fields = 0
    <3>1. PICK f \in Nat : HeadersAfter(f)
      BY <1>0 DEF MInv, HeadersKept
    <3>2. Hbi!UpToTheLimit(jsHeaders, hsent.headers)
      BY <2>1, <3>1 DEF HeadersAfter, Hbi!UpToTheLimit
    <3> QED
      BY <2>1, <3>2 DEF Hbi!on_message_complete
  <2>2. CASE num_fields # 0
    BY <1>5, <2>2 DEF Hbi!on_message_complete
  <2> QED
    BY <2>1, <2>2
<1>7. hgot'.is.url = <<>> /\ hgot'.was.url = hsent.url /\ hsent.url = <<>>
  BY <1>0 DEF MInv, UrlKept, Hbi!on_message_complete
<1>8. /\ Lies(hurl, Len(hmem'))
      /\ \A i \in 1..num_fields : Lies(hfields[i], Len(hmem'))
      /\ \A i \in 1..num_values : Lies(hvalues[i], Len(hmem'))
  BY <1>1, BufferGrows
<1>9. BindTypes'
  <2>1. hsent' \in [url : Seq(Byte), headers : Seq(Header)]
    BY <1>0, <1>3 DEF Hbi!NoMessage
  <2> QED
    BY <1>0, <1>2, <1>3, <2>1 DEF MInv, BindTypes
<1>10. PtrsLie'
  BY <1>0, <1>3, <1>8 DEF PtrsLie
<1>11. RunPlaced' /\ HeadersKept'
  BY <1>0 DEF RunPlaced, Half, HeadersKept
<1>12. UrlKept'
  BY <1>0 DEF UrlKept
<1>13. Hbi!MessagesAsSent'
  <2>1. hlimit' = hlimit /\ hphase' = "idle"
    BY <1>0
  <2>2. Hbi!UpToTheLimit(hgot.is.headers, hgot.was.headers)'
    BY <1>6, <2>1 DEF Hbi!UpToTheLimit
  <2> QED
    BY <1>7, <2>1, <2>2 DEF Hbi!MessagesAsSent
<1> QED
  BY <1>9, <1>10, <1>11, <1>12, <1>13 DEF MInv

(* What a run leaves behind for the phase and for the next run.            *)
RunBytes(n) == [i \in 1..n |-> <<hrun.what, hrun.no, hrun.read + i>>]
FoldBytes(then) == IF then = "fold" THEN <<Hbi!Junk>> ELSE <<>>

LEMMA Reads ==
  ASSUME MInv, NEW n \in Nat, NEW then, Hbi!Report(n, then)
  PROVE  /\ RunBytes(n) \in Seq(Byte) /\ FoldBytes(then) \in Seq(Byte)
         /\ hmem' = (hmem \o RunBytes(n)) \o FoldBytes(then)
         /\ hmem' = hmem \o (RunBytes(n) \o FoldBytes(then)) /\ RunBytes(n) \o FoldBytes(then) \in Seq(Byte)
         /\ hmem' \in Seq(Byte) /\ Len(hmem') \in Nat
<1>1. hmem \in Seq(Byte)
  BY DEF MInv, BindTypes
<1>2. RunBytes(n) \in Seq(Byte)
  <2>1. hrun.what \in {"none", "url", "field", "value"} /\ hrun.no \in Nat /\ hrun.read \in Nat
    BY DEF MInv, BindTypes
  <2>2. \A i \in 1..n : <<hrun.what, hrun.no, hrun.read + i>> \in Byte
    BY <2>1 DEF Byte
  <2>3. RunBytes(n) \in [1..n -> Byte]
    BY <2>2 DEF RunBytes
  <2> QED
    BY <2>3, SeqDef
<1>3. FoldBytes(then) \in Seq(Byte)
  BY JunkIsByte, EmptySeq DEF FoldBytes
<1>4. hmem' = (hmem \o RunBytes(n)) \o FoldBytes(then)
  BY DEF Hbi!Report, RunBytes, FoldBytes
<1>5. hmem' = hmem \o (RunBytes(n) \o FoldBytes(then)) /\ RunBytes(n) \o FoldBytes(then) \in Seq(Byte)
  BY <1>1, <1>2, <1>3, <1>4, ConcatAssociative, ConcatProperties
<1>6. hmem' \in Seq(Byte)
  BY <1>1, <1>5, ConcatProperties
<1> QED
  BY <1>2, <1>3, <1>4, <1>5, <1>6, LenProperties

LEMMA RunGoesOn ==
  ASSUME MInv, NEW n \in Nat, NEW then \in {"done", "cut", "fold"}, Hbi!Report(n, then)
  PROVE  /\ hrun' \in [what : {"none", "url", "field", "value"}, no : Nat, read : Nat, left : Nat, cut : BOOLEAN]
         /\ hphase' \in {"idle", "url", "headers", "header value", "body", "trailers", "trailer value"}
         /\ UNCHANGED <<hexec, hlimit, hgot, hleft, hmessages>>
         /\ hphase # "idle" /\ hphase' # "idle"
         /\ hphase' = "url" <=> hrun'.what = "url"
         /\ hrun'.what # "none" => hrun'.what = hrun.what /\ hrun'.no = hrun.no /\ hrun'.read # 0
         /\ hrun'.what = "field" => hphase' \in {"headers", "trailers"}
         /\ hrun'.what = "value" => hphase' \in {"header value", "trailer value"}
         /\ hphase' \in {"header value", "trailer value"} => hrun.what # "url"
         /\ hphase' \in {"url", "headers", "header value"} <=> hphase \in {"url", "headers", "header value"}
         /\ hphase' \in {"trailers", "trailer value"} <=> hphase \in {"trailers", "trailer value"}
         /\ hphase' # "body" /\ (hphase' = "url" => hrun.what = "url")
         /\ hrun.what = "field" <=> Half'
<1>1. /\ hrun \in [what : {"none", "url", "field", "value"}, no : Nat, read : Nat, left : Nat, cut : BOOLEAN]
      /\ hphase \in {"idle", "url", "headers", "header value", "body", "trailers", "trailer value"}
      /\ hphase = "url" <=> hrun.what = "url"
      /\ hrun.what = "field" => hphase \in {"headers", "trailers"}
      /\ hrun.what = "value" => hphase \in {"header value", "trailer value"}
  BY DEF MInv, BindTypes, RunPlaced
<1>2. /\ hrun.what # "none" /\ n <= hrun.left /\ (then # "done" => n > 0)
      /\ UNCHANGED <<hexec, hlimit, hgot, hleft, hmessages>>
  BY DEF Hbi!Report
<1>3. CASE then = "done"
  <2>1. hrun' = [what |-> "none", no |-> 0, read |-> 0, left |-> 0, cut |-> FALSE]
    BY <1>3 DEF Hbi!Report, Hbi!NoRun
  <2>2. hphase' = CASE hphase = "headers" -> "header value"
                    [] hphase = "trailers" -> "trailer value"
                    [] hphase = "trailer value" -> "trailers"
                    [] OTHER -> "headers"
    BY <1>3 DEF Hbi!Report
  <2>3. hrun'.what = "none"
    BY <2>1
  <2>4. hrun' \in [what : {"none", "url", "field", "value"}, no : Nat, read : Nat, left : Nat, cut : BOOLEAN]
    BY <2>1
  <2> QED
    <3>1. Half' <=> hphase' \in {"header value", "trailer value"}
      BY <2>3 DEF Half
    <3>2. \/ hrun.what = "url" /\ hphase = "url" /\ hphase' = "headers"
          \/ /\ hrun.what = "field"
             /\ \/ hphase = "headers" /\ hphase' = "header value"
                \/ hphase = "trailers" /\ hphase' = "trailer value"
          \/ /\ hrun.what = "value"
             /\ \/ hphase = "header value" /\ hphase' = "headers"
                \/ hphase = "trailer value" /\ hphase' = "trailers"
      <4>1. CASE hrun.what = "url"
        BY <1>1, <2>2, <4>1
      <4>2. CASE hrun.what = "field"
        <5>1. hphase = "headers" => hphase' = "header value"
          BY <2>2
        <5>2. hphase = "trailers" => hphase' = "trailer value"
          BY <2>2
        <5> QED
          BY <1>1, <4>2, <5>1, <5>2
      <4>3. CASE hrun.what = "value"
        <5>1. hphase = "header value" => hphase' = "headers"
          BY <2>2
        <5>2. hphase = "trailer value" => hphase' = "trailers"
          BY <2>2
        <5> QED
          BY <1>1, <4>3, <5>1, <5>2
      <4> QED
        BY <1>1, <1>2, <4>1, <4>2, <4>3
    <3> QED
      BY <1>2, <2>3, <2>4, <3>1, <3>2
<1>4. CASE then # "done"
  <2>1. hphase' = hphase
        /\ hrun' = [hrun EXCEPT !.read = hrun.read + n, !.left = hrun.left - n, !.cut = (then = "cut")]
    BY <1>4 DEF Hbi!Report
  <2>2. hrun.read + n \in Nat /\ hrun.read + n # 0 /\ hrun.left - n \in Nat
    <3>1. PICK r \in Nat : r = hrun.read
      BY <1>1
    <3>2. PICK l \in Nat : l = hrun.left
      BY <1>1
    <3>3. n <= l /\ n > 0
      BY <1>2, <1>4, <3>2
    <3>4. r + n \in Nat /\ r + n # 0 /\ l - n \in Nat
      BY <3>3
    <3> QED
      BY <3>1, <3>2, <3>4
  <2>3. hrun'.what = hrun.what /\ hrun'.no = hrun.no /\ hrun'.read = hrun.read + n
    BY <1>1, <2>1
  <2>4. hrun' \in [what : {"none", "url", "field", "value"}, no : Nat, read : Nat, left : Nat, cut : BOOLEAN]
    BY <1>1, <2>1, <2>2
  <2> QED
    BY <1>1, <1>2, <2>1, <2>2, <2>3, <2>4 DEF Half
<1> QED
  BY <1>3, <1>4

(* What is left to show when a run is reported.                            *)
LEMMA Reported ==
  ASSUME MInv, NEW n \in Nat, NEW then \in {"done", "cut", "fold"}, Hbi!Report(n, then),
         hurl' \in Ptr, hfields' \in [1..Slots -> Ptr], hvalues' \in [1..Slots -> Ptr],
         num_fields' \in 0..(Slots - 1), num_values' \in 0..num_fields',
         have_flushed' \in BOOLEAN, jsHeaders' \in Seq(Header), jsUrl' \in Seq(Byte),
         hsent' \in [url : Seq(Byte), headers : Seq(Header)], PtrsLie',
         hrun.what = "field" => Len(hsent'.headers) = hrun.no + 1,
         hrun.what = "value" => Len(hsent'.headers) = hrun.no,
         num_fields' = num_values' + (IF hrun.what = "field" THEN 1 ELSE 0),
         hrun.what # "url" => num_fields' # 0,
         HeadersKept', UrlKept'
  PROVE  MInv'
<1>1. hmem' \in Seq(Byte)
  BY Reads
<1>2. /\ hrun' \in [what : {"none", "url", "field", "value"}, no : Nat, read : Nat, left : Nat, cut : BOOLEAN]
      /\ hphase' \in {"idle", "url", "headers", "header value", "body", "trailers", "trailer value"}
      /\ UNCHANGED <<hexec, hlimit, hgot, hleft, hmessages>> /\ hphase # "idle"
      /\ hphase' = "url" <=> hrun'.what = "url"
      /\ hrun'.what # "none" => hrun'.what = hrun.what /\ hrun'.no = hrun.no /\ hrun'.read # 0
      /\ hrun'.what = "field" => hphase' \in {"headers", "trailers"}
      /\ hrun'.what = "value" => hphase' \in {"header value", "trailer value"}
      /\ hphase' \in {"header value", "trailer value"} => hrun.what # "url"
      /\ hrun.what = "field" <=> Half'
  BY RunGoesOn
<1>3. BindTypes'
  BY <1>1, <1>2 DEF MInv, BindTypes
<1>4. RunPlaced'
  <2>1. num_fields' = num_values' + (IF Half' THEN 1 ELSE 0)
    BY <1>2
  <2>2. hrun'.what = "field" => Len(hsent'.headers) = hrun'.no + (IF hrun'.read = 0 THEN 0 ELSE 1)
    BY <1>2
  <2> HIDE DEF Half
  <2> QED
    BY <1>2, <2>1, <2>2 DEF RunPlaced
<1>5. Hbi!MessagesAsSent'
  BY <1>2, GotStands
<1> QED
  BY <1>3, <1>4, <1>5 DEF MInv

(* The string that is updated.                                             *)
LEMMA UpdatedIn ==
  ASSUME MInv, NEW s \in Ptr, Lies(s, Len(hmem)), NEW bytes \in Seq(Byte), NEW more \in Seq(Byte),
         hmem' = (hmem \o bytes) \o more, NEW u, u = Hbi!Update(s, Len(hmem) + 1, bytes)
  PROVE  u \in Ptr /\ Lies(u, Len(hmem')) /\ Text(u, hmem') = Text(s, hmem) \o bytes
<1>1. hmem \in Seq(Byte) /\ hmem \o bytes \in Seq(Byte)
  BY ConcatProperties DEF MInv, BindTypes
<1>2. u \in Ptr /\ Lies(u, Len(hmem \o bytes)) /\ Text(u, hmem \o bytes) = Text(s, hmem) \o bytes
  BY <1>1, TextUpdated
<1> QED
  BY <1>1, <1>2, TextStays

LEMMA NullUpdated ==
  ASSUME MInv, NEW bytes \in Seq(Byte), NEW more \in Seq(Byte),
         hmem' = (hmem \o bytes) \o more, NEW u, u = Hbi!Update(Hbi!Null, Len(hmem) + 1, bytes)
  PROVE  u \in Ptr /\ Lies(u, Len(hmem')) /\ Text(u, hmem') = bytes
<1>1. hmem \in Seq(Byte) /\ Len(hmem) \in Nat
  BY LenProperties DEF MInv, BindTypes
<1>2. Hbi!Null \in Ptr /\ Lies(Hbi!Null, Len(hmem)) /\ Text(Hbi!Null, hmem) = <<>>
  BY <1>1, NullIs
<1>3. u \in Ptr /\ Lies(u, Len(hmem')) /\ Text(u, hmem') = <<>> \o bytes
  BY <1>2, UpdatedIn
<1> QED
  BY <1>3, ConcatEmptySeq

(* A slot that is not touched holds what it held.                          *)
LEMMA SlotStands ==
  ASSUME MInv, NEW more \in Seq(Byte), hmem' = hmem \o more, NEW i \in 1..num_fields,
         hfields'[i] = hfields[i], i <= num_values' <=> i <= num_values,
         i <= num_values => hvalues'[i] = hvalues[i]
  PROVE  HeaderOf(i)' = HeaderOf(i)
<1>1. Text(hfields[i], hmem') = Text(hfields[i], hmem)
  BY BufferGrows
<1>2. ASSUME i <= num_values PROVE Text(hvalues[i], hmem') = Text(hvalues[i], hmem)
  <2>1. i \in 1..num_values
    BY <1>2, InSlots
  <2> QED
    BY <2>1, BufferGrows
<1> QED
  BY <1>1, <1>2 DEF HeaderOf

LEMMA on_urlMInv ==
  ASSUME MInv, NEW n \in Nat, NEW then \in {"done", "cut", "fold"}, Hbi!Report(n, then),
         Hbi!on_url(Len(hmem) + 1, RunBytes(n))
  PROVE  MInv'
<1> DEFINE bytes == RunBytes(n)
<1>1. /\ bytes \in Seq(Byte) /\ FoldBytes(then) \in Seq(Byte) /\ hmem' = (hmem \o bytes) \o FoldBytes(then)
      /\ hmem' = hmem \o (bytes \o FoldBytes(then)) /\ bytes \o FoldBytes(then) \in Seq(Byte)
      /\ hmem' \in Seq(Byte)
  BY Reads
<1>2. /\ hrun.what = "url" /\ hurl' = Hbi!Update(hurl, Len(hmem) + 1, bytes)
      /\ hsent' = [hsent EXCEPT !.url = @ \o bytes]
      /\ UNCHANGED <<hfields, hvalues, num_fields, num_values, have_flushed, jsHeaders, jsUrl>>
  BY DEF Hbi!on_url
<1>3. /\ hphase # "idle" /\ hphase' # "idle"
      /\ hphase' \in {"url", "headers", "header value"} <=> hphase \in {"url", "headers", "header value"}
      /\ hphase' \in {"trailers", "trailer value"} <=> hphase \in {"trailers", "trailer value"}
      /\ hphase' # "body" /\ hleft' = hleft
  BY RunGoesOn
<1>4. hphase = "url" /\ ~Half
  <2>1. hphase = "url"
    BY <1>2 DEF MInv, RunPlaced
  <2> QED
    BY <1>2, <2>1 DEF Half
<1>5. num_fields = num_values
  <2>1. num_fields = num_values + 0 /\ num_values \in Nat
    BY <1>4, InSlots DEF MInv, RunPlaced
  <2> QED
    BY <2>1
<1>6. hurl' \in Ptr /\ Lies(hurl', Len(hmem')) /\ Text(hurl', hmem') = Text(hurl, hmem) \o bytes
  <2>1. hurl \in Ptr /\ Lies(hurl, Len(hmem))
    BY DEF MInv, BindTypes, PtrsLie
  <2> HIDE DEF bytes
  <2> QED
    BY <1>1, <1>2, <2>1, UpdatedIn
<1>7. /\ hsent.url \in Seq(Byte) /\ hsent.headers \in Seq(Header)
      /\ hsent \in [url : Seq(Byte), headers : Seq(Header)]
  BY DEF MInv, BindTypes
<1> HIDE DEF bytes
<1>8. hsent.url \o bytes \in Seq(Byte)
  BY <1>1, <1>7, ConcatProperties
<1>9. /\ hsent' \in [url : Seq(Byte), headers : Seq(Header)]
      /\ hsent'.url = hsent.url \o bytes /\ hsent'.headers = hsent.headers
  BY <1>2, <1>7, <1>8
<1>10. /\ \A i \in 1..num_fields : Lies(hfields[i], Len(hmem'))
       /\ \A i \in 1..num_values : Lies(hvalues[i], Len(hmem'))
  BY <1>1, BufferGrows
<1>11. PtrsLie'
  BY <1>2, <1>6, <1>10 DEF PtrsLie
<1>12. ASSUME NEW i \in 1..num_fields PROVE HeaderOf(i)' = HeaderOf(i)
  BY <1>1, <1>2, SlotStands
<1>13. HeadersKept'
  <2>1. hlimit' = hlimit
    BY RunGoesOn
  <2>2. ASSUME NEW f \in Nat, HeadersAfter(f) PROVE HeadersAfter(f)'
    BY <1>2, <1>9, <1>12, <2>1, <2>2 DEF HeadersAfter
  <2> QED
    BY <1>3, <2>2 DEF MInv, HeadersKept
<1>14. UrlKept'
  <2>1. jsUrl = hleft /\ Text(hurl, hmem) = hsent.url /\ (~have_flushed => jsHeaders = <<>>)
    BY <1>4 DEF MInv, UrlKept, UrlApart
  <2>2. UrlApart'
    BY <1>2, <1>3, <1>6, <1>9, <2>1 DEF UrlApart
  <2> QED
    BY <1>2, <1>3, <1>4, <2>1, <2>2 DEF UrlKept
<1>15. /\ hfields \in [1..Slots -> Ptr] /\ hvalues \in [1..Slots -> Ptr]
       /\ num_fields \in 0..(Slots - 1) /\ num_values \in 0..num_fields /\ have_flushed \in BOOLEAN
       /\ jsHeaders \in Seq(Header) /\ jsUrl \in Seq(Byte)
  BY DEF MInv, BindTypes
<1>16. num_fields' = num_values' + (IF hrun.what = "field" THEN 1 ELSE 0)
  BY <1>2, <1>5, <1>15
<1> QED
  BY <1>2, <1>6, <1>9, <1>11, <1>13, <1>14, <1>15, <1>16, Reported

(* The name of a header.                                                   *)
FieldSlot ==
  IF num_fields = num_values
  THEN IF num_fields + 1 = Slots THEN 1 ELSE num_fields + 1
  ELSE num_fields

LEMMA FieldSlots ==
  ASSUME MInv, hrun.what = "field"
  PROVE  /\ hphase \in {"headers", "trailers"} /\ hrun.no \in Nat
         /\ FieldSlot \in 1..(Slots - 1) /\ FieldSlot \in 1..Slots
         /\ hrun.read = 0 => num_fields = num_values /\ Len(hsent.headers) = hrun.no
         /\ hrun.read # 0 => num_fields = num_values + 1 /\ Len(hsent.headers) = hrun.no + 1
         /\ num_fields = num_values <=> hrun.read = 0
<1>1. /\ hphase \in {"headers", "trailers"} /\ hrun.no \in Nat
      /\ Len(hsent.headers) = hrun.no + (IF hrun.read = 0 THEN 0 ELSE 1)
  BY DEF MInv, BindTypes, RunPlaced
<1>2. Half <=> hrun.read # 0
  BY <1>1 DEF Half
<1>3. /\ num_fields = num_values + (IF hrun.read # 0 THEN 1 ELSE 0)
      /\ num_fields \in Nat /\ num_values \in Nat /\ num_fields <= Slots - 1 /\ Slots \in Nat
  BY <1>1, <1>2, InSlots DEF MInv, RunPlaced
<1>4. Slots # 0 /\ Slots # 1
  BY BindingAssumption
<1>5. FieldSlot \in 1..(Slots - 1) /\ FieldSlot \in 1..Slots
  BY <1>3, <1>4 DEF FieldSlot
<1> QED
  BY <1>1, <1>3, <1>5

LEMMA FieldReported ==
  ASSUME MInv, NEW n \in Nat, NEW then \in {"done", "cut", "fold"}, Hbi!Report(n, then),
         Hbi!on_header_field(Len(hmem) + 1, RunBytes(n))
  PROVE  /\ hrun.what = "field" /\ num_fields' = FieldSlot /\ hvalues' = hvalues
         /\ hfields' \in [1..Slots -> Ptr] /\ Lies(hfields'[FieldSlot], Len(hmem'))
         /\ \A i \in 1..Slots : i # FieldSlot => hfields'[i] = hfields[i]
         /\ hrun.read = 0 => Text(hfields'[FieldSlot], hmem') = RunBytes(n)
         /\ hrun.read # 0 => Text(hfields'[FieldSlot], hmem') = Text(hfields[num_fields], hmem) \o RunBytes(n)
         /\ hsent' = IF hrun.read = 0 THEN [hsent EXCEPT !.headers = Append(@, <<RunBytes(n), <<>>>>)]
                     ELSE [hsent EXCEPT !.headers[hrun.no + 1][1] = @ \o RunBytes(n)]
         /\ IF hrun.read = 0 /\ num_fields + 1 = Slots THEN num_values' = 0 /\ Hbi!Flush
            ELSE UNCHANGED <<num_values, hurl, have_flushed, jsHeaders, jsUrl>>
<1> DEFINE bytes == RunBytes(n)
<1>1. bytes \in Seq(Byte) /\ FoldBytes(then) \in Seq(Byte) /\ hmem' = (hmem \o bytes) \o FoldBytes(then)
  BY Reads
<1>2. hrun.what = "field"
  BY DEF Hbi!on_header_field
<1>3. /\ FieldSlot \in 1..Slots /\ (num_fields = num_values <=> hrun.read = 0)
      /\ hrun.read # 0 => num_fields = num_values + 1
  BY <1>2, FieldSlots
<1>4. /\ num_fields' = FieldSlot /\ hvalues' = hvalues
      /\ hfields' = [hfields EXCEPT ![FieldSlot] =
                       Hbi!Update(IF num_fields = num_values THEN Hbi!Null ELSE hfields[FieldSlot],
                                  Len(hmem) + 1, bytes)]
      /\ hsent' = IF hrun.read = 0 THEN [hsent EXCEPT !.headers = Append(@, <<bytes, <<>>>>)]
                  ELSE [hsent EXCEPT !.headers[hrun.no + 1][1] = @ \o bytes]
      /\ IF num_fields = num_values /\ num_fields + 1 = Slots THEN num_values' = 0 /\ Hbi!Flush
         ELSE UNCHANGED <<num_values, hurl, have_flushed, jsHeaders, jsUrl>>
  BY DEF Hbi!on_header_field, FieldSlot
<1>5. hfields \in [1..Slots -> Ptr]
  BY DEF MInv, BindTypes
<1> HIDE DEF bytes
<1>6. PICK u : u = hfields'[FieldSlot]
  OBVIOUS
<1>7. u = Hbi!Update(IF num_fields = num_values THEN Hbi!Null ELSE hfields[FieldSlot], Len(hmem) + 1, bytes)
  <2>1. PICK w : w = Hbi!Update(IF num_fields = num_values THEN Hbi!Null ELSE hfields[FieldSlot],
                                Len(hmem) + 1, bytes)
    OBVIOUS
  <2>2. hfields' = [hfields EXCEPT ![FieldSlot] = w]
    BY <1>4, <2>1
  <2>3. hfields'[FieldSlot] = w
    BY <1>3, <1>5, <2>2
  <2> QED
    BY <1>6, <2>1, <2>3
<1>8. /\ u \in Ptr /\ Lies(u, Len(hmem'))
      /\ hrun.read = 0 => Text(u, hmem') = bytes
      /\ hrun.read # 0 => Text(u, hmem') = Text(hfields[num_fields], hmem) \o bytes
  <2>1. CASE hrun.read = 0
    <3>1. u = Hbi!Update(Hbi!Null, Len(hmem) + 1, bytes)
      BY <1>3, <1>7, <2>1
    <3> QED
      BY <1>1, <2>1, <3>1, NullUpdated
  <2>2. CASE hrun.read # 0
    <3>1. FieldSlot = num_fields /\ num_fields \in 1..num_fields
      BY <1>3, <2>2, InSlots DEF FieldSlot
    <3>2. hfields[num_fields] \in Ptr /\ Lies(hfields[num_fields], Len(hmem))
      BY <3>1, InSlots
    <3>3. u = Hbi!Update(hfields[num_fields], Len(hmem) + 1, bytes)
      BY <1>3, <1>7, <2>2, <3>1
    <3> QED
      BY <1>1, <2>2, <3>2, <3>3, UpdatedIn
  <2> QED
    BY <2>1, <2>2
<1>9. hfields' \in [1..Slots -> Ptr] /\ \A i \in 1..Slots : i # FieldSlot => hfields'[i] = hfields[i]
  <2>1. hfields' = [hfields EXCEPT ![FieldSlot] = u]
    BY <1>3, <1>4, <1>5, <1>7
  <2> QED
    BY <1>3, <1>5, <1>8, <2>1
<1> QED
  BY <1>2, <1>3, <1>4, <1>6, <1>8, <1>9 DEF bytes

(* A field's slots after the report: num_fields', and those that stand.    *)
LEMMA FieldSlotsLie ==
  ASSUME MInv, NEW n \in Nat, NEW then \in {"done", "cut", "fold"}, Hbi!Report(n, then),
         Hbi!on_header_field(Len(hmem) + 1, RunBytes(n)),
         \A i \in 1..num_fields' : i # FieldSlot => i \in 1..num_fields,
         \A i \in 1..num_values' : i \in 1..num_values,
         Lies(hurl', Len(hmem'))
  PROVE  PtrsLie'
<1>1. hmem' = hmem \o (RunBytes(n) \o FoldBytes(then)) /\ RunBytes(n) \o FoldBytes(then) \in Seq(Byte)
  BY Reads
<1>2. /\ num_fields' = FieldSlot /\ hvalues' = hvalues /\ Lies(hfields'[FieldSlot], Len(hmem'))
      /\ \A i \in 1..Slots : i # FieldSlot => hfields'[i] = hfields[i]
  BY FieldReported
<1>3. /\ \A i \in 1..num_fields : Lies(hfields[i], Len(hmem'))
      /\ \A i \in 1..num_values : Lies(hvalues[i], Len(hmem'))
      /\ \A i \in 1..num_fields : i \in 1..Slots
  BY <1>1, BufferGrows, InSlots
<1>4. ASSUME NEW i \in 1..num_fields' PROVE Lies(hfields'[i], Len(hmem'))
  <2>1. CASE i = FieldSlot
    BY <1>2, <2>1
  <2>2. CASE i # FieldSlot
    BY <1>2, <1>3, <2>2
  <2> QED
    BY <2>1, <2>2
<1>5. ASSUME NEW i \in 1..num_values' PROVE Lies(hvalues'[i], Len(hmem'))
  BY <1>2, <1>3
<1> QED
  BY <1>4, <1>5 DEF PtrsLie

(* A header begins, and there is a slot for it.                            *)
LEMMA NewHeaderMInv ==
  ASSUME MInv, NEW n \in Nat, NEW then \in {"done", "cut", "fold"}, Hbi!Report(n, then),
         Hbi!on_header_field(Len(hmem) + 1, RunBytes(n)), hrun.read = 0, num_fields + 1 # Slots
  PROVE  MInv'
<1> DEFINE bytes == RunBytes(n)
<1>1. /\ bytes \in Seq(Byte) /\ hmem' = hmem \o (bytes \o FoldBytes(then)) /\ bytes \o FoldBytes(then) \in Seq(Byte)
      /\ hmem' \in Seq(Byte)
  BY Reads
<1>2. /\ hrun.what = "field" /\ num_fields' = FieldSlot /\ hvalues' = hvalues
      /\ hfields' \in [1..Slots -> Ptr]
      /\ \A i \in 1..Slots : i # FieldSlot => hfields'[i] = hfields[i]
      /\ Text(hfields'[FieldSlot], hmem') = bytes
      /\ hsent' = [hsent EXCEPT !.headers = Append(@, <<bytes, <<>>>>)]
      /\ UNCHANGED <<num_values, hurl, have_flushed, jsHeaders, jsUrl>>
  BY FieldReported
<1>3. /\ num_fields = num_values /\ Len(hsent.headers) = hrun.no
      /\ num_fields \in Nat /\ num_values \in Nat /\ num_fields <= Slots - 1 /\ Slots \in Nat
      /\ \A i \in 1..num_fields : i \in 1..Slots
  BY <1>2, FieldSlots, InSlots
<1>k. PICK k \in Nat : k = num_fields + 1
  BY <1>3
<1>4. FieldSlot = k
  BY <1>3, <1>k DEF FieldSlot
<1> HIDE DEF bytes
<1>5. PtrsLie'
  <2>1. \A i \in 1..num_fields' : i # FieldSlot => i \in 1..num_fields
    BY <1>2, <1>3, <1>k, <1>4
  <2>2. Lies(hurl', Len(hmem'))
    BY <1>1, <1>2, BufferGrows
  <2> QED
    BY <1>2, <2>1, <2>2, FieldSlotsLie
<1>6. ASSUME NEW i \in 1..num_fields PROVE HeaderOf(i)' = HeaderOf(i)
  <2>1. i # FieldSlot /\ i \in 1..Slots
    BY <1>3, <1>k, <1>4
  <2> QED
    BY <1>1, <1>2, <2>1, SlotStands
<1>7. HeaderOf(k)' = <<bytes, <<>>>>
  <2>1. ~(k <= num_values')
    BY <1>2, <1>3, <1>k, <1>4
  <2> QED
    BY <1>2, <1>4, <2>1 DEF HeaderOf
<1>8. /\ hsent \in [url : Seq(Byte), headers : Seq(Header)] /\ hsent.headers \in Seq(Header)
      /\ jsHeaders \in Seq(Header) /\ jsUrl \in Seq(Byte)
      /\ have_flushed \in BOOLEAN /\ hurl \in Ptr /\ hvalues \in [1..Slots -> Ptr]
  BY DEF MInv, BindTypes
<1>9. <<bytes, <<>>>> \in Header
  BY <1>1, EmptySeq DEF Header
<1>10. PICK h : h = Append(hsent.headers, <<bytes, <<>>>>)
  OBVIOUS
<1>11. /\ h \in Seq(Header) /\ Len(h) = Len(hsent.headers) + 1
       /\ \A i \in 1..Len(hsent.headers) : h[i] = hsent.headers[i]
       /\ h[Len(hsent.headers) + 1] = <<bytes, <<>>>>
  BY <1>8, <1>9, <1>10, AppendProperties
<1>12. /\ hsent' \in [url : Seq(Byte), headers : Seq(Header)]
       /\ hsent'.headers = h /\ hsent'.url = hsent.url
  BY <1>2, <1>8, <1>10, <1>11
<1>13. hphase # "idle" /\ hphase' # "idle" /\ hphase \in {"headers", "trailers"}
       /\ (hphase' \in {"url", "headers", "header value"} <=> hphase \in {"url", "headers", "header value"})
       /\ (hphase' \in {"trailers", "trailer value"} <=> hphase \in {"trailers", "trailer value"})
       /\ hphase' # "body" /\ hphase' # "url" /\ hleft' = hleft
  <2>1. hrun.what # "url"
    BY <1>2
  <2> QED
    BY <1>2, <2>1, RunGoesOn, FieldSlots
<1>14. HeadersKept'
  <2>f. PICK f \in Nat : HeadersAfter(f)
    BY <1>13 DEF MInv, HeadersKept
  <2>1. /\ Len(hsent.headers) = f + num_fields /\ Len(jsHeaders) \in Nat /\ Len(jsHeaders) <= f
        /\ Len(jsHeaders) < f => hlimit # 0 /\ hlimit <= Len(jsHeaders)
        /\ \A i \in 1..Len(jsHeaders) : hsent.headers[i] = jsHeaders[i]
        /\ \A i \in 1..num_fields : hsent.headers[f + i] = HeaderOf(i)
    BY <1>8, <2>f, LenProperties DEF HeadersAfter
  <2>2. Len(h) = f + num_fields'
    BY <1>2, <1>3, <1>k, <1>4, <1>11, <2>1
  <2>3. ASSUME NEW i \in 1..Len(jsHeaders) PROVE h[i] = jsHeaders[i]
    <3>1. i \in 1..Len(hsent.headers)
      BY <1>3, <2>1
    <3> QED
      BY <1>11, <2>1, <3>1
  <2>4. ASSUME NEW i \in 1..num_fields' PROVE h[f + i] = HeaderOf(i)'
    <3>1. CASE i = k
      <4>1. f + k = Len(hsent.headers) + 1
        <5>2. PICK m \in Nat : m = num_fields
          BY <1>3
        <5>3. Len(hsent.headers) = f + m /\ k = m + 1
          BY <1>k, <2>1, <5>2
        <5> QED
          BY <5>3
      <4> QED
        BY <1>7, <1>11, <3>1, <4>1
    <3>2. CASE i # k
      <4>1. i \in 1..num_fields /\ f + i \in 1..Len(hsent.headers)
        BY <1>2, <1>3, <1>k, <1>4, <2>1, <3>2
      <4> QED
        BY <1>6, <1>11, <2>1, <4>1
    <3> QED
      BY <3>1, <3>2
  <2> QED
    <3>1. hlimit' = hlimit
      BY RunGoesOn
    <3>2. HeadersAfter(f)'
      BY <1>2, <1>12, <2>1, <2>2, <2>3, <2>4, <3>1 DEF HeadersAfter
    <3> QED
      BY <3>2 DEF HeadersKept
<1>15. UrlKept'
  <2>1. Text(hurl', hmem') = Text(hurl, hmem)
    BY <1>1, <1>2, BufferGrows
  <2> QED
    BY <1>2, <1>12, <1>13, <2>1 DEF MInv, UrlKept, UrlApart
<1>16. num_fields' \in 0..(Slots - 1) /\ num_values' \in 0..num_fields'
       /\ num_fields' = num_values' + 1 /\ num_fields' # 0
  BY <1>2, <1>3, <1>k, <1>4
<1>17. Len(hsent'.headers) = hrun.no + 1
  BY <1>3, <1>11, <1>12
<1> QED
  BY <1>2, <1>5, <1>8, <1>12, <1>14, <1>15, <1>16, <1>17, Reported

(* A header begins, and the slots are full: they are handed over first.    *)
LEMMA FlushMInv ==
  ASSUME MInv, NEW n \in Nat, NEW then \in {"done", "cut", "fold"}, Hbi!Report(n, then),
         Hbi!on_header_field(Len(hmem) + 1, RunBytes(n)), hrun.read = 0, num_fields + 1 = Slots
  PROVE  MInv'
<1> DEFINE bytes == RunBytes(n)
<1>1. bytes \in Seq(Byte) /\ hmem' \in Seq(Byte) /\ Len(hmem') \in Nat
  BY Reads
<1>2. /\ hrun.what = "field" /\ num_fields' = FieldSlot /\ hvalues' = hvalues
      /\ hfields' \in [1..Slots -> Ptr]
      /\ \A i \in 1..Slots : i # FieldSlot => hfields'[i] = hfields[i]
      /\ Text(hfields'[FieldSlot], hmem') = bytes
      /\ hsent' = [hsent EXCEPT !.headers = Append(@, <<bytes, <<>>>>)]
      /\ num_values' = 0 /\ Hbi!Flush
  BY FieldReported
<1>3. /\ num_fields = num_values /\ Len(hsent.headers) = hrun.no /\ Slots \in Nat /\ Slots # 0 /\ Slots # 1
  BY <1>2, FieldSlots, InSlots, BindingAssumption
<1>4. FieldSlot = 1
  BY <1>3 DEF FieldSlot
<1>5. hphase # "idle" /\ hphase' # "idle" /\ hphase \in {"headers", "trailers"}
      /\ (hphase' \in {"url", "headers", "header value"} <=> hphase \in {"url", "headers", "header value"})
      /\ (hphase' \in {"trailers", "trailer value"} <=> hphase \in {"trailers", "trailer value"})
      /\ hphase' # "body" /\ hphase' # "url" /\ hleft' = hleft
  <2>1. hrun.what # "url"
    BY <1>2
  <2> QED
    BY <1>2, <2>1, RunGoesOn, FieldSlots
<1>6. Text(hurl, hmem) \in Seq(Byte) /\ Hbi!ToString(hurl) = Text(hurl, hmem)
  BY UrlTextIsSeq
<1>7. /\ jsHeaders' \in Seq(Header) /\ Hbi!UpToTheLimit(jsHeaders', hsent.headers)
      /\ jsUrl' = jsUrl \o Text(hurl, hmem)
      /\ hurl' = Hbi!Null /\ have_flushed' = TRUE
  BY <1>2, <1>3, <1>5, <1>6, Collected DEF Hbi!Flush
<1>8. hurl' \in Ptr /\ Lies(hurl', Len(hmem')) /\ Text(hurl', hmem') = <<>>
  BY <1>1, <1>7, NullIs
<1>9. /\ hsent \in [url : Seq(Byte), headers : Seq(Header)] /\ hsent.headers \in Seq(Header)
      /\ jsUrl \in Seq(Byte) /\ hvalues \in [1..Slots -> Ptr] /\ hmem \in Seq(Byte)
  BY DEF MInv, BindTypes
<1>10. jsUrl' \in Seq(Byte) /\ jsHeaders' \in Seq(Header)
  BY <1>6, <1>7, <1>9, ConcatProperties
<1> HIDE DEF bytes
<1>11. PtrsLie'
  BY <1>2, <1>4, <1>8, FieldSlotsLie
<1>12. HeaderOf(1)' = <<bytes, <<>>>>
  BY <1>2, <1>4 DEF HeaderOf
<1>13. <<bytes, <<>>>> \in Header
  BY <1>1, EmptySeq DEF Header
<1>14. PICK h : h = Append(hsent.headers, <<bytes, <<>>>>)
  OBVIOUS
<1>15. /\ h \in Seq(Header) /\ Len(h) = Len(hsent.headers) + 1
       /\ \A i \in 1..Len(hsent.headers) : h[i] = hsent.headers[i]
       /\ h[Len(hsent.headers) + 1] = <<bytes, <<>>>>
  BY <1>9, <1>13, <1>14, AppendProperties
<1>16. /\ hsent' \in [url : Seq(Byte), headers : Seq(Header)]
       /\ hsent'.headers = h /\ hsent'.url = hsent.url
  BY <1>2, <1>9, <1>14, <1>15
<1>17. HeadersKept'
  <2>1. PICK f \in Nat : f = Len(hsent.headers)
    BY <1>9, LenProperties
  <2>2. /\ Len(jsHeaders') <= f /\ Len(jsHeaders') \in Nat
        /\ Len(jsHeaders') < f => hlimit # 0 /\ hlimit <= Len(jsHeaders')
        /\ \A i \in 1..Len(jsHeaders') : hsent.headers[i] = jsHeaders'[i]
    BY <1>7, <2>1, LenProperties DEF Hbi!UpToTheLimit
  <2>3. \A i \in 1..Len(jsHeaders') : h[i] = jsHeaders'[i]
    BY <1>15, <2>1, <2>2
  <2>4. hlimit' = hlimit
    BY RunGoesOn
  <2>5. HeadersAfter(f)'
    BY <1>2, <1>4, <1>12, <1>15, <1>16, <2>1, <2>2, <2>3, <2>4 DEF HeadersAfter
  <2> QED
    BY <2>5 DEF HeadersKept
<1>18. UrlKept'
  <2>1. hphase = "headers" => UrlApart
    BY DEF MInv, UrlKept
  <2>2. UrlApart => jsUrl' = hleft \o hsent.url
    <3>1. hurl = Hbi!Null => Text(hurl, hmem) = <<>>
      <4>1. Len(hmem) \in Nat
        BY <1>9, LenProperties
      <4> QED
        BY <1>9, <4>1, NullIs
    <3>2. jsUrl \o <<>> = jsUrl
      BY <1>9, ConcatEmptySeq
    <3> QED
      BY <1>7, <3>1, <3>2 DEF UrlApart
  <2>3. hphase = "headers" => UrlApart'
    BY <1>5, <1>7, <1>16, <2>1, <2>2 DEF UrlApart
  <2>4. hphase = "trailers" => hsent'.url = <<>>
    BY <1>16 DEF MInv, UrlKept
  <2> HIDE DEF UrlApart
  <2> QED
    BY <1>5, <1>7, <2>3, <2>4 DEF UrlKept
<1>19. num_fields' \in 0..(Slots - 1) /\ num_values' \in 0..num_fields'
       /\ num_fields' = num_values' + 1 /\ num_fields' # 0
  BY <1>2, <1>3, <1>4
<1>20. Len(hsent'.headers) = hrun.no + 1
  BY <1>3, <1>15, <1>16
<1> QED
  BY <1>2, <1>7, <1>8, <1>9, <1>10, <1>11, <1>16, <1>17, <1>18, <1>19, <1>20, Reported

(* A header that goes on, in the history.                                  *)
LEMMA HeaderPut ==
  ASSUME NEW g \in Seq(Header), NEW h, h \in [1..Len(g) -> Header]
  PROVE  h \in Seq(Header) /\ Len(h) = Len(g)
<1>1. Len(g) \in Nat
  BY LenProperties
<1> QED
  BY <1>1, SeqDef, LenProperties

LEMMA FieldGoesOnMInv ==
  ASSUME MInv, NEW n \in Nat, NEW then \in {"done", "cut", "fold"}, Hbi!Report(n, then),
         Hbi!on_header_field(Len(hmem) + 1, RunBytes(n)), hrun.read # 0
  PROVE  MInv'
<1> DEFINE bytes == RunBytes(n)
<1>1. /\ bytes \in Seq(Byte) /\ hmem' = hmem \o (bytes \o FoldBytes(then)) /\ bytes \o FoldBytes(then) \in Seq(Byte)
      /\ hmem' \in Seq(Byte)
  BY Reads
<1>2. /\ hrun.what = "field" /\ num_fields' = FieldSlot /\ hvalues' = hvalues
      /\ hfields' \in [1..Slots -> Ptr]
      /\ \A i \in 1..Slots : i # FieldSlot => hfields'[i] = hfields[i]
      /\ Text(hfields'[FieldSlot], hmem') = Text(hfields[num_fields], hmem) \o bytes
      /\ hsent' = [hsent EXCEPT !.headers[hrun.no + 1][1] = @ \o bytes]
      /\ UNCHANGED <<num_values, hurl, have_flushed, jsHeaders, jsUrl>>
  BY FieldReported
<1>3. /\ num_fields = num_values + 1 /\ Len(hsent.headers) = hrun.no + 1
      /\ num_fields \in Nat /\ num_values \in Nat /\ num_fields <= Slots - 1 /\ Slots \in Nat
      /\ \A i \in 1..num_fields : i \in 1..Slots
  BY <1>2, FieldSlots, InSlots
<1>4. FieldSlot = num_fields /\ num_fields \in 1..num_fields
  BY <1>3 DEF FieldSlot
<1>k. PICK k \in 1..num_fields : k = num_fields
  BY <1>4
<1> HIDE DEF bytes
<1>5. PtrsLie'
  <2>1. Lies(hurl', Len(hmem'))
    BY <1>1, <1>2, BufferGrows
  <2> QED
    BY <1>2, <1>4, <2>1, FieldSlotsLie
<1>6. ASSUME NEW i \in 1..num_fields, i # num_fields PROVE HeaderOf(i)' = HeaderOf(i)
  <2>1. i # FieldSlot /\ i \in 1..Slots
    BY <1>3, <1>4, <1>6
  <2> QED
    BY <1>1, <1>2, <2>1, SlotStands
<1>7. PICK a \in Seq(Byte) : a = Text(hfields[num_fields], hmem)
  <2>1. hfields[num_fields] \in Ptr /\ Lies(hfields[num_fields], Len(hmem)) /\ hmem \in Seq(Byte)
    BY <1>4, InSlots DEF MInv, BindTypes
  <2> QED
    BY <2>1, TextIsSeq
<1>8. HeaderOf(k) = <<a, <<>>>> /\ HeaderOf(k)' = <<a \o bytes, <<>>>>
  <2>1. ~(k <= num_values)
    BY <1>3, <1>k
  <2>2. num_fields' = num_fields /\ num_values' = num_values
    BY <1>2, <1>4
  <2> QED
    BY <1>2, <1>4, <1>k, <1>7, <2>1, <2>2 DEF HeaderOf
<1>9. /\ hsent \in [url : Seq(Byte), headers : Seq(Header)] /\ hsent.headers \in Seq(Header)
      /\ jsHeaders \in Seq(Header) /\ jsUrl \in Seq(Byte)
      /\ have_flushed \in BOOLEAN /\ hurl \in Ptr /\ hvalues \in [1..Slots -> Ptr]
  BY DEF MInv, BindTypes
<1>10. hphase # "idle" /\ hphase' # "idle" /\ hphase \in {"headers", "trailers"}
       /\ (hphase' \in {"url", "headers", "header value"} <=> hphase \in {"url", "headers", "header value"})
       /\ (hphase' \in {"trailers", "trailer value"} <=> hphase \in {"trailers", "trailer value"})
       /\ hphase' # "body" /\ hphase' # "url" /\ hleft' = hleft
  <2>1. hrun.what # "url"
    BY <1>2
  <2> QED
    BY <1>2, <2>1, RunGoesOn, FieldSlots
<1>h. PICK f \in Nat : HeadersAfter(f)
  BY <1>10 DEF MInv, HeadersKept
<1>11. /\ Len(hsent.headers) = f + num_fields /\ Len(jsHeaders) \in Nat /\ Len(jsHeaders) <= f
       /\ Len(jsHeaders) < f => hlimit # 0 /\ hlimit <= Len(jsHeaders)
       /\ \A i \in 1..Len(jsHeaders) : hsent.headers[i] = jsHeaders[i]
       /\ \A i \in 1..num_fields : hsent.headers[f + i] = HeaderOf(i)
  BY <1>9, <1>h, LenProperties DEF HeadersAfter
<1>12. PICK l \in 1..Len(hsent.headers) : l = f + num_fields
  BY <1>4, <1>11
<1>13. l = hrun.no + 1 /\ hsent.headers[l] = <<a, <<>>>>
  BY <1>3, <1>k, <1>8, <1>11, <1>12
<1>14. /\ hsent' \in [url : Seq(Byte), headers : Seq(Header)] /\ hsent'.url = hsent.url
       /\ Len(hsent'.headers) = Len(hsent.headers) /\ hsent'.headers[l] = <<a \o bytes, <<>>>>
       /\ \A i \in 1..Len(hsent.headers) : i # l => hsent'.headers[i] = hsent.headers[i]
  <2>1. <<>> \in Seq(Byte)
    BY EmptySeq
  <2>2. [hsent.headers[l] EXCEPT ![1] = hsent.headers[l][1] \o bytes] = <<a \o bytes, <<>>>>
    BY <1>13
  <2>3. PICK h : h = [hsent.headers EXCEPT ![l] = <<a \o bytes, <<>>>>]
    OBVIOUS
  <2>4. hsent' = [hsent EXCEPT !.headers = h]
    BY <1>2, <1>13, <2>2, <2>3, Zenon
  <2>5. a \o bytes \in Seq(Byte)
    BY <1>1, <1>7, ConcatProperties
  <2>6. /\ h \in Seq(Header) /\ Len(h) = Len(hsent.headers) /\ h[l] = <<a \o bytes, <<>>>>
        /\ \A i \in 1..Len(hsent.headers) : i # l => h[i] = hsent.headers[i]
    <3>1. hsent.headers \in Seq(Header) /\ l \in 1..Len(hsent.headers)
      BY <1>9, <1>12
    <3>2. <<a \o bytes, <<>>>> \in Header
      BY <2>1, <2>5 DEF Header
    <3>3. PICK x \in Header : x = <<a \o bytes, <<>>>>
      BY <3>2
    <3>4. PICK g \in Seq(Header) : g = hsent.headers
      BY <3>1
    <3>5. l \in 1..Len(g) /\ h = [g EXCEPT ![l] = x]
      BY <2>3, <3>1, <3>3, <3>4
    <3>6. /\ h \in Seq(Header) /\ Len(h) = Len(g) /\ h[l] = x
          /\ \A i \in 1..Len(g) : i # l => h[i] = g[i]
      <4>1. g \in [1..Len(g) -> Header]
        BY <3>4, LenProperties, SeqDef
      <4>2. /\ h \in [1..Len(g) -> Header] /\ h[l] = x
            /\ \A i \in 1..Len(g) : i # l => h[i] = g[i]
        <5>1. x \in Header
          BY <3>3
        <5> QED
          BY <3>5, <4>1, <5>1
      <4> QED
        BY <3>4, <4>2, HeaderPut
    <3> QED
      BY <3>3, <3>4, <3>6
  <2> QED
    BY <1>9, <2>4, <2>6
<1>15. HeadersKept'
  <2>1. ASSUME NEW i \in 1..Len(jsHeaders) PROVE hsent'.headers[i] = jsHeaders[i]
    <3>1. i \in 1..Len(hsent.headers) /\ i # l
      BY <1>4, <1>11, <1>12
    <3> QED
      BY <1>11, <1>14, <3>1
  <2>2. ASSUME NEW i \in 1..num_fields PROVE hsent'.headers[f + i] = HeaderOf(i)'
    <3>1. CASE i = num_fields
      BY <1>k, <1>8, <1>12, <1>14, <3>1
    <3>2. CASE i # num_fields
      <4>1. f + i \in 1..Len(hsent.headers) /\ f + i # l
        BY <1>4, <1>11, <1>12, <3>2
      <4> QED
        BY <1>6, <1>11, <1>14, <3>2, <4>1
    <3> QED
      BY <3>1, <3>2
  <2> QED
    <3>1. hlimit' = hlimit
      BY RunGoesOn
    <3>2. HeadersAfter(f)'
      BY <1>2, <1>4, <1>11, <1>14, <2>1, <2>2, <3>1 DEF HeadersAfter
    <3> QED
      BY <3>2 DEF HeadersKept
<1>16. UrlKept'
  <2>1. Text(hurl', hmem') = Text(hurl, hmem)
    BY <1>1, <1>2, BufferGrows
  <2> QED
    BY <1>2, <1>14, <1>10, <2>1 DEF MInv, UrlKept, UrlApart
<1>17. num_fields' \in 0..(Slots - 1) /\ num_values' \in 0..num_fields'
       /\ num_fields' = num_values' + 1 /\ num_fields' # 0
  BY <1>2, <1>3, <1>4
<1>18. Len(hsent'.headers) = hrun.no + 1
  BY <1>3, <1>14
<1> QED
  BY <1>2, <1>5, <1>9, <1>14, <1>15, <1>16, <1>17, <1>18, Reported

(* The value of a header: it belongs to the name in the last slot.         *)
LEMMA on_header_valueMInv ==
  ASSUME MInv, NEW n \in Nat, NEW then \in {"done", "cut", "fold"}, Hbi!Report(n, then),
         Hbi!on_header_value(Len(hmem) + 1, RunBytes(n))
  PROVE  MInv'
<1> DEFINE bytes == RunBytes(n)
<1>1. /\ bytes \in Seq(Byte) /\ FoldBytes(then) \in Seq(Byte) /\ hmem' = (hmem \o bytes) \o FoldBytes(then)
      /\ hmem' = hmem \o (bytes \o FoldBytes(then)) /\ bytes \o FoldBytes(then) \in Seq(Byte)
      /\ hmem' \in Seq(Byte)
  BY Reads
<1>2. hrun.what = "value"
  BY DEF Hbi!on_header_value
<1>3. hphase \in {"header value", "trailer value"} /\ Len(hsent.headers) = hrun.no /\ num_fields # 0
  BY <1>2 DEF MInv, RunPlaced
<1>n. num_fields # 0 /\ num_fields \in Nat /\ num_values \in Nat /\ num_values <= num_fields
      /\ num_fields <= Slots - 1 /\ Slots \in Nat
  BY <1>3, InSlots, Zenon
<1>s. num_fields \in 1..num_fields /\ \A i \in 1..num_fields : i \in 1..Slots
  BY <1>n
<1>f. (hrun.read = 0 => num_fields = num_values + 1) /\ (hrun.read # 0 => num_fields = num_values)
  <2>1. Half <=> hrun.read = 0
    BY <1>2, <1>3 DEF Half
  <2>2. num_fields = num_values + (IF Half THEN 1 ELSE 0)
    BY <1>3 DEF MInv, RunPlaced
  <2> HIDE DEF Half
  <2>3. hrun.read = 0 => num_fields = num_values + 1
    BY <2>1, <2>2
  <2>4. hrun.read # 0 => num_fields = num_values + 0
    BY <2>1, <2>2
  <2> QED
    BY <1>n, <2>3, <2>4
<1>k. PICK k \in 1..num_fields : k = num_fields
  BY <1>s
<1>4. /\ num_values' = num_fields
      /\ hvalues' = [hvalues EXCEPT ![num_fields] =
                       Hbi!Update(IF hrun.read = 0 THEN Hbi!Null ELSE hvalues[num_fields], Len(hmem) + 1, bytes)]
      /\ hsent' = [hsent EXCEPT !.headers[hrun.no][2] = @ \o bytes]
      /\ UNCHANGED <<hurl, hfields, num_fields, have_flushed, jsHeaders, jsUrl>>
  <2>1. (IF num_values # num_fields THEN num_values + 1 ELSE num_values) = num_fields
        /\ (num_values # num_fields <=> hrun.read = 0)
    BY <1>n, <1>f
  <2> QED
    BY <2>1 DEF Hbi!on_header_value
<1>5. /\ hsent \in [url : Seq(Byte), headers : Seq(Header)] /\ hsent.headers \in Seq(Header)
      /\ jsHeaders \in Seq(Header) /\ jsUrl \in Seq(Byte) /\ hmem \in Seq(Byte)
      /\ have_flushed \in BOOLEAN /\ hurl \in Ptr
      /\ hfields \in [1..Slots -> Ptr] /\ hvalues \in [1..Slots -> Ptr]
  BY DEF MInv, BindTypes
<1> HIDE DEF bytes
<1>6. PICK w : w = Hbi!Update(IF hrun.read = 0 THEN Hbi!Null ELSE hvalues[num_fields], Len(hmem) + 1, bytes)
  OBVIOUS
<1>7. PICK a \in Seq(Byte) : a = Text(hfields[num_fields], hmem)
  <2>1. hfields[num_fields] \in Ptr /\ Lies(hfields[num_fields], Len(hmem))
    BY <1>s, InSlots
  <2> QED
    BY <1>5, <2>1, TextIsSeq
<1>8. PICK c \in Seq(Byte) : /\ HeaderOf(k) = <<a, c>>
                             /\ w \in Ptr /\ Lies(w, Len(hmem')) /\ Text(w, hmem') = c \o bytes
  <2>1. CASE hrun.read = 0
    <3>1. w = Hbi!Update(Hbi!Null, Len(hmem) + 1, bytes)
      BY <1>6, <2>1
    <3>2. w \in Ptr /\ Lies(w, Len(hmem')) /\ Text(w, hmem') = bytes
      BY <1>1, <3>1, NullUpdated
    <3>3. ~(k <= num_values)
      BY <1>n, <1>f, <1>k, <2>1
    <3>4. HeaderOf(k) = <<a, <<>>>> /\ <<>> \in Seq(Byte) /\ <<>> \o bytes = bytes
      BY <1>1, <1>k, <1>7, <3>3, EmptySeq, ConcatEmptySeq DEF HeaderOf
    <3> QED
      BY <3>2, <3>4
  <2>2. CASE hrun.read # 0
    <3>1. num_fields \in 1..num_values /\ num_fields <= num_values
      BY <1>n, <1>f, <2>2
    <3>2. hvalues[num_fields] \in Ptr /\ Lies(hvalues[num_fields], Len(hmem))
      BY <3>1, InSlots
    <3>3. w = Hbi!Update(hvalues[num_fields], Len(hmem) + 1, bytes)
      BY <1>6, <2>2
    <3>4. w \in Ptr /\ Lies(w, Len(hmem')) /\ Text(w, hmem') = Text(hvalues[num_fields], hmem) \o bytes
      BY <1>1, <3>2, <3>3, UpdatedIn
    <3>5. Text(hvalues[num_fields], hmem) \in Seq(Byte)
      BY <1>5, <3>2, TextIsSeq
    <3>6. HeaderOf(k) = <<a, Text(hvalues[num_fields], hmem)>>
      BY <1>k, <1>7, <3>1 DEF HeaderOf
    <3> QED
      BY <3>4, <3>5, <3>6
  <2> QED
    BY <2>1, <2>2
<1>9. hvalues' \in [1..Slots -> Ptr] /\ hvalues'[num_fields] = w
      /\ \A i \in 1..Slots : i # num_fields => hvalues'[i] = hvalues[i]
  <2>1. hvalues' = [hvalues EXCEPT ![num_fields] = w]
    BY <1>4, <1>6
  <2>2. num_fields \in 1..Slots
    BY <1>s
  <2> QED
    BY <1>5, <1>8, <2>1, <2>2
<1>10. PtrsLie'
  <2>1. /\ Lies(hurl, Len(hmem')) /\ \A i \in 1..num_fields : Lies(hfields[i], Len(hmem'))
        /\ \A i \in 1..num_values : Lies(hvalues[i], Len(hmem'))
    BY <1>1, BufferGrows
  <2>2. ASSUME NEW i \in 1..num_fields PROVE Lies(hvalues'[i], Len(hmem'))
    <3>1. CASE i = num_fields
      BY <1>8, <1>9, <3>1
    <3>2. CASE i # num_fields
      <4>1. i \in 1..num_values /\ i \in 1..Slots
        BY <1>n, <1>s, <1>f, <3>2
      <4> QED
        BY <1>9, <2>1, <3>2, <4>1
    <3> QED
      BY <3>1, <3>2
  <2> QED
    BY <1>4, <2>1, <2>2 DEF PtrsLie
<1>11. ASSUME NEW i \in 1..num_fields, i # num_fields PROVE HeaderOf(i)' = HeaderOf(i)
  <2>1. i \in 1..Slots /\ i <= num_fields /\ i <= num_values
    BY <1>n, <1>s, <1>f, <1>11
  <2>2. hfields'[i] = hfields[i] /\ hvalues'[i] = hvalues[i] /\ (i <= num_values' <=> i <= num_values)
    BY <1>4, <1>9, <1>11, <2>1
  <2> QED
    BY <1>1, <2>2, SlotStands
<1>12. HeaderOf(k)' = <<a, c \o bytes>>
  <2>1. Text(hfields[num_fields], hmem') = a
    <3>a. hmem' = hmem \o (bytes \o FoldBytes(then)) /\ bytes \o FoldBytes(then) \in Seq(Byte)
      BY <1>1
    <3>1. \A i \in 1..num_fields : Text(hfields[i], hmem') = Text(hfields[i], hmem)
      BY <3>a, BufferGrows, Zenon
    <3> QED
      BY <1>s, <1>7, <3>1
  <2>2. k <= num_values' /\ hfields' = hfields
    BY <1>n, <1>4, <1>k
  <2> QED
    BY <1>8, <1>9, <1>k, <2>1, <2>2 DEF HeaderOf
<1>13. hphase # "idle" /\ hphase' # "idle"
       /\ (hphase' \in {"url", "headers", "header value"} <=> hphase \in {"url", "headers", "header value"})
       /\ (hphase' \in {"trailers", "trailer value"} <=> hphase \in {"trailers", "trailer value"})
       /\ hphase' # "body" /\ hphase' # "url" /\ hleft' = hleft
  <2>1. hrun.what # "url"
    BY <1>2
  <2> QED
    BY <2>1, RunGoesOn
<1>h. PICK f \in Nat : HeadersAfter(f)
  BY <1>13 DEF MInv, HeadersKept
<1>14. /\ Len(hsent.headers) = f + num_fields /\ Len(jsHeaders) \in Nat /\ Len(jsHeaders) <= f
       /\ Len(jsHeaders) < f => hlimit # 0 /\ hlimit <= Len(jsHeaders)
       /\ \A i \in 1..Len(jsHeaders) : hsent.headers[i] = jsHeaders[i]
       /\ \A i \in 1..num_fields : hsent.headers[f + i] = HeaderOf(i)
  BY <1>5, <1>h, LenProperties DEF HeadersAfter
<1>15. PICK l \in 1..Len(hsent.headers) : l = f + num_fields
  <2>1. PICK m \in Nat : m = num_fields
    BY <1>n
  <2>3. m # 0 /\ Len(hsent.headers) = f + m
    BY <1>n, <1>14, <2>1
  <2>4. f + m \in 1..(f + m)
    BY <2>3
  <2> QED
    BY <2>1, <2>3, <2>4
<1>16. l = hrun.no /\ hsent.headers[l] = <<a, c>>
  BY <1>3, <1>s, <1>k, <1>8, <1>14, <1>15
<1>17. /\ hsent' \in [url : Seq(Byte), headers : Seq(Header)] /\ hsent'.url = hsent.url
       /\ Len(hsent'.headers) = Len(hsent.headers) /\ hsent'.headers[l] = <<a, c \o bytes>>
       /\ \A i \in 1..Len(hsent.headers) : i # l => hsent'.headers[i] = hsent.headers[i]
  <2>1. [hsent.headers[l] EXCEPT ![2] = hsent.headers[l][2] \o bytes] = <<a, c \o bytes>>
    BY <1>16
  <2>2. PICK h : h = [hsent.headers EXCEPT ![l] = <<a, c \o bytes>>]
    OBVIOUS
  <2>3. hsent' = [hsent EXCEPT !.headers = h]
    BY <1>4, <1>16, <2>1, <2>2, Zenon
  <2>4. a \in Seq(Byte) /\ c \o bytes \in Seq(Byte)
    BY <1>1, <1>7, <1>8, ConcatProperties
  <2>5. /\ h \in Seq(Header) /\ Len(h) = Len(hsent.headers) /\ h[l] = <<a, c \o bytes>>
        /\ \A i \in 1..Len(hsent.headers) : i # l => h[i] = hsent.headers[i]
    <3>1. hsent.headers \in Seq(Header) /\ l \in 1..Len(hsent.headers)
      BY <1>5, <1>15
    <3>2. <<a, c \o bytes>> \in Header
      BY <2>4 DEF Header
    <3>3. PICK x \in Header : x = <<a, c \o bytes>>
      BY <3>2
    <3>4. PICK g \in Seq(Header) : g = hsent.headers
      BY <3>1
    <3>5. l \in 1..Len(g) /\ h = [g EXCEPT ![l] = x]
      BY <2>2, <3>1, <3>3, <3>4
    <3>6. /\ h \in Seq(Header) /\ Len(h) = Len(g) /\ h[l] = x
          /\ \A i \in 1..Len(g) : i # l => h[i] = g[i]
      <4>1. g \in [1..Len(g) -> Header]
        BY <3>4, LenProperties, SeqDef
      <4>2. /\ h \in [1..Len(g) -> Header] /\ h[l] = x
            /\ \A i \in 1..Len(g) : i # l => h[i] = g[i]
        <5>1. x \in Header
          BY <3>3
        <5> QED
          BY <3>5, <4>1, <5>1
      <4> QED
        BY <3>4, <4>2, HeaderPut
    <3> QED
      BY <3>3, <3>4, <3>6
  <2> QED
    BY <1>5, <2>3, <2>5
<1>18. HeadersKept'
  <2>1. ASSUME NEW i \in 1..Len(jsHeaders) PROVE hsent'.headers[i] = jsHeaders[i]
    <3>1. i \in 1..Len(hsent.headers) /\ i # l
      BY <1>n, <1>14, <1>15
    <3> QED
      BY <1>14, <1>17, <3>1
  <2>2. ASSUME NEW i \in 1..num_fields PROVE hsent'.headers[f + i] = HeaderOf(i)'
    <3>1. CASE i = num_fields
      BY <1>k, <1>12, <1>15, <1>17, <3>1
    <3>2. CASE i # num_fields
      <4>1. f + i \in 1..Len(hsent.headers) /\ f + i # l
        BY <1>n, <1>14, <1>15, <3>2
      <4> QED
        BY <1>11, <1>14, <1>17, <3>2, <4>1
    <3> QED
      BY <3>1, <3>2
  <2> QED
    <3>1. hlimit' = hlimit
      BY RunGoesOn
    <3>2. HeadersAfter(f)'
      BY <1>4, <1>14, <1>17, <2>1, <2>2, <3>1 DEF HeadersAfter
    <3> QED
      BY <3>2 DEF HeadersKept
<1>19. UrlKept'
  <2>1. Text(hurl', hmem') = Text(hurl, hmem)
    BY <1>1, <1>4, BufferGrows
  <2> QED
    BY <1>3, <1>4, <1>13, <1>17, <2>1 DEF MInv, UrlKept, UrlApart
<1>20. num_fields' \in 0..(Slots - 1) /\ num_values' \in 0..num_fields'
       /\ num_fields' = num_values' + 0 /\ num_fields' # 0
  BY <1>n, <1>4
<1>21. Len(hsent'.headers) = hrun.no
  BY <1>3, <1>17
<1> QED
  BY <1>2, <1>4, <1>5, <1>9, <1>10, <1>17, <1>18, <1>19, <1>20, <1>21, Reported

LEMMA NextMInv == ASSUME MInv, [Hbi!Next]_bindingVars PROVE MInv'
<1>1. CASE UNCHANGED bindingVars
  <2>1. hmem' = hmem \o <<>> /\ <<>> \in Seq(Byte)
    BY <1>1, NothingMore DEF bindingVars
  <2>2. BindTypes'
    BY <1>1 DEF bindingVars, MInv, BindTypes
  <2>3. RunPlaced'
    BY <1>1 DEF bindingVars, MInv, RunPlaced, Half
  <2> QED
    BY <1>1, <2>1, <2>2, <2>3, ReadsOnMInv DEF bindingVars
<1>2. CASE Hbi!Execute \/ Hbi!EndExecute \/ \E request \in BOOLEAN : Hbi!on_message_begin(request)
  BY <1>2, ExecuteMInv, EndExecuteMInv, on_message_beginMInv
<1>3. CASE \E what \in {"field", "value"}, n \in ValueLengths \cup {1} : Hbi!BeginRun(what, n)
  BY <1>3, BeginRunMInv
<1>4. ASSUME NEW n \in 0..2, NEW then \in {"done", "cut", "fold"}, Hbi!Report(n, then) PROVE MInv'
  <2>1. n \in Nat
    OBVIOUS
  <2>2. \/ Hbi!on_url(Len(hmem) + 1, RunBytes(n))
        \/ Hbi!on_header_field(Len(hmem) + 1, RunBytes(n))
        \/ Hbi!on_header_value(Len(hmem) + 1, RunBytes(n))
    BY <1>4 DEF Hbi!Report, RunBytes
  <2>3. CASE Hbi!on_url(Len(hmem) + 1, RunBytes(n))
    BY <1>4, <2>1, <2>3, on_urlMInv
  <2>4. CASE Hbi!on_header_field(Len(hmem) + 1, RunBytes(n))
    BY <1>4, <2>1, <2>4, NewHeaderMInv, FlushMInv, FieldGoesOnMInv
  <2>5. CASE Hbi!on_header_value(Len(hmem) + 1, RunBytes(n))
    BY <1>4, <2>1, <2>5, on_header_valueMInv
  <2> QED
    BY <2>2, <2>3, <2>4, <2>5
<1>5. CASE Hbi!on_headers_complete \/ Hbi!on_body \/ Hbi!BeginTrailers \/ Hbi!on_message_complete
           \/ Hbi!Reinitialize
  BY <1>5, on_headers_completeMInv, BodyMInv, on_message_completeMInv, ReinitializeMInv
<1> QED
  BY <1>1, <1>2, <1>3, <1>4, <1>5 DEF Hbi!Next

LEMMA MessagesKept == MInv => Hbi!MessagesAsSent
BY DEF MInv

-----------------------------------------------------------------------------
(* HttpUrl.                                                                *)

UrlStates ==
  {"none", "spaces_before_url", "schema", "schema_slash", "schema_slash_slash", "host_start",
   "host_v6_start", "host_v6", "host_v6_end", "host", "port_start", "port", "path",
   "query_start", "query", "fragment_start", "fragment"}

(* The fields that can still begin when the parser is in state s.          *)
Ahead(s) ==
  CASE s \in {"none", "spaces_before_url"} -> Url!UrlFields
    [] s = "schema" -> Url!UrlFields \ {"schema"}
    [] s \in {"schema_slash", "schema_slash_slash", "host_start", "host_v6_start"} ->
         {"host", "port", "path", "query", "fragment"}
    [] s \in {"host", "host_v6", "host_v6_end", "port_start"} ->
         {"port", "path", "query", "fragment"}
    [] s = "port" -> {"path", "query", "fragment"}
    [] s \in {"path", "query_start"} -> {"query", "fragment"}
    [] s \in {"query", "fragment_start"} -> {"fragment"}
    [] OTHER -> {}

UrlTypes ==
  /\ ufield \in Url!UrlFields \cup {"none"}
  /\ fields \in [Url!UrlFields -> [off : Nat, len : Nat]]
  /\ uport \in Nat /\ ulabels \in Seq(Url!UrlFields \cup {"delimiter"})
  /\ uresult \in {"parsing", "ok", "invalid"}

Run(f) == {i \in 1..Len(ulabels) : ulabels[i] = f}
Span(x) == (x.off + 1)..(x.off + x.len)

(* A field that can still begin is empty; the one the parser is in is the  *)
(* last run and goes up to here; and the others are behind.                *)
RunsKept ==
  uresult # "invalid" =>
    /\ ustate \in UrlStates
    /\ ufield \notin Ahead(ustate)
    /\ \A f \in Ahead(ustate) : fields[f] = Url!None
    /\ Url!FieldOf(ustate) \in Url!UrlFields =>
         /\ ufield = Url!FieldOf(ustate)
         /\ fields[ufield].off + fields[ufield].len = Len(ulabels)
    /\ \A f \in Url!UrlFields : Run(f) = Span(fields[f])
    /\ fields["port"] = Url!None => uport = 0

UInv == UrlTypes /\ RunsKept /\ (uresult = "ok" => uport <= MaxPort)

LEMMA InitUInv == Url!Init => UInv
<1> SUFFICES ASSUME Url!Init PROVE UInv
  OBVIOUS
<1>1. /\ ustate = "none" /\ ufield = "none" /\ fields = [f \in Url!UrlFields |-> Url!None]
      /\ uport = 0 /\ ulabels = <<>> /\ uresult = "parsing"
  BY DEF Url!Init
<1>2. UrlTypes
  BY <1>1, EmptySeq DEF UrlTypes, Url!None
<1>3. Url!FieldOf("none") = "delimiter" /\ "none" \notin Url!UrlFields /\ "delimiter" \notin Url!UrlFields
  BY DEF Url!FieldOf, Url!UrlFields
<1>4. Ahead("none") = Url!UrlFields
  BY DEF Ahead
<1>5. \A f \in Url!UrlFields : Run(f) = Span(fields[f])
  BY <1>1 DEF Run, Span, Url!None
<1> QED
  BY <1>1, <1>2, <1>3, <1>4, <1>5 DEF UInv, RunsKept, UrlStates, Url!UrlFields

(* Where a character leads: into no field, on in the same one, or into one *)
(* that had not begun.                                                     *)
LEMMA WhereTo ==
  ASSUME NEW s \in UrlStates \ {"none"}, NEW ch \in Url!Chars,
         Url!parse_url_char(s, ch) # "dead"
  PROVE  LET t == Url!parse_url_char(s, ch)
             f == Url!FieldOf(t)
         IN  /\ t \in UrlStates /\ f \in Url!UrlFields \cup {"delimiter"}
             /\ f = "delimiter" \/ f = Url!FieldOf(s) \/ f \in Ahead(s)
             /\ Ahead(t) \subseteq Ahead(s) \ {f}
<1> DEFINE t == Url!parse_url_char(s, ch)
<1>1. \/ s = "spaces_before_url" /\ t \in {"path", "schema"}
      \/ s = "schema" /\ t \in {"schema", "schema_slash"}
      \/ s = "schema_slash" /\ t = "schema_slash_slash"
      \/ s = "schema_slash_slash" /\ t = "host_start"
      \/ s = "host_start" /\ t \in {"host_v6_start", "host"}
      \/ s = "host" /\ t \in {"host", "port_start", "path", "query_start"}
      \/ s = "host_v6_end" /\ t \in {"port_start", "path", "query_start"}
      \/ s = "port" /\ t \in {"port", "path", "query_start"}
      \/ s = "port_start" /\ t = "port"
      \/ s = "host_v6" /\ t \in {"host_v6", "host_v6_end"}
      \/ s = "host_v6_start" /\ t = "host_v6"
      \/ s = "path" /\ t \in {"path", "query_start", "fragment_start"}
      \/ s \in {"query_start", "query"} /\ t \in {"query", "fragment_start"}
      \/ s = "fragment_start" /\ t \in {"fragment_start", "fragment"}
      \/ s = "fragment" /\ t = "fragment"
  <2>1. CASE s \in {"spaces_before_url", "schema", "schema_slash", "schema_slash_slash"}
    BY <2>1 DEF Url!parse_url_char
  <2>2. CASE s \in {"path", "query_start", "query", "fragment_start", "fragment"}
    <3>1. t = Url!PathChar(s, ch)
      BY <2>2 DEF Url!parse_url_char
    <3> QED
      BY <2>2, <3>1 DEF Url!PathChar
  <2>3. CASE s \in {"host_start", "host", "host_v6_end", "port", "port_start", "host_v6", "host_v6_start"}
    <3>1. t = Url!HostChar(s, ch)
      BY <2>3 DEF Url!parse_url_char
    <3> QED
      BY <2>3, <3>1 DEF Url!HostChar
  <2> QED
    BY <2>1, <2>2, <2>3 DEF UrlStates
<1> HIDE DEF t
<1>2. /\ t \in UrlStates /\ Url!FieldOf(t) \in Url!UrlFields \cup {"delimiter"}
      /\ Url!FieldOf(t) = "delimiter" \/ Url!FieldOf(t) = Url!FieldOf(s) \/ Url!FieldOf(t) \in Ahead(s)
      /\ Ahead(t) \subseteq Ahead(s) \ {Url!FieldOf(t)}
  BY <1>1 DEF UrlStates, Url!FieldOf, Url!UrlFields, Ahead
<1> QED
  BY <1>2 DEF t

LEMMA CharUInv ==
  ASSUME UInv, NEW ch \in Url!Chars, Url!Char(ch)
  PROVE  UInv'
<1> DEFINE s == Url!parse_url_char(ustate, ch)
           f == Url!FieldOf(s)
           here == Len(ulabels)
<1>1. /\ ustate # "none" /\ uresult = "parsing" /\ ustate' = s /\ ulabels' = Append(ulabels, f)
      /\ uresult' = IF s = "dead" THEN "invalid" ELSE "parsing"
      /\ IF s = "dead" \/ f = "delimiter" THEN ufield' = ufield /\ fields' = fields /\ uport' = uport
         ELSE /\ ufield' = f
              /\ fields' = IF f = ufield THEN [fields EXCEPT ![f].len = @ + 1]
                           ELSE [fields EXCEPT ![f] = [off |-> here, len |-> 1]]
              /\ uport' = IF f = "port" THEN uport * 10 + (IF ch = "1" THEN 1 ELSE 0) ELSE uport
  BY DEF Url!Char
<1>2. /\ ufield \in Url!UrlFields \cup {"none"} /\ fields \in [Url!UrlFields -> [off : Nat, len : Nat]]
      /\ uport \in Nat /\ ulabels \in Seq(Url!UrlFields \cup {"delimiter"})
  BY DEF UInv, UrlTypes
<1>3. /\ ustate \in UrlStates /\ ufield \notin Ahead(ustate)
      /\ \A g \in Ahead(ustate) : fields[g] = Url!None
      /\ Url!FieldOf(ustate) \in Url!UrlFields =>
           /\ ufield = Url!FieldOf(ustate)
           /\ fields[ufield].off + fields[ufield].len = Len(ulabels)
      /\ \A g \in Url!UrlFields : Run(g) = Span(fields[g])
      /\ fields["port"] = Url!None => uport = 0
  BY <1>1 DEF UInv, RunsKept
<1>4. s = "dead" => f = "delimiter"
  BY DEF Url!FieldOf, Url!UrlFields
<1>5. s # "dead" => /\ s \in UrlStates /\ f \in Url!UrlFields \cup {"delimiter"}
                    /\ f = "delimiter" \/ f = Url!FieldOf(ustate) \/ f \in Ahead(ustate)
                    /\ Ahead(s) \subseteq Ahead(ustate) \ {f}
  BY <1>1, <1>3, WhereTo
<1>6. "delimiter" \notin Url!UrlFields /\ "none" \notin Url!UrlFields /\ "port" \in Url!UrlFields
  BY DEF Url!UrlFields
<1> HIDE DEF s, f
<1>7. ulabels' \in Seq(Url!UrlFields \cup {"delimiter"}) /\ Len(ulabels') = here + 1 /\ here \in Nat
  BY <1>1, <1>2, <1>4, <1>5
<1>8. ASSUME NEW g PROVE Run(g)' = Run(g) \cup (IF f = g THEN {here + 1} ELSE {})
  <2>1. \A i \in 1..here : ulabels'[i] = ulabels[i]
    BY <1>1, <1>2
  <2>2. ulabels'[here + 1] = f
    BY <1>1, <1>2
  <2>3. 1..Len(ulabels') = (1..here) \cup {here + 1}
    BY <1>7
  <2> QED
    BY <2>1, <2>2, <2>3 DEF Run
<1>9. CASE s = "dead"
  BY <1>1, <1>2, <1>7, <1>9 DEF UInv, UrlTypes, RunsKept
<1>10. CASE s # "dead" /\ f = "delimiter"
  <2>1. UrlTypes'
    BY <1>1, <1>2, <1>7, <1>10 DEF UrlTypes
  <2>2. \A g \in Url!UrlFields : Run(g)' = Span(fields'[g])
    BY <1>1, <1>3, <1>6, <1>8, <1>10
  <2>3. RunsKept'
    BY <1>1, <1>3, <1>5, <1>6, <1>10, <2>2 DEF RunsKept, f
  <2> QED
    BY <1>1, <1>10, <2>1, <2>3 DEF UInv
<1>11. CASE s # "dead" /\ f \in Url!UrlFields
  <2>1. PICK x \in [off : Nat, len : Nat] :
          /\ fields' = [fields EXCEPT ![f] = x] /\ x.off + x.len = here + 1 /\ x.len > 0
          /\ Span(x) = Run(f) \cup {here + 1}
    <3>1. CASE f = ufield
      <4>1. Url!FieldOf(ustate) = f /\ fields[f].off + fields[f].len = here
        BY <1>3, <1>5, <1>6, <1>11, <3>1
      <4> DEFINE o == fields[f].off
                 l == fields[f].len
      <4>2. o \in Nat /\ l \in Nat
        BY <1>2, <1>11
      <4>3. fields' = [fields EXCEPT ![f] = [off |-> o, len |-> l + 1]]
        BY <1>1, <1>2, <1>6, <1>11, <3>1
      <4>4. Run(f) = (o + 1)..(o + l)
        BY <1>3, <1>11 DEF Span
      <4>7. o + l = here
        BY <4>1
      <4> HIDE DEF o, l, here
      <4>5. (o + 1)..(o + (l + 1)) = ((o + 1)..(o + l)) \cup {here + 1}
        BY <4>2, <4>7
      <4> DEFINE x == [off |-> o, len |-> l + 1]
      <4>6. x \in [off : Nat, len : Nat] /\ x.off = o /\ x.len = l + 1
        BY <4>2
      <4>8. Span(x) = Run(f) \cup {here + 1}
        BY <4>4, <4>5, <4>6 DEF Span
      <4> HIDE DEF x
      <4>9. fields' = [fields EXCEPT ![f] = x]
        BY <4>3 DEF x
      <4>10. x.off + x.len = here + 1 /\ x.len > 0
        BY <4>2, <4>6, <4>7
      <4> QED
        BY <4>6, <4>8, <4>9, <4>10, Zenon
    <3>2. CASE f # ufield
      <4>1. f \in Ahead(ustate)
        BY <1>3, <1>5, <1>6, <1>11, <3>2
      <4>2. Run(f) = {}
        BY <1>3, <1>11, <4>1 DEF Span, Url!None
      <4> DEFINE x == [off |-> here, len |-> 1]
      <4>3. x \in [off : Nat, len : Nat] /\ x.off = here /\ x.len = 1 /\ Span(x) = {here + 1}
        BY <1>7 DEF Span
      <4>4. fields' = [fields EXCEPT ![f] = x]
        BY <1>1, <1>6, <1>11, <3>2
      <4> HIDE DEF x
      <4>5. x.off + x.len = here + 1 /\ x.len > 0 /\ Span(x) = Run(f) \cup {here + 1}
        BY <1>7, <4>2, <4>3
      <4> QED
        BY <4>3, <4>4, <4>5, Zenon
    <3> QED
      BY <3>1, <3>2
  <2>2. fields'[f] = x /\ \A g \in Url!UrlFields \ {f} : fields'[g] = fields[g]
    BY <1>2, <1>11, <2>1
  <2>3. ufield' = f /\ (IF f = "port" THEN uport' \in Nat ELSE uport' = uport)
    BY <1>1, <1>2, <1>6, <1>11
  <2>4. UrlTypes'
    BY <1>1, <1>2, <1>7, <1>11, <2>1, <2>3 DEF UrlTypes
  <2>5. \A g \in Url!UrlFields : Run(g)' = Span(fields'[g])
    BY <1>3, <1>8, <1>11, <2>1, <2>2
  <2>6. \A g \in Ahead(s) : g \in Url!UrlFields \ {f}
    BY <1>5, <1>11 DEF Ahead, Url!UrlFields
  <2>7. fields'["port"] = Url!None => uport' = 0
    BY <1>3, <1>6, <1>11, <2>1, <2>2, <2>3 DEF Url!None
  <2>8. RunsKept'
    <3>1. f \notin Ahead(s) /\ \A g \in Ahead(s) : fields'[g] = Url!None
      BY <1>3, <1>5, <1>11, <2>2, <2>6
    <3>2. fields'[f].off + fields'[f].len = Len(ulabels')
      BY <1>7, <2>1, <2>2
    <3> QED
      BY <1>1, <1>5, <1>11, <2>3, <2>5, <2>7, <3>1, <3>2 DEF RunsKept, f
  <2> QED
    BY <1>1, <1>11, <2>4, <2>8 DEF UInv
<1> QED
  BY <1>5, <1>9, <1>10, <1>11

LEMMA NextUInv == ASSUME UInv, [Url!Next]_urlVars PROVE UInv'
<1>1. ASSUME NEW c \in BOOLEAN, Url!Begin(c) PROVE UInv'
  <2>1. /\ ustate = "none" /\ ustate' \in {"host_start", "spaces_before_url"}
        /\ ufield' = ufield /\ fields' = fields /\ uport' = uport /\ ulabels' = ulabels /\ uresult' = uresult
    BY <1>1 DEF Url!Begin
  <2>2. /\ Ahead(ustate') \subseteq Ahead(ustate) /\ ustate' \in UrlStates
        /\ Url!FieldOf(ustate') \notin Url!UrlFields
    BY <2>1 DEF Ahead, UrlStates, Url!FieldOf, Url!UrlFields
  <2>3. UrlTypes'
    BY <2>1 DEF UInv, UrlTypes
  <2>4. \A f \in Url!UrlFields : Run(f)' = Run(f)
    BY <2>1 DEF Run
  <2>5. RunsKept'
    BY <2>1, <2>2, <2>4 DEF UInv, RunsKept
  <2> QED
    BY <2>1, <2>3, <2>5 DEF UInv
<1>2. CASE Url!End
  <2>1. /\ uresult = "parsing" /\ uresult' \in {"ok", "invalid"} /\ ustate' = ustate
        /\ ufield' = ufield /\ fields' = fields /\ uport' = uport /\ ulabels' = ulabels
        /\ uresult' = "ok" => ("port" \in Url!FieldSet => ~(uport > MaxPort))
    BY <1>2 DEF Url!End
  <2>2. UrlTypes'
    BY <2>1 DEF UInv, UrlTypes
  <2>3. RunsKept'
    BY <2>1 DEF UInv, RunsKept, Run
  <2>4. uresult' = "ok" => uport' <= MaxPort
    BY <2>1, UrlAssumption DEF UInv, UrlTypes, RunsKept, Url!FieldSet, Url!UrlFields
  <2> QED
    BY <2>2, <2>3, <2>4 DEF UInv
<1>3. CASE UNCHANGED urlVars
  BY <1>3 DEF urlVars, UInv, UrlTypes, RunsKept, Run
<1> QED
  BY <1>1, <1>2, <1>3, CharUInv DEF Url!Next

LEMMA FieldsKeptRuns == UInv => Url!FieldsAreRuns
BY DEF UInv, RunsKept, Run, Span, Url!FieldsAreRuns

-----------------------------------------------------------------------------
(* CryptoContexts.                                                         *)

Culprits == {"SetKey", "SetCert", "AddCACert", "AddCRL", "LoadPKCS12", "SignFinal"}

ContextTypes ==
  /\ cstep \in [Ctxs -> Ctx!Steps]
  /\ castore \in [Ctxs -> {"none", "own", "root"}]
  /\ ctxstore \in [Ctxs -> {"empty", "own", "root"}]
  /\ certs \in [Ctx!Stores -> SUBSET Ctx!Item]
  /\ roots \in {"none", "made"}
  /\ cabad \in [Ctxs -> BOOLEAN]
  /\ errs \in Seq(Culprits)

Given(c, s) == \E x \in certs[s] : x.by = c

(* A context that has no store yet was given nothing.                      *)
Untouched(c) ==
  castore[c] = "none" /\ ctxstore[c] = "empty" /\ ~cabad[c] /\ certs[c] = {} /\ ~Given(c, "root")

(* A context has a store of its own or the shared one, and what it was     *)
(* given is there; its own is not used when its first authority was bad.   *)
HasStore(c) ==
  \/ /\ castore[c] = "root" /\ ctxstore[c] = "root" /\ ~cabad[c] /\ certs[c] = {}
  \/ /\ castore[c] = "own" /\ ctxstore[c] = IF cabad[c] THEN "empty" ELSE "own"
     /\ ~Given(c, "root")

StoresKept ==
  \A c \in Ctxs :
    /\ \A x \in certs[c] : x.by = c
    /\ castore[c] = "root" <=> ctxstore[c] = "root"
    /\ cstep[c] \in {"none", "init", "key", "cert"} => Untouched(c)
    /\ cstep[c] \in {"ca", "crl", "sid", "ready"} => HasStore(c)

RootsKept ==
  /\ roots = "none" => certs["root"] = {} /\ \A c \in Ctxs : castore[c] # "root"
  /\ \A x \in certs["root"] : x.what # "ca"

XInv == ContextTypes /\ StoresKept /\ RootsKept

LEMMA InitXInv == Ctx!Init => XInv
<1> SUFFICES ASSUME Ctx!Init PROVE XInv
  OBVIOUS
<1>1. ContextTypes
  BY EmptySeq DEF Ctx!Init, ContextTypes, Ctx!Steps, Ctx!Stores, Ctx!Item
<1>2. StoresKept /\ RootsKept
  BY DEF Ctx!Init, StoresKept, RootsKept, Untouched, Given, Ctx!Stores
<1> QED
  BY <1>1, <1>2 DEF XInv

(* The queue takes the errors of a call, and gives the oldest.             *)
LEMMA ErrorsLeft ==
  ASSUME NEW who \in Culprits, errs \in Seq(Culprits),
         Ctx!Leaves(who) \/ Ctx!Throws(who) \/ UNCHANGED errs
         \/ (errs # <<>> /\ errs' = Tail(errs)) \/ errs' = <<>>
  PROVE  errs' \in Seq(Culprits)
<1>1. ASSUME NEW n \in 1..2 PROVE /\ Ctx!Left(who, n) \in Seq(Culprits) /\ Ctx!Left(who, n) # <<>>
  <2> DEFINE new == [i \in 1..n |-> who]
  <2>1. new \in Seq(Culprits) /\ Len(new) = n
    BY SeqDef, LenProperties
  <2>2. errs \o new \in Seq(Culprits) /\ Len(errs \o new) = Len(errs) + n
    BY <2>1, ConcatProperties
  <2> QED
    BY <2>2, LenProperties, EmptySeq DEF Ctx!Left
<1>2. ASSUME NEW s \in Seq(Culprits), s # <<>> PROVE Tail(s) \in Seq(Culprits)
  BY <1>2, HeadTailProperties
<1> QED
  BY <1>1, <1>2, EmptySeq DEF Ctx!Leaves, Ctx!Throws

(* The stores stay as they are, and one context goes on.                   *)
LEMMA GoesOnXInv ==
  ASSUME XInv, NEW c \in Ctxs, NEW s \in Ctx!Steps, Ctx!To(c, s), Ctx!Stays(c),
         errs' \in Seq(Culprits),
         \/ s = "gone"
         \/ cstep[c] \in {"none", "init", "key", "cert"} /\ s \in {"init", "key", "cert"}
         \/ cstep[c] \in {"ca", "crl", "sid"} /\ s \in {"crl", "sid", "ready"}
  PROVE  XInv'
<1>1. ContextTypes'
  BY DEF XInv, ContextTypes, Ctx!To, Ctx!Stays
<1>2. \A d \in Ctxs : cstep'[d] = IF d = c THEN s ELSE cstep[d]
  BY DEF XInv, ContextTypes, Ctx!To
<1>3. UNCHANGED <<castore, ctxstore, certs, roots, cabad>>
  BY DEF Ctx!Stays
<1>4. StoresKept'
  <2> SUFFICES ASSUME NEW d \in Ctxs
               PROVE  /\ \A x \in certs[d] : x.by = d
                      /\ castore[d] = "root" <=> ctxstore[d] = "root"
                      /\ cstep'[d] \in {"none", "init", "key", "cert"} => Untouched(d)
                      /\ cstep'[d] \in {"ca", "crl", "sid", "ready"} => HasStore(d)
    BY <1>3 DEF StoresKept, Untouched, HasStore, Given
  <2> QED
    BY <1>2 DEF XInv, StoresKept
<1>5. RootsKept'
  BY <1>3 DEF XInv, RootsKept
<1> QED
  BY <1>1, <1>4, <1>5 DEF XInv
LEMMA AddCACertXInv == ASSUME XInv, NEW c \in Ctxs, Ctx!AddCACert(c) PROVE XInv'
<1> DEFINE ca == [what |-> "ca", by |-> c]
<1>1. /\ cstep[c] \in {"init", "key", "cert", "ca"} /\ castore[c] # "root"
      /\ Untouched(c) \/ HasStore(c)
  <2>1. cstep[c] \in {"init", "key", "cert", "ca"} /\ castore[c] # "root"
    BY DEF Ctx!AddCACert, Ctx!At, Ctx!Rank, Ctx!Steps, XInv, ContextTypes
  <2> QED
    BY <2>1 DEF XInv, StoresKept
<1>2. /\ \A d \in Ctxs : cstep'[d] = IF d = c THEN "ca" ELSE cstep[d]
      /\ \A d \in Ctxs : castore'[d] = IF d = c THEN "own" ELSE castore[d]
      /\ roots' = roots
  BY DEF XInv, ContextTypes, Ctx!AddCACert, Ctx!To
<1>3. \/ /\ certs' = [certs EXCEPT ![c] = @ \cup {ca}]
         /\ ctxstore' = IF castore[c] = "none" THEN [ctxstore EXCEPT ![c] = "own"] ELSE ctxstore
         /\ UNCHANGED <<cabad, errs>>
      \/ /\ cabad' = [cabad EXCEPT ![c] = @ \/ castore[c] = "none"]
         /\ UNCHANGED <<certs, ctxstore>> /\ Ctx!Leaves("AddCACert")
  BY DEF Ctx!AddCACert, Ctx!NoErrors
<1>4. ca \in Ctx!Item /\ ca.by = c /\ c \in Ctx!Stores /\ "root" \in Ctx!Stores /\ c # "root"
  BY ContextsAssumption DEF Ctx!Item, Ctx!Stores
<1>5. ContextTypes'
  <2>1. errs' \in Seq(Culprits)
    BY <1>3, ErrorsLeft DEF XInv, ContextTypes, Culprits
  <2>2. cstep' \in [Ctxs -> Ctx!Steps] /\ castore' \in [Ctxs -> {"none", "own", "root"}]
    BY DEF Ctx!AddCACert, Ctx!To, XInv, ContextTypes, Ctx!Steps
  <2>3. /\ certs' \in [Ctx!Stores -> SUBSET Ctx!Item]
        /\ ctxstore' \in [Ctxs -> {"empty", "own", "root"}] /\ cabad' \in [Ctxs -> BOOLEAN]
    BY <1>3, <1>4 DEF XInv, ContextTypes
  <2> QED
    BY <1>2, <2>1, <2>2, <2>3 DEF XInv, ContextTypes
<1>6. /\ \A s \in Ctx!Stores \ {c} : certs'[s] = certs[s]
      /\ \A d \in Ctxs \ {c} : ctxstore'[d] = ctxstore[d] /\ (cabad'[d] <=> cabad[d])
      /\ \A x \in certs'[c] : x.by = c
      /\ ctxstore'[c] = IF cabad'[c] THEN "empty" ELSE "own"
  <2>1. CASE /\ certs' = [certs EXCEPT ![c] = @ \cup {ca}]
             /\ ctxstore' = IF castore[c] = "none" THEN [ctxstore EXCEPT ![c] = "own"] ELSE ctxstore
             /\ UNCHANGED <<cabad, errs>>
    BY <1>1, <1>4, <2>1 DEF XInv, ContextTypes, StoresKept, Untouched, HasStore
  <2>2. CASE /\ cabad' = [cabad EXCEPT ![c] = @ \/ castore[c] = "none"]
             /\ UNCHANGED <<certs, ctxstore>> /\ Ctx!Leaves("AddCACert")
    BY <1>1, <2>2 DEF XInv, ContextTypes, StoresKept, Untouched, HasStore
  <2> QED
    BY <1>3, <2>1, <2>2
<1>7. StoresKept'
  <2> SUFFICES ASSUME NEW d \in Ctxs
               PROVE  /\ \A x \in certs'[d] : x.by = d
                      /\ castore'[d] = "root" <=> ctxstore'[d] = "root"
                      /\ cstep'[d] \in {"none", "init", "key", "cert"} => Untouched(d)'
                      /\ cstep'[d] \in {"ca", "crl", "sid", "ready"} => HasStore(d)'
    BY DEF StoresKept
  <2>1. CASE d = c
    BY <1>1, <1>2, <1>4, <1>6, <2>1 DEF Untouched, HasStore, Given
  <2>2. CASE d # c
    <3>1. certs'[d] = certs[d] /\ certs'["root"] = certs["root"]
      BY <1>4, <1>6, <2>2 DEF Ctx!Stores
    <3> QED
      BY <1>2, <1>6, <2>2, <3>1 DEF XInv, StoresKept, Untouched, HasStore, Given
  <2> QED
    BY <2>1, <2>2
<1>8. RootsKept'
  BY <1>2, <1>4, <1>6 DEF XInv, RootsKept
<1> QED
  BY <1>5, <1>7, <1>8 DEF XInv

LEMMA AddRootCertsXInv == ASSUME XInv, NEW c \in Ctxs, Ctx!AddRootCerts(c) PROVE XInv'
<1> DEFINE root == [what |-> "root", by |-> "root"]
<1>1. Untouched(c)
  <2>1. cstep[c] \in {"init", "key", "cert"}
    BY DEF Ctx!AddRootCerts, Ctx!At, Ctx!Rank, Ctx!Steps, XInv, ContextTypes
  <2> QED
    BY <2>1 DEF XInv, StoresKept
<1>2. /\ \A d \in Ctxs : cstep'[d] = IF d = c THEN "ca" ELSE cstep[d]
      /\ \A d \in Ctxs : castore'[d] = IF d = c THEN "root" ELSE castore[d]
      /\ \A d \in Ctxs : ctxstore'[d] = IF d = c THEN "root" ELSE ctxstore[d]
      /\ roots' = "made" /\ UNCHANGED <<cabad, errs>>
      /\ \/ roots = "made" /\ certs' = certs
         \/ roots = "none" /\ certs' = [certs EXCEPT !["root"] = {root}]
  BY DEF XInv, ContextTypes, Ctx!AddRootCerts, Ctx!To, Ctx!NoErrors
<1>3. root \in Ctx!Item /\ root.by = "root" /\ root.what # "ca" /\ "root" \in Ctx!Stores
  BY DEF Ctx!Item, Ctx!Stores
<1>4. ContextTypes'
  BY <1>2, <1>3 DEF XInv, ContextTypes, Ctx!AddRootCerts, Ctx!To, Ctx!Steps
<1>5. /\ \A d \in Ctxs : certs'[d] = certs[d]
      /\ certs'["root"] = certs["root"] \/ (certs["root"] = {} /\ certs'["root"] = {root})
  BY <1>2, <1>3, ContextsAssumption DEF XInv, ContextTypes, RootsKept, Ctx!Stores
<1>6. StoresKept'
  <2> SUFFICES ASSUME NEW d \in Ctxs
               PROVE  /\ \A x \in certs'[d] : x.by = d
                      /\ castore'[d] = "root" <=> ctxstore'[d] = "root"
                      /\ cstep'[d] \in {"none", "init", "key", "cert"} => Untouched(d)'
                      /\ cstep'[d] \in {"ca", "crl", "sid", "ready"} => HasStore(d)'
    BY DEF StoresKept
  <2>1. Given(d, "root")' => Given(d, "root")
    BY <1>3, <1>5, ContextsAssumption DEF Given
  <2>2. CASE d = c
    BY <1>1, <1>2, <1>5, <2>2 DEF Untouched, HasStore
  <2>3. CASE d # c
    BY <1>2, <1>5, <2>1, <2>3 DEF XInv, StoresKept, Untouched, HasStore
  <2> QED
    BY <2>2, <2>3
<1>7. RootsKept'
  BY <1>2, <1>3, <1>5 DEF XInv, RootsKept
<1> QED
  BY <1>4, <1>6, <1>7 DEF XInv

(* A revocation list, or a certificate of the chain, for the store of a    *)
(* context.                                                                *)
LEMMA StoredXInv ==
  ASSUME XInv, NEW c \in Ctxs, NEW s \in {"crl", "ready"}, NEW what \in {"crl", "extra"},
         cstep[c] \in {"ca", "crl", "sid"}, Ctx!To(c, s),
         certs' = [certs EXCEPT ![Ctx!StoreOf(c, castore[c])] = @ \cup {[what |-> what, by |-> c]}],
         UNCHANGED <<castore, ctxstore, roots, cabad, errs>>
  PROVE  XInv'
<1> DEFINE x == [what |-> what, by |-> c]
           at == Ctx!StoreOf(c, castore[c])
<1>1. HasStore(c)
  BY DEF XInv, StoresKept
<1>2. /\ \A d \in Ctxs : cstep'[d] = IF d = c THEN s ELSE cstep[d]
  BY DEF XInv, ContextTypes, Ctx!To
<1>3. /\ x \in Ctx!Item /\ x.by = c /\ x.what # "ca" /\ at \in Ctx!Stores
      /\ at = IF castore[c] = "root" THEN "root" ELSE c
  BY DEF Ctx!Item, Ctx!Stores, Ctx!StoreOf
<1>4. ContextTypes'
  BY <1>3 DEF XInv, ContextTypes, Ctx!To, Ctx!Steps
<1>5. /\ certs'[at] = certs[at] \cup {x} /\ \A d \in Ctx!Stores \ {at} : certs'[d] = certs[d]
  BY <1>3 DEF XInv, ContextTypes
<1>6. StoresKept'
  <2> SUFFICES ASSUME NEW d \in Ctxs
               PROVE  /\ \A y \in certs'[d] : y.by = d
                      /\ castore[d] = "root" <=> ctxstore[d] = "root"
                      /\ cstep'[d] \in {"none", "init", "key", "cert"} => Untouched(d)'
                      /\ cstep'[d] \in {"ca", "crl", "sid", "ready"} => HasStore(d)'
    BY DEF StoresKept
  <2> HIDE DEF x, at
  <2>1. d \in Ctx!Stores /\ "root" \in Ctx!Stores /\ d # "root" /\ c # "root"
    BY ContextsAssumption DEF Ctx!Stores
  <2>2. CASE d = c
    <3>1. \A y \in certs'[d] : y.by = d
      BY <1>3, <1>5, <2>1, <2>2 DEF XInv, StoresKept
    <3>2. castore[c] # "root" => certs'["root"] = certs["root"]
      BY <1>3, <1>5, <2>1
    <3>3. castore[c] = "root" => certs'[c] = certs[c]
      BY <1>3, <1>5, <2>1, <2>2
    <3>4. HasStore(d)'
      BY <1>1, <2>2, <3>2, <3>3 DEF HasStore, Given
    <3> QED
      BY <1>2, <2>2, <3>1, <3>4 DEF XInv, StoresKept
  <2>3. CASE d # c
    <3>1. certs'[d] = certs[d]
      BY <1>3, <1>5, <2>1, <2>3
    <3>2. Given(d, "root")' => Given(d, "root")
      BY <1>3, <1>5, <2>1, <2>3 DEF Given
    <3> QED
      BY <1>2, <2>3, <3>1, <3>2 DEF XInv, StoresKept, Untouched, HasStore
  <2> QED
    BY <2>2, <2>3
<1>7. RootsKept'
  <2> HIDE DEF x, at
  <2>1. CASE castore[c] = "root"
    BY <1>3, <1>5, <2>1 DEF XInv, RootsKept
  <2>2. CASE castore[c] # "root"
    BY <1>3, <1>5, <2>2, ContextsAssumption DEF XInv, RootsKept, Ctx!Stores
  <2> QED
    BY <2>1, <2>2
<1> QED
  BY <1>4, <1>6, <1>7 DEF XInv

LEMMA FreeCTXMemXInv == ASSUME XInv, NEW c \in Ctxs, Ctx!FreeCTXMem(c) PROVE XInv'
<1>1. /\ \A d \in Ctxs : cstep'[d] = IF d = c THEN "gone" ELSE cstep[d]
      /\ \A d \in Ctxs : castore'[d] = IF d = c THEN "none" ELSE castore[d]
      /\ \A d \in Ctxs : ctxstore'[d] = IF d = c THEN "empty" ELSE ctxstore[d]
      /\ UNCHANGED <<roots, cabad, errs>>
      /\ \A d \in Ctxs \ {c} : certs'[d] = certs[d]
      /\ certs'["root"] = certs["root"] /\ certs'[c] \subseteq certs[c]
  BY ContextsAssumption DEF XInv, ContextTypes, Ctx!FreeCTXMem, Ctx!To, Ctx!NoErrors, Ctx!Stores
<1>2. ContextTypes'
  BY DEF XInv, ContextTypes, Ctx!FreeCTXMem, Ctx!To, Ctx!NoErrors, Ctx!Steps, Ctx!Stores
<1>3. StoresKept'
  <2> SUFFICES ASSUME NEW d \in Ctxs
               PROVE  /\ \A x \in certs'[d] : x.by = d
                      /\ castore'[d] = "root" <=> ctxstore'[d] = "root"
                      /\ cstep'[d] \in {"none", "init", "key", "cert"} => Untouched(d)'
                      /\ cstep'[d] \in {"ca", "crl", "sid", "ready"} => HasStore(d)'
    BY DEF StoresKept
  <2>1. CASE d = c
    BY <1>1, <2>1 DEF XInv, StoresKept
  <2>2. CASE d # c
    BY <1>1, <2>2 DEF XInv, StoresKept, Untouched, HasStore, Given
  <2> QED
    BY <2>1, <2>2
<1>4. RootsKept'
  BY <1>1 DEF XInv, RootsKept
<1> QED
  BY <1>2, <1>3, <1>4 DEF XInv

LEMMA NextXInv == XInv /\ [Ctx!Next]_contextsVars => XInv'
<1> SUFFICES ASSUME XInv, [Ctx!Next]_contextsVars PROVE XInv'
  OBVIOUS
<1>1. errs \in Seq(Culprits)
  BY DEF XInv, ContextTypes
<1>2. ASSUME NEW c \in Ctxs,
             Ctx!ContextInit(c) \/ Ctx!SetKey(c) \/ Ctx!SetCert(c) \/ Ctx!SetSessionIdContext(c)
             \/ Ctx!Credentials(c)
      PROVE  XInv'
  <2>1. cstep[c] \in Ctx!Steps
    BY DEF XInv, ContextTypes
  <2>2. CASE Ctx!ContextInit(c)
    BY <1>1, <2>2, GoesOnXInv DEF Ctx!ContextInit, Ctx!NoErrors, Ctx!Steps
  <2>3. CASE Ctx!SetKey(c)
    <3>1. errs' \in Seq(Culprits)
      BY <1>1, <2>3, ErrorsLeft DEF Ctx!SetKey, Ctx!NoErrors, Culprits
    <3>2. cstep[c] \in {"init"} /\ Ctx!Stays(c)
      BY <2>1, <2>3 DEF Ctx!SetKey, Ctx!At, Ctx!Rank, Ctx!Steps
    <3>3. Ctx!To(c, "key") \/ Ctx!To(c, "gone")
      BY <2>3 DEF Ctx!SetKey
    <3> QED
      BY <3>1, <3>2, <3>3, GoesOnXInv DEF Ctx!Steps
  <2>4. CASE Ctx!SetCert(c)
    <3>1. errs' \in Seq(Culprits)
      BY <1>1, <2>4, ErrorsLeft DEF Ctx!SetCert, Ctx!NoErrors, Culprits
    <3>2. cstep[c] \in {"init", "key"} /\ Ctx!Stays(c)
      BY <2>1, <2>4 DEF Ctx!SetCert, Ctx!At, Ctx!Rank, Ctx!Steps
    <3>3. Ctx!To(c, "cert") \/ Ctx!To(c, "gone")
      BY <2>4 DEF Ctx!SetCert
    <3> QED
      BY <3>1, <3>2, <3>3, GoesOnXInv DEF Ctx!Steps
  <2>5. CASE Ctx!SetSessionIdContext(c)
    <3>1. errs' \in Seq(Culprits)
      BY <1>1, <2>5, EmptySeq DEF Ctx!SetSessionIdContext, Ctx!NoErrors
    <3>2. Ctx!To(c, "sid") \/ Ctx!To(c, "gone")
      BY <2>5 DEF Ctx!SetSessionIdContext
    <3> QED
      BY <2>5, <3>1, <3>2, GoesOnXInv DEF Ctx!SetSessionIdContext, Ctx!Steps
  <2>6. CASE Ctx!Credentials(c)
    BY <1>1, <2>6, GoesOnXInv DEF Ctx!Credentials, Ctx!NoErrors, Ctx!Steps
  <2> QED
    BY <1>2, <2>2, <2>3, <2>4, <2>5, <2>6
<1>3. ASSUME NEW c \in Ctxs, Ctx!AddCRL(c) PROVE XInv'
  <2>1. CASE UNCHANGED certs /\ Ctx!Leaves("AddCRL")
    <3>1. errs' \in Seq(Culprits)
      BY <1>1, <2>1, ErrorsLeft DEF Culprits
    <3> QED
      BY <1>3, <2>1, <3>1, GoesOnXInv DEF Ctx!AddCRL, Ctx!Stays, Ctx!Steps
  <2>2. CASE ~ (UNCHANGED certs /\ Ctx!Leaves("AddCRL"))
    BY <1>3, <2>2, StoredXInv DEF Ctx!AddCRL, Ctx!NoErrors
  <2> QED
    BY <2>1, <2>2
<1>4. ASSUME NEW c \in Ctxs, Ctx!LoadPKCS12(c) PROVE XInv'
  <2>1. CASE UNCHANGED certs
    <3>1. errs' \in Seq(Culprits)
      BY <1>1, <1>4, ErrorsLeft DEF Ctx!LoadPKCS12, Ctx!NoErrors, Culprits
    <3>2. Ctx!To(c, "ready") \/ Ctx!To(c, "gone")
      BY <1>4 DEF Ctx!LoadPKCS12
    <3> QED
      BY <1>4, <2>1, <3>1, <3>2, GoesOnXInv DEF Ctx!LoadPKCS12, Ctx!Stays, Ctx!Steps
  <2>2. CASE certs' # certs
    BY <1>4, <2>2, StoredXInv DEF Ctx!LoadPKCS12, Ctx!NoErrors
  <2> QED
    BY <2>1, <2>2
<1>5. CASE Ctx!HandleSSLError \/ Ctx!SignFinal \/ Ctx!ClearErrorOnReturn \/ UNCHANGED contextsVars
  <2>1. errs' \in Seq(Culprits) /\ UNCHANGED <<cstep, castore, ctxstore, certs, roots, cabad>>
    BY <1>1, <1>5, ErrorsLeft DEF Ctx!HandleSSLError, Ctx!SignFinal, Ctx!ClearErrorOnReturn,
       contextsVars, Culprits
  <2> QED
    BY <2>1 DEF XInv, ContextTypes, StoresKept, RootsKept, Untouched, HasStore, Given
<1> QED
  BY <1>2, <1>3, <1>4, <1>5, AddCACertXInv, AddRootCertsXInv, FreeCTXMemXInv DEF Ctx!Next

LEMMA TrustKept == XInv => Ctx!ContextsKeepTheirTrust
<1> SUFFICES ASSUME XInv PROVE Ctx!ContextsKeepTheirTrust
  OBVIOUS
<1>1. Ctx!TrustAsGiven
  <2> SUFFICES ASSUME NEW c \in Ctxs, cstep[c] = "ready"
               PROVE  /\ IF cabad[c] THEN Ctx!Seen(c) = {} ELSE Ctx!Given(c) \subseteq Ctx!Seen(c)
                      /\ \A x \in Ctx!Seen(c) :
                           x.by \in Ctxs \ {c} => ctxstore[c] = "root" /\ x.what # "ca"
    BY DEF Ctx!TrustAsGiven
  <2>1. HasStore(c)
    BY DEF XInv, StoresKept
  <2>2. Ctx!Seen(c) = IF ctxstore[c] = "empty" THEN {}
                      ELSE IF ctxstore[c] = "root" THEN certs["root"] ELSE certs[c]
    BY DEF Ctx!Seen, Ctx!StoreOf
  <2>3. ASSUME NEW x \in Ctx!Given(c) PROVE x.by = c /\ (x \in certs[c] \/ x \in certs["root"])
    BY DEF Ctx!Given, Ctx!Stores, XInv, StoresKept
  <2>4. ~cabad[c] => Ctx!Given(c) \subseteq Ctx!Seen(c)
    BY <2>1, <2>2, <2>3 DEF HasStore, Given
  <2> QED
    BY <2>1, <2>2, <2>4 DEF HasStore, XInv, StoresKept, RootsKept
<1>2. Ctx!RootsStay
  BY DEF Ctx!RootsStay, XInv, ContextTypes, StoresKept, RootsKept
<1>3. Ctx!ErrorsHaveASource
  BY ElementOfSeq DEF Ctx!ErrorsHaveASource, XInv, ContextTypes, Culprits
<1> QED
  BY <1>1, <1>2, <1>3 DEF Ctx!ContextsKeepTheirTrust

-----------------------------------------------------------------------------
(* CryptoObjects.                                                          *)

ObjectTypes ==
  /\ oclass \in Obj!Streams \cup Obj!Digests \cup {"none"}
  /\ oinit \in BOOLEAN /\ oheld \in BOOLEAN /\ opad \in BOOLEAN /\ ofit \in BOOLEAN
  /\ octx \in {"raw", "live", "clean"}
  /\ obuf \in 0..(Block - 1) /\ ofed \in 0..MaxFed /\ oout \in Nat /\ oresult \in 0..MaxFed
  /\ odone \in {"no", "result", "failed"}

(* A stream that is fed has given out all but what it holds, whole blocks  *)
(* of it; it holds a block back only to look for padding, and nothing else *)
(* then.                                                                   *)
Fed ==
  /\ oinit => odone # "result"
  /\ oinit /\ oclass \in Obj!Streams =>
       /\ oout + obuf + Obj!Kept = ofed
       /\ \E k \in Nat : oout = k * Block
  /\ oheld => oinit /\ oclass = "decipher" /\ opad /\ obuf = 0

OInv == ObjectTypes /\ Obj!ContextGuarded /\ Obj!StreamsWhole /\ Obj!ResultsWhole /\ Fed

LEMMA Division ==
  ASSUME NEW n \in Nat
  PROVE  /\ n \div Block \in Nat /\ n % Block \in 0..(Block - 1)
         /\ (n \div Block) * Block + (n % Block) = n
         /\ (n \div Block) * Block \in Nat
<1> DEFINE d == n \div Block
           whole == d * Block
           m == n % Block
<1>1. n \in Int /\ Block \in Int /\ Block > 0
  BY ObjectsAssumption
<1>2. m = n - whole
  BY <1>1
<1>3. d \in Nat
  BY ObjectsAssumption
<1>4. m \in 0..(Block - 1)
  BY ObjectsAssumption
<1>5. whole \in Nat
  BY <1>1, <1>3
<1> HIDE DEF d, m, whole
<1>6. whole + m = n
  BY <1>2, <1>4, <1>5
<1> QED
  BY <1>3, <1>4, <1>5, <1>6, Zenon DEF d, m, whole

LEMMA DivisionIsOne ==
  ASSUME NEW q \in Nat, NEW r \in 0..(Block - 1), NEW n \in Nat, n = q * Block + r
  PROVE  n \div Block = q
<1> DEFINE d == n \div Block
           m == n % Block
<1>1. d \in Nat /\ m \in 0..(Block - 1) /\ n = d * Block + m
  BY Division, Zenon
<1> HIDE DEF d, m
<1>2. (q - d) * Block = m - r
  BY <1>1, ObjectsAssumption
<1>3. ASSUME q > d PROVE FALSE
  <2>1. q - d \in Nat /\ q - d >= 1
    BY <1>1, <1>3
  <2>2. (q - d) * Block >= Block
    BY <2>1, ObjectsAssumption
  <2> QED
    BY <1>1, <1>2, <2>2, ObjectsAssumption
<1>4. ASSUME q < d PROVE FALSE
  <2>1. d - q \in Nat /\ d - q >= 1 /\ (d - q) * Block = r - m
    BY <1>1, <1>2, <1>4, ObjectsAssumption
  <2>2. (d - q) * Block >= Block
    BY <2>1, ObjectsAssumption
  <2> QED
    BY <1>1, <2>1, <2>2, ObjectsAssumption
<1> QED
  BY <1>1, <1>3, <1>4 DEF d

LEMMA InitOInv == Obj!Init => OInv
<1> SUFFICES ASSUME Obj!Init PROVE OInv
  OBVIOUS
<1>1. ObjectTypes
  <2>1. Block \in Nat /\ Block >= 1 /\ MaxFed \in Nat
    BY ObjectsAssumption
  <2>2. 0 \in 0..(Block - 1) /\ 0 \in 0..MaxFed
    BY <2>1
  <2>3. oclass \in Obj!Streams \cup Obj!Digests \cup {"none"}
    BY DEF Obj!Init
  <2>4. oinit \in BOOLEAN /\ oheld \in BOOLEAN /\ opad \in BOOLEAN /\ ofit \in BOOLEAN
    BY DEF Obj!Init
  <2>5. octx \in {"raw", "live", "clean"} /\ odone \in {"no", "result", "failed"}
    BY DEF Obj!Init
  <2>6. obuf = 0 /\ ofed = 0 /\ oout = 0 /\ oresult = 0
    BY DEF Obj!Init
  <2> QED
    BY <2>2, <2>3, <2>4, <2>5, <2>6 DEF ObjectTypes
<1>2. Obj!ContextGuarded /\ Obj!StreamsWhole /\ Obj!ResultsWhole /\ Fed
  BY DEF Obj!Init, Obj!ContextGuarded, Obj!StreamsWhole, Obj!ResultsWhole, Fed, Obj!Streams,
     Obj!Digests
<1> QED
  BY <1>1, <1>2 DEF OInv

LEMMA MadeOInv ==
  ASSUME OInv, NEW class \in Obj!Streams \cup Obj!Digests, Obj!Made(class) \/ Obj!InitFails(class)
  PROVE  OInv'
<1>1. ObjectTypes'
  <2>1. 0 \in 0..(Block - 1) /\ 0 \in 0..MaxFed
    BY ObjectsAssumption
  <2>2. oclass' = class /\ oinit' \in BOOLEAN /\ oheld' = FALSE /\ opad' = TRUE /\ ofit' = TRUE
    BY DEF Obj!Made, Obj!InitFails
  <2>3. octx' \in {"raw", "live", "clean"} /\ odone' \in {"no", "result", "failed"}
    BY DEF Obj!Made, Obj!InitFails
  <2>4. obuf' = 0 /\ ofed' = 0 /\ oout' = 0 /\ oresult' = 0
    BY DEF Obj!Made, Obj!InitFails
  <2> QED
    BY <2>1, <2>2, <2>3, <2>4 DEF ObjectTypes
<1>2. Obj!ContextGuarded' /\ Obj!StreamsWhole' /\ Obj!ResultsWhole' /\ Fed'
  <2>1. oout' = 0 * Block /\ 0 \in Nat
    BY ObjectsAssumption DEF Obj!Made, Obj!InitFails
  <2> QED
    BY <2>1 DEF Obj!Made, Obj!InitFails, Obj!ContextGuarded, Obj!StreamsWhole, Obj!ResultsWhole,
       Fed, Obj!Kept, Obj!Streams, Obj!Digests
<1> QED
  BY <1>1, <1>2 DEF OInv

LEMMA UpdateOInv ==
  ASSUME OInv, NEW n \in Nat \ {0}, Obj!CipherUpdate(n) \/ Obj!DecipherUpdate(n)
  PROVE  OInv'
<1> DEFINE w == Obj!Whole(n)
           kept == Obj!Kept
           back == IF Obj!Keeps(n) THEN Block ELSE 0
<1>1. /\ oinit /\ oclass \in Obj!Streams /\ Obj!Update(n, n + Block)
      /\ obuf \in 0..(Block - 1) /\ ofed \in Nat /\ oout \in Nat
      /\ oout + obuf + kept = ofed /\ kept \in {0, Block}
      /\ oheld => obuf = 0 /\ kept = Block
      /\ ~oheld => kept = 0
  BY ObjectsAssumption DEF OInv, ObjectTypes, Fed, Obj!CipherUpdate, Obj!DecipherUpdate,
     Obj!Update, Obj!Streams, Obj!Kept
<1>2. /\ w \in Nat /\ w + ((obuf + n) % Block) = obuf + n /\ (obuf + n) % Block \in 0..(Block - 1)
      /\ (obuf + n) \div Block \in Nat /\ w = ((obuf + n) \div Block) * Block
  <2>1. obuf + n \in Nat
    BY <1>1
  <2> QED
    BY <2>1, Division, Zenon DEF Obj!Whole
<1>3. /\ ofed' = ofed + n /\ ofed' <= MaxFed /\ obuf' = (obuf + n) % Block
      /\ oheld' = Obj!Keeps(n) /\ oout' = oout + kept + w - back
      /\ ofit' = (ofit /\ kept + w <= n + Block)
      /\ UNCHANGED <<oclass, oinit, octx, opad, odone, oresult>>
  BY <1>1 DEF Obj!Update
<1>4. Obj!Keeps(n) => (obuf + n) % Block = 0 /\ oclass = "decipher" /\ opad
  BY DEF Obj!Keeps
<1>5. Obj!Keeps(n) \in BOOLEAN
  BY DEF Obj!Keeps
<1> HIDE DEF w, kept
<1>6. /\ kept + w <= n + Block
      /\ oout' + obuf' + back = ofed' /\ oout' \in Nat
      /\ back \in {0, Block}
  <2>0. back \in {0, Block} /\ Block \in Nat \ {0}
    BY ObjectsAssumption
  <2> HIDE DEF back
  <2>1. oout' + obuf' + back = ofed'
    BY <1>1, <1>2, <1>3, <2>0
  <2>2. kept + w <= n + Block
    BY <1>1, <1>2, ObjectsAssumption
  <2>3. w >= back
    <3>1. CASE Obj!Keeps(n)
      <4>1. w = obuf + n /\ w >= 1
        BY <1>1, <1>2, <1>4, <3>1
      <4>2. w = ((obuf + n) \div Block) * Block /\ (obuf + n) \div Block \in Nat
        BY <1>2
      <4> DEFINE e == (obuf + n) \div Block
      <4> HIDE DEF e
      <4>3. e \in Nat /\ w = e * Block
        BY <4>2 DEF e
      <4>4. e # 0
        BY <4>1, <4>3, <2>0
      <4>5. e * Block >= Block
        BY <4>3, <4>4, <2>0
      <4> QED
        BY <1>1, <1>2, <2>0, <4>3, <4>5
    <3>2. CASE ~Obj!Keeps(n)
      BY <1>2, <3>2 DEF back
    <3> QED
      BY <3>1, <3>2
  <2> QED
    BY <1>1, <1>2, <1>3, <2>0, <2>1, <2>2, <2>3
<1>7. \E k \in Nat : oout' = k * Block
  <2>1. PICK k \in Nat : oout = k * Block
    BY <1>1 DEF OInv, Fed
  <2> DEFINE e == (obuf + n) \div Block
  <2>2. e \in Nat /\ w = e * Block
    BY <1>2
  <2> HIDE DEF e
  <2>3. kept = 0 * Block \/ kept = 1 * Block
    BY <1>1, ObjectsAssumption
  <2>4. back = 0 \/ (back = Block /\ e >= 1)
    <3>1. Obj!Keeps(n) => w >= 1
      BY <1>1, <1>2, <1>4
    <3>2. e = 0 => w = 0
      BY <2>2, ObjectsAssumption
    <3> QED
      BY <2>2, <3>1, <3>2
  <2>5. PICK i \in {0, 1}, j \in {0, 1} : kept = i * Block /\ back = j * Block /\ j <= e
    BY <2>2, <2>3, <2>4, ObjectsAssumption
  <2>6. k + i + e - j \in Nat
    BY <2>1, <2>2, <2>5
  <2>7. oout' = (k + i + e - j) * Block
    BY <1>3, <2>1, <2>2, <2>5, ObjectsAssumption
  <2> QED
    BY <2>6, <2>7
<1>8. ObjectTypes'
  BY <1>1, <1>2, <1>3, <1>5, <1>6, ObjectsAssumption DEF OInv, ObjectTypes
<1>9. Obj!Kept' = back
  BY <1>3 DEF Obj!Kept
<1>10. Fed'
  BY <1>1, <1>3, <1>4, <1>6, <1>7, <1>9 DEF OInv, Fed
<1>11. Obj!StreamsWhole'
  BY <1>1, <1>3, <1>6, <1>9 DEF OInv, Obj!StreamsWhole, Fed
<1> QED
  BY <1>1, <1>3, <1>8, <1>10, <1>11 DEF OInv, Obj!ContextGuarded, Obj!ResultsWhole, Fed

LEMMA FailedOInv == ASSUME OInv, oinit, Obj!Finished(FALSE, 0) PROVE OInv'
<1>1. /\ oinit' = FALSE /\ octx' = "clean" /\ obuf' = 0 /\ oheld' = FALSE
      /\ oout' = oout /\ odone' = "failed"
      /\ oresult' = ofed /\ UNCHANGED <<oclass, opad, ofed>>
  BY DEF Obj!Finished, OInv, ObjectTypes
<1>2. ofit' = TRUE
  <2>1. 0 <= Block
    BY ObjectsAssumption
  <2>2. ofit
    BY DEF OInv, Obj!StreamsWhole
  <2>3. ofit' = (ofit /\ 0 <= Block)
    BY DEF Obj!Finished
  <2> QED
    BY <2>1, <2>2, <2>3
<1>3. ObjectTypes'
  <2>1. 0 \in 0..(Block - 1)
    BY ObjectsAssumption
  <2> QED
    BY <1>1, <1>2, <2>1 DEF OInv, ObjectTypes
<1> QED
  BY <1>1, <1>2, <1>3 DEF OInv, Obj!ContextGuarded, Obj!StreamsWhole, Obj!ResultsWhole, Fed

LEMMA ResultOInv ==
  ASSUME OInv, oinit, oclass # "none", NEW n \in 0..Block, Obj!Finished(TRUE, n),
         oclass = "cipher" => IF opad THEN n = Block ELSE obuf = 0 /\ n = 0,
         oclass = "decipher" => obuf = 0 /\ IF opad THEN oheld /\ n < Block ELSE n = 0
  PROVE  OInv'
<1>1. /\ oinit' = FALSE /\ octx' = "clean" /\ obuf' = 0 /\ oheld' = FALSE
      /\ oout' = oout + n /\ odone' = "result"
      /\ oresult' = ofed /\ UNCHANGED <<oclass, opad, ofed>>
  BY DEF Obj!Finished
<1>6. ofit' = TRUE
  <2>1. n <= Block
    BY ObjectsAssumption
  <2>2. ofit
    BY DEF OInv, Obj!StreamsWhole
  <2>3. ofit' = (ofit /\ n <= Block)
    BY DEF Obj!Finished
  <2> QED
    BY <2>1, <2>2, <2>3
<1>2. ObjectTypes'
  <2>1. 0 \in 0..(Block - 1) /\ n \in Nat /\ 0 \in Nat
    BY ObjectsAssumption
  <2>2. oout' \in Nat
    BY <1>1, <2>1 DEF OInv, ObjectTypes
  <2> QED
    BY <1>1, <1>6, <2>1, <2>2 DEF OInv, ObjectTypes
<1>3. ASSUME oclass = "cipher"
      PROVE  oout' = IF opad THEN (ofed \div Block + 1) * Block ELSE ofed
  <2>1. oout + obuf = ofed /\ obuf \in 0..(Block - 1) /\ ofed \in Nat
    BY <1>3, ObjectsAssumption DEF OInv, ObjectTypes, Fed, Obj!Kept, Obj!Streams
  <2>2. PICK k \in Nat : oout = k * Block
    BY <1>3 DEF OInv, Fed, Obj!Streams
  <2>3. ofed \div Block = k
    BY <2>1, <2>2, DivisionIsOne, ObjectsAssumption
  <2>4. (k + 1) * Block = k * Block + Block
    BY ObjectsAssumption
  <2> QED
    BY <1>1, <1>3, <2>1, <2>2, <2>3, <2>4, ObjectsAssumption
<1>4. ASSUME oclass = "decipher"
      PROVE  IF opad THEN ofed \in (oout' + 1)..(oout' + Block) ELSE oout' = ofed
  <2>1. oout + obuf + Obj!Kept = ofed /\ ofed \in Nat /\ oout \in Nat
    BY <1>4, ObjectsAssumption DEF OInv, ObjectTypes, Fed, Obj!Streams
  <2>2. oheld => opad
    BY DEF OInv, Fed
  <2> QED
    BY <1>1, <1>4, <2>1, <2>2, ObjectsAssumption DEF Obj!Kept, OInv, ObjectTypes
<1>5. Obj!StreamsWhole'
  BY <1>1, <1>3, <1>4, <1>6 DEF Obj!StreamsWhole
<1> QED
  BY <1>1, <1>2, <1>5 DEF OInv, Obj!ContextGuarded, Obj!ResultsWhole, Fed

LEMMA NextOInv == OInv /\ [Obj!Next]_objectsVars => OInv'
<1> SUFFICES ASSUME OInv, [Obj!Next]_objectsVars PROVE OInv'
  OBVIOUS
<1>1. ASSUME NEW class \in Obj!Streams \cup Obj!Digests, Obj!Made(class) \/ Obj!InitFails(class)
      PROVE OInv'
  BY <1>1, MadeOInv
<1>2. CASE Obj!NewCipher \/ Obj!NewDecipher \/ Obj!NewHmac \/ Obj!NewHash \/ Obj!NewSign
           \/ Obj!NewVerify
  BY <1>1, <1>2 DEF Obj!NewCipher, Obj!NewDecipher, Obj!NewHmac, Obj!NewHash, Obj!NewSign,
                    Obj!NewVerify, Obj!Streams, Obj!Digests
<1>3. CASE Obj!Destroy
  <2>1. /\ oclass' = "none" /\ oinit' = FALSE /\ obuf' = 0 /\ oheld' = FALSE
        /\ octx' = IF oinit THEN "clean" ELSE octx
        /\ UNCHANGED <<opad, ofed, oout, ofit, odone, oresult>>
    BY <1>3 DEF Obj!Destroy
  <2>2. 0 \in 0..(Block - 1)
    BY ObjectsAssumption
  <2>3. ObjectTypes'
    BY <2>1, <2>2 DEF OInv, ObjectTypes
  <2>4. Obj!StreamsWhole'
    BY <2>1 DEF OInv, Obj!StreamsWhole
  <2> QED
    BY <2>1, <2>3, <2>4 DEF OInv, Obj!ContextGuarded, Obj!ResultsWhole, Fed
<1>4. CASE Obj!BadKey
  BY <1>4 DEF Obj!BadKey, OInv, ObjectTypes, Obj!ContextGuarded, Obj!StreamsWhole, Obj!ResultsWhole,
               Fed, Obj!Streams, Obj!Digests, Obj!Kept
<1>5. ASSUME NEW n \in 1..(Block + 1), Obj!CipherUpdate(n) \/ Obj!DecipherUpdate(n) PROVE OInv'
  BY <1>5, UpdateOInv, ObjectsAssumption
<1>6. ASSUME NEW n \in 1..(Block + 1), NEW class \in Obj!Digests, Obj!Absorb(class, n) PROVE OInv'
  BY <1>6, ObjectsAssumption DEF Obj!Absorb, OInv, ObjectTypes, Obj!ContextGuarded,
     Obj!StreamsWhole, Obj!ResultsWhole, Fed, Obj!Streams, Obj!Digests
<1>7. ASSUME NEW pad \in BOOLEAN, Obj!SetAutoPadding(pad) PROVE OInv'
  <2>1. ~oheld
    BY <1>7, ObjectsAssumption DEF OInv, Fed, ObjectTypes, Obj!SetAutoPadding, Obj!Kept, Obj!Streams
  <2> QED
    BY <1>7, <2>1 DEF Obj!SetAutoPadding, OInv, ObjectTypes, Obj!ContextGuarded,
       Obj!StreamsWhole, Obj!ResultsWhole, Fed, Obj!Kept
<1>8. CASE Obj!CipherFinal
  <2>1. CASE opad
    <3>1. oclass = "cipher" /\ oinit /\ Obj!Finished(TRUE, Block)
      BY <1>8, <2>1 DEF Obj!CipherFinal
    <3>2. Block \in 0..Block /\ oclass # "none" /\ oclass # "decipher"
      BY <3>1, ObjectsAssumption
    <3> QED
      BY <2>1, <3>1, <3>2, ResultOInv
  <2>2. CASE ~opad /\ obuf = 0
    <3>1. oclass = "cipher" /\ oinit /\ Obj!Finished(TRUE, 0) /\ 0 \in 0..Block
      BY <1>8, <2>2, ObjectsAssumption DEF Obj!CipherFinal, Obj!Finished
    <3> QED
      BY <2>2, <3>1, ResultOInv
  <2>3. CASE ~opad /\ obuf # 0
    <3>1. oinit /\ Obj!Finished(FALSE, 0)
      BY <1>8, <2>3 DEF Obj!CipherFinal, Obj!Finished
    <3> QED
      BY <3>1, FailedOInv
  <2> QED
    BY <2>1, <2>2, <2>3
<1>9. CASE Obj!DecipherFinal
  <2>1. CASE ~opad /\ obuf = 0
    <3>1. oclass = "decipher" /\ oinit /\ Obj!Finished(TRUE, 0) /\ 0 \in 0..Block
      BY <1>9, <2>1, ObjectsAssumption DEF Obj!DecipherFinal, Obj!Finished
    <3> QED
      BY <2>1, <3>1, ResultOInv
  <2>2. CASE Obj!Finished(FALSE, 0)
    BY <1>9, <2>2, FailedOInv DEF Obj!DecipherFinal
  <2>3. ASSUME opad, obuf = 0, oheld, NEW p \in 1..Block, Obj!Finished(TRUE, Block - p) PROVE OInv'
    <3>1. Block - p \in 0..Block /\ Block - p < Block
      BY ObjectsAssumption
    <3>2. oclass = "decipher" /\ oinit
      BY <1>9 DEF Obj!DecipherFinal
    <3> QED
      BY <2>3, <3>1, <3>2, ResultOInv
  <2>4. CASE ~opad /\ obuf # 0
    <3>1. oinit /\ Obj!Finished(FALSE, 0)
      BY <1>9, <2>4 DEF Obj!DecipherFinal, Obj!Finished
    <3> QED
      BY <3>1, FailedOInv
  <2> QED
    BY <1>9, <2>1, <2>2, <2>3, <2>4 DEF Obj!DecipherFinal
<1>10. CASE Obj!HmacDigest \/ Obj!HashDigest \/ Obj!SignFinal \/ Obj!VerifyFinal
  <2>1. oinit /\ oclass \in Obj!Digests /\ Obj!Finished(TRUE, 0)
    BY <1>10 DEF Obj!HmacDigest, Obj!HashDigest, Obj!SignFinal, Obj!VerifyFinal, Obj!Digests
  <2>3. 0 \in 0..Block
    BY ObjectsAssumption
  <2>2. oclass # "none" /\ oclass # "cipher" /\ oclass # "decipher"
    BY <2>1 DEF Obj!Digests
  <2> QED
    BY <2>1, <2>2, <2>3, ResultOInv
<1>11. CASE UNCHANGED objectsVars
  BY <1>11 DEF objectsVars, OInv, ObjectTypes, Obj!ContextGuarded, Obj!StreamsWhole,
     Obj!ResultsWhole, Fed, Obj!Kept
<1> QED
  BY <1>1, <1>2, <1>3, <1>4, <1>5, <1>6, <1>7, <1>8, <1>9, <1>10, <1>11
     DEF Obj!Next, Obj!HmacUpdate, Obj!HashUpdate, Obj!SignUpdate, Obj!VerifyUpdate, Obj!Digests

LEMMA WordKept == OInv => Obj!ObjectsKeepTheirWord
BY DEF OInv, Obj!ObjectsKeepTheirWord

-----------------------------------------------------------------------------
(* Recursion and induction on the naturals, said of sets and functions.    *)

(* A set of naturals that has each number all smaller ones of which it     *)
(* has, has them all.                                                      *)
LEMMA SmallerFirst ==
  ASSUME NEW T,
         \A n \in Nat : (\A m \in Nat : m < n => m \in T) => n \in T
  PROVE  \A n \in Nat : n \in T
<1> DEFINE M == {n \in Nat : n \notin T}
<1> SUFFICES ASSUME M # {} PROVE FALSE
  OBVIOUS
<1>1. M \subseteq Nat
  OBVIOUS
<1> DEFINE R == {ss \in Nat \X Nat : ss[1] < ss[2]}
<1>2. IsWellFoundedOn(R, Nat)
  BY NatLessThanWellFounded DEF OpToRel
<1>3. PICK x \in M : \A y \in M : ~ (<<y, x>> \in R)
  <2> HIDE DEF M, R
  <2> QED
    BY <1>1, <1>2, WFMin
<1>4. \A m \in Nat : m < x => m \in T
  BY <1>3
<1> QED
  BY <1>3, <1>4

LEMMA OneByOne ==
  ASSUME NEW T, 0 \in T, \A n \in Nat : n \in T => n + 1 \in T
  PROVE  \A n \in Nat : n \in T
<1>1. \A n \in Nat : (\A m \in Nat : m < n => m \in T) => n \in T
  <2> SUFFICES ASSUME NEW n \in Nat, \A m \in Nat : m < n => m \in T
               PROVE  n \in T
    OBVIOUS
  <2>1. CASE n = 0
    BY <2>1
  <2>2. CASE n # 0
    <3>1. n - 1 \in Nat /\ n - 1 < n /\ (n - 1) + 1 = n
      BY <2>2
    <3> QED
      BY <3>1
  <2> QED
    BY <2>1, <2>2
<1> QED
  BY <1>1, SmallerFirst

(* h computes the value at n from those at smaller numbers.                *)
LooksBack(h, V) ==
  /\ h \in [Nat -> [[Nat -> V] -> V]]
  /\ \A n \in Nat : \A f, g \in [Nat -> V] :
       (\A m \in Nat : m < n => f[m] = g[m]) => h[n][f] = h[n][g]

Good(f, h, n) == \A m \in Nat : m < n => f[m] = h[m][f]

(* Two that follow h so far are the same so far.                           *)
LEMMA FollowersAgree ==
  ASSUME NEW V, NEW h, LooksBack(h, V),
         NEW f \in [Nat -> V], NEW g \in [Nat -> V], NEW n \in Nat, NEW k \in Nat,
         Good(f, h, n), Good(g, h, k)
  PROVE  \A m \in Nat : m < n /\ m < k => f[m] = g[m]
<1> DEFINE S == {m \in Nat : m < n /\ m < k => f[m] = g[m]}
<1>1. ASSUME NEW m \in Nat, \A j \in Nat : j < m => j \in S PROVE m \in S
  <2> SUFFICES ASSUME m < n, m < k PROVE f[m] = g[m]
    OBVIOUS
  <2>1. \A j \in Nat : j < m => f[j] = g[j]
    BY <1>1
  <2>2. h[m][f] = h[m][g]
    BY <2>1 DEF LooksBack
  <2> QED
    BY <2>2 DEF Good
<1>2. \A m \in Nat : m \in S
  <2> HIDE DEF S
  <2> QED
    BY <1>1, SmallerFirst
<1> QED
  BY <1>2

(* What a recursive definition on the naturals describes, there is.        *)
LEMMA RecursionHasAFunction ==
  ASSUME NEW V, NEW v \in V, NEW h, LooksBack(h, V)
  PROVE  \E f \in [Nat -> V] : \A n \in Nat : f[n] = h[n][f]
<1> DEFINE T == {n \in Nat : \E f \in [Nat -> V] : Good(f, h, n)}
<1>1. 0 \in T
  <2>1. [n \in Nat |-> v] \in [Nat -> V]
    OBVIOUS
  <2>2. Good([n \in Nat |-> v], h, 0)
    BY DEF Good
  <2> QED
    BY <2>1, <2>2
<1>2. ASSUME NEW n \in Nat, n \in T PROVE n + 1 \in T
  <2>1. PICK f \in [Nat -> V] : Good(f, h, n)
    BY <1>2
  <2> DEFINE g == [f EXCEPT ![n] = h[n][f]]
  <2>2. g \in [Nat -> V]
    BY DEF LooksBack
  <2>3. ASSUME NEW m \in Nat, m < n + 1 PROVE g[m] = h[m][g]
    <3>1. \A k \in Nat : k < m => f[k] = g[k]
      BY <2>3
    <3>2. h[m][f] = h[m][g]
      <4> HIDE DEF g
      <4> QED
        BY <2>2, <3>1 DEF LooksBack
    <3>3. CASE m = n
      BY <3>2, <3>3
    <3>4. CASE m # n
      <4>1. m < n
        BY <2>3, <3>4
      <4>2. f[m] = h[m][f]
        BY <2>1, <4>1 DEF Good
      <4> QED
        BY <3>2, <3>4, <4>2
    <3> QED
      BY <3>3, <3>4
  <2>4. Good(g, h, n + 1)
    <3> HIDE DEF g
    <3> QED
      BY <2>3 DEF Good
  <2> HIDE DEF g
  <2> QED
    BY <2>2, <2>4
<1>3. \A n \in Nat : n \in T
  <2> HIDE DEF T
  <2> QED
    BY <1>1, <1>2, OneByOne
<1> DEFINE at(n) == CHOOSE f \in [Nat -> V] : Good(f, h, n + 1)
           F == [n \in Nat |-> at(n)[n]]
<1>5. ASSUME NEW n \in Nat PROVE at(n) \in [Nat -> V] /\ Good(at(n), h, n + 1)
  <2>1. n + 1 \in T
    BY <1>3
  <2> QED
    BY <2>1
<1>6. F \in [Nat -> V]
  <2> HIDE DEF at
  <2> QED
    BY <1>5
<1>7. ASSUME NEW n \in Nat PROVE F[n] = h[n][F]
  <2> HIDE DEF at
  <2>1. \A m \in Nat : m < n => at(n)[m] = F[m]
    <3> SUFFICES ASSUME NEW m \in Nat, m < n PROVE at(n)[m] = at(m)[m]
      OBVIOUS
    <3>1. PICK i \in Nat, j \in Nat : i = m + 1 /\ j = n + 1
      OBVIOUS
    <3>2. m < i /\ m < j
      BY <3>1
    <3>3. PICK b \in [Nat -> V] : b = at(n) /\ Good(b, h, j)
      BY <1>5, <3>1
    <3>4. PICK a \in [Nat -> V] : a = at(m) /\ Good(a, h, i)
      BY <1>5, <3>1
    <3>5. a[m] = b[m]
      <4>1. \A l \in Nat : l < i /\ l < j => a[l] = b[l]
        BY <3>3, <3>4, FollowersAgree
      <4> QED
        BY <3>2, <4>1
    <3> QED
      BY <3>3, <3>4, <3>5
  <2>2. at(n)[n] = h[n][at(n)]
    BY <1>5 DEF Good
  <2>3. h[n][at(n)] = h[n][F]
    <3> HIDE DEF F
    <3> QED
      BY <1>5, <1>6, <2>1 DEF LooksBack
  <2> QED
    BY <2>2, <2>3
<1> HIDE DEF F
<1> QED
  BY <1>6, <1>7

-----------------------------------------------------------------------------
(* DiffieHellman.                                                          *)

(* Powers.                                                                 *)
LEMMA PowerDef ==
  \A e \in Nat, b \in 0..Prime :
    Dh!power[e][b] = IF e = 0 THEN 1 ELSE (Dh!power[e - 1][b] * b) % Prime
<1> DEFINE V == [0..Prime -> Int]
           next(f, n) == [b \in 0..Prime |-> IF n = 0 THEN 1 ELSE (f[n - 1][b] * b) % Prime]
           h == [n \in Nat |-> [f \in [Nat -> V] |-> next(f, n)]]
<1>1. [b \in 0..Prime |-> 0] \in V
  OBVIOUS
<1>2. LooksBack(h, V)
  <2>1. ASSUME NEW n \in Nat, NEW f \in [Nat -> V] PROVE next(f, n) \in V
    <3> SUFFICES ASSUME NEW b \in 0..Prime, n # 0 PROVE (f[n - 1][b] * b) % Prime \in Int
      OBVIOUS
    <3>1. n - 1 \in Nat
      OBVIOUS
    <3>2. f[n - 1] \in V
      BY <3>1
    <3>3. f[n - 1][b] \in Int
      BY <3>2
    <3>4. f[n - 1][b] * b \in Int
      BY <3>3
    <3> QED
      BY <3>4, DhAssumption
  <2>2. h \in [Nat -> [[Nat -> V] -> V]]
    <3> HIDE DEF V, next
    <3> QED
      BY <2>1
  <2>3. ASSUME NEW n \in Nat, NEW f \in [Nat -> V], NEW g \in [Nat -> V],
               \A m \in Nat : m < n => f[m] = g[m]
        PROVE  h[n][f] = h[n][g]
    <3>1. n # 0 => f[n - 1] = g[n - 1]
      <4> SUFFICES ASSUME n # 0 PROVE f[n - 1] = g[n - 1]
        OBVIOUS
      <4>1. n - 1 \in Nat /\ n - 1 < n
        OBVIOUS
      <4> QED
        BY <4>1, <2>3
    <3>2. next(f, n) = next(g, n)
      BY <3>1
    <3> HIDE DEF next, V
    <3> QED
      BY <3>2
  <2> HIDE DEF h, V
  <2> QED
    BY <2>2, <2>3 DEF LooksBack
<1>3. PICK f \in [Nat -> V] : \A n \in Nat : f[n] = h[n][f]
  <2> HIDE DEF h, V
  <2> QED
    BY <1>1, <1>2, RecursionHasAFunction
<1>4. \A n \in Nat : f[n] = next(f, n)
  <2> HIDE DEF next, V
  <2> QED
    BY <1>3
<1>5. f = [n \in Nat |-> next(f, n)]
  <2> HIDE DEF next
  <2> QED
    BY <1>4
<1>6. Dh!power = [n \in Nat |-> next(Dh!power, n)]
  BY <1>5, Zenon DEF Dh!power
<1>7. \A n \in Nat : Dh!power[n] = next(Dh!power, n)
  <2> HIDE DEF next
  <2> QED
    BY <1>6
<1> QED
  BY <1>7

(* Digits.                                                                 *)
LEMMA RadixDivision ==
  ASSUME NEW n \in Nat
  PROVE  /\ n \div Radix \in Nat /\ n % Radix \in 0..(Radix - 1)
         /\ n = (n \div Radix) * Radix + (n % Radix)
         /\ n # 0 => n \div Radix < n
<1>1. PICK r \in Nat : r = Radix /\ r > 1
  BY DhAssumption
<1>2. n \div r \in Int /\ n % r \in 0..(r - 1) /\ n = r * (n \div r) + (n % r)
  BY <1>1
<1>3. PICK q \in Int, m \in 0..(r - 1) : q = n \div r /\ m = n % r /\ n = r * q + m
  BY <1>2
<1>4. q >= 0
  <2>1. SUFFICES ASSUME q <= -1 PROVE FALSE
    BY <1>3
  <2>2. r * q <= r * (-1)
    BY <1>1, <2>1
  <2> QED
    BY <1>1, <1>3, <2>2
<1>5. n # 0 => q < n
  <2> SUFFICES ASSUME n # 0, q >= n PROVE FALSE
    BY <1>3
  <2>1. r * q >= 2 * q
    BY <1>1, <1>4
  <2> QED
    BY <1>3, <2>1
<1> QED
  BY <1>1, <1>2, <1>3, <1>4, <1>5

LEMMA NumBytesDef ==
  \A n \in Nat : Dh!num_bytes[n] = IF n = 0 THEN 0 ELSE 1 + Dh!num_bytes[n \div Radix]
<1> DEFINE next(f, n) == IF n = 0 THEN 0 ELSE 1 + f[n \div Radix]
           h == [n \in Nat |-> [f \in [Nat -> Nat] |-> next(f, n)]]
<1>1. LooksBack(h, Nat)
  <2>1. ASSUME NEW n \in Nat, NEW f \in [Nat -> Nat] PROVE next(f, n) \in Nat
    BY RadixDivision
  <2>2. h \in [Nat -> [[Nat -> Nat] -> Nat]]
    <3> HIDE DEF next
    <3> QED
      BY <2>1
  <2>3. ASSUME NEW n \in Nat, NEW f \in [Nat -> Nat], NEW g \in [Nat -> Nat],
               \A m \in Nat : m < n => f[m] = g[m]
        PROVE  h[n][f] = h[n][g]
    <3>1. next(f, n) = next(g, n)
      BY <2>3, RadixDivision
    <3> HIDE DEF next
    <3> QED
      BY <3>1
  <2> HIDE DEF h
  <2> QED
    BY <2>2, <2>3 DEF LooksBack
<1>2. PICK f \in [Nat -> Nat] : \A n \in Nat : f[n] = h[n][f]
  <2> HIDE DEF h
  <2> QED
    BY <1>1, RecursionHasAFunction
<1>3. \A n \in Nat : f[n] = next(f, n)
  <2> HIDE DEF next
  <2> QED
    BY <1>2
<1>4. f = [n \in Nat |-> next(f, n)]
  <2> HIDE DEF next
  <2> QED
    BY <1>3
<1>5. Dh!num_bytes = [n \in Nat |-> next(Dh!num_bytes, n)]
  BY <1>4, Zenon DEF Dh!num_bytes
<1>6. \A n \in Nat : Dh!num_bytes[n] = next(Dh!num_bytes, n)
  <2> HIDE DEF next
  <2> QED
    BY <1>5
<1> QED
  BY <1>6

LEMMA Bn2BinDef ==
  \A n \in Nat :
    Dh!bn2bin[n] = IF n = 0 THEN <<>> ELSE Append(Dh!bn2bin[n \div Radix], n % Radix)
<1> DEFINE V == Seq(0..(Radix - 1))
           next(f, n) == IF n = 0 THEN <<>> ELSE Append(f[n \div Radix], n % Radix)
           h == [n \in Nat |-> [f \in [Nat -> V] |-> next(f, n)]]
<1>1. <<>> \in V
  OBVIOUS
<1>2. LooksBack(h, V)
  <2>1. ASSUME NEW n \in Nat, NEW f \in [Nat -> V] PROVE next(f, n) \in V
    <3>1. n \div Radix \in Nat /\ n % Radix \in 0..(Radix - 1)
      BY RadixDivision
    <3>2. f[n \div Radix] \in V
      BY <3>1
    <3>3. CASE n = 0
      BY <3>3
    <3>4. CASE n # 0
      <4>1. \A d \in 0..(Radix - 1) : \A s \in V : Append(s, d) \in V
        BY AppendProperties
      <4> HIDE DEF V
      <4> QED
        BY <3>1, <3>2, <3>4, <4>1
    <3> QED
      BY <3>3, <3>4
  <2>2. h \in [Nat -> [[Nat -> V] -> V]]
    <3> HIDE DEF V, next
    <3> QED
      BY <2>1
  <2>3. ASSUME NEW n \in Nat, NEW f \in [Nat -> V], NEW g \in [Nat -> V],
               \A m \in Nat : m < n => f[m] = g[m]
        PROVE  h[n][f] = h[n][g]
    <3>1. n # 0 => f[n \div Radix] = g[n \div Radix]
      BY <2>3, RadixDivision
    <3>2. next(f, n) = next(g, n)
      BY <3>1
    <3> HIDE DEF next, V
    <3> QED
      BY <3>2
  <2> HIDE DEF h, V
  <2> QED
    BY <2>2, <2>3 DEF LooksBack
<1>3. PICK f \in [Nat -> V] : \A n \in Nat : f[n] = h[n][f]
  <2> HIDE DEF h, V
  <2> QED
    BY <1>1, <1>2, RecursionHasAFunction
<1>4. \A n \in Nat : f[n] = next(f, n)
  <2> HIDE DEF next, V
  <2> QED
    BY <1>3
<1>5. f = [n \in Nat |-> next(f, n)]
  <2> HIDE DEF next
  <2> QED
    BY <1>4
<1>6. Dh!bn2bin = [n \in Nat |-> next(Dh!bn2bin, n)]
  BY <1>5, Zenon DEF Dh!bn2bin
<1>7. \A n \in Nat : Dh!bn2bin[n] = next(Dh!bn2bin, n)
  <2> HIDE DEF next
  <2> QED
    BY <1>6
<1> QED
  BY <1>7

Digits == Seq(0..(Radix - 1))
Upper(s) == SubSeq(s, 1, Len(s) - 1)

LEMMA UpperShorter ==
  ASSUME NEW s \in Digits, s # <<>>
  PROVE  /\ Upper(s) \in Digits /\ Len(Upper(s)) = Len(s) - 1 /\ Len(s) - 1 \in Nat
         /\ s[Len(s)] \in 0..(Radix - 1)
         /\ \A i \in 1..(Len(s) - 1) : Upper(s)[i] = s[i]
<1>1. PICK D : D = 0..(Radix - 1)
  OBVIOUS
<1>2. s \in Seq(D) /\ Len(s) \in Nat /\ Len(s) > 0
  BY <1>1 DEF Digits
<1>3. \A i \in 1..(Len(s) - 1) : s[i] \in D
  BY <1>2
<1>4. s[Len(s)] \in D
  BY <1>2
<1>5. PICK n \in Nat : n = Len(s) - 1
  BY <1>2
<1>6. /\ SubSeq(s, 1, n) \in Seq(D) /\ Len(SubSeq(s, 1, n)) = IF 1 <= n THEN n - 1 + 1 ELSE 0
      /\ \A i \in 1..(n - 1 + 1) : SubSeq(s, 1, n)[i] = s[1 + i - 1]
  BY <1>3, <1>5, SubSeqProperties
<1>7. Len(SubSeq(s, 1, n)) = n /\ \A i \in 1..n : SubSeq(s, 1, n)[i] = s[i]
  BY <1>6
<1> QED
  BY <1>1, <1>2, <1>4, <1>5, <1>6, <1>7 DEF Digits, Upper

LEMMA Bin2BnDef ==
  \A s \in Digits :
    Dh!bin2bn[s] = IF s = <<>> THEN 0 ELSE Dh!bin2bn[Upper(s)] * Radix + s[Len(s)]
<1> DEFINE V == [Digits -> Int]
           next(f, n) == [s \in Digits |-> IF s = <<>> \/ n = 0 THEN 0
                                           ELSE f[n - 1][Upper(s)] * Radix + s[Len(s)]]
           h == [n \in Nat |-> [f \in [Nat -> V] |-> next(f, n)]]
<1>1. [s \in Digits |-> 0] \in V
  OBVIOUS
<1>2. LooksBack(h, V)
  <2>1. ASSUME NEW n \in Nat, NEW f \in [Nat -> V] PROVE next(f, n) \in V
    <3> SUFFICES ASSUME NEW s \in Digits, s # <<>>, n # 0
                 PROVE  f[n - 1][Upper(s)] * Radix + s[Len(s)] \in Int
      OBVIOUS
    <3>1. n - 1 \in Nat
      OBVIOUS
    <3>2. f[n - 1] \in V
      BY <3>1
    <3>3. f[n - 1][Upper(s)] \in Int
      BY <3>2, UpperShorter
    <3>4. s[Len(s)] \in Int
      BY UpperShorter
    <3> QED
      BY <3>3, <3>4, DhAssumption
  <2>2. h \in [Nat -> [[Nat -> V] -> V]]
    <3> HIDE DEF V, next
    <3> QED
      BY <2>1
  <2>3. ASSUME NEW n \in Nat, NEW f \in [Nat -> V], NEW g \in [Nat -> V],
               \A m \in Nat : m < n => f[m] = g[m]
        PROVE  h[n][f] = h[n][g]
    <3>1. n # 0 => f[n - 1] = g[n - 1]
      <4> SUFFICES ASSUME n # 0 PROVE f[n - 1] = g[n - 1]
        OBVIOUS
      <4>1. n - 1 \in Nat /\ n - 1 < n
        OBVIOUS
      <4> QED
        BY <4>1, <2>3
    <3>2. next(f, n) = next(g, n)
      BY <3>1
    <3> HIDE DEF next, V
    <3> QED
      BY <3>2
  <2> HIDE DEF h, V
  <2> QED
    BY <2>2, <2>3 DEF LooksBack
<1>3. PICK f \in [Nat -> V] : \A n \in Nat : f[n] = h[n][f]
  <2> HIDE DEF h, V
  <2> QED
    BY <1>1, <1>2, RecursionHasAFunction
<1>4. \A n \in Nat : f[n] = next(f, n)
  <2> HIDE DEF next, V
  <2> QED
    BY <1>3
<1> DEFINE value(g, s) == IF s = <<>> THEN 0 ELSE g[SubSeq(s, 1, Len(s) - 1)] * Radix + s[Len(s)]
           p == [s \in Digits |-> f[Len(s)][s]]
<1>5. ASSUME NEW s \in Digits PROVE p[s] = value(p, s)
  <2>1. CASE s = <<>>
    BY <1>4, <2>1 DEF Digits
  <2>2. CASE s # <<>>
    <3>1. Len(s) \in Nat /\ Len(s) # 0
      BY <2>2 DEF Digits
    <3>2. p[s] = f[Len(s) - 1][Upper(s)] * Radix + s[Len(s)]
      BY <1>4, <2>2, <3>1
    <3>3. p[Upper(s)] = f[Len(s) - 1][Upper(s)]
      BY <2>2, UpperShorter
    <3> HIDE DEF p
    <3> QED
      BY <2>2, <3>2, <3>3 DEF Upper
  <2> QED
    BY <2>1, <2>2
<1>6. p = [s \in Digits |-> value(p, s)]
  <2> HIDE DEF value
  <2> QED
    BY <1>5
<1>7. Dh!bin2bn = [s \in Digits |-> value(Dh!bin2bn, s)]
  <2> HIDE DEF p
  <2> QED
    BY <1>6, Zenon DEF Dh!bin2bn, Digits
<1>8. \A s \in Digits : Dh!bin2bn[s] = value(Dh!bin2bn, s)
  <2> HIDE DEF value
  <2> QED
    BY <1>7
<1> QED
  BY <1>8 DEF Upper

LEMMA Remainder ==
  ASSUME NEW p \in Nat, p > 0, NEW q \in Int, NEW v \in 0..(p - 1), NEW n \in Int,
         n = p * q + v
  PROVE  n % p = v
<1>0. n \div p \in Int /\ n % p \in 0..(p - 1) /\ n = p * (n \div p) + (n % p)
  OBVIOUS
<1>1. PICK e \in Int, m \in 0..(p - 1) : n = p * e + m /\ n % p = m
  BY <1>0, Zenon
<1>2. p * (q - e) = m - v
  BY <1>1
<1>3. CASE q - e >= 1
  <2>1. p * (q - e) >= p * 1
    BY <1>3
  <2> QED
    BY <1>2, <2>1
<1>4. CASE q - e <= -1
  <2>1. p * (q - e) <= p * (-1)
    BY <1>4
  <2> QED
    BY <1>2, <2>1
<1>5. CASE q - e = 0
  BY <1>1, <1>2, <1>5
<1> QED
  BY <1>3, <1>4, <1>5

LEMMA RemainderFirst ==
  ASSUME NEW m \in Nat, NEW n \in Nat
  PROVE  (((m % Prime) * n) % Prime) = ((m * n) % Prime)
<1>1. PICK p \in Nat : p = Prime /\ p > 0
  BY DhAssumption
<1>2. PICK q \in Int, r \in 0..(p - 1) : m = p * q + r /\ m % p = r
  BY <1>1
<1>3. r * n \in Int
  OBVIOUS
<1>4. PICK u \in Int, v \in 0..(p - 1) : r * n = p * u + v /\ (r * n) % p = v
  BY <1>1, <1>3
<1>5. m * n = p * (q * n + u) + v
  <2>1. m * n = p * (q * n) + r * n
    BY <1>2
  <2> QED
    BY <1>4, <2>1
<1>6. (m * n) % p = v
  <2>1. q * n + u \in Int /\ m * n \in Int
    OBVIOUS
  <2> QED
    BY <1>1, <1>5, <2>1, Remainder
<1> QED
  BY <1>1, <1>2, <1>4, <1>6

LEMMA PowerType ==
  \A e \in Nat : \A b \in 0..Prime : Dh!power[e][b] \in 0..(Prime - 1)
<1> DEFINE T == {e \in Nat : \A b \in 0..Prime : Dh!power[e][b] \in 0..(Prime - 1)}
<1>1. 0 \in T
  <2>1. \A b \in 0..Prime : Dh!power[0][b] = 1
    BY PowerDef
  <2>2. 1 \in 0..(Prime - 1)
    BY DhAssumption
  <2> QED
    BY <2>1, <2>2
<1>2. ASSUME NEW n \in Nat, n \in T PROVE n + 1 \in T
  <2> SUFFICES ASSUME NEW b \in 0..Prime PROVE Dh!power[n + 1][b] \in 0..(Prime - 1)
    OBVIOUS
  <2>1. Dh!power[n + 1][b] = (Dh!power[n][b] * b) % Prime
    BY PowerDef
  <2>2. PICK x \in Nat : x = Dh!power[n][b] * b
    <3>1. Dh!power[n][b] \in Nat /\ b \in Nat
      BY <1>2, DhAssumption
    <3> QED
      BY <3>1
  <2>3. x % Prime \in 0..(Prime - 1)
    BY DhAssumption
  <2> QED
    BY <2>1, <2>2, <2>3
<1> HIDE DEF T
<1>3. \A e \in Nat : e \in T
  BY <1>1, <1>2, OneByOne
<1> QED
  BY <1>3 DEF T

LEMMA PowerOfSum ==
  ASSUME NEW b \in 0..Prime, NEW m \in Nat
  PROVE  \A n \in Nat : Dh!power[m + n][b] = (Dh!power[m][b] * Dh!power[n][b]) % Prime
<1> DEFINE T == {n \in Nat : Dh!power[m + n][b] = (Dh!power[m][b] * Dh!power[n][b]) % Prime}
<1>0. \A e \in Nat : Dh!power[e][b] \in Nat /\ Dh!power[e][b] \in 0..(Prime - 1)
  BY PowerType, DhAssumption
<1>1. 0 \in T
  <2>1. Dh!power[0][b] = 1
    BY PowerDef
  <2>2. PICK x \in 0..(Prime - 1) : x = Dh!power[m][b]
    BY <1>0
  <2>3. (x * 1) % Prime = x
    BY DhAssumption
  <2>4. m + 0 = m
    OBVIOUS
  <2> QED
    BY <2>1, <2>2, <2>3, <2>4
<1>2. ASSUME NEW n \in Nat, n \in T PROVE n + 1 \in T
  <2>1. PICK x \in Nat, y \in Nat, z \in Nat : x = Dh!power[m][b] /\ y = Dh!power[n][b] /\ z = b
    BY <1>0, DhAssumption
  <2>2. Dh!power[m + n][b] = (x * y) % Prime
    BY <1>2, <2>1
  <2>3. Dh!power[m + (n + 1)][b] = (((x * y) % Prime) * z) % Prime
    <3>1. m + (n + 1) \in Nat /\ m + (n + 1) # 0 /\ (m + (n + 1)) - 1 = m + n
      OBVIOUS
    <3> QED
      BY <2>1, <2>2, <3>1, PowerDef
  <2>4. Dh!power[n + 1][b] = (y * z) % Prime
    <3>1. n + 1 \in Nat /\ n + 1 # 0 /\ (n + 1) - 1 = n
      OBVIOUS
    <3> QED
      BY <2>1, <3>1, PowerDef
  <2>5. (((x * y) % Prime) * z) % Prime = ((x * y) * z) % Prime
    <3>1. x * y \in Nat
      OBVIOUS
    <3> QED
      BY <3>1, RemainderFirst
  <2>6. (((y * z) % Prime) * x) % Prime = ((y * z) * x) % Prime
    <3>1. y * z \in Nat
      OBVIOUS
    <3> QED
      BY <3>1, RemainderFirst
  <2>7. (x * y) * z = (y * z) * x
    OBVIOUS
  <2>8. PICK w \in Nat : w = Dh!power[n + 1][b]
    BY <1>0
  <2>9. x * w = w * x
    OBVIOUS
  <2>10. (x * w) % Prime = ((y * z) * x) % Prime
    BY <2>4, <2>6, <2>8, <2>9
  <2>11. Dh!power[m + (n + 1)][b] = (Dh!power[m][b] * Dh!power[n + 1][b]) % Prime
    BY <2>1, <2>3, <2>5, <2>7, <2>8, <2>10
  <2> QED
    BY <2>11
<1> HIDE DEF T
<1>3. \A n \in Nat : n \in T
  BY <1>1, <1>2, OneByOne
<1> QED
  BY <1>3 DEF T

LEMMA PowerOfPower ==
  ASSUME NEW b \in 0..Prime, NEW m \in Nat
  PROVE  \A n \in Nat : Dh!power[n][Dh!power[m][b]] = Dh!power[m * n][b]
<1> DEFINE T == {n \in Nat : Dh!power[n][Dh!power[m][b]] = Dh!power[m * n][b]}
<1>0. Dh!power[m][b] \in 0..Prime
  <2>1. Dh!power[m][b] \in 0..(Prime - 1)
    BY PowerType
  <2> QED
    BY <2>1, DhAssumption
<1>1. 0 \in T
  <2>1. m * 0 = 0
    OBVIOUS
  <2>2. Dh!power[0][Dh!power[m][b]] = 1 /\ Dh!power[0][b] = 1
    BY <1>0, PowerDef
  <2> QED
    BY <2>1, <2>2
<1>2. ASSUME NEW n \in Nat, n \in T PROVE n + 1 \in T
  <2>1. PICK c \in 0..Prime : c = Dh!power[m][b]
    BY <1>0
  <2>2. Dh!power[n + 1][c] = (Dh!power[n][c] * c) % Prime
    <3>1. n + 1 \in Nat /\ n + 1 # 0 /\ (n + 1) - 1 = n
      OBVIOUS
    <3> QED
      BY <3>1, PowerDef
  <2>3. PICK k \in Nat : k = m * n
    OBVIOUS
  <2>4. Dh!power[n][c] = Dh!power[k][b]
    BY <1>2, <2>1, <2>3
  <2>5. Dh!power[k + m][b] = (Dh!power[k][b] * Dh!power[m][b]) % Prime
    BY PowerOfSum
  <2>6. m * (n + 1) = k + m
    BY <2>3
  <2>7. Dh!power[n + 1][Dh!power[m][b]] = Dh!power[m * (n + 1)][b]
    BY <2>1, <2>2, <2>4, <2>5, <2>6
  <2> QED
    BY <2>7
<1> HIDE DEF T
<1>3. \A n \in Nat : n \in T
  BY <1>1, <1>2, OneByOne
<1> QED
  BY <1>3 DEF T

(* What both make of the other's key is the same number.                   *)
LEMMA SameSecret ==
  ASSUME NEW x \in Nat, NEW y \in Nat
  PROVE  Dh!mod_exp(Dh!mod_exp(Generator, x), y) = Dh!mod_exp(Dh!mod_exp(Generator, y), x)
<1>1. Generator \in 0..Prime
  BY DhAssumption
<1>2. x * y = y * x
  OBVIOUS
<1>3. Dh!power[y][Dh!power[x][Generator]] = Dh!power[x * y][Generator]
  BY <1>1, PowerOfPower
<1>4. Dh!power[x][Dh!power[y][Generator]] = Dh!power[y * x][Generator]
  BY <1>1, PowerOfPower
<1> QED
  BY <1>2, <1>3, <1>4 DEF Dh!mod_exp

LEMMA EmptyDigits == <<>> \in Digits /\ Len(<<>>) = 0 /\ Dh!bin2bn[<<>>] = 0
<1>1. <<>> \in Digits /\ Len(<<>>) = 0
  BY DEF Digits
<1> QED
  BY <1>1, Bin2BnDef

LEMMA OneMoreDigit ==
  ASSUME NEW s \in Digits, NEW d \in 0..(Radix - 1)
  PROVE  /\ Append(s, d) \in Digits /\ Append(s, d) # <<>>
         /\ Len(Append(s, d)) = Len(s) + 1
         /\ Upper(Append(s, d)) = s /\ Append(s, d)[Len(s) + 1] = d
<1>1. PICK D : D = 0..(Radix - 1)
  OBVIOUS
<1>2. s \in Seq(D) /\ d \in D
  BY <1>1 DEF Digits
<1>3. PICK t \in Seq(D) : t = Append(s, d)
  BY <1>2, AppendProperties
<1>4. /\ Len(t) = Len(s) + 1 /\ t # <<>>
      /\ \A i \in 1..Len(s) : t[i] = s[i]
      /\ t[Len(s) + 1] = d
  BY <1>2, <1>3, AppendProperties
<1>5. PICK n \in Nat : n = Len(s)
  BY <1>2
<1>6. /\ Upper(t) \in Digits /\ Len(Upper(t)) = n
      /\ \A i \in 1..n : Upper(t)[i] = t[i]
  <2>1. t \in Digits /\ Len(t) - 1 = n
    BY <1>1, <1>4, <1>5 DEF Digits
  <2> QED
    BY <1>4, <2>1, UpperShorter
<1>7. Upper(t) = s
  <2>1. Upper(t) \in Seq(D) /\ Len(Upper(t)) = Len(s)
    BY <1>1, <1>5, <1>6 DEF Digits
  <2>2. \A i \in 1..Len(Upper(t)) : Upper(t)[i] = s[i]
    BY <1>4, <1>5, <1>6
  <2> QED
    BY <1>2, <2>1, <2>2, SeqEqual
<1> QED
  BY <1>1, <1>3, <1>4, <1>7 DEF Digits

(* A number and its bytes.                                                 *)
LEMMA BytesOfNumber ==
  \A n \in Nat : /\ Dh!bn2bin[n] \in Digits /\ Len(Dh!bn2bin[n]) = Dh!num_bytes[n]
                 /\ Dh!bin2bn[Dh!bn2bin[n]] = n
<1> DEFINE Fits(n) == /\ Dh!bn2bin[n] \in Digits /\ Len(Dh!bn2bin[n]) = Dh!num_bytes[n]
                      /\ Dh!bin2bn[Dh!bn2bin[n]] = n
           T == {n \in Nat : Fits(n)}
<1>1. ASSUME NEW n \in Nat, \A m \in Nat : m < n => m \in T
      PROVE  Fits(n)
  <2>1. CASE n = 0
    BY <2>1, EmptyDigits, Bn2BinDef, NumBytesDef
  <2>2. CASE n # 0
    <3>1. PICK q \in Nat, d \in 0..(Radix - 1) :
            q = n \div Radix /\ d = n % Radix /\ n = q * Radix + d /\ q < n
      BY <2>2, RadixDivision
    <3>2. PICK s \in Digits : s = Dh!bn2bin[q] /\ Len(s) = Dh!num_bytes[q] /\ Dh!bin2bn[s] = q
      BY <1>1, <3>1
    <3>3. PICK t \in Digits : /\ t = Append(s, d) /\ t # <<>> /\ Len(t) = Len(s) + 1
                              /\ Upper(t) = s /\ t[Len(s) + 1] = d
      BY OneMoreDigit
    <3>4. Dh!bn2bin[n] = t
      BY <2>2, <3>1, <3>2, <3>3, Bn2BinDef
    <3>5. Dh!num_bytes[n] = 1 + Dh!num_bytes[q]
      BY <2>2, <3>1, NumBytesDef
    <3>6. Len(s) \in Nat
      BY DEF Digits
    <3>7. Dh!bin2bn[t] = q * Radix + d
      BY <3>2, <3>3, Bin2BnDef
    <3>8. Len(t) = Dh!num_bytes[n]
      BY <3>2, <3>3, <3>5, <3>6
    <3> QED
      BY <3>1, <3>4, <3>7, <3>8
  <2> QED
    BY <2>1, <2>2
<1> HIDE DEF Fits
<1>2. \A n \in Nat : n \in T
  <2>1. \A n \in Nat : (\A m \in Nat : m < n => m \in T) => n \in T
    BY <1>1
  <2> HIDE DEF T
  <2> QED
    BY <2>1, SmallerFirst
<1> QED
  BY <1>2 DEF Fits

LEMMA NumBytesType == \A n \in Nat : Dh!num_bytes[n] \in Nat
<1>1. \A s \in Digits : Len(s) \in Nat
  BY DEF Digits
<1> QED
  BY <1>1, BytesOfNumber

LEMMA DivisionGrows ==
  ASSUME NEW m \in Nat, NEW n \in Nat, m <= n
  PROVE  m \div Radix <= n \div Radix
<1>1. PICK r \in Nat : r = Radix /\ r > 1
  BY DhAssumption
<1>2. PICK q \in Nat, a \in 0..(r - 1) : q = m \div r /\ m = q * r + a
  BY <1>1, RadixDivision
<1>3. PICK u \in Nat, b \in 0..(r - 1) : u = n \div r /\ n = u * r + b
  BY <1>1, RadixDivision
<1>4. SUFFICES ASSUME q >= u + 1 PROVE FALSE
  BY <1>1, <1>2, <1>3
<1>5. q * r >= (u + 1) * r
  BY <1>1, <1>4
<1>6. (u + 1) * r = u * r + r
  OBVIOUS
<1>7. PICK v \in Nat, w \in Nat : v = q * r /\ w = u * r
  OBVIOUS
<1> QED
  BY <1>2, <1>3, <1>5, <1>6, <1>7

LEMMA NumBytesGrows ==
  \A m, n \in Nat : m <= n => Dh!num_bytes[m] <= Dh!num_bytes[n]
<1> DEFINE T == {n \in Nat : \A m \in Nat : m <= n => Dh!num_bytes[m] <= Dh!num_bytes[n]}
<1>1. ASSUME NEW n \in Nat, \A k \in Nat : k < n => k \in T PROVE n \in T
  <2> SUFFICES ASSUME NEW m \in Nat, m <= n PROVE Dh!num_bytes[m] <= Dh!num_bytes[n]
    OBVIOUS
  <2>0. Dh!num_bytes[n] \in Nat /\ Dh!num_bytes[0] = 0
    BY NumBytesType, NumBytesDef
  <2>1. CASE m = 0
    BY <2>0, <2>1
  <2>2. CASE m # 0
    <3>1. PICK a \in Nat, b \in Nat : a = m \div Radix /\ b = n \div Radix /\ a <= b /\ b < n
      BY <2>2, RadixDivision, DivisionGrows
    <3>2. Dh!num_bytes[a] <= Dh!num_bytes[b]
      BY <1>1, <3>1
    <3>3. Dh!num_bytes[m] = 1 + Dh!num_bytes[a] /\ Dh!num_bytes[n] = 1 + Dh!num_bytes[b]
      BY <2>2, <3>1, NumBytesDef
    <3>4. Dh!num_bytes[a] \in Nat /\ Dh!num_bytes[b] \in Nat
      BY NumBytesType
    <3> QED
      BY <3>2, <3>3, <3>4
  <2> QED
    BY <2>1, <2>2
<1>2. \A n \in Nat : n \in T
  <2> HIDE DEF T
  <2> QED
    BY <1>1, SmallerFirst
<1> QED
  BY <1>2

(* Zeros in front of a number leave it what it is.                         *)
ZerosThen(k, s) == [i \in 1..(k + Len(s)) |-> IF i <= k THEN 0 ELSE s[i - k]]

LEMMA ZerosThenIsDigits ==
  ASSUME NEW k \in Nat, NEW s \in Digits
  PROVE  ZerosThen(k, s) \in Digits /\ Len(ZerosThen(k, s)) = k + Len(s)
<1>1. PICK D : D = 0..(Radix - 1) /\ 0 \in D
  BY DhAssumption
<1>2. s \in Seq(D)
  BY <1>1 DEF Digits
<1>3. PICK n \in Nat : n = Len(s)
  BY <1>2
<1>4. PICK m \in Nat : m = k + n
  BY <1>3
<1>5. \A i \in 1..n : s[i] \in D
  BY <1>2, <1>3
<1>6. \A i \in 1..m : i > k => i - k \in 1..n
  BY <1>4
<1>7. ZerosThen(k, s) \in [1..m -> D]
  BY <1>1, <1>3, <1>4, <1>5, <1>6 DEF ZerosThen
<1>8. ZerosThen(k, s) \in Seq(D) /\ Len(ZerosThen(k, s)) = m
  <2>1. PICK t \in [1..m -> D] : t = ZerosThen(k, s)
    BY <1>7
  <2>2. t \in Seq(D) /\ Len(t) = m
    OBVIOUS
  <2> QED
    BY <2>1, <2>2
<1> QED
  BY <1>1, <1>3, <1>4, <1>8 DEF Digits

LEMMA ZerosInFront ==
  \A n \in Nat : \A s \in Digits, k \in Nat :
    k + Len(s) = n => Dh!bin2bn[ZerosThen(k, s)] = Dh!bin2bn[s]
<1> DEFINE T == {n \in Nat : \A s \in Digits, k \in Nat :
                               k + Len(s) = n => Dh!bin2bn[ZerosThen(k, s)] = Dh!bin2bn[s]}
<1>0. \A s \in Digits : Len(s) \in Nat /\ (Len(s) = 0 => s = <<>>)
  BY DEF Digits
<1>1. 0 \in T
  <2> SUFFICES ASSUME NEW s \in Digits, NEW k \in Nat, k + Len(s) = 0
               PROVE  ZerosThen(k, s) = s
    OBVIOUS
  <2>1. k = 0 /\ s = <<>> /\ k + Len(s) = 0
    BY <1>0
  <2>2. ZerosThen(k, s) = <<>>
    BY <1>0, <2>1, ZerosThenIsDigits
  <2> QED
    BY <2>1, <2>2
<1>2. ASSUME NEW n \in Nat, n \in T PROVE n + 1 \in T
  <2> SUFFICES ASSUME NEW s \in Digits, NEW k \in Nat, k + Len(s) = n + 1
               PROVE  Dh!bin2bn[ZerosThen(k, s)] = Dh!bin2bn[s]
    OBVIOUS
  <2>1. PICK t \in Digits : t = ZerosThen(k, s) /\ Len(t) = n + 1 /\ t # <<>>
    <3>1. ZerosThen(k, s) \in Digits /\ Len(ZerosThen(k, s)) = n + 1
      BY ZerosThenIsDigits
    <3>2. \A q \in Digits : Len(q) = n + 1 => q # <<>>
      BY EmptyDigits
    <3> QED
      BY <3>1, <3>2, Zenon
  <2>2. Dh!bin2bn[t] = Dh!bin2bn[Upper(t)] * Radix + t[n + 1]
    BY <2>1, Bin2BnDef
  <2>3. /\ Upper(t) \in Digits /\ Len(Upper(t)) = n
        /\ \A i \in 1..n : Upper(t)[i] = t[i]
    BY <2>1, UpperShorter
  <2>4. \A i \in 1..(n + 1) : t[i] = IF i <= k THEN 0 ELSE s[i - k]
    BY <2>1 DEF ZerosThen
  <2>5. CASE Len(s) = 0
    <3>1. k = n + 1 /\ s = <<>>
      BY <1>0, <2>5
    <3>2. PICK u \in Digits : /\ u = ZerosThen(n, s) /\ Len(u) = n /\ Dh!bin2bn[u] = 0
      <4>1. ZerosThen(n, s) \in Digits /\ Len(ZerosThen(n, s)) = n
        <5>1. ZerosThen(n, s) \in Digits /\ Len(ZerosThen(n, s)) = n + Len(s)
          BY ZerosThenIsDigits
        <5> QED
          BY <2>5, <5>1
      <4>2. n + Len(s) = n
        BY <2>5
      <4>3. Dh!bin2bn[ZerosThen(n, s)] = Dh!bin2bn[s]
        BY <1>2, <4>2
      <4>4. Dh!bin2bn[s] = 0
        BY <3>1, EmptyDigits
      <4> QED
        BY <4>1, <4>3, <4>4, Zenon
    <3>3. \A i \in 1..n : u[i] = Upper(t)[i]
      <4>1. \A i \in 1..n : u[i] = 0
        BY <2>5, <3>2 DEF ZerosThen
      <4>2. \A i \in 1..n : t[i] = 0
        BY <2>4, <3>1
      <4> QED
        BY <2>3, <4>1, <4>2
    <3>4. u = Upper(t)
      BY <2>3, <3>2, <3>3, SeqEqual DEF Digits
    <3>5. t[n + 1] = 0
      BY <2>4, <3>1
    <3>6. 0 * Radix + 0 = 0
      BY DhAssumption
    <3> QED
      BY <2>1, <2>2, <3>1, <3>2, <3>4, <3>5, <3>6, EmptyDigits
  <2>6. CASE Len(s) # 0
    <3>1. s # <<>>
      BY <2>6, EmptyDigits
    <3>2. PICK m \in Nat : m = Len(s) - 1 /\ k + m = n /\ Len(s) = m + 1
      BY <1>0, <2>6
    <3>3. PICK v \in Digits : /\ v = Upper(s) /\ Len(v) = m
                              /\ \A i \in 1..m : v[i] = s[i]
      BY <3>1, <3>2, UpperShorter
    <3>4. PICK u \in Digits : /\ u = ZerosThen(k, v) /\ Len(u) = n /\ Dh!bin2bn[u] = Dh!bin2bn[v]
      <4>1. ZerosThen(k, v) \in Digits /\ Len(ZerosThen(k, v)) = n
        BY <3>2, <3>3, ZerosThenIsDigits
      <4>2. k + Len(v) = n
        BY <3>2, <3>3
      <4>3. Dh!bin2bn[ZerosThen(k, v)] = Dh!bin2bn[v]
        BY <1>2, <4>2
      <4> QED
        BY <4>1, <4>3, Zenon
    <3>5. \A i \in 1..n : u[i] = Upper(t)[i]
      <4>1. \A i \in 1..n : u[i] = IF i <= k THEN 0 ELSE v[i - k]
        BY <3>2, <3>3, <3>4 DEF ZerosThen
      <4>2. \A i \in 1..n : i > k => i - k \in 1..m
        BY <3>2
      <4> SUFFICES ASSUME NEW i \in 1..n PROVE u[i] = t[i]
        BY <2>3
      <4>3. i \in 1..(n + 1)
        OBVIOUS
      <4>4. t[i] = IF i <= k THEN 0 ELSE s[i - k]
        BY <2>4, <4>3
      <4>5. u[i] = IF i <= k THEN 0 ELSE v[i - k]
        BY <4>1
      <4>6. i > k => v[i - k] = s[i - k]
        BY <3>3, <4>2
      <4> QED
        BY <4>4, <4>5, <4>6
    <3>6. u = Upper(t)
      BY <2>3, <3>4, <3>5, SeqEqual DEF Digits
    <3>7. t[n + 1] = s[m + 1]
      <4>1. (n + 1) - k = m + 1 /\ n + 1 > k
        BY <3>2
      <4> QED
        BY <2>4, <4>1
    <3>8. Dh!bin2bn[s] = Dh!bin2bn[v] * Radix + s[m + 1]
      BY <3>1, <3>2, <3>3, Bin2BnDef
    <3> QED
      BY <2>1, <2>2, <3>4, <3>6, <3>7, <3>8
  <2> QED
    BY <2>5, <2>6
<1>3. \A n \in Nat : n \in T
  <2> HIDE DEF T
  <2> QED
    BY <1>1, <1>2, OneByOne
<1> QED
  BY <1>3

(* A secret fills the bytes of the prime and is the number.                *)
LEMMA SecretFills ==
  ASSUME NEW n \in 0..(Prime - 1)
  PROVE  /\ Dh!Padded(Dh!bn2bin[n]) \in Digits /\ Len(Dh!Padded(Dh!bn2bin[n])) = Dh!DH_size
         /\ Dh!bin2bn[Dh!Padded(Dh!bn2bin[n])] = n
<1>1. n \in Nat /\ Prime \in Nat /\ n <= Prime
  BY DhAssumption
<1>2. PICK s \in Digits : s = Dh!bn2bin[n] /\ Len(s) = Dh!num_bytes[n] /\ Dh!bin2bn[s] = n
  BY <1>1, BytesOfNumber
<1>3. Dh!num_bytes[n] \in Nat /\ Dh!DH_size \in Nat /\ Dh!num_bytes[n] <= Dh!DH_size
  BY <1>1, NumBytesType, NumBytesGrows DEF Dh!DH_size
<1>4. PICK k \in Nat : k = Dh!DH_size - Len(s) /\ k + Len(s) = Dh!DH_size
  BY <1>2, <1>3
<1>5. Dh!Padded(s) = ZerosThen(k, s)
  BY <1>4 DEF Dh!Padded, ZerosThen
<1>6. Dh!bin2bn[ZerosThen(k, s)] = Dh!bin2bn[s]
  BY <1>3, <1>4, ZerosInFront
<1> QED
  BY <1>2, <1>4, <1>5, <1>6, ZerosThenIsDigits

Secrets == [bytes : Digits, priv : 0..(Prime - 1), key : 0..(Prime - 1)]

DhTypes == Dh!TypeOK /\ secret \in [Dh!Parties -> Secrets]

(* A pair is one.                                                          *)
Paired == \A a \in Dh!Parties : dhpaired[a] => dhpub[a] = Dh!mod_exp(Generator, dhpriv[a])

(* A secret is what the keys it was made of make, padded.                  *)
SecretMade ==
  \A a \in Dh!Parties : secret[a] # Dh!NoSecret =>
    secret[a].bytes = Dh!Padded(Dh!bn2bin[Dh!mod_exp(secret[a].key, secret[a].priv)])

DInv == DhTypes /\ Paired /\ SecretMade

LEMMA PowerFits ==
  ASSUME NEW b \in 0..(Prime - 1), NEW e \in 0..(Prime - 1)
  PROVE  Dh!mod_exp(b, e) \in 0..(Prime - 1)
<1>1. b \in 0..Prime /\ e \in Nat
  BY DhAssumption
<1> QED
  BY <1>1, PowerType DEF Dh!mod_exp

LEMMA InitDInv == Dh!Init => DInv
<1> SUFFICES ASSUME Dh!Init PROVE DInv
  OBVIOUS
<1>0. 0 \in 0..(Prime - 1)
  BY DhAssumption
<1>1. Dh!TypeOK
  BY <1>0 DEF Dh!Init, Dh!TypeOK
<1>2. Dh!NoSecret \in Secrets
  <2>1. <<>> \in Digits
    BY EmptyDigits
  <2> QED
    BY <1>0, <2>1 DEF Dh!NoSecret, Secrets
<1>3. DhTypes
  BY <1>1, <1>2 DEF Dh!Init, DhTypes
<1>4. Paired /\ SecretMade
  BY DEF Dh!Init, Paired, SecretMade
<1> QED
  BY <1>3, <1>4 DEF DInv

LEMMA NextDInv == DInv /\ [Dh!Next]_dhVars => DInv'
<1> SUFFICES ASSUME DInv, [Dh!Next]_dhVars PROVE DInv'
  OBVIOUS
<1>0. /\ dhinit \in [Dh!Parties -> BOOLEAN] /\ dhpaired \in [Dh!Parties -> BOOLEAN]
      /\ dhpub \in [Dh!Parties -> 0..(Prime - 1)] /\ dhpriv \in [Dh!Parties -> 0..(Prime - 1)]
      /\ secret \in [Dh!Parties -> Secrets] /\ Paired /\ SecretMade
  BY DEF DInv, DhTypes, Dh!TypeOK
<1>1. ASSUME UNCHANGED dhVars PROVE DInv'
  BY <1>0, <1>1 DEF dhVars, DInv, DhTypes, Dh!TypeOK, Paired, SecretMade
<1>2. ASSUME NEW a \in Dh!Parties, Dh!DHInit(a) PROVE DInv'
  BY <1>0, <1>2 DEF Dh!DHInit, DInv, DhTypes, Dh!TypeOK, Paired, SecretMade
<1>3. ASSUME NEW a \in Dh!Parties, Dh!GenerateKeys(a) PROVE DInv'
  <2>1. PICK x \in 0..(Prime - 1) : /\ dhpriv' = [dhpriv EXCEPT ![a] = x]
                                    /\ dhpub' = [dhpub EXCEPT ![a] = Dh!mod_exp(Generator, x)]
    <3>1. dhpriv[a] \in 0..(Prime - 1)
      BY <1>0
    <3>2. \A x \in 1..(Prime - 2) : x \in 0..(Prime - 1)
      BY DhAssumption
    <3> QED
      BY <1>3, <3>1, <3>2 DEF Dh!GenerateKeys
  <2>2. PICK k \in 0..(Prime - 1) : k = Dh!mod_exp(Generator, x)
    <3>1. Generator \in 0..(Prime - 1)
      BY DhAssumption
    <3> QED
      BY <3>1, PowerFits
  <2>3. /\ dhpaired' = [dhpaired EXCEPT ![a] = TRUE]
        /\ UNCHANGED <<dhinit, secret>>
    BY <1>3 DEF Dh!GenerateKeys
  <2>4. DhTypes'
    BY <1>0, <2>1, <2>2, <2>3 DEF DhTypes, Dh!TypeOK
  <2>5. Paired'
    <3>1. dhpriv'[a] = x /\ dhpub'[a] = Dh!mod_exp(Generator, x)
      BY <1>0, <2>1
    <3>2. \A c \in Dh!Parties \ {a} : dhpriv'[c] = dhpriv[c] /\ dhpub'[c] = dhpub[c]
                                   /\ dhpaired'[c] = dhpaired[c]
      BY <1>0, <2>1, <2>3
    <3> QED
      BY <1>0, <3>1, <3>2 DEF Paired
  <2>6. SecretMade'
    BY <1>0, <2>3 DEF SecretMade
  <2> QED
    BY <2>4, <2>5, <2>6 DEF DInv
<1>4. ASSUME NEW a \in Dh!Parties, NEW key, Dh!ComputeSecret(a, key) PROVE DInv'
  <2>1. PICK k \in 0..(Prime - 1), x \in 0..(Prime - 1) : k = key /\ x = dhpriv[a]
    <3>1. \A n \in 2..(Prime - 2) : n \in 0..(Prime - 1)
      BY DhAssumption
    <3> QED
      BY <1>0, <1>4, <3>1 DEF Dh!ComputeSecret
  <2>2. PICK s \in Digits : s = Dh!Padded(Dh!bn2bin[Dh!mod_exp(k, x)])
    BY PowerFits, SecretFills
  <2>3. /\ secret' = [secret EXCEPT ![a] = [bytes |-> s, priv |-> x, key |-> k]]
        /\ UNCHANGED <<dhinit, dhpub, dhpriv, dhpaired>>
    BY <1>4, <2>1, <2>2 DEF Dh!ComputeSecret
  <2>4. DhTypes'
    BY <1>0, <2>3 DEF DhTypes, Dh!TypeOK, Secrets
  <2>5. SecretMade'
    <3>1. secret'[a] = [bytes |-> s, priv |-> x, key |-> k]
      BY <1>0, <2>3
    <3>2. \A c \in Dh!Parties \ {a} : secret'[c] = secret[c]
      BY <1>0, <2>3
    <3>3. /\ secret'[a].bytes = s /\ secret'[a].priv = x /\ secret'[a].key = k
      BY <3>1
    <3> QED
      BY <1>0, <2>2, <3>2, <3>3 DEF SecretMade
  <2>6. Paired'
    BY <1>0, <2>3 DEF Paired
  <2> QED
    BY <2>4, <2>5, <2>6 DEF DInv
<1>5. ASSUME NEW n \in {1, Prime - 2}
      PROVE  Dh!bin2bn[Dh!Exported(n)] = n /\ n \in 0..(Prime - 1)
  <2>1. n \in 0..(Prime - 1) /\ n \in Nat
    BY DhAssumption
  <2> QED
    BY <2>1, BytesOfNumber DEF Dh!Exported
<1>6. ASSUME NEW a \in Dh!Parties, NEW n \in {1, Prime - 2}, Dh!SetPublicKey(a, Dh!Exported(n))
      PROVE  DInv'
  <2>1. PICK k \in 0..(Prime - 1) : k = Dh!bin2bn[Dh!Exported(n)]
    BY <1>5
  <2>2. /\ dhpub' = [dhpub EXCEPT ![a] = k]
        /\ dhpaired' = [dhpaired EXCEPT ![a] =
                          dhpriv[a] # 0 /\ k = Dh!mod_exp(Generator, dhpriv[a])]
        /\ UNCHANGED <<dhinit, dhpriv, secret>>
    BY <1>6, <2>1 DEF Dh!SetPublicKey
  <2>3. DhTypes'
    BY <1>0, <2>2 DEF DhTypes, Dh!TypeOK
  <2>4. Paired'
    <3>1. dhpub'[a] = k /\ (dhpaired'[a] => k = Dh!mod_exp(Generator, dhpriv[a]))
      BY <1>0, <2>2
    <3>2. \A c \in Dh!Parties \ {a} : dhpub'[c] = dhpub[c] /\ dhpaired'[c] = dhpaired[c]
      BY <1>0, <2>2
    <3> QED
      BY <1>0, <2>2, <3>1, <3>2 DEF Paired
  <2>5. SecretMade'
    BY <1>0, <2>2 DEF SecretMade
  <2> QED
    BY <2>3, <2>4, <2>5 DEF DInv
<1>7. ASSUME NEW a \in Dh!Parties, NEW n \in {1, Prime - 2}, Dh!SetPrivateKey(a, Dh!Exported(n))
      PROVE  DInv'
  <2>1. PICK k \in 0..(Prime - 1) : k = Dh!bin2bn[Dh!Exported(n)]
    BY <1>5
  <2>2. /\ dhpriv' = [dhpriv EXCEPT ![a] = k]
        /\ dhpaired' = [dhpaired EXCEPT ![a] =
                          k # 0 /\ dhpub[a] = Dh!mod_exp(Generator, k)]
        /\ UNCHANGED <<dhinit, dhpub, secret>>
    BY <1>7, <2>1 DEF Dh!SetPrivateKey
  <2>3. DhTypes'
    BY <1>0, <2>2 DEF DhTypes, Dh!TypeOK
  <2>4. Paired'
    <3>1. dhpriv'[a] = k /\ (dhpaired'[a] => dhpub[a] = Dh!mod_exp(Generator, k))
      BY <1>0, <2>2
    <3>2. \A c \in Dh!Parties \ {a} : dhpriv'[c] = dhpriv[c] /\ dhpaired'[c] = dhpaired[c]
      BY <1>0, <2>2
    <3> QED
      BY <1>0, <2>2, <3>1, <3>2 DEF Paired
  <2>5. SecretMade'
    BY <1>0, <2>2 DEF SecretMade
  <2> QED
    BY <2>3, <2>4, <2>5 DEF DInv
<1> QED
  BY <1>1, <1>2, <1>3, <1>4, <1>6, <1>7 DEF Dh!Next

LEMMA SecretsKept == DInv => Dh!SecretsAgree
<1> SUFFICES ASSUME DInv PROVE Dh!SecretsAgree
  OBVIOUS
<1>0. /\ dhpub \in [Dh!Parties -> 0..(Prime - 1)] /\ dhpriv \in [Dh!Parties -> 0..(Prime - 1)]
      /\ secret \in [Dh!Parties -> Secrets] /\ Paired /\ SecretMade
  BY DEF DInv, DhTypes, Dh!TypeOK
<1>1. ASSUME NEW a \in Dh!Parties, secret[a] # Dh!NoSecret
      PROVE  /\ Len(secret[a].bytes) = Dh!DH_size
             /\ Dh!bin2bn[secret[a].bytes] = Dh!mod_exp(secret[a].key, secret[a].priv)
  <2>1. PICK k \in 0..(Prime - 1), x \in 0..(Prime - 1) :
          k = secret[a].key /\ x = secret[a].priv
    BY <1>0 DEF Secrets
  <2>2. PICK n \in 0..(Prime - 1) : n = Dh!mod_exp(k, x)
    BY PowerFits
  <2>3. secret[a].bytes = Dh!Padded(Dh!bn2bin[n])
    BY <1>0, <1>1, <2>1, <2>2 DEF SecretMade
  <2> QED
    BY <2>1, <2>2, <2>3, SecretFills
<1>2. ASSUME NEW a \in Dh!Parties, NEW c \in Dh!Parties, secret[a] # Dh!NoSecret,
             secret[a].priv = dhpriv[a], secret[a].key = dhpub[c], dhpaired[c]
      PROVE  secret[a].bytes =
               Dh!Padded(Dh!bn2bin[Dh!mod_exp(Dh!mod_exp(Generator, dhpriv[c]), dhpriv[a])])
  BY <1>0, <1>2 DEF SecretMade, Paired
<1>3. 1 \in Dh!Parties /\ 2 \in Dh!Parties /\ Dh!Other(1) = 2 /\ Dh!Other(2) = 1
  BY DEF Dh!Parties, Dh!Other
<1>4. Dh!mod_exp(Dh!mod_exp(Generator, dhpriv[2]), dhpriv[1])
        = Dh!mod_exp(Dh!mod_exp(Generator, dhpriv[1]), dhpriv[2])
  <2>1. dhpriv[1] \in Nat /\ dhpriv[2] \in Nat
    BY <1>0, <1>3, DhAssumption
  <2> QED
    BY <2>1, SameSecret
<1> QED
  BY <1>1, <1>2, <1>3, <1>4 DEF Dh!SecretsAgree
=============================================================================
