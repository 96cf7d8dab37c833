---------------------------- MODULE TlsConnection ---------------------------
(***************************************************************************)
(* Connection and ClientHelloParser of src/node_crypto.cc, driven as       *)
(* lib/tls.js drives them.  What arrives for a server is first gathered in *)
(* the parser's buffer, which stops at a client hello until a session for  *)
(* it is loaded, and goes on to the BIO OpenSSL reads from; a chunk that   *)
(* is not taken is offered again.  Bytes are known by their place in the   *)
(* stream.                                                                 *)
(***************************************************************************)
EXTENDS Naturals, Sequences

CONSTANTS
  HelloSize,    \* sizeof(data_)
  MaxStream     \* bound: bytes that arrive

VARIABLES
  tserver,   \* is_server_
  hello,     \* hello_parser_.state_, "none" for a client
  hoff,      \* offset_
  hbody,     \* body_offset_
  hframe,    \* frame_len_
  tin,       \* history: bytes EncIn has taken
  bioread,   \* bio_read_
  biowrite,  \* bio_write_ holds something
  tread,     \* history: bytes OpenSSL has taken from it
  nextsess,  \* next_sess_: whose it is
  sslsess,   \* the session OpenSSL resumes or has made
  sfreed,    \* history: sessions freed
  ssl,       \* ssl_: "none", "handshake", "finished" or "freed"
  terror,    \* handle_.error
  tshut,     \* SSL_get_shutdown
  tpeer,     \* what checking the peer's certificate gave, "none" if there is none
  tauth      \* authorized, as lib/tls.js tells the application

sslvars == <<nextsess, sslsess, sfreed, ssl, terror, tshut, tpeer, tauth>>
invars == <<tserver, hello, hoff, hbody, hframe, tin>>
tvars == <<invars, bioread, tread, biowrite, sslvars>>

HeaderBytes == 2       \* 5 in the code: enough to tell the kind of frame and its length
Bodies == {1, 2}       \* body_offset_: smaller for the older of the two kinds

Init ==
  /\ tserver = FALSE /\ hello = "none" /\ hoff = 0 /\ hbody = 0 /\ hframe = 0
  /\ tin = 0 /\ bioread = <<>> /\ tread = 0 /\ biowrite = FALSE
  /\ nextsess = "none" /\ sslsess = "none" /\ sfreed = 0
  /\ ssl = "none" /\ terror = FALSE /\ tshut = {}
  /\ tpeer = "none" /\ tauth = FALSE

Alive == ssl \in {"handshake", "finished"}

New(server) ==
  /\ ssl = "none" /\ ssl' = "handshake" /\ tserver' = server
  /\ hello' = IF server THEN "waiting" ELSE "none"
  /\ UNCHANGED <<hoff, hbody, hframe, tin, bioread, tread, biowrite, nextsess, sslsess, sfreed,
                 terror, tshut, tpeer, tauth>>

-----------------------------------------------------------------------------
(* What arrives.                                                           *)
Places(from, n) == [i \in 1..n |-> from + i]

(* Slip: the frame's header is left out.                                   *)
FinishBody(off) ==
  /\ hello' = "ended"
  /\ bioread' = bioread \o Places(1, off - 1)

(* ClientHelloParser::Finish: all that was gathered goes to the BIO.       *)
Finish(off) ==
  /\ hello' = "ended"
  /\ bioread' = bioread \o Places(0, off)

Gathering == hello \in {"waiting", "tls", "ssl"}

(* Slip: all of it.                                                        *)
CopiedAll(n) == n

(* What data_ has room for.                                                *)
Copied(n) == IF n < HelloSize - hoff THEN n ELSE HelloSize - hoff

(* ClientHelloParser::Write: n bytes are offered.                          *)
HelloWrite(n) ==
  LET off == hoff + Copied(n)
      Whole(body, frame) ==
        \/ off < body + frame /\ hello' = (IF body = 1 THEN "ssl" ELSE "tls") /\ UNCHANGED bioread
        \/ off >= body + frame /\ Finish(off)     \* no client hello, or one that does not fit
        \/ off >= body + frame /\ hello' = "paused" /\ UNCHANGED bioread
  IN
  /\ Gathering /\ tin + n <= MaxStream
  /\ hoff' = off /\ tin' = tin + Copied(n)
  /\ IF hello # "waiting" THEN Whole(hbody, hframe) /\ UNCHANGED <<hbody, hframe>>
     ELSE IF off < HeaderBytes THEN UNCHANGED <<hello, bioread, hbody, hframe>>
     ELSE \E body \in Bodies, frame \in 0..(HelloSize + 1) :
            /\ hbody' = body /\ hframe' = frame
            /\ IF frame >= HelloSize THEN Finish(off) ELSE Whole(body, frame)
  /\ UNCHANGED <<tserver, tread, biowrite, sslvars>>

(* Paused, the parser takes nothing and tls.js keeps the chunk.            *)
EncInHello(n) == Alive /\ ~terror /\ tserver /\ HelloWrite(n)

EncIn(n) ==
  /\ Alive /\ ~terror /\ ~(tserver /\ hello # "ended") /\ tin + n <= MaxStream
  /\ bioread' = bioread \o Places(tin, n) /\ tin' = tin + n
  /\ UNCHANGED <<tserver, hello, hoff, hbody, hframe, tread, biowrite, sslvars>>

(* The answer to onclienthello, once per hello: with a session or without. *)
LoadSession(found) ==
  /\ Alive /\ ~terror /\ hello = "paused"
  /\ nextsess' = IF found THEN "conn" ELSE nextsess
  /\ Finish(hoff)
  /\ UNCHANGED <<tserver, hoff, hbody, hframe, tin, tread, biowrite, sslsess, sfreed, ssl, terror,
                 tshut, tpeer, tauth>>

-----------------------------------------------------------------------------
(* OpenSSL works when it is asked for cleartext, given some, or started.   *)
Takes(n) == bioread' = SubSeq(bioread, n + 1, Len(bioread)) /\ tread' = tread + n

(* A server's handshake asks for the loaded session, which goes over to it.*)
GetSessionCallback ==
  /\ tserver /\ nextsess = "conn"
  /\ nextsess' = "none" /\ sslsess' = "resumed"

(* SSL_accept, SSL_connect: the handshake takes bytes, and ends or goes on.*)
(* VerifyCallback lets it go on whatever the certificate is.               *)
Handshake ==
  /\ ssl = "handshake" /\ ~terror
  /\ \E n \in 1..Len(bioread) : Takes(n)
  /\ GetSessionCallback \/ UNCHANGED <<nextsess, sslsess>>
  /\ \/ ssl' = "handshake" /\ UNCHANGED tpeer
     \/ ssl' = "finished" /\ tpeer' \in {"none", "ok", "bad"}
  /\ biowrite' = TRUE
  /\ UNCHANGED <<invars, sfreed, terror, tshut, tauth>>

(* A client speaks first.                                                  *)
Start ==
  /\ ssl = "handshake" /\ ~terror /\ biowrite' = TRUE
  /\ UNCHANGED <<invars, bioread, tread, sslvars>>

(* SSL_read and SSL_write on a finished handshake.                         *)
ClearOut ==
  /\ ssl = "finished" /\ ~terror
  /\ \E n \in 1..Len(bioread) : Takes(n)
  /\ tshut' \in {tshut, tshut \cup {"received"}}
  /\ UNCHANGED <<invars, biowrite, nextsess, sslsess, sfreed, ssl, terror, tpeer, tauth>>

ClearIn ==
  /\ ssl = "finished" /\ ~terror /\ biowrite' = TRUE
  /\ UNCHANGED <<invars, bioread, tread, sslvars>>

EncOut ==
  /\ Alive /\ ~terror /\ biowrite' = FALSE
  /\ UNCHANGED <<invars, bioread, tread, sslvars>>

(* NewSessionCallback: a session made in the handshake is handed to        *)
(* onnewsession in a copy of its own.                                      *)
NewSession ==
  /\ ssl = "finished" /\ tserver /\ sslsess = "none" /\ sslsess' = "made"
  /\ UNCHANGED <<invars, bioread, tread, biowrite, nextsess, sfreed, ssl, terror, tshut, tpeer, tauth>>

(* HandleSSLError puts the error in the handle.                            *)
Fails ==
  /\ Alive /\ ~terror /\ bioread # <<>> /\ terror' = TRUE
  /\ Takes(1)
  /\ UNCHANGED <<invars, biowrite, nextsess, sslsess, sfreed, ssl, tshut, tpeer, tauth>>

Shutdown ==
  /\ ssl = "finished" /\ ~terror /\ tshut' = tshut \cup {"sent"} /\ biowrite' = TRUE
  /\ UNCHANGED <<invars, bioread, tread, nextsess, sslsess, sfreed, ssl, terror, tpeer, tauth>>

(* SetSession on a client, before it starts.                               *)
SetSession ==
  /\ ssl = "handshake" /\ ~tserver /\ tread = 0 /\ sslsess = "none" /\ sslsess' = "resumed"
  /\ UNCHANGED <<invars, bioread, tread, biowrite, nextsess, sfreed, ssl, terror, tshut, tpeer, tauth>>

(* What the handshake let pass is told only here, and null means verified, *)
(* or that there is no connection any more.                                *)
VerifyError ==
  IF ssl = "freed" THEN "null"
  ELSE IF tpeer = "none" THEN "UNABLE_TO_GET_ISSUER_CERT"
  ELSE IF tpeer = "ok" THEN "null" ELSE "error"

(* lib/tls.js, on the secure event.                                        *)
Secure ==
  /\ ssl = "finished" /\ ~terror
  /\ tauth' = (VerifyError = "null")
  /\ UNCHANGED <<invars, bioread, tread, biowrite, nextsess, sslsess, sfreed, ssl, terror, tshut, tpeer>>

-----------------------------------------------------------------------------
(* SecurePair.destroy, for an error or an end: the BIOs go with ssl_, and  *)
(* tls.js forgets the connection.                                          *)
Close ==
  /\ Alive /\ ssl' = "freed" /\ bioread' = <<>> /\ biowrite' = FALSE /\ terror' = FALSE
  /\ sslsess' = "none" /\ sfreed' = sfreed + (IF sslsess = "none" THEN 0 ELSE 1)
  /\ UNCHANGED <<invars, tread, nextsess, tshut, tpeer, tauth>>

(* ~Connection frees a session that nobody asked for.                      *)
Destroy ==
  /\ ssl = "freed" /\ nextsess = "conn"
  /\ nextsess' = "none" /\ sfreed' = sfreed + 1
  /\ UNCHANGED <<invars, bioread, tread, biowrite, sslsess, ssl, terror, tshut, tpeer, tauth>>

Next ==
  \/ \E server \in BOOLEAN : New(server)
  \/ \E n \in 1..2 : EncInHello(n) \/ EncIn(n)
  \/ \E found \in BOOLEAN : LoadSession(found)
  \/ Handshake \/ Start \/ ClearOut \/ ClearIn \/ EncOut \/ NewSession \/ Fails
  \/ Shutdown \/ SetSession \/ Secure \/ Close \/ Destroy

Spec == Init /\ [][Next]_tvars

-----------------------------------------------------------------------------
TypeOK ==
  /\ {tserver, terror, biowrite, tauth} \subseteq BOOLEAN
  /\ hello \in {"none", "waiting", "tls", "ssl", "paused", "ended"}
  /\ hoff \in 0..HelloSize /\ hframe \in 0..(HelloSize + 1) /\ hbody \in {0} \cup Bodies
  /\ tin \in 0..MaxStream /\ tread \in 0..MaxStream /\ Len(bioread) <= MaxStream
  /\ nextsess \in {"none", "conn"} /\ sslsess \in {"none", "resumed", "made"}
  /\ ssl \in {"none", "handshake", "finished", "freed"}
  /\ tshut \subseteq {"sent", "received"} /\ sfreed \in 0..2
  /\ tpeer \in {"none", "ok", "bad"}

(* OpenSSL is given what arrived, in order and once, after what the parser *)
(* held back (EncIn, ClientHelloParser).                                   *)
CiphertextInOrder ==
  Alive =>
    LET held == IF hello \in {"tls", "ssl", "waiting", "paused"} THEN hoff ELSE 0 IN
    Places(0, tread) \o bioread \o Places(tread + Len(bioread), held) = Places(0, tin)

(* The parser waits for more only while there is room for more, but for    *)
(* frames so near to the size of the buffer that their header does not fit:*)
(* those are neither passed on nor ever complete (the check of frame_len_  *)
(* leaves body_offset_ out).                                               *)
HelloDrains ==
  Gathering /\ hoff = HelloSize => hframe < HelloSize /\ hbody + hframe > HelloSize

(* A session has one owner, and is freed by it.                            *)
SessionsOwned ==
  /\ ssl = "freed" /\ nextsess = "none" => sslsess = "none"
  /\ nextsess = "conn" => tserver /\ hello = "ended"
  /\ sfreed > 0 => ssl = "freed"

(* A peer is called authorized only if its certificate was checked.        *)
OnlyVerified == tauth => tpeer = "ok" /\ ssl # "handshake"

(* However a stream is cut and whenever a session is found, OpenSSL sees   *)
(* the peer's bytes and at most the one session.                           *)
ConnectionFaithful == CiphertextInOrder /\ HelloDrains /\ SessionsOwned /\ OnlyVerified
=============================================================================
