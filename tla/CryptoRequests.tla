--------------------------- MODULE CryptoRequests ---------------------------
(***************************************************************************)
(* PBKDF2 and RandomBytes of src/node_crypto.cc: a request is worked on by *)
(* a thread of libuv's pool and answered on the loop, or, without a        *)
(* callback, worked on and answered at once.  What can go wrong is whose   *)
(* the memory is: the request's, the answer's Buffer's, or nobody's.       *)
(***************************************************************************)
EXTENDS Naturals, FiniteSets

CONSTANTS
  Jobs,      \* requests
  Threads    \* how many threads the pool has

VARIABLES
  jwhat,     \* "none", "pbkdf2" or "random"
  jstate,    \* "new", "queued", "working", "worked" or "answered"
  jfailed,   \* the thread's verdict: req->err, req->error_
  jobj,      \* the Persistent with ondone: "empty", "held" or "disposed"
  jinput,    \* pass and salt: "none", "held", "wiped" or "freed"
  joutput,   \* key or data_: "none", "held", "buffer" (the answer owns it) or "freed"
  jreq,      \* the request: "none", "held" or "freed"
  janswer    \* history: the calls of ondone, or returns and throws

jvars == <<jwhat, jstate, jfailed, jobj, jinput, joutput, jreq, janswer>>

Init ==
  /\ jwhat = [j \in Jobs |-> "none"] /\ jstate = [j \in Jobs |-> "new"]
  /\ jfailed = [j \in Jobs |-> FALSE] /\ jobj = [j \in Jobs |-> "empty"]
  /\ jinput = [j \in Jobs |-> "none"] /\ joutput = [j \in Jobs |-> "none"]
  /\ jreq = [j \in Jobs |-> "none"] /\ janswer = [j \in Jobs |-> 0]

Working == {j \in Jobs : jstate[j] = "working"}

(* The loop's thread is busy with a request that has no callback.          *)
Blocked(j) ==
  \E k \in Jobs \ {j} : jobj[k] = "empty" /\ jstate[k] \in {"queued", "working", "worked"}

(* With a callback the request waits for a thread; without, the caller's   *)
(* thread works on it.                                                     *)
Ask(j, what, async) ==
  /\ jstate[j] = "new" /\ ~Blocked(j) /\ jwhat' = [jwhat EXCEPT ![j] = what]
  /\ jstate' = [jstate EXCEPT ![j] = "queued"]
  /\ jobj' = IF async THEN [jobj EXCEPT ![j] = "held"] ELSE jobj
  /\ jinput' = IF what = "pbkdf2" THEN [jinput EXCEPT ![j] = "held"] ELSE jinput
  /\ joutput' = [joutput EXCEPT ![j] = "held"]
  /\ jreq' = [jreq EXCEPT ![j] = "held"]
  /\ UNCHANGED <<jfailed, janswer>>

PBKDF2(j, async) == Ask(j, "pbkdf2", async)
RandomBytes(j, async) == Ask(j, "random", async)

(* A bad argument throws after some of the copies are made, and frees them.*)
PBKDF2Throws(j) ==
  /\ jstate[j] = "new" /\ ~Blocked(j) /\ jstate' = [jstate EXCEPT ![j] = "answered"]
  /\ jwhat' = [jwhat EXCEPT ![j] = "pbkdf2"]
  /\ jinput' \in {jinput, [jinput EXCEPT ![j] = "freed"]}
  /\ janswer' = [janswer EXCEPT ![j] = 1]
  /\ UNCHANGED <<jfailed, jobj, joutput, jreq>>

Begin(j) ==
  /\ jstate[j] = "queued" /\ jobj[j] = "held" => Cardinality(Working) < Threads
  /\ jstate[j] = "queued" /\ jstate' = [jstate EXCEPT ![j] = "working"]
  /\ UNCHANGED <<jwhat, jfailed, jobj, jinput, joutput, jreq, janswer>>

(* EIO_PBKDF2 wipes what it was given once it has the key.                 *)
EIO_PBKDF2(j) ==
  /\ jstate[j] = "working" /\ jwhat[j] = "pbkdf2"
  /\ jstate' = [jstate EXCEPT ![j] = "worked"]
  /\ jinput' = [jinput EXCEPT ![j] = "wiped"]
  /\ \E f \in BOOLEAN : jfailed' = [jfailed EXCEPT ![j] = f]
  /\ UNCHANGED <<jwhat, jobj, joutput, jreq, janswer>>

RandomBytesWork(j) ==
  /\ jstate[j] = "working" /\ jwhat[j] = "random"
  /\ jstate' = [jstate EXCEPT ![j] = "worked"]
  /\ \E f \in BOOLEAN : jfailed' = [jfailed EXCEPT ![j] = f]
  /\ UNCHANGED <<jwhat, jobj, jinput, joutput, jreq, janswer>>

Answered(j) ==
  /\ jstate' = [jstate EXCEPT ![j] = "answered"]
  /\ janswer' = [janswer EXCEPT ![j] = @ + 1]
  /\ jreq' = [jreq EXCEPT ![j] = "freed"]
  /\ jobj' = IF jobj[j] = "held" THEN [jobj EXCEPT ![j] = "disposed"] ELSE jobj

(* The key is copied into the answer and everything freed.                 *)
EIO_PBKDF2After(j) ==
  /\ jstate[j] = "worked" /\ ~Blocked(j) /\ jwhat[j] = "pbkdf2"
  /\ Answered(j)
  /\ jinput' = [jinput EXCEPT ![j] = "freed"]
  /\ joutput' = [joutput EXCEPT ![j] = "freed"]
  /\ UNCHANGED <<jwhat, jfailed>>

(* Slip: data_ is not given up to the Buffer.                              *)
RandomBytesAfterFrees(j) ==
  /\ jstate[j] = "worked" /\ ~Blocked(j) /\ jwhat[j] = "random"
  /\ Answered(j)
  /\ joutput' = [joutput EXCEPT ![j] = "freed"]
  /\ UNCHANGED <<jwhat, jfailed, jinput>>

(* The bytes become the answer's, or are freed if there was an error.      *)
RandomBytesAfter(j) ==
  /\ jstate[j] = "worked" /\ ~Blocked(j) /\ jwhat[j] = "random"
  /\ Answered(j)
  /\ joutput' = [joutput EXCEPT ![j] = IF jfailed[j] THEN "freed" ELSE "buffer"]
  /\ UNCHANGED <<jwhat, jfailed, jinput>>

(* RandomBytesFree: the collector takes the answer.                        *)
RandomBytesFree(j) ==
  /\ joutput[j] = "buffer" /\ ~Blocked(j) /\ joutput' = [joutput EXCEPT ![j] = "freed"]
  /\ jstate' = [jstate EXCEPT ![j] = "collected"]
  /\ UNCHANGED <<jwhat, jfailed, jobj, jinput, jreq, janswer>>

Next ==
  \E j \in Jobs :
    \/ \E async \in BOOLEAN : PBKDF2(j, async) \/ RandomBytes(j, async)
    \/ PBKDF2Throws(j) \/ Begin(j) \/ EIO_PBKDF2(j) \/ RandomBytesWork(j)
    \/ EIO_PBKDF2After(j) \/ RandomBytesAfter(j) \/ RandomBytesFree(j)

Spec == Init /\ [][Next]_jvars

-----------------------------------------------------------------------------
TypeOK ==
  /\ jwhat \in [Jobs -> {"none", "pbkdf2", "random"}]
  /\ jstate \in [Jobs -> {"new", "queued", "working", "worked", "answered", "collected"}]
  /\ jfailed \in [Jobs -> BOOLEAN]
  /\ jobj \in [Jobs -> {"empty", "held", "disposed"}]
  /\ jinput \in [Jobs -> {"none", "held", "wiped", "freed"}]
  /\ joutput \in [Jobs -> {"none", "held", "buffer", "freed"}]
  /\ jreq \in [Jobs -> {"none", "held", "freed"}]
  /\ janswer \in [Jobs -> 0..2]

(* While a thread may touch a request, its memory is there; once answered  *)
(* nothing is left but the bytes a Buffer owns, which stay until it goes;  *)
(* and every request is answered once (the handlers of PBKDF2 and          *)
(* RandomBytes).                                                           *)
RequestsOwnTheirMemory ==
  \A j \in Jobs :
    /\ jstate[j] \in {"queued", "working", "worked"} =>
         jreq[j] = "held" /\ joutput[j] = "held" /\ jinput[j] # "freed" /\ janswer[j] = 0
    /\ jstate[j] = "answered" =>
         /\ janswer[j] = 1 /\ jreq[j] # "held" /\ jinput[j] \in {"none", "freed"}
         /\ jobj[j] # "held"
         /\ joutput[j] = "buffer" <=> jwhat[j] = "random" /\ ~jfailed[j]
         /\ joutput[j] # "held"
=============================================================================
