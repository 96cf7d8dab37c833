--------------------------- MODULE CryptoContexts ---------------------------
(***************************************************************************)
(* SecureContext of src/node_crypto.cc, set up in the order of             *)
(* lib/crypto.js's createCredentials, with the two things its contexts     *)
(* share: the store of root certificates, made once and lent to every      *)
(* context that names no authority of its own, and the error queue of the  *)
(* thread, which every OpenSSL call adds to and few of node's calls empty. *)
(***************************************************************************)
EXTENDS Naturals, Sequences, FiniteSets

CONSTANTS
  Ctxs,      \* secure contexts
  MaxErrs    \* bound: errors in the queue

VARIABLES
  cstep,     \* how far createCredentials has come with each context
  castore,   \* ca_store_: "none", "own" or "root"
  ctxstore,  \* cert_store of ctx_: "empty" (its own), "own" (ca_store_'s), "root"
  certs,     \* what each store holds: who added what
  roots,     \* root_cert_store: "none", "made" or "freed"
  cabad,     \* history: the first authority given did not parse
  errs       \* the thread's error queue: the call that left each error

cxvars == <<cstep, castore, ctxstore, certs, roots, cabad, errs>>

Steps == {"none", "init", "key", "cert", "ca", "crl", "sid", "ready", "gone"}
Rank == [s \in Steps |->
  IF s = "none" THEN 0 ELSE IF s = "init" THEN 1 ELSE IF s = "key" THEN 2
  ELSE IF s = "cert" THEN 3 ELSE IF s = "ca" THEN 4 ELSE IF s = "crl" THEN 5
  ELSE IF s = "sid" THEN 6 ELSE IF s = "ready" THEN 7 ELSE 8]

Stores == Ctxs \cup {"root"}
Item == [what : {"root", "ca", "crl", "extra"}, by : Stores]
(* The store that ca_store_ or cert_store of c points to.                  *)
StoreOf(c, which) == IF which = "root" THEN "root" ELSE c

Init ==
  /\ cstep = [c \in Ctxs |-> "none"]
  /\ castore = [c \in Ctxs |-> "none"] /\ ctxstore = [c \in Ctxs |-> "empty"]
  /\ certs = [s \in Stores |-> {}]
  /\ roots = "none" /\ cabad = [c \in Ctxs |-> FALSE]
  /\ errs = <<>>

-----------------------------------------------------------------------------
(* The error queue.                                                        *)

(* A failing call of OpenSSL leaves one error or two.                      *)
Left(who, n) == errs \o [i \in 1..n |-> who]
Leaves(who) == \E n \in 1..2 : Len(errs) + n <= MaxErrs /\ errs' = Left(who, n)

(* ThrowCryptoError(ERR_get_error()): the oldest error is taken, so it may *)
(* be another call's, and the others stay.                                 *)
Throws(who) ==
  \E n \in 1..2 : Len(errs) + n <= MaxErrs /\ errs' = Tail(Left(who, n))

NoErrors == UNCHANGED errs

At(c, s) == Rank[cstep[c]] \in 1..(Rank[s] - 1)
To(c, s) == cstep' = [cstep EXCEPT ![c] = s]
Stays(c) == UNCHANGED <<castore, ctxstore, certs, roots, cabad>>

-----------------------------------------------------------------------------
(* createCredentials, option by option.  A call that throws ends it, and   *)
(* the context is never used.                                              *)
ContextInit(c) ==
  /\ cstep[c] = "none" /\ To(c, "init")
  /\ Stays(c) /\ NoErrors

SetKey(c) ==
  /\ At(c, "key") /\ Stays(c)
  /\ \/ To(c, "key") /\ NoErrors
     \/ To(c, "gone") /\ Throws("SetKey")

(* SSL_CTX_use_certificate_chain takes any error in the queue for its own. *)
SetCert(c) ==
  /\ At(c, "cert") /\ Stays(c)
  /\ \/ errs = <<>> /\ To(c, "cert") /\ NoErrors
     \/ errs # <<>> /\ To(c, "gone") /\ errs' = Tail(errs)
     \/ To(c, "gone") /\ Throws("SetCert")

(* The store of a context is handed to ctx_ with its first certificate.    *)
AddCACert(c) ==
  LET fresh == castore[c] = "none" IN
  /\ At(c, "crl") /\ castore[c] # "root" /\ To(c, "ca")
  /\ castore' = [castore EXCEPT ![c] = "own"]
  /\ UNCHANGED roots
  /\ \/ /\ certs' = [certs EXCEPT ![c] = @ \cup {[what |-> "ca", by |-> c]}]
        /\ ctxstore' = IF fresh THEN [ctxstore EXCEPT ![c] = "own"] ELSE ctxstore
        /\ UNCHANGED cabad /\ NoErrors
     \/ /\ cabad' = [cabad EXCEPT ![c] = @ \/ fresh]
        /\ UNCHANGED <<certs, ctxstore>> /\ Leaves("AddCACert")

AddRootCerts(c) ==
  /\ At(c, "ca") /\ To(c, "ca")
  /\ roots' = IF roots = "none" THEN "made" ELSE roots
  /\ certs' = IF roots # "none" THEN certs
              ELSE [certs EXCEPT !["root"] = {[what |-> "root", by |-> "root"]}]
  /\ castore' = [castore EXCEPT ![c] = "root"]
  /\ ctxstore' = [ctxstore EXCEPT ![c] = "root"]
  /\ UNCHANGED cabad /\ NoErrors

(* To whatever store the context has: the shared one too.                  *)
AddCRL(c) ==
  /\ cstep[c] \in {"ca", "crl"} /\ To(c, "crl")
  /\ UNCHANGED <<castore, ctxstore, roots, cabad>>
  /\ \/ /\ certs' = [certs EXCEPT ![StoreOf(c, castore[c])] =
                       @ \cup {[what |-> "crl", by |-> c]}]
        /\ NoErrors
     \/ UNCHANGED certs /\ Leaves("AddCRL")

(* A failure prints the whole queue into its message.                      *)
SetSessionIdContext(c) ==
  /\ cstep[c] \in {"ca", "crl"} /\ Stays(c)
  /\ \/ To(c, "sid") /\ NoErrors
     \/ To(c, "gone") /\ errs' = <<>>

LoadPKCS12(c) ==
  /\ cstep[c] \in {"ca", "crl", "sid"}
  /\ UNCHANGED <<castore, ctxstore, roots, cabad>>
  /\ \/ /\ To(c, "ready") /\ NoErrors
        /\ \/ certs' = [certs EXCEPT ![StoreOf(c, castore[c])] =
                          @ \cup {[what |-> "extra", by |-> c]}]
           \/ UNCHANGED certs
     \/ To(c, "gone") /\ UNCHANGED certs /\ Throws("LoadPKCS12")

Credentials(c) ==
  /\ cstep[c] \in {"ca", "crl", "sid"} /\ To(c, "ready")
  /\ Stays(c) /\ NoErrors

(* Slip: the shared store is freed with the context.                       *)
FreeCTXMemAndRoots(c) ==
  /\ cstep[c] \in {"ready", "gone"} /\ ~(castore[c] = "none" /\ ctxstore[c] = "empty")
  /\ To(c, "gone")
  /\ castore' = [castore EXCEPT ![c] = "none"]
  /\ ctxstore' = [ctxstore EXCEPT ![c] = "empty"]
  /\ certs' = [certs EXCEPT ![StoreOf(c, ctxstore[c])] = {}]
  /\ roots' = IF ctxstore[c] = "root" THEN "freed" ELSE roots
  /\ UNCHANGED cabad /\ NoErrors

(* close(), or the collector: SSL_CTX_free frees the store ctx_ points to, *)
(* so the shared one is taken away from it first.                          *)
FreeCTXMem(c) ==
  /\ cstep[c] \in {"ready", "gone"} /\ ~(castore[c] = "none" /\ ctxstore[c] = "empty")
  /\ To(c, "gone")
  /\ castore' = [castore EXCEPT ![c] = "none"]
  /\ ctxstore' = [ctxstore EXCEPT ![c] = "empty"]
  /\ certs' = IF ctxstore[c] = "root" THEN certs ELSE [certs EXCEPT ![c] = {}]
  /\ UNCHANGED <<roots, cabad>> /\ NoErrors

-----------------------------------------------------------------------------
(* The other users of the queue.                                           *)

(* HandleSSLError after any call on a connection: SSL_get_error takes an   *)
(* error in the queue for the connection's own, though it only had to wait *)
(* for more data; the queue is emptied on the way out.                     *)
HandleSSLError ==
  /\ errs # <<>> /\ errs' = <<>>
  /\ UNCHANGED <<cstep, castore, ctxstore, certs, roots, cabad>>

(* Slip: an error that means no more than wait is left in the queue.       *)
HandleSSLErrorLeaves ==
  /\ Leaves("HandleSSLError")
  /\ UNCHANGED <<cstep, castore, ctxstore, certs, roots, cabad>>

(* Sign::SignFinal with a key that does not parse returns no signature and *)
(* leaves the error; Verify::VerifyFinal and ComputeSecret clear the queue.*)
SignFinal ==
  /\ Leaves("SignFinal") /\ UNCHANGED <<cstep, castore, ctxstore, certs, roots, cabad>>

ClearErrorOnReturn ==
  /\ errs # <<>> /\ errs' = <<>>
  /\ UNCHANGED <<cstep, castore, ctxstore, certs, roots, cabad>>

Next ==
  \/ \E c \in Ctxs :
       \/ ContextInit(c) \/ SetKey(c) \/ SetCert(c) \/ AddCACert(c) \/ AddRootCerts(c)
       \/ AddCRL(c) \/ SetSessionIdContext(c) \/ LoadPKCS12(c) \/ Credentials(c)
       \/ FreeCTXMem(c)
  \/ HandleSSLError \/ SignFinal \/ ClearErrorOnReturn

Spec == Init /\ [][Next]_cxvars

-----------------------------------------------------------------------------
Callers == {"SetKey", "SetCert", "AddCACert", "AddCRL", "SetSessionIdContext", "LoadPKCS12",
            "HandleSSLError", "SignFinal"}

TypeOK ==
  /\ cstep \in [Ctxs -> Steps]
  /\ castore \in [Ctxs -> {"none", "own", "root"}]
  /\ ctxstore \in [Ctxs -> {"empty", "own", "root"}]
  /\ certs \in [Stores -> SUBSET Item]
  /\ roots \in {"none", "made", "freed"}
  /\ cabad \in [Ctxs -> BOOLEAN]
  /\ errs \in Seq(Callers)

(* What c checks a peer against, and what it was given to check it with.   *)
Seen(c) == IF ctxstore[c] = "empty" THEN {} ELSE certs[StoreOf(c, ctxstore[c])]
Given(c) == {x \in UNION {certs[s] : s \in Stores} : x.by = c}

(* A context in use checks against all it was given, unless the first      *)
(* authority in its list was unreadable, and then it has none; a revocation*)
(* list or a chain certificate strays into another context only by the     *)
(* shared store, and an authority never does.                              *)
TrustAsGiven ==
  \A c \in Ctxs : cstep[c] = "ready" =>
    /\ IF cabad[c] THEN Seen(c) = {} ELSE Given(c) \subseteq Seen(c)
    /\ \A x \in Seen(c) : x.by \in Ctxs \ {c} => ctxstore[c] = "root" /\ x.what # "ca"

(* The shared store outlives every context that uses it.                   *)
RootsStay == (\E c \in Ctxs : ctxstore[c] = "root") => roots = "made"

(* An error in the queue, which the next connection to be asked would take *)
(* for its own, was left by a call on keys or certificates: connections and*)
(* verifications clear what they cause.                                    *)
ErrorsHaveASource ==
  \A i \in 1..Len(errs) :
    errs[i] \in {"SetKey", "SetCert", "AddCACert", "AddCRL", "LoadPKCS12", "SignFinal"}

(* Contexts set up side by side keep their trust and the roots apart.      *)
ContextsKeepTheirTrust == TrustAsGiven /\ RootsStay /\ ErrorsHaveASource
=============================================================================
