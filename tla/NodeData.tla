------------------------------ MODULE NodeData ------------------------------
(***************************************************************************)
(* The parts of node v0.10.21's core that turn bytes into what they mean,  *)
(* or hold them: messages and URLs, certificates, ciphers and keys, and    *)
(* names.  NodeCore runs them, with the parts of NodeParts.                *)
(***************************************************************************)
EXTENDS Naturals

CONSTANTS
  HttpMaxHeaderSize, HttpWidth,
  MaxUrl, MaxPort,
  Ctxs, MaxErrs,
  Block, MaxFed,
  Prime, Generator, Radix,
  Socks,
  Slots, MaxHeaders, MaxMessages, MaxBuffers, ValueLengths, Limits

ASSUME UrlAssumption == MaxUrl \in Nat /\ MaxPort \in Nat

(* content_length has some bits.                                           *)
ASSUME HttpAssumption ==
  HttpMaxHeaderSize \in Nat /\ 2 ^ HttpWidth \in Nat /\ 2 ^ HttpWidth > 3

(* fields_ and values_ hold some headers.                                  *)
ASSUME BindingAssumption ==
  Slots \in Nat \ {0, 1} /\ ValueLengths \subseteq Nat /\ Limits \subseteq Nat

(* The store of root certificates is no context.                           *)
ASSUME ContextsAssumption == "root" \notin Ctxs

(* A cipher works on blocks of some bytes.                                 *)
ASSUME ObjectsAssumption == Block \in Nat \ {0} /\ MaxFed \in Nat

(* A prime, a generator below it, and bytes that count to more than one.   *)
ASSUME DhAssumption ==
  /\ Prime \in Nat /\ Prime > 3 /\ Generator \in 1..(Prime - 1)
  /\ Radix \in Nat \ {0, 1}

VARIABLES
  htype, hstate, hname, hpflags, clen, nread, about, errno, call, mark, owed,
  exact, gap, event,
  uconnect, ustate, ufield, fields, uport, ulabels, uresult,
  cstep, castore, ctxstore, certs, roots, cabad, errs,
  oclass, oinit, octx, obuf, oheld, opad, ofed, oout, ofit, odone, oresult,
  dhinit, dhpub, dhpriv, dhpaired, secret,
  tree, tasks,
  hexec, hmem, hphase, hrun, hurl, hfields, hvalues, num_fields, num_values,
  have_flushed, jsHeaders, jsUrl, hlimit, hsent, hgot, hleft, hbuffers,
  hheaders, hmessages

httpVars == <<htype, hstate, hname, hpflags, clen, nread, about, errno, call,
              mark, owed, exact, gap, event>>
urlVars == <<uconnect, ustate, ufield, fields, uport, ulabels, uresult>>
contextsVars == <<cstep, castore, ctxstore, certs, roots, cabad, errs>>
objectsVars == <<oclass, oinit, octx, obuf, oheld, opad, ofed, oout, ofit,
                 odone, oresult>>
dhVars == <<dhinit, dhpub, dhpriv, dhpaired, secret>>
socketsVars == <<tree, tasks>>
bindingVars == <<hexec, hmem, hphase, hrun, hurl, hfields, hvalues,
                 num_fields, num_values, have_flushed, jsHeaders, jsUrl,
                 hlimit, hsent, hgot, hleft, hbuffers, hheaders, hmessages>>

Htp == INSTANCE HttpParser
Url == INSTANCE HttpUrl
Ctx == INSTANCE CryptoContexts
Obj == INSTANCE CryptoObjects
Dh == INSTANCE DiffieHellman
Tree == INSTANCE TaskTree
Hbi == INSTANCE HttpBinding
=============================================================================
