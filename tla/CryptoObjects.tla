---------------------------- MODULE CryptoObjects ---------------------------
(***************************************************************************)
(* The streams of src/node_crypto.cc: Cipher, Decipher, Hmac, Hash, Sign   *)
(* and Verify.  Each wraps an OpenSSL context that initialised_ guards; it *)
(* is fed in pieces of any size and finished once.  The object is one at a *)
(* time, used as lib/crypto.js uses it: set up when it is made, then fed   *)
(* and finished by whoever holds it, in any order.                         *)
(***************************************************************************)
EXTENDS Naturals, Sequences

CONSTANTS
  Block,     \* EVP_CIPHER_CTX_block_size
  MaxFed     \* bound: bytes fed to one object

VARIABLES
  oclass,    \* the class of the object, or "none"
  oinit,     \* initialised_
  octx,      \* the OpenSSL context: "raw", "live" or "clean"
  obuf,      \* bytes the context holds that do not fill a block
  oheld,     \* a decrypted block is held back, it may be padding
  opad,      \* automatic padding
  ofed,      \* history: bytes taken
  oout,      \* history: bytes given out
  ofit,      \* history: what was written fitted the room made for it
  odone,     \* history: how it ended: "no", "result", "failed"
  oresult    \* history: how many bytes the result was made of

ovars == <<oclass, oinit, octx, obuf, oheld, opad, ofed, oout, ofit, odone, oresult>>

Streams == {"cipher", "decipher"}
Digests == {"hmac", "hash", "sign", "verify"}

Init ==
  /\ oclass = "none" /\ oinit = FALSE /\ octx = "raw"
  /\ obuf = 0 /\ oheld = FALSE /\ opad = TRUE
  /\ ofed = 0 /\ oout = 0 /\ ofit = TRUE /\ odone = "no" /\ oresult = 0

-----------------------------------------------------------------------------
(* Making an object.  An unknown algorithm, a vector of the wrong length   *)
(* or a key of the wrong length throws, and nobody holds the object.       *)
Made(class) ==
  /\ oclass = "none" /\ oclass' = class
  /\ oinit' = TRUE /\ octx' = "live" /\ opad' = TRUE
  /\ obuf' = 0 /\ oheld' = FALSE
  /\ ofed' = 0 /\ oout' = 0 /\ ofit' = TRUE /\ odone' = "no" /\ oresult' = 0

NewCipher == Made("cipher")
NewDecipher == Made("decipher")
NewHmac == Made("hmac")
NewHash == Made("hash")
NewSign == Made("sign")
NewVerify == Made("verify")

(* The key of a wrong length is noticed once the context is set up, which  *)
(* is cleaned again.                                                       *)
InitFails(class) ==
  /\ oclass = "none" /\ oclass' = class
  /\ octx' \in (IF class \in Streams THEN {"raw", "clean"} ELSE {"raw"})
  /\ oinit' = FALSE /\ odone' = "failed" /\ oresult' = 0
  /\ obuf' = 0 /\ oheld' = FALSE /\ opad' = TRUE /\ ofed' = 0 /\ oout' = 0 /\ ofit' = TRUE

(* ~Cipher and the others, when the collector takes the object.            *)
Destroy ==
  /\ oclass # "none" /\ oclass' = "none"
  /\ octx' = IF oinit THEN "clean" ELSE octx
  /\ oinit' = FALSE /\ obuf' = 0 /\ oheld' = FALSE
  /\ UNCHANGED <<opad, ofed, oout, ofit, odone, oresult>>

-----------------------------------------------------------------------------
(* EVP_CipherUpdate: whole blocks come out; a decipher that pads keeps the *)
(* last one back, and writes the one it kept before.                       *)
Whole(n) == ((obuf + n) \div Block) * Block
Kept == IF oheld THEN Block ELSE 0
Keeps(n) == oclass = "decipher" /\ opad /\ (obuf + n) % Block = 0

Update(n, room) ==
  /\ oinit /\ ofed + n <= MaxFed
  /\ ofed' = ofed + n
  /\ obuf' = (obuf + n) % Block
  /\ oheld' = Keeps(n)
  /\ oout' = oout + Kept + Whole(n) - (IF Keeps(n) THEN Block ELSE 0)
  /\ ofit' = (ofit /\ Kept + Whole(n) <= room)
  /\ UNCHANGED <<oclass, oinit, octx, opad, odone, oresult>>

CipherUpdate(n) == oclass = "cipher" /\ n > 0 /\ Update(n, n + Block)
(* Slip: room for the bytes that come in.                                  *)
DecipherUpdateShort(n) == oclass = "decipher" /\ n > 0 /\ Update(n, n)

DecipherUpdate(n) == oclass = "decipher" /\ n > 0 /\ Update(n, n + Block)

(* A decipher must be told before it is fed (doc/api/crypto.markdown).     *)
SetAutoPadding(pad) ==
  /\ oinit /\ oclass \in Streams /\ (oclass = "cipher" \/ ofed = 0)
  /\ opad' = pad
  /\ UNCHANGED <<oclass, oinit, octx, obuf, oheld, ofed, oout, ofit, odone, oresult>>

(* The context is cleaned whether the last block was right or not.         *)
Finished(ok, n) ==
  /\ oinit' = FALSE /\ octx' = "clean" /\ obuf' = 0 /\ oheld' = FALSE
  /\ oout' = oout + (IF ok THEN n ELSE 0)
  /\ ofit' = (ofit /\ n <= Block)
  /\ odone' = IF ok THEN "result" ELSE "failed"
  /\ oresult' = ofed
  /\ UNCHANGED <<oclass, opad, ofed>>

CipherFinal ==
  /\ oclass = "cipher" /\ oinit
  /\ IF opad THEN Finished(TRUE, Block) ELSE Finished(obuf = 0, 0)

(* The padding takes one byte to a whole block, or is wrong.               *)
DecipherFinal ==
  /\ oclass = "decipher" /\ oinit
  /\ IF ~opad THEN Finished(obuf = 0, 0)
     ELSE IF obuf # 0 \/ ~oheld THEN Finished(FALSE, 0)
     ELSE \/ \E p \in 1..Block : Finished(TRUE, Block - p)
          \/ Finished(FALSE, 0)

-----------------------------------------------------------------------------
(* Digests.                                                                *)
Absorb(class, n) ==
  /\ oclass = class /\ oinit /\ ofed + n <= MaxFed
  /\ ofed' = ofed + n
  /\ UNCHANGED <<oclass, oinit, octx, obuf, oheld, opad, oout, ofit, odone, oresult>>

HmacUpdate(n) == Absorb("hmac", n)
HashUpdate(n) == Absorb("hash", n)
SignUpdate(n) == Absorb("sign", n)
VerifyUpdate(n) == Absorb("verify", n)

HmacDigest == oclass = "hmac" /\ oinit /\ Finished(TRUE, 0)
HashDigest == oclass = "hash" /\ oinit /\ Finished(TRUE, 0)

(* A key that does not parse gives no result, and the context is as it was *)
(* before: a caller may try again with another key.                        *)
SignFinal == oclass = "sign" /\ oinit /\ Finished(TRUE, 0)
VerifyFinal == oclass = "verify" /\ oinit /\ Finished(TRUE, 0)
BadKey ==
  /\ oclass \in {"sign", "verify"} /\ oinit /\ odone = "no" /\ odone' = "failed"
  /\ UNCHANGED <<oclass, oinit, octx, obuf, oheld, opad, ofed, oout, ofit, oresult>>

(* Slip: the context is cleaned and still said to be set up.               *)
HmacDigestAgain ==
  /\ oclass = "hmac" /\ oinit /\ octx' = "clean" /\ odone' = "result" /\ oresult' = ofed
  /\ UNCHANGED <<oclass, oinit, obuf, oheld, opad, ofed, oout, ofit>>

Next ==
  \/ NewCipher \/ NewDecipher \/ NewHmac \/ NewHash \/ NewSign \/ NewVerify
  \/ \E class \in Streams \cup Digests : InitFails(class)
  \/ Destroy \/ BadKey
  \/ \E n \in 1..(Block + 1) :
       \/ CipherUpdate(n) \/ DecipherUpdate(n)
       \/ HmacUpdate(n) \/ HashUpdate(n) \/ SignUpdate(n) \/ VerifyUpdate(n)
  \/ \E pad \in BOOLEAN : SetAutoPadding(pad)
  \/ CipherFinal \/ DecipherFinal \/ HmacDigest \/ HashDigest \/ SignFinal \/ VerifyFinal

Spec == Init /\ [][Next]_ovars

-----------------------------------------------------------------------------
TypeOK ==
  /\ oclass \in Streams \cup Digests \cup {"none"}
  /\ octx \in {"raw", "live", "clean"}
  /\ obuf \in 0..(Block - 1) /\ ofed \in 0..MaxFed /\ oout \in 0..(MaxFed + Block)
  /\ {oinit, oheld, opad, ofit} \subseteq BOOLEAN
  /\ odone \in {"no", "result", "failed"} /\ oresult \in 0..MaxFed

(* The context is used while it is set up, and cleaned exactly once.       *)
ContextGuarded ==
  /\ oinit <=> octx = "live"
  /\ oclass = "none" => octx # "live"

(* Nothing is written past the room made for it, and what came out of a    *)
(* finished stream is as long as what went in and its padding.             *)
StreamsWhole ==
  /\ ofit
  /\ odone = "result" /\ oclass = "cipher" =>
       oout = IF opad THEN (ofed \div Block + 1) * Block ELSE ofed
  /\ odone = "result" /\ oclass = "decipher" =>
       IF opad THEN ofed \in (oout + 1)..(oout + Block) ELSE oout = ofed
  /\ oinit /\ oclass \in Streams => oout + obuf + Kept = ofed

(* A result stands for every byte that was taken.                          *)
ResultsWhole == odone = "result" => oresult = ofed

(* Ciphers and digests, however they are fed, lose and add nothing.        *)
ObjectsKeepTheirWord == ContextGuarded /\ StreamsWhole /\ ResultsWhole
=============================================================================
