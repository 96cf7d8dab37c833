---------------------------- MODULE DiffieHellman ---------------------------
(***************************************************************************)
(* DiffieHellman of src/node_crypto.cc: two parties with the same prime    *)
(* and generator, in small numbers.  A number is exported in as many bytes *)
(* as it needs, a secret in as many as the prime has.                      *)
(***************************************************************************)
EXTENDS Naturals, Sequences

CONSTANTS
  Prime, Generator,   \* dh->p, dh->g
  Radix               \* a byte holds the numbers below Radix

VARIABLES
  dhinit,    \* initialised_ of each party
  dhpub,     \* dh->pub_key, 0 for NULL
  dhpriv,    \* dh->priv_key, 0 for NULL
  dhpaired,  \* history: the public key is the one of the private key
  secret     \* history: the bytes of the last secret, and of whose key

dhvars == <<dhinit, dhpub, dhpriv, dhpaired, secret>>

Parties == {1, 2}
Other(a) == 3 - a

(* power[e][b] is b raised to e.                                          *)
power[e \in Nat] ==
  [b \in 0..Prime |-> IF e = 0 THEN 1 ELSE (power[e - 1][b] * b) % Prime]

(* BN_mod_exp.                                                             *)
mod_exp(b, e) == power[e][b]

(* BN_num_bytes, BN_bn2bin and BN_bin2bn.                                  *)
num_bytes[n \in Nat] == IF n = 0 THEN 0 ELSE 1 + num_bytes[n \div Radix]
bn2bin[n \in Nat] == IF n = 0 THEN <<>> ELSE Append(bn2bin[n \div Radix], n % Radix)
bin2bn[s \in Seq(0..(Radix - 1))] ==
  IF s = <<>> THEN 0 ELSE bin2bn[SubSeq(s, 1, Len(s) - 1)] * Radix + s[Len(s)]

DH_size == num_bytes[Prime]
NoSecret == [bytes |-> <<>>, priv |-> 0, key |-> 0]

Init ==
  /\ dhinit = [a \in Parties |-> FALSE]
  /\ dhpub = [a \in Parties |-> 0] /\ dhpriv = [a \in Parties |-> 0]
  /\ dhpaired = [a \in Parties |-> FALSE] /\ secret = [a \in Parties |-> NoSecret]

(* New and DiffieHellmanGroup: what does not pass VerifyContext throws.    *)
DHInit(a) ==
  /\ ~dhinit[a] /\ dhinit' = [dhinit EXCEPT ![a] = TRUE]
  /\ UNCHANGED <<dhpub, dhpriv, dhpaired, secret>>

(* DH_generate_key makes a private key unless there is one.                *)
GenerateKeys(a) ==
  /\ dhinit[a]
  /\ \E x \in IF dhpriv[a] # 0 THEN {dhpriv[a]} ELSE 1..(Prime - 2) :
       /\ dhpriv' = [dhpriv EXCEPT ![a] = x]
       /\ dhpub' = [dhpub EXCEPT ![a] = mod_exp(Generator, x)]
  /\ dhpaired' = [dhpaired EXCEPT ![a] = TRUE]
  /\ UNCHANGED <<dhinit, secret>>

(* Slip: the bytes stay where DH_compute_key put them.                     *)
PaddedBehind(bytes) == [i \in 1..DH_size |-> IF i <= Len(bytes) THEN bytes[i] ELSE 0]

(* The bytes of the shared number, moved to the end of DH_size bytes.      *)
Padded(bytes) ==
  [i \in 1..DH_size |->
     IF i <= DH_size - Len(bytes) THEN 0 ELSE bytes[i - (DH_size - Len(bytes))]]

(* The other's key is refused when it is 1 or less, or Prime - 1 or more,  *)
(* and when there is no private key yet.                                   *)
ComputeSecret(a, key) ==
  /\ dhinit[a] /\ dhpriv[a] # 0 /\ key \in 2..(Prime - 2)
  /\ secret' = [secret EXCEPT ![a] =
       [bytes |-> Padded(bn2bin[mod_exp(key, dhpriv[a])]), priv |-> dhpriv[a],
        key |-> key]]
  /\ UNCHANGED <<dhinit, dhpub, dhpriv, dhpaired>>

(* The setters take any number, and unpair what was there.                 *)
SetPublicKey(a, bytes) ==
  /\ dhinit[a] /\ dhpub' = [dhpub EXCEPT ![a] = bin2bn[bytes]]
  /\ dhpaired' = [dhpaired EXCEPT ![a] =
       dhpriv[a] # 0 /\ bin2bn[bytes] = mod_exp(Generator, dhpriv[a])]
  /\ UNCHANGED <<dhinit, dhpriv, secret>>

SetPrivateKey(a, bytes) ==
  /\ dhinit[a] /\ dhpriv' = [dhpriv EXCEPT ![a] = bin2bn[bytes]]
  /\ dhpaired' = [dhpaired EXCEPT ![a] =
       bin2bn[bytes] # 0 /\ dhpub[a] = mod_exp(Generator, bin2bn[bytes])]
  /\ UNCHANGED <<dhinit, dhpub, secret>>

(* GetPublicKey and GetPrivateKey: what a caller hands to the other party  *)
(* or stores away.                                                         *)
Exported(n) == bn2bin[n]

Next ==
  \E a \in Parties :
    \/ DHInit(a) \/ GenerateKeys(a)
    \/ dhpub[Other(a)] # 0 /\ ComputeSecret(a, bin2bn[Exported(dhpub[Other(a)])])
    \/ \E n \in {1, Prime - 2} : SetPublicKey(a, Exported(n)) \/ SetPrivateKey(a, Exported(n))

Spec == Init /\ [][Next]_dhvars

-----------------------------------------------------------------------------
TypeOK ==
  /\ dhinit \in [Parties -> BOOLEAN] /\ dhpaired \in [Parties -> BOOLEAN]
  /\ dhpub \in [Parties -> 0..(Prime - 1)] /\ dhpriv \in [Parties -> 0..(Prime - 1)]

(* Two parties that still hold the keys their secrets were made with, each *)
(* pair matching, have the same DH_size bytes, and they are the number.    *)
SecretsAgree ==
  /\ \A a \in Parties : secret[a] # NoSecret =>
       /\ Len(secret[a].bytes) = DH_size
       /\ bin2bn[secret[a].bytes] = mod_exp(secret[a].key, secret[a].priv)
  /\ LET fresh(a) == /\ secret[a] # NoSecret /\ dhpaired[a] /\ secret[a].priv = dhpriv[a]
                     /\ secret[a].key = dhpub[Other(a)]
     IN fresh(1) /\ fresh(2) => secret[1].bytes = secret[2].bytes
=============================================================================
