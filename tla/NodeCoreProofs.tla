-------------------------- MODULE NodeCoreProofs ---------------------------
(***************************************************************************)
(* What is proved of node's core and of the load generator, whichever part *)
(* runs, from the invariants of NodePartsProofs and NodeDataProofs.        *)
(***************************************************************************)
EXTENDS NodeCore, NodePartsProofs, NodeDataProofs

-----------------------------------------------------------------------------
(* What holds of 0, and of n + 1 when of n, holds of every number.         *)
LEMMA Founded ==
  ASSUME NEW T,
         \A n \in Nat : (\A m \in Nat : m < n => m \in T) => n \in T
  PROVE  \A n \in Nat : n \in T
<1> DEFINE M == {n \in Nat : n \notin T}
<1> SUFFICES ASSUME M # {} PROVE FALSE
  OBVIOUS
<1>1. M \subseteq Nat
  OBVIOUS
<1> DEFINE R == {ss \in Nat \X Nat : ss[1] < ss[2]}
<1>2. IsWellFoundedOn(R, Nat)
  BY NatLessThanWellFounded DEF OpToRel
<1>3. PICK x \in M : \A y \in M : ~ (<<y, x>> \in R)
  <2> HIDE DEF M, R
  <2> QED
    BY <1>1, <1>2, WFMin
<1>4. \A m \in Nat : m < x => m \in T
  BY <1>3
<1> QED
  BY <1>3, <1>4

LEMMA Upward ==
  ASSUME NEW T, 0 \in T, \A n \in Nat : n \in T => n + 1 \in T
  PROVE  \A n \in Nat : n \in T
<1>1. \A n \in Nat : (\A m \in Nat : m < n => m \in T) => n \in T
  <2> SUFFICES ASSUME NEW n \in Nat, \A m \in Nat : m < n => m \in T
               PROVE  n \in T
    OBVIOUS
  <2>1. CASE n = 0
    BY <2>1
  <2>2. CASE n # 0
    <3>1. n - 1 \in Nat /\ n - 1 < n /\ (n - 1) + 1 = n
      BY <2>2
    <3> QED
      BY <3>1
  <2> QED
    BY <2>1, <2>2
<1> QED
  BY <1>1, Founded

-----------------------------------------------------------------------------
(* string_bytes.cc: BytesFaithful is kept by every call.  Joins is the     *)
(* sequence of what FlattenSeq has joined so far.                          *)

(* Pieces of a sequence joined one by one: what FlattenSeq makes of them.  *)
Joins(f, p, n) ==
  /\ f \in [0..n -> Seq(Nat)]
  /\ f[0] = <<>>
  /\ \A i \in 1..n : f[i] = f[i - 1] \o p[i]

LEMMA JoinExists ==
  ASSUME NEW n \in Nat, NEW p \in [1..n -> Seq(Nat)]
  PROVE  \E f : Joins(f, p, n)
<1> DEFINE T == {k \in Nat : k <= n => \E f : Joins(f, p, k)}
<1>1. 0 \in T
  <2>1. Joins([i \in 0..0 |-> <<>>], p, 0)
    BY DEF Joins
  <2> QED
    BY <2>1
<1>2. ASSUME NEW k \in Nat, k \in T PROVE k + 1 \in T
  <2> SUFFICES ASSUME k + 1 <= n PROVE \E f : Joins(f, p, k + 1)
    OBVIOUS
  <2>1. PICK f : Joins(f, p, k)
    BY <1>2
  <2>2. f[k] \in Seq(Nat) /\ p[k + 1] \in Seq(Nat)
    BY <2>1 DEF Joins
  <2> DEFINE last == f[k] \o p[k + 1]
             g == [i \in 0..(k + 1) |-> IF i = k + 1 THEN last ELSE f[i]]
  <2>3. last \in Seq(Nat)
    BY <2>2
  <2>4. g \in [0..(k + 1) -> Seq(Nat)]
    <3> HIDE DEF last
    <3> QED
      BY <2>1, <2>3 DEF Joins
  <2>5. g[0] = <<>>
    BY <2>1 DEF Joins
  <2>6. ASSUME NEW i \in 1..(k + 1) PROVE g[i] = g[i - 1] \o p[i]
    <3>1. CASE i = k + 1
      <4>1. i - 1 = k /\ k \in 0..(k + 1) /\ k # k + 1
        BY <3>1
      <4>2. g[k] = f[k]
        BY <4>1
      <4>3. k + 1 \in 0..(k + 1)
        OBVIOUS
      <4>4. g[k + 1] = last
        <5> HIDE DEF last
        <5> QED
          BY <4>3
      <4> HIDE DEF g
      <4> QED
        BY <3>1, <4>1, <4>2, <4>4
    <3>2. CASE i # k + 1
      <4>1. i \in 1..k /\ i - 1 \in 0..k
        BY <3>2
      <4>2. g[i] = f[i] /\ g[i - 1] = f[i - 1]
        BY <3>2, <4>1
      <4> QED
        BY <2>1, <4>1, <4>2 DEF Joins
    <3> QED
      BY <3>1, <3>2
  <2> HIDE DEF g
  <2>7. Joins(g, p, k + 1)
    BY <2>4, <2>5, <2>6 DEF Joins
  <2> QED
    BY <2>7
<1>3. n \in T
  <2> HIDE DEF T
  <2> QED
    BY <1>1, <1>2, Upward
<1> QED
  BY <1>3

JoinsOn(g, p, n) ==
  g[1] = p[1] /\ p[1] \in Seq(Nat) /\ \A i \in 2..n : g[i] = g[i - 1] \o p[i]

LEMMA JoinedOnce ==
  ASSUME NEW n \in Nat, NEW p, NEW f, Joins(f, p, n), NEW g, JoinsOn(g, p, n)
  PROVE  \A i \in 1..n : g[i] = f[i]
<1> USE DEF JoinsOn
<1> DEFINE T == {i \in Nat : i \in 1..n => g[i] = f[i]}
<1>1. 0 \in T
  OBVIOUS
<1>2. ASSUME NEW i \in Nat, i \in T PROVE i + 1 \in T
  <2> SUFFICES ASSUME i + 1 <= n PROVE g[i + 1] = f[i + 1]
    OBVIOUS
  <2>0. i + 1 \in 1..n /\ (i + 1) - 1 = i /\ n > 0
    OBVIOUS
  <2>1. f[i + 1] = f[i] \o p[i + 1]
    BY <2>0 DEF Joins
  <2>2. CASE i = 0
    <3>1. i + 1 = 1 /\ f[0] = <<>> /\ p[1] \in Seq(Nat) /\ g[1] = p[1]
      BY <2>0, <2>2 DEF Joins
    <3>2. f[1] = <<>> \o p[1]
      BY <2>1, <2>2, <3>1
    <3>3. <<>> \o p[1] = p[1]
      BY <3>1
    <3> QED
      BY <3>1, <3>2, <3>3
  <2>3. CASE i # 0
    <3>1. i + 1 \in 2..n /\ i \in 1..n
      BY <2>0, <2>3
    <3>2. g[i] = f[i]
      BY <1>2, <3>1
    <3>3. g[i + 1] = g[i] \o p[i + 1]
      BY <2>0, <3>1
    <3> QED
      BY <2>0, <2>1, <3>2, <3>3
  <2> QED
    BY <2>2, <2>3
<1>3. \A i \in Nat : i \in T
  <2> HIDE DEF T
  <2> QED
    BY <1>1, <1>2, Upward
<1> QED
  BY <1>3

LEMMA FlattenJoins ==
  ASSUME NEW n \in Nat, NEW p \in [1..n -> Seq(Nat)]
  PROVE  \E f : Joins(f, p, n) /\ Str!FlattenSeq(p) = f[n]
<1>1. p \in Seq(Seq(Nat)) /\ Len(p) = n
  OBVIOUS
<1>2. PICK f : Joins(f, p, n)
  BY JoinExists
<1>3. CASE n = 0
  <2>1. p = <<>>
    BY <1>1, <1>3
  <2>2. Str!FlattenSeq(p) = p
    BY <1>1, <1>3 DEF Str!FlattenSeq
  <2> QED
    BY <1>2, <1>3, <2>1, <2>2 DEF Joins
<1>4. CASE n # 0
  <2> DEFINE next(g, i) == IF i = 1 THEN p[i] ELSE g[i - 1] \o p[i]
             h == [i \in 1..n |-> f[i]]
  <2>1. Str!FlattenSeq(p) = (CHOOSE g : g = [i \in 1..n |-> next(g, i)])[n]
    <3>1. Len(p) # 0 /\ Len(p) = n
      BY <1>1, <1>4
    <3>2. Str!FlattenSeq(p) = (CHOOSE g : g = [i \in 1..Len(p) |-> next(g, i)])[Len(p)]
      BY <3>1, Zenon DEF Str!FlattenSeq
    <3> QED
      BY <3>1, <3>2, Zenon
  <2>2. h = [i \in 1..n |-> next(h, i)]
    <3>1. ASSUME NEW i \in 1..n PROVE f[i] = next(h, i)
      <4>1. CASE i = 1
        <5>0. f[i] = f[i - 1] \o p[i] /\ f[0] = <<>>
          BY <1>2 DEF Joins
        <5>1. f[i] = <<>> \o p[i]
          BY <4>1, <5>0
        <5>2. p[i] \in Seq(Nat)
          OBVIOUS
        <5>3. <<>> \o p[i] = p[i]
          BY <5>2
        <5> QED
          BY <4>1, <5>1, <5>3
      <4>2. CASE i # 1
        <5>1. i - 1 \in 1..n
          BY <4>2
        <5>2. f[i] = f[i - 1] \o p[i]
          BY <1>2 DEF Joins
        <5> QED
          BY <4>2, <5>1, <5>2
      <4> QED
        BY <4>1, <4>2
    <3> HIDE DEF next
    <3> QED
      BY <3>1
  <2>3. PICK g : g = [i \in 1..n |-> next(g, i)] /\ Str!FlattenSeq(p) = g[n]
    <3> HIDE DEF next, h
    <3> QED
      BY <2>1, <2>2, Zenon
  <2>4. \A i \in 1..n : g[i] = next(g, i)
    <3> HIDE DEF next
    <3> QED
      BY <2>3
  <2>5. 1 \in 1..n
    BY <1>4
  <2>6. g[1] = p[1] /\ p[1] \in Seq(Nat)
    BY <2>4, <2>5
  <2>7. ASSUME NEW i \in 2..n PROVE g[i] = g[i - 1] \o p[i]
    <3>1. i \in 1..n /\ i # 1
      OBVIOUS
    <3> QED
      BY <2>4, <3>1
  <2>8. \A i \in 1..n : g[i] = f[i]
    <3>1. JoinsOn(g, p, n)
      BY <2>6, <2>7 DEF JoinsOn
    <3> HIDE DEF next, h
    <3> QED
      BY <1>2, <3>1, JoinedOnce
  <2> QED
    BY <1>2, <1>4, <2>3, <2>8
<1> QED
  BY <1>3, <1>4

(* How long what is joined gets.                                           *)
LEMMA LengthsJoined ==
  ASSUME NEW n \in Nat, NEW p, NEW f, Joins(f, p, n), NEW lo \in Nat, NEW hi \in Nat,
         \A i \in 1..n : p[i] \in Seq(Nat) /\ Len(p[i]) \in lo..hi
  PROVE  \A i \in 0..n : Len(f[i]) \in (lo * i)..(hi * i)
<1> DEFINE T == {i \in Nat : i \in 0..n => Len(f[i]) \in (lo * i)..(hi * i)}
<1>1. 0 \in T
  <2>1. f[0] = <<>> /\ lo * 0 = 0 /\ hi * 0 = 0
    BY DEF Joins
  <2> QED
    BY <2>1
<1>2. ASSUME NEW i \in Nat, i \in T PROVE i + 1 \in T
  <2> SUFFICES ASSUME i + 1 <= n PROVE Len(f[i + 1]) \in (lo * (i + 1))..(hi * (i + 1))
    OBVIOUS
  <2>1. i + 1 \in 1..n /\ (i + 1) - 1 = i /\ i \in 0..n
    OBVIOUS
  <2>2. f[i + 1] = f[i] \o p[i + 1] /\ f[i] \in Seq(Nat) /\ p[i + 1] \in Seq(Nat)
    BY <2>1 DEF Joins
  <2>3. Len(f[i + 1]) = Len(f[i]) + Len(p[i + 1])
    BY <2>2
  <2>4. PICK a \in Nat, b \in Nat : a = Len(f[i]) /\ b = Len(p[i + 1])
    BY <2>2
  <2>5. a \in (lo * i)..(hi * i) /\ b \in lo..hi
    BY <1>2, <2>1, <2>4
  <2>6. lo * (i + 1) = lo * i + lo /\ hi * (i + 1) = hi * i + hi
    OBVIOUS
  <2>7. PICK x \in Nat, y \in Nat : x = lo * i /\ y = hi * i
    OBVIOUS
  <2>8. a + b \in (x + lo)..(y + hi)
    BY <2>5, <2>7
  <2> QED
    BY <2>3, <2>4, <2>6, <2>7, <2>8
<1>3. \A i \in Nat : i \in T
  <2> HIDE DEF T
  <2> QED
    BY <1>1, <1>2, Upward
<1> QED
  BY <1>3

LEMMA ConcatAt ==
  ASSUME NEW s \in Seq(Nat), NEW t \in Seq(Nat)
  PROVE  /\ \A j \in 1..Len(s) : (s \o t)[j] = s[j]
         /\ \A j \in 1..Len(t) : (s \o t)[Len(s) + j] = t[j]
<1>1. Len(s) \in Nat /\ Len(t) \in Nat /\ Len(s \o t) = Len(s) + Len(t)
  OBVIOUS
<1>2. ASSUME NEW j \in 1..Len(t) PROVE (s \o t)[Len(s) + j] = t[j]
  <2>1. Len(s) + j \in 1..(Len(s) + Len(t)) /\ ~(Len(s) + j <= Len(s)) /\ (Len(s) + j) - Len(s) = j
    BY <1>1
  <2> QED
    BY <2>1
<1> QED
  BY <1>2

(* Where the halves of pairs come to be.                                   *)
Pairs(p, n) == \A i \in 1..n : p[i] \in Seq(Nat) /\ Len(p[i]) = 2
PairsIn(w, p, n) ==
  /\ Len(w) = 2 * n
  /\ \A i \in 1..n : w[2 * i - 1] = p[i][1] /\ w[2 * i] = p[i][2]

LEMMA PairsJoined ==
  ASSUME NEW n \in Nat, NEW p, NEW f, Joins(f, p, n), Pairs(p, n)
  PROVE  PairsIn(f[n], p, n)
<1> USE DEF Pairs, PairsIn
<1>1. \A i \in 0..n : f[i] \in Seq(Nat) /\ Len(f[i]) = 2 * i
  <2>1. \A i \in 1..n : p[i] \in Seq(Nat) /\ Len(p[i]) \in 2..2
    OBVIOUS
  <2>2. \A i \in 0..n : Len(f[i]) \in (2 * i)..(2 * i)
    BY <2>1, LengthsJoined
  <2> QED
    BY <2>2 DEF Joins
<1> DEFINE Joined(k, i) == f[k][2 * i - 1] = p[i][1] /\ f[k][2 * i] = p[i][2]
           T == {k \in Nat : k \in 0..n => \A i \in 1..k : Joined(k, i)}
<1>2. 0 \in T
  OBVIOUS
<1>3. ASSUME NEW k \in Nat, k \in T PROVE k + 1 \in T
  <2>1. ASSUME k + 1 \in 0..n, NEW i \in 1..(k + 1) PROVE Joined(k + 1, i)
    <3>1. k + 1 \in 1..n /\ (k + 1) - 1 = k /\ k \in 0..n
      BY <2>1
    <3>2. f[k + 1] = f[k] \o p[k + 1] /\ f[k] \in Seq(Nat) /\ p[k + 1] \in Seq(Nat)
      BY <3>1 DEF Joins
    <3>3. PICK u \in Seq(Nat), v \in Seq(Nat) : u = f[k] /\ v = p[k + 1]
      BY <3>2
    <3>4. Len(u) = 2 * k /\ Len(v) = 2 /\ f[k + 1] = u \o v
      BY <1>1, <3>1, <3>2, <3>3
    <3>5. /\ \A j \in 1..Len(u) : (u \o v)[j] = u[j]
          /\ \A j \in 1..Len(v) : (u \o v)[Len(u) + j] = v[j]
      BY ConcatAt
    <3>6. CASE i = k + 1
      <4>1. 2 * i - 1 = 2 * k + 1 /\ 2 * i = 2 * k + 2
        BY <3>6
      <4>2. 1 \in 1..Len(v) /\ 2 \in 1..Len(v)
        BY <3>4
      <4>3. (u \o v)[Len(u) + 1] = v[1] /\ (u \o v)[Len(u) + 2] = v[2]
        BY <3>5, <4>2
      <4>4. (u \o v)[2 * k + 1] = v[1] /\ (u \o v)[2 * k + 2] = v[2]
        BY <3>4, <4>3
      <4> QED
        BY <3>3, <3>4, <3>6, <4>1, <4>4
    <3>7. CASE i # k + 1
      <4>1. i \in 1..k /\ 2 * i - 1 \in 1..(2 * k) /\ 2 * i \in 1..(2 * k)
        BY <3>7
      <4>2. (u \o v)[2 * i - 1] = u[2 * i - 1] /\ (u \o v)[2 * i] = u[2 * i]
        BY <3>4, <3>5, <4>1
      <4>3. Joined(k, i)
        BY <1>3, <3>1, <4>1
      <4> QED
        BY <3>3, <3>4, <4>2, <4>3
    <3> QED
      BY <3>6, <3>7
  <2> HIDE DEF Joined
  <2> QED
    BY <2>1
<1>4. \A k \in Nat : k \in T
  <2> HIDE DEF T
  <2> QED
    BY <1>2, <1>3, Upward
<1>5. \A i \in 1..n : Joined(n, i)
  BY <1>4
<1> QED
  BY <1>1, <1>5

(* The digits of a string.                                                 *)
Kept(c) == IF c < 64 THEN <<c>> ELSE <<>>
KeptOf(str) == [i \in 1..Len(str) |-> Kept(str[i])]

LEMMA DigitsJoin ==
  ASSUME NEW str \in Seq(Nat)
  PROVE  /\ \A i \in 1..Len(str) : KeptOf(str)[i] \in Seq(Nat) /\ Len(KeptOf(str)[i]) \in 0..1
         /\ \E f : Joins(f, KeptOf(str), Len(str)) /\ Str!Digits(str) = f[Len(str)]
<1> DEFINE n == Len(str)
<1>1. ASSUME NEW i \in 1..n PROVE KeptOf(str)[i] \in Seq(Nat) /\ Len(KeptOf(str)[i]) \in 0..1
  <2>1. PICK c \in Nat : c = str[i]
    OBVIOUS
  <2>2. KeptOf(str)[i] = Kept(c)
    BY <2>1 DEF KeptOf
  <2>3. Kept(c) \in Seq(Nat) /\ Len(Kept(c)) \in 0..1
    BY DEF Kept
  <2> QED
    BY <2>2, <2>3
<1>2. KeptOf(str) \in [1..n -> Seq(Nat)]
  <2>1. KeptOf(str) = [i \in 1..n |-> KeptOf(str)[i]]
    BY DEF KeptOf
  <2> QED
    BY <1>1, <2>1
<1>3. Str!Digits(str) = Str!FlattenSeq(KeptOf(str))
  BY Zenon DEF Str!Digits, Str!Pad, KeptOf, Kept
<1>4. n \in Nat
  OBVIOUS
<1>5. \E f : Joins(f, KeptOf(str), n) /\ Str!FlattenSeq(KeptOf(str)) = f[n]
  <2> HIDE DEF n
  <2> QED
    BY <1>2, <1>4, FlattenJoins
<1> QED
  BY <1>1, <1>3, <1>5

LEMMA DigitsLength ==
  ASSUME NEW str \in Seq(Nat)
  PROVE  /\ Len(Str!Digits(str)) \in 0..Len(str)
         /\ Len(str) > 0 /\ str[Len(str)] >= 64 => Len(Str!Digits(str)) \in 0..(Len(str) - 1)
         /\ Len(str) > 1 /\ str[Len(str)] >= 64 /\ str[Len(str) - 1] >= 64 =>
              Len(Str!Digits(str)) \in 0..(Len(str) - 2)
<1>1. PICK f : Joins(f, KeptOf(str), Len(str)) /\ Str!Digits(str) = f[Len(str)]
  BY DigitsJoin
<1>2. PICK n \in Nat : n = Len(str)
  OBVIOUS
<1>3. \A i \in 0..n : f[i] \in Seq(Nat) /\ Len(f[i]) \in 0..i
  <2>1. \A i \in 1..n : KeptOf(str)[i] \in Seq(Nat) /\ Len(KeptOf(str)[i]) \in 0..1
    BY <1>2, DigitsJoin
  <2>2. Joins(f, KeptOf(str), n)
    BY <1>1, <1>2
  <2>3. \A i \in 0..n : Len(f[i]) \in (0 * i)..(1 * i)
    BY <2>1, <2>2, LengthsJoined
  <2>4. ASSUME NEW i \in 0..n PROVE Len(f[i]) \in 0..i
    <3>1. 0 * i = 0 /\ 1 * i = i
      OBVIOUS
    <3> QED
      BY <2>3, <3>1
  <2> QED
    BY <2>2, <2>4 DEF Joins
<1>4. ASSUME NEW i \in 1..n, str[i] >= 64 PROVE f[i] = f[i - 1]
  <2>1. PICK c \in Nat : c = str[i] /\ ~(c < 64)
    BY <1>2, <1>4
  <2>2. KeptOf(str)[i] = <<>>
    BY <1>2, <2>1 DEF KeptOf, Kept
  <2>3. i - 1 \in 0..n /\ i \in 1..Len(str)
    BY <1>2
  <2>4. f[i] = f[i - 1] \o KeptOf(str)[i]
    BY <1>1, <2>3 DEF Joins
  <2>5. f[i - 1] \in Seq(Nat)
    BY <1>3, <2>3
  <2> QED
    BY <2>2, <2>4, <2>5
<1>5. Len(Str!Digits(str)) = Len(f[n]) /\ Len(f[n]) \in 0..n
  BY <1>1, <1>2, <1>3
<1>6. ASSUME n > 0, str[n] >= 64 PROVE Len(f[n]) \in 0..(n - 1)
  <2>1. n \in 1..n /\ n - 1 \in 0..n
    BY <1>6
  <2> QED
    BY <1>3, <1>4, <1>6, <2>1
<1>7. ASSUME n > 1, str[n] >= 64, str[n - 1] >= 64 PROVE Len(f[n]) \in 0..(n - 2)
  <2>1. n \in 1..n /\ n - 1 \in 1..n /\ (n - 1) - 1 = n - 2 /\ n - 2 \in 0..n
    BY <1>7
  <2>2. f[n] = f[n - 1] /\ f[n - 1] = f[n - 2]
    BY <1>4, <1>7, <2>1
  <2> QED
    BY <1>3, <2>1, <2>2
<1> QED
  BY <1>2, <1>5, <1>6, <1>7

(* Where the digits come first, they are what there is.                    *)
LEMMA DigitsFirst ==
  ASSUME NEW str \in Seq(Nat), NEW m \in 0..Len(str),
         \A i \in 1..m : str[i] < 64, \A i \in (m + 1)..Len(str) : str[i] >= 64
  PROVE  Len(Str!Digits(str)) = m /\ \A i \in 1..m : Str!Digits(str)[i] = str[i]
<1>1. PICK f : Joins(f, KeptOf(str), Len(str)) /\ Str!Digits(str) = f[Len(str)]
  BY DigitsJoin
<1>2. PICK n \in Nat : n = Len(str)
  OBVIOUS
<1> DEFINE Joined(k) == /\ Len(f[k]) = IF k <= m THEN k ELSE m
                        /\ \A i \in 1..Len(f[k]) : f[k][i] = str[i]
           T == {k \in Nat : k <= n => Joined(k)}
<1>3. 0 \in T
  BY <1>1, <1>2 DEF Joins
<1>4. ASSUME NEW k \in Nat, k \in T PROVE k + 1 \in T
  <2>1. ASSUME k + 1 <= n PROVE Joined(k + 1)
    <3>1. k + 1 \in 1..Len(str) /\ k \in 0..Len(str) /\ (k + 1) - 1 = k /\ k <= n
      BY <1>2, <2>1
    <3>2. PICK c \in Nat : c = str[k + 1]
      BY <3>1
    <3>3. PICK u \in Seq(Nat) : u = f[k]
      BY <1>1, <3>1 DEF Joins
    <3>4. f[k + 1] = u \o Kept(c)
      BY <1>1, <3>1, <3>2, <3>3 DEF Joins, KeptOf
    <3>5. Len(u) = (IF k <= m THEN k ELSE m) /\ \A i \in 1..Len(u) : u[i] = str[i]
      BY <1>4, <3>1, <3>3
    <3>6. CASE k + 1 <= m
      <4>1. k + 1 \in 1..m /\ k <= m
        BY <3>6
      <4>2. c < 64
        BY <3>2, <4>1
      <4>3. <<c>> \in Seq(Nat) /\ Len(<<c>>) = 1 /\ <<c>>[1] = c
        OBVIOUS
      <4>4. f[k + 1] = u \o <<c>>
        BY <3>4, <4>2 DEF Kept
      <4>5. Len(u) = k /\ Len(f[k + 1]) = k + 1
        BY <3>5, <4>1, <4>3, <4>4
      <4>6. ASSUME NEW i \in 1..(k + 1) PROVE f[k + 1][i] = str[i]
        <5>1. CASE i = k + 1
          <6>1. 1 \in 1..Len(<<c>>)
            BY <4>3
          <6>2. (u \o <<c>>)[Len(u) + 1] = <<c>>[1]
            BY <4>3, <6>1, ConcatAt
          <6> QED
            BY <3>2, <4>3, <4>4, <4>5, <5>1, <6>2
        <5>2. CASE i # k + 1
          <6>1. i \in 1..Len(u)
            BY <4>5, <5>2
          <6>2. (u \o <<c>>)[i] = u[i]
            BY <4>3, <6>1, ConcatAt
          <6> QED
            BY <3>5, <4>4, <6>1, <6>2
        <5> QED
          BY <5>1, <5>2
      <4> QED
        BY <3>6, <4>5, <4>6
    <3>7. CASE ~(k + 1 <= m)
      <4>1. k + 1 \in (m + 1)..Len(str)
        BY <3>1, <3>7
      <4>2. ~(c < 64)
        BY <3>2, <4>1
      <4>3. f[k + 1] = u \o <<>>
        BY <3>4, <4>2 DEF Kept
      <4>4. f[k + 1] = u
        BY <4>3
      <4>5. Len(u) = m
        BY <3>5, <3>7
      <4> QED
        BY <3>5, <3>7, <4>4, <4>5
    <3> QED
      BY <3>6, <3>7
  <2> HIDE DEF Joined
  <2> QED
    BY <2>1
<1>5. n \in T
  <2> HIDE DEF T
  <2> QED
    BY <1>3, <1>4, Upward
<1>6. Joined(n)
  <2> HIDE DEF Joined
  <2> QED
    BY <1>5
<1>7. Len(f[n]) = m
  <2>1. n <= m => n = m
    BY <1>2
  <2> QED
    BY <1>6, <2>1
<1> QED
  BY <1>1, <1>2, <1>6, <1>7

(* Where the characters are when junk has been put between them.           *)
LEMMA JunkPut ==
  ASSUME NEW str \in Seq(Nat), NEW i \in 1..Len(str)
  PROVE  /\ Str!WithJunk(str, i) \in Seq(Nat) /\ Len(Str!WithJunk(str, i)) = Len(str) + 1
         /\ \A k \in 1..(i - 1) : Str!WithJunk(str, i)[k] = str[k]
         /\ Str!WithJunk(str, i)[i] = 65
         /\ \A k \in i..Len(str) : Str!WithJunk(str, i)[k + 1] = str[k]
<1>1. PICK n \in Nat : n = Len(str) /\ i \in 1..n
  OBVIOUS
<1>2. PICK u \in Seq(Nat) : u = SubSeq(str, 1, i - 1) /\ Len(u) = i - 1 /\ \A k \in 1..(i - 1) : u[k] = str[k]
  <2>1. 1 \in 1..(n + 1) /\ i - 1 \in 0..n
    BY <1>1
  <2>2. SubSeq(str, 1, i - 1) \in Seq(Nat) /\ Len(SubSeq(str, 1, i - 1)) = i - 1
    BY <1>1, <2>1, SubSeqProperties
  <2>3. ASSUME NEW k \in 1..(i - 1) PROVE SubSeq(str, 1, i - 1)[k] = str[k]
    BY <1>1, <2>1, SubSeqProperties
  <2> QED
    BY <2>2, <2>3
<1>3. PICK v \in Seq(Nat) : v = SubSeq(str, i, n) /\ Len(v) = n - i + 1 /\ \A k \in 1..(n - i + 1) : v[k] = str[i + k - 1]
  <2>1. i \in 1..(n + 1) /\ n \in (i - 1)..n
    BY <1>1
  <2>2. SubSeq(str, i, n) \in Seq(Nat) /\ Len(SubSeq(str, i, n)) = n - i + 1
    BY <1>1, <2>1, SubSeqProperties
  <2>3. ASSUME NEW k \in 1..(n - i + 1) PROVE SubSeq(str, i, n)[k] = str[i + k - 1]
    BY <1>1, <2>1, SubSeqProperties
  <2> QED
    BY <2>2, <2>3
<1>4. <<65>> \in Seq(Nat) /\ Len(<<65>>) = 1 /\ <<65>>[1] = 65
  OBVIOUS
<1>5. PICK w \in Seq(Nat) : w = u \o <<65>> /\ Len(w) = i /\ w[i] = 65 /\ \A k \in 1..(i - 1) : w[k] = str[k]
  <2>1. u \o <<65>> \in Seq(Nat) /\ Len(u \o <<65>>) = i
    BY <1>2, <1>4
  <2>2. 1 \in 1..Len(<<65>>)
    BY <1>4
  <2>3. (u \o <<65>>)[Len(u) + 1] = 65
    BY <1>4, <2>2, ConcatAt
  <2>4. Len(u) + 1 = i
    BY <1>2
  <2>5. ASSUME NEW k \in 1..(i - 1) PROVE (u \o <<65>>)[k] = str[k]
    <3>1. k \in 1..Len(u)
      BY <1>2
    <3>2. (u \o <<65>>)[k] = u[k]
      BY <1>4, <3>1, ConcatAt
    <3> QED
      BY <1>2, <3>2
  <2>6. (u \o <<65>>)[i] = 65
    BY <2>3, <2>4
  <2>7. PICK w : w = u \o <<65>>
    OBVIOUS
  <2> QED
    BY <2>1, <2>5, <2>6, <2>7
<1>6. Str!WithJunk(str, i) = w \o v
  BY <1>1, <1>2, <1>3, <1>5, Zenon DEF Str!WithJunk, Str!Junk
<1>7. w \o v \in Seq(Nat) /\ Len(w \o v) = n + 1
  <2>1. Len(w) = i /\ Len(v) = n - i + 1
    BY <1>3, <1>5
  <2>2. Len(w \o v) = Len(w) + Len(v) /\ w \o v \in Seq(Nat)
    OBVIOUS
  <2>3. i + (n - i + 1) = n + 1
    BY <1>1
  <2> QED
    BY <2>1, <2>2, <2>3
<1>8. \A k \in 1..i : (w \o v)[k] = w[k]
  <2>1. \A k \in 1..Len(w) : (w \o v)[k] = w[k]
    BY ConcatAt
  <2>2. Len(w) = i
    BY <1>5
  <2> QED
    BY <2>1, <2>2
<1>9. ASSUME NEW k \in i..n PROVE (w \o v)[k + 1] = str[k]
  <2>1. k - i + 1 \in 1..Len(v) /\ Len(w) + (k - i + 1) = k + 1 /\ i + (k - i + 1) - 1 = k
    <3>1. Len(w) = i /\ Len(v) = n - i + 1
      BY <1>3, <1>5
    <3>2. k - i + 1 \in 1..(n - i + 1) /\ i + (k - i + 1) = k + 1 /\ i + (k - i + 1) - 1 = k
      BY <1>1
    <3> QED
      BY <3>1, <3>2
  <2>2. (w \o v)[Len(w) + (k - i + 1)] = v[k - i + 1]
    BY <2>1, ConcatAt
  <2>3. v[k - i + 1] = str[i + (k - i + 1) - 1]
    BY <1>3, <2>1
  <2> QED
    BY <2>1, <2>2, <2>3
<1>10. \A k \in 1..(i - 1) : (w \o v)[k] = str[k]
  <2> SUFFICES ASSUME NEW k \in 1..(i - 1) PROVE (w \o v)[k] = str[k]
    OBVIOUS
  <2>1. k \in 1..i
    BY <1>1
  <2> QED
    BY <1>5, <1>8, <2>1
<1>11. (w \o v)[i] = 65
  <2>1. i \in 1..i
    BY <1>1
  <2> QED
    BY <1>5, <1>8, <2>1
<1> QED
  BY <1>1, <1>6, <1>7, <1>9, <1>10, <1>11

(* Junk is no digit.                                                       *)
LEMMA JunkSkipped ==
  ASSUME NEW str \in Seq(Nat), NEW i \in 1..Len(str)
  PROVE  Str!Digits(Str!WithJunk(str, i)) = Str!Digits(str)
<1>1. PICK n \in Nat : n = Len(str) /\ i \in 1..n
  OBVIOUS
<1>2. PICK w \in Seq(Nat) : /\ w = Str!WithJunk(str, i) /\ Len(w) = n + 1
                            /\ \A k \in 1..(i - 1) : w[k] = str[k]
                            /\ w[i] = 65
                            /\ \A k \in i..n : w[k + 1] = str[k]
  <2>1. PICK w : w = Str!WithJunk(str, i)
    OBVIOUS
  <2>2. w \in Seq(Nat) /\ Len(w) = n + 1
    BY <1>1, <2>1, JunkPut
  <2>3. \A k \in 1..(i - 1) : w[k] = str[k]
    <3>1. \A k \in 1..(i - 1) : Str!WithJunk(str, i)[k] = str[k]
      BY JunkPut
    <3> QED
      BY <2>1, <3>1
  <2>5. w[i] = 65
    BY <2>1, JunkPut
  <2>4. \A k \in i..n : w[k + 1] = str[k]
    BY <1>1, <2>1, JunkPut
  <2> QED
    BY <2>1, <2>2, <2>3, <2>4, <2>5
<1>3. PICK f : Joins(f, KeptOf(str), n) /\ Str!Digits(str) = f[n]
  BY <1>1, DigitsJoin
<1>4. PICK g : Joins(g, KeptOf(w), n + 1) /\ Str!Digits(w) = g[n + 1]
  <2>1. PICK g : Joins(g, KeptOf(w), Len(w)) /\ Str!Digits(w) = g[Len(w)]
    BY DigitsJoin
  <2>2. Len(w) = n + 1
    BY <1>2
  <2> QED
    BY <2>1, <2>2
<1>5. \A k \in 1..(i - 1) : KeptOf(w)[k] = KeptOf(str)[k]
  BY <1>1, <1>2 DEF KeptOf
<1>6. KeptOf(w)[i] = <<>>
  BY <1>1, <1>2 DEF KeptOf, Kept
<1>7. \A k \in i..n : KeptOf(w)[k + 1] = KeptOf(str)[k]
  BY <1>1, <1>2 DEF KeptOf
<1>8. \A k \in 0..n : f[k] \in Seq(Nat)
  BY <1>3 DEF Joins
<1>9. ASSUME NEW k \in 1..n PROVE f[k] = f[k - 1] \o KeptOf(str)[k]
  BY <1>3 DEF Joins
<1>10. ASSUME NEW k \in 1..(n + 1) PROVE g[k] = g[k - 1] \o KeptOf(w)[k]
  BY <1>4 DEF Joins
<1> DEFINE Before(k) == k < i => g[k] = f[k]
           Follow(k) == k >= i - 1 => g[k + 1] = f[k]
           T == {k \in Nat : k <= n => Before(k) /\ Follow(k)}
<1>11. ASSUME NEW k \in 0..n, k = i - 1, g[k] = f[k] PROVE g[k + 1] = f[k]
  <2>1. k + 1 \in 1..(n + 1) /\ (k + 1) - 1 = k /\ k + 1 = i
    BY <1>1, <1>11
  <2>2. g[k + 1] = g[k] \o <<>>
    BY <1>6, <1>10, <2>1
  <2>3. f[k] \o <<>> = f[k]
    BY <1>8
  <2> QED
    BY <1>11, <2>2, <2>3
<1>12. 0 \in T
  <2>1. g[0] = f[0] /\ 0 \in 0..n
    BY <1>3, <1>4 DEF Joins
  <2>2. 0 >= i - 1 => 0 = i - 1
    BY <1>1
  <2>3. 0 >= i - 1 => g[0 + 1] = f[0]
    BY <1>11, <2>1, <2>2
  <2> QED
    BY <2>1, <2>3
<1>13. ASSUME NEW k \in Nat, k \in T PROVE k + 1 \in T
  <2>1. ASSUME k + 1 <= n PROVE Before(k + 1)
    <3> SUFFICES ASSUME k + 1 < i PROVE g[k + 1] = f[k + 1]
      OBVIOUS
    <3>1. k + 1 \in 1..(i - 1) /\ k + 1 \in 1..n /\ k + 1 \in 1..(n + 1) /\ (k + 1) - 1 = k
      BY <1>1, <2>1
    <3>2. g[k] = f[k]
      BY <1>13, <2>1
    <3> QED
      BY <1>5, <1>9, <1>10, <3>1, <3>2
  <2>2. ASSUME k + 1 <= n PROVE Follow(k + 1)
    <3> SUFFICES ASSUME k + 1 >= i - 1 PROVE g[(k + 1) + 1] = f[k + 1]
      OBVIOUS
    <3>1. CASE k + 1 = i - 1
      <4>1. k + 1 \in 0..n /\ k + 1 < i
        BY <1>1, <2>2, <3>1
      <4>2. g[k + 1] = f[k + 1]
        BY <2>1, <2>2, <4>1
      <4> QED
        BY <1>11, <3>1, <4>1, <4>2
    <3>2. CASE k + 1 # i - 1
      <4>1. k + 1 \in i..n /\ k + 1 \in 1..n /\ (k + 1) + 1 \in 1..(n + 1) /\ (k + 1) - 1 = k /\ ((k + 1) + 1) - 1 = k + 1
        BY <1>1, <2>2, <3>2
      <4>2. g[k + 1] = f[k]
        BY <1>1, <1>13, <2>2, <3>2
      <4>3. g[(k + 1) + 1] = g[k + 1] \o KeptOf(w)[(k + 1) + 1]
        BY <1>10, <4>1
      <4>4. KeptOf(w)[(k + 1) + 1] = KeptOf(str)[k + 1]
        BY <1>7, <4>1
      <4>5. f[k + 1] = f[k] \o KeptOf(str)[k + 1]
        BY <1>9, <4>1
      <4> QED
        BY <4>2, <4>3, <4>4, <4>5
    <3> QED
      BY <3>1, <3>2
  <2> HIDE DEF Before, Follow
  <2> QED
    BY <2>1, <2>2
<1>14. n \in T
  <2> HIDE DEF T
  <2> QED
    BY <1>12, <1>13, Upward
<1>15. n >= i - 1
  BY <1>1
<1>16. g[n + 1] = f[n]
  BY <1>14, <1>15
<1> QED
  BY <1>2, <1>3, <1>4, <1>16

(* base64_encode: four characters for each three bytes.                    *)
ByteAt(src, i) == IF i <= Len(src) THEN src[i] ELSE 0
Groups(src) == (Len(src) + 2) \div 3

LEMMA Quarters ==
  ASSUME NEW g \in Nat
  PROVE  /\ (4 * g) \div 4 = g /\ (4 * g) % 4 = 0
         /\ (4 * g + 1) \div 4 = g /\ (4 * g + 1) % 4 = 1
         /\ (4 * g + 2) \div 4 = g /\ (4 * g + 2) % 4 = 2
         /\ (4 * g + 3) \div 4 = g /\ (4 * g + 3) % 4 = 3
OBVIOUS

LEMMA Thirds ==
  ASSUME NEW g \in Nat
  PROVE  /\ (3 * g) \div 3 = g /\ (3 * g) % 3 = 0
         /\ (3 * g + 1) \div 3 = g /\ (3 * g + 1) % 3 = 1
         /\ (3 * g + 2) \div 3 = g /\ (3 * g + 2) % 3 = 2
OBVIOUS

LEMMA BytesAt ==
  ASSUME NEW src \in Seq(0..255), NEW i \in Nat \ {0}
  PROVE  ByteAt(src, i) \in 0..255 /\ (i <= Len(src) => ByteAt(src, i) = src[i])
<1>1. CASE i <= Len(src)
  <2>1. i \in 1..Len(src)
    BY <1>1
  <2>2. PICK S : S = 0..255
    OBVIOUS
  <2>3. src \in Seq(S)
    BY <2>2
  <2>4. src[i] \in S
    BY <2>1, <2>3
  <2> QED
    BY <1>1, <2>2, <2>4 DEF ByteAt
<1>2. CASE ~(i <= Len(src))
  BY <1>2 DEF ByteAt
<1> QED
  BY <1>1, <1>2

FourOf(e, src, g) ==
  /\ e[4 * g + 1] = ByteAt(src, 3 * g + 1) \div 4
  /\ e[4 * g + 2] = (ByteAt(src, 3 * g + 1) % 4) * 16 + ByteAt(src, 3 * g + 2) \div 16
  /\ e[4 * g + 3] = IF 3 * g + 2 > Len(src) THEN 64
                    ELSE (ByteAt(src, 3 * g + 2) % 16) * 4 + ByteAt(src, 3 * g + 3) \div 64
  /\ e[4 * g + 4] = IF 3 * g + 3 > Len(src) THEN 64 ELSE ByteAt(src, 3 * g + 3) % 64

LEMMA EncodedInFours ==
  ASSUME NEW src \in Seq(0..255)
  PROVE  /\ Len(Str!base64_encode(src)) = 4 * Groups(src)
         /\ \A g \in 0..(Groups(src) - 1) : FourOf(Str!base64_encode(src), src, g)
         /\ Str!base64_encode(src) = [k \in 1..(4 * Groups(src)) |-> Str!base64_encode(src)[k]]
<1> DEFINE first(g) == ByteAt(src, 3 * g + 1) \div 4
           second(g) == (ByteAt(src, 3 * g + 1) % 4) * 16 + ByteAt(src, 3 * g + 2) \div 16
           third(g) == IF 3 * g + 2 > Len(src) THEN 64
                       ELSE (ByteAt(src, 3 * g + 2) % 16) * 4 + ByteAt(src, 3 * g + 3) \div 64
           fourth(g) == IF 3 * g + 3 > Len(src) THEN 64 ELSE ByteAt(src, 3 * g + 3) % 64
           char(g, j) == CASE j = 0 -> first(g)
                           [] j = 1 -> second(g)
                           [] j = 2 -> third(g)
                           [] j = 3 -> fourth(g)
           e == [k \in 1..(4 * Groups(src)) |-> char((k - 1) \div 4, (k - 1) % 4)]
<1>1. Str!base64_encode(src) = e
  BY Zenon DEF Str!base64_encode, ByteAt, Groups, Str!Pad
<1>2. Groups(src) \in Nat
  <2>1. Len(src) \in Nat
    OBVIOUS
  <2> QED
    BY <2>1 DEF Groups
<1>3. Len(e) = 4 * Groups(src)
  <2> HIDE DEF char
  <2> QED
    BY <1>2
<1>4. ASSUME NEW g \in 0..(Groups(src) - 1)
      PROVE  e[4 * g + 1] = char(g, 0) /\ e[4 * g + 2] = char(g, 1) /\ e[4 * g + 3] = char(g, 2) /\ e[4 * g + 4] = char(g, 3)
  <2>1. PICK m \in Nat : m = Groups(src)
    BY <1>2
  <2>2. g \in Nat /\ 4 * g + 1 \in 1..(4 * m) /\ 4 * g + 2 \in 1..(4 * m) /\ 4 * g + 3 \in 1..(4 * m) /\ 4 * g + 4 \in 1..(4 * m)
    BY <2>1
  <2>3. (4 * g + 1) - 1 = 4 * g /\ (4 * g + 2) - 1 = 4 * g + 1 /\ (4 * g + 3) - 1 = 4 * g + 2 /\ (4 * g + 4) - 1 = 4 * g + 3
    BY <2>2
  <2>4. \A k \in 1..(4 * m) : e[k] = char((k - 1) \div 4, (k - 1) % 4)
    <3> HIDE DEF char
    <3> QED
      BY <2>1
  <2> HIDE DEF char, e
  <2> QED
    BY <2>2, <2>3, <2>4, Quarters
<1>5. \A g : char(g, 0) = first(g) /\ char(g, 1) = second(g) /\ char(g, 2) = third(g) /\ char(g, 3) = fourth(g)
  <2> HIDE DEF first, second, third, fourth
  <2> QED
    OBVIOUS
<1>6. e = [k \in 1..(4 * Groups(src)) |-> e[k]]
  <2> HIDE DEF char
  <2> QED
    OBVIOUS
<1>7. ASSUME NEW g \in 0..(Groups(src) - 1)
      PROVE  FourOf(e, src, g)
  <2>1. e[4 * g + 1] = first(g) /\ e[4 * g + 2] = second(g) /\ e[4 * g + 3] = third(g) /\ e[4 * g + 4] = fourth(g)
    <3> HIDE DEF char, e, first, second, third, fourth
    <3> QED
      BY <1>4, <1>5
  <2> HIDE DEF e
  <2> QED
    BY <2>1, Zenon DEF FourOf
<1> HIDE DEF char, e
<1> QED
  BY <1>1, <1>3, <1>6, <1>7

(* base64_decode: three bytes for each four digits.                        *)
ThreeOf(b, d, g, i) ==
  /\ i = 3 * g + 1 => b[i] = (d[4 * g + 1] * 4 + d[4 * g + 2] \div 16) % 256
  /\ i = 3 * g + 2 => b[i] = (d[4 * g + 2] % 16) * 16 + d[4 * g + 3] \div 4
  /\ i = 3 * g + 3 => b[i] = (d[4 * g + 3] % 4) * 64 + d[4 * g + 4]

LEMMA DecodedInThrees ==
  ASSUME NEW str, Len(Str!Digits(str)) \in Nat, NEW len \in Nat
  PROVE  /\ Len(Str!base64_decode(str, len)) = Str!Least(len, (3 * Len(Str!Digits(str))) \div 4)
         /\ \A g \in Nat, i \in 1..Str!Least(len, (3 * Len(Str!Digits(str))) \div 4) :
              ThreeOf(Str!base64_decode(str, len), Str!Digits(str), g, i)
         /\ Str!base64_decode(str, len) =
              [i \in 1..Str!Least(len, (3 * Len(Str!Digits(str))) \div 4) |-> Str!base64_decode(str, len)[i]]
<1> DEFINE d == Str!Digits(str)
           byte(q, j) == CASE j = 0 -> (d[q + 1] * 4 + d[q + 2] \div 16) % 256
                           [] j = 1 -> (d[q + 2] % 16) * 16 + d[q + 3] \div 4
                           [] j = 2 -> (d[q + 3] % 4) * 64 + d[q + 4]
           n == Str!Least(len, (3 * Len(d)) \div 4)
           b == [i \in 1..n |-> byte(4 * ((i - 1) \div 3), (i - 1) % 3)]
<1>1. Str!base64_decode(str, len) = b
  BY Zenon DEF Str!base64_decode
<1>2. n \in Nat
  BY DEF Str!Least
<1>3. Len(b) = n
  <2> HIDE DEF byte, n
  <2> QED
    BY <1>2
<1>4. \A i \in 1..n : b[i] = byte(4 * ((i - 1) \div 3), (i - 1) % 3)
  <2> HIDE DEF byte, n
  <2> QED
    OBVIOUS
<1>5. \A q : /\ byte(q, 0) = (d[q + 1] * 4 + d[q + 2] \div 16) % 256
            /\ byte(q, 1) = (d[q + 2] % 16) * 16 + d[q + 3] \div 4
            /\ byte(q, 2) = (d[q + 3] % 4) * 64 + d[q + 4]
  OBVIOUS
<1>6. ASSUME NEW g \in Nat, NEW i \in 1..n
      PROVE  /\ i = 3 * g + 1 => b[i] = byte(4 * g, 0)
             /\ i = 3 * g + 2 => b[i] = byte(4 * g, 1)
             /\ i = 3 * g + 3 => b[i] = byte(4 * g, 2)
  <2>1. /\ i = 3 * g + 1 => i - 1 = 3 * g
        /\ i = 3 * g + 2 => i - 1 = 3 * g + 1
        /\ i = 3 * g + 3 => i - 1 = 3 * g + 2
    OBVIOUS
  <2> HIDE DEF byte, n, b
  <2> QED
    BY <1>4, <2>1, Thirds
<1>7. ASSUME NEW g \in Nat, NEW i \in 1..n
      PROVE  /\ i = 3 * g + 1 => b[i] = (d[4 * g + 1] * 4 + d[4 * g + 2] \div 16) % 256
             /\ i = 3 * g + 2 => b[i] = (d[4 * g + 2] % 16) * 16 + d[4 * g + 3] \div 4
             /\ i = 3 * g + 3 => b[i] = (d[4 * g + 3] % 4) * 64 + d[4 * g + 4]
  <2> HIDE DEF byte, b, d, n
  <2> QED
    BY <1>5, <1>6
<1>8. \A g \in Nat, i \in 1..n : ThreeOf(b, d, g, i)
  <2> HIDE DEF byte, b, d, n
  <2> QED
    BY <1>7, Zenon DEF ThreeOf
<1>9. b = [i \in 1..n |-> b[i]]
  <2> HIDE DEF byte, n
  <2> QED
    OBVIOUS
<1> HIDE DEF byte, b
<1> QED
  BY <1>1, <1>3, <1>8, <1>9

(* What is read of the characters of three bytes is the bytes.             *)
BytesBack(x, y, z) ==
  /\ x \div 4 \in 0..63 /\ (x % 4) * 16 + y \div 16 \in 0..63
  /\ (y % 16) * 4 + z \div 64 \in 0..63 /\ z % 64 \in 0..63
  /\ ((x \div 4) * 4 + ((x % 4) * 16 + y \div 16) \div 16) % 256 = x
  /\ (((x % 4) * 16 + y \div 16) % 16) * 16 + ((y % 16) * 4 + z \div 64) \div 4 = y
  /\ (((y % 16) * 4 + z \div 64) % 4) * 64 + (z % 64) = z

LEMMA ThreeBytesBack ==
  ASSUME NEW x \in 0..255, NEW y \in 0..255, NEW z \in 0..255
  PROVE  BytesBack(x, y, z)
<1>1. PICK a \in 0..63, b \in 0..3 : x = 4 * a + b /\ a = x \div 4 /\ b = x % 4
  OBVIOUS
<1>2. PICK c \in 0..15, e \in 0..15 : y = 16 * c + e /\ c = y \div 16 /\ e = y % 16
  OBVIOUS
<1>3. PICK g \in 0..3, h \in 0..63 : z = 64 * g + h /\ g = z \div 64 /\ h = z % 64
  OBVIOUS
<1>4. b * 16 + c \in 0..63 /\ e * 4 + g \in 0..63
  OBVIOUS
<1>5. (b * 16 + c) \div 16 = b /\ (b * 16 + c) % 16 = c
  OBVIOUS
<1>6. (e * 4 + g) \div 4 = e /\ (e * 4 + g) % 4 = g
  OBVIOUS
<1>7. (a * 4 + b) % 256 = x
  BY <1>1
<1>8. (x % 4) * 16 + y \div 16 = b * 16 + c /\ (y % 16) * 4 + z \div 64 = e * 4 + g
  BY <1>1, <1>2, <1>3
<1>9. x \div 4 \in 0..63 /\ z % 64 \in 0..63
  BY <1>1, <1>3
<1>10. ((x \div 4) * 4 + ((x % 4) * 16 + y \div 16) \div 16) % 256 = x
  BY <1>1, <1>5, <1>7, <1>8
<1>11. (((x % 4) * 16 + y \div 16) % 16) * 16 + ((y % 16) * 4 + z \div 64) \div 4 = y
  BY <1>2, <1>5, <1>6, <1>8
<1>12. (((y % 16) * 4 + z \div 64) % 4) * 64 + (z % 64) = z
  BY <1>3, <1>6, <1>8
<1> QED
  BY <1>4, <1>8, <1>9, <1>10, <1>11, <1>12 DEF BytesBack

LEMMA SeqsAre ==
  ASSUME NEW S, NEW n \in Nat, NEW s \in Str!Seqs(S, n)
  PROVE  /\ s \in Seq(S) /\ Len(s) \in 0..n /\ \A i \in 1..Len(s) : s[i] \in S
         /\ s = [i \in 1..Len(s) |-> s[i]]
<1>1. PICK m \in 0..n : s \in [1..m -> S]
  BY DEF Str!Seqs
<1>2. s \in Seq(S) /\ Len(s) = m
  BY <1>1
<1> QED
  BY <1>1, <1>2

(* Binary: each byte is the character of its code.                         *)
LEMMA BinaryBack ==
  ASSUME NEW n \in Nat, NEW src \in Str!Seqs(0..255, n)
  PROVE  Str!Write("binary", src, Len(src)) = src
<1>1. PICK m \in Nat : m = Len(src) /\ src = [i \in 1..m |-> src[i]] /\ \A i \in 1..m : src[i] \in 0..255
  BY SeqsAre
<1>2. Str!Least(m, m) = m
  BY DEF Str!Least
<1>3. Str!Write("binary", src, m) = [i \in 1..m |-> src[i] % 256]
  BY <1>1, <1>2 DEF Str!Write
<1>4. \A i \in 1..m : src[i] % 256 = src[i]
  <2> TAKE i \in 1..m
  <2>1. PICK b \in 0..255 : b = src[i]
    BY <1>1
  <2>2. b % 256 = b
    OBVIOUS
  <2> QED
    BY <2>1, <2>2
<1>5. [i \in 1..m |-> src[i] % 256] = [i \in 1..m |-> src[i]]
  BY <1>4
<1> QED
  BY <1>1, <1>3, <1>5

(* Hexadecimal: as far as every pair is of two digits.                     *)
GoodPair(str, i) == str[2 * i - 1] < 16 /\ str[2 * i] < 16

LEMMA HexWhenGood ==
  ASSUME NEW src \in Seq(Nat), NEW len \in Nat,
         \A i \in 1..Str!Least(len, Len(src) \div 2) : GoodPair(src, i)
  PROVE  Str!hex_decode(src, len) =
           [i \in 1..Str!Least(len, Len(src) \div 2) |-> src[2 * i - 1] * 16 + src[2 * i]]
<1> DEFINE most == Str!Least(len, Len(src) \div 2)
           n == CHOOSE m \in 0..most : /\ \A i \in 1..m : GoodPair(src, i)
                                       /\ m = most \/ ~GoodPair(src, m + 1)
<1>1. Str!hex_decode(src, len) = [i \in 1..n |-> src[2 * i - 1] * 16 + src[2 * i]]
  BY Zenon DEF Str!hex_decode, GoodPair
<1>2. most \in Nat
  BY DEF Str!Least
<1>4. \A i \in 1..most : GoodPair(src, i)
  OBVIOUS
<1>3. n = most
  <2>1. \E m \in 0..most : /\ \A i \in 1..m : GoodPair(src, i)
                           /\ m = most \/ ~GoodPair(src, m + 1)
    <3> HIDE DEF most
    <3>1. most \in 0..most
      BY <1>2
    <3> QED
      BY <1>4, <3>1
  <2>2. n \in 0..most /\ (n = most \/ ~GoodPair(src, n + 1))
    <3> HIDE DEF most
    <3> QED
      BY <2>1, Zenon
  <2> HIDE DEF n, most
  <2>3. n # most => n + 1 \in 1..most
    BY <1>2, <2>2
  <2>4. \A i \in 1..most : GoodPair(src, i)
    BY DEF most
  <2> QED
    BY <2>2, <2>3, <2>4
<1> HIDE DEF n
<1> QED
  BY <1>1, <1>3

LEMMA HexDecodes ==
  ASSUME NEW src \in Seq(Nat), NEW len \in Nat
  PROVE  /\ Len(Str!hex_decode(src, len)) \in 0..Str!Least(len, Len(src) \div 2)
         /\ \A l \in Nat : Str!Least(l, Len(src) \div 2) = Str!Least(len, Len(src) \div 2) =>
              Str!hex_decode(src, l) = Str!hex_decode(src, len)
<1> DEFINE most == Str!Least(len, Len(src) \div 2)
           n == CHOOSE m \in 0..most : /\ \A i \in 1..m : GoodPair(src, i)
                                       /\ m = most \/ ~GoodPair(src, m + 1)
<1>1. Str!hex_decode(src, len) = [i \in 1..n |-> src[2 * i - 1] * 16 + src[2 * i]]
  BY Zenon DEF Str!hex_decode, GoodPair
<1>2. most \in Nat
  BY DEF Str!Least
<1>3. \E m \in 0..most : /\ \A i \in 1..m : GoodPair(src, i)
                         /\ m = most \/ ~GoodPair(src, m + 1)
  <2> HIDE DEF most
  <2> DEFINE T == {k \in Nat : k <= most => \/ \A i \in 1..k : GoodPair(src, i)
                                            \/ \E m \in 0..(k - 1) : /\ \A i \in 1..m : GoodPair(src, i)
                                                                     /\ ~GoodPair(src, m + 1)}
  <2>1. 0 \in T
    OBVIOUS
  <2>2. ASSUME NEW k \in Nat, k \in T PROVE k + 1 \in T
    <3> SUFFICES ASSUME k + 1 <= most
                 PROVE  \/ \A i \in 1..(k + 1) : GoodPair(src, i)
                        \/ \E m \in 0..k : /\ \A i \in 1..m : GoodPair(src, i)
                                           /\ ~GoodPair(src, m + 1)
      OBVIOUS
    <3>1. CASE \A i \in 1..k : GoodPair(src, i)
      <4>1. CASE GoodPair(src, k + 1)
        <5>1. \A i \in 1..(k + 1) : i = k + 1 \/ i \in 1..k
          OBVIOUS
        <5> QED
          BY <3>1, <4>1, <5>1
      <4>2. CASE ~GoodPair(src, k + 1)
        <5>1. k \in 0..k
          OBVIOUS
        <5> QED
          BY <3>1, <4>2, <5>1
      <4> QED
        BY <4>1, <4>2
    <3>2. CASE \E m \in 0..(k - 1) : (\A i \in 1..m : GoodPair(src, i)) /\ ~GoodPair(src, m + 1)
      <4>1. \A m \in 0..(k - 1) : m \in 0..k
        OBVIOUS
      <4> QED
        BY <3>2, <4>1
    <3> QED
      BY <2>2, <3>1, <3>2, <1>2
  <2>3. \A k \in Nat : k \in T
    <3> HIDE DEF T
    <3> QED
      BY <2>1, <2>2, Upward
  <2>4. CASE \A i \in 1..most : GoodPair(src, i)
    <3>1. most \in 0..most
      BY <1>2
    <3> QED
      BY <2>4, <3>1
  <2>5. CASE \E m \in 0..(most - 1) : (\A i \in 1..m : GoodPair(src, i)) /\ ~GoodPair(src, m + 1)
    <3>1. \A m \in 0..(most - 1) : m \in 0..most
      BY <1>2
    <3> QED
      BY <2>5, <3>1
  <2>6. most \in T
    BY <1>2, <2>3
  <2> QED
    BY <1>2, <2>4, <2>5, <2>6
<1>4. n \in 0..most
  <2> HIDE DEF most
  <2> QED
    BY <1>3, Zenon
<1>5. ASSUME NEW l \in Nat, Str!Least(l, Len(src) \div 2) = most
      PROVE  Str!hex_decode(src, l) = Str!hex_decode(src, len)
  <2> DEFINE most2 == Str!Least(l, Len(src) \div 2)
             n2 == CHOOSE m \in 0..most2 : /\ \A i \in 1..m : GoodPair(src, i)
                                           /\ m = most2 \/ ~GoodPair(src, m + 1)
  <2>1. Str!hex_decode(src, l) = [i \in 1..n2 |-> src[2 * i - 1] * 16 + src[2 * i]]
    BY Zenon DEF Str!hex_decode, GoodPair
  <2>2. most2 = most
    BY <1>5
  <2>3. n2 = n
    <3> HIDE DEF most2, most
    <3> QED
      BY <2>2
  <2> HIDE DEF n, n2
  <2> QED
    BY <1>1, <2>1, <2>3
<1>6. Len(Str!hex_decode(src, len)) = n
  <2> HIDE DEF most
  <2>1. n \in Nat
    BY <1>2, <1>4
  <2> HIDE DEF n
  <2> QED
    BY <1>1, <2>1
<1> HIDE DEF n
<1> QED
  BY <1>4, <1>5, <1>6

LEMMA Halves ==
  ASSUME NEW i \in Nat
  PROVE  /\ (2 * i) \div 2 = i /\ (2 * i) % 2 = 0
         /\ (2 * i + 1) \div 2 = i /\ (2 * i + 1) % 2 = 1
OBVIOUS

LEMMA HexBack ==
  ASSUME NEW n \in Nat, NEW src \in Str!Seqs(0..255, n)
  PROVE  /\ Str!hex_encode(src) \in Seq(Nat)
         /\ Str!Write("hex", Str!hex_encode(src), Str!Size("hex", Str!hex_encode(src))) = src
<1>1. PICK m \in Nat : m = Len(src) /\ src = [i \in 1..m |-> src[i]] /\ \A i \in 1..m : src[i] \in 0..255
  BY SeqsAre
<1> DEFINE e == [k \in 1..(2 * m) |-> IF k % 2 = 1 THEN src[(k + 1) \div 2] \div 16 ELSE src[k \div 2] % 16]
<1>2. Str!hex_encode(src) = e
  BY <1>1, Zenon DEF Str!hex_encode
<1>3. ASSUME NEW i \in 1..m
      PROVE  /\ 2 * i - 1 \in 1..(2 * m) /\ 2 * i \in 1..(2 * m)
             /\ e[2 * i - 1] = src[i] \div 16 /\ e[2 * i] = src[i] % 16
  <2>1. 2 * i - 1 \in 1..(2 * m) /\ 2 * i \in 1..(2 * m)
    OBVIOUS
  <2>2. (2 * i - 1) % 2 = 1 /\ ((2 * i - 1) + 1) \div 2 = i /\ (2 * i) % 2 = 0 /\ (2 * i) \div 2 = i
    OBVIOUS
  <2> QED
    BY <2>1, <2>2
<1>4. ASSUME NEW k \in 1..(2 * m) PROVE e[k] \in Nat
  <2>1. PICK i \in 1..m : k = 2 * i - 1 \/ k = 2 * i
    <3>1. (k + 1) \div 2 \in 1..m /\ (k = 2 * ((k + 1) \div 2) - 1 \/ k = 2 * ((k + 1) \div 2))
      OBVIOUS
    <3> QED
      BY <3>1
  <2>2. PICK b \in 0..255 : b = src[i]
    BY <1>1
  <2>3. b \div 16 \in Nat /\ b % 16 \in Nat
    OBVIOUS
  <2> HIDE DEF e
  <2> QED
    BY <1>3, <2>1, <2>2, <2>3
<1>5. e \in Seq(Nat) /\ Len(e) = 2 * m
  <2>1. e = [k \in 1..(2 * m) |-> e[k]]
    OBVIOUS
  <2> HIDE DEF e
  <2> QED
    BY <1>4, <2>1
<1>6. Len(e) \div 2 = m /\ Str!Least(m, Len(e) \div 2) = m
  <2>1. Len(e) \div 2 = m
    BY <1>5, Halves
  <2> HIDE DEF e
  <2> QED
    BY <2>1 DEF Str!Least
<1>7. ASSUME NEW i \in 1..m
      PROVE  GoodPair(e, i) /\ e[2 * i - 1] * 16 + e[2 * i] = src[i]
  <2>1. PICK b \in 0..255 : b = src[i]
    BY <1>1
  <2>2. b \div 16 < 16 /\ b % 16 < 16 /\ (b \div 16) * 16 + (b % 16) = b
    OBVIOUS
  <2> HIDE DEF e
  <2> QED
    BY <1>3, <2>1, <2>2 DEF GoodPair
<1> HIDE DEF e
<1>8. Str!hex_decode(e, m) = [i \in 1..m |-> e[2 * i - 1] * 16 + e[2 * i]]
  BY <1>5, <1>6, <1>7, HexWhenGood
<1>9. Str!hex_decode(e, m) = [i \in 1..m |-> src[i]]
  BY <1>7, <1>8
<1>10. Str!Write("hex", e, m) = Str!hex_decode(e, m) /\ Str!Size("hex", e) = m
  BY <1>6 DEF Str!Write, Str!Size
<1> QED
  BY <1>1, <1>2, <1>5, <1>9, <1>10

(* UCS-2: two bytes for each character, the last of an odd number lost.    *)
LEMMA PairsBack ==
  ASSUME NEW n \in Nat, NEW src \in Str!Seqs(0..255, n)
  PROVE  /\ Str!EncodeAs("ucs2", src, 0) \in Seq(Nat)
         /\ Str!Write("ucs2", Str!EncodeAs("ucs2", src, 0), Len(Str!EncodeAs("ucs2", src, 0))) = Str!Even(src)
<1>1. PICK m \in Nat : m = Len(src) /\ src \in Seq(0..255) /\ src = [i \in 1..m |-> src[i]] /\ \A i \in 1..m : src[i] \in 0..255
  BY SeqsAre
<1>2. PICK h \in Nat : h = m \div 2
  OBVIOUS
<1> DEFINE e == [i \in 1..h |-> src[2 * i - 1] + 256 * src[2 * i]]
<1>3. Str!EncodeAs("ucs2", src, 0) = e
  BY <1>1, <1>2 DEF Str!EncodeAs
<1>4. ASSUME NEW i \in 1..h
      PROVE  e[i] \in Nat /\ e[i] % 256 = src[2 * i - 1] /\ e[i] \div 256 = src[2 * i]
  <2>1. 2 * i - 1 \in 1..m /\ 2 * i \in 1..m
    BY <1>2
  <2>2. PICK a \in 0..255, b \in 0..255 : a = src[2 * i - 1] /\ b = src[2 * i]
    BY <1>1, <2>1
  <2>3. PICK c \in Nat : c = a + 256 * b
    OBVIOUS
  <2>4. c % 256 = a /\ c \div 256 = b
    BY <2>3
  <2>5. e[i] = c
    BY <2>2, <2>3
  <2> HIDE DEF e
  <2> QED
    BY <2>2, <2>4, <2>5
<1>5. e \in Seq(Nat) /\ Len(e) = h
  <2>1. e = [i \in 1..h |-> e[i]]
    OBVIOUS
  <2> HIDE DEF e
  <2> QED
    BY <1>4, <2>1
<1> HIDE DEF e
<1> DEFINE p == [i \in 1..h |-> <<e[i] % 256, e[i] \div 256>>]
<1>6. Str!Write("ucs2", e, Len(e)) = Str!FlattenSeq(p)
  <2>1. Str!Least(Len(e), Len(e)) = h
    BY <1>5 DEF Str!Least
  <2> QED
    BY <2>1 DEF Str!Write
<1>7. \A i \in 1..h : /\ p[i] \in Seq(Nat) /\ Len(p[i]) = 2
                      /\ p[i][1] = src[2 * i - 1] /\ p[i][2] = src[2 * i]
  <2> TAKE i \in 1..h
  <2>1. PICK a \in Nat, b \in Nat : a = e[i] % 256 /\ b = e[i] \div 256 /\ a = src[2 * i - 1] /\ b = src[2 * i]
    <3>1. PICK c \in Nat : c = e[i]
      BY <1>4
    <3>2. c % 256 \in Nat /\ c \div 256 \in Nat
      OBVIOUS
    <3> QED
      BY <1>4, <3>1, <3>2
  <2>2. p[i] = <<a, b>>
    BY <2>1
  <2>3. <<a, b>> \in Seq(Nat) /\ Len(<<a, b>>) = 2 /\ <<a, b>>[1] = a /\ <<a, b>>[2] = b
    OBVIOUS
  <2> HIDE DEF p
  <2> QED
    BY <2>1, <2>2, <2>3
<1>8. p \in [1..h -> Seq(Nat)]
  <2>1. p = [i \in 1..h |-> p[i]]
    OBVIOUS
  <2> HIDE DEF p
  <2> QED
    BY <1>7, <2>1
<1> HIDE DEF p
<1>9. PICK f : Joins(f, p, h) /\ Str!FlattenSeq(p) = f[h]
  BY <1>8, FlattenJoins
<1>10. Len(f[h]) = 2 * h /\ f[h] \in Seq(Nat)
       /\ \A i \in 1..h : f[h][2 * i - 1] = src[2 * i - 1] /\ f[h][2 * i] = src[2 * i]
  <2>1. f[h] \in Seq(Nat)
    BY <1>9 DEF Joins
  <2>2. Pairs(p, h)
    BY <1>7 DEF Pairs
  <2>3. PairsIn(f[h], p, h)
    BY <1>9, <2>2, PairsJoined
  <2> QED
    BY <1>7, <2>1, <2>3 DEF PairsIn
<1>11. PICK w \in Seq(Nat) : w = f[h]
  BY <1>10
<1>12. \A k \in 1..(2 * h) : w[k] = src[k]
  <2> TAKE k \in 1..(2 * h)
  <2>1. PICK i \in 1..h : k = 2 * i - 1 \/ k = 2 * i
    <3>1. (k + 1) \div 2 \in 1..h /\ (k = 2 * ((k + 1) \div 2) - 1 \/ k = 2 * ((k + 1) \div 2))
      OBVIOUS
    <3> QED
      BY <3>1
  <2> QED
    BY <1>10, <1>11, <2>1
<1>13. m - (m % 2) = 2 * h /\ 2 * h <= m
  BY <1>2
<1>14. PICK v \in Seq(0..255) : v = Str!Even(src) /\ Len(v) = 2 * h /\ \A k \in 1..(2 * h) : v[k] = src[k]
  <2>1. PICK S : S = 0..255
    OBVIOUS
  <2>2. src \in Seq(S)
    BY <1>1, <2>1
  <2>3. 1 \in 1..(Len(src) + 1) /\ 2 * h \in 0..Len(src)
    BY <1>1, <1>13
  <2>4. PICK v : v = SubSeq(src, 1, 2 * h)
    OBVIOUS
  <2>5. v \in Seq(S) /\ Len(v) = 2 * h /\ \A k \in 1..(2 * h) : v[k] = src[k]
    BY <2>2, <2>3, <2>4
  <2>6. v = Str!Even(src)
    BY <1>1, <1>13, <2>4 DEF Str!Even
  <2> QED
    BY <2>1, <2>5, <2>6
<1>15. w = v
  <2>1. Len(w) = 2 * h
    BY <1>10, <1>11
  <2>2. w = [k \in 1..(2 * h) |-> w[k]] /\ v = [k \in 1..(2 * h) |-> v[k]]
    BY <1>14, <2>1
  <2> QED
    BY <1>12, <1>14, <2>2
<1> QED
  BY <1>3, <1>5, <1>6, <1>9, <1>11, <1>14, <1>15

(* ASCII: every byte is looked at, and every byte is forced.               *)
LEMMA AllLookedAt ==
  ASSUME NEW n \in Nat, NEW u \in 0..7
  PROVE  Str!LookedAt(n, u) = 1..n /\ Str!Forced(n, u, 0) = 1..n
<1>1. ASSUME NEW from \in Nat, NEW left \in Nat
      PROVE  Str!InWords(from, left) \cup Str!InRest(from, left) = (from + 1)..(from + left)
  <2>1. PICK q \in Nat, r \in 0..7 : left = 8 * q + r /\ q = left \div 8 /\ r = left % 8
    OBVIOUS
  <2>2. Str!InWords(from, left) = (from + 1)..(from + q * 8)
    BY <2>1 DEF Str!InWords, Str!Word
  <2>3. Str!InRest(from, left) = (from + left - r + 1)..(from + left)
    BY <2>1 DEF Str!InRest, Str!Word
  <2>4. from + left - r = from + q * 8
    BY <2>1
  <2> QED
    BY <2>1, <2>2, <2>3, <2>4
<1>2. Str!LookedAt(n, u) = 1..n
  <2>1. CASE n < 16
    BY <2>1 DEF Str!LookedAt
  <2>2. CASE n >= 16
    <3>1. PICK first \in 0..7 : first = IF u > 0 THEN 8 - u ELSE 0
      OBVIOUS
    <3>2. n - first \in Nat /\ first + (n - first) = n
      BY <2>2
    <3>3. Str!LookedAt(n, u) = (1..first) \cup Str!InWords(first, n - first) \cup Str!InRest(first, n - first)
      BY <2>2, <3>1 DEF Str!LookedAt, Str!Word
    <3>4. Str!InWords(first, n - first) \cup Str!InRest(first, n - first) = (first + 1)..n
      BY <1>1, <3>2
    <3>5. (1..first) \cup ((first + 1)..n) = 1..n
      BY <2>2
    <3> QED
      BY <3>3, <3>4, <3>5
  <2> QED
    BY <2>1, <2>2
<1>3. Str!Forced(n, u, 0) = 1..n
  <2>1. CASE n < 16 \/ u > 0
    BY <2>1 DEF Str!Forced
  <2>2. CASE n >= 16 /\ u = 0
    <3>1. Str!Forced(n, u, 0) = (1..0) \cup Str!InWords(0, n) \cup Str!InRest(0, n)
      BY <2>2 DEF Str!Forced
    <3>2. Str!InWords(0, n) \cup Str!InRest(0, n) = 1..n
      BY <1>1
    <3>3. 1..0 = {}
      OBVIOUS
    <3> QED
      BY <3>1, <3>2, <3>3
  <2> QED
    BY <2>1, <2>2
<1> QED
  BY <1>2, <1>3

LEMMA AsciiForced ==
  ASSUME NEW n \in Nat, NEW u \in 0..7, NEW src \in Seq(Nat), Len(src) = n
  PROVE  Str!EncodeAs("ascii", src, u) = [i \in DOMAIN src |-> src[i] % 128]
<1>1. Str!LookedAt(n, u) = 1..n /\ Str!Forced(n, u, 0) = 1..n
  BY AllLookedAt
<1>2. DOMAIN src = 1..n /\ src = [i \in 1..n |-> src[i]]
  OBVIOUS
<1>3. Str!EncodeAs("ascii", src, u) = IF Str!contains_non_ascii(src, u) THEN Str!force_ascii(src, u, 0) ELSE src
  BY DEF Str!EncodeAs
<1>4. Str!force_ascii(src, u, 0) = [i \in 1..n |-> src[i] % 128]
  <2>1. Str!force_ascii(src, u, 0) = [i \in 1..n |-> IF i \in 1..n THEN src[i] % 128 ELSE -1]
    BY <1>1, Zenon DEF Str!force_ascii, Str!Uninitialized
  <2> QED
    BY <2>1
<1>5. ~Str!contains_non_ascii(src, u) => src = [i \in 1..n |-> src[i] % 128]
  <2> SUFFICES ASSUME ~Str!contains_non_ascii(src, u) PROVE \A i \in 1..n : src[i] % 128 = src[i]
    BY <1>2
  <2> TAKE i \in 1..n
  <2>1. PICK c \in Nat : c = src[i]
    OBVIOUS
  <2>2. ~(src[i] >= 128)
    BY <1>1 DEF Str!contains_non_ascii
  <2>3. c < 128
    BY <2>1, <2>2
  <2>4. c % 128 = c
    BY <2>3
  <2> QED
    BY <2>1, <2>4
<1> QED
  BY <1>2, <1>3, <1>4, <1>5

(* How many of the characters of base64_encode are digits.                 *)
DigitsOf(l) == 4 * (l \div 3) + (IF l % 3 = 0 THEN 0 ELSE (l % 3) + 1)

LEMMA SizesAgree ==
  ASSUME NEW l \in Nat
  PROVE  \E q \in Nat, r \in 0..2 :
           /\ l = 3 * q + r /\ l \div 3 = q /\ l % 3 = r
           /\ (l + 2) \div 3 = (IF r = 0 THEN q ELSE q + 1)
           /\ DigitsOf(l) = 4 * q + (IF r = 0 THEN 0 ELSE r + 1)
           /\ (3 * DigitsOf(l)) \div 4 = l
           /\ Str!base64_decoded_size_fast(DigitsOf(l)) = l
<1>1. PICK q \in Nat, r \in 0..2 : l = 3 * q + r /\ l \div 3 = q /\ l % 3 = r
  <2>1. l \div 3 \in Nat /\ l % 3 \in 0..2 /\ l = 3 * (l \div 3) + (l % 3)
    OBVIOUS
  <2> QED
    BY <2>1
<1>2. (l + 2) \div 3 = (IF r = 0 THEN q ELSE q + 1)
  BY <1>1
<1>3. DigitsOf(l) = 4 * q + (IF r = 0 THEN 0 ELSE r + 1)
  BY <1>1 DEF DigitsOf
<1>4. PICK d \in Nat : d = DigitsOf(l) /\ d = 4 * q + (IF r = 0 THEN 0 ELSE r + 1)
  BY <1>3
<1>5. (3 * d) \div 4 = l
  BY <1>1, <1>4
<1>6. Str!base64_decoded_size_fast(d) = l
  <2>1. d % 4 = (IF r = 0 THEN 0 ELSE r + 1) /\ d \div 4 = q
    BY <1>4
  <2>2. Str!base64_decoded_size_fast(d) =
          IF (d % 4 = 0 \/ ((d \div 4) * 3 = 0 /\ d % 4 = 1)) THEN (d \div 4) * 3
          ELSE (d \div 4) * 3 + 1 + (IF d % 4 = 3 THEN 1 ELSE 0)
    BY Zenon DEF Str!base64_decoded_size_fast
  <2> QED
    BY <1>1, <2>1, <2>2
<1> QED
  BY <1>1, <1>2, <1>3, <1>4, <1>5, <1>6

Padded(e, m) ==
  /\ e \in Seq(Nat) /\ m \in 0..Len(e)
  /\ \A k \in 1..m : e[k] < 64
  /\ \A k \in (m + 1)..Len(e) : e[k] = 64

LEMMA DigitsThenPads ==
  ASSUME NEW src \in Seq(0..255)
  PROVE  Padded(Str!base64_encode(src), DigitsOf(Len(src)))
<1>1. PICK l \in Nat : l = Len(src)
  OBVIOUS
<1>2. PICK q \in Nat, r \in 0..2 :
           /\ l = 3 * q + r
           /\ (l + 2) \div 3 = (IF r = 0 THEN q ELSE q + 1)
           /\ DigitsOf(l) = 4 * q + (IF r = 0 THEN 0 ELSE r + 1)
  BY SizesAgree
<1>3. PICK G \in Nat : G = Groups(src) /\ G = (IF r = 0 THEN q ELSE q + 1)
  BY <1>1, <1>2 DEF Groups
<1>4. PICK m \in Nat : m = DigitsOf(l) /\ m = 4 * q + (IF r = 0 THEN 0 ELSE r + 1)
  BY <1>2
<1>5. PICK e : e = Str!base64_encode(src)
  OBVIOUS
<1>6. Len(e) = 4 * G /\ e = [k \in 1..(4 * G) |-> e[k]]
  BY <1>3, <1>5, EncodedInFours
<1>7. ASSUME NEW g \in 0..(G - 1)
      PROVE  /\ e[4 * g + 1] \in 0..63 /\ e[4 * g + 2] \in 0..63
             /\ e[4 * g + 3] \in 0..64 /\ (e[4 * g + 3] = 64 <=> 3 * g + 2 > l)
             /\ e[4 * g + 4] \in 0..64 /\ (e[4 * g + 4] = 64 <=> 3 * g + 3 > l)
  <2>1. PICK x \in 0..255, y \in 0..255, z \in 0..255 :
          x = ByteAt(src, 3 * g + 1) /\ y = ByteAt(src, 3 * g + 2) /\ z = ByteAt(src, 3 * g + 3)
    <3>1. 3 * g + 1 \in Nat \ {0} /\ 3 * g + 2 \in Nat \ {0} /\ 3 * g + 3 \in Nat \ {0}
      OBVIOUS
    <3> QED
      BY <3>1, BytesAt, Zenon
  <2>2. /\ x \div 4 \in 0..63 /\ (x % 4) * 16 + y \div 16 \in 0..63
        /\ (y % 16) * 4 + z \div 64 \in 0..63 /\ z % 64 \in 0..63
    <3>1. BytesBack(x, y, z)
      BY ThreeBytesBack, Zenon
    <3> QED
      BY <3>1, Zenon DEF BytesBack
  <2>3. /\ e[4 * g + 1] = x \div 4
        /\ e[4 * g + 2] = (x % 4) * 16 + y \div 16
        /\ e[4 * g + 3] = IF 3 * g + 2 > l THEN 64 ELSE (y % 16) * 4 + z \div 64
        /\ e[4 * g + 4] = IF 3 * g + 3 > l THEN 64 ELSE z % 64
    <3>1. FourOf(e, src, g)
      BY <1>3, <1>5, EncodedInFours
    <3> QED
      BY <1>1, <2>1, <3>1 DEF FourOf
  <2>4. PICK c1 \in 0..63, c2 \in 0..63, c3 \in 0..63, c4 \in 0..63 :
          /\ c1 = x \div 4 /\ c2 = (x % 4) * 16 + y \div 16
          /\ c3 = (y % 16) * 4 + z \div 64 /\ c4 = z % 64
    BY <2>2
  <2>5. /\ e[4 * g + 1] = c1 /\ e[4 * g + 2] = c2
        /\ e[4 * g + 3] = IF 3 * g + 2 > l THEN 64 ELSE c3
        /\ e[4 * g + 4] = IF 3 * g + 3 > l THEN 64 ELSE c4
    BY <2>3, <2>4
  <2> QED
    BY <2>5
<1>8. ASSUME NEW k \in 1..(4 * G)
      PROVE  /\ e[k] \in Nat
             /\ k <= m => e[k] < 64
             /\ k > m => e[k] = 64
  <2>1. PICK g \in 0..(G - 1), j \in 1..4 : k = 4 * g + j
    <3>1. (k - 1) \div 4 \in 0..(G - 1) /\ ((k - 1) % 4) + 1 \in 1..4 /\ k = 4 * ((k - 1) \div 4) + (((k - 1) % 4) + 1)
      OBVIOUS
    <3> QED
      BY <3>1
  <2>2. PICK c \in 0..64 : c = e[k] /\ (c = 64 <=> ((j = 3 /\ 3 * g + 2 > l) \/ (j = 4 /\ 3 * g + 3 > l)))
    <3>1. CASE j = 1
      <4>1. k = 4 * g + 1 /\ e[k] \in 0..63
        BY <1>7, <2>1, <3>1
      <4> QED
        BY <3>1, <4>1
    <3>2. CASE j = 2
      <4>1. k = 4 * g + 2 /\ e[k] \in 0..63
        BY <1>7, <2>1, <3>2
      <4> QED
        BY <3>2, <4>1
    <3>3. CASE j = 3
      <4>1. k = 4 * g + 3 /\ e[k] \in 0..64 /\ (e[k] = 64 <=> 3 * g + 2 > l)
        BY <1>7, <2>1, <3>3
      <4> QED
        BY <3>3, <4>1
    <3>4. CASE j = 4
      <4>1. k = 4 * g + 4 /\ e[k] \in 0..64 /\ (e[k] = 64 <=> 3 * g + 3 > l)
        BY <1>7, <2>1, <3>4
      <4> QED
        BY <3>4, <4>1
    <3> QED
      BY <3>1, <3>2, <3>3, <3>4
  <2>3. c = 64 <=> k > m
    <3>1. CASE g < q
      BY <1>2, <1>4, <2>1, <2>2, <3>1
    <3>2. CASE ~(g < q)
      <4>1. g = q /\ r # 0
        BY <1>3, <2>1, <3>2
      <4> QED
        BY <1>2, <1>4, <2>1, <2>2, <4>1
    <3> QED
      BY <3>1, <3>2
  <2>4. k \in Nat /\ (c = 64 \/ c < 64)
    OBVIOUS
  <2>5. k <= m \/ k > m
    BY <2>4
  <2>6. c \in Nat /\ (k <= m => c < 64) /\ (k > m => c = 64)
    BY <2>3, <2>4, <2>5
  <2> QED
    BY <2>2, <2>6
<1>9. e \in Seq(Nat)
  <2>1. PICK N \in Nat : N = 4 * G
    OBVIOUS
  <2>2. e = [k \in 1..N |-> e[k]] /\ \A k \in 1..N : e[k] \in Nat
    BY <1>6, <1>8, <2>1
  <2>3. e \in [1..N -> Nat]
    <3>1. [k \in 1..N |-> e[k]] \in [1..N -> Nat]
      BY <2>2
    <3> QED
      BY <2>2, <3>1
  <2> QED
    BY <2>3
<1>10. m \in 0..(4 * G)
  BY <1>3, <1>4
<1>11. \A k \in 1..m : e[k] < 64
  <2> TAKE k \in 1..m
  <2>1. k \in 1..(4 * G) /\ k <= m
    BY <1>10
  <2> QED
    BY <1>8, <2>1
<1>12. \A k \in (m + 1)..(4 * G) : e[k] = 64
  <2> TAKE k \in (m + 1)..(4 * G)
  <2>1. k \in 1..(4 * G) /\ k > m
    BY <1>10
  <2> QED
    BY <1>8, <2>1
<1> QED
  BY <1>1, <1>4, <1>5, <1>6, <1>9, <1>10, <1>11, <1>12 DEF Padded

(* The bytes come back from whatever has the digits of base64_encode.      *)
LEMMA DigitsDecode ==
  ASSUME NEW src \in Seq(0..255), NEW str,
         Str!Digits(str) = Str!Digits(Str!base64_encode(src))
  PROVE  Str!base64_decode(str, Len(src)) = src
<1>1. PICK l \in Nat : l = Len(src)
  OBVIOUS
<1>2. PICK q \in Nat, r \in 0..2 :
           /\ l = 3 * q + r
           /\ (l + 2) \div 3 = (IF r = 0 THEN q ELSE q + 1)
           /\ DigitsOf(l) = 4 * q + (IF r = 0 THEN 0 ELSE r + 1)
           /\ (3 * DigitsOf(l)) \div 4 = l
  BY SizesAgree
<1>3. PICK G \in Nat : G = Groups(src) /\ G = (IF r = 0 THEN q ELSE q + 1)
  BY <1>1, <1>2 DEF Groups
<1>4. PICK m \in Nat : m = DigitsOf(l) /\ m = 4 * q + (IF r = 0 THEN 0 ELSE r + 1) /\ (3 * m) \div 4 = l
  BY <1>2
<1>5. PICK e \in Seq(Nat) :
           /\ e = Str!base64_encode(src) /\ m \in 0..Len(e)
           /\ \A k \in 1..m : e[k] < 64
           /\ \A k \in (m + 1)..Len(e) : e[k] = 64
  <2>1. Padded(Str!base64_encode(src), m)
    BY <1>1, <1>4, DigitsThenPads
  <2> QED
    BY <2>1 DEF Padded
<1>6. PICK d : d = Str!Digits(str) /\ Len(d) = m /\ \A k \in 1..m : d[k] = e[k]
  <2>1. \A k \in (m + 1)..Len(e) : e[k] >= 64
    BY <1>5
  <2>2. Len(Str!Digits(e)) = m /\ \A k \in 1..m : Str!Digits(e)[k] = e[k]
    BY <1>5, <2>1, DigitsFirst
  <2> QED
    BY <1>5, <2>2
<1>7. Str!Least(l, (3 * m) \div 4) = l
  BY <1>4 DEF Str!Least
<1>8. PICK b : b = Str!base64_decode(str, l) /\ b = [i \in 1..l |-> b[i]]
               /\ \A g \in Nat, i \in 1..l : ThreeOf(b, d, g, i)
  BY <1>6, <1>7, DecodedInThrees
<1>9. ASSUME NEW i \in 1..l PROVE b[i] = src[i]
  <2>1. PICK g \in Nat, j \in 1..3 : i = 3 * g + j
    <3>1. i - 1 \in Nat
      OBVIOUS
    <3>2. PICK g \in Nat, k \in 0..2 : i - 1 = 3 * g + k
      BY <3>1, SizesAgree, Zenon
    <3>3. k + 1 \in 1..3 /\ i = 3 * g + (k + 1)
      BY <3>2
    <3> QED
      BY <3>3
  <2>2. g \in 0..(G - 1)
    <3>1. CASE g < q
      BY <1>3, <3>1
    <3>2. CASE ~(g < q)
      <4>1. r # 0 /\ g = q
        BY <1>2, <2>1, <3>2
      <4> QED
        BY <1>3, <4>1
    <3> QED
      BY <3>1, <3>2
  <2>3. ASSUME NEW k \in Nat \ {0} PROVE \E c \in 0..255 : c = ByteAt(src, k) /\ (k <= l => c = src[k])
    BY <1>1, BytesAt, Zenon
  <2>11. 3 * g + 1 \in Nat \ {0} /\ 3 * g + 2 \in Nat \ {0} /\ 3 * g + 3 \in Nat \ {0}
    OBVIOUS
  <2>12. PICK x \in 0..255 : x = ByteAt(src, 3 * g + 1) /\ (3 * g + 1 <= l => x = src[3 * g + 1])
    BY <2>3, <2>11
  <2>13. PICK y \in 0..255 : y = ByteAt(src, 3 * g + 2) /\ (3 * g + 2 <= l => y = src[3 * g + 2])
    BY <2>3, <2>11
  <2>14. PICK z \in 0..255 : z = ByteAt(src, 3 * g + 3) /\ (3 * g + 3 <= l => z = src[3 * g + 3])
    BY <2>3, <2>11
  <2>4. FourOf(e, src, g)
    BY <1>3, <1>5, <2>2, EncodedInFours
  <2>5. ThreeOf(b, d, g, i)
    BY <1>8, Zenon
  <2>6. BytesBack(x, y, z)
    BY ThreeBytesBack, Zenon
  <2>7. /\ e[4 * g + 1] = x \div 4
        /\ e[4 * g + 2] = (x % 4) * 16 + y \div 16
        /\ e[4 * g + 3] = IF 3 * g + 2 > l THEN 64 ELSE (y % 16) * 4 + z \div 64
        /\ e[4 * g + 4] = IF 3 * g + 3 > l THEN 64 ELSE z % 64
    BY <1>1, <2>12, <2>13, <2>14, <2>4 DEF FourOf
  <2>8. CASE j = 1
    <3>1. 4 * g + 1 \in 1..m /\ 4 * g + 2 \in 1..m
      BY <1>2, <1>4, <2>1, <2>8
    <3>2. d[4 * g + 1] = x \div 4 /\ d[4 * g + 2] = (x % 4) * 16 + y \div 16
      BY <1>6, <2>7, <3>1
    <3>3. i = 3 * g + 1
      BY <2>1, <2>8
    <3>4. b[i] = (d[4 * g + 1] * 4 + d[4 * g + 2] \div 16) % 256
      BY <2>5, <3>3, Zenon DEF ThreeOf
    <3>5. b[i] = x
      BY <2>6, <3>2, <3>4, Zenon DEF BytesBack
    <3> QED
      BY <2>12, <3>3, <3>5
  <2>9. CASE j = 2
    <3>1. 4 * g + 2 \in 1..m /\ 4 * g + 3 \in 1..m
      BY <1>2, <1>4, <2>1, <2>9
    <3>2. i = 3 * g + 2 /\ ~(3 * g + 2 > l)
      BY <2>1, <2>9
    <3>3. d[4 * g + 2] = (x % 4) * 16 + y \div 16 /\ d[4 * g + 3] = (y % 16) * 4 + z \div 64
      BY <1>6, <2>7, <3>1, <3>2
    <3>4. b[i] = (d[4 * g + 2] % 16) * 16 + d[4 * g + 3] \div 4
      BY <2>5, <3>2, Zenon DEF ThreeOf
    <3>5. b[i] = y
      BY <2>6, <3>3, <3>4, Zenon DEF BytesBack
    <3> QED
      BY <2>13, <2>14, <3>2, <3>5
  <2>10. CASE j = 3
    <3>1. 4 * g + 3 \in 1..m /\ 4 * g + 4 \in 1..m
      BY <1>2, <1>4, <2>1, <2>10
    <3>2. i = 3 * g + 3 /\ ~(3 * g + 2 > l) /\ ~(3 * g + 3 > l)
      BY <2>1, <2>10
    <3>3. d[4 * g + 3] = (y % 16) * 4 + z \div 64 /\ d[4 * g + 4] = z % 64
      BY <1>6, <2>7, <3>1, <3>2
    <3>4. b[i] = (d[4 * g + 3] % 4) * 64 + d[4 * g + 4]
      BY <2>5, <3>2, Zenon DEF ThreeOf
    <3>5. b[i] = z
      BY <2>6, <3>3, <3>4, Zenon DEF BytesBack
    <3> QED
      BY <2>13, <2>14, <3>2, <3>5
  <2> QED
    BY <2>1, <2>8, <2>9, <2>10
<1>10. src = [i \in 1..l |-> src[i]]
  BY <1>1
<1> QED
  BY <1>1, <1>8, <1>9, <1>10

LEMMA SizeIsExact ==
  ASSUME NEW src \in Seq(0..255)
  PROVE  Str!base64_decoded_size(Str!base64_encode(src)) = Len(src)
<1>1. PICK l \in Nat : l = Len(src)
  OBVIOUS
<1>2. PICK q \in Nat, r \in 0..2 :
           /\ l = 3 * q + r
           /\ (l + 2) \div 3 = (IF r = 0 THEN q ELSE q + 1)
           /\ DigitsOf(l) = 4 * q + (IF r = 0 THEN 0 ELSE r + 1)
           /\ Str!base64_decoded_size_fast(DigitsOf(l)) = l
  BY SizesAgree
<1>3. PICK G \in Nat : G = Groups(src) /\ G = (IF r = 0 THEN q ELSE q + 1)
  BY <1>1, <1>2 DEF Groups
<1>4. PICK m \in Nat : m = DigitsOf(l) /\ m = 4 * q + (IF r = 0 THEN 0 ELSE r + 1)
                       /\ Str!base64_decoded_size_fast(m) = l
  BY <1>2
<1>5. PICK e \in Seq(Nat) :
           /\ e = Str!base64_encode(src) /\ m \in 0..Len(e)
           /\ \A k \in 1..m : e[k] < 64
           /\ \A k \in (m + 1)..Len(e) : e[k] = 64
  <2>1. Padded(Str!base64_encode(src), m)
    BY <1>1, <1>4, DigitsThenPads
  <2> QED
    BY <2>1 DEF Padded
<1>6. PICK n \in Nat : n = Len(e) /\ n = 4 * G
  <2>1. Len(e) = 4 * G
    BY <1>3, <1>5, EncodedInFours
  <2> QED
    BY <1>3, <2>1
<1> DEFINE P(i) == i >= 1 /\ e[i] = 64
<1>7. Str!base64_decoded_size(e) =
        Str!base64_decoded_size_fast(IF P(n) THEN IF P(n - 1) THEN n - 2 ELSE n - 1 ELSE n)
  BY <1>6, Zenon DEF Str!base64_decoded_size, Str!Pad
<1>8. (IF P(n) THEN IF P(n - 1) THEN n - 2 ELSE n - 1 ELSE n) = m
  <2>1. CASE r = 0
    <3>1. n = m
      BY <1>3, <1>4, <1>6, <2>1
    <3>2. ~P(n)
      <4>1. n >= 1 => n \in 1..m
        BY <3>1
      <4>2. n >= 1 => e[n] < 64
        BY <1>5, <4>1
      <4> QED
        BY <4>2
    <3> QED
      BY <3>1, <3>2
  <2>2. CASE r = 1
    <3>1. n = m + 2
      BY <1>3, <1>4, <1>6, <2>2
    <3>2. n \in (m + 1)..n /\ n - 1 \in (m + 1)..n
      BY <3>1
    <3>3. P(n) /\ P(n - 1)
      BY <1>5, <1>6, <3>1, <3>2
    <3> QED
      BY <3>1, <3>3
  <2>3. CASE r = 2
    <3>1. n = m + 1
      BY <1>3, <1>4, <1>6, <2>3
    <3>2. n \in (m + 1)..n /\ (n - 1 >= 1 => n - 1 \in 1..m)
      BY <3>1
    <3>3. P(n)
      BY <1>5, <1>6, <3>1, <3>2
    <3>4. ~P(n - 1)
      <4>1. n - 1 >= 1 => e[n - 1] < 64
        BY <1>5, <3>2
      <4> QED
        BY <4>1
    <3> QED
      BY <3>1, <3>3, <3>4
  <2> QED
    BY <2>1, <2>2, <2>3
<1> QED
  BY <1>1, <1>4, <1>5, <1>7, <1>8, Zenon

LEMMA Base64Back ==
  ASSUME NEW src \in Seq(0..255)
  PROVE  /\ Str!base64_encode(src) \in Seq(Nat)
         /\ Str!Write("base64", Str!base64_encode(src), Str!Size("base64", Str!base64_encode(src))) = src
         /\ \A i \in DOMAIN Str!base64_encode(src) :
              Str!base64_decode(Str!WithJunk(Str!base64_encode(src), i), Len(src)) = src
<1>1. PICK e \in Seq(Nat) : e = Str!base64_encode(src)
  BY DigitsThenPads DEF Padded
<1>2. Str!Size("base64", e) = Len(src)
  BY <1>1, SizeIsExact DEF Str!Size
<1>3. Str!Write("base64", e, Len(src)) = Str!base64_decode(e, Len(src))
  BY DEF Str!Write
<1>4. Str!base64_decode(e, Len(src)) = src
  BY <1>1, DigitsDecode
<1>5. ASSUME NEW i \in 1..Len(e) PROVE Str!base64_decode(Str!WithJunk(e, i), Len(src)) = src
  <2>1. Str!Digits(Str!WithJunk(e, i)) = Str!Digits(e)
    BY JunkSkipped
  <2> QED
    BY <1>1, <2>1, DigitsDecode
<1> QED
  BY <1>1, <1>2, <1>3, <1>4, <1>5

(* UTF-8: one to three bytes for each character.                           *)
LEMMA CharBytes ==
  ASSUME NEW c \in Nat
  PROVE  /\ Str!Utf8Char(c) \in Seq(Nat) /\ Len(Str!Utf8Char(c)) \in 1..3
         /\ c < 128 => Len(Str!Utf8Char(c)) \in 1..1
<1>1. CASE c < 128
  <2>1. Str!Utf8Char(c) = <<c>>
    BY <1>1 DEF Str!Utf8Char
  <2> QED
    BY <1>1, <2>1
<1>2. CASE c >= 128 /\ c < 2048
  <2>1. PICK a \in Nat, b \in Nat : a = 192 + c \div 64 /\ b = 128 + (c % 64)
    OBVIOUS
  <2>2. Str!Utf8Char(c) = <<a, b>>
    BY <1>2, <2>1 DEF Str!Utf8Char
  <2> QED
    BY <1>2, <2>2
<1>3. CASE c >= 2048
  <2>1. PICK a \in Nat, b \in Nat, d \in Nat :
          a = 224 + c \div 4096 /\ b = 128 + ((c \div 64) % 64) /\ d = 128 + (c % 64)
    OBVIOUS
  <2>2. Str!Utf8Char(c) = <<a, b, d>>
    BY <1>3, <2>1 DEF Str!Utf8Char
  <2> QED
    BY <1>3, <2>2
<1> QED
  BY <1>1, <1>2, <1>3

LEMMA Utf8Length ==
  ASSUME NEW str \in Seq(Nat)
  PROVE  /\ Str!Utf8(str) \in Seq(Nat) /\ Len(Str!Utf8(str)) \in 0..(3 * Len(str))
         /\ ~Str!MayContainNonAscii(str) => Len(Str!Utf8(str)) = Len(str)
<1>1. PICK n \in Nat : n = Len(str)
  OBVIOUS
<1> DEFINE p == [i \in 1..n |-> Str!Utf8Char(str[i])]
<1>2. ASSUME NEW i \in 1..n PROVE p[i] \in Seq(Nat) /\ Len(p[i]) \in 1..3 /\ (str[i] < 128 => Len(p[i]) \in 1..1)
  <2>1. PICK c \in Nat : c = str[i]
    BY <1>1
  <2>2. p[i] = Str!Utf8Char(c)
    BY <2>1
  <2> HIDE DEF p
  <2> QED
    BY <2>1, <2>2, CharBytes
<1>3. p \in [1..n -> Seq(Nat)]
  <2>1. p = [i \in 1..n |-> p[i]]
    OBVIOUS
  <2> HIDE DEF p
  <2> QED
    BY <1>2, <2>1
<1>4. Str!Utf8(str) = Str!FlattenSeq(p)
  BY <1>1, Zenon DEF Str!Utf8
<1> HIDE DEF p
<1>5. PICK f : Joins(f, p, n) /\ Str!FlattenSeq(p) = f[n]
  BY <1>3, FlattenJoins
<1>6. f[n] \in Seq(Nat)
  BY <1>5 DEF Joins
<1>7. Len(f[n]) \in 0..(3 * n)
  <2>1. \A i \in 1..n : p[i] \in Seq(Nat) /\ Len(p[i]) \in 1..3
    BY <1>2
  <2>2. \A i \in 0..n : Len(f[i]) \in (1 * i)..(3 * i)
    BY <1>5, <2>1, LengthsJoined
  <2> QED
    BY <2>2
<1>8. ASSUME ~Str!MayContainNonAscii(str) PROVE Len(f[n]) = n
  <2>1. \A i \in 1..n : p[i] \in Seq(Nat) /\ Len(p[i]) \in 1..1
    <3> TAKE i \in 1..n
    <3>1. PICK c \in Nat : c = str[i]
      BY <1>1
    <3>2. ~(c >= 128)
      BY <1>1, <1>8, <3>1 DEF Str!MayContainNonAscii
    <3>3. c < 128
      BY <3>2
    <3> QED
      BY <1>2, <3>1, <3>3
  <2>2. \A i \in 0..n : Len(f[i]) \in (1 * i)..(1 * i)
    BY <1>5, <2>1, LengthsJoined
  <2> QED
    BY <2>2
<1> QED
  BY <1>1, <1>4, <1>5, <1>6, <1>7, <1>8

LEMMA GreatestIn ==
  ASSUME NEW n \in Nat, NEW S \in SUBSET (0..n), NEW z \in S
  PROVE  \E k \in S : \A m \in S : m <= k
<1> DEFINE T == {k \in Nat : \A R \in SUBSET (0..k) : R # {} => \E g \in R : \A m \in R : m <= g}
<1>1. 0 \in T
  <2>1. ASSUME NEW R \in SUBSET (0..0), R # {} PROVE \E g \in R : \A m \in R : m <= g
    <3>1. \A m \in 0..0 : m = 0
      OBVIOUS
    <3>2. \A m \in R : m = 0
      BY <3>1
    <3>3. PICK g \in R : TRUE
      BY <2>1
    <3>4. g = 0 /\ \A m \in R : m <= g
      BY <3>2
    <3> QED
      BY <3>4
  <2> QED
    BY <2>1
<1>2. ASSUME NEW k \in Nat, k \in T PROVE k + 1 \in T
  <2> SUFFICES ASSUME NEW R \in SUBSET (0..(k + 1)), R # {} PROVE \E g \in R : \A m \in R : m <= g
    OBVIOUS
  <2>1. CASE k + 1 \in R
    <3>1. \A m \in R : m <= k + 1
      OBVIOUS
    <3> QED
      BY <2>1, <3>1
  <2>2. CASE k + 1 \notin R
    <3>1. R \in SUBSET (0..k)
      BY <2>2
    <3> QED
      BY <1>2, <3>1
  <2> QED
    BY <2>1, <2>2
<1>3. \A k \in Nat : k \in T
  <2> HIDE DEF T
  <2> QED
    BY <1>1, <1>2, Upward
<1> QED
  BY <1>3

LEMMA Utf8Fits ==
  ASSUME NEW str \in Seq(Nat), NEW b \in Nat
  PROVE  /\ Len(Str!WriteUtf8(str, b)) \in 0..b
         /\ Len(Str!Utf8(str)) <= b => Str!WriteUtf8(str, b) = Str!Utf8(str)
<1>1. PICK n \in Nat : n = Len(str)
  OBVIOUS
<1> DEFINE fits == {k \in 0..n : Len(Str!Utf8(SubSeq(str, 1, k))) <= b}
           k0 == CHOOSE k \in fits : \A m \in fits : m <= k
<1>2. Str!WriteUtf8(str, b) = Str!Utf8(SubSeq(str, 1, k0))
  BY <1>1, Zenon DEF Str!WriteUtf8
<1>3. ASSUME NEW k \in 0..n
      PROVE  SubSeq(str, 1, k) \in Seq(Nat) /\ Len(SubSeq(str, 1, k)) = k
             /\ Len(Str!Utf8(SubSeq(str, 1, k))) \in 0..(3 * k)
  <2>1. SubSeq(str, 1, k) \in Seq(Nat) /\ Len(SubSeq(str, 1, k)) = k
    BY <1>1
  <2> QED
    BY <2>1, Utf8Length
<1>4. 0 \in fits
  <2>1. 0 \in 0..n /\ 3 * 0 = 0
    OBVIOUS
  <2>2. Len(Str!Utf8(SubSeq(str, 1, 0))) \in 0..0
    BY <1>3, <2>1
  <2>3. Len(Str!Utf8(SubSeq(str, 1, 0))) <= b
    BY <2>2
  <2> QED
    BY <2>1, <2>3
<1>5. fits \in SUBSET (0..n)
  OBVIOUS
<1>6. k0 \in fits /\ \A m \in fits : m <= k0
  <2> HIDE DEF fits
  <2>1. \E k \in fits : \A m \in fits : m <= k
    BY <1>4, <1>5, GreatestIn
  <2> QED
    BY <2>1, Zenon
<1>7. k0 \in 0..n /\ Len(Str!Utf8(SubSeq(str, 1, k0))) <= b
  <2> HIDE DEF k0
  <2> QED
    BY <1>6
<1>8. ASSUME Len(Str!Utf8(str)) <= b PROVE Str!Utf8(SubSeq(str, 1, k0)) = Str!Utf8(str)
  <2> HIDE DEF k0
  <2>1. SubSeq(str, 1, n) = str
    BY <1>1
  <2>2. n \in fits
    <3>1. n \in 0..n
      OBVIOUS
    <3>2. Len(Str!Utf8(SubSeq(str, 1, n))) <= b
      BY <1>8, <2>1
    <3> QED
      BY <3>1, <3>2
  <2>3. n <= k0 /\ k0 \in 0..n
    BY <1>6, <1>7, <2>2
  <2>4. k0 = n
    BY <2>3
  <2> QED
    BY <2>1, <2>4
<1> HIDE DEF k0
<1>9. Len(Str!Utf8(SubSeq(str, 1, k0))) \in 0..b
  <2>1. PICK l \in Nat : l = Len(Str!Utf8(SubSeq(str, 1, k0)))
    BY <1>3, <1>7
  <2> QED
    BY <1>7, <2>1
<1> QED
  BY <1>2, <1>8, <1>9

(* Whatever the characters, base64 asks for the room its digits take.      *)
LEMMA RoomForDigits ==
  ASSUME NEW d \in Nat, NEW x \in Nat, d <= x
  PROVE  (3 * d) \div 4 <= Str!base64_decoded_size_fast(x) /\ (3 * d) \div 4 \in 0..d
         /\ Str!base64_decoded_size_fast(x) \in Nat
<1>1. PICK q \in Nat, r \in 0..3 : x = 4 * q + r /\ x \div 4 = q /\ x % 4 = r
  <2>1. x \div 4 \in Nat /\ x % 4 \in 0..3 /\ x = 4 * (x \div 4) + (x % 4)
    OBVIOUS
  <2> QED
    BY <2>1
<1>2. PICK p \in Nat, s \in 0..3 : d = 4 * p + s /\ (3 * d) \div 4 = 3 * p + (IF s = 0 THEN 0 ELSE s - 1)
  <2>1. d \div 4 \in Nat /\ d % 4 \in 0..3 /\ d = 4 * (d \div 4) + (d % 4)
    OBVIOUS
  <2>2. PICK p \in Nat, s \in 0..3 : d = 4 * p + s
    BY <2>1
  <2>3. (3 * d) \div 4 = 3 * p + (IF s = 0 THEN 0 ELSE s - 1)
    BY <2>2
  <2> QED
    BY <2>2, <2>3
<1>3. Str!base64_decoded_size_fast(x) =
        IF (r = 0 \/ (q * 3 = 0 /\ r = 1)) THEN q * 3 ELSE q * 3 + 1 + (IF r = 3 THEN 1 ELSE 0)
  BY <1>1, Zenon DEF Str!base64_decoded_size_fast
<1> QED
  BY <1>1, <1>2, <1>3

(* Room enough for all that a string becomes.                              *)
Enough(enc, str, b) ==
  CASE enc = "utf8" -> b >= Len(Str!Utf8(str))
    [] enc = "base64" -> b >= (3 * Len(Str!Digits(str))) \div 4
    [] enc = "hex" -> b >= Len(str) \div 2
    [] OTHER -> b >= Len(str)

LEMMA CharactersAre ==
  ASSUME NEW enc \in Str!Encodings, NEW str \in Str!Seqs(Str!CharsOf(enc), MaxChars)
  PROVE  str \in Seq(Nat) /\ Len(str) \in 0..MaxChars
<1>1. Str!CharsOf(enc) \subseteq Nat
  BY DEF Str!CharsOf, Str!Pad, Str!Junk
<1>2. PICK m \in 0..MaxChars : str \in [1..m -> Str!CharsOf(enc)]
  BY StringsAssumption DEF Str!Seqs
<1>3. str \in [1..m -> Nat]
  BY <1>1, <1>2
<1>4. m \in Nat /\ MaxChars \in Nat
  BY StringsAssumption
<1> QED
  BY <1>3, <1>4

LEMMA StaysInRoom ==
  ASSUME NEW enc \in Str!Encodings, NEW str \in Seq(Nat), NEW b \in Nat
  PROVE  Len(Str!Write(enc, str, b)) \in
           0..(IF enc = "ucs2" THEN 2 * Str!Least(Len(str), b) ELSE b)
<1>1. PICK n \in Nat : n = Str!Least(Len(str), b) /\ n <= b /\ n <= Len(str)
  BY DEF Str!Least
<1>2. CASE enc = "ascii"
  <2>1. Str!Write(enc, str, b) = SubSeq(str, 1, n)
    BY <1>1, <1>2 DEF Str!Write
  <2>2. Len(SubSeq(str, 1, n)) = n
    BY <1>1
  <2> QED
    BY <1>1, <1>2, <2>1, <2>2
<1>3. CASE enc = "binary"
  <2>1. Str!Write(enc, str, b) = [i \in 1..n |-> str[i] % 256]
    BY <1>1, <1>3 DEF Str!Write
  <2>2. Len([i \in 1..n |-> str[i] % 256]) = n
    OBVIOUS
  <2> QED
    BY <1>1, <1>3, <2>1, <2>2
<1>4. CASE enc = "utf8"
  <2>1. Str!Write(enc, str, b) = Str!WriteUtf8(str, b)
    BY <1>4 DEF Str!Write
  <2> QED
    BY <1>4, <2>1, Utf8Fits
<1>5. CASE enc = "base64"
  <2>1. Str!Write(enc, str, b) = Str!base64_decode(str, b)
    BY <1>5 DEF Str!Write
  <2>2. PICK d \in Nat : d = Len(Str!Digits(str))
    BY DigitsLength
  <2>3. Len(Str!base64_decode(str, b)) = Str!Least(b, (3 * d) \div 4)
    BY <2>2, DecodedInThrees
  <2>4. Str!Least(b, (3 * d) \div 4) \in 0..b
    BY DEF Str!Least
  <2> QED
    BY <1>5, <2>1, <2>3, <2>4
<1>6. CASE enc = "hex"
  <2>1. Str!Write(enc, str, b) = Str!hex_decode(str, b)
    BY <1>6 DEF Str!Write
  <2>2. Len(Str!hex_decode(str, b)) \in 0..Str!Least(b, Len(str) \div 2)
    BY HexDecodes
  <2>3. Str!Least(b, Len(str) \div 2) \in 0..b
    BY DEF Str!Least
  <2> QED
    BY <1>6, <2>1, <2>2, <2>3
<1>7. CASE enc = "ucs2"
  <2> DEFINE p == [i \in 1..n |-> <<str[i] % 256, str[i] \div 256>>]
  <2>1. Str!Write(enc, str, b) = Str!FlattenSeq(p)
    BY <1>1, <1>7 DEF Str!Write
  <2>2. \A i \in 1..n : p[i] \in Seq(Nat) /\ Len(p[i]) = 2
    <3> TAKE i \in 1..n
    <3>1. PICK c \in Nat : c = str[i]
      BY <1>1
    <3>2. PICK lo \in Nat, hi \in Nat : lo = c % 256 /\ hi = c \div 256
      OBVIOUS
    <3>3. p[i] = <<lo, hi>>
      BY <3>1, <3>2
    <3> HIDE DEF p
    <3> QED
      BY <3>3
  <2>3. p \in [1..n -> Seq(Nat)]
    <3>1. p = [i \in 1..n |-> p[i]]
      OBVIOUS
    <3> HIDE DEF p
    <3> QED
      BY <2>2, <3>1
  <2> HIDE DEF p
  <2>4. PICK f : Joins(f, p, n) /\ Str!FlattenSeq(p) = f[n]
    BY <2>3, FlattenJoins
  <2>5. Pairs(p, n)
    BY <2>2 DEF Pairs
  <2>6. PairsIn(f[n], p, n)
    BY <2>4, <2>5, PairsJoined
  <2>7. Len(Str!Write(enc, str, b)) = 2 * n
    BY <2>1, <2>4, <2>6 DEF PairsIn
  <2> QED
    BY <1>1, <1>7, <2>7
<1> QED
  BY <1>2, <1>3, <1>4, <1>5, <1>6, <1>7 DEF Str!Encodings

LEMMA AllWritten ==
  ASSUME NEW enc \in Str!Encodings, NEW str \in Seq(Nat), NEW b \in Nat, NEW c \in Nat,
         Enough(enc, str, b), Enough(enc, str, c)
  PROVE  Str!Write(enc, str, b) = Str!Write(enc, str, c)
<1>1. CASE enc \in {"ascii", "binary", "ucs2"}
  <2>1. b >= Len(str) /\ c >= Len(str)
    BY <1>1 DEF Enough
  <2>2. PICK n \in Nat : n = Len(str)
    OBVIOUS
  <2>3. Str!Least(Len(str), b) = n /\ Str!Least(Len(str), c) = n
    BY <2>1, <2>2 DEF Str!Least
  <2> QED
    BY <1>1, <2>3 DEF Str!Write
<1>2. CASE enc = "utf8"
  <2>1. b >= Len(Str!Utf8(str)) /\ c >= Len(Str!Utf8(str))
    BY <1>2 DEF Enough
  <2>2. PICK n \in Nat : n = Len(Str!Utf8(str))
    BY Utf8Length
  <2>3. n <= b /\ n <= c
    BY <2>1, <2>2
  <2>4. Str!WriteUtf8(str, b) = Str!Utf8(str) /\ Str!WriteUtf8(str, c) = Str!Utf8(str)
    BY <2>2, <2>3, Utf8Fits
  <2> QED
    BY <1>2, <2>4 DEF Str!Write
<1>3. CASE enc = "base64"
  <2>1. PICK n \in Nat : n = (3 * Len(Str!Digits(str))) \div 4
    <3>1. PICK d \in Nat : d = Len(Str!Digits(str))
      BY DigitsLength
    <3>2. (3 * d) \div 4 \in Nat
      OBVIOUS
    <3> QED
      BY <3>1, <3>2
  <2>2. b >= n /\ c >= n
    BY <1>3, <2>1 DEF Enough
  <2>3. Str!Least(b, n) = n /\ Str!Least(c, n) = n
    BY <2>2 DEF Str!Least
  <2>4. Str!base64_decode(str, b) = Str!base64_decode(str, c)
    BY <2>1, <2>3, Zenon DEF Str!base64_decode
  <2> QED
    BY <1>3, <2>4 DEF Str!Write
<1>4. CASE enc = "hex"
  <2>1. b >= Len(str) \div 2 /\ c >= Len(str) \div 2
    BY <1>4 DEF Enough
  <2>2. PICK n \in Nat : n = Len(str) \div 2
    OBVIOUS
  <2>3. Str!Least(b, Len(str) \div 2) = n /\ Str!Least(c, Len(str) \div 2) = n
    BY <2>1, <2>2 DEF Str!Least
  <2>4. Str!hex_decode(str, b) = Str!hex_decode(str, c)
    BY <2>3, HexDecodes
  <2> QED
    BY <1>4, <2>4 DEF Str!Write
<1> QED
  BY <1>1, <1>2, <1>3, <1>4 DEF Str!Encodings

(* Size and StorageSize ask for enough.                                    *)
LEMMA SizesSuffice ==
  ASSUME NEW enc \in Str!Encodings, NEW str \in Seq(Nat), NEW n \in Nat,
         n >= Str!Least(Str!Size(enc, str), Str!StorageSize(enc, str))
  PROVE  Enough(enc, str, IF enc = "ucs2" THEN n \div 2 ELSE n)
<1>1. PICK l \in Nat : l = Len(str)
  OBVIOUS
<1>2. CASE enc \in {"ascii", "binary"}
  <2>1. Str!Size(enc, str) = l /\ Str!StorageSize(enc, str) = l
    BY <1>1, <1>2 DEF Str!Size, Str!StorageSize
  <2>2. n >= l
    BY <2>1 DEF Str!Least
  <2> QED
    BY <1>1, <1>2, <2>2 DEF Enough
<1>3. CASE enc = "ucs2"
  <2>1. Str!Size(enc, str) = 2 * l /\ Str!StorageSize(enc, str) = 2 * l
    BY <1>1, <1>3 DEF Str!Size, Str!StorageSize
  <2>2. n >= 2 * l
    BY <2>1 DEF Str!Least
  <2>3. n \div 2 >= l
    BY <2>2
  <2> QED
    BY <1>1, <1>3, <2>3 DEF Enough
<1>4. CASE enc = "hex"
  <2>1. PICK h \in Nat : h = l \div 2
    OBVIOUS
  <2>2. Str!Size(enc, str) = h /\ Str!StorageSize(enc, str) = h
    BY <1>1, <1>4, <2>1 DEF Str!Size, Str!StorageSize
  <2>3. n >= h
    BY <2>2 DEF Str!Least
  <2> QED
    BY <1>1, <1>4, <2>1, <2>3 DEF Enough
<1>5. CASE enc = "utf8"
  <2>1. PICK u \in Nat : u = Len(Str!Utf8(str)) /\ u <= 3 * l /\ (~Str!MayContainNonAscii(str) => u = l)
    BY <1>1, Utf8Length
  <2>2. CASE Str!MayContainNonAscii(str)
    <3>1. Str!Size(enc, str) = u /\ Str!StorageSize(enc, str) = 3 * l
      BY <1>1, <1>5, <2>1, <2>2 DEF Str!Size, Str!StorageSize
    <3>2. n >= u
      BY <2>1, <3>1 DEF Str!Least
    <3> QED
      BY <1>5, <2>1, <3>2 DEF Enough
  <2>3. CASE ~Str!MayContainNonAscii(str)
    <3>1. Str!Size(enc, str) = l /\ Str!StorageSize(enc, str) = l
      BY <1>1, <1>5, <2>3 DEF Str!Size, Str!StorageSize
    <3>2. n >= u
      BY <2>1, <2>3, <3>1 DEF Str!Least
    <3> QED
      BY <1>5, <2>1, <3>2 DEF Enough
  <2> QED
    BY <2>2, <2>3
<1>6. CASE enc = "base64"
  <2>1. PICK d \in Nat : /\ d = Len(Str!Digits(str)) /\ d <= l
                         /\ l > 0 /\ str[l] >= 64 => d <= l - 1
                         /\ l > 1 /\ str[l] >= 64 /\ str[l - 1] >= 64 => d <= l - 2
    BY <1>1, DigitsLength
  <2>2. PICK t \in Nat : t = (3 * d) \div 4
    OBVIOUS
  <2> DEFINE P(i) == i >= 1 /\ str[i] = 64
  <2>3. Str!Size(enc, str) = Str!base64_decoded_size_fast(IF P(l) THEN IF P(l - 1) THEN l - 2 ELSE l - 1 ELSE l)
    <3>1. Str!Size(enc, str) = Str!base64_decoded_size(str)
      BY <1>6 DEF Str!Size
    <3> QED
      BY <1>1, <3>1, Zenon DEF Str!base64_decoded_size, Str!Pad
  <2>4. Str!StorageSize(enc, str) = Str!base64_decoded_size_fast(l)
    BY <1>1, <1>6 DEF Str!StorageSize
  <2>5. PICK x \in Nat : x = (IF P(l) THEN IF P(l - 1) THEN l - 2 ELSE l - 1 ELSE l) /\ d <= x
    <3>1. CASE ~P(l)
      BY <2>1, <3>1
    <3>2. CASE P(l) /\ ~P(l - 1)
      <4>1. l > 0 /\ str[l] >= 64
        BY <3>2
      <4> QED
        BY <2>1, <3>2, <4>1
    <3>3. CASE P(l) /\ P(l - 1)
      <4>1. l > 1 /\ str[l] >= 64 /\ str[l - 1] >= 64
        BY <3>3
      <4> QED
        BY <2>1, <3>3, <4>1
    <3> QED
      BY <3>1, <3>2, <3>3
  <2> HIDE DEF P
  <2>6. PICK a \in Nat, c \in Nat : a = Str!Size(enc, str) /\ c = Str!StorageSize(enc, str) /\ t <= a /\ t <= c
    <3>1. t <= Str!base64_decoded_size_fast(x) /\ Str!base64_decoded_size_fast(x) \in Nat
      BY <2>2, <2>5, RoomForDigits
    <3>2. t <= Str!base64_decoded_size_fast(l) /\ Str!base64_decoded_size_fast(l) \in Nat
      BY <2>1, <2>2, RoomForDigits
    <3> QED
      BY <2>3, <2>4, <2>5, <3>1, <3>2, Zenon
  <2>7. n >= t
    BY <2>6 DEF Str!Least
  <2> QED
    BY <1>6, <2>1, <2>2, <2>7 DEF Enough
<1> QED
  BY <1>2, <1>3, <1>4, <1>5, <1>6 DEF Str!Encodings

LEMMA AllRoomSuffices ==
  ASSUME NEW enc \in Str!Encodings, NEW str \in Seq(Nat), NEW n \in Nat, Len(str) <= n
  PROVE  Enough(enc, str, 3 * n)
<1>1. PICK l \in Nat : l = Len(str) /\ l <= n
  OBVIOUS
<1>2. PICK u \in Nat : u = Len(Str!Utf8(str)) /\ u <= 3 * l
  BY <1>1, Utf8Length
<1>3. PICK d \in Nat : d = Len(Str!Digits(str)) /\ d <= l
  BY <1>1, DigitsLength
<1>4. 3 * n >= u /\ 3 * n >= (3 * d) \div 4 /\ 3 * n >= l \div 2 /\ 3 * n >= l
  BY <1>1, <1>2, <1>3
<1> QED
  BY <1>1, <1>2, <1>3, <1>4 DEF Enough

LEMMA InitBytesFaithful ==
  ASSUME Str!Init
  PROVE  Str!BytesFaithful
BY DEF Str!Init, Str!BytesFaithful, Str!RoundTrip, Str!WrittenInRoom

LEMMA EncodeFaithful ==
  ASSUME NEW enc \in Str!Encodings \ {"ascii", "utf8"}, NEW src \in Str!Seqs(Bytes, MaxBytes),
         Str!Encode(enc, src)
  PROVE  Str!BytesFaithful'
<1>1. src \in Str!Seqs(0..255, MaxBytes) /\ MaxBytes \in Nat
  <2>1. PICK m \in 0..MaxBytes : src \in [1..m -> Bytes]
    BY DEF Str!Seqs
  <2>2. src \in [1..m -> 0..255]
    BY <2>1, StringsAssumption
  <2> QED
    BY <2>2, StringsAssumption DEF Str!Seqs
<1>2. src \in Seq(0..255)
  BY <1>1, SeqsAre
<1>3. /\ encoding' = enc /\ sgiven' = src /\ room' = -1
      /\ got' = Str!EncodeAs(enc, src, 0)
  BY DEF Str!Encode
<1>4. Str!WrittenInRoom'
  BY <1>3 DEF Str!WrittenInRoom
<1>5. CASE enc = "binary"
  <2>1. got' = src
    BY <1>3, <1>5 DEF Str!EncodeAs
  <2>2. Str!Write("binary", src, Len(src)) = src
    BY <1>1, BinaryBack
  <2> QED
    BY <1>3, <1>4, <1>5, <2>1, <2>2 DEF Str!BytesFaithful, Str!RoundTrip
<1>6. CASE enc = "hex"
  <2>1. got' = Str!hex_encode(src)
    BY <1>3, <1>6 DEF Str!EncodeAs
  <2>2. Str!Write("hex", got', Str!Size("hex", got')) = src
    BY <1>1, <2>1, HexBack
  <2> QED
    BY <1>3, <1>4, <1>6, <2>2 DEF Str!BytesFaithful, Str!RoundTrip
<1>7. CASE enc = "ucs2"
  <2>1. Str!Write("ucs2", got', Len(got')) = Str!Even(src)
    BY <1>1, <1>3, <1>7, PairsBack
  <2> QED
    BY <1>3, <1>4, <1>7, <2>1 DEF Str!BytesFaithful, Str!RoundTrip
<1>8. CASE enc = "base64"
  <2>1. got' = Str!base64_encode(src)
    BY <1>3, <1>8 DEF Str!EncodeAs
  <2>2. /\ Str!Write("base64", got', Str!Size("base64", got')) = src
        /\ \A i \in DOMAIN got' : Str!base64_decode(Str!WithJunk(got', i), Len(src)) = src
    BY <1>2, <2>1, Base64Back
  <2> QED
    BY <1>3, <1>4, <1>8, <2>2 DEF Str!BytesFaithful, Str!RoundTrip
<1> QED
  BY <1>5, <1>6, <1>7, <1>8 DEF Str!Encodings

LEMMA EncodeLongFaithful ==
  ASSUME NEW n \in LongLengths, NEW u \in 0..(Str!Word - 1), NEW other \in 0..n,
         Str!EncodeLong(n, u, other)
  PROVE  Str!BytesFaithful'
<1> DEFINE src == [i \in 1..n |-> IF i = other THEN 200 ELSE 65]
<1>1. n \in Nat /\ u \in 0..7
  BY StringsAssumption DEF Str!Word
<1>2. src \in Seq(Nat) /\ Len(src) = n
  BY <1>1
<1>3. /\ encoding' = "ascii" /\ sgiven' = src /\ room' = -1
      /\ got' = Str!EncodeAs("ascii", src, u)
  BY DEF Str!EncodeLong
<1> HIDE DEF src
<1>4. got' = [i \in DOMAIN src |-> src[i] % 128]
  BY <1>1, <1>2, <1>3, AsciiForced
<1> QED
  BY <1>3, <1>4 DEF Str!BytesFaithful, Str!RoundTrip, Str!WrittenInRoom

LEMMA WriteFaithful ==
  ASSUME NEW enc \in Str!Encodings, NEW str \in Str!Seqs(Str!CharsOf(enc), MaxChars),
         NEW b \in Nat, NEW n \in Nat,
         b = (IF enc = "ucs2" THEN n \div 2 ELSE n)
           \/ (b = n /\ n \in {Str!StorageSize(enc, str), Str!Size(enc, str)}),
         encoding' = enc, sgiven' = str, room' = n, got' = Str!Write(enc, str, b)
  PROVE  Str!BytesFaithful'
<1>1. str \in Seq(Nat) /\ Len(str) \in 0..MaxChars /\ MaxChars \in Nat
  BY CharactersAre, StringsAssumption
<1>2. PICK l \in Nat : l = Len(str) /\ l <= MaxChars
  BY <1>1
<1>3. PICK most : /\ most = (IF enc = "ucs2" THEN 2 * Str!Least(l, b) ELSE b)
                  /\ Len(got') \in 0..most
  BY <1>1, <1>2, StaysInRoom
<1>4. CASE b = (IF enc = "ucs2" THEN n \div 2 ELSE n)
  <2>1. most \in 0..n
    <3>1. CASE enc = "ucs2"
      <4>1. PICK k \in Nat : k = Str!Least(l, b) /\ k <= b
        BY DEF Str!Least
      <4>2. b = n \div 2 /\ 2 * k <= n
        BY <1>4, <3>1, <4>1
      <4> QED
        BY <1>3, <3>1, <4>1, <4>2
    <3>2. CASE enc # "ucs2"
      BY <1>3, <1>4, <3>2
    <3> QED
      BY <3>1, <3>2
  <2>2. n >= Str!Least(Str!Size(enc, str), Str!StorageSize(enc, str)) => Enough(enc, str, b)
    BY <1>1, <1>4, SizesSuffice
  <2>3. Len(got') <= n
    BY <1>3, <2>1
  <2>4. 3 * MaxChars \in Nat /\ Enough(enc, str, 3 * MaxChars)
    BY <1>1, <1>2, AllRoomSuffices
  <2>5. n >= Str!Least(Str!Size(enc, str), Str!StorageSize(enc, str)) => got' = Str!Write(enc, str, 3 * MaxChars)
    BY <1>1, <2>2, <2>4, AllWritten
  <2>6. Str!RoundTrip'
    <3>1. room' # -1
      OBVIOUS
    <3> QED
      BY <3>1, Zenon DEF Str!RoundTrip
  <2>7. Str!WrittenInRoom'
    BY <2>3, <2>5, Zenon DEF Str!WrittenInRoom
  <2> QED
    BY <2>6, <2>7, Zenon DEF Str!BytesFaithful
<1>5. CASE b = n /\ n \in {Str!StorageSize(enc, str), Str!Size(enc, str)}
  <2>1. most \in 0..n
    <3>1. CASE enc = "ucs2"
      <4>1. n = 2 * l
        BY <1>2, <1>5, <3>1 DEF Str!Size, Str!StorageSize
      <4>2. Str!Least(l, b) = l
        BY <1>5, <4>1 DEF Str!Least
      <4> QED
        BY <1>3, <3>1, <4>1, <4>2
    <3>2. CASE enc # "ucs2"
      BY <1>3, <1>5, <3>2
    <3> QED
      BY <3>1, <3>2
  <2>2. n >= Str!Least(Str!Size(enc, str), Str!StorageSize(enc, str)) => Enough(enc, str, b)
    <3> SUFFICES ASSUME n >= Str!Least(Str!Size(enc, str), Str!StorageSize(enc, str))
                 PROVE  Enough(enc, str, b)
      OBVIOUS
    <3>1. Enough(enc, str, IF enc = "ucs2" THEN n \div 2 ELSE n)
      BY <1>1, SizesSuffice
    <3>2. CASE enc = "ucs2"
      <4>1. n \div 2 >= l
        BY <1>2, <3>1, <3>2 DEF Enough
      <4>2. b >= l
        BY <1>5, <4>1
      <4> QED
        BY <1>2, <3>2, <4>2 DEF Enough
    <3>3. CASE enc # "ucs2"
      BY <1>5, <3>1, <3>3
    <3> QED
      BY <3>2, <3>3
  <2>3. Len(got') <= n
    BY <1>3, <2>1
  <2>4. 3 * MaxChars \in Nat /\ Enough(enc, str, 3 * MaxChars)
    BY <1>1, <1>2, AllRoomSuffices
  <2>5. n >= Str!Least(Str!Size(enc, str), Str!StorageSize(enc, str)) => got' = Str!Write(enc, str, 3 * MaxChars)
    BY <1>1, <2>2, <2>4, AllWritten
  <2>6. Str!RoundTrip'
    <3>1. room' # -1
      OBVIOUS
    <3> QED
      BY <3>1, Zenon DEF Str!RoundTrip
  <2>7. Str!WrittenInRoom'
    BY <2>3, <2>5, Zenon DEF Str!WrittenInRoom
  <2> QED
    BY <2>6, <2>7, Zenon DEF Str!BytesFaithful
<1> QED
  BY <1>4, <1>5

LEMMA NextBytesFaithful ==
  ASSUME Str!BytesFaithful, [Str!Next]_stringsVars
  PROVE  Str!BytesFaithful'
<1>1. CASE UNCHANGED stringsVars
  BY <1>1 DEF stringsVars, Str!BytesFaithful, Str!RoundTrip, Str!WrittenInRoom
<1>2. CASE Str!Return
  BY <1>2 DEF Str!Return, Str!BytesFaithful, Str!RoundTrip, Str!WrittenInRoom
<1>3. ASSUME NEW enc \in Str!Encodings \ {"ascii", "utf8"}, NEW src \in Str!Seqs(Bytes, MaxBytes),
             Str!Encode(enc, src)
      PROVE  Str!BytesFaithful'
  BY <1>3, EncodeFaithful
<1>4. ASSUME NEW n \in LongLengths, NEW u \in 0..(Str!Word - 1), NEW other \in 0..n,
             Str!EncodeLong(n, u, other)
      PROVE  Str!BytesFaithful'
  BY <1>4, EncodeLongFaithful
<1>5. ASSUME NEW enc \in Str!Encodings, NEW str \in Str!Seqs(Str!CharsOf(enc), MaxChars),
             NEW n \in RoomSizes, Str!WriteSome(enc, str, n)
      PROVE  Str!BytesFaithful'
  <2>1. n \in Nat
    BY StringsAssumption
  <2>2. PICK b \in Nat : b = (IF enc = "ucs2" THEN n \div 2 ELSE n)
    BY <2>1
  <2>3. encoding' = enc /\ sgiven' = str /\ room' = n /\ got' = Str!Write(enc, str, b)
    BY <1>5, <2>2 DEF Str!WriteSome
  <2> QED
    BY <2>1, <2>2, <2>3, WriteFaithful
<1>6. ASSUME NEW enc \in Str!Encodings, NEW str \in Str!Seqs(Str!CharsOf(enc), MaxChars),
             NEW n \in 0..(3 * MaxChars), Str!WriteStored(enc, str, n)
      PROVE  Str!BytesFaithful'
  <2>1. n \in Nat
    BY StringsAssumption
  <2>2. /\ encoding' = enc /\ sgiven' = str /\ room' = n /\ got' = Str!Write(enc, str, n)
        /\ n \in {Str!StorageSize(enc, str), Str!Size(enc, str)}
    BY <1>6 DEF Str!WriteStored
  <2> QED
    BY <2>1, <2>2, WriteFaithful
<1>7. ASSUME Str!Call PROVE Str!BytesFaithful'
  BY <1>3, <1>4, <1>5, <1>6, <1>7 DEF Str!Call
<1> QED
  BY <1>1, <1>2, <1>7 DEF Str!Next

-----------------------------------------------------------------------------
(* The part that runs is the same all the time, and takes its own steps.   *)
LEMMA PartStep ==
  ASSUME [Next]_vars
  PROVE  /\ part' = part
         /\ part = "handles" => [Hdl!Next]_handlesVars
         /\ part = "slab" => [Slb!Next]_slabVars
         /\ part = "http" => [Htp!Next]_httpVars
         /\ part = "binding" => [Hbi!Next]_bindingVars
         /\ part = "url" => [Url!Next]_urlVars
         /\ part = "contexts" => [Ctx!Next]_contextsVars
         /\ part = "objects" => [Obj!Next]_objectsVars
         /\ part = "dh" => [Dh!Next]_dhVars
         /\ part = "buffers" => [Buf!Next]_buffersVars
         /\ part = "strings" => [Str!Next]_stringsVars
         /\ part = "jobs" => [Job!Next]_jobsVars
         /\ part = "tls" => [Tls!Next]_tlsVars
         /\ part = "dns" => [Dns!Next]_dnsVars
         /\ part = "files" => [Fil!Next]_filesVars
         /\ part = "ticks" => [Tck!Next]_ticksVars
         /\ part = "zlib" => [Zlb!Next]_zlibVars
         /\ part = "load" => [Lod!Next]_loadVars
<1>1. CASE UNCHANGED vars
  BY <1>1 DEF vars
<1>2. CASE Next
  BY <1>2 DEF Next, OthersStill, HandlesStep, SlabStep, HttpStep, UrlStep,
              ContextsStep, ObjectsStep, DhStep, JobsStep, TlsStep, DnsStep,
              SocketsStep, FilesStep, TicksStep, BuffersStep, StringsStep,
              ZlibStep, BindingStep, LoadStep
<1> QED
  BY <1>1, <1>2

-----------------------------------------------------------------------------
(* A read lies in its buffer, apart from every other read and from what    *)
(* JavaScript holds, whatever the order in which the reads end             *)
(* (Allocate and Shrink of slab_allocator.cc).                             *)
THEOREM RoomsApartHolds == Spec => [](part = "slab" => Slb!RoomsApart)
<1> DEFINE Inv == part = "slab" => SInv
<1>1. Init => Inv
  BY InitSInv DEF Init
<1>2. Inv /\ [Next]_vars => Inv'
  BY PartStep, NextSInv
<1>3. Inv => (part = "slab" => Slb!RoomsApart)
  BY SlabRoomsApart
<1> QED
  BY <1>1, <1>2, <1>3, PTL DEF Spec

(* No wrapper or request is used after it was freed, whatever JavaScript   *)
(* does in a callback (handle_wrap.cc OnClose, req_wrap.h).                *)
THEOREM HandlesOutliveTheirUseHolds == Spec => []HandlesOutliveTheirUse
<1> DEFINE Inv == part = "handles" => HInv
<1>1. Init => Inv
  BY InitHInv DEF Init
<1>2. Inv /\ [Next]_vars => Inv'
  BY PartStep, NextHInv
<1>3. Inv => HandlesOutliveTheirUse
  BY HandlesHeldWhileUsed DEF HandlesOutliveTheirUse
<1> QED
  BY <1>1, <1>2, <1>3, PTL DEF Spec

(* Memory that a thread uses is there while it does, and each request of   *)
(* node_crypto.cc, node_file.cc and node_zlib.cc is answered once; a zlib  *)
(* stream the script resets while its thread works may be left unreferred  *)
(* to, and its chunk be done with a part not taken or answered twice.      *)
THEOREM RequestsOwnTheirMemoryHolds == Spec => []RequestsOwnTheirMemory
<1> DEFINE Inv == /\ part = "jobs" => JInv
                  /\ part = "files" => FInv
                  /\ part = "zlib" => ZInv
<1>1. Init => Inv
  BY InitJInv, InitFInv, InitZInv DEF Init
<1>2. Inv /\ [Next]_vars => Inv'
  BY PartStep, NextJInv, NextFInv, NextZInv
<1>3. Inv => RequestsOwnTheirMemory
  BY JobsOwnTheirMemory, FilesAnsweredHolds, ZlibKeepsItsBuffersHolds DEF RequestsOwnTheirMemory
<1> QED
  BY <1>1, <1>2, <1>3, PTL DEF Spec

(* Each tick and each immediate is run, once and in order, before node     *)
(* waits for the world, whatever throws (node.cc and node.js).             *)
THEOREM DeferredIsDoneHolds == Spec => []DeferredIsDone
<1> DEFINE Inv == part = "ticks" => KInv
<1>1. Init => Inv
  BY InitKInv DEF Init
<1>2. Inv /\ [Next]_vars => Inv'
  BY PartStep, NextKInv
<1>3. Inv => DeferredIsDone
  BY TicksDone DEF DeferredIsDone
<1> QED
  BY <1>1, <1>2, <1>3, PTL DEF Spec

(* However a stream is cut and whenever a session is found, OpenSSL sees   *)
(* the peer's bytes in order and at most the one session, and a peer is    *)
(* authorized only when its certificate was checked: for a header buffer   *)
(* of any size and a stream of any length.                                 *)
THEOREM ConnectionFaithfulHolds == Spec => []ConnectionFaithful
<1> DEFINE Inv == part = "tls" => CInv
<1>1. Init => Inv
  BY InitCInv DEF Init
<1>2. Inv /\ [Next]_vars => Inv'
  BY PartStep, NextCInv
<1>3. Inv => ConnectionFaithful
  BY ConnectionKept DEF ConnectionFaithful
<1> QED
  BY <1>1, <1>2, <1>3, PTL DEF Spec

(* Whatever the chunks a message comes in, the callbacks of http_parser    *)
(* get its pieces, each byte once and in order, and the script gets its    *)
(* URL, headers and trailers, however many there are, or, where there is a *)
(* limit, the first up to it; and the fields of a URL are the runs of      *)
(* their characters (http_parser.c, node_http_parser.cc and lib/http.js).  *)
THEOREM ParsersFaithfulHolds == Spec => []ParsersFaithful
<1> DEFINE Inv == /\ part = "http" => EInv
                  /\ part = "url" => UInv
                  /\ part = "binding" => MInv
<1>1. Init => Inv
  BY InitEInv, InitUInv, InitMInv DEF Init
<1>2. Inv /\ [Next]_vars => Inv'
  BY PartStep, NextEInv, NextUInv, NextMInv
<1>3. Inv => ParsersFaithful
  BY EventsKept, FieldsKeptRuns, MessagesKept DEF ParsersFaithful
<1> QED
  BY <1>1, <1>2, <1>3, PTL DEF Spec

(* An event leads to the connection whose socket it is, what is waited for *)
(* was asked for, and a thread makes the requests it was told to and at    *)
(* most one more for each further connection: for any number of            *)
(* connections, descriptors, requests and sockets.                         *)
THEOREM LoadKeptHolds == Spec => []LoadKept
<1> DEFINE Inv == part = "load" => LInv
<1>1. Init => Inv
  BY InitLInv DEF Init
<1>2. Inv /\ [Next]_vars => Inv'
  BY PartStep, NextLInv
<1>3. Inv => LoadKept
  BY LoadIsKept DEF LoadKept
<1> QED
  BY <1>1, <1>2, <1>3, PTL DEF Spec

(* A query has one answer, or null from the method, before it is freed,    *)
(* what the stack returns to is still there, and the timer of c-ares runs  *)
(* as long as it has sockets (cares_wrap.cc), for any number of queries    *)
(* and sockets.                                                            *)
THEOREM QueriesAnsweredHolds == Spec => [](part = "dns" => Dns!QueriesAnswered)
<1> DEFINE Inv == part = "dns" => QInv
<1>1. Init => Inv
  BY InitQInv DEF Init
<1>2. Inv /\ [Next]_vars => Inv'
  BY PartStep, NextQInv
<1>3. Inv => (part = "dns" => Dns!QueriesAnswered)
  BY QueriesKept
<1> QED
  BY <1>1, <1>2, <1>3, PTL DEF Spec

(* A context checks a peer against what it was given and nothing that      *)
(* another was given, but for the shared roots, and an error in OpenSSL's  *)
(* queue has a call that left it (SecureContext of node_crypto.cc): for    *)
(* any contexts and any length of the queue.                               *)
THEOREM ContextsKeepTheirTrustHolds ==
  Spec => [](part = "contexts" => Ctx!ContextsKeepTheirTrust)
<1> DEFINE Inv == part = "contexts" => XInv
<1>1. Init => Inv
  BY InitXInv DEF Init
<1>2. Inv /\ [Next]_vars => Inv'
  BY PartStep, NextXInv
<1>3. Inv => (part = "contexts" => Ctx!ContextsKeepTheirTrust)
  BY TrustKept
<1> QED
  BY <1>1, <1>2, <1>3, PTL DEF Spec

(* All that went into a cipher or a digest comes out of it, once, and none *)
(* is used before it has its context or after (node_crypto.cc): for blocks *)
(* and streams of any length.                                              *)
THEOREM ObjectsKeepTheirWordHolds ==
  Spec => [](part = "objects" => Obj!ObjectsKeepTheirWord)
<1> DEFINE Inv == part = "objects" => OInv
<1>1. Init => Inv
  BY InitOInv DEF Init
<1>2. Inv /\ [Next]_vars => Inv'
  BY PartStep, NextOInv
<1>3. Inv => (part = "objects" => Obj!ObjectsKeepTheirWord)
  BY WordKept
<1> QED
  BY <1>1, <1>2, <1>3, PTL DEF Spec

(* No buffer lies in memory that was given back, no call touches a byte    *)
(* outside its buffer but that of a float or a double told not to check,   *)
(* and buffers not sliced from one another share no byte, whatever offsets *)
(* a script passes (node_buffer.cc and buffer.js): for a pool and for      *)
(* integers of any size.                                                   *)
THEOREM ViewsApartHolds == Spec => [](part = "buffers" => Buf!ViewsApart)
<1> DEFINE Inv == part = "buffers" => BInv
<1>1. Init => Inv
  BY InitBInv DEF Init
<1>2. Inv /\ [Next]_vars => Inv'
  BY PartStep, NextBInv
<1>3. Inv => (part = "buffers" => Buf!ViewsApart)
  BY ViewsKeptApart
<1> QED
  BY <1>1, <1>2, <1>3, PTL DEF Spec

(* A field of a URL is the run of the characters its states call its own,  *)
(* so none begins twice, and the port of a URL that is accepted is one     *)
(* (http_parser_parse_url of http_parser.c): for a URL of any length.      *)
THEOREM FieldsAreRunsHolds == Spec => [](part = "url" => Url!FieldsAreRuns)
<1> DEFINE Inv == part = "url" => UInv
<1>1. Init => Inv
  BY InitUInv DEF Init
<1>2. Inv /\ [Next]_vars => Inv'
  BY PartStep, NextUInv
<1>3. Inv => (part = "url" => Url!FieldsAreRuns)
  BY FieldsKeptRuns
<1> QED
  BY <1>1, <1>2, <1>3, PTL DEF Spec

(* A context checks a peer against what it was given, all that went into a *)
(* cipher or a digest comes out of it, once, and both parties of a key     *)
(* exchange get the same bytes, as long as the prime (node_crypto.cc): the *)
(* last for any prime above 3, any generator and private keys, and any     *)
(* base the bytes are digits in.                                           *)
THEOREM CryptoKeepsItsWordHolds == Spec => []CryptoKeepsItsWord
<1> DEFINE Inv == /\ part = "contexts" => XInv
                  /\ part = "objects" => OInv
                  /\ part = "dh" => DInv
<1>1. Init => Inv
  BY InitXInv, InitOInv, InitDInv DEF Init
<1>2. Inv /\ [Next]_vars => Inv'
  BY PartStep, NextXInv, NextOInv, NextDInv
<1>3. Inv => CryptoKeepsItsWord
  BY TrustKept, WordKept, SecretsKept DEF CryptoKeepsItsWord
<1> QED
  BY <1>1, <1>2, <1>3, PTL DEF Spec

(* No two reads share a byte of a slab and no two buffers one of memory    *)
(* but slices, and only a float or a double told not to check is read or   *)
(* written beyond its buffer; bytes made a string are the same bytes again, whatever      *)
(* stands between the digits of base64, and a string is written in the     *)
(* room there is, and whole in the room Size or StorageSize asks for       *)
(* (slab_allocator.cc, node_buffer.cc, string_bytes.cc): for bytes,        *)
(* strings and rooms of any length.                                        *)
THEOREM BytesApartHolds == Spec => []BytesApart
<1> DEFINE Inv == /\ part = "slab" => SInv
                  /\ part = "buffers" => BInv
                  /\ part = "strings" => Str!BytesFaithful
<1>1. Init => Inv
  BY InitSInv, InitBInv, InitBytesFaithful DEF Init
<1>2. Inv /\ [Next]_vars => Inv'
  BY PartStep, NextSInv, NextBInv, NextBytesFaithful
<1>3. Inv => BytesApart
  BY SlabRoomsApart, ViewsKeptApart DEF BytesApart
<1> QED
  BY <1>1, <1>2, <1>3, PTL DEF Spec
=============================================================================
