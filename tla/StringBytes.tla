----------------------------- MODULE StringBytes -----------------------------
(***************************************************************************)
(* string_bytes.cc: strings written as bytes and bytes made a string, in   *)
(* each encoding.  A character is its code; in a base64 string one of the  *)
(* 64 digits, Pad or Junk, in a hexadecimal one of 16 digits or Junk.      *)
(* What V8 writes (WriteAscii, WriteUtf8, Write) is modelled by its        *)
(* documented effect.                                                      *)
(***************************************************************************)
EXTENDS Integers, Sequences, SequencesExt

CONSTANTS
  Bytes,       \* bound: the bytes that are encoded, fewer than MaxBytes
  MaxBytes,    \* bound: how many
  MaxChars,    \* bound: how long a string that is written is
  RoomSizes,   \* bound: the room a caller of StringWrite has
  LongLengths  \* bound: the lengths of what is checked by words

VARIABLES
  encoding,    \* the encoding of the call under way, or "none"
  sgiven,      \* history: the bytes or the characters it was given
  got,         \* what it made of them
  room         \* the bytes it may write, or -1 where it makes a string

sbvars == <<encoding, sgiven, got, room>>

Pad == 64
Junk == 65
Encodings == {"ascii", "utf8", "ucs2", "binary", "base64", "hex"}
Least(a, b) == IF a < b THEN a ELSE b

Init == encoding = "none" /\ sgiven = <<>> /\ got = <<>> /\ room = -1

(* Base 64: the i-th of the bytes, 0 behind the last.                      *)
base64_encode(src) ==
  LET byte(i) == IF i <= Len(src) THEN src[i] ELSE 0
      char(g, j) == CASE j = 0 -> byte(3 * g + 1) \div 4
                      [] j = 1 -> (byte(3 * g + 1) % 4) * 16 + byte(3 * g + 2) \div 16
                      [] j = 2 -> IF 3 * g + 2 > Len(src) THEN Pad
                                  ELSE (byte(3 * g + 2) % 16) * 4 + byte(3 * g + 3) \div 64
                      [] j = 3 -> IF 3 * g + 3 > Len(src) THEN Pad ELSE byte(3 * g + 3) % 64
  IN [k \in 1 .. 4 * ((Len(src) + 2) \div 3) |-> char((k - 1) \div 4, (k - 1) % 4)]

(* Whatever is no digit is skipped; that goes for '=' too, whose entry in  *)
(* the table is -1, so that the tests for '=' never find one.              *)
Digits(str) == FlattenSeq([i \in 1 .. Len(str) |-> IF str[i] < Pad THEN <<str[i]>> ELSE <<>>])

base64_decode(src, len) ==
  LET d == Digits(src)
      byte(q, j) == CASE j = 0 -> (d[q + 1] * 4 + d[q + 2] \div 16) % 256
                      [] j = 1 -> (d[q + 2] % 16) * 16 + d[q + 3] \div 4
                      [] j = 2 -> (d[q + 3] % 4) * 64 + d[q + 4]
  IN [i \in 1 .. Least(len, (3 * Len(d)) \div 4) |-> byte(4 * ((i - 1) \div 3), (i - 1) % 3)]

(* A slip: as if every string were padded.                                 *)
base64_decoded_size_whole(size) == (size \div 4) * 3

base64_decoded_size_fast(size) ==
  LET remainder == size % 4
      whole == (size \div 4) * 3
  IN IF remainder = 0 \/ (whole = 0 /\ remainder = 1) THEN whole
     ELSE whole + 1 + (IF remainder = 3 THEN 1 ELSE 0)

base64_decoded_size(src) ==
  LET PadAt(i) == i >= 1 /\ src[i] = Pad
      n == Len(src)
  IN base64_decoded_size_fast(IF PadAt(n) THEN IF PadAt(n - 1) THEN n - 2 ELSE n - 1 ELSE n)

(* Hexadecimal: decoding ends at the first pair that is none.              *)
hex_encode(src) == [k \in 1 .. 2 * Len(src) |->
  IF k % 2 = 1 THEN src[(k + 1) \div 2] \div 16 ELSE src[k \div 2] % 16]

hex_decode(src, len) ==
  LET most == Least(len, Len(src) \div 2)
      good(i) == src[2 * i - 1] < 16 /\ src[2 * i] < 16
      n == CHOOSE m \in 0 .. most : /\ \A i \in 1 .. m : good(i)
                                    /\ m = most \/ ~good(m + 1)
  IN [i \in 1 .. n |-> src[2 * i - 1] * 16 + src[2 * i]]

(* The characters 0x7f of a byte are looked for, and made, a word at a     *)
(* time: with n bytes at an address that is unaligned by u, the ones       *)
(* looked at are the first, up to the alignment, the words, and the rest.  *)
Word == 8
InWords(from, left) == (from + 1) .. (from + (left \div Word) * Word)
InRest(from, left) == (from + left - (left % Word) + 1) .. (from + left)

LookedAt(n, u) ==
  LET first == IF u > 0 THEN Word - u ELSE 0
  IN IF n < 16 THEN 1 .. n
     ELSE (1 .. first) \cup InWords(first, n - first) \cup InRest(first, n - first)

contains_non_ascii(src, u) == \E i \in LookedAt(Len(src), u) : src[i] >= 128

(* Where both are unaligned alike, len is lowered by the misalignment and  *)
(* not by what was done; new char[] is aligned, and so that is never met.  *)
Forced(n, u, dst_unalign) ==
  IF n < 16 \/ (u > 0 /\ u # dst_unalign) THEN 1 .. n
  ELSE LET first == IF u > 0 THEN Word - u ELSE 0
           left == n - u
       IN (1 .. first) \cup InWords(first, left) \cup InRest(first, left)

Uninitialized == -1
force_ascii(src, u, dst_unalign) == [i \in 1 .. Len(src) |->
  IF i \in Forced(Len(src), u, dst_unalign) THEN src[i] % 128 ELSE Uninitialized]

(* StringBytes::Encode of bytes at an address unaligned by u.              *)
EncodeAs(enc, src, u) ==
  CASE enc = "ascii" -> IF contains_non_ascii(src, u) THEN force_ascii(src, u, 0) ELSE src
    [] enc = "binary" -> src
    [] enc = "base64" -> base64_encode(src)
    [] enc = "hex" -> hex_encode(src)
    [] enc = "ucs2" -> [i \in 1 .. Len(src) \div 2 |-> src[2 * i - 1] + 256 * src[2 * i]]

(* UTF-8: the bytes of a character; a half of one is never written.        *)
Utf8Char(c) == IF c < 128 THEN <<c>>
               ELSE IF c < 2048 THEN <<192 + c \div 64, 128 + (c % 64)>>
               ELSE <<224 + c \div 4096, 128 + ((c \div 64) % 64), 128 + (c % 64)>>
Utf8(str) == FlattenSeq([i \in 1 .. Len(str) |-> Utf8Char(str[i])])
WriteUtf8(str, buflen) ==
  LET fits == {n \in 0 .. Len(str) : Len(Utf8(SubSeq(str, 1, n))) <= buflen}
  IN Utf8(SubSeq(str, 1, CHOOSE n \in fits : \A m \in fits : m <= n))

Write(enc, str, buflen) ==
  LET n == Least(Len(str), buflen)
  IN CASE enc = "ascii" -> SubSeq(str, 1, n)
       [] enc = "utf8" -> WriteUtf8(str, buflen)
       [] enc = "ucs2" -> FlattenSeq([i \in 1 .. n |-> <<str[i] % 256, str[i] \div 256>>])
       [] enc = "base64" -> base64_decode(str, buflen)
       [] enc = "binary" -> [i \in 1 .. n |-> str[i] % 256]
       [] enc = "hex" -> hex_decode(str, buflen)

MayContainNonAscii(str) == \E i \in DOMAIN str : str[i] >= 128

StorageSize(enc, str) ==
  CASE enc \in {"binary", "ascii"} -> Len(str)
    [] enc = "utf8" -> IF MayContainNonAscii(str) THEN 3 * Len(str) ELSE Len(str)
    [] enc = "ucs2" -> 2 * Len(str)
    [] enc = "base64" -> base64_decoded_size_fast(Len(str))
    [] enc = "hex" -> Len(str) \div 2

Size(enc, str) ==
  CASE enc \in {"binary", "ascii"} -> Len(str)
    [] enc = "utf8" -> IF MayContainNonAscii(str) THEN Len(Utf8(str)) ELSE Len(str)
    [] enc = "ucs2" -> 2 * Len(str)
    [] enc = "base64" -> base64_decoded_size(str)
    [] enc = "hex" -> Len(str) \div 2

IsValidString(enc, str) == enc = "hex" => Len(str) % 2 = 0

-----------------------------------------------------------------------------

Seqs(S, n) == UNION {[1 .. m -> S] : m \in 0 .. n}
CharsOf(enc) == CASE enc = "base64" -> {27, Pad, Junk}
                  [] enc = "hex" -> {3, 12, Junk}
                  [] enc = "ascii" -> {65, 66}
                  [] enc = "binary" -> {65, 233}
                  [] OTHER -> {65, 233, 8364}

(* A string is made of a few bytes.                                        *)
Encode(enc, src) ==
  /\ encoding' = enc /\ sgiven' = src /\ room' = -1
  /\ got' = EncodeAs(enc, src, 0)

(* An ASCII string is made of many, at any address, one of them another's. *)
EncodeLong(n, u, other) ==
  LET src == [i \in 1 .. n |-> IF i = other THEN 200 ELSE 65]
  IN /\ encoding' = "ascii" /\ sgiven' = src /\ room' = -1
     /\ got' = EncodeAs("ascii", src, u)

(* A string is written where there is room for some bytes: by StringWrite, *)
(* which has halved the room for UCS-2, or by a caller that has allocated  *)
(* what StorageSize or Size told it.                                       *)
WriteSome(enc, str, n) ==
  /\ IsValidString(enc, str)
  /\ encoding' = enc /\ sgiven' = str /\ room' = n
  /\ got' = Write(enc, str, IF enc = "ucs2" THEN n \div 2 ELSE n)

WriteStored(enc, str, n) ==
  /\ IsValidString(enc, str)
  /\ n \in {StorageSize(enc, str), Size(enc, str)}
  /\ encoding' = enc /\ sgiven' = str /\ room' = n
  /\ got' = Write(enc, str, n)

Return == encoding # "none" /\ encoding' = "none" /\ sgiven' = <<>> /\ got' = <<>> /\ room' = -1

Call ==
  \/ \E enc \in Encodings \ {"ascii", "utf8"}, src \in Seqs(Bytes, MaxBytes) : Encode(enc, src)
  \/ \E n \in LongLengths, u \in 0 .. Word - 1 : \E other \in 0 .. n : EncodeLong(n, u, other)
  \/ \E enc \in Encodings : \E str \in Seqs(CharsOf(enc), MaxChars) :
       \/ \E n \in RoomSizes : WriteSome(enc, str, n)
       \/ \E n \in 0 .. 3 * MaxChars : WriteStored(enc, str, n)

(* One call after the other.                                               *)
Next ==
  \/ encoding = "none" /\ Call
  \/ Return

Spec == Init /\ [][Next]_sbvars

TypeOK ==
  /\ encoding \in Encodings \cup {"none"}
  /\ room \in Nat \cup {-1}
  /\ sgiven \in Seq(Nat) /\ got \in Seq(Nat)

-----------------------------------------------------------------------------

(* Junk put before the i-th character, as a line break would be.           *)
WithJunk(str, i) == SubSeq(str, 1, i - 1) \o <<Junk>> \o SubSeq(str, i, Len(str))
Even(s) == SubSeq(s, 1, Len(s) - (Len(s) % 2))

(* What Encode makes of bytes, Write makes the same bytes again, whatever  *)
(* stands between the digits of base64; an ASCII string is the bytes with  *)
(* the high bit cleared, wherever they lie and however many there are.     *)
RoundTrip ==
  encoding # "none" /\ room = -1 =>
    CASE encoding = "base64" ->
           /\ Write(encoding, got, Size(encoding, got)) = sgiven
           /\ \A i \in DOMAIN got : base64_decode(WithJunk(got, i), Len(sgiven)) = sgiven
      [] encoding = "hex" -> Write(encoding, got, Size(encoding, got)) = sgiven
      [] encoding = "ucs2" -> Write(encoding, got, Len(got)) = Even(sgiven)
      [] encoding = "binary" -> Write(encoding, got, Len(got)) = sgiven
      [] encoding = "ascii" -> got = [i \in DOMAIN sgiven |-> sgiven[i] % 128]

(* No more is written than there is room for, and all of the string where  *)
(* there is the room Size or StorageSize asks for.                         *)
WrittenInRoom ==
  encoding # "none" /\ room >= 0 =>
    /\ Len(got) <= room
    /\ room >= Least(Size(encoding, sgiven), StorageSize(encoding, sgiven)) =>
         got = Write(encoding, sgiven, 3 * MaxChars)

BytesFaithful == RoundTrip /\ WrittenInRoom
=============================================================================
