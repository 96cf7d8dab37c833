---------------------------- MODULE SlabAllocator ---------------------------
(***************************************************************************)
(* slab_allocator.cc: streams and sockets read into one shared slab.  Each *)
(* object asks for room before a read (Allocate, from OnAlloc) and returns *)
(* what the read left of it (Shrink, from the read callback).              *)
(***************************************************************************)
EXTENDS Naturals

CONSTANTS
  Readers,   \* the wrappers that read
  SlabSize,  \* size_
  Sizes,     \* the sizes libuv suggests
  MaxSlabs   \* bound: how many slabs, and larger single buffers, are made

VARIABLES
  slab,      \* the current slab, 0 before the first
  made,      \* how many slabs and buffers were made
  offset,    \* offset_
  lastPtr,   \* last_ptr_: the offset of the last allocation, {} for NULL
  asked,     \* asked[o]: the room o reads into, or NoRoom
  given      \* history: what JavaScript was handed

svars == <<slab, made, offset, lastPtr, asked, given>>

Align == 16
RoundUp(a, b) == ((a + b - 1) \div b) * b
NewSlab(size) == RoundUp(size, Align)

(* A region of buffer n, which is size bytes long.                         *)
Region(n, size, at, len) == [buf |-> n, size |-> size, at |-> at, len |-> len]
NoRoom == Region(0, 0, 0, 0)

Init ==
  /\ slab = 0 /\ made = 0
  /\ offset = 0 /\ lastPtr = {}
  /\ asked = [o \in Readers |-> NoRoom]
  /\ given = {}

(* Larger than a slab: a buffer of its own.                                *)
AllocateLarge(o, size) ==
  /\ size > SlabSize
  /\ asked' = [asked EXCEPT ![o] = Region(made + 1, NewSlab(size), 0, size)]
  /\ made' = made + 1
  /\ UNCHANGED <<slab, offset, lastPtr>>

AllocateHere(o, size) ==
  /\ slab # 0 /\ offset + size <= SlabSize
  /\ asked' = [asked EXCEPT ![o] = Region(slab, NewSlab(SlabSize), offset, size)]
  /\ lastPtr' = {offset}
  /\ offset' = offset + size
  /\ UNCHANGED <<slab, made>>

AllocateNew(o, size) ==
  /\ size <= SlabSize /\ (slab = 0 \/ offset + size > SlabSize)
  /\ slab' = made + 1 /\ made' = made + 1
  /\ asked' = [asked EXCEPT ![o] = Region(made + 1, NewSlab(SlabSize), 0, size)]
  /\ lastPtr' = {0}
  /\ offset' = size

(* A reader has one read at a time.                                        *)
Allocate(o, size) ==
  /\ asked[o] = NoRoom /\ made < MaxSlabs
  /\ AllocateLarge(o, size) \/ AllocateHere(o, size) \/ AllocateNew(o, size)
  /\ UNCHANGED given

IsLast(room) == room.buf = slab /\ room.at \in lastPtr

(* Slip: any allocation gives its room back.                               *)
ShrinkAny(o, nread) ==
  /\ asked[o] # NoRoom /\ nread <= asked[o].len
  /\ asked' = [asked EXCEPT ![o] = NoRoom]
  /\ lastPtr' = {} /\ offset' = asked[o].at + RoundUp(nread, Align)
  /\ given' = IF nread = 0 THEN given ELSE given \cup {[asked[o] EXCEPT !.len = nread]}
  /\ UNCHANGED <<slab, made>>

(* Only the last allocation can give room back; the others keep all of     *)
(* theirs.  nread is 0 after an error, the end, or a read of nothing.      *)
Shrink(o, nread) ==
  /\ asked[o] # NoRoom /\ nread <= asked[o].len
  /\ asked' = [asked EXCEPT ![o] = NoRoom]
  /\ IF IsLast(asked[o])
     THEN lastPtr' = {} /\ offset' = asked[o].at + RoundUp(nread, Align)
     ELSE UNCHANGED <<lastPtr, offset>>
  /\ given' = IF nread = 0 THEN given ELSE given \cup {[asked[o] EXCEPT !.len = nread]}
  /\ UNCHANGED <<slab, made>>

Next ==
  \E o \in Readers :
    \/ \E size \in Sizes : Allocate(o, size)
    \/ \E nread \in {0, 7} \cup Sizes : Shrink(o, nread)

Spec == Init /\ [][Next]_svars

-----------------------------------------------------------------------------
Rooms == given \cup {asked[o] : o \in {p \in Readers : asked[p] # NoRoom}}

Apart(r, s) == r.buf # s.buf \/ r.at + r.len <= s.at \/ s.at + s.len <= r.at

TypeOK ==
  /\ slab \in 0..MaxSlabs /\ made \in 0..MaxSlabs
  /\ offset \in Nat
  /\ lastPtr \in SUBSET (0..SlabSize)
  /\ \A r \in Rooms : r.buf \in 1..made /\ r.at \in Nat /\ r.len \in Nat

(* What a read writes into overlaps neither another read's room nor bytes  *)
(* that JavaScript already holds, and lies in its buffer, whatever the     *)
(* order in which the reads of several streams end (slab_allocator.cc).    *)
RoomsApart ==
  /\ \A r \in Rooms : r.at + r.len <= r.size
  /\ \A o, p \in Readers :
       o # p /\ asked[o] # NoRoom /\ asked[p] # NoRoom => Apart(asked[o], asked[p])
  /\ \A o \in Readers : asked[o] # NoRoom => \A g \in given : Apart(asked[o], g)
=============================================================================
