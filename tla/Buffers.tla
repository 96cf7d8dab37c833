------------------------------- MODULE Buffers -------------------------------
(***************************************************************************)
(* node_buffer.cc and the part of lib/buffer.js that calls it: blocks of   *)
(* memory (SlowBuffer), the pool small buffers are cut from, and buffers,  *)
(* each a view of a range of a block.  What is in the bytes is left out;   *)
(* which bytes a call reads or writes, and through which view, is kept.    *)
(* undefined and NaN stand for what the code replaces them by, a number    *)
(* before or behind the buffer.                                            *)
(***************************************************************************)
EXTENDS Integers, FiniteSets

CONSTANTS
  Bufs,      \* the buffers a script holds
  Blocks,    \* bound: the blocks of memory, 0 the one of zeroBuffer
  PoolSize,  \* Buffer.poolSize
  Lengths,   \* bound: the lengths asked for
  Args,      \* bound: the offsets a script passes, beside -2 and 0
  MaxCuts,   \* bound: how often what was sliced is sliced again
  U32,       \* 2^32, scaled down: what ToUint32 wraps at
  SizeT      \* SIZE_MAX + 1, scaled down

VARIABLES
  mem,       \* per block its length_, or Unallocated
  pool,      \* the block small buffers are cut from, and pool.used
  bufs,      \* per buffer parent, offset and length, and what it was cut from
  touched    \* the ranges the call under way touches, each with its view,
             \* and whether the call was told not to check it

bvars == <<mem, pool, bufs, touched>>

Ints == Args \cup {-2, 0}
NoBuf == [parent |-> 0, off |-> 0, len |-> -1, kin |-> <<>>, cuts |-> 0]
Unallocated == -1
Lowest(S) == {k \in S : \A j \in S : k <= j}
Least(a, b) == IF a < b THEN a ELSE b
Held == {b \in Bufs : bufs[b] # NoBuf}
Whole(blk) == [parent |-> blk, off |-> 0, len |-> mem[blk], kin |-> <<blk>>, cuts |-> 0]
Span(view, lo, hi, noAssert) == [view |-> view, lo |-> lo, hi |-> hi, noAssert |-> noAssert]
Touch(view, lo, hi) == IF lo = hi THEN {} ELSE {Span(view, lo, hi, FALSE)}

Init ==
  /\ mem = [k \in Blocks |-> IF k = 0 THEN 0 ELSE Unallocated]
  /\ pool = [blk |-> 0, used |-> 0]
  /\ bufs = [b \in Bufs |-> NoBuf]
  /\ touched = {}

(* The methods of SlowBuffer: what a call with these arguments touches.    *)
SLICE_ARGS(blk, start, end) ==
  0 <= start /\ start <= end /\ end % SizeT <= mem[blk]

StringSlice(view, start, end) ==
  IF SLICE_ARGS(view.parent, start, end) THEN Touch(view, start, end) ELSE {}

Fill(view, start, end) ==
  IF SLICE_ARGS(view.parent, start, end) THEN Touch(view, start, end) ELSE {}

Copy(target, source, target_start, source_start, source_end) ==
  LET to == target_start % U32  from == source_start % U32  until == source_end % U32
      length == mem[source.parent]
      room == mem[target.parent] - to
      to_copy == Least(Least(until - from, room), length - from)
  IN IF until <= from \/ to >= mem[target.parent] \/ from >= length \/ until > length
     THEN {}
     ELSE Touch(target, to, to + to_copy) \cup Touch(source, from, from + to_copy)

(* n characters of unit bytes each, written at offset.                     *)
StringWrite(view, n, unit, offset, max_length) ==
  LET length == mem[view.parent]
      at == offset % SizeT
      room == Least((length - at) % SizeT, max_length % U32) \div unit
  IN IF n = 0 \/ at >= length THEN {} ELSE Touch(view, at, at + unit * Least(n, room))

(* A float or a double.  With noAssert nothing is checked: a read is at    *)
(* data + offset, and a write is there too, the offset taken by ToUint32.  *)
ReadFloatGeneric(view, size, offset, noAssert) ==
  IF ~noAssert /\ (offset < 0 \/ offset + size > mem[view.parent])
  THEN {} ELSE {Span(view, offset, offset + size, noAssert)}

WriteFloatGeneric(view, size, offset, noAssert) ==
  LET at == offset % U32
  IN IF ~noAssert /\ (offset < 0 \/ at + size > mem[view.parent])
     THEN {} ELSE {Span(view, at, at + size, noAssert)}

(* The sum is one of 32 bits, and is checked for a wrap after the rest.    *)
MakeFastBuffer(blk, offset, length) ==
  /\ offset <= mem[blk]
  /\ (offset + length) % U32 <= mem[blk]
  /\ (offset + length) % U32 >= offset

(* new SlowBuffer(n), or ~Buffer: memory of its own, or with a callback    *)
(* that is given it back.                                                  *)
Replace(k, n) == [mem EXCEPT ![k] = n]
Unused == Lowest({k \in Blocks : mem[k] = Unallocated})

(* Where the constructor of Buffer puts n bytes.                           *)
Align(n) == ((n + 7) \div 8) * 8
Fits(n) == pool.blk # 0 /\ mem[pool.blk] - pool.used >= n
Place(n) ==
  IF n > PoolSize THEN {[blk |-> k, off |-> 0, mem |-> Replace(k, n), pool |-> pool]
                          : k \in Unused}
  ELSE IF n = 0 THEN {[blk |-> 0, off |-> 0, mem |-> mem, pool |-> pool]}
  ELSE IF Fits(n) THEN {[blk |-> pool.blk, off |-> pool.used, mem |-> mem,
                          pool |-> [pool EXCEPT !.used = Align(pool.used + n)]]}
  ELSE {[blk |-> k, off |-> 0, mem |-> Replace(k, PoolSize),
          pool |-> [blk |-> k, used |-> Align(n)]] : k \in Unused}

View(blk, off, n) == [parent |-> blk, off |-> off, len |-> n, kin |-> <<blk, off>>, cuts |-> 0]

(* new Buffer(n), and new Buffer of an array or of a string of n bytes, of *)
(* which only some are written if it holds characters that are skipped.    *)
NewBuffer(b, n, written, filled) ==
  /\ bufs[b] = NoBuf /\ written <= n
  /\ \E at \in Place(n) :
       /\ mem' = at.mem /\ pool' = at.pool
       /\ bufs' = [bufs EXCEPT ![b] = View(at.blk, at.off, written)]
       /\ touched' = IF filled THEN Touch(View(at.blk, at.off, n), at.off, at.off + written) ELSE {}

(* new Buffer(buffer): the bytes are copied by subject.parent.copy.        *)
NewBufferOf(b, s) ==
  /\ bufs[b] = NoBuf /\ s \in Held
  /\ \E at \in Place(bufs[s].len) :
       /\ mem' = at.mem /\ pool' = at.pool
       /\ bufs' = [bufs EXCEPT ![b] = View(at.blk, at.off, bufs[s].len)]
       /\ touched' = Touch(View(at.blk, at.off, bufs[s].len), at.off, at.off + bufs[s].len)
                     \cup Touch(bufs[s], bufs[s].off, bufs[s].off + bufs[s].len)

(* Buffer::New(data, length, callback, hint), handed to the script.        *)
NewExternal(b, n) ==
  /\ bufs[b] = NoBuf
  /\ \E k \in Unused :
       /\ mem' = Replace(k, n)
       /\ bufs' = [bufs EXCEPT ![b] = View(k, 0, n)]
  /\ UNCHANGED <<pool, touched>>

clamp(index, len) == IF index >= len THEN len
                     ELSE IF index >= 0 THEN index
                     ELSE IF index + len >= 0 THEN index + len ELSE 0

(* buffer.slice: a further view of the same block.                         *)
Slice(b, s, start, end) ==
  LET v == bufs[s]
      from == clamp(start, v.len)
      n == clamp(end, v.len) - from
      length == IF n > 0 THEN n ELSE 0
  IN /\ bufs[b] = NoBuf /\ s \in Held /\ v.cuts < MaxCuts
     /\ MakeFastBuffer(v.parent, v.off + from, length)
     /\ bufs' = [bufs EXCEPT ![b] = [v EXCEPT !.off = @ + from, !.len = length, !.cuts = @ + 1]]
     /\ UNCHANGED <<mem, pool, touched>>

(* A slip: the length a script asks for is not cut to what remains.        *)
WriteRoomUnclipped(v, offset, length) ==
  IF length = 0 THEN v.len - offset ELSE length

(* The methods of Buffer: how each checks its arguments before it calls    *)
(* the method of its parent with the offsets of the block.                 *)
WriteRoom(v, offset, length) ==
  IF length = 0 \/ length > v.len - offset THEN v.len - offset ELSE length

BufferWrite(v, n, unit, offset, length) ==
  LET room == WriteRoom(v, offset, length)
  IN IF n > 0 /\ (room < 0 \/ offset < 0) THEN {}
     ELSE StringWrite(v, n, unit, v.off + offset, room)

BufferToString(v, start, end) ==
  LET from == IF start < 0 THEN 0 ELSE Least(start, v.len)
      until == IF end < 0 THEN 0 ELSE Least(end, v.len)
  IN StringSlice(v, from + v.off, until + v.off)

BufferFill(v, start, end) ==
  LET until == IF end = 0 THEN v.len ELSE end
  IN IF until <= start \/ v.len = 0 \/ start < 0 \/ start >= v.len \/ until > v.len THEN {}
     ELSE Fill(v, start + v.off, until + v.off)

BufferCopy(t, v, target_start, start, end) ==
  LET to == IF target_start < 0 THEN 0 ELSE target_start
      from == IF start < 0 THEN 0 ELSE start
      until == Least(end, v.len)
      last == Least(until, t.len - to + from)
  IN IF until <= from \/ t.len = 0 \/ v.len = 0 \/ from > v.len \/ to >= t.len THEN {}
     ELSE Copy(t, v, to + t.off, from + v.off, last + v.off)

checkOffset(v, size, offset) == offset >= 0 /\ offset + size <= v.len

BufferReadFloat(v, size, offset, noAssert) ==
  IF noAssert \/ checkOffset(v, size, offset)
  THEN ReadFloatGeneric(v, size, v.off + offset, noAssert) ELSE {}

BufferWriteFloat(v, size, offset, noAssert) ==
  IF noAssert \/ checkOffset(v, size, offset)
  THEN WriteFloatGeneric(v, size, v.off + offset, noAssert) ELSE {}

Use(b, i, j, n) ==
  LET v == bufs[b]
  IN /\ b \in Held
     /\ \/ \E unit \in 1 .. 2 : touched' = BufferWrite(v, n, unit, i, j)
        \/ touched' = BufferToString(v, i, j)
        \/ touched' = BufferFill(v, i, j)
        \/ \E t \in Held : touched' = BufferCopy(bufs[t], v, n, i, j)
        \/ \E size \in {4, 8}, noAssert \in BOOLEAN :
             \/ touched' = BufferReadFloat(v, size, i, noAssert)
             \/ touched' = BufferWriteFloat(v, size, i, noAssert)
     /\ touched' # {}
     /\ UNCHANGED <<mem, pool, bufs>>

(* A script reaches the SlowBuffer under a buffer as its parent, and calls *)
(* the same methods with whatever it likes.                                *)
UseSlow(b, i, j, n) ==
  LET v == Whole(bufs[b].parent)
  IN /\ b \in Held
     /\ \/ \E unit \in 1 .. 2 : touched' = StringWrite(v, n, unit, i, j)
        \/ touched' = StringSlice(v, i, j)
        \/ touched' = Fill(v, i, j)
        \/ \E t \in Held : touched' = Copy(Whole(bufs[t].parent), v, n, i, j)
        \/ \E size \in {4, 8}, noAssert \in BOOLEAN :
             \/ touched' = ReadFloatGeneric(v, size, i, noAssert)
             \/ touched' = WriteFloatGeneric(v, size, i, noAssert)
     /\ touched' # {}
     /\ UNCHANGED <<mem, pool, bufs>>

(* The call returns.                                                       *)
Return ==
  /\ touched # {}
  /\ touched' = {}
  /\ UNCHANGED <<mem, pool, bufs>>

(* The script lets a buffer go.                                            *)
Drop(b) ==
  /\ b \in Held
  /\ bufs' = [bufs EXCEPT ![b] = NoBuf]
  /\ UNCHANGED <<mem, pool, touched>>

(* The collector takes a SlowBuffer nothing leads to, and ~Buffer its      *)
(* memory: a free_callback is called, or the block deleted.                *)
CollectBlock(k) ==
  /\ mem[k] # Unallocated /\ k \notin {0, pool.blk}
  /\ \A b \in Held : bufs[b].parent # k
  /\ mem' = Replace(k, Unallocated)
  /\ UNCHANGED <<pool, bufs, touched>>

Call ==
  \/ \E b \in Bufs, n \in Lengths :
       \/ \E short \in {0, 1} : n >= short /\ NewBuffer(b, n, n - short, TRUE)
       \/ NewBuffer(b, n, n, FALSE)
       \/ NewExternal(b, n)
  \/ \E b, s \in Bufs : NewBufferOf(b, s) \/ \E i, j \in Ints \ {0} : Slice(b, s, i, j)
  \/ \E b \in Bufs, i, j \in Ints, n \in Args : Use(b, i, j, n) \/ UseSlow(b, i, j, n)
  \/ \E b \in Bufs : Drop(b)
  \/ \E k \in Blocks : CollectBlock(k)

(* One call after the other: nothing here runs beside a call.              *)
Next ==
  \/ touched = {} /\ Call
  \/ Return

Spec == Init /\ [][Next]_bvars

TypeOK ==
  /\ \A k \in Blocks : mem[k] \in Nat \cup {Unallocated}
  /\ pool.blk \in Blocks /\ pool.used \in 0 .. PoolSize
  /\ \A b \in Bufs : bufs[b] = NoBuf \/ bufs[b].parent \in Blocks

-----------------------------------------------------------------------------

Inside(v) == mem[v.parent] # Unallocated /\ v.off >= 0 /\ v.off + v.len <= mem[v.parent]

(* A buffer lies in memory that has not been given back; no call touches a *)
(* byte outside the buffer it is a method of, or was given, but one that   *)
(* reads or writes a float or a double and was told not to check where;    *)
(* and buffers that were not sliced from one another share no byte of the  *)
(* pool (makeFastBuffer, SLICE_ARGS, StringWrite, Buffer.prototype.write   *)
(* and the noAssert of ReadFloatGeneric and WriteFloatGeneric).            *)
ViewsApart ==
  /\ \A b \in Held : Inside(bufs[b])
  /\ \A t \in touched :
       /\ Inside(t.view)
       /\ t.noAssert \/ (t.view.off <= t.lo /\ t.hi <= t.view.off + t.view.len)
  /\ \A b, c \in Held : bufs[b].kin # bufs[c].kin =>
       \/ bufs[b].parent # bufs[c].parent
       \/ bufs[b].off + bufs[b].len <= bufs[c].off
       \/ bufs[c].off + bufs[c].len <= bufs[b].off
=============================================================================
