----------------------------- MODULE ZlibStreams -----------------------------
(***************************************************************************)
(* node_zlib.cc with ObjectWrap's counter of references, driven by         *)
(* Zlib.prototype._transform of lib/zlib.js: one stream, whose chunks are  *)
(* worked on by a thread of libuv's pool while the script goes on.  What   *)
(* zlib makes of the bytes is left out; how many it takes and gives, and   *)
(* where, is kept.  A failed assertion ends the process.                   *)
(***************************************************************************)
EXTENDS Naturals, FiniteSets

CONSTANTS
  ChunkLength,  \* bound: how long a chunk is
  BufferSize,   \* _chunkSize, the length of the buffer that is written to
  MaxChunks,    \* bound: how many chunks are given
  MaxOut        \* bound: how much zlib gives in all

VARIABLES
  zmode,     \* mode_: "new" (not init_done_), "open", "none" or "aborted"
  zbusy,     \* write_in_progress_
  zrefs,     \* refs_
  zdict,     \* dictionary_: "none", "held" or "freed"
  zwork,     \* work_req_: "none", "queued", "working" or "worked"
  zerr,      \* err_: "ok", "end", "need_dict" or "data" (any other)
  strm,      \* next_in and avail_in, next_out and avail_out, as offsets
  zbinding,  \* the script's _binding: "held", or "null" after an error
  zclosed,   \* _closed
  zchunk,    \* the chunk: whether there is one, inOff and availInBefore, and
             \* (history) the err_ it was done with
  zbuf,      \* _buffer and _offset, counting the buffers, and availOutBefore
  zpushed,   \* history: what the consumer was given
  zcount,    \* history: chunks given, cb called, errors emitted, bytes made
  zreset     \* history: a reset "raced" with the thread, or came "late", when
             \* the thread had ended but After had not seen how; or "none" did

zvars == <<zmode, zbusy, zrefs, zdict, zwork, zerr, strm, zbinding, zclosed,
           zchunk, zbuf, zpushed, zcount, zreset>>

NoChunk == [on |-> FALSE, inOff |-> 0, avail |-> 0, err |-> "ok"]

Init ==
  /\ zmode = "new" /\ zbusy = FALSE /\ zrefs = 0 /\ zdict = "none" /\ zwork = "none"
  /\ zerr = "ok" /\ strm = [in |-> 0, avail_in |-> 0, out |-> 0, avail_out |-> 0, to |-> 0]
  /\ zbinding = "held" /\ zclosed = FALSE /\ zchunk = NoChunk
  /\ zbuf = [gen |-> 0, offset |-> 0, avail |-> 0] /\ zpushed = {}
  /\ zcount = [given |-> 0, done |-> 0, errors |-> 0, made |-> 0]
  /\ zreset = "none"

(* An assertion fails, and with it the process.                            *)
Abort ==
  /\ zmode' = "aborted"
  /\ UNCHANGED <<zbusy, zrefs, zdict, zwork, zerr, strm, zbinding, zclosed, zchunk,
                 zbuf, zpushed, zcount, zreset>>

(* ZCtx::New and Init, with or without a dictionary.                       *)
ZInit(dictionary) ==
  /\ zmode = "new"
  /\ zmode' = "open" /\ zdict' = IF dictionary THEN "held" ELSE "none"
  /\ UNCHANGED <<zbusy, zrefs, zwork, zerr, strm, zbinding, zclosed, zchunk, zbuf,
                 zpushed, zcount, zreset>>

(* Where zlib has no memory for the stream, Error tells the script and     *)
(* calls Unref, which asserts that there was a Ref.                        *)
ZInitFails == zmode = "new" /\ Abort

(* What ctx->Write asserts of the stream and of its arguments.             *)
MayWrite(in_off, in_len, out_off, out_len) ==
  /\ zmode = "open" /\ ~zbusy
  /\ in_off + in_len <= ChunkLength
  /\ out_off + out_len <= BufferSize

Pointed(in_off, in_len, out_off, out_len, gen) ==
  [in |-> in_off, avail_in |-> in_len, out |-> out_off, avail_out |-> out_len, to |-> gen]

(* _transform of a chunk, which the writable side gives one at a time.     *)
Transform(n) ==
  /\ zmode \in {"open", "none"} /\ zbinding = "held" /\ ~zchunk.on
  /\ zcount.given < MaxChunks
  /\ IF ~MayWrite(0, n, zbuf.offset, BufferSize - zbuf.offset) THEN Abort
     ELSE /\ zbusy' = TRUE /\ zrefs' = zrefs + 1 /\ zwork' = "queued"
          /\ strm' = Pointed(0, n, zbuf.offset, BufferSize - zbuf.offset, zbuf.gen)
          /\ zchunk' = [NoChunk EXCEPT !.on = TRUE, !.avail = n]
          /\ zbuf' = [zbuf EXCEPT !.avail = BufferSize - zbuf.offset]
          /\ zcount' = [zcount EXCEPT !.given = @ + 1]
          /\ zreset' = IF zreset = "raced" THEN "raced" ELSE "none"
          /\ UNCHANGED <<zmode, zdict, zerr, zbinding, zclosed, zpushed>>

Begin ==
  /\ zmode # "aborted" /\ zwork = "queued" /\ zwork' = "working"
  /\ UNCHANGED <<zmode, zbusy, zrefs, zdict, zerr, strm, zbinding, zclosed, zchunk,
                 zbuf, zpushed, zcount, zreset>>

(* deflate or inflate takes taken bytes and makes made of them.  It stops  *)
(* where there is no more input or no more room, or at the stream's end;   *)
(* once a reset has raced with it, anywhere within both.                   *)
Process(taken, made, err) ==
  /\ zmode # "aborted" /\ zwork = "working" /\ zwork' = "worked"
  /\ taken <= strm.avail_in /\ made <= strm.avail_out /\ zcount.made + made <= MaxOut
  /\ err = "ok" /\ zreset # "raced" => taken = strm.avail_in \/ made = strm.avail_out
  /\ zerr' = err
  /\ strm' = [strm EXCEPT !.in = @ + taken, !.avail_in = @ - taken,
                          !.out = @ + made, !.avail_out = @ - made]
  /\ zcount' = [zcount EXCEPT !.made = @ + made]
  /\ UNCHANGED <<zmode, zbusy, zrefs, zdict, zbinding, zclosed, zchunk, zbuf, zpushed, zreset>>

(* A data race may end the process.                                        *)
RaceEnds == zmode # "aborted" /\ zwork = "working" /\ zreset = "raced" /\ Abort

Fatal == zerr \in {"need_dict", "data"}

(* After an error: onerror takes the binding from the script and emits     *)
(* 'error'; only then is the write over.                                   *)
AfterError ==
  /\ zmode # "aborted" /\ zwork = "worked" /\ zrefs > 0 /\ Fatal
  /\ zbinding' = "null" /\ zcount' = [zcount EXCEPT !.errors = @ + 1]
  /\ zbusy' = FALSE /\ zrefs' = zrefs - 1 /\ zwork' = "none"
  /\ UNCHANGED <<zmode, zdict, zerr, strm, zclosed, zchunk, zbuf, zpushed, zreset>>

(* After when a reset that failed has called Unref before it: there may be *)
(* an error to emit again, and Unref asserts that there was a Ref.         *)
AfterUnheld ==
  /\ zmode # "aborted" /\ zwork = "worked" /\ zrefs = 0
  /\ zmode' = "aborted"
  /\ zcount' = [zcount EXCEPT !.errors = IF Fatal THEN @ + 1 ELSE @]
  /\ UNCHANGED <<zbusy, zrefs, zdict, zwork, zerr, strm, zbinding, zclosed, zchunk,
                 zbuf, zpushed, zreset>>

(* The consumer is given what was made, in a slice of _buffer, and the     *)
(* next buffer is begun when this one is full.                             *)
Have == zbuf.avail - strm.avail_out
Served == IF Have = 0 THEN zpushed
          ELSE zpushed \cup {[gen |-> zbuf.gen, lo |-> zbuf.offset, hi |-> zbuf.offset + Have]}
(* A slip: a full buffer is written to again from its beginning.           *)
NextBufferKept ==
  IF strm.avail_out = 0 \/ zbuf.offset + Have >= BufferSize
  THEN [gen |-> zbuf.gen, offset |-> 0, avail |-> BufferSize]
  ELSE [zbuf EXCEPT !.offset = @ + Have]

NextBuffer ==
  IF strm.avail_out = 0 \/ zbuf.offset + Have >= BufferSize
  THEN [gen |-> zbuf.gen + 1, offset |-> 0, avail |-> BufferSize]
  ELSE [zbuf EXCEPT !.offset = @ + Have]

Consumed == zchunk.avail - strm.avail_in
AfterOk == zmode # "aborted" /\ zwork = "worked" /\ zrefs > 0 /\ ~Fatal

(* The room was used up: the rest of the chunk is written again, from      *)
(* within the callback, and After's Unref undoes the first Ref only.       *)
AfterMore ==
  /\ AfterOk /\ strm.avail_out = 0
  /\ zwork' = "queued" /\ zbusy' = TRUE
  /\ zpushed' = Served /\ zbuf' = NextBuffer
  /\ zchunk' = [zchunk EXCEPT !.inOff = @ + Consumed, !.avail = strm.avail_in]
  /\ strm' = Pointed(zchunk.inOff + Consumed, strm.avail_in, 0, BufferSize, NextBuffer.gen)
  /\ UNCHANGED <<zmode, zrefs, zdict, zerr, zbinding, zclosed, zcount, zreset>>

ChunkDone == [zchunk EXCEPT !.on = FALSE, !.inOff = @ + Consumed, !.avail = strm.avail_in,
                            !.err = zerr]

(* The chunk is done.                                                      *)
AfterDone ==
  /\ AfterOk /\ strm.avail_out > 0
  /\ zwork' = "none" /\ zbusy' = FALSE /\ zrefs' = zrefs - 1
  /\ zpushed' = Served /\ zbuf' = NextBuffer
  /\ zchunk' = ChunkDone
  /\ zcount' = [zcount EXCEPT !.done = @ + 1]
  /\ UNCHANGED <<zmode, zdict, zerr, strm, zbinding, zclosed, zreset>>

(* ZCtx::Close: ends the stream and frees the dictionary.                  *)
CloseCtx == zmode' = "none" /\ zdict' = IF zdict = "held" THEN "freed" ELSE zdict

(* The script's close, at the stream's end or whenever it likes.  While a  *)
(* chunk is worked on it fails an assertion; after an error it throws.     *)
ScriptClose ==
  /\ zmode \in {"open", "none"} /\ ~zclosed
  /\ IF zbinding = "null"
     THEN zclosed' = TRUE /\ UNCHANGED <<zmode, zbusy, zrefs, zdict, zwork, zerr, strm,
                                         zbinding, zchunk, zbuf, zpushed, zcount, zreset>>
     ELSE IF zbusy THEN Abort
     ELSE /\ CloseCtx /\ zclosed' = TRUE
          /\ UNCHANGED <<zbusy, zrefs, zwork, zerr, strm, zbinding, zchunk, zbuf,
                         zpushed, zcount, zreset>>

(* A consumer closes the stream as it is given a slice, by the callback of *)
(* the write; where that has more to write it finds the stream finalized.  *)
ClosedWithin ==
  /\ AfterOk /\ ~zclosed /\ Have > 0
  /\ IF strm.avail_out = 0 THEN Abort
     ELSE /\ CloseCtx /\ zclosed' = TRUE
          /\ zwork' = "none" /\ zbusy' = FALSE /\ zrefs' = zrefs - 1
          /\ zpushed' = Served /\ zbuf' = NextBuffer
          /\ zchunk' = ChunkDone
          /\ zcount' = [zcount EXCEPT !.done = @ + 1]
          /\ UNCHANGED <<zerr, strm, zbinding, zreset>>

(* The script resets the stream, whenever it likes: err_ is forgotten, and *)
(* a thread that works on the stream is raced with.  Of a stream that was  *)
(* closed only err_ is reset.                                              *)
ScriptReset ==
  /\ zmode \in {"open", "none"} /\ zbinding = "held"
  /\ zerr' = "ok"
  /\ zreset' = CASE zwork = "working" -> "raced"
                 [] zwork = "worked" /\ zerr # "ok" /\ zreset = "none" -> "late"
                 [] OTHER -> zreset
  /\ UNCHANGED <<zmode, zbusy, zrefs, zdict, zwork, strm, zbinding, zclosed, zchunk, zbuf,
                 zpushed, zcount>>

(* The thread begins to write between Reset and SetDictionary, which zlib  *)
(* then refuses: Error, with the thread still at work.                     *)
ResetFails ==
  /\ zmode = "open" /\ zbinding = "held" /\ zwork = "working" /\ zdict = "held"
  /\ zerr' = "data" /\ zreset' = "raced"
  /\ zbinding' = "null" /\ zcount' = [zcount EXCEPT !.errors = @ + 1]
  /\ zbusy' = FALSE /\ zrefs' = zrefs - 1
  /\ UNCHANGED <<zmode, zdict, zwork, strm, zclosed, zchunk, zbuf, zpushed>>

(* The collector takes a stream nobody refers to, and ~ZCtx closes it,     *)
(* which a thread that works on it does not survive.                       *)
ZCollect ==
  /\ zmode = "open" /\ zrefs = 0
  /\ IF zwork # "none" THEN Abort
     ELSE /\ CloseCtx /\ zbinding' = "null" /\ zclosed' = TRUE
          /\ UNCHANGED <<zbusy, zrefs, zwork, zerr, strm, zchunk, zbuf, zpushed, zcount, zreset>>

Next ==
  \/ \E d \in BOOLEAN : ZInit(d)
  \/ ZInitFails
  \/ \E n \in {0, ChunkLength} : Transform(n)
  \/ Begin
  \/ \E taken \in 0 .. ChunkLength, made \in 0 .. BufferSize,
        err \in {"ok", "end", "need_dict", "data"} : Process(taken, made, err)
  \/ RaceEnds
  \/ AfterError \/ AfterUnheld \/ AfterMore \/ AfterDone
  \/ ScriptClose \/ ClosedWithin \/ ScriptReset \/ ResetFails \/ ZCollect

Spec == Init /\ [][Next]_zvars

TypeOK ==
  /\ zmode \in {"new", "open", "none", "aborted"} /\ zbusy \in BOOLEAN /\ zrefs \in 0 .. 1
  /\ zdict \in {"none", "held", "freed"} /\ zwork \in {"none", "queued", "working", "worked"}
  /\ zerr \in {"ok", "end", "need_dict", "data"} /\ zbinding \in {"held", "null"}
  /\ zclosed \in BOOLEAN /\ zchunk.on \in BOOLEAN
  /\ zreset \in {"none", "late", "raced"}

-----------------------------------------------------------------------------

Overlap(a, b) == a.gen = b.gen /\ a.lo < b.hi /\ b.lo < a.hi

(* While a thread works on a chunk the stream is open and is referred to,  *)
(* and what it reads and writes lies in the chunk and in the buffer, apart *)
(* from every slice the consumer was given; slices are apart too.  A chunk *)
(* is reported done once, with all of it taken unless the stream ended,    *)
(* and never after an error, of which there is one (Write, Process, After, *)
(* Error and Close of node_zlib.cc).  The script's reset may spoil three   *)
(* of these, and no more: when it comes late, or raced with the thread, a  *)
(* chunk may be done with a part not taken and nobody told; and when it    *)
(* raced, nothing may refer to the stream, and there may be two errors.    *)
ZlibKeepsItsBuffers ==
  /\ zmode # "aborted" /\ zwork # "none" =>
       /\ zmode = "open" /\ zchunk.on /\ (zreset # "raced" => zrefs = 1 /\ zbusy)
       /\ strm.in + strm.avail_in <= ChunkLength
       /\ strm.out + strm.avail_out <= BufferSize
       /\ \A p \in zpushed : ~Overlap(p, [gen |-> strm.to, lo |-> zbuf.offset,
                                          hi |-> strm.out + strm.avail_out])
  /\ \A p, q \in zpushed : p # q => ~Overlap(p, q)
  /\ \A p \in zpushed : p.lo < p.hi /\ p.hi <= BufferSize
  /\ zcount.done <= zcount.given /\ zcount.given <= zcount.done + 1
  /\ zcount.errors > 0 => zchunk.on
  /\ ~zchunk.on /\ zchunk.err = "ok" /\ zreset = "none" => zchunk.avail = 0
  /\ zreset # "raced" => zcount.errors <= 1
=============================================================================
