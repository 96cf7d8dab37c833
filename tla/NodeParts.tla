------------------------------ MODULE NodeParts -------------------------------
(***************************************************************************)
(* The parts of node v0.10.21's core, and of the load generator built with *)
(* it, that hold something for others: memory, strings, requests,          *)
(* callbacks, bytes of a stream, descriptors.  NodeCore runs them, with    *)
(* the parts that turn bytes into what they mean.                          *)
(***************************************************************************)
EXTENDS Naturals, FiniteSets

CONSTANTS
  Handles, Reqs,
  Readers, SlabSize, Sizes, MaxSlabs,
  Bufs, Blocks, PoolSize, Lengths, Args, MaxCuts, U32, SizeT,
  Bytes, MaxBytes, MaxChars, RoomSizes, LongLengths,
  Jobs, Threads,
  HelloSize, MaxStream,
  Queries, Sockets, MaxClosing,
  FsReqs, BufferLength,
  MaxTickDepth, MaxTicks, MaxImmediates, MaxFrames,
  ChunkLength, BufferSize, MaxChunks, MaxOut,
  Conns, Fds, WRequests, MaxSockets

(* Reads ask for some room, there is a descriptor for each connection, and *)
(* data_ holds the header of a frame.                                      *)
ASSUME NodePartsAssumption ==
  /\ SlabSize \in Nat /\ Sizes \subseteq Nat \ {0}
  /\ Conns # {} /\ IsFiniteSet(Conns) /\ IsFiniteSet(Fds)
  /\ Cardinality(Fds) >= Cardinality(Conns) /\ WRequests \in Nat \ {0}
  /\ BufferLength \in Nat /\ ChunkLength \in Nat /\ BufferSize \in Nat
  /\ MaxTicks \in Nat /\ HelloSize \in Nat \ {0, 1}

(* Integers of 32 bits hold every length and offset, and a size_t holds    *)
(* them; block 0 is the one of zeroBuffer.                                 *)
ASSUME BuffersAssumption ==
  /\ U32 \in Nat /\ SizeT \in Nat /\ U32 <= SizeT
  /\ PoolSize \in 0..(U32 - 1) /\ Lengths \subseteq 0..(U32 - 1)
  /\ Args \subseteq 0..(U32 - 1)
  /\ 0 \in Blocks /\ Blocks \subseteq Nat

(* Bytes are bytes, and the bounds on strings are numbers.                 *)
ASSUME StringsAssumption ==
  /\ Bytes \subseteq 0..255 /\ MaxBytes \in Nat /\ MaxChars \in Nat
  /\ RoomSizes \subseteq Nat /\ LongLengths \subseteq Nat

VARIABLES
  kind, wrap, handle, uv, hflags, busy, started, req, frame,
  slab, made, offset, lastPtr, asked, given,
  mem, pool, bufs, touched,
  encoding, sgiven, got, room,
  jwhat, jstate, jfailed, jobj, jinput, joutput, jreq, janswer,
  tserver, hello, hoff, hbody, hframe, tin, bioread, biowrite, tread,
  nextsess, sslsess, sfreed, ssl, terror, tshut, tpeer, tauth,
  query, qkind, viauv, answers, returned, ares_tasks, polling, closing,
  ares_timer, stack,
  fst, fop, fspan, fresult, fpath, ftold, fargs, fbuffer, fjs,
  nextTickQueue, infoBox, inTick, needSpinner, need_tick_cb, tick_spinner,
 using_domains, immediates, need_immediate_cb, frames, phase, exitcode, ran,
  ticksMade,
  zmode, zbusy, zrefs, zdict, zwork, zerr, strm, zbinding, zclosed, zchunk,
 zbuf, zpushed, zcount, zreset,
  wphase, wstop, wnet, wconn, wfired, whalf, wcomplete, hasked, hsockets

handlesVars == <<kind, wrap, handle, uv, hflags, busy, started, req, frame>>
slabVars == <<slab, made, offset, lastPtr, asked, given>>
buffersVars == <<mem, pool, bufs, touched>>
stringsVars == <<encoding, sgiven, got, room>>
jobsVars == <<jwhat, jstate, jfailed, jobj, jinput, joutput, jreq, janswer>>
tlsVars == <<tserver, hello, hoff, hbody, hframe, tin, bioread, biowrite,
             tread, nextsess, sslsess, sfreed, ssl, terror, tshut, tpeer,
             tauth>>
dnsVars == <<query, qkind, viauv, answers, returned, ares_tasks, polling,
             closing, ares_timer, stack>>
filesVars == <<fst, fop, fspan, fresult, fpath, ftold, fargs, fbuffer, fjs>>
ticksVars == <<nextTickQueue, infoBox, inTick, needSpinner, need_tick_cb,
               tick_spinner, using_domains, immediates, need_immediate_cb,
               frames, phase, exitcode, ran, ticksMade>>
zlibVars == <<zmode, zbusy, zrefs, zdict, zwork, zerr, strm, zbinding,
              zclosed, zchunk, zbuf, zpushed, zcount, zreset>>
loadVars == <<wphase, wstop, wnet, wconn, wfired, whalf, wcomplete, hasked,
              hsockets>>

Hdl == INSTANCE NodeHandles
Slb == INSTANCE SlabAllocator
Buf == INSTANCE Buffers
Str == INSTANCE StringBytes
Job == INSTANCE CryptoRequests
Tls == INSTANCE TlsConnection
Dns == INSTANCE CaresQueries
Fil == INSTANCE FileRequests
Tck == INSTANCE ProcessTicks
Zlb == INSTANCE ZlibStreams
Lod == INSTANCE LoadGenerator

(* What says that there is none is none of them.                           *)
ASSUME NoneAssumption == Hdl!NoHandle \notin Handles /\ Hdl!NoReq \notin Reqs
=============================================================================
