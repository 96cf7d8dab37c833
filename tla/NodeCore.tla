------------------------------ MODULE NodeCore ------------------------------
(***************************************************************************)
(* The parts of node v0.10.21's C and C++ core, and of the load generator  *)
(* built with it, side by side.  They share no state of the model, so each *)
(* is run alone: an interleaving of two of them reaches no state of either *)
(* that the part does not reach by itself.  Part names the one that runs.  *)
(***************************************************************************)
EXTENDS NodeParts, NodeData

VARIABLE part

Init ==
  /\ part \in {"handles", "slab", "http", "url", "contexts", "objects", "dh",
              "jobs", "tls", "dns", "sockets", "files", "ticks", "buffers",
              "strings", "zlib", "binding", "load"}
  /\ Hdl!Init
  /\ Slb!Init
  /\ Htp!Init
  /\ Url!Init
  /\ Ctx!Init
  /\ Obj!Init
  /\ Dh!Init
  /\ Job!Init
  /\ Tls!Init
  /\ Dns!Init
  /\ Tree!Init
  /\ Fil!Init
  /\ Tck!Init
  /\ Buf!Init
  /\ Str!Init
  /\ Zlb!Init
  /\ Hbi!Init
  /\ Lod!Init

(* The other parts stand still.                                            *)
OthersStill ==
  /\ UNCHANGED part
  /\ part # "handles" => UNCHANGED handlesVars
  /\ part # "slab" => UNCHANGED slabVars
  /\ part # "http" => UNCHANGED httpVars
  /\ part # "url" => UNCHANGED urlVars
  /\ part # "contexts" => UNCHANGED contextsVars
  /\ part # "objects" => UNCHANGED objectsVars
  /\ part # "dh" => UNCHANGED dhVars
  /\ part # "jobs" => UNCHANGED jobsVars
  /\ part # "tls" => UNCHANGED tlsVars
  /\ part # "dns" => UNCHANGED dnsVars
  /\ part # "sockets" => UNCHANGED socketsVars
  /\ part # "files" => UNCHANGED filesVars
  /\ part # "ticks" => UNCHANGED ticksVars
  /\ part # "buffers" => UNCHANGED buffersVars
  /\ part # "strings" => UNCHANGED stringsVars
  /\ part # "zlib" => UNCHANGED zlibVars
  /\ part # "binding" => UNCHANGED bindingVars
  /\ part # "load" => UNCHANGED loadVars

HandlesStep == part = "handles" /\ Hdl!Next /\ OthersStill
SlabStep == part = "slab" /\ Slb!Next /\ OthersStill
HttpStep == part = "http" /\ Htp!Next /\ OthersStill
UrlStep == part = "url" /\ Url!Next /\ OthersStill
ContextsStep == part = "contexts" /\ Ctx!Next /\ OthersStill
ObjectsStep == part = "objects" /\ Obj!Next /\ OthersStill
DhStep == part = "dh" /\ Dh!Next /\ OthersStill
JobsStep == part = "jobs" /\ Job!Next /\ OthersStill
TlsStep == part = "tls" /\ Tls!Next /\ OthersStill
DnsStep == part = "dns" /\ Dns!Next /\ OthersStill
SocketsStep == part = "sockets" /\ Tree!Next /\ OthersStill
FilesStep == part = "files" /\ Fil!Next /\ OthersStill
TicksStep == part = "ticks" /\ Tck!Next /\ OthersStill
BuffersStep == part = "buffers" /\ Buf!Next /\ OthersStill
StringsStep == part = "strings" /\ Str!Next /\ OthersStill
ZlibStep == part = "zlib" /\ Zlb!Next /\ OthersStill
BindingStep == part = "binding" /\ Hbi!Next /\ OthersStill
LoadStep == part = "load" /\ Lod!Next /\ OthersStill

Next ==
  \/ HandlesStep
  \/ SlabStep
  \/ HttpStep
  \/ UrlStep
  \/ ContextsStep
  \/ ObjectsStep
  \/ DhStep
  \/ JobsStep
  \/ TlsStep
  \/ DnsStep
  \/ SocketsStep
  \/ FilesStep
  \/ TicksStep
  \/ BuffersStep
  \/ StringsStep
  \/ ZlibStep
  \/ BindingStep
  \/ LoadStep

vars == <<part, handlesVars, slabVars, httpVars, urlVars, contextsVars,
          objectsVars, dhVars, jobsVars, tlsVars, dnsVars, socketsVars,
          filesVars, ticksVars, buffersVars, stringsVars, zlibVars,
          bindingVars, loadVars>>
Spec == Init /\ [][Next]_vars

-----------------------------------------------------------------------------
(* Types of every part.                                                    *)
NodeTypeOK ==
  /\ part = "handles" => Hdl!TypeOK
  /\ part = "slab" => Slb!TypeOK
  /\ part = "http" => Htp!TypeOK
  /\ part = "url" => Url!TypeOK
  /\ part = "contexts" => Ctx!TypeOK
  /\ part = "objects" => Obj!TypeOK
  /\ part = "dh" => Dh!TypeOK
  /\ part = "jobs" => Job!TypeOK
  /\ part = "tls" => Tls!TypeOK
  /\ part = "dns" => Dns!TypeOK
  /\ part = "sockets" => Tree!TypeOK
  /\ part = "files" => Fil!TypeOK
  /\ part = "ticks" => Tck!TypeOK
  /\ part = "buffers" => Buf!TypeOK
  /\ part = "strings" => Str!TypeOK
  /\ part = "zlib" => Zlb!TypeOK
  /\ part = "binding" => Hbi!TypeOK
  /\ part = "load" => Lod!TypeOK

(* handle_wrap.cc, req_wrap.h and the wraps: no wrapper or request is used *)
(* once it is freed.                                                       *)
HandlesOutliveTheirUse == part = "handles" => Hdl!HandlesOutliveTheirUse

(* slab_allocator.cc, node_buffer.cc, string_bytes.cc: no two reads share  *)
(* a byte of a slab, no call leaves its buffer but a float's or a double's *)
(* that was told not to check (noAssert), and no two buffers share a byte  *)
(* but slices of one; bytes made a string are the same bytes again.        *)
BytesApart ==
  /\ part = "slab" => Slb!RoomsApart
  /\ part = "buffers" => Buf!ViewsApart
  /\ part = "strings" => Str!BytesFaithful

(* http_parser.c and node_http_parser.cc: what the callbacks and scripts   *)
(* are given is the message, up to the headers maxHeaderPairs of http.js   *)
(* leaves room for, however it is cut into chunks, and the fields of a URL *)
(* are the runs of their characters.                                       *)
ParsersFaithful ==
  /\ part = "http" => Htp!EventsIndependentOfChunks
  /\ part = "url" => Url!FieldsAreRuns
  /\ part = "binding" => Hbi!MessagesAsSent

(* node_crypto.cc: a context checks a peer against what it was given, all  *)
(* that went into a cipher or a digest comes out of it, once, and both     *)
(* parties of a key exchange get the same bytes.                           *)
CryptoKeepsItsWord ==
  /\ part = "contexts" => Ctx!ContextsKeepTheirTrust
  /\ part = "objects" => Obj!ObjectsKeepTheirWord
  /\ part = "dh" => Dh!SecretsAgree

(* Requests of node_crypto.cc, node_file.cc and node_zlib.cc, done by      *)
(* threads: memory lives as long as somebody uses it, and there is one     *)
(* answer, which a reset of a zlib stream under its thread may spoil.      *)
RequestsOwnTheirMemory ==
  /\ part = "jobs" => Job!RequestsOwnTheirMemory
  /\ part = "files" => Fil!FilesAnswered
  /\ part = "zlib" => Zlb!ZlibKeepsItsBuffers

(* node_crypto.cc, Connection: OpenSSL sees what arrived, in order, and a  *)
(* peer is authorized only when it was verified.                           *)
ConnectionFaithful == part = "tls" => Tls!ConnectionFaithful

(* cares_wrap.cc and tree.h: a query is answered once, whatever a callback *)
(* asks in between, and a search finds each socket c-ares has open.        *)
NamesResolved ==
  /\ part = "dns" => Dns!QueriesAnswered
  /\ part = "sockets" => Tree!TreeIsTheSet

(* node.cc and node.js: each tick and immediate is run, once and in order, *)
(* before node waits for the world.                                        *)
DeferredIsDone == part = "ticks" => Tck!DeferredIsDone

(* wrk.c, ae.c and ae_epoll.c: an event leads to the connection whose      *)
(* socket it is, and a thread makes the requests it was told to.           *)
LoadKept == part = "load" => Lod!LoadKept
=============================================================================
