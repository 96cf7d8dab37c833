SPECIFICATION Spec
CONSTANTS
  Handles = {h1, h2}
  Reqs = {r1, r2}
  Readers = {o1, o2}
  SlabSize = 64
  Sizes = {24, 40, 72}
  MaxSlabs = 2
  HttpMaxHeaderSize = 10
  HttpWidth = 3
  MaxUrl = 9
  MaxPort = 9
  Ctxs = {c1, c2}
  MaxErrs = 2
  Block = 3
  MaxFed = 9
  Prime = 5
  Generator = 2
  Radix = 3
  Jobs = {j1, j2}
  Threads = 1
  HelloSize = 3
  MaxStream = 4
  Queries = {q1, q2}
  Sockets = {1, 2}
  MaxClosing = 2
  Socks = {1, 2, 3, 4, 5, 6, 7}
  FsReqs = {f1, f2}
  BufferLength = 2
  MaxTickDepth = 2
  MaxTicks = 3
  MaxImmediates = 1
  MaxFrames = 5
  Bufs = {b1, b2}
  Blocks = {0, 1, 2}
  PoolSize = 16
  Lengths = {3, 20}
  Args = {5}
  MaxCuts = 1
  U32 = 128
  SizeT = 256
  Bytes = {0, 90, 255}
  MaxBytes = 5
  MaxChars = 5
  RoomSizes = {0, 1, 2, 3, 5}
  LongLengths = {15, 16, 17, 23, 24, 27}
  ChunkLength = 2
  BufferSize = 2
  MaxChunks = 2
  MaxOut = 5
  Slots = 3
  MaxHeaders = 3
  MaxMessages = 2
  MaxBuffers = 2
  ValueLengths = {0, 2}
  Limits = {0, 1}
  Conns = {w1, w2}
  Fds = {1, 2}
  WRequests = 2
  MaxSockets = 3
CHECK_DEADLOCK FALSE
INVARIANTS
  NodeTypeOK
  HandlesOutliveTheirUse
  BytesApart
  ParsersFaithful
  CryptoKeepsItsWord
  
  ConnectionFaithful
  NamesResolved
  DeferredIsDone
  LoadKept
