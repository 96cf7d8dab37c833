----------------------------- MODULE NodeHandles ----------------------------
(***************************************************************************)
(* The wrappers between JavaScript objects and libuv handles: handle_wrap, *)
(* stream_wrap, tcp_wrap, pipe_wrap, tty_wrap, udp_wrap, timer_wrap,       *)
(* signal_wrap, process_wrap, fs_event_wrap and req_wrap.h.                *)
(*                                                                         *)
(* One thread runs everything.  It is in the event loop (frame.cb =        *)
(* "loop"), or in JavaScript: the main script, or a callback that libuv    *)
(* made, whose C++ function goes on when the script returns (Return).      *)
(* JavaScript may call any method meanwhile, close() of that very handle   *)
(* included.  A failed libuv call only sets errno, which is left out.      *)
(*                                                                         *)
(* lib/net.js and its like drop _handle in the turn they close it, so only *)
(* close, ref and unref reach a handle that is closing (Usable), and close *)
(* a handle they sent to another process only once it was sent (Unsent).   *)
(***************************************************************************)
EXTENDS Naturals

CONSTANTS Handles, Reqs

VARIABLES
  kind,     \* kind[h]: the class of the wrapper
  wrap,     \* wrap[h]: its C++ object: "none", "live" or "freed"
  handle,   \* handle[h]: handle__ is not NULL
  uv,       \* uv[h]: the handle for libuv: "none", "open", "closing", "closed"
  hflags,   \* hflags[h]: flags_ (kUnref, kCloseCallback)
  busy,     \* busy[h]: what the handle does
  started,  \* started[h]: initialized_ of an FSEventWrap
  req,      \* req[r]: a request object, and the handle it was made on
  frame     \* the C++ function that JavaScript returns to

hvars == <<kind, wrap, handle, uv, hflags, busy, started, req, frame>>

NoHandle == "no handle"
NoReq == "no request"

Streams == {"tcp", "pipe", "tty"}
Kinds == Streams \cup {"udp", "timer", "signal", "process", "fsevent"}
Free == [on |-> NoHandle, what |-> "none", sends |-> NoHandle]

Frame(cb, h, r) == [cb |-> cb, h |-> h, r |-> r]
Loop == Frame("loop", NoHandle, NoReq)

InLoop == frame = Loop
InJs == frame # Loop

Init ==
  /\ kind = [h \in Handles |-> "tcp"]
  /\ wrap = [h \in Handles |-> "none"]
  /\ handle = [h \in Handles |-> FALSE]
  /\ uv = [h \in Handles |-> "none"]
  /\ hflags = [h \in Handles |-> {}]
  /\ busy = [h \in Handles |-> "idle"]
  /\ started = [h \in Handles |-> FALSE]
  /\ req = [r \in Reqs |-> Free]
  /\ frame = Frame("main", NoHandle, NoReq)

Usable(h) == wrap[h] = "live" /\ handle[h] /\ uv[h] = "open"
Unsent(h) == \A r \in Reqs : req[r].sends # h
Queued(h) == {r \in Reqs : req[r].on = h}

-----------------------------------------------------------------------------
(* Construction: the HandleWrap part, then what the class does with it.    *)
HandleWrap(h, k, ptr, u, b) ==
  /\ wrap[h] = "none"
  /\ wrap' = [wrap EXCEPT ![h] = "live"]
  /\ kind' = [kind EXCEPT ![h] = k]
  /\ handle' = [handle EXCEPT ![h] = ptr]
  /\ uv' = [uv EXCEPT ![h] = u]
  /\ busy' = [busy EXCEPT ![h] = b]

Construct(h, k, ptr, u, b) ==
  /\ InJs /\ HandleWrap(h, k, ptr, u, b)
  /\ UNCHANGED <<hflags, started, req, frame>>

NewTcp(h) == Construct(h, "tcp", TRUE, "open", "idle")
NewPipe(h) == Construct(h, "pipe", TRUE, "open", "idle")
NewTty(h) == Construct(h, "tty", TRUE, "open", "connected")
NewUdp(h) == Construct(h, "udp", TRUE, "open", "idle")
NewTimer(h) == Construct(h, "timer", TRUE, "open", "idle")
NewSignal(h) == Construct(h, "signal", TRUE, "open", "idle")
(* No uv handle before Spawn, and none before Start.                       *)
NewProcess(h) == Construct(h, "process", FALSE, "none", "idle")
NewFSEvent(h) == Construct(h, "fsevent", TRUE, "none", "idle")

Unchanged == UNCHANGED <<kind, wrap, handle, uv, hflags, started, req, frame>>

-----------------------------------------------------------------------------
Ref(h) ==
  /\ InJs /\ wrap[h] = "live" /\ kind[h] # "fsevent"
  /\ handle[h]
  /\ hflags' = [hflags EXCEPT ![h] = @ \ {"unref"}]
  /\ UNCHANGED <<kind, wrap, handle, uv, busy, started, req, frame>>

Unref(h) ==
  /\ InJs /\ wrap[h] = "live" /\ kind[h] # "fsevent"
  /\ handle[h]
  /\ hflags' = [hflags EXCEPT ![h] = @ \cup {"unref"}]
  /\ UNCHANGED <<kind, wrap, handle, uv, busy, started, req, frame>>

(* Slip: the pointer is not cleared.                                       *)
CloseWrapKeeps(h) ==
  /\ wrap[h] = "live" /\ handle[h]
  /\ uv' = [uv EXCEPT ![h] = "closing"]
  /\ handle' = handle
  /\ busy' = [busy EXCEPT ![h] = "idle"]
  /\ \E callback \in BOOLEAN :
       hflags' = IF callback THEN [hflags EXCEPT ![h] = @ \cup {"close"}] ELSE hflags

(* A second close, or one of a handle that never was, does nothing.  From  *)
(* uv_close on libuv makes no callback but those of the queued requests    *)
(* and the close callback.                                                 *)
CloseWrap(h) ==
  /\ wrap[h] = "live" /\ handle[h]
  /\ uv' = [uv EXCEPT ![h] = "closing"]
  /\ handle' = [handle EXCEPT ![h] = FALSE]
  /\ busy' = [busy EXCEPT ![h] = "idle"]
  /\ \E callback \in BOOLEAN :
       hflags' = IF callback THEN [hflags EXCEPT ![h] = @ \cup {"close"}] ELSE hflags

Close(h) ==
  /\ InJs /\ kind[h] # "fsevent" /\ Unsent(h)
  /\ CloseWrap(h)
  /\ UNCHANGED <<kind, wrap, started, req, frame>>

FSEventClose(h) ==
  /\ InJs /\ kind[h] = "fsevent" /\ started[h]
  /\ started' = [started EXCEPT ![h] = FALSE]
  /\ CloseWrap(h)
  /\ UNCHANGED <<kind, wrap, req, frame>>

(* OnClose after the close callback, if there is one: the object goes.     *)
Delete(h) ==
  wrap' = [wrap EXCEPT ![h] = "freed"]

OnClose(h) ==
  /\ InLoop /\ uv[h] = "closing" /\ Queued(h) = {}
  /\ uv' = [uv EXCEPT ![h] = "closed"]
  /\ \/ /\ "close" \in hflags[h]
        /\ frame' = Frame("OnClose", h, NoReq)
        /\ UNCHANGED wrap
     \/ /\ "close" \notin hflags[h]
        /\ Delete(h)
        /\ UNCHANGED frame
  /\ UNCHANGED <<kind, handle, hflags, busy, started, req>>

-----------------------------------------------------------------------------
(* Streams.                                                                *)
Call(cb, h) == frame' = Frame(cb, h, NoReq)

ReadStart(h) ==
  /\ InJs /\ kind[h] \in Streams /\ Usable(h) /\ busy[h] = "connected"
  /\ busy' = [busy EXCEPT ![h] = "reading"]
  /\ Unchanged

ReadStop(h) ==
  /\ InJs /\ kind[h] \in Streams /\ Usable(h) /\ busy[h] = "reading"
  /\ busy' = [busy EXCEPT ![h] = "connected"]
  /\ Unchanged

(* The handle that came with a message gets a wrapper of its kind.         *)
AcceptHandle(g) ==
  \E k \in {"tcp", "pipe", "udp"} : HandleWrap(g, k, TRUE, "open", "connected")

(* Data, an error or the end; or, on a pipe between processes, a handle.   *)
OnRead(h) ==
  /\ InLoop /\ kind[h] \in Streams /\ busy[h] = "reading" /\ uv[h] = "open"
  /\ Call("OnRead", h)
  /\ \/ UNCHANGED <<kind, wrap, handle, uv, busy>>
     \/ /\ kind[h] = "pipe"
        /\ \E g \in Handles : AcceptHandle(g)
  /\ UNCHANGED <<hflags, started, req>>

(* A request that libuv refuses is deleted at once, and JavaScript gets    *)
(* null: only one that is taken is kept.                                   *)
Dispatch(h, r, what, sends) ==
  /\ InJs /\ Usable(h) /\ req[r] = Free
  /\ req' = [req EXCEPT ![r] = [on |-> h, what |-> what, sends |-> sends]]
  /\ UNCHANGED <<kind, wrap, handle, uv, hflags, started, frame>>

WriteBuffer(h, r) ==
  /\ kind[h] \in Streams /\ busy[h] \in {"connected", "reading"}
  /\ Dispatch(h, r, "write", NoHandle)
  /\ UNCHANGED busy

WriteString(h, r) ==
  /\ kind[h] \in Streams /\ busy[h] \in {"connected", "reading"}
  /\ \E g \in Handles \cup {NoHandle} :
       /\ g # NoHandle =>
            kind[h] = "pipe" /\ g # h /\ kind[g] \in {"tcp", "pipe", "udp"} /\ Usable(g)
       /\ Dispatch(h, r, "write", g)
  /\ UNCHANGED busy

Shutdown(h, r) ==
  /\ kind[h] \in Streams /\ busy[h] \in {"connected", "reading"}
  /\ Dispatch(h, r, "shutdown", NoHandle)
  /\ UNCHANGED busy

(* The request of the frame is still there while its callback runs; what   *)
(* it sent is released before.                                             *)
AfterReq(r, what) ==
  /\ InLoop /\ req[r].what = what
  /\ req' = [req EXCEPT ![r].what = "calling", ![r].sends = NoHandle]
  /\ frame' = Frame("After", req[r].on, r)
  /\ UNCHANGED <<kind, wrap, handle, uv, hflags, started>>

AfterWrite(r) == AfterReq(r, "write") /\ UNCHANGED busy
AfterShutdown(r) == AfterReq(r, "shutdown") /\ UNCHANGED busy

-----------------------------------------------------------------------------
(* TCP, and pipes.                                                         *)
Connect(h, r) ==
  /\ kind[h] \in {"tcp", "pipe"} /\ busy[h] = "idle"
  /\ Dispatch(h, r, "connect", NoHandle)
  /\ busy' = [busy EXCEPT ![h] = "connecting"]

Connected(h, ok) ==
  IF uv[h] # "open" THEN busy
  ELSE [busy EXCEPT ![h] = IF ok THEN "connected" ELSE "idle"]

AfterConnect(r) ==
  /\ AfterReq(r, "connect")
  /\ \E ok \in BOOLEAN : busy' = Connected(req[r].on, ok)

(* open() of a descriptor that is connected already.                       *)
Open(h) ==
  /\ InJs /\ kind[h] \in {"tcp", "pipe"} /\ Usable(h) /\ busy[h] = "idle"
  /\ busy' = [busy EXCEPT ![h] = "connected"]
  /\ Unchanged

Listen(h) ==
  /\ InJs /\ kind[h] \in {"tcp", "pipe"} /\ Usable(h) /\ busy[h] = "idle"
  /\ busy' = [busy EXCEPT ![h] = "listening"]
  /\ Unchanged

(* A client gets its wrapper before it is accepted: when accept fails the  *)
(* wrapper stays, and nobody hears of it.                                  *)
Accepted(h, g) ==
  \/ /\ HandleWrap(g, kind[h], TRUE, "open", "connected")
     /\ Call("OnConnection", h)
  \/ /\ HandleWrap(g, kind[h], TRUE, "open", "idle")
     /\ UNCHANGED frame

(* Otherwise the callback says that it failed.                             *)
TcpOnConnection(h) ==
  /\ InLoop /\ kind[h] = "tcp" /\ busy[h] = "listening" /\ uv[h] = "open"
  /\ \/ \E g \in Handles : Accepted(h, g)
     \/ Call("OnConnection", h) /\ UNCHANGED <<kind, wrap, handle, uv, busy>>
  /\ UNCHANGED <<hflags, started, req>>

PipeOnConnection(h) ==
  /\ InLoop /\ kind[h] = "pipe" /\ busy[h] = "listening" /\ uv[h] = "open"
  /\ \/ \E g \in Handles : Accepted(h, g)
     \/ Call("OnConnection", h) /\ UNCHANGED <<kind, wrap, handle, uv, busy>>
  /\ UNCHANGED <<hflags, started, req>>

-----------------------------------------------------------------------------
(* Datagrams.                                                              *)
UdpSend(h, r) ==
  /\ kind[h] = "udp"
  /\ Dispatch(h, r, "send", NoHandle)
  /\ UNCHANGED busy

UdpOnSend(r) == AfterReq(r, "send") /\ UNCHANGED busy

RecvStart(h) ==
  /\ InJs /\ kind[h] = "udp" /\ Usable(h) /\ busy[h] # "reading"
  /\ busy' = [busy EXCEPT ![h] = "reading"]
  /\ Unchanged

RecvStop(h) ==
  /\ InJs /\ kind[h] = "udp" /\ Usable(h) /\ busy[h] = "reading"
  /\ busy' = [busy EXCEPT ![h] = "connected"]
  /\ Unchanged

UdpOnRecv(h) ==
  /\ InLoop /\ kind[h] = "udp" /\ busy[h] = "reading" /\ uv[h] = "open"
  /\ Call("OnRecv", h)
  /\ UNCHANGED <<kind, wrap, handle, uv, hflags, busy, started, req>>

-----------------------------------------------------------------------------
(* Timers and signals: start (again() too) and stop.                       *)
Switch(h, k, to) ==
  /\ InJs /\ kind[h] = k /\ Usable(h) /\ busy[h] # to
  /\ busy' = [busy EXCEPT ![h] = to]
  /\ Unchanged

TimerStart(h) == Switch(h, "timer", "running")
TimerStop(h) == Switch(h, "timer", "idle")
SignalStart(h) == Switch(h, "signal", "running")
SignalStop(h) == Switch(h, "signal", "idle")

(* A timer that does not repeat has stopped when it calls.                 *)
OnTimeout(h) ==
  /\ InLoop /\ kind[h] = "timer" /\ busy[h] = "running" /\ uv[h] = "open"
  /\ Call("OnTimeout", h)
  /\ \E b \in {"idle", "running"} : busy' = [busy EXCEPT ![h] = b]
  /\ UNCHANGED <<kind, wrap, handle, uv, hflags, started, req>>

OnSignal(h) ==
  /\ InLoop /\ kind[h] = "signal" /\ busy[h] = "running" /\ uv[h] = "open"
  /\ Call("OnSignal", h)
  /\ UNCHANGED <<kind, wrap, handle, uv, hflags, busy, started, req>>

-----------------------------------------------------------------------------
(* Processes: the pipes of options.stdio are connected to the child, and   *)
(* streams it inherits stay as they are.                                   *)
ParseStdioOptions(S) ==
  \A g \in S : kind[g] = "pipe" /\ Usable(g) /\ busy[g] = "idle"

Spawn(h) ==
  /\ InJs /\ kind[h] = "process" /\ wrap[h] = "live" /\ uv[h] = "none"
  /\ \E S \in SUBSET Handles :
       /\ ParseStdioOptions(S)
       /\ uv' = [uv EXCEPT ![h] = "open"]
       /\ handle' = [handle EXCEPT ![h] = TRUE]
       /\ busy' = [g \in Handles |-> IF g = h THEN "running"
                                     ELSE IF g \in S THEN "connected" ELSE busy[g]]
  /\ UNCHANGED <<kind, wrap, hflags, started, req, frame>>

OnExit(h) ==
  /\ InLoop /\ kind[h] = "process" /\ busy[h] = "running" /\ uv[h] = "open"
  /\ Call("OnExit", h)
  /\ busy' = [busy EXCEPT ![h] = "idle"]
  /\ UNCHANGED <<kind, wrap, handle, uv, hflags, started, req>>

FSEventStart(h) ==
  /\ InJs /\ kind[h] = "fsevent" /\ wrap[h] = "live" /\ uv[h] = "none"
  /\ uv' = [uv EXCEPT ![h] = "open"]
  /\ started' = [started EXCEPT ![h] = TRUE]
  /\ busy' = [busy EXCEPT ![h] = "running"]
  /\ UNCHANGED <<kind, wrap, handle, hflags, req, frame>>

OnEvent(h) ==
  /\ InLoop /\ kind[h] = "fsevent" /\ busy[h] = "running" /\ uv[h] = "open"
  /\ Call("OnEvent", h)
  /\ UNCHANGED <<kind, wrap, handle, uv, hflags, busy, started, req>>

-----------------------------------------------------------------------------
(* MakeCallback returns: what the C++ function does after it.              *)
Return ==
  /\ InJs
  /\ frame' = Loop
  /\ req' = IF frame.cb = "After" THEN [req EXCEPT ![frame.r] = Free] ELSE req
  /\ IF frame.cb = "OnClose" THEN Delete(frame.h) ELSE UNCHANGED wrap
  /\ UNCHANGED <<kind, handle, uv, hflags, busy, started>>

Next ==
  \/ Return
  \/ \E h \in Handles :
       \/ NewTcp(h) \/ NewPipe(h) \/ NewTty(h) \/ NewUdp(h) \/ NewTimer(h)
       \/ NewSignal(h) \/ NewProcess(h) \/ NewFSEvent(h)
       \/ Ref(h) \/ Unref(h) \/ Close(h) \/ FSEventClose(h) \/ OnClose(h)
       \/ ReadStart(h) \/ ReadStop(h) \/ OnRead(h) \/ Open(h) \/ Listen(h)
       \/ TcpOnConnection(h) \/ PipeOnConnection(h)
       \/ RecvStart(h) \/ RecvStop(h) \/ UdpOnRecv(h)
       \/ TimerStart(h) \/ TimerStop(h) \/ OnTimeout(h)
       \/ SignalStart(h) \/ SignalStop(h) \/ OnSignal(h)
       \/ Spawn(h) \/ OnExit(h) \/ FSEventStart(h) \/ OnEvent(h)
  \/ \E h \in Handles, r \in Reqs :
       WriteBuffer(h, r) \/ WriteString(h, r) \/ Shutdown(h, r) \/ Connect(h, r) \/ UdpSend(h, r)
  \/ \E r \in Reqs : AfterWrite(r) \/ AfterShutdown(r) \/ AfterConnect(r) \/ UdpOnSend(r)

Spec == Init /\ [][Next]_hvars

-----------------------------------------------------------------------------
TypeOK ==
  /\ kind \in [Handles -> Kinds]
  /\ wrap \in [Handles -> {"none", "live", "freed"}]
  /\ handle \in [Handles -> BOOLEAN]
  /\ uv \in [Handles -> {"none", "open", "closing", "closed"}]
  /\ hflags \in [Handles -> SUBSET {"unref", "close"}]
  /\ busy \in [Handles -> {"idle", "connecting", "connected", "reading", "listening", "running"}]
  /\ started \in [Handles -> BOOLEAN]
  /\ req \in [Reqs -> [on : Handles \cup {NoHandle}, sends : Handles \cup {NoHandle},
                       what : {"none", "write", "shutdown", "connect", "send", "calling"}]]
  /\ frame \in [cb : {"loop", "main", "OnClose", "OnRead", "After", "OnConnection", "OnRecv",
                      "OnTimeout", "OnSignal", "OnExit", "OnEvent"},
                h : Handles \cup {NoHandle}, r : Reqs \cup {NoReq}]

(* libuv never holds memory that is gone: the wrapper of a handle it knows *)
(* is live, so is that of a handle a queued request is on or carries; and  *)
(* handle__ is gone as soon as the handle closes.                          *)
HeldByUv ==
  /\ \A h \in Handles : uv[h] \in {"open", "closing"} => wrap[h] = "live"
  /\ \A h \in Handles : handle[h] => uv[h] = "open" \/ (kind[h] = "fsevent" /\ uv[h] = "none")
  /\ \A r \in Reqs : req[r] # Free => uv[req[r].on] \in {"open", "closing"}
  /\ \A r \in Reqs : req[r].sends # NoHandle => wrap[req[r].sends] = "live"

(* The C++ function a callback returns to still has its objects, and the   *)
(* destructor's assertion on an FSEventWrap holds.                         *)
HeldByFrame ==
  /\ frame.h # NoHandle => wrap[frame.h] = "live"
  /\ frame.r # NoReq => req[frame.r].what = "calling"
  /\ \A h \in Handles : wrap[h] = "freed" => ~started[h] /\ ~handle[h]

(* Together: no wrapper or request is used after it was freed, whatever    *)
(* JavaScript does in a callback (handle_wrap.cc OnClose, req_wrap.h).     *)
HandlesOutliveTheirUse == HeldByUv /\ HeldByFrame
=============================================================================
