---------------------------- MODULE ProcessTicks -----------------------------
(***************************************************************************)
(* src/node.cc and src/node.js: the queue of process.nextTick, the         *)
(* immediates, uncaught exceptions and the end of the process.  C++ and    *)
(* JavaScript share tick_infobox; MakeCallback runs the queue after a      *)
(* callback, the spinner after a turn of the loop.  A callback may make    *)
(* ticks, have C++ call another callback within it, return or throw.       *)
(***************************************************************************)
EXTENDS Naturals, Sequences

CONSTANTS
  MaxTickDepth,   \* process.maxTickDepth
  MaxTicks,       \* bound: ticks made in all
  MaxImmediates,  \* bound: immediates waiting
  MaxFrames       \* bound: frames on the stack

VARIABLES
  nextTickQueue,   \* ticks, numbered as they are made
  infoBox,         \* tick_infobox: length, index, depth
  inTick, needSpinner, need_tick_cb,
  tick_spinner,    \* the idle handle is active
  using_domains,
  immediates,      \* how many wait
  need_immediate_cb,
  frames,          \* the functions that run, innermost first; empty in the loop
  phase,           \* "running", "exiting" within EmitExit, "gone"
  exitcode,        \* 0, or what FatalException exits with
  ran,             \* history: ticks run
  ticksMade        \* history: ticks made

tickvars == <<nextTickQueue, infoBox, inTick, needSpinner, need_tick_cb, tick_spinner,
              using_domains, immediates, need_immediate_cb, frames, phase, exitcode, ran, ticksMade>>

queuevars == <<nextTickQueue, infoBox, inTick, needSpinner>>
spinvars == <<need_tick_cb, tick_spinner>>
immvars == <<immediates, need_immediate_cb>>
endvars == <<phase, exitcode>>

(* What runs JavaScript, and what waits for it.                            *)
Js == {"main", "callback", "tick", "handler", "exit"}
Loop(n) == [f |-> "_tickCallback", n |-> n]
Frame(f) == [f |-> f, n |-> 0]

InLoop == frames = <<>> /\ phase = "running"
Running(f) == frames # <<>> /\ Head(frames).f = f
InJs == frames # <<>> /\ Head(frames).f \in Js
Call(f) == frames' = <<Frame(f)>> \o frames
Zero == [length |-> 0, index |-> 0, depth |-> 0]

Init ==
  /\ nextTickQueue = <<>> /\ infoBox = Zero /\ inTick = FALSE /\ needSpinner = TRUE
  /\ need_tick_cb = FALSE /\ tick_spinner = FALSE /\ using_domains = FALSE
  /\ immediates = 0 /\ need_immediate_cb = FALSE
  /\ frames = <<Frame("main")>> /\ phase = "running" /\ exitcode = 0
  /\ ran = 0 /\ ticksMade = 0

(* _needTickCallback.                                                      *)
NeedTickCallback == need_tick_cb' = TRUE /\ tick_spinner' = TRUE

-----------------------------------------------------------------------------
(* What JavaScript does.                                                   *)

NextTick ==
  /\ InJs /\ ticksMade < MaxTicks /\ phase = "running"
  /\ ticksMade' = ticksMade + 1
  /\ nextTickQueue' = Append(nextTickQueue, ticksMade')
  /\ infoBox' = [infoBox EXCEPT !.length = @ + 1]
  /\ IF needSpinner THEN NeedTickCallback /\ needSpinner' = FALSE
     ELSE UNCHANGED <<spinvars, needSpinner>>
  /\ UNCHANGED <<inTick, using_domains, immvars, frames, endvars, ran>>

UsingDomains ==
  /\ InJs /\ ~using_domains /\ using_domains' = TRUE
  /\ UNCHANGED <<queuevars, spinvars, immvars, frames, endvars, ran, ticksMade>>

SetImmediate ==
  /\ InJs /\ immediates < MaxImmediates
  /\ immediates' = immediates + 1 /\ need_immediate_cb' = TRUE
  /\ UNCHANGED <<queuevars, spinvars, using_domains, frames, endvars, ran, ticksMade>>

ClearImmediate ==
  /\ InJs /\ immediates > 0
  /\ immediates' = immediates - 1 /\ need_immediate_cb' = (immediates' > 0)
  /\ UNCHANGED <<queuevars, spinvars, using_domains, frames, endvars, ran, ticksMade>>

(* C++ that was called calls back before it returns.                       *)
Nested ==
  /\ InJs /\ Len(frames) + 2 <= MaxFrames /\ Call("callback")
  /\ UNCHANGED <<queuevars, spinvars, using_domains, immvars, endvars, ran, ticksMade>>

-----------------------------------------------------------------------------
(* The queue: _tickCallback and _tickDomainCallback.                       *)

(* Slip: the ticks that have run stay in the queue when one has thrown.    *)
TickDoneKeeps(depth) ==
  /\ IF infoBox.length <= infoBox.index
     THEN /\ nextTickQueue' = <<>> /\ infoBox' = [Zero EXCEPT !.depth = depth]
          /\ UNCHANGED <<needSpinner, spinvars>>
     ELSE /\ nextTickQueue' = nextTickQueue
          /\ infoBox' = [length |-> Len(nextTickQueue'), index |-> 0, depth |-> depth]
          /\ IF needSpinner THEN NeedTickCallback /\ needSpinner' = FALSE
             ELSE UNCHANGED <<needSpinner, spinvars>>
  /\ inTick' = FALSE

TickDone(depth) ==
  /\ IF infoBox.length <= infoBox.index
     THEN /\ nextTickQueue' = <<>> /\ infoBox' = [Zero EXCEPT !.depth = depth]
          /\ UNCHANGED <<needSpinner, spinvars>>
     ELSE /\ nextTickQueue' = SubSeq(nextTickQueue, infoBox.index + 1, Len(nextTickQueue))
          /\ infoBox' = [length |-> Len(nextTickQueue'), index |-> 0, depth |-> depth]
          /\ IF needSpinner THEN NeedTickCallback /\ needSpinner' = FALSE
             ELSE UNCHANGED <<needSpinner, spinvars>>
  /\ inTick' = FALSE

(* The call, with a tick in the queue, from a frame that is over.          *)
TickCallback(below) ==
  \/ /\ inTick \/ (using_domains /\ infoBox.depth >= MaxTickDepth)
     /\ frames' = below
     /\ IF using_domains /\ infoBox.depth >= MaxTickDepth THEN NeedTickCallback
        ELSE UNCHANGED spinvars
     /\ UNCHANGED queuevars
  \/ /\ ~inTick /\ (using_domains => infoBox.depth < MaxTickDepth)
     /\ inTick' = TRUE /\ frames' = <<Loop(0)>> \o below
     /\ UNCHANGED <<nextTickQueue, infoBox, needSpinner, spinvars>>

(* The outer loop: as many rounds as depth leaves.                         *)
TickRound ==
  /\ Running("_tickCallback") /\ Head(frames).n = infoBox.index
  /\ infoBox.depth < MaxTickDepth /\ infoBox.index < infoBox.length
  /\ infoBox' = [infoBox EXCEPT !.depth = @ + 1]
  /\ frames' = <<Loop(infoBox.length)>> \o Tail(frames)
  /\ UNCHANGED <<nextTickQueue, inTick, needSpinner, spinvars, using_domains, immvars, endvars,
                 ran, ticksMade>>

TickRoundsOver ==
  /\ Running("_tickCallback") /\ Head(frames).n = infoBox.index
  /\ infoBox.depth >= MaxTickDepth \/ infoBox.index = infoBox.length
  /\ TickDone(0) /\ frames' = Tail(frames)
  /\ UNCHANGED <<using_domains, immvars, endvars, ran, ticksMade>>

(* The inner loop: the next tick; a disposed domain's is passed over.      *)
TickNext ==
  /\ Running("_tickCallback") /\ infoBox.index < Head(frames).n
  /\ infoBox' = [infoBox EXCEPT !.index = @ + 1]
  /\ ran' = (IF nextTickQueue[infoBox'.index] = ran + 1 THEN ran + 1 ELSE MaxTicks + 1)
  /\ \/ Call("tick")
     \/ using_domains /\ UNCHANGED frames
  /\ UNCHANGED <<nextTickQueue, inTick, needSpinner, spinvars, using_domains, immvars, endvars,
                 ticksMade>>

-----------------------------------------------------------------------------
(* Returns and throws.                                                     *)

(* MakeCallback and MakeDomainCallback, when the callback has returned.    *)
CallbackReturns ==
  /\ Running("callback")
  /\ \/ /\ infoBox.length = 0
        /\ infoBox' = Zero /\ frames' = Tail(frames)
        /\ UNCHANGED <<nextTickQueue, inTick, needSpinner, spinvars>>
     \/ infoBox.length # 0 /\ TickCallback(Tail(frames))
  /\ UNCHANGED <<using_domains, immvars, endvars, ran, ticksMade>>

TickReturns ==
  /\ Running("tick") \/ Running("main")
  /\ frames' = Tail(frames)
  /\ UNCHANGED <<queuevars, spinvars, using_domains, immvars, endvars, ran, ticksMade>>

(* FatalException, called where C++ catches: the handler of the exception, *)
(* if there is one, runs on what is left of the stack; a disposed domain's *)
(* is dropped.                                                             *)
Fatal(below) ==
  \/ frames' = <<Frame("handler")>> \o below /\ UNCHANGED endvars
  \/ using_domains /\ frames' = below /\ UNCHANGED endvars
  \/ frames' = <<>> /\ phase' = "gone" /\ exitcode' = 8

(* A callback, the main module or an exit listener throws.                 *)
CallbackThrows ==
  /\ Running("callback") \/ Running("main") \/ Running("exit")
  /\ Fatal(Tail(frames))
  /\ UNCHANGED <<queuevars, spinvars, using_domains, immvars, ran, ticksMade>>

(* A tick throws: tickDone in the finally, then to the caller of the loop. *)
TickThrows ==
  /\ Running("tick") /\ TickDone(infoBox.depth)
  /\ Fatal(Tail(Tail(frames)))
  /\ UNCHANGED <<using_domains, immvars, ran, ticksMade>>

HandlerReturns ==
  /\ Running("handler") /\ NeedTickCallback /\ frames' = Tail(frames)
  /\ UNCHANGED <<queuevars, using_domains, immvars, endvars, ran, ticksMade>>

HandlerThrows ==
  /\ Running("handler") /\ frames' = <<>> /\ phase' = "gone" /\ exitcode' = 7
  /\ UNCHANGED <<queuevars, spinvars, using_domains, immvars, ran, ticksMade>>

-----------------------------------------------------------------------------
(* The loop.                                                               *)

(* A watcher's or a request's callback.                                    *)
MakeCallback ==
  /\ InLoop /\ Call("callback")
  /\ UNCHANGED <<queuevars, spinvars, using_domains, immvars, endvars, ran, ticksMade>>

(* Spin and _tickFromSpinner.                                              *)
Spin ==
  /\ InLoop /\ tick_spinner /\ need_tick_cb
  /\ need_tick_cb' = FALSE /\ tick_spinner' = FALSE
  /\ needSpinner' = TRUE
  /\ \/ /\ infoBox.length = 0 /\ infoBox' = Zero
        /\ UNCHANGED <<frames, inTick>>
     \/ /\ infoBox.length # 0 /\ infoBox' = [infoBox EXCEPT !.depth = 0]
        /\ inTick' = TRUE /\ frames' = <<Loop(0)>>
  /\ UNCHANGED <<nextTickQueue, using_domains, immvars, endvars, ran, ticksMade>>

(* CheckImmediate and processImmediate: one immediate a turn.              *)
CheckImmediate ==
  /\ InLoop /\ need_immediate_cb
  /\ immediates' = immediates - 1 /\ need_immediate_cb' = (immediates' > 0)
  /\ Call("callback")
  /\ UNCHANGED <<queuevars, spinvars, using_domains, endvars, ran, ticksMade>>

(* uv_run returns when no watcher is left, and 'exit' is emitted.          *)
EmitExit ==
  /\ InLoop /\ ~tick_spinner /\ ~need_immediate_cb
  /\ phase' = "exiting" /\ Call("exit")
  /\ UNCHANGED <<queuevars, spinvars, using_domains, immvars, exitcode, ran, ticksMade>>

Gone ==
  /\ phase = "exiting" /\ (frames = <<>> \/ Running("exit"))
  /\ phase' = "gone" /\ frames' = <<>>
  /\ UNCHANGED <<queuevars, spinvars, using_domains, immvars, exitcode, ran, ticksMade>>

Next ==
  \/ NextTick \/ UsingDomains \/ SetImmediate \/ ClearImmediate \/ Nested
  \/ TickRound \/ TickRoundsOver \/ TickNext
  \/ CallbackReturns \/ TickReturns \/ CallbackThrows \/ TickThrows
  \/ HandlerReturns \/ HandlerThrows
  \/ MakeCallback \/ Spin \/ CheckImmediate \/ EmitExit \/ Gone

Spec == Init /\ [][Next]_tickvars

-----------------------------------------------------------------------------
TypeOK ==
  /\ \A i \in DOMAIN nextTickQueue : nextTickQueue[i] \in 1..MaxTicks
  /\ infoBox \in [length : 0..MaxTicks, index : 0..MaxTicks, depth : 0..MaxTickDepth]
  /\ inTick \in BOOLEAN /\ needSpinner \in BOOLEAN /\ need_tick_cb \in BOOLEAN
  /\ tick_spinner \in BOOLEAN /\ using_domains \in BOOLEAN
  /\ immediates \in 0..MaxImmediates /\ need_immediate_cb \in BOOLEAN
  /\ Len(frames) <= MaxFrames /\ phase \in {"running", "exiting", "gone"}
  /\ exitcode \in {0, 7, 8} /\ ran \in 0..MaxTicks + 1 /\ ticksMade \in 0..MaxTicks

(* Each tick runs once, in the order they were made: what waits is what    *)
(* was made and has not run.                                               *)
InOrder ==
  /\ ran <= ticksMade /\ infoBox.length = Len(nextTickQueue)
  /\ infoBox.index <= infoBox.length /\ infoBox.length - infoBox.index = ticksMade - ran
  /\ \A i \in infoBox.index + 1..infoBox.length : nextTickQueue[i] = ran + i - infoBox.index

(* The loop does not wait, or end, with a tick in the queue: the spinner   *)
(* comes back, even when a tick has thrown or too many rounds were made.   *)
TicksAwaited ==
  /\ InLoop /\ nextTickQueue # <<>> => tick_spinner /\ need_tick_cb
  /\ ~needSpinner => need_tick_cb
  /\ exitcode = 0 /\ phase # "running" => ran = ticksMade
  /\ phase # "gone" => (inTick <=> \E i \in DOMAIN frames : frames[i].f = "_tickCallback")

(* The check watcher runs when there is an immediate to take.              *)
ImmediatesAwaited == need_immediate_cb <=> immediates > 0

(* Together: what is deferred is done, once and in order, before node      *)
(* waits for the world (src/node.cc:940-1045, src/node.js).                *)
DeferredIsDone == InOrder /\ TicksAwaited /\ ImmediatesAwaited
=============================================================================
