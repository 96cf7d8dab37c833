----------------------------- MODULE SeController ---------------------------
(***************************************************************************)
(* The secure-element controller (main/go/src/persomifare.go).  Each web   *)
(* socket has a handler, which reads one message and holds a conversation  *)
(* with the platform: three POSTs, each answered before the next.  Handlers *)
(* run side by side in one process, and log.Fatal in one ends them all.    *)
(*                                                                         *)
(* The envelopes are empty strings in the repository; a POST is named by   *)
(* the function that makes it.                                             *)
(***************************************************************************)
EXTENDS Naturals, Sequences

CONSTANTS
  Handlers,    \* web sockets, and their handlers
  Ses,         \* secure elements
  MaxStart     \* bound: how often the process is started

ASSUME ControllerAssumption == MaxStart \in Nat

VARIABLES
  starts,     \* how often it was started
  alive,      \* it runs
  stage,      \* stage[h]: what the handler is doing
  seid,       \* seid[h]: the secure element its client names
  post,       \* post[h]: a POST of h on its way to the platform
  heard,      \* heard[h]: the POSTs of h that have arrived there
  open,       \* secure elements with a conversation open, for the platform
  stray,      \* history: handlers whose script came outside a conversation
  raced       \* history: secure elements two handlers worked on at once

process == <<starts, alive>>
platform == <<heard, open, stray>>
vars == <<process, stage, seid, post, platform, raced>>

Kinds == {"begin", "send", "end"}

(* A POST of a process that has ended may still be on its way.             *)
Working(h) == stage[h] \in Kinds \/ post[h] # "none"

-----------------------------------------------------------------------------
Start ==
  /\ ~alive /\ starts < MaxStart
  /\ alive' = TRUE /\ starts' = starts + 1
  /\ UNCHANGED <<stage, seid, post, platform, raced>>

Connect(h) ==
  /\ alive /\ stage[h] = "idle"
  /\ stage' = [stage EXCEPT ![h] = "reading"]
  /\ UNCHANGED <<process, seid, post, platform, raced>>

(* Nothing could be read, or the command is neither of the two.            *)
NoCommand(h) ==
  /\ stage[h] = "reading"
  /\ stage' = [stage EXCEPT ![h] = "closed"]
  /\ UNCHANGED <<process, seid, post, platform, raced>>

(* getData and pushCard do the same.                                       *)
Command(h) ==
  /\ stage[h] = "reading"
  /\ stage' = [stage EXCEPT ![h] = "begin"]
  /\ post' = [post EXCEPT ![h] = "begin"]
  /\ raced' = raced \cup {seid[g] : g \in {g \in Handlers :
                            seid[g] = seid[h] /\ Working(g)}}
  /\ UNCHANGED <<process, seid, platform>>

(* Slips: end and send change places; end is left out; the stage is the    *)
(* name of the command.                                                    *)
AfterSwapped == [begin |-> "end", end |-> "send", send |-> "replied"]

AfterNoEnd == [begin |-> "send", send |-> "replied", end |-> "replied"]

AfterCommand == [begin |-> "getData", send |-> "end", end |-> "replied"]

After == [begin |-> "send", send |-> "end", end |-> "replied"]

(* Slip: the POST is made in a goroutine, and its answer not awaited.      *)
AwaitedNot(h) == stage[h] \in Kinds /\ post[h] \in {"none", "end"}

Awaited(h) == stage[h] \in Kinds /\ post[h] = "none"

(* soapRequest returns, whatever the status, and the next one is made, or  *)
(* the client is sent the empty reply.                                     *)
Answered(h) ==
  /\ Awaited(h)
  /\ stage' = [stage EXCEPT ![h] = After[@]]
  /\ post' = [post EXCEPT ![h] = IF After[stage[h]] = "replied" THEN @
                                 ELSE After[stage[h]]]
  /\ UNCHANGED <<process, seid, platform, raced>>

(* log.Fatal: a message that is not whole JSON, or longer than the buffer; *)
(* a POST that fails, or the answer to one that breaks off.                *)
Fatal(h) ==
  /\ stage[h] \in Kinds \cup {"reading"}
  /\ alive' = FALSE
  /\ stage' = [g \in Handlers |-> IF stage[g] \in Kinds \cup {"reading"}
                                  THEN "dead" ELSE stage[g]]
  /\ UNCHANGED <<starts, seid, post, platform, raced>>

(* The platform.                                                           *)
Arrives(h) ==
  /\ post[h] # "none"
  /\ post' = [post EXCEPT ![h] = "none"]
  /\ heard' = [heard EXCEPT ![h] = Append(@, post[h])]
  /\ open' = CASE post[h] = "begin" -> open \cup {seid[h]}
               [] post[h] = "end"   -> open \ {seid[h]}
               [] OTHER             -> open
  /\ stray' = IF post[h] = "send" /\ seid[h] \notin open
              THEN stray \cup {h} ELSE stray
  /\ UNCHANGED <<process, stage, seid, raced>>

-----------------------------------------------------------------------------
Init ==
  /\ starts = 0 /\ alive = FALSE
  /\ stage = [h \in Handlers |-> "idle"]
  /\ seid \in [Handlers -> Ses]
  /\ post = [h \in Handlers |-> "none"]
  /\ heard = [h \in Handlers |-> <<>>]
  /\ open = {} /\ stray = {} /\ raced = {}

Handle(h) ==
  Connect(h) \/ NoCommand(h) \/ Command(h) \/ Answered(h) \/ Fatal(h)

Next == Start \/ \E h \in Handlers : Handle(h) \/ Arrives(h)

Spec == Init /\ [][Next]_vars

-----------------------------------------------------------------------------
TypeOK ==
  /\ starts \in 0..MaxStart /\ alive \in BOOLEAN
  /\ stage \in [Handlers -> Kinds \cup
                  {"idle", "reading", "closed", "replied", "dead"}]
  /\ \A h \in Handlers : stage[h] \in Kinds \cup {"reading"} => alive
  /\ seid \in [Handlers -> Ses]
  /\ post \in [Handlers -> Kinds \cup {"none"}]
  /\ heard \in [Handlers -> Seq(Kinds)]
  /\ open \subseteq Ses /\ stray \subseteq Handlers /\ raced \subseteq Ses

(* A script comes inside a conversation of its secure element, unless two  *)
(* handlers worked on that element at once: the late POST of a process     *)
(* that has ended counts as one, whatever was started since.               *)
ScriptInConversation == \A h \in stray : seid[h] \in raced

(* A conversation is left open only by a handler whose process died.       *)
OpenOnlyIfAbandoned ==
  \A s \in open : \E h \in Handlers :
    seid[h] = s /\ stage[h] \in Kinds \cup {"dead"}

(* Every handler holds its conversation as the abstract specification      *)
(* says, however handlers, arrivals and the end of the process interleave. *)
statusOf(h) ==
  CASE stage[h] \in {"idle", "reading"} -> "waiting"
    [] stage[h] \in Kinds               -> "talking"
    [] stage[h] = "replied"             -> "done"
    [] stage[h] = "dead" /\ post[h] # "none" -> "late"
    [] OTHER                            -> "off"

Platform == INSTANCE Conversation
              WITH status <- [h \in Handlers |-> statusOf(h)]

HoldsConversations == Platform!Spec
=============================================================================
