-------------------------- MODULE SeControllerProofs ------------------------
(***************************************************************************)
(* Safety of SeController, and that it implements Conversation, for any    *)
(* number of handlers, secure elements and restarts.                       *)
(***************************************************************************)
EXTENDS SeController, TLAPS

-----------------------------------------------------------------------------
(* The invariant.                                                          *)

(* The place of a POST in the conversation.                                *)
Place(k) == IF k = "begin" THEN 1 ELSE IF k = "send" THEN 2 ELSE 3

(* What the platform has heard follows from what the handler is doing and  *)
(* from what is on its way.                                                *)
Held(h) ==
  /\ post[h] # "none" => /\ Len(heard[h]) = Place(post[h]) - 1
                         /\ stage[h] \in {post[h], "dead"}
  /\ stage[h] \in {"idle", "reading", "closed"} => Len(heard[h]) = 0
  /\ stage[h] \in Kinds /\ post[h] = "none" =>
       Len(heard[h]) = Place(stage[h])
  /\ stage[h] = "replied" => Len(heard[h]) = 3

Midway(h) == Len(heard[h]) \in {1, 2}

(* An element nobody raced for has one worker, whose conversation is open  *)
(* for the platform once the platform has heard its beginning.             *)
OneWorker(h) ==
  Working(h) /\ seid[h] \notin raced =>
    /\ \A g \in Handlers : seid[g] = seid[h] /\ Working(g) => g = h
    /\ Midway(h) => seid[h] \in open

(* Whoever left a conversation open was midway.                            *)
LeftMidway ==
  \A s \in open : \E h \in Handlers :
    seid[h] = s /\ stage[h] \in Kinds \cup {"dead"} /\ Midway(h)

HInv == TypeOK /\ \A h \in Handlers : Held(h)

IInv == HInv /\ LeftMidway /\ ScriptInConversation
             /\ \A h \in Handlers : OneWorker(h)

LEMMA Places ==
  /\ Place("begin") = 1 /\ Place("send") = 2 /\ Place("end") = 3
  /\ \A k \in Kinds : Place(k) \in 1..3
BY DEF Place, Kinds

LEMMA AfterFacts ==
  /\ After["begin"] = "send" /\ After["send"] = "end"
  /\ After["end"] = "replied"
BY DEF After

LEMMA InitIInv == Init => IInv
<1> SUFFICES ASSUME Init PROVE IInv
  OBVIOUS
<1> USE DEF Init
<1>1. \A h \in Handlers : ~Working(h)
  BY DEF Working, Kinds
<1>2. \A h \in Handlers : heard[h] = <<>> /\ Len(heard[h]) = 0
  OBVIOUS
<1>3. TypeOK
  <2>1. heard \in [Handlers -> Seq(Kinds)]
    BY <1>2
  <2>2. starts \in 0..MaxStart
    BY ControllerAssumption
  <2> QED
    BY <2>1, <2>2 DEF TypeOK, Kinds
<1>4. \A h \in Handlers : Held(h)
  BY <1>2 DEF Held, Kinds
<1> QED
  BY <1>1, <1>3, <1>4
     DEF IInv, HInv, OneWorker, LeftMidway, ScriptInConversation

-----------------------------------------------------------------------------
(* Types, and what has been heard.                                         *)

LEMMA NextHInv == HInv /\ [Next]_vars => HInv'
<1> SUFFICES ASSUME HInv, [Next]_vars PROVE HInv'
  OBVIOUS
<1> USE Places DEF HInv, TypeOK, Held, Kinds, process, platform
<1>1. CASE Start
  BY <1>1, ControllerAssumption DEF Start
<1>2. ASSUME NEW h \in Handlers, Connect(h) PROVE HInv'
  BY <1>2 DEF Connect
<1>3. ASSUME NEW h \in Handlers, NoCommand(h) PROVE HInv'
  BY <1>3 DEF NoCommand
<1>4. ASSUME NEW h \in Handlers, Command(h) PROVE HInv'
  BY <1>4 DEF Command
<1>5. ASSUME NEW h \in Handlers, Answered(h) PROVE HInv'
  <2>1. stage[h] \in Kinds /\ post[h] = "none"
    BY <1>5 DEF Answered, Awaited
  <2>2. CASE stage[h] = "begin"
    BY <1>5, <2>1, <2>2, AfterFacts DEF Answered
  <2>3. CASE stage[h] = "send"
    BY <1>5, <2>1, <2>3, AfterFacts DEF Answered
  <2>4. CASE stage[h] = "end"
    BY <1>5, <2>1, <2>4, AfterFacts DEF Answered
  <2> QED
    BY <2>1, <2>2, <2>3, <2>4
<1>6. ASSUME NEW h \in Handlers, Fatal(h) PROVE HInv'
  BY <1>6 DEF Fatal
<1>7. ASSUME NEW h \in Handlers, Arrives(h) PROVE HInv'
  BY <1>7 DEF Arrives
<1>8. CASE UNCHANGED vars
  BY <1>8 DEF vars
<1> QED
  BY <1>1, <1>2, <1>3, <1>4, <1>5, <1>6, <1>7, <1>8 DEF Next, Handle

-----------------------------------------------------------------------------
(* One worker, and who leaves a conversation open.                         *)

(* A step that lets nobody start to work and leaves the platform alone.    *)
LEMMA QuietOneWorker ==
  ASSUME HInv, \A h \in Handlers : OneWorker(h),
         UNCHANGED <<seid, platform, raced>>,
         \A h \in Handlers : Working(h)' => Working(h)
  PROVE  \A h \in Handlers : OneWorker(h)'
BY DEF OneWorker, Midway, platform

LEMMA NextOneWorker ==
  ASSUME IInv, [Next]_vars
  PROVE  /\ \A h \in Handlers : OneWorker(h)'
         /\ ScriptInConversation'
<1> USE DEF IInv
<1>1. CASE Start
  BY <1>1, QuietOneWorker DEF Start, Working, ScriptInConversation, platform
<1>2. ASSUME NEW h \in Handlers, Connect(h) \/ NoCommand(h)
      PROVE  /\ \A g \in Handlers : OneWorker(g)'
             /\ ScriptInConversation'
  <2>1. \A g \in Handlers : Working(g)' => Working(g)
    BY <1>2 DEF Connect, NoCommand, Working, Kinds, HInv, TypeOK
  <2>2. UNCHANGED <<seid, platform, raced>>
    BY <1>2 DEF Connect, NoCommand
  <2> QED
    BY <2>1, <2>2, QuietOneWorker DEF ScriptInConversation, platform
<1>3. ASSUME NEW h \in Handlers, Command(h)
      PROVE  /\ \A g \in Handlers : OneWorker(g)'
             /\ ScriptInConversation'
  <2>1. \A g \in Handlers : g # h => (Working(g)' <=> Working(g))
    BY <1>3 DEF Command, Working, HInv, TypeOK
  <2>2. UNCHANGED <<seid, platform>> /\ raced \subseteq raced'
    BY <1>3 DEF Command
  <2>3. \A g \in Handlers : seid[g] = seid[h] /\ Working(g) => seid[h] \in raced'
    BY <1>3 DEF Command
  <2>4. ~Midway(h)'
    BY <1>3, <2>2 DEF Command, Midway, HInv, Held, platform
  <2>5. OneWorker(h)'
    BY <2>1, <2>2, <2>3, <2>4 DEF OneWorker
  <2>6. ASSUME NEW g \in Handlers, g # h PROVE OneWorker(g)'
    <3> SUFFICES ASSUME Working(g)', seid'[g] \notin raced'
                 PROVE  /\ \A f \in Handlers :
                             seid'[f] = seid'[g] /\ Working(f)' => f = g
                        /\ Midway(g)' => seid'[g] \in open'
      BY DEF OneWorker
    <3>1. Working(g) /\ seid[g] \notin raced /\ seid[g] # seid[h]
      BY <2>1, <2>2, <2>3, <2>6
    <3> QED
      BY <3>1, <2>1, <2>2 DEF OneWorker, Midway, platform
  <2>7. ScriptInConversation'
    BY <2>2 DEF ScriptInConversation, platform
  <2> QED
    BY <2>5, <2>6, <2>7
<1>4. ASSUME NEW h \in Handlers, Answered(h) \/ Fatal(h)
      PROVE  /\ \A g \in Handlers : OneWorker(g)'
             /\ ScriptInConversation'
  <2>1. \A g \in Handlers : Working(g)' => Working(g)
    BY <1>4, AfterFacts
       DEF Answered, Awaited, Fatal, Working, Kinds, HInv, TypeOK
  <2>2. UNCHANGED <<seid, platform, raced>>
    BY <1>4 DEF Answered, Fatal
  <2> QED
    BY <2>1, <2>2, QuietOneWorker DEF ScriptInConversation, platform
<1>5. ASSUME NEW h \in Handlers, Arrives(h)
      PROVE  /\ \A g \in Handlers : OneWorker(g)'
             /\ ScriptInConversation'
  <2>1. /\ UNCHANGED <<stage, seid, raced>> /\ Working(h)
        /\ \A g \in Handlers : Working(g)' => Working(g)
        /\ \A g \in Handlers : g # h => heard'[g] = heard[g]
    BY <1>5 DEF Arrives, Working, HInv, TypeOK
  <2>2. ASSUME seid[h] \notin raced
        PROVE  /\ Midway(h)' => seid[h] \in open'
               /\ post[h] = "send" => seid[h] \in open
    <3>1. post[h] \in Kinds /\ Len(heard[h]) = Place(post[h]) - 1
      BY <1>5 DEF Arrives, HInv, TypeOK, Held
    <3>2. Len(heard'[h]) = Len(heard[h]) + 1
      BY <1>5, <3>1 DEF Arrives, HInv, TypeOK
    <3>3. post[h] = "send" => seid[h] \in open
      <4> SUFFICES ASSUME post[h] = "send" PROVE seid[h] \in open
        OBVIOUS
      <4>1. Len(heard[h]) = 1
        BY <3>1, Places
      <4> QED
        BY <2>1, <2>2, <4>1 DEF OneWorker, Midway
    <3> QED
      BY <1>5, <3>1, <3>2, <3>3, Places DEF Arrives, Midway, Kinds
  <2>3. OneWorker(h)'
    BY <2>1, <2>2 DEF OneWorker
  <2>4. ASSUME NEW g \in Handlers, g # h PROVE OneWorker(g)'
    <3> SUFFICES ASSUME Working(g)', seid'[g] \notin raced'
                 PROVE  /\ \A f \in Handlers :
                             seid'[f] = seid'[g] /\ Working(f)' => f = g
                        /\ Midway(g)' => seid'[g] \in open'
      BY DEF OneWorker
    <3>1. seid[h] # seid[g] /\ Working(g) /\ seid[g] \notin raced
      BY <2>1, <2>4 DEF OneWorker
    <3>2. seid[g] \in open => seid[g] \in open'
      BY <1>5, <3>1 DEF Arrives
    <3>3. Midway(g)' => Midway(g)
      BY <2>1, <2>4 DEF Midway
    <3> QED
      BY <2>1, <3>1, <3>2, <3>3 DEF OneWorker
  <2>5. ScriptInConversation'
    BY <1>5, <2>1, <2>2 DEF Arrives, ScriptInConversation
  <2> QED
    BY <2>3, <2>4, <2>5
<1>6. CASE UNCHANGED vars
  BY <1>6, QuietOneWorker DEF vars, Working, ScriptInConversation, platform
<1> QED
  BY <1>1, <1>2, <1>3, <1>4, <1>5, <1>6 DEF Next, Handle

LEMMA NextLeftMidway ==
  ASSUME HInv, LeftMidway, [Next]_vars
  PROVE  LeftMidway'
<1> DEFINE Left(s, h) == /\ seid[h] = s /\ stage[h] \in Kinds \cup {"dead"}
                         /\ Midway(h)
<1>1. ASSUME UNCHANGED <<seid, platform>>,
             \A h \in Handlers : stage[h] \in Kinds \cup {"dead"} /\ Midway(h)
                => stage'[h] \in Kinds \cup {"dead"}
      PROVE  LeftMidway'
  BY <1>1 DEF LeftMidway, Midway, platform
<1>2. CASE Start \/ UNCHANGED vars
  BY <1>1, <1>2 DEF Start, vars, platform
<1>3. ASSUME NEW h \in Handlers, Connect(h) \/ NoCommand(h) \/ Command(h)
      PROVE  LeftMidway'
  BY <1>1, <1>3 DEF Connect, NoCommand, Command, Kinds, HInv, TypeOK
<1>4. ASSUME NEW h \in Handlers, Answered(h) PROVE LeftMidway'
  <2>1. stage[h] = "end" => Len(heard[h]) = 3
    BY <1>4, Places DEF Answered, Awaited, HInv, Held
  <2>2. stage[h] # "end" => stage'[h] \in Kinds
    BY <1>4, AfterFacts DEF Answered, Awaited, Kinds, HInv, TypeOK
  <2>3. \A g \in Handlers : g # h => stage'[g] = stage[g]
    BY <1>4 DEF Answered, HInv, TypeOK
  <2> QED
    BY <1>1, <1>4, <2>1, <2>2, <2>3 DEF Answered, Midway
<1>5. ASSUME NEW h \in Handlers, Fatal(h) PROVE LeftMidway'
  BY <1>1, <1>5 DEF Fatal
<1>6. ASSUME NEW h \in Handlers, Arrives(h) PROVE LeftMidway'
  <2>1. /\ UNCHANGED <<stage, seid>>
        /\ \A g \in Handlers : g # h => heard'[g] = heard[g]
    BY <1>6 DEF Arrives, HInv, TypeOK
  <2>2. /\ post[h] \in Kinds /\ stage[h] \in Kinds \cup {"dead"}
        /\ Len(heard'[h]) = Place(post[h])
    BY <1>6, Places DEF Arrives, HInv, TypeOK, Held
  <2>3. ASSUME NEW s \in open', s \notin open \/ s = seid[h]
        PROVE  seid[h] = s /\ post[h] # "end"
    BY <1>6, <2>3 DEF Arrives, Kinds
  <2>4. ASSUME NEW s \in open' PROVE \E g \in Handlers : Left(s, g)'
    <3>1. CASE s \in open /\ s # seid[h]
      BY <2>1, <3>1 DEF LeftMidway, Midway
    <3>2. CASE s \notin open \/ s = seid[h]
      <4>1. seid[h] = s /\ Len(heard'[h]) \in {1, 2}
        BY <2>2, <2>3, <2>4, <3>2, Places DEF Kinds
      <4> QED
        BY <2>1, <2>2, <4>1 DEF Midway
    <3> QED
      BY <3>1, <3>2
  <2> QED
    BY <2>4 DEF LeftMidway
<1> QED
  BY <1>2, <1>3, <1>4, <1>5, <1>6 DEF Next, Handle

-----------------------------------------------------------------------------
(* The theorems.                                                           *)

LEMMA NextIInv == IInv /\ [Next]_vars => IInv'
BY NextHInv, NextOneWorker, NextLeftMidway DEF IInv

LEMMA Inductive == Spec => []IInv
BY InitIInv, NextIInv, PTL DEF Spec

(* The state stays well formed, and no handler works when the process does *)
(* not run (SEController, log.Fatal).                                      *)
THEOREM TypeCorrect == Spec => []TypeOK
<1>1. IInv => TypeOK
  BY DEF IInv, HInv
<1> QED
  BY <1>1, Inductive, PTL

(* A script reaches the platform inside a conversation of its element,     *)
(* unless two handlers worked on that element at once (begin, send, end).  *)
THEOREM ScriptInConversationHolds == Spec => []ScriptInConversation
<1>1. IInv => ScriptInConversation
  BY DEF IInv
<1> QED
  BY <1>1, Inductive, PTL

(* Only a process that dies leaves a conversation open (soapRequest).      *)
THEOREM OpenOnlyIfAbandonedHolds == Spec => []OpenOnlyIfAbandoned
<1>1. IInv => OpenOnlyIfAbandoned
  BY DEF IInv, LeftMidway, OpenOnlyIfAbandoned
<1> QED
  BY <1>1, Inductive, PTL

-----------------------------------------------------------------------------
(* SeController implements Conversation.                                   *)

LEMMA InitHolds == Init => Platform!Init
BY DEF Init, Platform!Init, statusOf, Kinds

(* A step that leaves every status and what was heard is a stutter.        *)
LEMMA Stutter ==
  ASSUME \A h \in Handlers : statusOf(h)' = statusOf(h), UNCHANGED heard
  PROVE  UNCHANGED Platform!vars
BY DEF Platform!vars

LEMMA NextHolds ==
  ASSUME HInv, [Next]_vars
  PROVE  [Platform!Next]_(Platform!vars)
<1> DEFINE st == [h \in Handlers |-> statusOf(h)]
<1> USE DEF Kinds
<1>1. CASE Start \/ UNCHANGED vars
  BY <1>1, Stutter DEF Start, vars, statusOf, platform
<1>2. ASSUME NEW h \in Handlers, Connect(h)
      PROVE  UNCHANGED Platform!vars
  BY <1>2, Stutter DEF Connect, statusOf, HInv, TypeOK, platform
<1>3. ASSUME NEW h \in Handlers, NoCommand(h) \/ Command(h)
      PROVE  Platform!Take(h)
  <2>1. statusOf(h) = "waiting" /\ statusOf(h)' \in {"talking", "off"}
    BY <1>3 DEF NoCommand, Command, statusOf, HInv, TypeOK
  <2>2. \A g \in Handlers : g # h => statusOf(g)' = statusOf(g)
    BY <1>3 DEF NoCommand, Command, statusOf, HInv, TypeOK
  <2>3. st' = [st EXCEPT ![h] = statusOf(h)']
    BY <2>2
  <2>4. UNCHANGED heard
    BY <1>3 DEF NoCommand, Command, platform
  <2> QED
    BY <2>1, <2>3, <2>4 DEF Platform!Take
<1>4. ASSUME NEW h \in Handlers, Answered(h)
      PROVE  Platform!Finish(h) \/ UNCHANGED Platform!vars
  <2>1. stage[h] \in Kinds /\ post[h] = "none" /\ UNCHANGED heard
    BY <1>4 DEF Answered, Awaited, platform
  <2>2. \A g \in Handlers : g # h => statusOf(g)' = statusOf(g)
    BY <1>4 DEF Answered, statusOf, HInv, TypeOK
  <2>3. CASE stage[h] = "end"
    <3>1. statusOf(h) = "talking" /\ statusOf(h)' = "done"
      BY <1>4, <2>3, AfterFacts DEF Answered, statusOf, HInv, TypeOK
    <3>2. st' = [st EXCEPT ![h] = "done"]
      BY <2>2, <3>1
    <3>3. Len(heard[h]) = Len(Platform!Script)
      BY <2>1, <2>3, Places DEF HInv, Held, Platform!Script
    <3> QED
      BY <2>1, <3>1, <3>2, <3>3 DEF Platform!Finish
  <2>4. CASE stage[h] # "end"
    <3>1. statusOf(h)' = statusOf(h)
      BY <1>4, <2>1, <2>4, AfterFacts DEF Answered, statusOf, HInv, TypeOK
    <3> QED
      BY <2>1, <2>2, <3>1, Stutter
  <2> QED
    BY <2>3, <2>4
<1>5. ASSUME NEW h \in Handlers, Fatal(h) PROVE Platform!GiveUp
  <2>1. \A g \in Handlers : statusOf(g)' \in Platform!GivenUp(statusOf(g))
    <3> SUFFICES ASSUME NEW g \in Handlers
                 PROVE  statusOf(g)' \in Platform!GivenUp(statusOf(g))
      OBVIOUS
    <3>1. CASE stage[g] \in Kinds
      <4>1. statusOf(g) = "talking" /\ statusOf(g)' \in {"late", "off"}
        BY <1>5, <3>1 DEF Fatal, statusOf, HInv, TypeOK
      <4> QED
        BY <4>1 DEF Platform!GivenUp
    <3>2. CASE stage[g] = "reading"
      <4>1. statusOf(g) = "waiting" /\ statusOf(g)' = "off"
        BY <1>5, <3>2 DEF Fatal, statusOf, HInv, TypeOK, Held
      <4> QED
        BY <4>1 DEF Platform!GivenUp
    <3>3. CASE stage[g] \notin Kinds \cup {"reading"}
      <4>1. statusOf(g)' = statusOf(g) /\ statusOf(g) # "talking"
        BY <1>5, <3>3 DEF Fatal, statusOf, HInv, TypeOK
      <4> QED
        BY <4>1 DEF Platform!GivenUp
    <3> QED
      BY <3>1, <3>2, <3>3
  <2>2. \A g \in Handlers : statusOf(g)' \in Platform!Statuses
    BY DEF statusOf, Platform!Statuses
  <2>3. UNCHANGED heard
    BY <1>5 DEF Fatal, platform
  <2> QED
    BY <2>1, <2>2, <2>3 DEF Platform!GiveUp
<1>6. ASSUME NEW h \in Handlers, Arrives(h) PROVE Platform!Hear(h)
  <2>1. /\ post[h] \in Kinds /\ stage[h] \in Kinds \cup {"dead"}
        /\ Len(heard[h]) = Place(post[h]) - 1
    BY <1>6 DEF Arrives, HInv, TypeOK, Held
  <2>2. /\ Len(heard[h]) < Len(Platform!Script)
        /\ Platform!Script[Len(heard[h]) + 1] = post[h]
    <3>1. CASE post[h] = "begin"
      <4>1. Len(heard[h]) = 0
        BY <2>1, <3>1, Places
      <4> QED
        BY <3>1, <4>1 DEF Platform!Script
    <3>2. CASE post[h] = "send"
      <4>1. Len(heard[h]) = 1
        BY <2>1, <3>2, Places
      <4> QED
        BY <3>2, <4>1 DEF Platform!Script
    <3>3. CASE post[h] = "end"
      <4>1. Len(heard[h]) = 2
        BY <2>1, <3>3, Places
      <4> QED
        BY <3>3, <4>1 DEF Platform!Script
    <3> QED
      BY <2>1, <3>1, <3>2, <3>3
  <2>3. heard' = [heard EXCEPT ![h] = Append(heard[h],
                    Platform!Script[Len(heard[h]) + 1])]
    BY <1>6, <2>2 DEF Arrives, HInv, TypeOK
  <2>4. /\ statusOf(h) \in {"talking", "late"}
        /\ statusOf(h)' = IF statusOf(h) = "late" THEN "off" ELSE statusOf(h)
    BY <1>6, <2>1 DEF Arrives, statusOf, HInv, TypeOK
  <2>5. \A g \in Handlers : g # h => statusOf(g)' = statusOf(g)
    BY <1>6 DEF Arrives, statusOf, HInv, TypeOK
  <2>6. st' = [st EXCEPT ![h] = IF statusOf(h) = "late" THEN "off"
                                ELSE statusOf(h)]
    BY <2>4, <2>5
  <2> QED
    BY <2>2, <2>3, <2>4, <2>6 DEF Platform!Hear
<1> QED
  BY <1>1, <1>2, <1>3, <1>4, <1>5, <1>6 DEF Next, Handle, Platform!Next

(* Every handler holds its conversation as Conversation says (SEController, *)
(* getData, pushCard): its POSTs in order, its client told at the end, and *)
(* one POST at most after the process has died.                            *)
THEOREM HoldsConversationsHolds == Spec => HoldsConversations
<1>1. IInv => HInv
  BY DEF IInv
<1> QED
  BY <1>1, Inductive, InitHolds, NextHolds, PTL
     DEF Spec, HoldsConversations, Platform!Spec
=============================================================================
