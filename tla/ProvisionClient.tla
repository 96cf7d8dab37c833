--------------------------- MODULE ProvisionClient --------------------------
(***************************************************************************)
(* The push-provisioning client                                            *)
(* (main/dart/secontroller/web/pushprovision.dart).  A push opens a        *)
(* conversation with the secure-element platform: a POST, and one more POST *)
(* for every answer, until the State says there is no next step.  There is *)
(* one State; a second push replaces it while answers to the first are     *)
(* still to come.  The platform is known by its answers only.              *)
(***************************************************************************)
EXTENDS Naturals, Sequences, FiniteSets

CONSTANT MaxPush    \* bound: how often Push is clicked

ASSUME ProvisionAssumption == MaxPush \in Nat

VARIABLES
  currState,   \* state.currState, or "null" before the first push
  spinner,     \* the spinner is shown
  posts,       \* every POST, in the order they were sent
  pushes       \* how many pushes there were

pushVars == <<currState, spinner, posts, pushes>>

Kinds == {"BEGIN_CONVERSATION", "SEND_SCRIPT", "END_CONVERSATION"}
Outcomes == {"sent", "ok", "none", "refused"}

postSoap(aState) == [soap |-> aState, outcome |-> "sent"]

(* Slips: the script has no next step; a conversation never leaves its     *)
(* first.                                                                  *)
nextStateNoEnd(state) ==
  CASE state = "SE_COMMAND"         -> "BEGIN_CONVERSATION"
    [] state = "BEGIN_CONVERSATION" -> "SEND_SCRIPT"
    [] OTHER                        -> "BEGIN_CONVERSATION"

nextStateStays(state) ==
  IF state = "SE_COMMAND" THEN "BEGIN_CONVERSATION" ELSE state

(* getStatusState.  The last state keeps the nextState it was reached by,  *)
(* itself, and so ends the conversation.                                   *)
nextState(state) ==
  CASE state = "SE_COMMAND"         -> "BEGIN_CONVERSATION"
    [] state = "BEGIN_CONVERSATION" -> "SEND_SCRIPT"
    [] OTHER                        -> "END_CONVERSATION"

First == "BEGIN_CONVERSATION"

startPush ==
  /\ pushes < MaxPush /\ pushes' = pushes + 1
  /\ spinner' = TRUE
  /\ currState' = First
  /\ posts' = Append(posts, postSoap(First))

checkStep == nextState(currState) # currState

(* Slip: the client takes the step and then posts.                         *)
ToPostStepped == nextState(currState)

(* What is posted for an answer: the state before the step.                *)
ToPost == currState

(* Slip: a POST that got no answer at all is not taken for one.            *)
SuccessesStrict == {"ok"}

(* Status 0, of a POST that got no answer, counts as well as 200.          *)
Successes == {"ok", "none"}

WithOutcome(p, outcome) == [posts EXCEPT ![p].outcome = outcome]

loadEnd(p, outcome) ==
  /\ posts[p].outcome = "sent"
  /\ \/ /\ outcome \in Successes /\ checkStep
        /\ posts' = Append(WithOutcome(p, outcome), postSoap(ToPost))
        /\ currState' = nextState(currState)
     \/ /\ ~(outcome \in Successes /\ checkStep)
        /\ posts' = WithOutcome(p, outcome)
        /\ UNCHANGED currState
  /\ spinner' = (spinner /\ outcome # "refused")
  /\ UNCHANGED pushes

PushInit ==
  /\ currState = "null" /\ spinner = FALSE
  /\ posts = <<>> /\ pushes = 0

LoadEnd == \E p \in DOMAIN posts, outcome \in Outcomes \ {"sent"} :
             loadEnd(p, outcome)

PushNext == startPush \/ LoadEnd

(* Every XMLHttpRequest ends with loadend, whatever happens to it.         *)
PushSpec == PushInit /\ [][PushNext]_pushVars /\ WF_pushVars(LoadEnd)

-----------------------------------------------------------------------------
Sent(soap) == {p \in DOMAIN posts : posts[p].soap = soap}
With(outcomes) == {p \in DOMAIN posts : posts[p].outcome \in outcomes}

PushTypeOK ==
  /\ currState \in Kinds \cup {"null"}
  /\ spinner \in BOOLEAN
  /\ posts \in Seq([soap : Kinds, outcome : Outcomes])
  /\ pushes \in 0..MaxPush

(* Late answers to an old push drive the new one on.  Still no push sends  *)
(* its script twice.                                                       *)
ScriptOncePerPush == Cardinality(Sent("SEND_SCRIPT")) <= pushes

(* A script goes out on two answers, and no answer counts for two scripts. *)
ScriptsArePaidFor ==
  2 * Cardinality(Sent("SEND_SCRIPT")) <= Cardinality(With({"ok", "none"}))

(* While the spinner turns there is an answer to come, unless the          *)
(* conversation has gone through.                                          *)
NeverStuck ==
  spinner => currState = "END_CONVERSATION" \/ With({"sent"}) # {}

(* A push goes through, or is refused and the spinner says so.             *)
PushGoesThrough == spinner ~> (currState = "END_CONVERSATION" \/ ~spinner)

(* "Call normal begin, send and end conversation" (persomifare.go:110, of  *)
(* the controller that holds the same conversation): one that has gone     *)
(* through has been ended.                                                 *)
ConversationEnded ==
  (currState = "END_CONVERSATION" /\ With({"sent"}) = {})
    => Sent("END_CONVERSATION") # {}
=============================================================================
