----------------------------- MODULE Conversation ---------------------------
(***************************************************************************)
(* What the secure-element controller promises the platform: of each       *)
(* conversation it hears the script's POSTs in order and each once, a      *)
(* client is told it is over when all of it was heard, and a conversation  *)
(* is given up only together with all others that are being held, after    *)
(* which one POST of it, at most, still comes.                             *)
(***************************************************************************)
EXTENDS Naturals, Sequences

CONSTANT Handlers

Script == <<"begin", "send", "end">>

Statuses == {"waiting", "talking", "late", "off", "done"}

VARIABLES
  status,   \* status[h]: where conversation h is
  heard     \* heard[h]: what the platform has heard of it

vars == <<status, heard>>

Init ==
  /\ status = [h \in Handlers |-> "waiting"]
  /\ heard = [h \in Handlers |-> <<>>]

(* A client's command begins a conversation, or turns out to be none.      *)
Take(h) ==
  /\ status[h] = "waiting"
  /\ \E s \in {"talking", "off"} : status' = [status EXCEPT ![h] = s]
  /\ UNCHANGED heard

Hear(h) ==
  /\ status[h] \in {"talking", "late"} /\ Len(heard[h]) < Len(Script)
  /\ heard' = [heard EXCEPT ![h] = Append(@, Script[Len(@) + 1])]
  /\ status' = [status EXCEPT ![h] = IF @ = "late" THEN "off" ELSE @]

Finish(h) ==
  /\ status[h] = "talking" /\ Len(heard[h]) = Len(Script)
  /\ status' = [status EXCEPT ![h] = "done"]
  /\ UNCHANGED heard

GivenUp(s) ==
  IF s = "talking" THEN {"late", "off"}
  ELSE IF s = "waiting" THEN {"waiting", "off"} ELSE {s}

GiveUp ==
  /\ status' \in [Handlers -> Statuses]
  /\ \A h \in Handlers : status'[h] \in GivenUp(status[h])
  /\ UNCHANGED heard

Next == GiveUp \/ \E h \in Handlers : Take(h) \/ Hear(h) \/ Finish(h)

Spec == Init /\ [][Next]_vars
=============================================================================
