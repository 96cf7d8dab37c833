------------------------------ MODULE PersoLink -----------------------------
(***************************************************************************)
(* The personalisation client (main/dart/persoclient/web/persoclient.dart) *)
(* and its server (main/go/src/persotool.go), joined by a web socket.  The *)
(* client reconnects for ever, but asks for the cards once.  The server    *)
(* reads one command from a connection, replies, and closes it.            *)
(*                                                                         *)
(* A socket's name is free again when nothing of it is left at either end. *)
(* The server opens the page before it listens, so it begins not running.  *)
(***************************************************************************)
EXTENDS Naturals

CONSTANTS
  Sockets,    \* web sockets, at one time
  NumCards    \* cards in the table wallet_perso_profile

ASSUME PersoLinkAssumption == NumCards \in Nat

VARIABLES
  alive,           \* the server runs
  handler,         \* handler[n]: the server's end of socket n
  sock,            \* sock[n]: the client's end of socket n
  asked,           \* asked[n]: "go" was sent on socket n
  webSocket,       \* the client's field: the socket made last
  isFirstTime,
  connectPending,
  timers,          \* reconnect timers that are running
  cards,           \* length of mCardIdentifier
  replies          \* history: how many replies the client has received

serverVars == <<alive, handler>>
linkVars == <<webSocket, connectPending, timers>>
cardVars == <<cards, replies>>
vars == <<serverVars, sock, asked, isFirstTime, linkVars, cardVars>>

Live == {n \in Sockets : sock[n] # "none"}
Free == {n \in Sockets : sock[n] = "none" /\ handler[n] = "none"}

-----------------------------------------------------------------------------
(* The client.                                                             *)

(* Slip: connectPending is not tested.                                     *)
onDisconnectedUnguarded(times) ==
  /\ connectPending' = TRUE
  /\ timers' = timers + times

(* Called as often as times says, by onError, by onClose or by both: only  *)
(* the first call gets past the guard.                                     *)
onDisconnected(times) ==
  /\ connectPending' = TRUE
  /\ timers' = IF connectPending THEN timers ELSE timers + 1

(* Slip: connectPending is left as it is.                                  *)
connectStillPending ==
  /\ timers > 0 /\ timers' = timers - 1
  /\ \E n \in Free : /\ sock' = [sock EXCEPT ![n] = "connecting"]
                     /\ webSocket' = n
  /\ UNCHANGED <<serverVars, asked, isFirstTime, connectPending, cardVars>>

(* Slip: the command is sent as soon as there is a socket.                 *)
connectAsking ==
  /\ timers > 0 /\ timers' = timers - 1
  /\ connectPending' = FALSE
  /\ \E n \in Free : /\ sock' = [sock EXCEPT ![n] = "connecting"]
                     /\ webSocket' = n
                     /\ asked' = [asked EXCEPT ![n] = isFirstTime]
  /\ isFirstTime' = FALSE
  /\ UNCHANGED <<serverVars, cardVars>>

(* The timer fires.                                                        *)
connect ==
  /\ timers > 0 /\ timers' = timers - 1
  /\ connectPending' = FALSE
  /\ \E n \in Free : /\ sock' = [sock EXCEPT ![n] = "connecting"]
                     /\ webSocket' = n
  /\ UNCHANGED <<serverVars, asked, isFirstTime, cardVars>>

(* Slip: the command is sent on every connection.                          *)
AskAlways == TRUE

Ask == isFirstTime

(* onOpen, onConnected: the callback works on the field, whose socket need *)
(* not be the one that opened.                                             *)
onConnected(n) ==
  /\ alive /\ sock[n] = "connecting"
  /\ sock' = [sock EXCEPT ![n] = "open"]
  /\ handler' = [handler EXCEPT ![n] = "reading"]
  /\ asked' = IF Ask THEN [asked EXCEPT ![webSocket] = TRUE] ELSE asked
  /\ isFirstTime' = FALSE
  /\ UNCHANGED <<alive, linkVars, cardVars>>

(* The connection does not come about: onError alone, since onClose is     *)
(* listened to from onOpen on.                                             *)
ConnectFails(n) ==
  /\ sock[n] = "connecting"
  /\ sock' = [sock EXCEPT ![n] = "none"]
  /\ onDisconnected(1)
  /\ UNCHANGED <<serverVars, asked, isFirstTime, webSocket, cardVars>>

Gone(n) ==
  /\ sock[n] = "open"
  /\ sock' = [sock EXCEPT ![n] = "none"]
  /\ asked' = [asked EXCEPT ![n] = FALSE]
  /\ \E times \in {1, 2} : onDisconnected(times)
  /\ UNCHANGED <<isFirstTime, webSocket, cardVars>>

(* The connection breaks.  A handler that is fetching does not notice.     *)
Break(n) ==
  /\ Gone(n)
  /\ handler' = [handler EXCEPT ![n] = IF @ = "fetching" THEN @ ELSE "none"]
  /\ UNCHANGED alive

(* The server's close arrives, behind what it sent before.                 *)
Close(n) ==
  /\ handler[n] = "closing" /\ Gone(n)
  /\ handler' = [handler EXCEPT ![n] = "none"]
  /\ UNCHANGED alive

(* onMessage: the cards of the reply, up to one that does not decode.      *)
onMessage(n) ==
  /\ handler[n] = "replied" /\ sock[n] = "open"
  /\ handler' = [handler EXCEPT ![n] = "closing"]
  /\ \E k \in 0..NumCards : cards' = cards + k
  /\ replies' = replies + 1
  /\ UNCHANGED <<alive, sock, asked, isFirstTime, linkVars>>

-----------------------------------------------------------------------------
(* The server.                                                             *)

(* Slip: the handler waits for a second command.                           *)
ReadTwice(n) == handler[n] = "reading" /\ asked[n] /\ UNCHANGED vars

(* PersoServer: one Read; a second connection sends nothing, and waits.    *)
Read(n) ==
  /\ handler[n] = "reading" /\ asked[n]
  /\ handler' = [handler EXCEPT ![n] = "fetching"]
  /\ UNCHANGED <<alive, sock, asked, isFirstTime, linkVars, cardVars>>

(* fetchCards, and the reply, unless there is nobody to send it to.        *)
Reply(n) ==
  /\ handler[n] = "fetching"
  /\ handler' = [handler EXCEPT ![n] = IF sock[n] = "open" THEN "replied"
                                                           ELSE "none"]
  /\ UNCHANGED <<alive, sock, asked, isFirstTime, linkVars, cardVars>>

(* The process ends: every connection closes, but a reply that is on its   *)
(* way still arrives.                                                      *)
Exit ==
  /\ alive' = FALSE
  /\ handler' = [m \in Sockets |-> IF sock[m] # "open" THEN "none"
                                   ELSE IF handler[m] = "replied" THEN "replied"
                                   ELSE "closing"]
  /\ UNCHANGED <<sock, asked, isFirstTime, linkVars, cardVars>>

Die(n) == handler[n] = "fetching" /\ Exit   \* log.Fatal in fetchCards

Stop == alive /\ Exit                        \* its user stops the server

Start ==
  /\ ~alive /\ alive' = TRUE
  /\ UNCHANGED <<handler, sock, asked, isFirstTime, linkVars, cardVars>>

-----------------------------------------------------------------------------
Init ==
  /\ alive = FALSE
  /\ handler = [n \in Sockets |-> "none"]
  /\ webSocket \in Sockets
  /\ sock = [n \in Sockets |-> IF n = webSocket THEN "connecting" ELSE "none"]
  /\ asked = [n \in Sockets |-> FALSE]
  /\ isFirstTime = TRUE /\ connectPending = FALSE /\ timers = 0
  /\ cards = 0 /\ replies = 0

Client(n) ==
  onConnected(n) \/ ConnectFails(n) \/ Break(n) \/ Close(n) \/ onMessage(n)

Server(n) == Read(n) \/ Reply(n) \/ Die(n)

Next ==
  \/ connect \/ Start \/ Stop
  \/ \E n \in Sockets : Client(n) \/ Server(n)

(* A timer fires; a handler's read, query and reply end, the query by its  *)
(* own timeout if need be; what has been sent arrives unless the           *)
(* connection breaks.                                                      *)
Fairness ==
  /\ WF_vars(connect)
  /\ \A n \in Sockets : /\ WF_vars(Read(n)) /\ WF_vars(Reply(n) \/ Die(n))
                        /\ WF_vars(onMessage(n)) /\ WF_vars(Close(n))

Spec == Init /\ [][Next]_vars /\ Fairness

-----------------------------------------------------------------------------
TypeOK ==
  /\ alive \in BOOLEAN
  /\ handler \in [Sockets -> {"none", "reading", "fetching", "replied", "closing"}]
  /\ sock \in [Sockets -> {"none", "connecting", "open"}]
  /\ asked \in [Sockets -> BOOLEAN]
  /\ \A n \in Sockets : asked[n] => sock[n] = "open"
  /\ webSocket \in Sockets
  /\ isFirstTime \in BOOLEAN /\ connectPending \in BOOLEAN
  /\ timers \in Nat /\ cards \in Nat /\ replies \in Nat

(* onError and onClose may both report one loss, and connect forgets the   *)
(* socket it had.  Still there is one live socket, the one in the field    *)
(* the callbacks use, or one timer to make the next; never both, never     *)
(* neither.                                                                *)
OneLink ==
  /\ timers \in {0, 1} /\ (connectPending <=> timers = 1)
  /\ Live = IF timers = 1 THEN {} ELSE {webSocket}

(* However often the client reconnects, no card is listed twice.           *)
CardsOnce == cards <= NumCards

(* The client never stops trying to connect (onDisconnected).              *)
KeepsTrying == (Live = {}) ~> (Live # {})

(* A client that has asked is answered, as long as its connection lasts.   *)
Answered ==
  \A n \in Sockets : asked[n] ~> (replies > 0 \/ sock[n] # "open")
=============================================================================
