----------------------------- MODULE CardProofs -----------------------------
(***************************************************************************)
(* What holds of the two programs that put cards on a secure element: of   *)
(* the personalisation client and its server for any number of sockets and *)
(* cards, and of the push-provisioning client however many pushes there    *)
(* are and in whatever order their answers come.                           *)
(***************************************************************************)
EXTENDS PersoLink, ProvisionClient, SequenceTheorems, FiniteSetTheorems, TLAPS

-----------------------------------------------------------------------------
(* The personalisation client and its server.                              *)

LInv == TypeOK /\ OneLink

LEMMA InitLInv == Init => LInv
<1> SUFFICES ASSUME Init PROVE LInv
  OBVIOUS
<1>1. TypeOK
  BY DEF Init, TypeOK
<1>2. \A n \in Sockets : sock[n] # "none" <=> n = webSocket
  BY DEF Init
<1>3. Live = {webSocket}
  BY <1>2 DEF Init, Live
<1>4. OneLink
  BY <1>3 DEF Init, OneLink
<1> QED
  BY <1>1, <1>4 DEF LInv

(* A loss of the one live socket leaves a timer in its place.              *)
LEMMA Loss ==
  ASSUME LInv, NEW n \in Sockets, sock[n] # "none",
         sock' = [sock EXCEPT ![n] = "none"],
         NEW times \in {1, 2}, onDisconnected(times)
  PROVE  timers' = 1 /\ connectPending' /\ Live' = {}
<1>1. timers = 0 /\ ~connectPending /\ Live = {n}
  BY DEF LInv, TypeOK, OneLink, Live
<1>2. \A m \in Sockets : sock'[m] = "none"
  BY <1>1 DEF LInv, TypeOK, Live
<1> QED
  BY <1>1, <1>2 DEF onDisconnected, Live

LEMMA NextLInv == LInv /\ [Next]_vars => LInv'
<1> SUFFICES ASSUME LInv, [Next]_vars PROVE LInv'
  OBVIOUS
<1> USE DEF LInv, TypeOK, OneLink, Live, serverVars, linkVars, cardVars
<1>1. CASE connect
  <2>1. timers = 1 /\ Live = {}
    BY <1>1 DEF connect
  <2>2. PICK n \in Sockets : sock' = [sock EXCEPT ![n] = "connecting"]
                             /\ webSocket' = n
    BY <1>1 DEF connect, Free
  <2>3. \A m \in Sockets : sock[m] = "none" /\ ~asked[m]
    BY <2>1
  <2>4. \A m \in Sockets : sock'[m] # "none" <=> m = n
    BY <2>2, <2>3
  <2>5. Live' = {webSocket'}
    BY <2>2, <2>4
  <2>6. timers' = 0 /\ connectPending' = FALSE
    BY <1>1, <2>1 DEF connect
  <2>7. OneLink'
    BY <2>5, <2>6
  <2>8. sock' \in [Sockets -> {"none", "connecting", "open"}]
    BY <2>2
  <2>9. UNCHANGED <<serverVars, asked, isFirstTime, cardVars>>
    BY <1>1 DEF connect
  <2>10. TypeOK'
    BY <2>2, <2>3, <2>6, <2>8, <2>9
  <2> QED
    BY <2>7, <2>10
<1>2. CASE Start
  BY <1>2 DEF Start
<1>0. ASSUME Exit PROVE LInv'
  BY <1>0 DEF Exit
<1>3. ASSUME NEW n \in Sockets, onConnected(n) PROVE LInv'
  <2>1. n = webSocket
    BY <1>3 DEF onConnected
  <2>2. Live' = Live
    BY <1>3 DEF onConnected
  <2>3. \A m \in Sockets : asked'[m] => sock'[m] = "open"
    BY <1>3, <2>1 DEF onConnected
  <2>4. OneLink'
    BY <1>3, <2>2 DEF onConnected
  <2>5. asked' \in [Sockets -> BOOLEAN]
    BY <1>3 DEF onConnected
  <2>6. TypeOK'
    BY <1>3, <2>3, <2>5 DEF onConnected
  <2> QED
    BY <2>4, <2>6
<1>4. ASSUME NEW n \in Sockets, ConnectFails(n) PROVE LInv'
  <2>1. timers' = 1 /\ connectPending' /\ Live' = {}
    BY <1>4, Loss DEF ConnectFails
  <2> QED
    BY <1>4, <2>1 DEF ConnectFails, onDisconnected
<1>5. ASSUME NEW n \in Sockets, Gone(n),
             handler' \in [Sockets -> {"none", "reading", "fetching",
                                       "replied", "closing"}],
             UNCHANGED alive
      PROVE  LInv'
  <2>1. timers' = 1 /\ connectPending' = TRUE /\ Live' = {}
    BY <1>5, Loss DEF Gone, onDisconnected
  <2>2. OneLink'
    BY <2>1
  <2>3. TypeOK'
    BY <1>5, <2>1 DEF Gone
  <2> QED
    BY <2>2, <2>3
<1>6. ASSUME NEW n \in Sockets, Break(n) PROVE LInv'
  BY <1>5, <1>6 DEF Break
<1>7. ASSUME NEW n \in Sockets, Close(n) PROVE LInv'
  BY <1>5, <1>7 DEF Close
<1>8. ASSUME NEW n \in Sockets, onMessage(n) PROVE LInv'
  <2>1. PICK k \in 0..NumCards : cards' = cards + k
    BY <1>8 DEF onMessage
  <2>2. cards' \in Nat /\ replies' \in Nat
    BY <1>8, <2>1, PersoLinkAssumption DEF onMessage
  <2>3. UNCHANGED <<alive, sock, asked, isFirstTime, linkVars>>
    BY <1>8 DEF onMessage
  <2>4. handler' \in [Sockets -> {"none", "reading", "fetching", "replied",
                                 "closing"}]
    BY <1>8 DEF onMessage
  <2> QED
    BY <2>2, <2>3, <2>4
<1>9. ASSUME NEW n \in Sockets, Server(n) PROVE LInv'
  <2>1. CASE Read(n) \/ Reply(n)
    <3>1. handler' \in [Sockets -> {"none", "reading", "fetching", "replied",
                                   "closing"}]
      BY <2>1 DEF Read, Reply
    <3>2. UNCHANGED <<alive, sock, asked, isFirstTime, linkVars, cardVars>>
      BY <2>1 DEF Read, Reply
    <3> QED
      BY <3>1, <3>2
  <2> QED
    BY <1>0, <1>9, <2>1 DEF Server, Die
<1>10. CASE UNCHANGED vars
  BY <1>10 DEF vars
<1> QED
  BY <1>0, <1>1, <1>2, <1>3, <1>4, <1>6, <1>7, <1>8, <1>9, <1>10
     DEF Next, Client, Stop

(* Sockets, timers and fields are well formed in every reachable state.    *)
THEOREM TypeCorrect == Spec => []TypeOK
<1>1. LInv => TypeOK
  BY DEF LInv
<1> QED
  BY InitLInv, NextLInv, <1>1, PTL DEF Spec

(* There is one live socket or one timer, whatever breaks when             *)
(* (onDisconnected, connect).                                              *)
THEOREM OneLinkHolds == Spec => []OneLink
<1>1. LInv => OneLink
  BY DEF LInv
<1> QED
  BY InitLInv, NextLInv, <1>1, PTL DEF Spec

-----------------------------------------------------------------------------
(* The one question the client asks is at one place at most, and cards     *)
(* come only from its answer.                                              *)

Asking(n) == \/ handler[n] \in {"fetching", "replied"}
             \/ handler[n] = "reading" /\ asked[n]

OneQuestion ==
  /\ \A n \in Sockets : Asking(n) => ~isFirstTime /\ cards = 0
  /\ \A m, n \in Sockets : Asking(m) /\ Asking(n) => m = n
  /\ isFirstTime => cards = 0

CInv == LInv /\ OneQuestion /\ CardsOnce

LEMMA InitCInv == Init => CInv
BY InitLInv, PersoLinkAssumption DEF Init, CInv, OneQuestion, Asking, CardsOnce

(* A step that starts no question and leaves the cards alone.              *)
LEMMA QuietStep ==
  ASSUME CInv, UNCHANGED <<cards, isFirstTime>>,
         \A n \in Sockets : Asking(n)' => Asking(n)
  PROVE  OneQuestion' /\ CardsOnce'
BY DEF CInv, OneQuestion, CardsOnce

LEMMA NextCInv == CInv /\ [Next]_vars => CInv'
<1> SUFFICES ASSUME CInv, [Next]_vars PROVE CInv'
  OBVIOUS
<1>0. LInv'
  BY NextLInv DEF CInv
<1> SUFFICES OneQuestion' /\ CardsOnce'
  BY <1>0 DEF CInv
<1> USE DEF CInv, LInv, TypeOK, Asking, serverVars, linkVars, cardVars
<1>1. CASE connect
  BY <1>1, QuietStep DEF connect
<1>2. CASE Start \/ Stop
  BY <1>2, QuietStep DEF Start, Stop, Exit
<1>3. ASSUME NEW n \in Sockets, onConnected(n) PROVE OneQuestion' /\ CardsOnce'
  <2>1. n = webSocket /\ ~asked[n] /\ handler' = [handler EXCEPT ![n] = "reading"]
    BY <1>3 DEF onConnected, OneLink, Live
  <2>2. CASE isFirstTime
    <3>1. \A m \in Sockets : ~Asking(m)
      BY <2>2 DEF OneQuestion
    <3>2. \A m \in Sockets \ {n} : ~Asking(m)'
      BY <1>3, <2>1, <3>1 DEF onConnected
    <3>3. cards' = 0 /\ ~isFirstTime'
      BY <1>3, <2>2 DEF onConnected, OneQuestion
    <3> QED
      BY <3>2, <3>3, PersoLinkAssumption DEF OneQuestion, CardsOnce
  <2>3. CASE ~isFirstTime
    <3>1. UNCHANGED <<asked, cards, isFirstTime>>
      BY <1>3, <2>3 DEF onConnected, Ask
    <3>2. \A m \in Sockets : Asking(m)' => Asking(m)
      BY <2>1, <3>1
    <3> QED
      BY <3>1, <3>2, QuietStep
  <2> QED
    BY <2>2, <2>3
<1>4. ASSUME NEW n \in Sockets, ConnectFails(n) \/ Break(n) \/ Close(n)
      PROVE  OneQuestion' /\ CardsOnce'
  <2>1. UNCHANGED <<cards, isFirstTime>>
    BY <1>4 DEF ConnectFails, Break, Close, Gone
  <2>2. \A m \in Sockets : Asking(m)' => Asking(m)
    BY <1>4 DEF ConnectFails, Break, Close, Gone
  <2> QED
    BY <2>1, <2>2, QuietStep
<1>5. ASSUME NEW n \in Sockets, onMessage(n) PROVE OneQuestion' /\ CardsOnce'
  <2>1. Asking(n) /\ ~isFirstTime /\ cards = 0
    BY <1>5 DEF onMessage, OneQuestion
  <2>2. \A m \in Sockets : ~Asking(m)'
    BY <1>5, <2>1 DEF onMessage, OneQuestion
  <2>3. cards' \in 0..NumCards /\ ~isFirstTime'
    BY <1>5, <2>1, PersoLinkAssumption DEF onMessage
  <2> QED
    BY <2>2, <2>3, PersoLinkAssumption DEF OneQuestion, CardsOnce
<1>6. ASSUME NEW n \in Sockets, Server(n) PROVE OneQuestion' /\ CardsOnce'
  <2>1. UNCHANGED <<cards, isFirstTime>>
    BY <1>6 DEF Server, Read, Reply, Die, Exit
  <2>2. \A m \in Sockets : Asking(m)' => Asking(m)
    BY <1>6 DEF Server, Read, Reply, Die, Exit
  <2> QED
    BY <2>1, <2>2, QuietStep
<1>7. CASE UNCHANGED vars
  BY <1>7, QuietStep DEF vars
<1> QED
  BY <1>1, <1>2, <1>3, <1>4, <1>5, <1>6, <1>7 DEF Next, Client

(* No card is listed twice, however often the client reconnects            *)
(* (isFirstTime, onMessage).                                               *)
THEOREM CardsOnceHolds == Spec => []CardsOnce
<1>1. CInv => CardsOnce
  BY DEF CInv
<1> QED
  BY InitCInv, NextCInv, <1>1, PTL DEF Spec

-----------------------------------------------------------------------------
(* The push-provisioning client.                                           *)

Scripts == Sent("SEND_SCRIPT")
Paid == With({"ok", "none"})

(* A conversation that has yet to send its script will send one.           *)
ToSend == IF currState \in {"BEGIN_CONVERSATION", "SEND_SCRIPT"} THEN 1 ELSE 0

(* The answer that made the conversation ready to send it is there.        *)
HalfPaid == IF currState = "SEND_SCRIPT" THEN 1 ELSE 0

(* Nothing is posted before the first push.                                *)
Begun == currState = "null" => posts = <<>>

WInv ==
  /\ PushTypeOK /\ Begun
  /\ Cardinality(Scripts) + ToSend <= pushes
  /\ 2 * Cardinality(Scripts) + HalfPaid <= Cardinality(Paid)
  /\ NeverStuck

Post == [soap : Kinds, outcome : Outcomes]

LEMMA Counted ==
  ASSUME PushTypeOK
  PROVE  /\ posts \in Seq(Post) /\ Len(posts) \in Nat /\ DOMAIN posts = 1..Len(posts)
         /\ IsFiniteSet(Scripts) /\ Cardinality(Scripts) \in Nat
         /\ IsFiniteSet(Paid) /\ Cardinality(Paid) \in Nat
<1>1. posts \in Seq(Post) /\ Len(posts) \in Nat /\ DOMAIN posts = 1..Len(posts)
  BY LenProperties DEF PushTypeOK, Post
<1>2. IsFiniteSet(1..Len(posts))
  BY <1>1, FS_Interval
<1>3. Scripts \subseteq 1..Len(posts) /\ Paid \subseteq 1..Len(posts)
  BY <1>1 DEF Scripts, Paid, Sent, With
<1> QED
  BY <1>1, <1>2, <1>3, FS_Subset, FS_CardinalityType

(* A POST more: a script counts, one just sent is not answered.            *)
LEMMA Posted ==
  ASSUME NEW s \in Seq(Post), NEW soap \in Kinds, posts' = Append(s, postSoap(soap))
  PROVE  /\ posts' \in Seq(Post) /\ DOMAIN s = 1..Len(s) /\ Len(s) \in Nat
         /\ DOMAIN posts' = 1..(Len(s) + 1)
         /\ posts'[Len(s) + 1] = postSoap(soap)
         /\ \A i \in 1..Len(s) : posts'[i] = s[i]
<1>1. postSoap(soap) \in Post
  BY DEF postSoap, Post, Outcomes
<1> QED
  BY <1>1, AppendProperties, LenProperties

LEMMA InitWInv == PushInit => WInv
<1> SUFFICES ASSUME PushInit PROVE WInv
  OBVIOUS
<1>1. posts \in Seq([soap : Kinds, outcome : Outcomes])
  BY EmptySeq DEF PushInit
<1>2. PushTypeOK /\ Begun
  <2>1. pushes \in 0..MaxPush
    BY ProvisionAssumption DEF PushInit
  <2> QED
    BY <1>1, <2>1 DEF PushInit, PushTypeOK, Begun
<1>3. Scripts = {} /\ Paid = {}
  BY DEF PushInit, Scripts, Paid, Sent, With
<1>4. ToSend = 0 /\ HalfPaid = 0 /\ NeverStuck /\ pushes = 0
  BY DEF PushInit, ToSend, HalfPaid, NeverStuck
<1> QED
  BY <1>2, <1>3, <1>4, FS_EmptySet DEF WInv

LEMMA startPushWInv == ASSUME WInv, startPush PROVE WInv'
<1> DEFINE n == Len(posts) + 1
<1>1. First \in Kinds /\ First = "BEGIN_CONVERSATION"
  BY DEF First, Kinds
<1>2. /\ posts' \in Seq(Post) /\ DOMAIN posts = 1..Len(posts) /\ Len(posts) \in Nat
      /\ DOMAIN posts' = 1..n /\ posts'[n] = [soap |-> First, outcome |-> "sent"]
      /\ \A i \in 1..Len(posts) : posts'[i] = posts[i]
  BY <1>1, Posted, Counted DEF WInv, startPush, postSoap
<1>3. PushTypeOK' /\ Begun'
  BY <1>1, <1>2, ProvisionAssumption DEF WInv, PushTypeOK, Begun, startPush, Post
<1>4. Scripts' = Scripts /\ Paid' = Paid
  BY <1>1, <1>2 DEF Scripts, Paid, Sent, With
<1>5. ToSend' = 1 /\ HalfPaid' = 0 /\ ToSend \in {0, 1} /\ HalfPaid \in {0, 1}
  BY <1>1 DEF ToSend, HalfPaid, startPush
<1>6. NeverStuck'
  BY <1>2 DEF NeverStuck, With
<1>7. /\ Cardinality(Scripts)' + ToSend' <= pushes'
      /\ 2 * Cardinality(Scripts)' + HalfPaid' <= Cardinality(Paid)'
  BY <1>4, <1>5, Counted DEF WInv, PushTypeOK, startPush
<1> QED
  BY <1>3, <1>6, <1>7 DEF WInv

(* An answer in the list: it is one more that counts unless it refuses,    *)
(* and no script more or less.                                             *)
LEMMA Answering ==
  ASSUME PushTypeOK, NEW p \in DOMAIN posts, NEW outcome \in Outcomes \ {"sent"},
         posts[p].outcome = "sent"
  PROVE  /\ WithOutcome(p, outcome) \in Seq(Post)
         /\ Len(WithOutcome(p, outcome)) = Len(posts)
         /\ p \notin Paid /\ p \in 1..Len(posts)
         /\ \A i \in 1..Len(posts) :
              /\ WithOutcome(p, outcome)[i].soap = posts[i].soap
              /\ WithOutcome(p, outcome)[i].outcome = IF i = p THEN outcome ELSE posts[i].outcome
<1>1. posts \in Seq(Post) /\ DOMAIN posts = 1..Len(posts)
  BY Counted
<1>2. \A i \in 1..Len(posts) : posts[i] \in Post
  BY <1>1, ElementOfSeq
<1>3. [posts[p] EXCEPT !.outcome = outcome] \in Post
  BY <1>1, <1>2 DEF Post
<1>4. /\ WithOutcome(p, outcome) \in Seq(Post) /\ Len(WithOutcome(p, outcome)) = Len(posts)
      /\ \A i \in 1..Len(posts) : WithOutcome(p, outcome)[i] =
           IF i = p THEN [posts[p] EXCEPT !.outcome = outcome] ELSE posts[i]
  BY <1>1, <1>3, ExceptSeq DEF WithOutcome
<1>5. \A i \in 1..Len(posts) :
              /\ WithOutcome(p, outcome)[i].soap = posts[i].soap
              /\ WithOutcome(p, outcome)[i].outcome = IF i = p THEN outcome ELSE posts[i].outcome
  BY <1>2, <1>4 DEF Post
<1> QED
  BY <1>1, <1>4, <1>5 DEF Paid, With

LEMMA loadEndWInv ==
  ASSUME WInv, NEW p \in DOMAIN posts, NEW outcome \in Outcomes \ {"sent"}, loadEnd(p, outcome)
  PROVE  WInv'
<1> DEFINE s == WithOutcome(p, outcome)
           n == Len(posts) + 1
<1>1. /\ s \in Seq(Post) /\ Len(s) = Len(posts) /\ p \notin Paid /\ p \in 1..Len(posts)
      /\ \A i \in 1..Len(posts) :
           /\ s[i].soap = posts[i].soap
           /\ s[i].outcome = IF i = p THEN outcome ELSE posts[i].outcome
  BY Answering DEF WInv, loadEnd
<1>2. Len(posts) \in Nat /\ DOMAIN posts = 1..Len(posts)
  BY Counted DEF WInv
<1>3. ToSend \in {0, 1} /\ HalfPaid \in {0, 1} /\ pushes \in Nat /\ pushes' = pushes
  BY DEF ToSend, HalfPaid, WInv, PushTypeOK, loadEnd
<1>4. CASE outcome \in Successes /\ checkStep
  <2>1. posts' = Append(s, postSoap(currState)) /\ currState' = nextState(currState)
    BY <1>4 DEF loadEnd, ToPost
  <2>2. currState \in Kinds
    <3>1. currState # "null"
      BY <1>1, <1>2 DEF WInv, Begun
    <3> QED
      BY <3>1 DEF WInv, PushTypeOK
  <2>3. /\ posts' \in Seq(Post) /\ DOMAIN posts' = 1..n
        /\ posts'[n] = [soap |-> currState, outcome |-> "sent"]
        /\ \A i \in 1..Len(posts) : posts'[i] = s[i]
    BY <1>1, <2>1, <2>2, Posted DEF postSoap
  <2>4. currState' \in Kinds
    BY <2>1 DEF nextState, Kinds
  <2>5. PushTypeOK' /\ Begun'
    <3>1. spinner' \in BOOLEAN
      BY DEF loadEnd
    <3> QED
      BY <2>3, <2>4, <3>1 DEF WInv, PushTypeOK, Begun, loadEnd, Post, Kinds
  <2>6. NeverStuck'
    BY <1>2, <2>3 DEF NeverStuck, With
  <2>7. Paid' = Paid \cup {p}
    <3>1. outcome \in {"ok", "none"}
      BY <1>4 DEF Successes
    <3> QED
      BY <1>1, <1>2, <2>3, <3>1 DEF Paid, With
  <2>8. Cardinality(Paid') = Cardinality(Paid) + 1
    BY <1>1, <2>7, Counted, FS_AddElement DEF WInv
  <2>9. CASE currState = "SEND_SCRIPT"
    <3>1. Scripts' = Scripts \cup {n} /\ n \notin Scripts
      BY <1>1, <1>2, <2>3, <2>9 DEF Scripts, Sent
    <3>2. Cardinality(Scripts') = Cardinality(Scripts) + 1
      BY <3>1, Counted, FS_AddElement DEF WInv
    <3>3. ToSend = 1 /\ HalfPaid = 1 /\ ToSend' = 0 /\ HalfPaid' = 0
      BY <2>1, <2>9 DEF ToSend, HalfPaid, nextState
    <3> QED
      BY <1>3, <2>5, <2>6, <2>8, <3>2, <3>3, Counted DEF WInv
  <2>10. CASE currState # "SEND_SCRIPT"
    <3>1. Scripts' = Scripts
      BY <1>1, <1>2, <2>3, <2>10 DEF Scripts, Sent
    <3>2. ToSend' <= ToSend /\ HalfPaid' <= HalfPaid + 1 /\ ToSend' \in {0, 1} /\ HalfPaid' \in {0, 1}
      BY <2>1, <2>2, <2>10 DEF ToSend, HalfPaid, nextState, Kinds
    <3>3. Cardinality(Scripts)' = Cardinality(Scripts) /\ Cardinality(Scripts) \in Nat
      BY <3>1, Counted DEF WInv
    <3>4. Cardinality(Paid)' = Cardinality(Paid) + 1 /\ Cardinality(Paid) \in Nat
      BY <2>8, Counted DEF WInv
    <3>5. /\ Cardinality(Scripts)' + ToSend' <= pushes'
          /\ 2 * Cardinality(Scripts)' + HalfPaid' <= Cardinality(Paid)'
      BY <1>3, <3>2, <3>3, <3>4 DEF WInv
    <3> QED
      BY <2>5, <2>6, <3>5 DEF WInv
  <2> QED
    BY <2>9, <2>10
<1>5. CASE ~(outcome \in Successes /\ checkStep)
  <2>1. posts' = s /\ currState' = currState
    BY <1>5 DEF loadEnd
  <2>2. DOMAIN posts' = 1..Len(posts)
    BY <1>1, <2>1, LenProperties
  <2>3. PushTypeOK' /\ Begun'
    <3>1. spinner' \in BOOLEAN
      BY DEF loadEnd
    <3> QED
      BY <1>1, <1>2, <2>1, <3>1 DEF WInv, PushTypeOK, Begun, loadEnd, Post
  <2>4. Scripts' = Scripts
    BY <1>1, <1>2, <2>1, <2>2 DEF Scripts, Sent
  <2>5. Paid' = Paid \/ Paid' = Paid \cup {p}
    BY <1>1, <1>2, <2>1, <2>2 DEF Paid, With
  <2>6. Cardinality(Paid') >= Cardinality(Paid) /\ Cardinality(Paid') \in Nat
    <3>1. Cardinality(Paid \cup {p}) = Cardinality(Paid) + 1 /\ Cardinality(Paid) \in Nat
      BY <1>1, Counted, FS_AddElement DEF WInv
    <3>2. Cardinality(Paid') \in {Cardinality(Paid), Cardinality(Paid) + 1}
      BY <2>5, <3>1
    <3> QED
      BY <3>1, <3>2
  <2>7. ToSend' = ToSend /\ HalfPaid' = HalfPaid
    BY <2>1 DEF ToSend, HalfPaid
  <2>8. NeverStuck'
    <3>1. CASE outcome = "refused"
      BY <3>1 DEF NeverStuck, loadEnd
    <3>2. CASE outcome # "refused"
      <4>1. nextState(currState) = currState
        BY <1>5, <3>2 DEF Successes, Outcomes, checkStep
      <4>2. currState = "END_CONVERSATION"
        BY <4>1 DEF nextState, WInv, PushTypeOK, Kinds
      <4> QED
        BY <2>1, <4>2 DEF NeverStuck
    <3> QED
      BY <3>1, <3>2
  <2> QED
    BY <1>3, <2>3, <2>4, <2>6, <2>7, <2>8, Counted DEF WInv
<1> QED
  BY <1>4, <1>5

LEMMA NextWInv == WInv /\ [PushNext]_pushVars => WInv'
<1> SUFFICES ASSUME WInv, [PushNext]_pushVars PROVE WInv'
  OBVIOUS
<1>1. CASE UNCHANGED pushVars
  BY <1>1 DEF pushVars, WInv, PushTypeOK, Begun, Scripts, Paid, Sent, With, ToSend, HalfPaid, NeverStuck
<1> QED
  BY <1>1, startPushWInv, loadEndWInv DEF PushNext, LoadEnd

LEMMA SpecWInv == PushSpec => []WInv
BY InitWInv, NextWInv, PTL DEF PushSpec

-----------------------------------------------------------------------------
(* A push sends its script once, though answers to older pushes drive the  *)
(* conversation too (startPush and loadEnd of pushprovision.dart).         *)
THEOREM ScriptOncePerPushHolds == PushSpec => []ScriptOncePerPush
<1>1. WInv => ScriptOncePerPush
  BY Counted DEF WInv, PushTypeOK, ToSend, ScriptOncePerPush, Scripts
<1> QED
  BY <1>1, SpecWInv, PTL

(* Two answers for each script, and no answer counted twice.               *)
THEOREM ScriptsArePaidForHolds == PushSpec => []ScriptsArePaidFor
<1>1. WInv => ScriptsArePaidFor
  BY Counted DEF WInv, HalfPaid, ScriptsArePaidFor, Scripts, Paid
<1> QED
  BY <1>1, SpecWInv, PTL

(* The spinner does not turn for nothing: an answer is due, or all went    *)
(* through.                                                                *)
THEOREM NeverStuckHolds == PushSpec => []NeverStuck
<1>1. WInv => NeverStuck
  BY DEF WInv
<1> QED
  BY <1>1, SpecWInv, PTL
=============================================================================
