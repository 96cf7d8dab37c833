--------------------------- MODULE TrackdayProofs ---------------------------
(***************************************************************************)
(* What the track-day server keeps through crashes, lost connections and   *)
(* late answers, for any number of requests, rows, connections and         *)
(* crashes; and what the App Engine site it posts to keeps, for any number *)
(* of POSTs.                                                               *)
(***************************************************************************)
EXTENDS TrackServer, TrackdaysGae, SequenceTheorems, FiniteSetTheorems, TLAPS

(* A process that died can be started once more.                           *)
Restartable == ~alive => epoch < MaxCrashes

(* What this process has posted is a prefix of the list it holds.          *)
Grown ==
  \A p \in DOMAIN posts :
    /\ posts[p].epoch <= epoch
    /\ alive /\ posts[p].epoch = epoch => IsPrefix(posts[p].data, arrayOfSchedules)

(* A row that is underway while a newer one of its key is there has raced. *)
NewestLast ==
  /\ \A n \in Rows : n > Len(rows) => task[n].stage = "none"
  /\ \A n, m \in DOMAIN rows : n < m /\ rows[n] = rows[m] /\ Pending(n) => rows[n] \in raced

PInv == Grown /\ PushesArePrefixes
RInv == NewestLast /\ StaleOnlyIfRaced
IInv == TypeOK /\ Restartable /\ AlwaysAConnection /\ PInv /\ RInv

-----------------------------------------------------------------------------
(* Lists and prefixes.                                                     *)

LEMMA PrefixOfSelf == ASSUME NEW S, NEW s \in Seq(S) PROVE IsPrefix(s, s)
BY DEF IsPrefix

LEMMA PrefixByElements ==
  ASSUME NEW S, NEW s \in Seq(S), NEW t \in Seq(S)
  PROVE  IsPrefix(s, t) <=> /\ Len(s) <= Len(t)
                            /\ \A i \in 1..Len(s) : s[i] = t[i]
<1>1. SubSeq(s, 1, Len(s)) = s
  BY SubSeqFull
<1>2. ASSUME Len(s) <= Len(t)
      PROVE /\ SubSeq(t, 1, Len(s)) \in Seq(S)
            /\ Len(SubSeq(t, 1, Len(s))) = Len(s)
            /\ \A i \in 1..Len(s) : SubSeq(t, 1, Len(s))[i] = t[i]
  <2>1. Len(s) \in Nat /\ Len(t) \in Nat /\ \A i \in 1..Len(s) : t[i] \in S
    BY <1>2, LenProperties, ElementOfSeq
  <2>2. /\ SubSeq(t, 1, Len(s)) \in Seq(S)
        /\ Len(SubSeq(t, 1, Len(s))) = IF 1 <= Len(s) THEN Len(s) - 1 + 1 ELSE 0
        /\ \A i \in 1..(Len(s) - 1 + 1) : SubSeq(t, 1, Len(s))[i] = t[1 + i - 1]
    BY <2>1, SubSeqProperties
  <2> QED
    BY <2>1, <2>2
<1>3. ASSUME Len(s) <= Len(t), \A i \in 1..Len(s) : s[i] = t[i]
      PROVE s = SubSeq(t, 1, Len(s))
  BY <1>2, <1>3, SeqEqual
<1> QED
  BY <1>1, <1>2, <1>3 DEF IsPrefix

LEMMA PrefixOfAppend ==
  ASSUME NEW S, NEW s \in Seq(S), NEW t \in Seq(S), NEW e \in S, IsPrefix(s, t)
  PROVE  IsPrefix(s, Append(t, e))
<1>1. Len(s) <= Len(t) /\ \A i \in 1..Len(s) : s[i] = t[i]
  BY PrefixByElements
<1>2. /\ Append(t, e) \in Seq(S) /\ Len(Append(t, e)) = Len(t) + 1
      /\ \A i \in 1..Len(t) : Append(t, e)[i] = t[i]
  BY AppendProperties
<1>3. Len(s) \in Nat /\ Len(t) \in Nat
  BY LenProperties
<1>4. Len(s) <= Len(Append(t, e)) /\ \A i \in 1..Len(s) : s[i] = Append(t, e)[i]
  BY <1>1, <1>2, <1>3
<1> QED
  BY <1>2, <1>4, PrefixByElements

LEMMA MaxIs ==
  ASSUME NEW S \in SUBSET Int, NEW m \in S, \A x \in S : m >= x
  PROVE  Max(S) = m
<1>1. Max(S) \in S /\ \A x \in S : Max(S) >= x
  BY DEF Max
<1>2. Max(S) >= m /\ m >= Max(S) /\ Max(S) \in Int
  BY <1>1
<1> QED
  BY <1>2

(* What pool.clients can lose to dead is finite.                           *)
LEMMA ConnsCount == ASSUME NEW S \in SUBSET Conns PROVE Cardinality(S) \in Nat
<1>1. IsFiniteSet(Conns)
  BY TrackServerAssumption, FS_Interval DEF Conns
<1> QED
  BY <1>1, FS_Subset, FS_CardinalityType

-----------------------------------------------------------------------------
(* What an action that leaves a part alone keeps of it.                    *)

LEMMA PushesStand ==
  ASSUME PInv, UNCHANGED <<alive, epoch, arrayOfSchedules, posts>>
  PROVE  PInv'
BY DEF PInv, Grown, PushesArePrefixes

LEMMA RowsStand ==
  ASSUME RInv, UNCHANGED <<rows, raced, db>>, rows \in Seq(Tracks), Len(rows) <= MaxRows,
         \A n \in Rows : /\ Pending(n)' => Pending(n)
                         /\ task'[n].stage = "done" <=> task[n].stage = "done"
                         /\ task[n].stage = "none" => task'[n].stage = "none"
  PROVE  RInv'
<1>1. DOMAIN rows \subseteq Rows
  BY LenProperties, TrackServerAssumption DEF Rows
<1>2. NewestLast'
  BY <1>1 DEF RInv, NewestLast
<1>3. \A k \in Tracks : Done(k)' = Done(k)
  BY <1>1 DEF Done
<1>4. StaleOnlyIfRaced'
  BY <1>3 DEF RInv, StaleOnlyIfRaced
<1> QED
  BY <1>2, <1>4 DEF RInv

LEMMA PostsTyped ==
  ASSUME TypeOK, NEW p \in DOMAIN posts
  PROVE  /\ p \in 1..Len(posts) /\ posts[p].data \in Seq(Snapshot)
         /\ posts[p].epoch \in 0..MaxCrashes
<1> DEFINE Post == [data : Seq(Snapshot), epoch : 0..MaxCrashes, state : {"sent", "delivered"}]
<1>1. posts \in Seq(Post)
  BY DEF TypeOK
<1>2. p \in 1..Len(posts)
  BY <1>1, LenProperties
<1>3. posts[p] \in Post
  BY <1>1, <1>2, ElementOfSeq
<1> QED
  BY <1>2, <1>3

LEMMA RowsUntouched ==
  ASSUME IInv, UNCHANGED <<rows, raced, db>>, \A n \in Rows : task'[n] = task[n]
  PROVE  RInv'
BY RowsStand DEF IInv, TypeOK, Pending

-----------------------------------------------------------------------------
LEMMA InitInv == Init => IInv
<1> SUFFICES ASSUME Init PROVE IInv
  OBVIOUS
<1>1. TypeOK
  <2>1. rows \in Seq(Tracks) /\ Len(rows) = 0 /\ arrayOfSchedules \in Seq(Snapshot)
    BY EmptySeq DEF Init
  <2>2. posts \in Seq([data : Seq(Snapshot), epoch : 0..MaxCrashes, state : {"sent", "delivered"}])
    BY EmptySeq DEF Init
  <2>3. db \in Snapshot /\ epoch \in 0..MaxCrashes /\ opened \in 0..MaxConns
    BY TrackServerAssumption DEF Init, Snapshot
  <2>4. task \in [Tasks -> [stage : Stages, conn : 0..MaxConns]]
    BY TrackServerAssumption DEF Init, NoTask, Stages
  <2>5. url \in [Reqs -> Urls \cup {"none"}]
    BY DEF Init
  <2> QED
    BY <2>1, <2>2, <2>3, <2>4, <2>5, TrackServerAssumption DEF Init, TypeOK
<1>2. Restartable /\ AlwaysAConnection
  BY DEF Init, Restartable, AlwaysAConnection, NoTask
<1>3. DOMAIN posts = {} /\ DOMAIN rows = {}
  BY DEF Init
<1>4. PInv
  BY <1>3 DEF PInv, Grown, PushesArePrefixes
<1>5. NewestLast
  BY <1>3 DEF Init, NewestLast, Rows, Tasks, NoTask
<1>6. StaleOnlyIfRaced
  BY <1>3 DEF Init, StaleOnlyIfRaced, Done
<1> QED
  BY <1>1, <1>2, <1>4, <1>5, <1>6 DEF IInv, RInv

(* The end of the process, by whatever callback.                           *)
LEMMA DieInv == ASSUME IInv, Die PROVE IInv'
<1>1. TypeOK'
  <2>1. task' \in [Tasks -> [stage : Stages, conn : 0..MaxConns]]
    BY DEF IInv, TypeOK, Die, Stages
  <2>2. arrayOfSchedules' \in Seq(Snapshot)
    BY EmptySeq DEF Die
  <2>3. pc' \in [Reqs -> {"new", "waiting", "pinging", "unanswered", "answered", "reset"}]
    BY DEF IInv, TypeOK, Die
  <2> QED
    BY <2>1, <2>2, <2>3 DEF IInv, TypeOK, Die
<1>2. Restartable' /\ AlwaysAConnection'
  BY DEF IInv, TypeOK, Die, Restartable, AlwaysAConnection
<1>3. PInv'
  BY DEF IInv, Die, PInv, Grown, PushesArePrefixes
<1>4. \A n \in Rows : n \in Tasks /\ n \notin Reqs
  BY TrackServerAssumption DEF Rows, Tasks
<1>5. RInv'
  <2>1. \A n \in Rows : /\ Pending(n)' => Pending(n)
                        /\ task'[n].stage = "done" <=> task[n].stage = "done"
                        /\ task[n].stage = "none" => task'[n].stage = "none"
    BY <1>4 DEF IInv, TypeOK, Die, Pending
  <2> QED
    BY <2>1, RowsStand DEF IInv, TypeOK, Die
<1> QED
  BY <1>1, <1>2, <1>3, <1>5 DEF IInv

LEMMA RestartInv == ASSUME IInv, Restart PROVE IInv'
<1>1. TypeOK' /\ Restartable'
  BY TrackServerAssumption DEF IInv, TypeOK, Restart, poolVars, Restartable
<1>2. AlwaysAConnection'
  BY DEF IInv, Restart, AlwaysAConnection
<1>3. PInv'
  <2>1. \A p \in DOMAIN posts : posts[p].epoch \in Nat /\ posts[p].epoch <= epoch
    BY PostsTyped DEF IInv, PInv, Grown
  <2> QED
    BY <2>1 DEF IInv, TypeOK, Restart, PInv, Grown, PushesArePrefixes
<1>4. RInv'
  BY RowsUntouched DEF Restart
<1> QED
  BY <1>1, <1>2, <1>3, <1>4 DEF IInv

(* What is left of the process after an action that neither kills nor      *)
(* starts it and touches no row and no POST.                               *)
LEMMA QuietInv ==
  ASSUME IInv, TypeOK', UNCHANGED <<alive, epoch, arrayOfSchedules, posts, rows, raced, db>>,
         \A n \in Rows : task'[n] = task[n],
         \A t \in Tasks : task'[t].stage = "noconn" => task[t].stage = "noconn"
  PROVE  IInv'
<1>1. PInv'
  BY PushesStand DEF IInv
<1>2. RInv'
  BY RowsUntouched
<1>3. Restartable' /\ AlwaysAConnection'
  BY DEF IInv, Restartable, AlwaysAConnection
<1> QED
  BY <1>1, <1>2, <1>3 DEF IInv

LEMMA RequestInv == ASSUME IInv, NEW q \in Reqs, Request(q) \/ Ping(q) PROVE IInv'
<1>1. CASE RefreshRequest(q)
  <2>1. TypeOK'
    BY <1>1, TrackServerAssumption DEF IInv, TypeOK, RefreshRequest, Arrives, poolVars, Urls, Commands
  <2> QED
    BY <1>1, <2>1, QuietInv DEF RefreshRequest, Arrives
<1>2. CASE UpdateRequest(q)
  <2>1. TypeOK'
    <3>1. Connecting \in [stage : Stages, conn : 0..MaxConns] /\ q \in Tasks
      BY TrackServerAssumption DEF Connecting, Stages, Tasks
    <3> QED
      BY <1>2, <3>1 DEF IInv, TypeOK, UpdateRequest, Arrives, poolVars, Urls, Commands
  <2>2. \A t \in Tasks : task'[t] = IF t = q THEN Connecting ELSE task[t]
    BY <1>2 DEF IInv, TypeOK, UpdateRequest
  <2>3. \A n \in Rows : n \in Tasks /\ n # q
    BY TrackServerAssumption DEF Rows, Tasks
  <2> QED
    BY <1>2, <2>1, <2>2, <2>3, QuietInv DEF UpdateRequest, Arrives, Connecting
<1>3. CASE PingbackRequest(q)
  <2>1. TypeOK'
    BY <1>3 DEF IInv, TypeOK, PingbackRequest, Arrives, poolVars, Urls, Commands
  <2> QED
    BY <1>3, <2>1, QuietInv DEF PingbackRequest, Arrives
<1>4. CASE UnknownRequest(q)
  <2>1. TypeOK'
    BY <1>4 DEF IInv, TypeOK, UnknownRequest, Arrives, poolVars, Urls, Commands
  <2> QED
    BY <1>4, <2>1, QuietInv DEF UnknownRequest, Arrives
<1>5. CASE Ping(q)
  <2>1. TypeOK'
    BY <1>5 DEF IInv, TypeOK, Ping, poolVars
  <2> QED
    BY <1>5, <2>1, QuietInv DEF Ping
<1> QED
  BY <1>1, <1>2, <1>3, <1>4, <1>5 DEF Request

LEMMA FetchEndsInv == ASSUME IInv, FetchEnds PROVE IInv'
<1>1. TypeOK'
  BY DEF IInv, TypeOK, FetchEnds, poolVars
<1> QED
  BY <1>1, QuietInv DEF FetchEnds

LEMMA ReconnectInv == ASSUME IInv, Reconnect PROVE IInv'
<1>1. opened + 1 \in Conns /\ opened + 1 \in 0..MaxConns /\ dead - 1 \in Nat
  BY TrackServerAssumption DEF IInv, TypeOK, Reconnect, Conns
<1>2. TypeOK'
  BY <1>1 DEF IInv, TypeOK, Reconnect
<1> QED
  BY <1>2, QuietInv DEF Reconnect

LEMMA ConnectionLostInv == ASSUME IInv, NEW c \in Conns, ConnectionLost(c) PROVE IInv'
<1>1. TypeOK'
  BY DEF IInv, TypeOK, ConnectionLost
<1> QED
  BY <1>1, QuietInv DEF ConnectionLost

LEMMA SelectLostInv == ASSUME IInv, NEW q \in Reqs, SelectLost(q) PROVE IInv'
<1>1. q \in Tasks /\ \A n \in Rows : n \in Tasks /\ n # q
  BY TrackServerAssumption DEF Rows, Tasks
<1>2. TypeOK'
  BY <1>1 DEF IInv, TypeOK, SelectLost, Ended, poolVars, Stages
<1>3. \A t \in Tasks : task'[t] = IF t = q THEN [task[t] EXCEPT !.stage = "lost"] ELSE task[t]
  BY DEF IInv, TypeOK, SelectLost, Ended
<1>4. \A t \in Tasks : task'[t].stage = "noconn" => task[t].stage = "noconn"
  BY <1>1, <1>3 DEF IInv, TypeOK
<1> QED
  BY <1>1, <1>2, <1>3, <1>4, QuietInv DEF SelectLost

(* The statement always goes out: its own connection is open.              *)
LEMMA ConnectedInv == ASSUME IInv, NEW t \in Tasks, Connected(t) PROVE IInv'
<1> DEFINE c == opened + 1
<1>1. c \in Conns /\ c \in 0..MaxConns
  BY TrackServerAssumption DEF IInv, TypeOK, Connected, Conns
<1>2. CallbackPool(c) \cap ready' # {} /\ CallbackPool(c) \subseteq Conns
  BY <1>1 DEF IInv, TypeOK, Connected, CallbackPool
<1>3. PICK d \in CallbackPool(c) \cap ready' :
           task' = [task EXCEPT ![t] = [stage |-> "sent", conn |-> d]]
  BY <1>2 DEF Connected, SendOn
<1>4. dead' \in Nat
  <2>1. Cardinality(CallbackPool(c) \ ready') \in Nat
    BY <1>2, ConnsCount
  <2> QED
    BY <1>2, <2>1 DEF IInv, TypeOK, Connected, SendOn
<1>5. d \in 0..MaxConns
  BY <1>2, <1>3, TrackServerAssumption DEF Conns
<1>6. TypeOK'
  <2>1. task' \in [Tasks -> [stage : Stages, conn : 0..MaxConns]]
    BY <1>3, <1>5 DEF IInv, TypeOK, Stages
  <2>2. clients' \subseteq Conns /\ ready' \subseteq clients' /\ opened' \in 0..MaxConns
    BY <1>1 DEF IInv, TypeOK, Connected
  <2> QED
    BY <1>4, <2>1, <2>2 DEF IInv, TypeOK, Connected
<1>7. \A u \in Tasks : task'[u] = IF u = t THEN [stage |-> "sent", conn |-> d] ELSE task[u]
  BY <1>3 DEF IInv, TypeOK
<1>8. PInv'
  BY PushesStand DEF IInv, Connected
<1>9. RInv'
  <2>1. \A n \in Rows : n \in Tasks
    BY DEF Tasks
  <2>2. \A n \in Rows : /\ Pending(n)' => Pending(n)
                        /\ task'[n].stage = "done" <=> task[n].stage = "done"
                        /\ task[n].stage = "none" => task'[n].stage = "none"
    BY <1>7, <2>1 DEF Connected, Pending
  <2> QED
    BY <2>2, RowsStand DEF IInv, TypeOK, Connected
<1>10. Restartable' /\ AlwaysAConnection'
  BY <1>7 DEF IInv, Restartable, AlwaysAConnection, Connected
<1> QED
  BY <1>6, <1>8, <1>9, <1>10 DEF IInv

(* A new row finds its key's rows either settled or, being underway, raced *)
(* from now on.                                                            *)
LEMMA ScrapeInv == ASSUME IInv, NEW k \in Tracks, Scrape(k) PROVE IInv'
<1> DEFINE new == Len(rows) + 1
<1>1. /\ Len(rows) \in Nat /\ DOMAIN rows = 1..Len(rows)
      /\ new \in Rows /\ new \in Tasks /\ DOMAIN rows \subseteq Rows
  BY LenProperties, TrackServerAssumption DEF IInv, TypeOK, Scrape, Rows, Tasks
<1>2. /\ rows' \in Seq(Tracks) /\ Len(rows') = new /\ DOMAIN rows' = 1..new
      /\ rows'[new] = k /\ \A n \in DOMAIN rows : rows'[n] = rows[n]
  BY <1>1, AppendProperties, LenProperties DEF IInv, TypeOK, Scrape
<1>3. \A t \in Tasks : task'[t] = IF t = new THEN Connecting ELSE task[t]
  BY <1>1 DEF IInv, TypeOK, Scrape
<1>4. TypeOK'
  <2>1. task' \in [Tasks -> [stage : Stages, conn : 0..MaxConns]]
    <3>1. Connecting \in [stage : Stages, conn : 0..MaxConns]
      BY TrackServerAssumption DEF Connecting, Stages
    <3> QED
      BY <3>1 DEF IInv, TypeOK, Scrape
  <2>2. Len(rows') <= MaxRows
    BY <1>1, <1>2, TrackServerAssumption DEF Scrape
  <2>3. raced' \subseteq Tracks
    BY DEF IInv, TypeOK, Scrape
  <2> QED
    BY <1>2, <2>1, <2>2, <2>3 DEF IInv, TypeOK, Scrape, poolVars
<1>5. PInv'
  BY PushesStand DEF IInv, Scrape
<1>6. Rows \subseteq Tasks /\ \A n \in DOMAIN rows : n # new /\ n \in Tasks
  BY <1>1 DEF Tasks
<1>7. NewestLast'
  <2>1. \A n \in Rows : n > Len(rows') => task'[n].stage = "none"
    BY <1>1, <1>2, <1>3, <1>6 DEF IInv, RInv, NewestLast, Rows
  <2>2. ASSUME NEW n \in DOMAIN rows', NEW m \in DOMAIN rows', n < m,
               rows'[n] = rows'[m], Pending(n)'
        PROVE rows'[n] \in raced'
    <3>1. n \in DOMAIN rows /\ rows'[n] = rows[n] /\ Pending(n)
      BY <1>1, <1>2, <1>3, <1>6, <2>2 DEF Pending
    <3>2. CASE m = new
      BY <1>2, <2>2, <3>1, <3>2 DEF Scrape
    <3>3. CASE m # new
      <4>1. m \in DOMAIN rows
        BY <1>1, <1>2, <3>3
      <4> QED
        BY <1>2, <2>2, <3>1, <4>1 DEF IInv, RInv, NewestLast, Scrape
    <3> QED
      BY <3>2, <3>3
  <2> QED
    BY <2>1, <2>2 DEF NewestLast
<1>8. StaleOnlyIfRaced'
  <2>1. \A j \in Tracks : Done(j)' = Done(j)
    BY <1>1, <1>2, <1>3, <1>6 DEF Done, Connecting
  <2> QED
    BY <2>1 DEF IInv, RInv, StaleOnlyIfRaced, Scrape
<1>9. Restartable' /\ AlwaysAConnection'
  BY <1>3 DEF IInv, Restartable, AlwaysAConnection, Scrape, Connecting
<1> QED
  BY <1>4, <1>5, <1>7, <1>8, <1>9 DEF IInv, RInv

LEMMA RowEndsTyped ==
  ASSUME IInv, NEW n \in Rows, NEW stage \in Stages \ {"noconn"}, task' = Ended(n, stage)
  PROVE  /\ task' \in [Tasks -> [stage : Stages, conn : 0..MaxConns]]
         /\ \A t \in Tasks : task'[t].stage = IF t = n THEN stage ELSE task[t].stage
         /\ AlwaysAConnection'
<1>1. n \in Tasks
  BY DEF Tasks
<1>2. task' \in [Tasks -> [stage : Stages, conn : 0..MaxConns]]
  BY <1>1 DEF IInv, TypeOK, Ended
<1>3. \A t \in Tasks : task'[t].stage = IF t = n THEN stage ELSE task[t].stage
  BY <1>1 DEF IInv, TypeOK, Ended
<1> QED
  BY <1>2, <1>3 DEF IInv, AlwaysAConnection

(* An INSERT that gets through is the newest of its key, or the key raced. *)
LEMMA InsertedInv == ASSUME IInv, NEW n \in Rows, Inserted(n) PROVE IInv'
<1>1. /\ Len(rows) \in Nat /\ DOMAIN rows = 1..Len(rows) /\ DOMAIN rows \subseteq Rows
      /\ n \in DOMAIN rows /\ rows[n] \in Tracks /\ Rows \subseteq Tasks
  <2>1. Len(rows) \in Nat /\ DOMAIN rows = 1..Len(rows)
    BY LenProperties DEF IInv, TypeOK
  <2>2. n \in DOMAIN rows
    BY <2>1, TrackServerAssumption DEF IInv, RInv, NewestLast, Inserted, Rows
  <2>3. rows[n] \in Tracks
    BY <2>1, <2>2, ElementOfSeq DEF IInv, TypeOK
  <2> QED
    BY <2>1, <2>2, <2>3, TrackServerAssumption DEF IInv, TypeOK, Rows, Tasks
<1>2. "done" \in Stages \ {"noconn"}
  BY DEF Stages
<1>3. /\ task' \in [Tasks -> [stage : Stages, conn : 0..MaxConns]]
      /\ \A t \in Tasks : task'[t].stage = IF t = n THEN "done" ELSE task[t].stage
      /\ AlwaysAConnection'
  BY <1>2, RowEndsTyped DEF Inserted
<1>4. db' \in Snapshot /\ \A k \in Tracks : db'[k] = IF k = rows[n] THEN n ELSE db[k]
  BY <1>1, TrackServerAssumption DEF IInv, TypeOK, Inserted, RowOf, Snapshot, Rows
<1>5. TypeOK'
  BY <1>3, <1>4 DEF IInv, TypeOK, Inserted, poolVars
<1>6. PInv' /\ Restartable'
  BY PushesStand DEF IInv, Inserted, Restartable
<1>7. NewestLast'
  <2>1. \A m \in Rows : Pending(m)' => Pending(m)
    BY <1>1, <1>3 DEF Pending
  <2>2. \A m \in Rows : m > Len(rows) => task'[m].stage = "none"
    BY <1>1, <1>3 DEF IInv, RInv, NewestLast
  <2> QED
    BY <1>1, <2>1, <2>2 DEF IInv, RInv, NewestLast, Inserted
<1>8. ASSUME NEW k \in Tracks, k \notin raced
      PROVE db'[k] = IF Done(k)' = {} THEN 0 ELSE Max(Done(k)')
  <2>1. CASE k # rows[n]
    <3>1. Done(k)' = Done(k)
      BY <1>1, <1>3, <2>1 DEF Done, Inserted
    <3> QED
      BY <1>4, <1>8, <2>1, <3>1 DEF IInv, RInv, StaleOnlyIfRaced
  <2>2. CASE k = rows[n]
    <3>1. Done(k)' = Done(k) \cup {n}
      BY <1>1, <1>3, <2>2 DEF Done, Inserted
    <3>2. \A m \in Done(k) : m \in Int /\ n >= m
      BY <1>1, <1>8, <2>2, TrackServerAssumption
         DEF IInv, RInv, NewestLast, Done, Inserted, Pending, Rows
    <3>3. Done(k)' \in SUBSET Int /\ n \in Done(k)' /\ \A m \in Done(k)' : n >= m
      BY <3>1, <3>2 DEF Rows
    <3>4. Max(Done(k)') = n
      BY <3>3, MaxIs
    <3> QED
      BY <1>4, <2>2, <3>3, <3>4
  <2> QED
    BY <2>1, <2>2
<1>9. StaleOnlyIfRaced'
  BY <1>8 DEF StaleOnlyIfRaced, Inserted
<1> QED
  BY <1>3, <1>5, <1>6, <1>7, <1>9 DEF IInv, RInv

LEMMA InsertLostInv == ASSUME IInv, NEW n \in Rows, InsertLost(n) PROVE IInv'
<1>1. "lost" \in Stages \ {"noconn"} /\ Rows \subseteq Tasks
  BY DEF Stages, Tasks
<1>2. /\ task' \in [Tasks -> [stage : Stages, conn : 0..MaxConns]]
      /\ \A t \in Tasks : task'[t].stage = IF t = n THEN "lost" ELSE task[t].stage
      /\ AlwaysAConnection'
  BY <1>1, RowEndsTyped DEF InsertLost
<1>3. TypeOK'
  BY <1>2 DEF IInv, TypeOK, InsertLost, poolVars
<1>4. PInv' /\ Restartable'
  BY PushesStand DEF IInv, InsertLost, Restartable
<1>5. RInv'
  <2>1. \A m \in Rows : /\ Pending(m)' => Pending(m)
                        /\ task'[m].stage = "done" <=> task[m].stage = "done"
                        /\ task[m].stage = "none" => task'[m].stage = "none"
    BY <1>1, <1>2 DEF InsertLost, Pending
  <2> QED
    BY <2>1, RowsStand DEF IInv, TypeOK, InsertLost
<1> QED
  BY <1>2, <1>3, <1>4, <1>5 DEF IInv

(* The list grows by a snapshot and is posted whole.                       *)
LEMMA SelectedInv == ASSUME IInv, NEW q \in Reqs, Selected(q) PROVE IInv'
<1> DEFINE Post == [data : Seq(Snapshot), epoch : 0..MaxCrashes, state : {"sent", "delivered"}]
           new == [data |-> ScheduleList, epoch |-> epoch, state |-> "sent"]
<1>1. q \in Tasks /\ \A n \in Rows : n \in Tasks /\ n # q
  BY TrackServerAssumption DEF Rows, Tasks
<1>2. ScheduleList \in Seq(Snapshot)
  BY AppendProperties DEF IInv, TypeOK, ScheduleList
<1>3. new \in Post
  BY <1>2 DEF IInv, TypeOK
<1>4. /\ posts' \in Seq(Post) /\ Len(posts) \in Nat
      /\ DOMAIN posts = 1..Len(posts) /\ DOMAIN posts' = 1..(Len(posts) + 1)
      /\ posts'[Len(posts) + 1] = new /\ \A p \in DOMAIN posts : posts'[p] = posts[p]
  <2>1. posts \in Seq(Post)
    BY DEF IInv, TypeOK
  <2>2. /\ posts' \in Seq(Post) /\ Len(posts') = Len(posts) + 1
        /\ posts'[Len(posts) + 1] = new /\ \A p \in 1..Len(posts) : posts'[p] = posts[p]
    BY <1>3, <2>1, AppendProperties DEF Selected
  <2> QED
    BY <2>1, <2>2, LenProperties
<1>5. \A t \in Tasks : task'[t] = IF t = q THEN [task[t] EXCEPT !.stage = "done"] ELSE task[t]
  BY DEF IInv, TypeOK, Selected, Ended
<1>6. TypeOK'
  <2>1. task' \in [Tasks -> [stage : Stages, conn : 0..MaxConns]]
    BY <1>1 DEF IInv, TypeOK, Selected, Ended, Stages
  <2>2. pc' \in [Reqs -> {"new", "waiting", "pinging", "unanswered", "answered", "reset"}]
    BY DEF IInv, TypeOK, Selected
  <2> QED
    BY <1>2, <1>4, <2>1, <2>2 DEF IInv, TypeOK, Selected, poolVars
<1>7. \A p \in DOMAIN posts :
        posts[p].epoch = epoch => IsPrefix(posts[p].data, ScheduleList)
  <2> SUFFICES ASSUME NEW p \in DOMAIN posts, posts[p].epoch = epoch
               PROVE IsPrefix(posts[p].data, ScheduleList)
    OBVIOUS
  <2>1. IsPrefix(posts[p].data, arrayOfSchedules)
    BY DEF IInv, PInv, Grown, Selected
  <2>2. posts[p].data \in Seq(Snapshot)
    BY PostsTyped DEF IInv
  <2> QED
    BY <2>1, <2>2, PrefixOfAppend DEF IInv, TypeOK, ScheduleList
<1>8. Grown'
  <2>1. IsPrefix(new.data, ScheduleList)
    BY <1>2, PrefixOfSelf
  <2>2. \A p \in DOMAIN posts' : p \in DOMAIN posts \/ p = Len(posts) + 1
    BY <1>4
  <2>3. epoch <= epoch
    BY DEF IInv, TypeOK
  <2> QED
    BY <1>4, <1>7, <2>1, <2>2, <2>3 DEF IInv, PInv, Grown, Selected
<1>9. PushesArePrefixes'
  <2> SUFFICES ASSUME NEW p \in DOMAIN posts', NEW r \in DOMAIN posts',
                      p < r, posts'[p].epoch = posts'[r].epoch
               PROVE IsPrefix(posts'[p].data, posts'[r].data)
    BY DEF PushesArePrefixes
  <2>1. p \in DOMAIN posts /\ posts'[p] = posts[p]
    BY <1>4
  <2>2. CASE r \in DOMAIN posts
    BY <1>4, <2>1, <2>2 DEF IInv, PInv, PushesArePrefixes
  <2>3. CASE r = Len(posts) + 1
    BY <1>4, <1>7, <2>1, <2>3
  <2> QED
    BY <1>4, <2>2, <2>3
<1>10. RInv'
  BY <1>1, <1>5, RowsUntouched DEF Selected
<1>11. Restartable' /\ AlwaysAConnection'
  <2>1. \A t \in Tasks : task'[t].stage # "noconn"
    BY <1>5 DEF IInv, TypeOK, AlwaysAConnection
  <2> QED
    BY <2>1 DEF IInv, Restartable, AlwaysAConnection, Selected
<1> QED
  BY <1>6, <1>8, <1>9, <1>10, <1>11 DEF IInv, PInv

LEMMA PostDeliveredInv == ASSUME IInv, NEW p \in DOMAIN posts, PostDelivered(p) PROVE IInv'
<1> DEFINE Post == [data : Seq(Snapshot), epoch : 0..MaxCrashes, state : {"sent", "delivered"}]
<1>1. posts \in Seq(Post) /\ DOMAIN posts = 1..Len(posts)
  BY LenProperties DEF IInv, TypeOK
<1>2. posts[p] \in Post
  BY <1>1, ElementOfSeq
<1>3. [posts[p] EXCEPT !.state = "delivered"] \in Post
  BY <1>2
<1>4. posts' \in Seq(Post)
  BY <1>1, <1>3, ExceptSeq DEF PostDelivered
<1>5. TypeOK'
  BY <1>4 DEF IInv, TypeOK, PostDelivered, poolVars
<1>6. DOMAIN posts' = DOMAIN posts
  BY DEF PostDelivered
<1>7. \A r \in DOMAIN posts : /\ posts'[r].data = posts[r].data
                              /\ posts'[r].epoch = posts[r].epoch
  <2> SUFFICES ASSUME NEW r \in DOMAIN posts
               PROVE posts'[r].data = posts[r].data /\ posts'[r].epoch = posts[r].epoch
    OBVIOUS
  <2>1. posts[r] \in Post
    BY <1>1, ElementOfSeq
  <2>2. posts'[r] = IF r = p THEN [posts[p] EXCEPT !.state = "delivered"] ELSE posts[r]
    BY DEF PostDelivered
  <2> QED
    BY <1>2, <2>1, <2>2
<1>8. PInv'
  BY <1>6, <1>7 DEF IInv, PInv, Grown, PushesArePrefixes, PostDelivered
<1>9. RInv'
  BY RowsUntouched DEF PostDelivered
<1>10. Restartable' /\ AlwaysAConnection'
  BY DEF IInv, Restartable, AlwaysAConnection, PostDelivered
<1> QED
  BY <1>5, <1>8, <1>9, <1>10 DEF IInv

LEMMA NextInv == IInv /\ [Next]_vars => IInv'
<1> SUFFICES ASSUME IInv, [Next]_vars PROVE IInv'
  OBVIOUS
<1>1. CASE UNCHANGED vars
  <2>1. TypeOK' /\ Restartable' /\ AlwaysAConnection'
    BY <1>1 DEF vars, poolVars, IInv, TypeOK, Restartable, AlwaysAConnection
  <2>2. PInv'
    BY <1>1, PushesStand DEF vars, IInv
  <2>3. RInv'
    BY <1>1, RowsUntouched DEF vars
  <2> QED
    BY <2>1, <2>2, <2>3 DEF IInv
<1>2. CASE Restart \/ FetchEnds \/ Reconnect
  BY <1>2, RestartInv, FetchEndsInv, ReconnectInv
<1>3. CASE \E q \in Reqs : Request(q) \/ Ping(q)
  BY <1>3, RequestInv
<1>4. CASE \E q \in Reqs : Selected(q) \/ SelectFails(q) \/ SelectLost(q)
  BY <1>4, SelectedInv, DieInv, SelectLostInv DEF SelectFails
<1>5. CASE \E k \in Tracks : Scrape(k)
  BY <1>5, ScrapeInv
<1>6. CASE \E t \in Tasks : Connected(t) \/ ConnectFails(t)
  BY <1>6, ConnectedInv, DieInv DEF ConnectFails
<1>7. CASE \E c \in Conns : ConnectionLost(c)
  BY <1>7, ConnectionLostInv
<1>8. CASE \E n \in Rows : Inserted(n) \/ InsertLost(n)
  BY <1>8, InsertedInv, InsertLostInv
<1>9. CASE \E p \in DOMAIN posts : PostDelivered(p) \/ PostFails(p)
  BY <1>9, PostDeliveredInv, DieInv DEF PostFails
<1> QED
  BY <1>1, <1>2, <1>3, <1>4, <1>5, <1>6, <1>7, <1>8, <1>9 DEF Next

LEMMA SpecInv == Spec => []IInv
BY InitInv, NextInv, PTL DEF Spec

-----------------------------------------------------------------------------
(* Whatever requests, rows, connections and crashes there are, the state   *)
(* of main.js keeps its shape; the connections that are open are in the    *)
(* pool, and no more are opened than connects and reconnects open.         *)
THEOREM TypeCorrect == Spec => []TypeOK
<1>1. IInv => TypeOK
  BY DEF IInv
<1> QED
  BY <1>1, SpecInv, PTL

(* pool.connect calls back with a connection of its own in the pool, so    *)
(* getConnection never runs out, however many others have closed.          *)
THEOREM AlwaysAConnectionHolds == Spec => []AlwaysAConnection
<1>1. IInv => AlwaysAConnection
  BY DEF IInv
<1> QED
  BY <1>1, SpecInv, PTL

(* Of two POSTs of one process the later one's list starts with the        *)
(* earlier one's, through every crash and restart in between.              *)
THEOREM PushesArePrefixesHolds == Spec => []PushesArePrefixes
<1>1. IInv => PushesArePrefixes
  BY DEF IInv, PInv
<1> QED
  BY <1>1, SpecInv, PTL

(* The row kept for a track day is the newest that got through, unless two *)
(* of its rows were underway together.                                     *)
THEOREM StaleOnlyIfRacedHolds == Spec => []StaleOnlyIfRaced
<1>1. IInv => StaleOnlyIfRaced
  BY DEF IInv, RInv
<1> QED
  BY <1>1, SpecInv, PTL

-----------------------------------------------------------------------------
(* The App Engine site.                                                    *)

(* A query returns lists that were stored, and a handler deletes only what *)
(* its query returned.                                                     *)
SeenStored ==
  /\ indexed \subseteq Stored
  /\ \A q \in Posts : before[q] \subseteq Stored /\ seen[q] \subseteq before[q]

(* Of the lists stored before q's query, those still in the table are the  *)
(* ones it did not return or has yet to delete; nothing, once it put.      *)
OldOnes ==
  \A q \in Posts :
    /\ \A e \in before[q] \cap table : e \in missed[q] \cup seen[q]
    /\ handler[q] = "done" => seen[q] = {}

GInv == GaeTypeOK /\ SeenStored /\ OldOnes /\ KeptUntilSuperseded

LEMMA InitGInv == GaeInit => GInv
BY DEF GaeInit, GInv, GaeTypeOK, Stored, SeenStored, OldOnes, KeptUntilSuperseded

LEMMA QueryGInv == ASSUME GInv, NEW q \in Posts, Query(q) PROVE GInv'
<1> USE DEF GInv
<1>1. Stored' = Stored /\ q \notin Stored
  BY DEF Query, GaeTypeOK, Stored
<1>2. GaeTypeOK'
  <2>1. indexed \subseteq Posts /\ Stored \subseteq Posts /\ table \ indexed \subseteq Posts
    BY DEF GaeTypeOK, Stored
  <2>2. q \notin Stored /\ q \notin indexed
    BY <1>1 DEF SeenStored
  <2> QED
    BY <1>1, <2>1, <2>2 DEF Query, GaeTypeOK
<1>3. SeenStored'
  BY <1>1 DEF Query, GaeTypeOK, SeenStored
<1>4. OldOnes'
  BY DEF Query, GaeTypeOK, OldOnes
<1>5. KeptUntilSuperseded'
  <2> SUFFICES ASSUME NEW e \in Stored \ table PROVE \E r \in Posts : e \in before'[r]
    BY <1>1 DEF Query, KeptUntilSuperseded
  <2> QED
    BY DEF Query, GaeTypeOK
<1> QED
  BY <1>2, <1>3, <1>4, <1>5

LEMMA PutGInv == ASSUME GInv, NEW q \in Posts, Put(q) PROVE GInv'
<1> USE DEF GInv
<1>1. Stored' = Stored \cup {q} /\ q \notin Stored /\ table' = table \cup {q}
  BY DEF Put, GaeTypeOK, Stored
<1>2. GaeTypeOK'
  BY <1>1 DEF Put, GaeTypeOK
<1>3. SeenStored'
  BY <1>1 DEF Put, SeenStored
<1>4. OldOnes'
  BY <1>1 DEF Put, GaeTypeOK, SeenStored, OldOnes
<1>5. KeptUntilSuperseded'
  BY <1>1 DEF Put, KeptUntilSuperseded
<1> QED
  BY <1>2, <1>3, <1>4, <1>5

LEMMA FailGInv == ASSUME GInv, NEW q \in Posts, Fail(q) PROVE GInv'
<1>1. Stored' = Stored
  BY DEF Fail, GInv, GaeTypeOK, Stored
<1> QED
  BY <1>1 DEF Fail, GInv, GaeTypeOK, SeenStored, OldOnes, KeptUntilSuperseded

LEMMA DeleteGInv == ASSUME GInv, NEW q \in Posts, NEW e \in Posts, Delete(q, e) PROVE GInv'
<1> USE DEF GInv, ToDelete
<1>1. Stored' = Stored
  BY DEF Delete, Stored
<1>2. GaeTypeOK'
  BY <1>1 DEF Delete, GaeTypeOK
<1>3. SeenStored'
  BY <1>1 DEF Delete, GaeTypeOK, SeenStored
<1>4. OldOnes'
  BY DEF Delete, GaeTypeOK, OldOnes
<1>5. KeptUntilSuperseded'
  <2>1. e \in before[q]
    BY DEF Delete, SeenStored
  <2> QED
    BY <1>1, <2>1 DEF Delete, KeptUntilSuperseded
<1> QED
  BY <1>2, <1>3, <1>4, <1>5

LEMMA CatchUpGInv == ASSUME GInv, NEW e \in Posts, CatchUp(e) PROVE GInv'
<1>1. Stored' = Stored
  BY DEF CatchUp, Stored
<1> QED
  BY <1>1 DEF CatchUp, GInv, GaeTypeOK, SeenStored, OldOnes, KeptUntilSuperseded

LEMMA NextGInv == GInv /\ [GaeNext]_gaeVars => GInv'
<1> SUFFICES ASSUME GInv, [GaeNext]_gaeVars PROVE GInv'
  OBVIOUS
<1>1. CASE UNCHANGED gaeVars
  BY <1>1 DEF gaeVars, GInv, GaeTypeOK, Stored, SeenStored, OldOnes, KeptUntilSuperseded
<1> QED
  BY <1>1, QueryGInv, PutGInv, FailGInv, DeleteGInv, CatchUpGInv DEF GaeNext

LEMMA SpecGInv == GaeSpec => []GInv
BY InitGInv, NextGInv, PTL DEF GaeSpec

(* The table holds lists that were put; queries and handlers' sets name    *)
(* POSTs (UpdatePage.post).                                                *)
THEOREM GaeTypeCorrect == GaeSpec => []GaeTypeOK
<1>1. GInv => GaeTypeOK
  BY DEF GInv
<1> QED
  BY <1>1, SpecGInv, PTL

(* A list that was stored goes only for a POST that came after it, however *)
(* many handlers are at work, and whatever the index shows them.           *)
THEOREM KeptUntilSupersededHolds == GaeSpec => []KeptUntilSuperseded
<1>1. GInv => KeptUntilSuperseded
  BY DEF GInv
<1> QED
  BY <1>1, SpecGInv, PTL

(* What a POST that is done found stored is gone, but for what the index   *)
(* hid from it.                                                            *)
THEOREM SupersededGoneHolds == GaeSpec => []SupersededGone
<1>1. GInv => SupersededGone
  BY DEF GInv, OldOnes, SupersededGone, Stored
<1> QED
  BY <1>1, SpecGInv, PTL

(* A site that had a list has none only while a handler is at work, or     *)
(* after one failed.                                                       *)
THEOREM EmptyOnlyMidwayHolds == GaeSpec => []EmptyOnlyMidway
<1>1. GaeInit => EmptyOnlyMidway
  BY DEF GaeInit, EmptyOnlyMidway, Stored
<1>2. GInv /\ EmptyOnlyMidway /\ [GaeNext]_gaeVars => EmptyOnlyMidway'
  <2> SUFFICES ASSUME GInv, EmptyOnlyMidway, [GaeNext]_gaeVars PROVE EmptyOnlyMidway'
    OBVIOUS
  <2>1. ASSUME NEW q \in Posts, Query(q) PROVE EmptyOnlyMidway'
    BY <2>1 DEF Query, EmptyOnlyMidway, GInv, GaeTypeOK
  <2>2. ASSUME NEW q \in Posts, Put(q) PROVE EmptyOnlyMidway'
    BY <2>2 DEF Put, EmptyOnlyMidway
  <2>3. ASSUME NEW q \in Posts, Fail(q) PROVE EmptyOnlyMidway'
    BY <2>3 DEF Fail, EmptyOnlyMidway, GInv, GaeTypeOK
  <2>4. ASSUME NEW q \in Posts, NEW e \in Posts, Delete(q, e) PROVE EmptyOnlyMidway'
    BY <2>4 DEF Delete, EmptyOnlyMidway
  <2>5. ASSUME NEW e \in Posts, CatchUp(e) PROVE EmptyOnlyMidway'
    BY <2>5 DEF CatchUp, EmptyOnlyMidway, Stored
  <2>6. CASE UNCHANGED gaeVars
    BY <2>6 DEF gaeVars, EmptyOnlyMidway, Stored
  <2> QED
    BY <2>1, <2>2, <2>3, <2>4, <2>5, <2>6 DEF GaeNext
<1> QED
  BY <1>1, <1>2, SpecGInv, PTL DEF GaeSpec
=============================================================================
