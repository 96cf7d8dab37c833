----------------------------- MODULE TrackServer ----------------------------
(***************************************************************************)
(* The HTTP side of the track-day server (src/main/nodejs/src/main.js):    *)
(* its commands, the Cassandra pool they share, and the list pushed to the *)
(* App Engine site.  What the scrapers do with a page is module Scraper's; *)
(* here a fetched page just yields rows.                                   *)
(*                                                                         *)
(* Node runs one callback at a time, so a callback is one action; between  *)
(* two callbacks of one command anything else may run.  A row or a command *)
(* that needs the database is a task: it calls pool.connect, waits, sends  *)
(* its statement on some connection of the pool, and waits again.  A throw *)
(* in any callback ends the process.                                       *)
(***************************************************************************)
EXTENDS Integers, Sequences, FiniteSets, SequencesExt

CONSTANTS
  Reqs,       \* HTTP requests (identities)
  Tracks,     \* primary keys of the table schedules: name, track, date
  NumSites,   \* how many sites a /refresh fetches
  MaxRows,    \* bound: rows scraped, over all fetches
  MaxConns,   \* bound: connections opened, over all connects
  MaxCrashes  \* bound: times the process dies

(* A request is not a row.                                                 *)
ASSUME TrackServerAssumption ==
  /\ NumSites \in Nat /\ MaxRows \in Nat /\ MaxConns \in Nat /\ MaxCrashes \in Nat
  /\ Reqs \cap (1..MaxRows) = {}

VARIABLES
  alive,      \* the process runs
  epoch,      \* how often it has been restarted
  url,        \* url[q]: what request q asks for
  pc,         \* pc[q]: how far request q is
  fetches,    \* how many pages are being fetched
  rows,       \* rows[n]: the key of the n-th row scraped; n is its cost too
  task,       \* task[t]: stage and connection of a row's or request's statement
  clients,    \* pool.clients: connections in the pool
  ready,      \* those that are open
  opened,     \* how many connections were ever opened
  dead,       \* length of pool.dead
  db,         \* db[k]: the row of key k (its number in rows), or 0
  arrayOfSchedules,  \* the global list; one table snapshot per /update served
  posts,      \* the POSTs to the App Engine site, in the order they started
  raced       \* history: keys that had two rows underway at once

poolVars == <<clients, ready, opened, dead>>
vars == <<alive, epoch, url, pc, fetches, rows, task, poolVars, db,
          arrayOfSchedules, posts, raced>>

Rows == 1..MaxRows
Tasks == Rows \cup Reqs
Conns == 1..MaxConns
Commands == {"refresh", "gettracks", "pingback"}   \* the comment, main.js:460
Urls == Commands \cup {"update"}
Stages == {"none", "connecting", "sent", "done", "lost", "noconn"}
Snapshot == [Tracks -> 0..MaxRows]

Pending(n) == task[n].stage \in {"connecting", "sent"}

NoTask == [stage |-> "none", conn |-> 0]
Connecting == [stage |-> "connecting", conn |-> 0]
Ended(t, stage) == [task EXCEPT ![t].stage = stage]

-----------------------------------------------------------------------------
(* An uncaught throw: the process and all it held in memory are gone.  Its *)
(* clients are cut off; statements already sent may yet reach Cassandra.   *)
Die ==
  /\ epoch < MaxCrashes
  /\ alive' = FALSE
  /\ pc' = [q \in Reqs |-> IF pc[q] \in {"new", "answered"} THEN pc[q]
                                                              ELSE "reset"]
  /\ fetches' = 0
  /\ task' = [t \in Tasks |->
                IF task[t].stage = "connecting" \/ (t \in Reqs /\ task[t].stage = "sent")
                  THEN [task[t] EXCEPT !.stage = "lost"] ELSE task[t]]
  /\ clients' = {} /\ ready' = {} /\ dead' = 0
  /\ arrayOfSchedules' = <<>>
  /\ UNCHANGED <<epoch, url, rows, opened, db, posts, raced>>

Restart ==
  /\ ~alive
  /\ alive' = TRUE /\ epoch' = epoch + 1
  /\ UNCHANGED <<url, pc, fetches, rows, task, poolVars, db,
                 arrayOfSchedules, posts, raced>>

-----------------------------------------------------------------------------
(* The request handler.                                                    *)

Arrives(q, u, next) ==
  /\ alive /\ pc[q] = "new"
  /\ url' = [url EXCEPT ![q] = u]
  /\ pc' = [pc EXCEPT ![q] = next]
  /\ UNCHANGED <<alive, epoch, rows, poolVars, db, arrayOfSchedules, posts, raced>>

(* getallschedulesfromsites starts the fetches and ends the response.      *)
RefreshRequest(q) ==
  /\ Arrives(q, "refresh", "answered")
  /\ fetches' = fetches + NumSites
  /\ UNCHANGED task

(* getschedulefromdb calls pool.connect.                                   *)
UpdateRequest(q) ==
  /\ Arrives(q, "update", "waiting")
  /\ task' = [task EXCEPT ![q] = Connecting]
  /\ UNCHANGED fetches

(* pinggae.                                                                *)
PingbackRequest(q) ==
  /\ Arrives(q, "pingback", "pinging")
  /\ UNCHANGED <<fetches, task>>

(* A url no branch of the handler compares: the response is left open.     *)
UnknownRequest(q) ==
  /\ Arrives(q, "gettracks", "unanswered")
  /\ UNCHANGED <<fetches, task>>

(* pinggae's callbacks: the first data ends the response, an error does    *)
(* not.                                                                    *)
Ping(q) ==
  /\ alive /\ pc[q] = "pinging"
  /\ pc' = [pc EXCEPT ![q] = "answered"] \/ pc' = [pc EXCEPT ![q] = "unanswered"]
  /\ UNCHANGED <<alive, epoch, url, fetches, rows, task, poolVars, db,
                 arrayOfSchedules, posts, raced>>

-----------------------------------------------------------------------------
(* Scraping: addscheduletodb for each row of a page.                       *)

Scrape(k) ==
  /\ alive /\ fetches > 0 /\ Len(rows) < MaxRows
  /\ rows' = Append(rows, k)
  /\ task' = [task EXCEPT ![Len(rows) + 1] = Connecting]
  /\ raced' = IF \E n \in DOMAIN rows : rows[n] = k /\ Pending(n)
                THEN raced \cup {k} ELSE raced
  /\ UNCHANGED <<alive, epoch, url, pc, fetches, poolVars, db,
                 arrayOfSchedules, posts>>

FetchEnds ==
  /\ alive /\ fetches > 0
  /\ fetches' = fetches - 1
  /\ UNCHANGED <<alive, epoch, url, pc, rows, task, poolVars, db,
                 arrayOfSchedules, posts, raced>>

-----------------------------------------------------------------------------
(* The pool.                                                               *)

(* Slip: the callback runs before the connection is put in the pool.       *)
CallbackPoolEarly(c) == clients

(* What onConnect has pushed by the time it calls back.                    *)
CallbackPool(c) == clients \cup {c}

(* getConnection: any client will do if it is ready; if it is not, the     *)
(* ones that are not go to dead and it tries again.  With none left the    *)
(* statement is dropped.                                                   *)
SendOn(t, pool, open) ==
  \/ \E c \in pool \cap open :
       /\ task' = [task EXCEPT ![t] = [stage |-> "sent", conn |-> c]]
       /\ UNCHANGED dead
  \/ /\ pool \ open # {}
     /\ dead' = dead + Cardinality(pool \ open)
     /\ \E c \in pool \cap open :
          task' = [task EXCEPT ![t] = [stage |-> "sent", conn |-> c]]
  \/ /\ pool \cap open = {}
     /\ task' = Ended(t, "noconn")
     /\ dead' = dead + Cardinality(pool)

(* The callback of pool.connect: one more connection, then the statement.  *)
Connected(t) ==
  /\ alive /\ task[t].stage = "connecting" /\ opened < MaxConns
  /\ LET c == opened + 1 IN
     /\ opened' = c
     /\ ready' = ready \cup {c}
     /\ SendOn(t, CallbackPool(c), ready')
     /\ clients' = IF dead' = dead THEN clients \cup {c} ELSE ready'
  /\ UNCHANGED <<alive, epoch, url, pc, fetches, rows, db,
                 arrayOfSchedules, posts, raced>>

ConnectFails(t) == alive /\ task[t].stage = "connecting" /\ Die

(* A connection closes.                                                    *)
ConnectionLost(c) ==
  /\ alive /\ c \in ready
  /\ ready' = ready \ {c}
  /\ UNCHANGED <<alive, epoch, url, pc, fetches, rows, task, clients, opened,
                 dead, db, arrayOfSchedules, posts, raced>>

(* monitorConnections: a dead host is tried again; if that works, one more *)
(* connection is in the pool.                                              *)
Reconnect ==
  /\ alive /\ dead > 0 /\ opened < MaxConns
  /\ dead' = dead - 1
  /\ opened' = opened + 1
  /\ clients' = clients \cup {opened + 1}
  /\ ready' = ready \cup {opened + 1}
  /\ UNCHANGED <<alive, epoch, url, pc, fetches, rows, task, db,
                 arrayOfSchedules, posts, raced>>

-----------------------------------------------------------------------------
(* The statements.                                                         *)

(* Slip: the row is looked up when the statement runs, not when it was     *)
(* scraped.                                                                *)
RowOfLate(n) == Len(rows)

RowOf(n) == n

(* INSERT overwrites the row of its key.                                   *)
Inserted(n) ==
  /\ task[n].stage = "sent"
  /\ db' = [db EXCEPT ![rows[RowOf(n)]] = RowOf(n)]
  /\ task' = Ended(n, "done")
  /\ UNCHANGED <<alive, epoch, url, pc, fetches, rows, poolVars,
                 arrayOfSchedules, posts, raced>>

(* It has no callback: if it fails nobody hears of it.                     *)
InsertLost(n) ==
  /\ task[n].stage = "sent"
  /\ task' = Ended(n, "lost")
  /\ UNCHANGED <<alive, epoch, url, pc, fetches, rows, poolVars, db,
                 arrayOfSchedules, posts, raced>>

(* Slip: the newest rows are put in front of the list.                     *)
ScheduleListNewestFirst == <<db>> \o arrayOfSchedules

ScheduleList == Append(arrayOfSchedules, db)

(* SELECT: its rows go at the end of the global list, the whole list is    *)
(* posted, and the response is ended before anybody answers the POST.      *)
Selected(q) ==
  /\ alive /\ task[q].stage = "sent" /\ task[q].conn \in ready
  /\ arrayOfSchedules' = ScheduleList
  /\ posts' = Append(posts, [data |-> ScheduleList, epoch |-> epoch,
                             state |-> "sent"])
  /\ pc' = [pc EXCEPT ![q] = "answered"]
  /\ task' = Ended(q, "done")
  /\ UNCHANGED <<alive, epoch, url, fetches, rows, poolVars, db, raced>>

SelectFails(q) == alive /\ task[q].stage = "sent" /\ Die

(* The connection is gone and with it the callback.                        *)
SelectLost(q) ==
  /\ alive /\ task[q].stage = "sent" /\ task[q].conn \notin ready
  /\ task' = Ended(q, "lost")
  /\ pc' = [pc EXCEPT ![q] = "unanswered"]
  /\ UNCHANGED <<alive, epoch, url, fetches, rows, poolVars, db,
                 arrayOfSchedules, posts, raced>>

(* POSTs arrive in any order.  One that fails has no error handler: the    *)
(* error is thrown, if the process that sent it still runs.                *)
PostDelivered(p) ==
  /\ posts[p].state = "sent"
  /\ posts' = [posts EXCEPT ![p].state = "delivered"]
  /\ UNCHANGED <<alive, epoch, url, pc, fetches, rows, task, poolVars, db,
                 arrayOfSchedules, raced>>

PostFails(p) == alive /\ posts[p].state = "sent" /\ posts[p].epoch = epoch /\ Die

-----------------------------------------------------------------------------
Init ==
  /\ alive = TRUE /\ epoch = 0
  /\ url = [q \in Reqs |-> "none"] /\ pc = [q \in Reqs |-> "new"]
  /\ fetches = 0 /\ rows = <<>>
  /\ task = [t \in Tasks |-> NoTask]
  /\ clients = {} /\ ready = {} /\ opened = 0 /\ dead = 0
  /\ db = [k \in Tracks |-> 0]
  /\ arrayOfSchedules = <<>> /\ posts = <<>>
  /\ raced = {}

Request(q) ==
  RefreshRequest(q) \/ UpdateRequest(q) \/ PingbackRequest(q) \/ UnknownRequest(q)

Next ==
  \/ Restart \/ FetchEnds \/ Reconnect
  \/ \E q \in Reqs : Request(q) \/ Ping(q)
  \/ \E q \in Reqs : Selected(q) \/ SelectFails(q) \/ SelectLost(q)
  \/ \E k \in Tracks : Scrape(k)
  \/ \E t \in Tasks : Connected(t) \/ ConnectFails(t)
  \/ \E c \in Conns : ConnectionLost(c)
  \/ \E n \in Rows : Inserted(n) \/ InsertLost(n)
  \/ \E p \in DOMAIN posts : PostDelivered(p) \/ PostFails(p)

Spec == Init /\ [][Next]_vars

-----------------------------------------------------------------------------
TypeOK ==
  /\ alive \in BOOLEAN /\ epoch \in 0..MaxCrashes
  /\ url \in [Reqs -> Urls \cup {"none"}]
  /\ pc \in [Reqs -> {"new", "waiting", "pinging", "unanswered", "answered",
                      "reset"}]
  /\ fetches \in Nat
  /\ rows \in Seq(Tracks) /\ Len(rows) <= MaxRows
  /\ task \in [Tasks -> [stage : Stages, conn : 0..MaxConns]]
  /\ clients \subseteq Conns /\ ready \subseteq clients
  /\ opened \in 0..MaxConns /\ dead \in Nat
  /\ db \in Snapshot
  /\ arrayOfSchedules \in Seq(Snapshot)
  /\ posts \in Seq([data : Seq(Snapshot), epoch : 0..MaxCrashes,
                    state : {"sent", "delivered"}])
  /\ raced \subseteq Tracks

(* However connections come and go, a statement always finds a connection: *)
(* pool.connect has just put an open one in the pool.                      *)
AlwaysAConnection == \A t \in Tasks : task[t].stage # "noconn"

(* POSTs may overtake one another, but the lists of one process only grow: *)
(* the worst a late POST can do is take the site back to a prefix.         *)
PushesArePrefixes ==
  \A p, q \in DOMAIN posts :
    (p < q /\ posts[p].epoch = posts[q].epoch)
      => IsPrefix(posts[p].data, posts[q].data)

Done(k) == {n \in DOMAIN rows : rows[n] = k /\ task[n].stage = "done"}

(* INSERTs run on many connections at once and the last to arrive wins.    *)
(* The row kept for a track day is the last one scraped of those that got  *)
(* through, unless two rows of that very track day were underway together. *)
StaleOnlyIfRaced ==
  \A k \in Tracks \ raced :
    db[k] = IF Done(k) = {} THEN 0 ELSE Max(Done(k))

(* "commands: refresh ; gettracks; pingback" (main.js:459-460): a command  *)
(* of the server is not left without an answer.                            *)
CommandsAnswered ==
  \A q \in Reqs : url[q] \in Commands => pc[q] # "unanswered"

(* "Creates a connection to a keyspace for each of the servers in the      *)
(* pool" (helenus pool.js:23): the server names one host, and hostPoolSize *)
(* is 1.                                                                   *)
ConnectionPerServer == Cardinality(ready) <= 1
=============================================================================
