----------------------------- MODULE CaresQueries ----------------------------
(***************************************************************************)
(* src/cares_wrap.cc: DNS queries over c-ares, whose sockets libuv polls.  *)
(* c-ares answers a query from ares_process_fd, or at once, within Send;   *)
(* either way JavaScript runs, and may make further queries before the     *)
(* call returns.  It tells of its sockets by ares_sockstate_cb, and while  *)
(* there is one a timer calls it every second.  The tasks are kept in the  *)
(* tree of TaskTree.  ares_task_create does not fail.                      *)
(***************************************************************************)
EXTENDS Naturals, Sequences, FiniteSets

CONSTANTS
  Queries,      \* QueryWraps and getaddrinfo requests
  Sockets,      \* socket numbers
  MaxClosing    \* bound: poll handles closing at once

VARIABLES
  query,       \* query[q]: its wrap: "none", "made", "sent", "freed"
  qkind,       \* qkind[q]: what its class's Parse reads, while the wrap lives
  viauv,       \* viauv[q]: a getaddrinfo request, which libuv answers
  answers,     \* answers[q]: calls of oncomplete
  returned,    \* returned[q]: what the method returned: "nothing" yet, "object" or "null"
  ares_tasks,  \* sockets with a task
  polling,     \* those whose poll watcher was started
  closing,     \* tasks whose poll handle is closing
  ares_timer,  \* active
  stack        \* the functions that run, innermost first; empty in the loop

cqvars == <<query, qkind, viauv, answers, returned, ares_tasks, polling, closing, ares_timer, stack>>

Kinds == {"hosts", "records", "hostent"}

Js == [f |-> "main"]
Send(q) == [f |-> "Send", q |-> q]
Callback(q) == [f |-> "Callback", q |-> q]
Process == [f |-> "ares_process_fd"]
AfterAddrInfo(q) == [f |-> "AfterGetAddrInfo", q |-> q]

InLoop == stack = <<>>
Running(f) == stack # <<>> /\ Head(stack).f = f
InJs == Running("main") \/ Running("Callback") \/ Running("AfterGetAddrInfo")
InAres == Running("Send") \/ Running("ares_process_fd")
Call(frame) == stack' = <<frame>> \o stack

Init ==
  /\ query = [q \in Queries |-> "none"] /\ qkind = [q \in Queries |-> "none"]
  /\ viauv = [q \in Queries |-> FALSE] /\ answers = [q \in Queries |-> 0]
  /\ returned = [q \in Queries |-> "nothing"]
  /\ ares_tasks = {} /\ polling = {} /\ closing = 0 /\ ares_timer = FALSE
  /\ stack = <<Js>>

Sockstate == <<ares_tasks, polling, closing, ares_timer>>

-----------------------------------------------------------------------------
(* JavaScript asks.                                                        *)

(* Query and QueryWithFamily: the object to return is kept before Send.    *)
Query(q) ==
  /\ InJs /\ query[q] = "none"
  /\ query' = [query EXCEPT ![q] = "made"]
  /\ \E k \in Kinds : qkind' = [qkind EXCEPT ![q] = k]
  /\ Call(Send(q))
  /\ UNCHANGED <<viauv, answers, returned, Sockstate>>

(* getHostByAddr of what is no address: never sent.                        *)
SendFails ==
  /\ Running("Send") /\ LET q == Head(stack).q IN
       /\ query[q] = "made" /\ qkind[q] = "hostent"
       /\ query' = [query EXCEPT ![q] = "freed"] /\ qkind' = [qkind EXCEPT ![q] = "none"]
       /\ returned' = [returned EXCEPT ![q] = "null"]
  /\ stack' = Tail(stack)
  /\ UNCHANGED <<viauv, answers, Sockstate>>

(* ares_query takes the wrap.                                              *)
AresQuery ==
  /\ Running("Send") /\ LET q == Head(stack).q IN
       query[q] = "made" /\ query' = [query EXCEPT ![q] = "sent"]
  /\ UNCHANGED <<qkind, viauv, answers, returned, Sockstate, stack>>

SendReturns ==
  /\ Running("Send") /\ LET q == Head(stack).q IN
       query[q] # "made" /\ returned' = [returned EXCEPT ![q] = "object"]
  /\ stack' = Tail(stack)
  /\ UNCHANGED <<query, qkind, viauv, answers, Sockstate>>

(* libuv takes the request, or refuses it.                                 *)
GetAddrInfo(q) ==
  /\ InJs /\ query[q] = "none"
  /\ viauv' = [viauv EXCEPT ![q] = TRUE]
  /\ \/ /\ query' = [query EXCEPT ![q] = "sent"]
        /\ returned' = [returned EXCEPT ![q] = "object"]
     \/ /\ query' = [query EXCEPT ![q] = "freed"]
        /\ returned' = [returned EXCEPT ![q] = "null"]
  /\ UNCHANGED <<qkind, answers, Sockstate, stack>>

-----------------------------------------------------------------------------
(* c-ares tells of its sockets, from within Send or ares_process_fd.       *)

(* A socket it wants to be polled, which may be new.                       *)
SockOpened(s) ==
  /\ InAres /\ s \notin polling
  /\ ares_tasks' = ares_tasks \cup {s} /\ polling' = polling \cup {s}
  /\ ares_timer' = TRUE
  /\ UNCHANGED <<query, qkind, viauv, answers, returned, closing, stack>>

(* Slip: the timer goes on when the last socket is closed.                 *)
SockClosedAlone(s) ==
  /\ InAres /\ s \in ares_tasks /\ closing < MaxClosing
  /\ ares_tasks' = ares_tasks \ {s} /\ polling' = polling \ {s}
  /\ closing' = closing + 1
  /\ UNCHANGED <<query, qkind, viauv, answers, returned, stack, ares_timer>>

(* A socket it has closed: the task leaves the tree at once, and is freed  *)
(* when libuv has closed its handle; the number may be used again before.  *)
SockClosed(s) ==
  /\ InAres /\ s \in ares_tasks /\ closing < MaxClosing
  /\ ares_tasks' = ares_tasks \ {s} /\ polling' = polling \ {s}
  /\ closing' = closing + 1
  /\ ares_timer' = (ares_timer /\ ares_tasks' # {})
  /\ UNCHANGED <<query, qkind, viauv, answers, returned, stack>>

PollClosed ==
  /\ InLoop /\ closing > 0 /\ closing' = closing - 1
  /\ UNCHANGED <<query, qkind, viauv, answers, returned, ares_tasks, polling, ares_timer, stack>>

-----------------------------------------------------------------------------
(* Answers.                                                                *)

(* ares_poll_cb, and ares_timeout, which asserts that there is a task.     *)
AresPollCb ==
  /\ InLoop /\ polling # {} /\ ares_timer' = TRUE
  /\ Call(Process)
  /\ UNCHANGED <<query, qkind, viauv, answers, returned, ares_tasks, polling, closing>>

AresTimeout ==
  /\ InLoop /\ ares_timer /\ Call(Process)
  /\ UNCHANGED <<query, qkind, viauv, answers, returned, Sockstate>>

ProcessReturns ==
  /\ Running("ares_process_fd") /\ stack' = Tail(stack)
  /\ UNCHANGED <<query, qkind, viauv, answers, returned, Sockstate>>

(* oncomplete is called from c-ares's stack; Callback deletes the wrap     *)
(* when it returns.                                                        *)
CallOnComplete(q) ==
  /\ InAres /\ query[q] = "sent" /\ ~viauv[q]
  /\ \A i \in DOMAIN stack : stack[i] # Callback(q)
  /\ answers' = [answers EXCEPT ![q] = @ + 1]
  /\ Call(Callback(q))
  /\ UNCHANGED <<query, qkind, viauv, returned, Sockstate>>

(* No answer, or one that does not parse, of any kind.                     *)
ParseError(q) == CallOnComplete(q)

(* A, AAAA, CNAME: the names or addresses of a hostent it frees.           *)
ParseHosts(q) == qkind[q] = "hosts" /\ CallOnComplete(q)

(* TXT, SRV, NAPTR: one element for each record of a list it frees.        *)
ParseRecords(q) == qkind[q] = "records" /\ CallOnComplete(q)

(* getHostByAddr and getHostByName: of a hostent c-ares keeps.             *)
ParseHostent(q) == qkind[q] = "hostent" /\ CallOnComplete(q)

AfterGetAddrInfo(q) ==
  /\ InLoop /\ query[q] = "sent" /\ viauv[q]
  /\ answers' = [answers EXCEPT ![q] = @ + 1]
  /\ Call(AfterAddrInfo(q))
  /\ UNCHANGED <<query, qkind, viauv, returned, Sockstate>>

(* JavaScript returns, and the wrap is deleted.                            *)
Return ==
  /\ InJs /\ stack' = Tail(stack)
  /\ IF Running("main") THEN UNCHANGED <<query, qkind>>
     ELSE LET q == Head(stack).q IN
          query' = [query EXCEPT ![q] = "freed"] /\ qkind' = [qkind EXCEPT ![q] = "none"]
  /\ UNCHANGED <<viauv, answers, returned, Sockstate>>

Next ==
  \/ \E q \in Queries : Query(q) \/ GetAddrInfo(q) \/ AfterGetAddrInfo(q)
  \/ \E q \in Queries : ParseError(q) \/ ParseHosts(q) \/ ParseRecords(q) \/ ParseHostent(q)
  \/ SendFails \/ AresQuery \/ SendReturns \/ Return
  \/ \E s \in Sockets : SockOpened(s) \/ SockClosed(s)
  \/ PollClosed \/ AresPollCb \/ AresTimeout \/ ProcessReturns

Spec == Init /\ [][Next]_cqvars

-----------------------------------------------------------------------------
TypeOK ==
  /\ query \in [Queries -> {"none", "made", "sent", "freed"}]
  /\ qkind \in [Queries -> Kinds \cup {"none"}] /\ viauv \in [Queries -> BOOLEAN]
  /\ answers \in [Queries -> 0..1] /\ returned \in [Queries -> {"nothing", "object", "null"}]
  /\ ares_tasks \subseteq Sockets /\ polling \subseteq Sockets
  /\ closing \in 0..MaxClosing /\ ares_timer \in BOOLEAN
  /\ Len(stack) <= 2 * Cardinality(Queries) + 1

(* The timer runs while there is a task, so that ares_timeout's assertion  *)
(* and that of the first socket hold, and only tasks are polled.           *)
TimerWithTasks == (ares_timer <=> ares_tasks # {}) /\ polling = ares_tasks

(* A query has its answer, or else null from the method, once and before   *)
(* it is freed; what the stack will go back to is still there, but for a   *)
(* query answered from its own Send, of which only the object is used.     *)
AnsweredOnce ==
  \A q \in Queries :
    /\ query[q] = "freed" => answers[q] + (IF returned[q] = "null" THEN 1 ELSE 0) = 1
    /\ \A i \in DOMAIN stack :
         stack[i] \in {Callback(q), AfterAddrInfo(q)} => query[q] = "sent" /\ answers[q] = 1
    /\ Send(q) \in {stack[i] : i \in DOMAIN stack} <=> query[q] # "none" /\ returned[q] = "nothing"

(* Together: what the asserts of src/cares_wrap.cc say, and what a caller  *)
(* of dns.resolve relies on, whatever a callback does.                     *)
QueriesAnswered == TimerWithTasks /\ AnsweredOnce
=============================================================================
