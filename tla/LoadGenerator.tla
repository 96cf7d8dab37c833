---------------------------- MODULE LoadGenerator ----------------------------
(***************************************************************************)
(* One thread of wrk: wrk.c on the event loop ae.c over epoll.  Threads    *)
(* share nothing but the numbers of descriptors, so that a new socket is   *)
(* given any that is free, and the samples, which a mutex guards.  Samples *)
(* and the counters of errors and timeouts, which only the report reads,   *)
(* are left out; so is what a response says, but for where it ends.        *)
(***************************************************************************)
EXTENDS Naturals, FiniteSets

CONSTANTS
  Conns,      \* the connections of the thread
  Fds,        \* the descriptors there are
  WRequests,  \* thread->requests
  MaxSockets  \* bound: how many sockets are made before the loop stops polling

VARIABLES
  wphase,    \* "connecting", "polling", "events" or "ended"
  wstop,     \* loop->stop
  wnet,      \* per descriptor: events, what epoll watches, and the socket
  wconn,     \* per connection: fd, parser, and (history) lost: its write failed
  wfired,    \* what is left of the events poll has returned
  whalf,     \* an event whose reading half is done
  wcomplete, \* thread->complete
  hasked,    \* history: how many requests were written
  hsockets   \* history: how many sockets were made

wvars == <<wphase, wstop, wnet, wconn, wfired, whalf, wcomplete, hasked, hsockets>>

NoEvents == [mask |-> {}, client |-> CHOOSE c \in Conns : TRUE]
NoSocket == [st |-> "none", asked |-> FALSE, in |-> "nothing", sent |-> "nothing", eof |-> FALSE]
NoHalf == [fd |-> 0, mask |-> {}]
New == [fd |-> 0, parser |-> "start", lost |-> FALSE, begun |-> FALSE]

Init ==
  /\ wphase = "connecting" /\ wstop = FALSE
  /\ wnet = [ev |-> [f \in Fds |-> NoEvents], epoll |-> [f \in Fds |-> {}],
             sock |-> [f \in Fds |-> NoSocket]]
  /\ wconn = [c \in Conns |-> New]
  /\ wfired = {} /\ whalf = NoHalf /\ wcomplete = 0 /\ hasked = 0 /\ hsockets = 0

(* ae.c: epoll is told to add a descriptor that has no events yet, and to  *)
(* modify one that has; it refuses if it sees that otherwise.              *)
aeApiAddEventOk(n, fd) == (n.ev[fd].mask = {}) = (n.epoll[fd] = {})

aeCreateFileEvent(n, fd, mask, c) ==
  IF ~aeApiAddEventOk(n, fd) THEN n
  ELSE [n EXCEPT !.epoll[fd] = n.ev[fd].mask \cup mask,
                 !.ev[fd] = [mask |-> n.ev[fd].mask \cup mask, client |-> c]]

aeDeleteFileEvent(n, fd, mask) ==
  IF n.ev[fd].mask = {} THEN n
  ELSE [n EXCEPT !.ev[fd].mask = @ \ mask, !.epoll[fd] = n.ev[fd].mask \ mask]

(* The kernel forgets a descriptor that is closed.                         *)
CloseFd(n, fd) == [n EXCEPT !.sock[fd] = NoSocket, !.epoll[fd] = {}]

(* connect_socket: what there may be then.  Where it fails, fd is kept.    *)
NotConnected(n, k) == [net |-> n, conn |-> [k EXCEPT !.begun = TRUE]]

Connected(n, c, k, fd, st) ==
  [net |-> aeCreateFileEvent([n EXCEPT !.sock[fd].st = st], fd, {"w"}, c),
   conn |-> IF aeApiAddEventOk(n, fd) THEN [New EXCEPT !.fd = fd, !.begun = TRUE] ELSE k]

connect_socket(n, c, k) ==
  {NotConnected(n, k)} \cup
  {Connected(n, c, k, fd, st) : fd \in {f \in Fds : n.sock[f].st = "none"},
                                st \in {"connecting", "open"}}

(* A slip: the events are left to the kernel, which drops them on close.   *)
reconnect_socketForgets(n, c, k) == connect_socket(CloseFd(n, k.fd), c, k)

reconnect_socket(n, c, k) ==
  connect_socket(CloseFd(aeDeleteFileEvent(n, k.fd, {"r", "w"}), k.fd), c, k)

Becomes(c, outcomes) ==
  \E o \in outcomes : wnet' = o.net /\ wconn' = [wconn EXCEPT ![c] = o.conn]

(* thread_main: each connection is begun, then the loop.                   *)
Begin(c) ==
  /\ wphase = "connecting" /\ ~wconn[c].begun
  /\ Becomes(c, connect_socket(wnet, c, wconn[c]))
  /\ hsockets' = hsockets + 1
  /\ UNCHANGED <<wphase, wstop, wfired, whalf, wcomplete, hasked>>

aeMain ==
  /\ wphase = "connecting" /\ \A c \in Conns : wconn[c].begun
  /\ wphase' = "polling" /\ wstop' = FALSE
  /\ UNCHANGED <<wnet, wconn, wfired, whalf, wcomplete, hasked, hsockets>>

(* aeApiPoll: of an error epoll tells whatever was asked for.              *)
Ready(fd) ==
  LET s == wnet.sock[fd]  asked == wnet.epoll[fd]  failed == s.st = "failed"
  IN (IF "r" \in asked /\ (failed \/ s.eof \/ s.in # "nothing") THEN {"r"} ELSE {})
     \cup (IF failed \/ ("w" \in asked /\ s.st = "open") THEN {"w"} ELSE {})

Poll ==
  LET fired == {[fd |-> fd, mask |-> Ready(fd)] : fd \in {f \in Fds : wnet.epoll[f] # {}}}
  IN /\ wphase = "polling" /\ ~wstop /\ hsockets <= MaxSockets
     /\ wfired' = {e \in fired : e.mask # {}} /\ wfired' # {}
     /\ wphase' = "events"
     /\ UNCHANGED <<wstop, wnet, wconn, whalf, wcomplete, hasked, hsockets>>

(* The loop's condition, after the last event.                             *)
Processed ==
  /\ wphase = "events" /\ wfired = {} /\ whalf = NoHalf
  /\ wphase' = IF wstop THEN "ended" ELSE "polling"
  /\ UNCHANGED <<wstop, wnet, wconn, wfired, whalf, wcomplete, hasked, hsockets>>

(* request_complete, called by the parser.                                 *)
request_complete(n, c, k, keepalive) ==
  /\ wcomplete' = wcomplete + 1
  /\ IF wcomplete' >= WRequests
     THEN wstop' = TRUE /\ Becomes(c, {[net |-> n, conn |-> k]}) /\ UNCHANGED hsockets
     ELSE IF keepalive
     THEN /\ Becomes(c, {[net |-> aeCreateFileEvent(aeDeleteFileEvent(n, k.fd, {"r"}), k.fd, {"w"}, c),
                          conn |-> [k EXCEPT !.parser = "start"]]})
          /\ UNCHANGED <<wstop, hsockets>>
     ELSE Becomes(c, reconnect_socket(n, c, k)) /\ hsockets' = hsockets + 1 /\ UNCHANGED wstop

(* read gives some of a response, the rest of it, or nothing more; a read  *)
(* after an error that a write was told of gives nothing more.  The parser *)
(* takes an end before a response for nothing, and one within it for an    *)
(* error, unless the response goes on until the end.                       *)
socket_readable(fd, c) ==
  LET s == wnet.sock[fd]
      k == wconn[c]
      taken == [wnet EXCEPT !.sock[fd].in = "nothing"]
      answered == [taken EXCEPT !.sock[fd].asked = FALSE]
      Some(parser) == /\ Becomes(c, {[net |-> taken, conn |-> [k EXCEPT !.parser = parser]]})
                      /\ UNCHANGED <<wstop, wcomplete, hsockets>>
      Error == /\ Becomes(c, reconnect_socket(wnet, c, k)) /\ hsockets' = hsockets + 1
               /\ UNCHANGED <<wstop, wcomplete>>
      End == \/ k.parser = "start" /\ Some("start")
             \/ k.parser = "within" /\ Error
             \/ k.parser = "until end" /\ request_complete(answered, c, k, FALSE)
  IN /\ \/ s.in = "part" /\ Some("within")
        \/ s.in = "until end" /\ Some("until end")
        \/ s.in \in {"rest", "last"}
             /\ request_complete(answered, c, [k EXCEPT !.parser = "start"], s.in = "rest")
        \/ s.in = "nothing" /\ (s.eof \/ s.st = "failed") /\ End
        \/ s.in = "nothing" /\ ~s.eof /\ Error
     /\ UNCHANGED hasked

(* ssize_t is compared with size_t: that write has failed goes unnoticed,  *)
(* as -1 is no less than the size of the request.                          *)
socket_writeable(fd, c) ==
  LET k == wconn[c]
      wait(n) == aeCreateFileEvent(aeDeleteFileEvent(n, fd, {"w"}), fd, {"r"}, c)
  IN \/ /\ wnet.sock[fd].st = "open"
        /\ Becomes(c, {[net |-> wait([wnet EXCEPT !.sock[fd].asked = TRUE]), conn |-> [k EXCEPT !.lost = FALSE]]})
        /\ hasked' = hasked + 1
        /\ UNCHANGED <<wstop, wcomplete, hsockets>>
     \/ /\ wnet.sock[fd].st = "open"
        /\ Becomes(c, reconnect_socket(wnet, c, k)) /\ hsockets' = hsockets + 1
        /\ UNCHANGED <<wstop, wcomplete, hasked>>
     \/ /\ wnet.sock[fd].st # "open"
        /\ Becomes(c, {[net |-> wait(wnet), conn |-> [k EXCEPT !.lost = TRUE]]})
        /\ UNCHANGED <<wstop, wcomplete, hasked, hsockets>>

(* aeProcessEvents: the reading half of an event, and the writing half, if *)
(* the descriptor, which may be another socket's by now, still has either. *)
ReadHalf(e) ==
  /\ wphase = "events" /\ whalf = NoHalf /\ e \in wfired
  /\ wfired' = wfired \ {e} /\ whalf' = e
  /\ IF "r" \in e.mask \cap wnet.ev[e.fd].mask
     THEN socket_readable(e.fd, wnet.ev[e.fd].client)
     ELSE UNCHANGED <<wstop, wnet, wconn, wcomplete, hasked, hsockets>>
  /\ UNCHANGED wphase

WriteHalf ==
  /\ whalf # NoHalf /\ whalf' = NoHalf
  /\ IF "w" \in whalf.mask \cap wnet.ev[whalf.fd].mask
     THEN socket_writeable(whalf.fd, wnet.ev[whalf.fd].client)
     ELSE UNCHANGED <<wstop, wnet, wconn, wcomplete, hasked, hsockets>>
  /\ UNCHANGED <<wphase, wfired>>

(* The network and the server, which answers a request it has got with one *)
(* response, in a part and the rest or at once, and closes or resets the   *)
(* connection when it likes.  What happens while events are handled is     *)
(* taken to have happened before the poll: a call finds the same then.     *)
Peer(fd) ==
  LET s == wnet.sock[fd]
      Then(t) == wnet' = [wnet EXCEPT !.sock[fd] = t]
  IN /\ wphase = "polling"
     /\ \/ s.st = "connecting" /\ Then([s EXCEPT !.st = "open"])
        \/ s.st \in {"connecting", "open"} /\ \E in \in {s.in, "nothing"} :
             Then([s EXCEPT !.st = "failed", !.in = in])
        \/ s.st = "open" /\ ~s.eof /\ Then([s EXCEPT !.eof = TRUE])
        \/ /\ s.st = "open" /\ ~s.eof /\ s.asked /\ s.in \in {"nothing", "part"}
           /\ \/ s.sent = "nothing" /\ \E some \in {"part", "until end"} :
                   Then([s EXCEPT !.in = some, !.sent = some])
              \/ s.sent # "until end" /\ \E rest \in {"rest", "last"} :
                   Then([s EXCEPT !.in = rest, !.sent = "nothing"])
     /\ UNCHANGED <<wphase, wstop, wconn, wfired, whalf, wcomplete, hasked, hsockets>>

Next ==
  \/ \E c \in Conns : Begin(c)
  \/ aeMain \/ Poll \/ Processed
  \/ \E e \in wfired : ReadHalf(e)
  \/ WriteHalf
  \/ \E fd \in Fds : Peer(fd)

Spec == Init /\ [][Next]_wvars

TypeOK ==
  /\ wphase \in {"connecting", "polling", "events", "ended"} /\ wstop \in BOOLEAN
  /\ \A f \in Fds : /\ wnet.ev[f].mask \subseteq {"r", "w"}
                    /\ wnet.sock[f].st \in {"none", "connecting", "open", "failed"}
  /\ \A c \in Conns : wconn[c].parser \in {"start", "within", "until end"}
  /\ wcomplete \in Nat

-----------------------------------------------------------------------------

Watched(c) == {f \in Fds : wnet.ev[f].mask # {} /\ wnet.ev[f].client = c}

(* Whatever closes a socket, and whoever is given its descriptor next, the *)
(* table of events and epoll agree, an event is that of an open socket and *)
(* leads to the connection whose socket it is, and a connection waits for  *)
(* one thing: to write, or for the answer to what it wrote there, unless   *)
(* its write has failed.  No response is counted that was not asked for,   *)
(* and a thread that ends has made its requests, and at most one more per  *)
(* further connection (reconnect_socket, request_complete, socket_writeable *)
(* and aeProcessEvents).                                                   *)
LoadKept ==
  /\ \A f \in Fds : wnet.epoll[f] = wnet.ev[f].mask
  /\ \A f \in Fds : wnet.ev[f].mask # {} => /\ wnet.sock[f].st # "none"
                                            /\ wconn[wnet.ev[f].client].fd = f
  /\ \A c \in Conns, f \in Fds : f \in Watched(c) =>
       \/ wnet.ev[f].mask = {"w"} /\ ~wnet.sock[f].asked
       \/ wnet.ev[f].mask = {"r"} /\ (wnet.sock[f].asked \/ wconn[c].lost \/ wstop)
  /\ wcomplete <= hasked
  /\ wphase = "ended" => wcomplete \in WRequests .. WRequests + Cardinality(Conns) - 1
=============================================================================
