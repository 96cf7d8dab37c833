---------------------------- MODULE FileRequests -----------------------------
(***************************************************************************)
(* src/node_file.cc: every method checks its arguments and then either has *)
(* libuv's threads do the call, with After to answer, or does it at once.  *)
(* lib/fs.js is the caller: the function it gives a read or a write refers *)
(* to the buffer.  One buffer is used; lengths are not negative.           *)
(***************************************************************************)
EXTENDS Naturals, Sequences

CONSTANTS
  FsReqs,         \* calls
  BufferLength    \* buffer_length

VARIABLES
  fst,      \* fst[r]: where the call is
  fop,      \* fop[r]: its fs_type, while the request lives
  fspan,    \* fspan[r]: off and len of a read or a write
  fresult,  \* fresult[r]: req->result: "none" yet, "ok" or "failed"
  fpath,    \* fpath[r]: req->path is set
  ftold,    \* ftold[r]: how the caller was answered: "thrown", "returned", "called"
  fargs,    \* fargs[r]: what the callback that runs was given
  fbuffer,  \* "held" by JavaScript, "dropped" by it, or "freed" by the collector
  fjs       \* calls whose callback runs, innermost first

fsvars == <<fst, fop, fspan, fresult, fpath, ftold, fargs, fbuffer, fjs>>

WholeOps == {"close", "rename", "unlink", "rmdir", "mkdir", "ftruncate", "fsync", "fdatasync",
             "link", "symlink", "chmod", "fchmod", "chown", "fchown"}
TimeOps == {"utime", "futime"}
NumberOps == {"open", "write", "read"}
StatOps == {"stat", "lstat", "fstat"}
Ops == WholeOps \cup TimeOps \cup NumberOps \cup StatOps \cup {"readlink", "readdir"}
FdOps == {"close", "fstat", "ftruncate", "fdatasync", "fsync", "write", "read", "fchmod",
          "fchown", "futime"}
Data == {"read", "write"}

NoSpan == [off |-> 0, len |-> 0]

(* An exception, which names the path or none.                             *)
Error(path) == <<"error", path>>
(* What a method returns that was given no callback.                       *)
Kind(op) ==
  CASE op \in NumberOps -> "number" [] op \in StatOps -> "stats"
    [] op = "readlink" -> "string" [] op = "readdir" -> "names" [] OTHER -> "nothing"

Init ==
  /\ fst = [r \in FsReqs |-> "none"] /\ fop = [r \in FsReqs |-> "none"]
  /\ fspan = [r \in FsReqs |-> NoSpan] /\ fresult = [r \in FsReqs |-> "none"]
  /\ fpath = [r \in FsReqs |-> FALSE] /\ ftold = [r \in FsReqs |-> <<>>]
  /\ fargs = [r \in FsReqs |-> <<>>] /\ fbuffer = "held" /\ fjs = <<>>

-----------------------------------------------------------------------------
(* After's arguments.  The times have none, not even for no error.         *)
AfterArgs(op, result, path) ==
  CASE result = "failed" -> <<Error(path)>>
    [] result # "failed" /\ op \in WholeOps -> <<"null">>
    [] result # "failed" /\ op \in TimeOps -> <<>>
    [] OTHER -> <<"null", Kind(op)>>

(* The request is made, and the callback set when libuv has taken it.      *)
AsyncCall(r, op, span) ==
  /\ fst' = [fst EXCEPT ![r] = "working"] /\ fop' = [fop EXCEPT ![r] = op]
  /\ fspan' = [fspan EXCEPT ![r] = span] /\ fpath' = [fpath EXCEPT ![r] = op \notin FdOps]
  /\ UNCHANGED <<fresult, ftold, fargs, fbuffer, fjs>>

(* libuv cannot: After runs before the method returns.                     *)
AsyncFails(r, op) ==
  /\ fst' = [fst EXCEPT ![r] = "answering"] /\ fop' = [fop EXCEPT ![r] = op]
  /\ fresult' = [fresult EXCEPT ![r] = "failed"]
  /\ ftold' = [ftold EXCEPT ![r] = Append(@, "called")]
  /\ fargs' = [fargs EXCEPT ![r] = AfterArgs(op, "failed", FALSE)]
  /\ fjs' = <<r>> \o fjs
  /\ UNCHANGED <<fspan, fpath, fbuffer>>

Told(r, how) == fst' = [fst EXCEPT ![r] = "over"] /\ ftold' = [ftold EXCEPT ![r] = Append(@, how)]

(* fs_req_wrap's destructor cleans up, on a throw as on a return.          *)
SyncCall(r) ==
  /\ Told(r, "thrown") \/ Told(r, "returned")
  /\ UNCHANGED <<fop, fspan, fresult, fpath, fargs, fbuffer, fjs>>

BadArgs(r) ==
  /\ Told(r, "thrown")
  /\ UNCHANGED <<fop, fspan, fresult, fpath, fargs, fbuffer, fjs>>

Method(r, op, span) == AsyncCall(r, op, span) \/ AsyncFails(r, op) \/ SyncCall(r)

Does(r, op) == fst[r] = "none" /\ (BadArgs(r) \/ Method(r, op, NoSpan))

Close(r) == Does(r, "close")
Stat(r) == Does(r, "stat")
LStat(r) == Does(r, "lstat")
FStat(r) == Does(r, "fstat")
Symlink(r) == Does(r, "symlink")
Link(r) == Does(r, "link")
ReadLink(r) == Does(r, "readlink")
Rename(r) == Does(r, "rename")
FTruncate(r) == Does(r, "ftruncate")
Fdatasync(r) == Does(r, "fdatasync")
Fsync(r) == Does(r, "fsync")
Unlink(r) == Does(r, "unlink")
RMDir(r) == Does(r, "rmdir")
MKDir(r) == Does(r, "mkdir")
ReadDir(r) == Does(r, "readdir")
Open(r) == Does(r, "open")
Chmod(r) == Does(r, "chmod")
FChmod(r) == Does(r, "fchmod")
Chown(r) == Does(r, "chown")
FChown(r) == Does(r, "fchown")
UTimes(r) == Does(r, "utime")
FUTimes(r) == Does(r, "futime")

OutOfBounds(span) == span.off >= BufferLength \/ span.off + span.len > BufferLength

(* Write and Read: the caller has the buffer, so JavaScript holds it.      *)
Transfer(r, op) ==
  /\ fst[r] = "none" /\ fbuffer = "held"
  /\ \E span \in [off : 0..BufferLength, len : 0..BufferLength + 1] :
       \/ OutOfBounds(span) /\ BadArgs(r)
       \/ ~OutOfBounds(span) /\ Method(r, op, span)

Write(r) == Transfer(r, "write")
Read(r) == Transfer(r, "read")

-----------------------------------------------------------------------------
(* A thread has made the call, well or not, and the loop calls After.      *)
After(r, res) ==
  /\ fst[r] = "working" /\ fjs = <<>>
  /\ fst' = [fst EXCEPT ![r] = "answering"] /\ fresult' = [fresult EXCEPT ![r] = res]
  /\ ftold' = [ftold EXCEPT ![r] = Append(@, "called")]
  /\ fargs' = [fargs EXCEPT ![r] = AfterArgs(fop[r], res, fpath[r])]
  /\ fjs' = <<r>>
  /\ UNCHANGED <<fop, fspan, fpath, fbuffer>>

(* The callback returns; the request is cleaned up and deleted.            *)
Cleanup ==
  /\ fjs # <<>> /\ LET r == Head(fjs) IN
       /\ fst' = [fst EXCEPT ![r] = "over"] /\ fop' = [fop EXCEPT ![r] = "none"]
       /\ fspan' = [fspan EXCEPT ![r] = NoSpan] /\ fargs' = [fargs EXCEPT ![r] = <<>>]
       /\ fresult' = [fresult EXCEPT ![r] = "none"]
       /\ fpath' = [fpath EXCEPT ![r] = FALSE]
  /\ fjs' = Tail(fjs)
  /\ UNCHANGED <<ftold, fbuffer>>

Drop ==
  /\ fbuffer = "held" /\ fbuffer' = "dropped"
  /\ UNCHANGED <<fst, fop, fspan, fresult, fpath, ftold, fargs, fjs>>

(* Slip: the function given to the request does not refer to the buffer.   *)
CollectEarly ==
  /\ fbuffer = "dropped" /\ fbuffer' = "freed"
  /\ UNCHANGED <<fst, fop, fspan, fresult, fpath, ftold, fargs, fjs>>

(* object_ is persistent, has the function, and that has the buffer.       *)
Collect ==
  /\ fbuffer = "dropped"
  /\ \A r \in FsReqs : fst[r] \in {"none", "over"} \/ fop[r] \notin Data
  /\ fbuffer' = "freed"
  /\ UNCHANGED <<fst, fop, fspan, fresult, fpath, ftold, fargs, fjs>>

OnPaths(r) ==
  \/ Stat(r) \/ LStat(r) \/ Symlink(r) \/ Link(r) \/ ReadLink(r) \/ Rename(r) \/ Unlink(r)
  \/ RMDir(r) \/ MKDir(r) \/ ReadDir(r) \/ Open(r) \/ Chmod(r) \/ Chown(r) \/ UTimes(r)
OnFds(r) ==
  \/ Close(r) \/ FStat(r) \/ FTruncate(r) \/ Fdatasync(r) \/ Fsync(r) \/ FChmod(r) \/ FChown(r)
  \/ FUTimes(r) \/ Write(r) \/ Read(r)

Next ==
  \/ \E r \in FsReqs : OnPaths(r) \/ OnFds(r)
                         \/ After(r, "ok") \/ After(r, "failed")
  \/ Cleanup \/ Drop \/ Collect

Spec == Init /\ [][Next]_fsvars

-----------------------------------------------------------------------------
TypeOK ==
  /\ fst \in [FsReqs -> {"none", "working", "answering", "over"}]
  /\ fop \in [FsReqs -> Ops \cup {"none"}]
  /\ fspan \in [FsReqs -> [off : 0..BufferLength, len : 0..BufferLength]]
  /\ fresult \in [FsReqs -> {"none", "ok", "failed"}] /\ fpath \in [FsReqs -> BOOLEAN]
  /\ \A r \in FsReqs : Len(ftold[r]) <= 1
  /\ \A r \in FsReqs : Len(fargs[r]) <= 2
  /\ fbuffer \in {"held", "dropped", "freed"}

(* A call is answered once: by the exception, the value or the callback.   *)
OneAnswer ==
  \A r \in FsReqs :
    /\ Len(ftold[r]) = (IF fst[r] \in {"answering", "over"} THEN 1 ELSE 0)
    /\ fst[r] = "answering" <=> \E i \in DOMAIN fjs : fjs[i] = r

(* A callback is given what the method returns without one, or an error    *)
(* that names the path, if libuv still had it.                             *)
AsyncAsSync ==
  \A r \in FsReqs : fst[r] = "answering" => LET args == fargs[r] IN
    IF fresult[r] = "ok"
    THEN Kind(fop[r]) = (IF Len(args) = 2 THEN args[2] ELSE "nothing")
    ELSE args = <<Error(fpath[r])>>

(* The memory a thread reads or writes is there, and in the buffer.        *)
InsideBuffer ==
  \A r \in FsReqs : fst[r] = "working" /\ fop[r] \in Data =>
    fbuffer # "freed" /\ fspan[r].off + fspan[r].len <= BufferLength

(* Together (src/node_file.cc): a caller of fs gets one answer, with       *)
(* memory that is its own all the while.                                   *)
FilesAnswered == OneAnswer /\ AsyncAsSync /\ InsideBuffer
=============================================================================
