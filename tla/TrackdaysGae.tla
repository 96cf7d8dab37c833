----------------------------- MODULE TrackdaysGae ---------------------------
(***************************************************************************)
(* The App Engine site that holds the list of track days: /update of       *)
(* src/main/python/src/trackdays.py.  A POST deletes every stored list and *)
(* stores its own.  Nothing is transactional, and POSTs are handled by     *)
(* several instances at once.                                              *)
(*                                                                         *)
(* The datastore is external: a put or delete is done when it returns, but *)
(* a query reads an index that follows the table with some delay.          *)
(* An entity is named after the POST that put it.                          *)
(***************************************************************************)
EXTENDS FiniteSets

CONSTANT Posts

VARIABLES
  table,    \* the entities of kind Trackday
  indexed,  \* those the next query will return
  handler,  \* handler[q]: how far the handler of POST q is
  seen,     \* seen[q]: what its query returned and it has yet to delete
  before,   \* history: before[q]: the POSTs that had ended when q's query ran
  missed    \* history: missed[q]: entities in the table that it did not return

gaeVars == <<table, indexed, handler, seen, before, missed>>

Stored == {q \in Posts : handler[q] = "done"}

(* s = Trackday.query()                                                    *)
Query(q) ==
  /\ handler[q] = "new"
  /\ handler' = [handler EXCEPT ![q] = "deleting"]
  /\ seen' = [seen EXCEPT ![q] = indexed]
  /\ before' = [before EXCEPT ![q] = Stored]
  /\ missed' = [missed EXCEPT ![q] = table \ indexed]
  /\ UNCHANGED <<table, indexed>>

(* Slip: delete whatever the table holds by now.                           *)
ToDeleteNow(q) == table

ToDelete(q) == seen[q]

(* _s.key.delete(); an entity that is gone may be deleted again.           *)
Delete(q, e) ==
  /\ handler[q] = "deleting" /\ e \in ToDelete(q)
  /\ table' = table \ {e}
  /\ seen' = [seen EXCEPT ![q] = @ \ {e}]
  /\ UNCHANGED <<indexed, handler, before, missed>>

(* Slip: the first list is never stored, only replaced.                    *)
PutIfStored(q) ==
  /\ handler[q] = "deleting" /\ seen[q] = {}
  /\ handler' = [handler EXCEPT ![q] = "done"]
  /\ table' = IF before[q] # {} THEN table \cup {q} ELSE table
  /\ UNCHANGED <<indexed, seen, before, missed>>

(* Slip: put without waiting for the deletes.                              *)
PutAtOnce(q) ==
  /\ handler[q] = "deleting"
  /\ handler' = [handler EXCEPT ![q] = "done"]
  /\ table' = table \cup {q}
  /\ UNCHANGED <<indexed, seen, before, missed>>

(* trackday.put()                                                          *)
Put(q) ==
  /\ handler[q] = "deleting" /\ seen[q] = {}
  /\ handler' = [handler EXCEPT ![q] = "done"]
  /\ table' = table \cup {q}
  /\ UNCHANGED <<indexed, seen, before, missed>>

(* The handler raises, or runs out of its deadline.                        *)
Fail(q) ==
  /\ handler[q] = "deleting"
  /\ handler' = [handler EXCEPT ![q] = "failed"]
  /\ UNCHANGED <<table, indexed, seen, before, missed>>

(* The index catches up with one entity.                                   *)
CatchUp(e) ==
  /\ indexed' = IF e \in table THEN indexed \cup {e} ELSE indexed \ {e}
  /\ indexed' # indexed
  /\ UNCHANGED <<table, handler, seen, before, missed>>

GaeInit ==
  /\ table = {} /\ indexed = {}
  /\ handler = [q \in Posts |-> "new"]
  /\ seen = [q \in Posts |-> {}]
  /\ before = [q \in Posts |-> {}] /\ missed = [q \in Posts |-> {}]

GaeNext ==
  \/ \E q \in Posts : Query(q) \/ Put(q) \/ Fail(q)
  \/ \E q, e \in Posts : Delete(q, e)
  \/ \E e \in Posts : CatchUp(e)

GaeSpec == GaeInit /\ [][GaeNext]_gaeVars

-----------------------------------------------------------------------------
GaeTypeOK ==
  /\ table \subseteq Stored /\ indexed \subseteq Posts
  /\ handler \in [Posts -> {"new", "deleting", "done", "failed"}]
  /\ seen \in [Posts -> SUBSET Posts]
  /\ before \in [Posts -> SUBSET Posts] /\ missed \in [Posts -> SUBSET Posts]
  /\ \A q \in Posts : q \notin before[q] /\ q \notin seen[q]

(* Handlers at work side by side may leave several lists, but they do not  *)
(* delete one another's: a list that was stored goes only for a POST whose *)
(* handling began after it was stored (UpdatePage.post).                   *)
KeptUntilSuperseded ==
  \A e \in Stored \ table : \E q \in Posts : e \in before[q]

(* Once a later POST is done, an older list is gone, unless the index did  *)
(* not show it to that POST's query.                                       *)
SupersededGone ==
  \A q \in Stored : \A e \in before[q] \cap table : e \in missed[q]

(* Between the deletes and the put the site has no list, and a handler     *)
(* that fails there leaves it so.  Nothing else does.                      *)
EmptyOnlyMidway ==
  table = {} => \/ Stored = {}
                \/ \E q \in Posts : handler[q] \in {"deleting", "failed"}
=============================================================================
