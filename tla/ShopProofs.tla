----------------------------- MODULE ShopProofs -----------------------------
(***************************************************************************)
(* Theorems about Shop, for any requests, shoppers, products and           *)
(* quantities.                                                             *)
(***************************************************************************)
EXTENDS Shop, TLAPS, FiniteSetTheorems

(* What a request has in its locals at each stage.                         *)
Staged ==
  \A r \in Reqs : Running(r) =>
    /\ req[r].view \in ProductViews => req[r].product \in Products
    /\ pc[r] # "open" => req[r].cart \in Bags
    /\ pc[r] \in {"get", "insert", "save"} => req[r].view = "add_to_cart"
    /\ pc[r] = "save" => req[r].got \in [id : Reqs, quantity : Nat]
    /\ pc[r] = "sent" => req[r].key \in Reqs

TInv == TypeOK /\ Staged

LEMMA InitTInv == Init => TInv
BY ShopAssumption DEF Init, TInv, TypeOK, Staged, Running, Over, Stages

LocalsOK ==
  /\ pc \in [Reqs -> Stages]
  /\ \A q \in Reqs : pc[q] = "new" <=> browser[q] = None
  /\ req \in [Reqs -> Request \cup {None}]
  /\ \A q \in Reqs : IF Running(q) THEN req[q] \in Request ELSE req[q] = None
  /\ Staged

(* An action that changes one request's locals to a proper record.         *)
LEMMA TypedStep ==
  ASSUME TInv, NEW r \in Reqs, NEW stage \in Stages \ {"new"},
         Running(r), Goes(r, stage), UNCHANGED browser,
         \/ /\ stage \notin Over
            /\ \E u \in Request :
                 /\ req' = [req EXCEPT ![r] = u]
                 /\ u.view \in ProductViews => u.product \in Products
                 /\ stage # "open" => u.cart \in Bags
                 /\ stage \in {"get", "insert", "save"} => u.view = "add_to_cart"
                 /\ stage = "save" => u.got \in [id : Reqs, quantity : Nat]
                 /\ stage = "sent" => u.key \in Reqs
         \/ stage \in Over /\ req' = [req EXCEPT ![r] = None]
  PROVE  LocalsOK'
BY DEF TInv, TypeOK, LocalsOK, Staged, Goes, Running, Over, Stages

LEMMA NextTInv == TInv /\ [Next]_vars => TInv'
<1> SUFFICES ASSUME TInv, [Next]_vars PROVE TInv'
  OBVIOUS
<1> USE DEF TInv
<1>1. ASSUME NEW r \in Reqs, NEW b \in Browsers, NEW view \in Views,
             NEW n \in Quantities, NEW p \in ProductOf(view),
             Arrive(r, b, view, p, n)
      PROVE  TInv'
  <2>1. CASE view \in ProductViews /\ p \notin catalog
    BY <1>1, <2>1, ShopAssumption
    DEF Arrive, Ends, Goes, TypeOK, Staged, Running, Over, Stages, serverVars
  <2>2. CASE ~(view \in ProductViews /\ p \notin catalog)
    <3> DEFINE u == [view |-> view, product |-> p, quantity |-> n,
                     key |-> cookie[b], cart |-> None, modified |-> FALSE,
                     got |-> None, todo |-> {}]
    <3>1. /\ u \in Request
          /\ u.view \in ProductViews => u.product \in Products
      BY DEF Request, TypeOK, ProductOf
    <3>2. req' = [req EXCEPT ![r] = u] /\ Goes(r, "open")
      BY <1>1, <2>2 DEF Arrive
    <3> HIDE DEF u
    <3> QED
      BY <1>1, <3>1, <3>2, ShopAssumption
      DEF Arrive, Goes, TypeOK, Staged, Running, Over, Stages, serverVars
  <2> QED
    BY <2>1, <2>2
<1>2. ASSUME NEW r \in Reqs, OpenCart(r) PROVE TInv'
  <2> DEFINE lapsed == req[r].key # None /\ req[r].key \notin live
             bag == IF req[r].key \in live THEN stored[req[r].key] ELSE None
             mine == IF bag = None THEN NewBag(r, 1) ELSE bag
             u == [req[r] EXCEPT !.key = IF lapsed THEN r ELSE @,
                                 !.cart = mine, !.modified = (bag = None)]
  <2>1. Running(r) /\ req[r] \in Request
    BY <1>2 DEF OpenCart, Running, Over, TypeOK
  <2>2. mine \in Bags
    BY DEF NewBag, Bags, TypeOK
  <2>3. u \in Request /\ u.view = req[r].view /\ u.product = req[r].product
        /\ u.cart = mine
    BY <2>1, <2>2 DEF Request
  <2>4. req' = [req EXCEPT ![r] = u]
    BY <1>2, <2>1 DEF OpenCart, TypeOK, Request
  <2>5. AfterOpen(req[r].view) \in {"get", "find", "list", "reply"}
        /\ (AfterOpen(req[r].view) = "get" => req[r].view = "add_to_cart")
    BY DEF AfterOpen
  <2>6. /\ live' \subseteq Reqs
        /\ twice' \subseteq Bags \X Products
        /\ UNCHANGED <<catalog, stored, item, cookie, browser, calm, expected>>
    BY <1>2, <2>1, <2>2 DEF OpenCart, TypeOK, Staged, ProductViews
  <2> HIDE DEF lapsed, bag, mine, u
  <2>7. Goes(r, AfterOpen(req[r].view))
    BY <1>2 DEF OpenCart
  <2>8. LocalsOK'
    BY <2>1, <2>2, <2>3, <2>4, <2>5, <2>6, <2>7, TypedStep
    DEF Staged, Stages, Over
  <2> QED
    BY <2>6, <2>8 DEF TypeOK, LocalsOK
<1>3. ASSUME NEW r \in Reqs, GetItem(r) PROVE TInv'
  <2>1. Running(r) /\ req[r] \in Request /\ UNCHANGED browser
    BY <1>3 DEF GetItem, Running, Over, TypeOK
  <2>2. CASE UNCHANGED req /\ Goes(r, "insert")
    BY <1>3, <2>1, <2>2, TypedStep DEF GetItem, TypeOK, LocalsOK, Staged, Stages, Over,
       serverVars, history
  <2>3. CASE Ends(r, "failed")
    BY <1>3, <2>1, <2>3, TypedStep DEF GetItem, Ends, TypeOK, LocalsOK, Stages, Over,
       serverVars, history
  <2>4. ASSUME NEW i \in Matches(r), Goes(r, "save"),
               req' = [req EXCEPT ![r].got =
                         [id |-> i, quantity |-> item[i].quantity]]
        PROVE  TInv'
    <3> DEFINE g == [id |-> i, quantity |-> item[i].quantity]
               u == [req[r] EXCEPT !.got = g]
    <3>1. g \in [id : Reqs, quantity : Nat]
      BY DEF Matches, ItemsOf, TypeOK, ItemRow
    <3>2. /\ u \in Request /\ u.got = g
          /\ u.view = req[r].view /\ u.product = req[r].product
          /\ u.cart = req[r].cart
      BY <2>1, <3>1 DEF Request
    <3>3. req' = [req EXCEPT ![r] = u]
      BY <2>4, <2>1 DEF TypeOK, Request
    <3> HIDE DEF g, u
    <3>4. pc[r] = "get"
      BY <1>3 DEF GetItem
    <3>5. LocalsOK'
      BY <2>1, <2>4, <3>1, <3>2, <3>3, <3>4, TypedStep DEF Staged, Stages, Over
    <3> QED
      BY <1>3, <3>5 DEF GetItem, TypeOK, LocalsOK, serverVars, history
  <2> QED
    BY <1>3, <2>2, <2>3, <2>4 DEF GetItem
<1>4. ASSUME NEW r \in Reqs, InsertItem(r) PROVE TInv'
  <2>1. Running(r) /\ req[r] \in Request /\ UNCHANGED <<browser, req>>
    BY <1>4 DEF InsertItem, Running, Over, TypeOK
  <2>2. item' \in [Reqs -> ItemRow \cup {None}]
    <3>1. Row(r, req[r].quantity) \in ItemRow
      BY <1>4, <2>1, ShopAssumption DEF InsertItem, Row, ItemRow, Request,
         Staged, ProductViews
    <3> QED
      BY <1>4, <3>1 DEF InsertItem, TypeOK
  <2> QED
    BY <1>4, <2>1, <2>2, TypedStep
    DEF InsertItem, TypeOK, LocalsOK, Staged, Stages, Over, history
<1>5. ASSUME NEW r \in Reqs, SaveItem(r) PROVE TInv'
  <2>1. Running(r) /\ req[r] \in Request /\ UNCHANGED <<browser, req>>
    BY <1>5 DEF SaveItem, Running, Over, TypeOK
  <2>2. item' \in [Reqs -> ItemRow \cup {None}]
    <3>1. Row(r, req[r].got.quantity + 1) \in ItemRow
      BY <1>5, <2>1 DEF SaveItem, Row, ItemRow, Request, Staged, ProductViews
    <3> QED
      BY <1>5, <3>1 DEF SaveItem, TypeOK
  <2> QED
    BY <1>5, <2>1, <2>2, TypedStep
    DEF SaveItem, TypeOK, LocalsOK, Staged, Stages, Over, history
<1>6. ASSUME NEW r \in Reqs, FindItem(r) \/ ListItems(r) PROVE TInv'
  <2>1. Running(r) /\ req[r] \in Request /\ UNCHANGED browser
    BY <1>6 DEF FindItem, ListItems, Running, Over, TypeOK
  <2>2. CASE Ends(r, "failed")
    BY <1>6, <2>1, <2>2, TypedStep DEF FindItem, ListItems, Ends, TypeOK, LocalsOK,
       Stages, Over, serverVars, history
  <2>3. ASSUME NEW found \in SUBSET Reqs, Goes(r, "delete"),
               req' = [req EXCEPT ![r].todo = found]
        PROVE  TInv'
    <3> DEFINE u == [req[r] EXCEPT !.todo = found]
    <3>1. /\ u \in Request
          /\ u.view = req[r].view /\ u.product = req[r].product
          /\ u.cart = req[r].cart
      BY <2>1 DEF Request
    <3>2. req' = [req EXCEPT ![r] = u]
      BY <2>3, <2>1 DEF TypeOK, Request
    <3> HIDE DEF u
    <3>3. pc[r] \in {"find", "list"}
      BY <1>6 DEF FindItem, ListItems
    <3>4. LocalsOK'
      BY <2>1, <2>3, <3>1, <3>2, <3>3, TypedStep DEF Staged, Stages, Over
    <3> QED
      BY <1>6, <3>4
      DEF FindItem, ListItems, TypeOK, LocalsOK, serverVars, history
  <2> QED
    BY <1>6, <2>2, <2>3 DEF FindItem, ListItems, Matches, ItemsOf
<1>7. ASSUME NEW r \in Reqs, NEW i \in Reqs, DeleteItem(r, i) PROVE TInv'
  <2> DEFINE u == [req[r] EXCEPT !.todo = @ \ {i}]
  <2>1. Running(r) /\ req[r] \in Request
    BY <1>7 DEF DeleteItem, Running, Over, TypeOK
  <2>2. /\ u \in Request
        /\ u.view = req[r].view /\ u.product = req[r].product
        /\ u.cart = req[r].cart
    BY <2>1 DEF Request
  <2>3. req' = [req EXCEPT ![r] = u]
    BY <1>7, <2>1 DEF DeleteItem, TypeOK, Request
  <2>4. UNCHANGED <<catalog, live, stored, cookie, browser, pc, history>>
        /\ pc[r] = "delete"
    BY <1>7 DEF DeleteItem
  <2>5. Goes(r, "delete")
    BY <2>4 DEF Goes, TypeOK
  <2>6. item' \in [Reqs -> ItemRow \cup {None}]
    BY <1>7 DEF DeleteItem, TypeOK
  <2> HIDE DEF u
  <2> QED
    BY <2>1, <2>2, <2>3, <2>4, <2>5, <2>6, TypedStep
    DEF TypeOK, LocalsOK, Staged, Stages, Over, history
<1>8. ASSUME NEW r \in Reqs, Deleted(r) PROVE TInv'
  <2> DEFINE u == IF req[r].view = "clear_cart"
                    THEN [req[r] EXCEPT !.cart = NewBag(r, 2), !.modified = TRUE]
                    ELSE req[r]
  <2>1. Running(r) /\ req[r] \in Request /\ NewBag(r, 2) \in Bags
    BY <1>8 DEF Deleted, Running, Over, TypeOK, NewBag, Bags
  <2>2. /\ u \in Request /\ u.cart \in Bags
        /\ u.view = req[r].view /\ u.product = req[r].product
    BY <1>8, <2>1 DEF Request, Deleted, Staged
  <2>3. req' = [req EXCEPT ![r] = u]
    BY <1>8, <2>1 DEF Deleted, TypeOK, Request
  <2> HIDE DEF u
  <2> QED
    BY <1>8, <2>1, <2>2, <2>3, TypedStep
    DEF Deleted, TypeOK, LocalsOK, Staged, Stages, Over, serverVars, history
<1>9. ASSUME NEW r \in Reqs, Running(r), pc[r] # "open"
      PROVE  browser[r] \in Browsers /\ Wanted(r) \in SUBSET Content
  <2>1. req[r] \in Request /\ browser[r] \in Browsers
    BY <1>9 DEF TypeOK, Running, Over
  <2>2. expected[browser[r]] \in SUBSET Content
    BY <2>1 DEF TypeOK
  <2>3. \A e \in Content : [e EXCEPT !.quantity = @ + 1] \in Content
    BY DEF Content
  <2>4. req[r].view = "add_to_cart" =>
          [product |-> req[r].product, quantity |-> req[r].quantity] \in Content
    BY <1>9, <2>1, ShopAssumption DEF Staged, Request, Content, ProductViews
  <2> QED
    BY <2>1, <2>2, <2>3, <2>4 DEF Wanted
<1>10. ASSUME NEW r \in Reqs, Reply(r) PROVE TInv'
  <2>1. /\ Running(r) /\ req[r] \in Request /\ UNCHANGED browser
        /\ SaveKey(r) \in Reqs
    BY <1>10 DEF Reply, Running, Over, TypeOK, SaveKey, Request
  <2>2. CASE Ends(r, "done") /\ Fulfil(r) /\ UNCHANGED <<live, stored>>
    <3>1. expected' \in [Browsers -> SUBSET Content]
      BY <1>9, <1>10, <2>1, <2>2 DEF Reply, Fulfil, TypeOK
    <3> QED
      BY <1>10, <2>1, <2>2, <3>1, TypedStep
      DEF Reply, Ends, TypeOK, LocalsOK, Stages, Over
  <2>3. CASE /\ Goes(r, "sent") /\ UNCHANGED expected
             /\ req' = [req EXCEPT ![r].key = SaveKey(r)]
             /\ live' = live \cup {SaveKey(r)}
             /\ stored' = [stored EXCEPT ![SaveKey(r)] = req[r].cart]
    <3> DEFINE u == [req[r] EXCEPT !.key = SaveKey(r)]
    <3>1. /\ u \in Request /\ u.key \in Reqs
          /\ u.view = req[r].view /\ u.product = req[r].product
          /\ u.cart = req[r].cart
      BY <2>1 DEF Request
    <3>2. req' = [req EXCEPT ![r] = u]
      BY <2>1, <2>3 DEF TypeOK, Request
    <3>3. stored' \in [Reqs -> Bags \cup {None}] /\ live' \subseteq Reqs
      BY <2>1, <2>3 DEF TypeOK, Request
    <3> HIDE DEF u
    <3> QED
      BY <1>10, <2>1, <2>3, <3>1, <3>2, <3>3, TypedStep
      DEF Reply, TypeOK, LocalsOK, Staged, Stages, Over
  <2> QED
    BY <1>10, <2>2, <2>3 DEF Reply
<1>11. ASSUME NEW r \in Reqs, Receive(r) PROVE TInv'
  <2>1. Running(r) /\ req[r] \in Request /\ req[r].key \in Reqs
    BY <1>11 DEF Receive, Running, Over, TypeOK, Staged
  <2>2. expected' \in [Browsers -> SUBSET Content]
        /\ cookie' \in [Browsers -> Reqs \cup {None}]
    BY <1>9, <1>11, <2>1 DEF Receive, Fulfil, TypeOK
  <2> QED
    BY <1>11, <2>1, <2>2, TypedStep
    DEF Receive, Ends, TypeOK, LocalsOK, Stages, Over, serverVars
<1>12. ASSUME NEW r \in Reqs, Fail(r) PROVE TInv'
  BY <1>12, TypedStep
  DEF Fail, Ends, TypeOK, LocalsOK, Stages, Over, serverVars
<1>13. ASSUME \/ \E p \in Products : Withdraw(p)
              \/ \E k \in Reqs : Expire(k)
              \/ \E b \in Browsers : Forget(b)
       PROVE  TInv'
  <2>1. UNCHANGED <<item, stored, requestVars, twice>>
    BY <1>13 DEF Withdraw, Expire, Forget, Emptied, serverVars, history
  <2>2. /\ catalog' \subseteq Products /\ live' \subseteq Reqs
        /\ cookie' \in [Browsers -> Reqs \cup {None}]
        /\ calm' \subseteq Browsers
        /\ expected' \in [Browsers -> SUBSET Content]
    BY <1>13 DEF Withdraw, Expire, Forget, Emptied, serverVars, history, TypeOK
  <2> QED
    BY <2>1, <2>2 DEF requestVars, TypeOK, Staged, Running
<1>14. CASE UNCHANGED vars
  BY <1>14 DEF vars, serverVars, requestVars, history, TypeOK, Staged, Running
<1> QED
  BY <1>1, <1>2, <1>3, <1>4, <1>5, <1>6, <1>7, <1>8, <1>10, <1>11, <1>12, <1>13,
     <1>14 DEF Next, Serve

(* Type correctness: every row, session, cookie and request's local stays  *)
(* well formed (Cart and its views).                                       *)
THEOREM TypeCorrect == Spec => []TypeOK
<1>1. TInv => TypeOK
  BY DEF TInv
<1> QED
  BY InitTInv, NextTInv, <1>1, PTL DEF Spec

-----------------------------------------------------------------------------
(* Everything a request can reach was created by a request of the same     *)
(* browser: rows bear the name of the request that created them.           *)

By(b, r) == r \in Reqs /\ browser[r] = b
BagBy(b, bag) == bag \in Bags /\ browser[bag[1]] = b

OwnedRows ==
  /\ \A b \in Browsers : cookie[b] # None => By(b, cookie[b])
  /\ \A k \in Reqs : stored[k] # None =>
       browser[k] # None /\ BagBy(browser[k], stored[k])
  /\ \A i \in Reqs : item[i] # None =>
       browser[i] # None /\ BagBy(browser[i], item[i].bag)

OwnedLocals ==
  \A r \in Reqs : Running(r) =>
    /\ req[r].key # None => By(browser[r], req[r].key)
    /\ req[r].cart # None => BagBy(browser[r], req[r].cart)
    /\ pc[r] = "save" => By(browser[r], req[r].got.id)
    /\ \A i \in req[r].todo : By(browser[r], i)

Owned == OwnedRows /\ OwnedLocals

OInv == TInv /\ Owned

LEMMA InitOInv == Init => OInv
BY InitTInv DEF OInv, Owned, OwnedRows, OwnedLocals, Init, Running, Over

(* A request's step that keeps its browser and leaves it with locals of    *)
(* that browser, or ends it.                                               *)
LEMMA OwnedStep ==
  ASSUME OInv, NEW r \in Reqs, NEW u, UNCHANGED browser,
         req' = [req EXCEPT ![r] = u],
         \A q \in Reqs \ {r} : pc'[q] = pc[q],
         Running(r)' =>
           /\ u.key # None => By(browser[r], u.key)
           /\ u.cart # None => BagBy(browser[r], u.cart)
           /\ pc'[r] = "save" => By(browser[r], u.got.id)
           /\ \A i \in u.todo : By(browser[r], i)
  PROVE  OwnedLocals'
BY DEF OInv, TInv, TypeOK, Owned, OwnedLocals, By, BagBy, Running

LEMMA NextOInv == OInv /\ [Next]_vars => OInv'
<1> SUFFICES ASSUME OInv, [Next]_vars PROVE OInv'
  OBVIOUS
<1>0. TInv'
  BY NextTInv DEF OInv
<1> SUFFICES Owned'
  BY <1>0 DEF OInv
<1> USE DEF OInv, TInv
<1>1. ASSUME NEW r \in Reqs, NEW b \in Browsers, NEW view \in Views,
             NEW n \in Quantities, NEW p \in ProductOf(view),
             Arrive(r, b, view, p, n)
      PROVE  Owned'
  <2>1. /\ browser[r] = None /\ browser' = [browser EXCEPT ![r] = b]
        /\ b # None /\ UNCHANGED <<serverVars, cookie>>
    BY <1>1, ShopAssumption DEF Arrive, TypeOK
  <2>2. \A c \in Browsers : \A q : By(c, q) => By(c, q)'
    BY <2>1, ShopAssumption DEF By, TypeOK
  <2>3. \A c \in Browsers : \A bag : BagBy(c, bag) => BagBy(c, bag)'
    BY <2>1, ShopAssumption DEF BagBy, Bags, TypeOK
  <2>4. OwnedRows'
    BY <2>1, <2>2, <2>3 DEF Owned, OwnedRows, serverVars, TypeOK
  <2>5. \A q \in Reqs \ {r} : req'[q] = req[q] /\ pc'[q] = pc[q]
                              /\ browser'[q] = browser[q]
                              /\ (Running(q) => browser[q] \in Browsers)
    BY <1>1, ShopAssumption DEF Arrive, Ends, Goes, TypeOK, Running, Over
  <2>6. Running(r)' =>
          req'[r] = [view |-> view, product |-> p, quantity |-> n,
                     key |-> cookie[b], cart |-> None, modified |-> FALSE,
                     got |-> None, todo |-> {}] /\ pc'[r] = "open"
    BY <1>1 DEF Arrive, Ends, Goes, TypeOK, Running, Over
  <2>7. cookie[b] # None => By(b, cookie[b])'
    BY <2>1, <2>2 DEF Owned, OwnedRows
  <2>8. browser'[r] = b
    BY <2>1 DEF TypeOK
  <2>9. ASSUME NEW q \in Reqs, Running(q)'
        PROVE  /\ req'[q].key # None => By(browser[q], req[q].key)'
               /\ req'[q].cart # None => BagBy(browser[q], req[q].cart)'
               /\ pc'[q] = "save" => By(browser[q], req[q].got.id)'
               /\ \A i \in req'[q].todo : By(browser[q], i)'
    <3>1. CASE q = r
      BY <2>1, <2>6, <2>7, <2>8, <2>9, <3>1 DEF By, BagBy
    <3>2. CASE q # r
      <4>1. Running(q) /\ browser[q] \in Browsers
        BY <2>5, <2>9, <3>2 DEF Running
      <4> QED
        BY <2>2, <2>3, <2>5, <3>2, <4>1 DEF Owned, OwnedLocals, By, BagBy
    <3> QED
      BY <3>1, <3>2
  <2> QED
    BY <2>4, <2>9 DEF Owned, OwnedLocals
<1>2. ASSUME NEW r \in Reqs, OpenCart(r) PROVE Owned'
  <2> DEFINE lapsed == req[r].key # None /\ req[r].key \notin live
             bag == IF req[r].key \in live THEN stored[req[r].key] ELSE None
             mine == IF bag = None THEN NewBag(r, 1) ELSE bag
             u == [req[r] EXCEPT !.key = IF lapsed THEN r ELSE @,
                                 !.cart = mine, !.modified = (bag = None)]
  <2>1. Running(r) /\ req[r] \in Request /\ browser[r] # None
    BY <1>2 DEF OpenCart, Running, Over, TypeOK
  <2>2. BagBy(browser[r], mine)
    <3>1. BagBy(browser[r], NewBag(r, 1))
      BY DEF BagBy, NewBag, Bags
    <3>2. bag # None => BagBy(browser[r], bag)
      BY <2>1, ShopAssumption DEF Owned, OwnedRows, OwnedLocals, By, TypeOK
    <3> QED
      BY <3>1, <3>2
  <2>3. /\ u.key = IF lapsed THEN r ELSE req[r].key
        /\ u.cart = mine /\ u.todo = req[r].todo
    BY <2>1 DEF Request
  <2>4. req' = [req EXCEPT ![r] = u]
    BY <1>2, <2>1 DEF OpenCart, TypeOK, Request
  <2>5. /\ pc'[r] # "save" /\ UNCHANGED <<stored, item, cookie, browser>>
        /\ \A q \in Reqs \ {r} : pc'[q] = pc[q]
    BY <1>2 DEF OpenCart, Goes, AfterOpen, TypeOK
  <2>6. OwnedRows'
    BY <2>5 DEF Owned, OwnedRows, By, BagBy
  <2>7. /\ u.key # None => By(browser[r], u.key)
        /\ \A i \in u.todo : By(browser[r], i)
    BY <2>1, <2>3 DEF Owned, OwnedLocals, By
  <2> HIDE DEF lapsed, bag, mine, u
  <2> QED
    BY <2>2, <2>3, <2>4, <2>5, <2>6, <2>7, OwnedStep DEF Owned
<1>3. ASSUME NEW r \in Reqs, GetItem(r) PROVE Owned'
  <2>1. Running(r) /\ req[r] \in Request
    BY <1>3 DEF GetItem, Running, Over, TypeOK
  <2>2. OwnedRows' /\ UNCHANGED browser
    BY <1>3 DEF GetItem, Owned, OwnedRows, By, BagBy, serverVars
  <2>3. CASE UNCHANGED req /\ Goes(r, "insert")
    BY <2>1, <2>2, <2>3
    DEF Owned, OwnedLocals, By, BagBy, Goes, Running, TypeOK
  <2>4. CASE Ends(r, "failed")
    BY <2>2, <2>4, OwnedStep DEF Ends, Goes, Running, Over, TypeOK, Owned
  <2>5. ASSUME NEW i \in Matches(r), Goes(r, "save"),
               req' = [req EXCEPT ![r].got =
                         [id |-> i, quantity |-> item[i].quantity]]
        PROVE  Owned'
    <3> DEFINE g == [id |-> i, quantity |-> item[i].quantity]
               u == [req[r] EXCEPT !.got = g]
    <3>1. /\ u.got.id = i /\ u.key = req[r].key
          /\ u.cart = req[r].cart /\ u.todo = req[r].todo
      BY <2>1 DEF Request
    <3>2. req' = [req EXCEPT ![r] = u]
      BY <2>5, <2>1 DEF TypeOK, Request
    <3>3. By(browser[r], i)
      <4>1. req[r].cart # None /\ item[i] # None /\ item[i].bag = req[r].cart
        BY <1>3, <2>1, ShopAssumption
        DEF Matches, ItemsOf, Staged, GetItem, Running, Over, Bags
      <4>2. i \in Reqs
        BY DEF Matches, ItemsOf
      <4> QED
        BY <2>1, <4>1, <4>2 DEF Owned, OwnedRows, OwnedLocals, By, BagBy
    <3>4. \A q \in Reqs \ {r} : pc'[q] = pc[q]
      BY <2>5 DEF Goes, TypeOK
    <3>5. OwnedLocals'
      <4> HIDE DEF g, u
      <4> QED
        BY <2>1, <2>2, <3>1, <3>2, <3>3, <3>4, OwnedStep DEF Owned, OwnedLocals
    <3> QED
      BY <2>2, <3>5 DEF Owned
  <2> QED
    BY <1>3, <2>3, <2>4, <2>5 DEF GetItem
<1>4. ASSUME NEW r \in Reqs, InsertItem(r) PROVE Owned'
  <2>1. /\ Running(r) /\ browser[r] # None /\ BagBy(browser[r], req[r].cart)
        /\ UNCHANGED <<stored, cookie, browser, req>>
    BY <1>4, ShopAssumption DEF InsertItem, Running, Over, TypeOK, Staged,
       Owned, OwnedLocals, Bags
  <2>2. item' = [item EXCEPT ![r] = Row(r, req[r].quantity)]
        /\ Row(r, req[r].quantity).bag = req[r].cart
    BY <1>4 DEF InsertItem, Row
  <2>3. OwnedRows'
    BY <2>1, <2>2 DEF Owned, OwnedRows, By, BagBy, TypeOK
  <2>4. OwnedLocals'
    BY <1>4, <2>1 DEF InsertItem, Goes, Owned, OwnedLocals, By, BagBy, Running,
       TypeOK
  <2> QED
    BY <2>3, <2>4 DEF Owned
<1>5. ASSUME NEW r \in Reqs, SaveItem(r) PROVE Owned'
  <2>1. /\ Running(r) /\ browser[r] # None /\ BagBy(browser[r], req[r].cart)
        /\ By(browser[r], req[r].got.id)
        /\ UNCHANGED <<stored, cookie, browser, req>>
    BY <1>5, ShopAssumption DEF SaveItem, Running, Over, TypeOK, Staged,
       Owned, OwnedLocals, Bags
  <2>2. item' = [item EXCEPT ![req[r].got.id] = Row(r, req[r].got.quantity + 1)]
        /\ Row(r, req[r].got.quantity + 1).bag = req[r].cart
    BY <1>5 DEF SaveItem, Row
  <2>3. OwnedRows'
    BY <2>1, <2>2 DEF Owned, OwnedRows, By, BagBy, TypeOK
  <2>4. OwnedLocals'
    BY <1>5, <2>1 DEF SaveItem, Goes, Owned, OwnedLocals, By, BagBy, Running,
       TypeOK
  <2> QED
    BY <2>3, <2>4 DEF Owned
<1>6. ASSUME NEW r \in Reqs, FindItem(r) \/ ListItems(r) PROVE Owned'
  <2>1. Running(r) /\ req[r] \in Request /\ req[r].cart \in Bags
    BY <1>6 DEF FindItem, ListItems, Running, Over, TypeOK, Staged
  <2>2. OwnedRows' /\ UNCHANGED browser
    BY <1>6 DEF FindItem, ListItems, Owned, OwnedRows, By, BagBy, serverVars
  <2>3. CASE Ends(r, "failed")
    BY <2>2, <2>3, OwnedStep DEF Ends, Goes, Running, Over, TypeOK, Owned
  <2>4. ASSUME NEW found \in SUBSET ItemsOf(req[r].cart), Goes(r, "delete"),
               req' = [req EXCEPT ![r].todo = found]
        PROVE  Owned'
    <3> DEFINE u == [req[r] EXCEPT !.todo = found]
    <3>1. /\ u.key = req[r].key /\ u.cart = req[r].cart /\ u.todo = found
      BY <2>1 DEF Request
    <3>2. req' = [req EXCEPT ![r] = u]
      BY <2>4, <2>1 DEF TypeOK, Request
    <3>3. \A i \in found : By(browser[r], i)
      BY <2>1, ShopAssumption
      DEF ItemsOf, Owned, OwnedRows, OwnedLocals, By, BagBy, Bags
    <3>4. /\ pc'[r] = "delete"
          /\ \A q \in Reqs \ {r} : pc'[q] = pc[q]
      BY <2>4 DEF Goes, TypeOK
    <3>5. OwnedLocals'
      <4> HIDE DEF u
      <4> QED
        BY <2>1, <2>2, <3>1, <3>2, <3>3, <3>4, OwnedStep DEF Owned, OwnedLocals
    <3> QED
      BY <2>2, <3>5 DEF Owned
  <2> QED
    BY <1>6, <2>3, <2>4 DEF FindItem, ListItems, Matches
<1>7. ASSUME NEW r \in Reqs, NEW i \in Reqs, DeleteItem(r, i) PROVE Owned'
  <2> DEFINE u == [req[r] EXCEPT !.todo = @ \ {i}]
  <2>1. Running(r) /\ req[r] \in Request /\ pc[r] = "delete"
    BY <1>7 DEF DeleteItem, Running, Over, TypeOK
  <2>2. /\ u.key = req[r].key /\ u.cart = req[r].cart
        /\ u.todo = req[r].todo \ {i}
    BY <2>1 DEF Request
  <2>3. req' = [req EXCEPT ![r] = u]
    BY <1>7, <2>1 DEF DeleteItem, TypeOK, Request
  <2>4. /\ UNCHANGED <<stored, cookie, browser, pc>>
        /\ item' = [item EXCEPT ![i] = None]
    BY <1>7 DEF DeleteItem
  <2>5. OwnedRows'
    BY <2>4 DEF Owned, OwnedRows, By, BagBy, TypeOK
  <2>6. OwnedLocals'
    <3> HIDE DEF u
    <3> QED
      BY <2>1, <2>2, <2>3, <2>4, OwnedStep DEF Owned, OwnedLocals
  <2> QED
    BY <2>5, <2>6 DEF Owned
<1>8. ASSUME NEW r \in Reqs, Deleted(r) PROVE Owned'
  <2> DEFINE u == IF req[r].view = "clear_cart"
                    THEN [req[r] EXCEPT !.cart = NewBag(r, 2), !.modified = TRUE]
                    ELSE req[r]
  <2>1. Running(r) /\ req[r] \in Request /\ BagBy(browser[r], NewBag(r, 2))
    BY <1>8 DEF Deleted, Running, Over, TypeOK, NewBag, Bags, BagBy
  <2>2. /\ u.cart \in {req[r].cart, NewBag(r, 2)}
        /\ u.key = req[r].key /\ u.todo = req[r].todo
    BY <2>1 DEF Request
  <2>3. req' = [req EXCEPT ![r] = u]
    BY <1>8, <2>1 DEF Deleted, TypeOK, Request
  <2>4. /\ UNCHANGED <<stored, item, cookie, browser>> /\ pc'[r] = "reply"
        /\ \A q \in Reqs \ {r} : pc'[q] = pc[q]
    BY <1>8 DEF Deleted, Goes, serverVars, TypeOK
  <2>5. OwnedRows'
    BY <2>4 DEF Owned, OwnedRows, By, BagBy
  <2>6. OwnedLocals'
    <3> HIDE DEF u
    <3> QED
      BY <2>1, <2>2, <2>3, <2>4, OwnedStep DEF Owned, OwnedLocals
  <2> QED
    BY <2>5, <2>6 DEF Owned
<1>9. ASSUME NEW r \in Reqs, Reply(r) PROVE Owned'
  <2>1. /\ Running(r) /\ req[r] \in Request /\ browser[r] # None
        /\ BagBy(browser[r], req[r].cart) /\ By(browser[r], SaveKey(r))
    BY <1>9, ShopAssumption DEF Reply, Running, Over, TypeOK, SaveKey, Staged,
       Owned, OwnedLocals, By, Bags
  <2>2. UNCHANGED <<item, cookie, browser>>
    BY <1>9 DEF Reply
  <2>3. CASE Ends(r, "done") /\ UNCHANGED <<live, stored>>
    <3>1. OwnedRows'
      BY <2>2, <2>3 DEF Owned, OwnedRows, By, BagBy
    <3> QED
      BY <2>2, <2>3, <3>1, OwnedStep DEF Ends, Goes, Running, Over, TypeOK, Owned
  <2>4. CASE /\ Goes(r, "sent")
             /\ req' = [req EXCEPT ![r].key = SaveKey(r)]
             /\ stored' = [stored EXCEPT ![SaveKey(r)] = req[r].cart]
    <3> DEFINE u == [req[r] EXCEPT !.key = SaveKey(r)]
    <3>1. /\ u.key = SaveKey(r) /\ u.cart = req[r].cart
          /\ u.todo = req[r].todo
      BY <2>1 DEF Request
    <3>2. req' = [req EXCEPT ![r] = u]
      BY <2>1, <2>4 DEF TypeOK, Request
    <3>3. OwnedRows'
      BY <2>1, <2>2, <2>4 DEF Owned, OwnedRows, By, BagBy, TypeOK
    <3>4. pc'[r] = "sent" /\ \A q \in Reqs \ {r} : pc'[q] = pc[q]
      BY <2>4 DEF Goes, TypeOK
    <3>5. OwnedLocals'
      <4> HIDE DEF u
      <4> QED
        BY <2>1, <2>2, <3>1, <3>2, <3>4, OwnedStep DEF Owned, OwnedLocals
    <3> QED
      BY <3>3, <3>5 DEF Owned
  <2> QED
    BY <1>9, <2>3, <2>4 DEF Reply
<1>10. ASSUME NEW r \in Reqs, Receive(r) \/ Fail(r) PROVE Owned'
  <2>1. /\ Running(r) /\ browser[r] \in Browsers
        /\ Receive(r) => By(browser[r], req[r].key)
    BY <1>10, ShopAssumption DEF Receive, Fail, Running, Over, TypeOK, Staged,
       Owned, OwnedLocals
  <2>2. UNCHANGED <<item, stored, browser>> /\ (Ends(r, "done") \/ Ends(r, "failed"))
    BY <1>10 DEF Receive, Fail, serverVars
  <2>3. OwnedRows'
    BY <1>10, <2>1, <2>2 DEF Receive, Fail, Owned, OwnedRows, By, BagBy, TypeOK
  <2>4. OwnedLocals'
    BY <2>2, OwnedStep DEF Ends, Goes, Running, Over, TypeOK
  <2> QED
    BY <2>3, <2>4 DEF Owned
<1>11. ASSUME \/ \E p \in Products : Withdraw(p)
              \/ \E k \in Reqs : Expire(k)
              \/ \E b \in Browsers : Forget(b)
       PROVE  Owned'
  <2>1. UNCHANGED <<item, stored, requestVars>>
    BY <1>11 DEF Withdraw, Expire, Forget, serverVars
  <2>2. \A b \in Browsers : cookie'[b] = cookie[b] \/ cookie'[b] = None
    BY <1>11 DEF Withdraw, Expire, Forget, TypeOK
  <2> QED
    BY <2>1, <2>2 DEF Owned, OwnedRows, OwnedLocals, By, BagBy, requestVars,
       Running
<1>12. CASE UNCHANGED vars
  BY <1>12 DEF vars, serverVars, requestVars, Owned, OwnedRows, OwnedLocals, By,
     BagBy, Running
<1> QED
  BY <1>1, <1>2, <1>3, <1>4, <1>5, <1>6, <1>7, <1>8, <1>9, <1>10, <1>11, <1>12
  DEF Next, Serve

THEOREM Ownership == Spec => []OInv
BY InitOInv, NextOInv, PTL DEF Spec

(* No two shoppers get at the same bag, through a cookie or through a      *)
(* request still running (Cart.__init__, SessionMiddleware).               *)
THEOREM CartIsolationHolds == Spec => []CartIsolation
<1>1. OInv => CartIsolation
  <2> SUFFICES ASSUME OInv, NEW b \in Browsers, NEW bag \in Bags, Reaches(b, bag)
               PROVE  BagBy(b, bag)
    BY DEF CartIsolation, BagBy
  <2>1. bag # None
    BY ShopAssumption DEF Bags
  <2> QED
    BY <2>1 DEF Reaches, OInv, Owned, OwnedRows, OwnedLocals, By
<1> QED
  BY Ownership, <1>1, PTL

(* Only a request of the shopper whose request inserted a row changes it   *)
(* (Cart.add, remove, clear).                                              *)
THEOREM OthersLeaveItHolds == Spec => OthersLeaveIt
<1>1. ASSUME OInv, [Next]_vars, NEW i \in Reqs, item'[i] # item[i]
      PROVE  \E r \in Reqs : /\ pc'[r] # pc[r] \/ req'[r] # req[r]
                             /\ browser[r] = browser[i]
  <2> USE DEF OInv, TInv
  <2>1. ~ UNCHANGED item
    BY <1>1
  <2>2. PICK r \in Reqs : \/ InsertItem(r) \/ SaveItem(r)
                          \/ \E j \in Reqs : DeleteItem(r, j)
    BY <1>1, <2>1 DEF Next, Serve, vars, serverVars, Arrive, OpenCart, GetItem,
       FindItem, ListItems, Deleted, Reply, Receive, Fail, Withdraw, Expire,
       Forget
  <2>3. CASE InsertItem(r) \/ SaveItem(r)
    <3>1. pc'[r] # pc[r] /\ Running(r)
      BY <1>1, <2>3 DEF InsertItem, SaveItem, Goes, TypeOK, Running, Over
    <3>2. i = r \/ (SaveItem(r) /\ i = req[r].got.id)
      BY <1>1, <2>3 DEF InsertItem, SaveItem, TypeOK
    <3>3. browser[r] = browser[i]
      BY <1>1, <3>1, <3>2 DEF SaveItem, Owned, OwnedLocals, By
    <3> QED
      BY <3>1, <3>3
  <2>4. ASSUME NEW j \in Reqs, DeleteItem(r, j)
        PROVE  browser[r] = browser[i] /\ req'[r] # req[r]
    <3>1. i = j /\ Running(r) /\ i \in req[r].todo /\ req[r] \in Request
      BY <1>1, <2>4 DEF DeleteItem, TypeOK, Running, Over
    <3>2. browser[r] = browser[i]
      BY <1>1, <3>1 DEF Owned, OwnedLocals, By
    <3>3. req'[r].todo = req[r].todo \ {i}
      BY <1>1, <2>4, <3>1 DEF DeleteItem, TypeOK, Request
    <3> QED
      BY <3>1, <3>2, <3>3
  <2> QED
    BY <2>2, <2>3, <2>4
<1>2. OInv /\ [Next]_vars =>
        [\A i \in Reqs : item'[i] # item[i] =>
           \E r \in Reqs : /\ pc'[r] # pc[r] \/ req'[r] # req[r]
                           /\ browser[r] = browser[i]]_vars
  BY <1>1
<1> QED
  BY Ownership, <1>2, PTL DEF Spec, OthersLeaveIt

-----------------------------------------------------------------------------
(* A second row for one product: what a lone add has read still holds when *)
(* it writes, because only another add can put a row there.                *)

Adds(r) == pc[r] \in {"get", "insert", "save"}
Pair(r) == <<req[r].cart, req[r].product>>
Holds(i, pair) == item[i] # None /\ <<item[i].bag, item[i].product>> = pair

OneAdder ==
  \A r, q \in Reqs :
    (r # q /\ Adds(r) /\ Adds(q) /\ Pair(r) = Pair(q)) => Pair(r) \in twice

ReadsHold ==
  \A r, i \in Reqs : (Adds(r) /\ Holds(i, Pair(r)) /\ Pair(r) \notin twice) =>
    /\ pc[r] # "insert"
    /\ pc[r] = "save" => i = req[r].got.id

OneRow ==
  \A i, j \in Reqs, pair \in twice \cup (Bags \X Products) :
    (i # j /\ Holds(i, pair) /\ Holds(j, pair)) => pair \in twice

DInv == TInv /\ OneAdder /\ ReadsHold /\ OneRow

(* No add moves, and no row appears.                                       *)
LEMMA QuietStep ==
  ASSUME DInv, TInv', twice \subseteq twice',
         \A i \in Reqs : item'[i] = item[i] \/ item'[i] = None,
         \A r \in Reqs : Adds(r)' => pc'[r] = pc[r] /\ req'[r] = req[r]
  PROVE  DInv'
<1>1. \A i \in Reqs : \A pair : Holds(i, pair)' => Holds(i, pair)
  BY DEF Holds
<1>2. \A r \in Reqs : Adds(r)' => Adds(r) /\ Pair(r)' = Pair(r)
  BY DEF Adds, Pair
<1>3. OneAdder' /\ ReadsHold'
  BY <1>1, <1>2 DEF DInv, OneAdder, ReadsHold
<1>4. OneRow'
  BY <1>1 DEF DInv, OneRow, TInv, TypeOK
<1> QED
  BY <1>3, <1>4 DEF DInv

(* An add writes one row of its pair, the one it may write.                *)
LEMMA WriteStep ==
  ASSUME DInv, TInv', NEW r \in Reqs, NEW id \in Reqs, Adds(r),
         UNCHANGED <<req, twice>>, Goes(r, "reply"),
         item' = [item EXCEPT ![id] = item'[id]],
         \A pair : Holds(id, pair)' => pair = Pair(r),
         \A i \in Reqs : Holds(i, Pair(r)) /\ Pair(r) \notin twice => i = id
  PROVE  DInv'
<1>1. \A q \in Reqs : Adds(q)' => q # r /\ Adds(q) /\ pc'[q] = pc[q]
  BY DEF Adds, Goes, DInv, TInv, TypeOK
<1>2. \A q \in Reqs : Pair(q)' = Pair(q)
  BY DEF Pair
<1>3. \A i \in Reqs : \A pair : Holds(i, pair)' => Holds(i, pair) \/ (i = id /\ pair = Pair(r))
  BY <1>2 DEF Holds, DInv, TInv, TypeOK
<1>4. OneAdder'
  BY <1>1, <1>2 DEF DInv, OneAdder
<1>5. ReadsHold'
  BY <1>1, <1>2, <1>3 DEF DInv, OneAdder, ReadsHold
<1>6. OneRow'
  BY <1>3 DEF DInv, OneRow
<1> QED
  BY <1>4, <1>5, <1>6 DEF DInv

LEMMA NextDInv == DInv /\ [Next]_vars => DInv'
<1> SUFFICES ASSUME DInv, [Next]_vars PROVE DInv'
  OBVIOUS
<1>0. TInv /\ TInv'
  BY NextTInv DEF DInv
<1>1. ASSUME NEW r \in Reqs, OpenCart(r) PROVE DInv'
  <2>1. /\ UNCHANGED item /\ twice \subseteq twice'
        /\ \A q \in Reqs \ {r} : pc'[q] = pc[q] /\ req'[q] = req[q]
        /\ ~ Adds(r) /\ pc'[r] \notin {"insert", "save"}
    BY <1>0, <1>1 DEF OpenCart, Goes, AfterOpen, TInv, TypeOK, Adds
  <2>2. \A i \in Reqs : \A pair : Holds(i, pair)' = Holds(i, pair)
    BY <2>1 DEF Holds
  <2>3. \A q \in Reqs \ {r} : Adds(q)' = Adds(q) /\ Pair(q)' = Pair(q)
    BY <2>1 DEF Adds, Pair
  <2>4. ASSUME NEW q \in Reqs \ {r}, Adds(q), Adds(r)', Pair(q) = Pair(r)'
        PROVE  Pair(q) \in twice'
    <3>1. req[r].view = "add_to_cart"
      BY <1>0, <1>1, <2>4 DEF OpenCart, Goes, AfterOpen, Adds, TInv, TypeOK
    <3>2. req[r] \in Request
      BY <1>0, <1>1 DEF OpenCart, TInv, TypeOK, Running, Over
    <3> DEFINE bag == IF req[r].key \in live THEN stored[req[r].key] ELSE None
               mine == IF bag = None THEN NewBag(r, 1) ELSE bag
    <3>3. Pair(r)' = <<mine, req[r].product>>
      BY <1>0, <1>1, <3>2 DEF OpenCart, Pair, Request, TInv, TypeOK
    <3>4. q \in Adding(mine, req[r].product)
      BY <2>4, <3>3 DEF Adding, Adds, Pair
    <3>5. twice' = twice \cup {<<mine, req[r].product>>}
      BY <1>1, <3>1, <3>4 DEF OpenCart
    <3> QED
      BY <2>4, <3>3, <3>5
  <2>5. OneAdder'
    BY <2>1, <2>3, <2>4 DEF DInv, OneAdder
  <2>6. ReadsHold'
    BY <2>1, <2>2, <2>3 DEF DInv, ReadsHold
  <2>7. OneRow'
    BY <1>0, <2>1, <2>2 DEF DInv, OneRow, TInv, TypeOK
  <2> QED
    BY <1>0, <2>5, <2>6, <2>7 DEF DInv
<1>2. ASSUME NEW r \in Reqs, GetItem(r) PROVE DInv'
  <2>1. /\ UNCHANGED <<item, twice>>
        /\ \A q \in Reqs \ {r} : pc'[q] = pc[q] /\ req'[q] = req[q]
        /\ Adds(r)
    BY <1>0, <1>2
    DEF GetItem, Goes, Ends, Adds, TInv, TypeOK, serverVars, history
  <2>2. CASE Ends(r, "failed")
    BY <1>0, <2>1, <2>2, QuietStep DEF Ends, Goes, Adds, TInv, TypeOK
  <2>3. req[r] \in Request /\ req[r].cart \in Bags
    BY <1>0, <1>2 DEF GetItem, TInv, TypeOK, Staged, Running, Over
  <2>4. \A i \in Reqs : Holds(i, Pair(r)) => i \in Matches(r)
    BY DEF Holds, Pair, Matches, ItemsOf
  <2>5. \A i \in Reqs : \A pair : Holds(i, pair)' = Holds(i, pair)
    BY <2>1 DEF Holds
  <2>6. \A q \in Reqs \ {r} : Adds(q)' = Adds(q) /\ Pair(q)' = Pair(q)
    BY <2>1 DEF Adds, Pair
  <2>7. CASE Matches(r) = {} /\ Goes(r, "insert") /\ UNCHANGED req
    <3>1. Pair(r)' = Pair(r) /\ pc'[r] = "insert"
      BY <1>0, <2>7 DEF Pair, Goes, TInv, TypeOK
    <3>2. OneAdder'
      BY <2>1, <2>6, <3>1 DEF DInv, OneAdder
    <3>3. ReadsHold'
      BY <2>1, <2>4, <2>5, <2>6, <2>7, <3>1 DEF DInv, ReadsHold
    <3>4. OneRow'
      BY <2>1, <2>5 DEF DInv, OneRow
    <3> QED
      BY <1>0, <3>2, <3>3, <3>4 DEF DInv
  <2>8. ASSUME NEW i \in Matches(r), Matches(r) = {i}, Goes(r, "save"),
               req' = [req EXCEPT ![r].got =
                         [id |-> i, quantity |-> item[i].quantity]]
        PROVE  DInv'
    <3>1. Pair(r)' = Pair(r) /\ pc'[r] = "save" /\ req'[r].got.id = i
      BY <1>0, <2>3, <2>8 DEF Pair, Goes, TInv, TypeOK, Request
    <3>2. OneAdder'
      BY <2>1, <2>6, <3>1 DEF DInv, OneAdder
    <3>3. ReadsHold'
      BY <2>1, <2>4, <2>5, <2>6, <2>8, <3>1 DEF DInv, ReadsHold
    <3>4. OneRow'
      BY <2>1, <2>5 DEF DInv, OneRow
    <3> QED
      BY <1>0, <3>2, <3>3, <3>4 DEF DInv
  <2> QED
    BY <1>2, <2>2, <2>7, <2>8 DEF GetItem
<1>3. ASSUME NEW r \in Reqs, InsertItem(r) PROVE DInv'
  <2>1. /\ Adds(r) /\ pc[r] = "insert" /\ UNCHANGED <<req, twice>>
        /\ Goes(r, "reply")
        /\ item' = [item EXCEPT ![r] = Row(r, req[r].quantity)]
    BY <1>3 DEF InsertItem, Adds, history
  <2>2. \A i \in Reqs : ~ (Holds(i, Pair(r)) /\ Pair(r) \notin twice)
    BY <2>1 DEF DInv, ReadsHold
  <2>3. item'[r] = Row(r, req[r].quantity) /\ item' = [item EXCEPT ![r] = item'[r]]
    BY <1>0, <2>1 DEF TInv, TypeOK
  <2>4. \A pair : Holds(r, pair)' => pair = Pair(r)
    BY <2>1, <2>3 DEF Holds, Pair, Row
  <2> QED
    BY <1>0, <2>1, <2>2, <2>3, <2>4, WriteStep
<1>4. ASSUME NEW r \in Reqs, SaveItem(r) PROVE DInv'
  <2>1. /\ Adds(r) /\ pc[r] = "save" /\ UNCHANGED <<req, twice>>
        /\ Goes(r, "reply") /\ req[r].got.id \in Reqs
        /\ item' = [item EXCEPT ![req[r].got.id] = Row(r, req[r].got.quantity + 1)]
    BY <1>0, <1>4 DEF SaveItem, Adds, history, TInv, Staged, Running, Over
  <2>2. PICK id \in Reqs : id = req[r].got.id
    BY <2>1
  <2>3. \A i \in Reqs : (Holds(i, Pair(r)) /\ Pair(r) \notin twice) => i = id
    BY <2>1, <2>2 DEF DInv, ReadsHold
  <2>4. /\ item'[id] = Row(r, req[r].got.quantity + 1)
        /\ item' = [item EXCEPT ![id] = item'[id]]
    BY <1>0, <2>1, <2>2 DEF TInv, TypeOK
  <2>5. \A pair : Holds(id, pair)' => pair = Pair(r)
    BY <2>1, <2>4 DEF Holds, Pair, Row
  <2> QED
    BY <1>0, <2>1, <2>3, <2>4, <2>5, WriteStep
<1>5. ASSUME NEW r \in Reqs,
             \/ FindItem(r) \/ ListItems(r) \/ Deleted(r) \/ Reply(r)
             \/ Receive(r) \/ Fail(r)
             \/ \E i \in Reqs : DeleteItem(r, i)
             \/ \E b \in Browsers, view \in Views, n \in Quantities :
                  \E p \in ProductOf(view) : Arrive(r, b, view, p, n)
      PROVE  DInv'
  <2>1. UNCHANGED twice /\ (UNCHANGED item \/ \E i \in Reqs : DeleteItem(r, i))
    BY <1>5 DEF FindItem, ListItems, Deleted, Reply, Receive, Fail, DeleteItem,
       Arrive, serverVars, history
  <2>2. \A i \in Reqs : item'[i] = item[i] \/ item'[i] = None
    BY <1>0, <2>1 DEF DeleteItem, TInv, TypeOK
  <2>3. /\ \A q \in Reqs \ {r} : pc'[q] = pc[q] /\ req'[q] = req[q]
        /\ ~ Adds(r)'
    BY <1>0, <1>5 DEF FindItem, ListItems, Deleted, Reply, Receive, Fail,
       DeleteItem, Arrive, Goes, Ends, Adds, TInv, TypeOK
  <2> QED
    BY <1>0, <2>1, <2>2, <2>3, QuietStep
<1>6. CASE \/ \E p \in Products : Withdraw(p)
           \/ \E k \in Reqs : Expire(k)
           \/ \E b \in Browsers : Forget(b)
           \/ UNCHANGED vars
  <2>1. UNCHANGED <<item, pc, req, twice>>
    BY <1>6 DEF Withdraw, Expire, Forget, Emptied, vars, serverVars,
       requestVars, history
  <2> QED
    BY <1>0, <2>1, QuietStep
<1> QED
  BY <1>1, <1>2, <1>3, <1>4, <1>5, <1>6 DEF Next, Serve

(* A bag gets a second row for a product, and Item.objects.get starts to   *)
(* raise, only if two adds of that product worked on that bag at once      *)
(* (Cart.add).                                                             *)
THEOREM DuplicateOnlyIfTwoAddsHolds == Spec => []DuplicateOnlyIfTwoAdds
<1>1. Init => DInv
  BY InitTInv
  DEF Init, DInv, OneAdder, ReadsHold, OneRow, Adds, Holds
<1>2. DInv => DuplicateOnlyIfTwoAdds
  <2> SUFFICES ASSUME DInv, NEW i \in Reqs, NEW j \in Reqs, i # j,
                      item[i] # None, item[j] # None,
                      item[i].bag = item[j].bag,
                      item[i].product = item[j].product
               PROVE  <<item[i].bag, item[i].product>> \in twice
    BY DEF DuplicateOnlyIfTwoAdds
  <2>1. <<item[i].bag, item[i].product>> \in Bags \X Products
    BY DEF DInv, TInv, TypeOK, ItemRow
  <2> QED
    BY <2>1 DEF DInv, OneRow, Holds
<1> QED
  BY <1>1, <1>2, NextDInv, PTL DEF Spec
-----------------------------------------------------------------------------
(* The cart of a shopper who sends one request at a time: what its bag     *)
(* holds while that request changes it, query by query.                    *)

Line(it, i) == [product |-> it[i].product, quantity |-> it[i].quantity]

(* These rows are these lines, one row for each product.                   *)
Lists(it, rows, lines) ==
  /\ \A i \in rows : Line(it, i) \in lines
  /\ \A e \in lines : \E i \in rows : Line(it, i) = e
  /\ \A i, j \in rows : it[i].product = it[j].product => i = j

(* A bag is named after the request that creates it, and is in use only    *)
(* from then on; a key is that of a request that is over, but for its own. *)
Created(at, bag) ==
  IF bag[2] = 1 THEN at[bag[1]] \notin {"new", "open"}
                ELSE at[bag[1]] \in {"reply", "sent", "done", "failed"}

FreshBags ==
  /\ \A i \in Reqs : item[i] # None => Created(pc, item[i].bag)
  /\ \A k \in Reqs : stored[k] # None => Created(pc, stored[k])
  /\ \A r \in Reqs : Running(r) /\ req[r].cart # None => Created(pc, req[r].cart)

FreshKeys ==
  /\ \A b \in Browsers : cookie[b] # None => pc[cookie[b]] = "done"
  /\ \A r \in Reqs : Running(r) /\ req[r].key # None =>
       req[r].key = r \/ pc[req[r].key] = "done"

(* A row bears the name of a request that has written it.                  *)
Replying == {"reply", "sent", "done", "failed"}

FreshRows ==
  /\ \A i \in Reqs : item[i] # None => pc[i] \in Replying
  /\ \A r \in Reqs : pc[r] = "save" => pc[req[r].got.id] \in Replying

Fresh == FreshBags /\ FreshKeys /\ FreshRows

Looking == {"get", "insert", "save", "find", "list"}

(* What a request has found and is about to do, at each of its queries.    *)
Serving(b, r) ==
  /\ pc[r] = "open" => req[r].key = cookie[b] /\ ~ req[r].modified
  /\ pc[r] \in {"open"} \cup Looking => Lists(item, InCart(b), expected[b])
  /\ pc[r] \in Looking => Lists(item, ItemsOf(req[r].cart), expected[b])
  /\ pc[r] \in Looking \cup {"delete", "reply"} /\ ~ req[r].modified =>
       /\ req[r].key = cookie[b] /\ req[r].key \in live
       /\ stored[req[r].key] = req[r].cart
  /\ pc[r] = "insert" => Matches(r) = {}
  /\ pc[r] = "save" => /\ req[r].got.id \in Matches(r)
                       /\ req[r].got.quantity = item[req[r].got.id].quantity
  /\ pc[r] = "find" => req[r].view = "remove_from_cart"
  /\ pc[r] = "list" => req[r].view = "clear_cart"
  /\ pc[r] = "delete" => Lists(item, ItemsOf(req[r].cart) \ req[r].todo, Wanted(r))
  /\ pc[r] \in {"reply", "sent"} => Lists(item, ItemsOf(req[r].cart), Wanted(r))
  /\ pc[r] = "sent" => req[r].key \in live /\ stored[req[r].key] = req[r].cart

Serves(b, r) == Running(r) /\ browser[r] = b

Shopping(b) ==
  /\ \A r, q \in Reqs : Serves(b, r) /\ Serves(b, q) => r = q
  /\ ~ Busy(b) => Lists(item, InCart(b), expected[b])
  /\ \A r \in Reqs : Serves(b, r) => Serving(b, r)

Rows == {i \in Reqs : item[i] # None}

EInv == OInv /\ Fresh /\ IsFiniteSet(Rows) /\ \A b \in calm : Shopping(b)

LEMMA ListsSame ==
  ASSUME NEW it, NEW jt, NEW rows, NEW lines, Lists(it, rows, lines),
         \A i \in rows : jt[i] = it[i]
  PROVE  Lists(jt, rows, lines)
BY DEF Lists, Line

LEMMA WantedAs ==
  ASSUME NEW r, NEW had, had = expected[browser[r]], NEW others,
         others = {e \in had : e.product # req[r].product}
  PROVE  /\ req[r].view = "add_to_cart" /\ others = had => Wanted(r) =
              had \cup {[product |-> req[r].product, quantity |-> req[r].quantity]}
         /\ req[r].view = "add_to_cart" /\ others # had => Wanted(r) =
              others \cup {[e EXCEPT !.quantity = @ + 1] : e \in had \ others}
         /\ req[r].view = "remove_from_cart" => Wanted(r) = others
         /\ req[r].view = "clear_cart" => Wanted(r) = {}
         /\ req[r].view \notin {"add_to_cart", "remove_from_cart", "clear_cart"} =>
              Wanted(r) = had
<1>1. CASE req[r].view = "add_to_cart"
  BY <1>1 DEF Wanted
<1>2. CASE req[r].view = "remove_from_cart"
  BY <1>2 DEF Wanted
<1>3. CASE req[r].view = "clear_cart"
  BY <1>3 DEF Wanted
<1>4. CASE req[r].view \notin {"add_to_cart", "remove_from_cart", "clear_cart"}
  BY <1>4 DEF Wanted
<1> QED
  BY <1>1, <1>2, <1>3, <1>4

LEMMA WantedSame ==
  ASSUME NEW r, expected'[browser'[r]] = expected[browser[r]],
         req'[r].view = req[r].view, req'[r].product = req[r].product,
         req'[r].quantity = req[r].quantity
  PROVE  Wanted(r)' = Wanted(r)
<1>1. CASE req[r].view = "add_to_cart"
  BY <1>1 DEF Wanted
<1>2. CASE req[r].view = "remove_from_cart"
  BY <1>2 DEF Wanted
<1>3. CASE req[r].view = "clear_cart"
  BY <1>3 DEF Wanted
<1>4. CASE req[r].view \notin {"add_to_cart", "remove_from_cart", "clear_cart"}
  BY <1>4 DEF Wanted
<1> QED
  BY <1>1, <1>2, <1>3, <1>4

(* What the keys of a shopper are.                                         *)
Named(b, k) == k = cookie[b] \/ \E r \in Reqs : Serves(b, r) /\ req[r].key = k

(* A step that leaves the rows, the sessions and the requests of a shopper *)
(* alone.                                                                  *)
LEMMA LeftAlone ==
  ASSUME OInv, OInv', NEW b \in Browsers, Shopping(b),
         cookie'[b] = cookie[b], expected'[b] = expected[b],
         \A k \in Reqs : Named(b, k) => stored'[k] = stored[k] /\ (k \in live' <=> k \in live),
         \A i \in Reqs : browser[i] = b => item'[i] = item[i],
         \A r \in Reqs : browser'[r] = b <=> browser[r] = b,
         \A r \in Reqs : browser[r] = b => pc'[r] = pc[r] /\ req'[r] = req[r]
  PROVE  Shopping(b)'
<1> USE DEF OInv, TInv
<1>1. \A r \in Reqs : Serves(b, r)' <=> Serves(b, r)
  BY DEF Serves, Running
<1>2. Busy(b)' <=> Busy(b)
  BY <1>1 DEF Busy, Serves
<1>3. ASSUME NEW bag, BagBy(b, bag)
      PROVE  ItemsOf(bag)' = ItemsOf(bag) /\ \A i \in ItemsOf(bag) : item'[i] = item[i]
  <2>1. ASSUME NEW i \in ItemsOf(bag) PROVE browser[i] = b /\ item'[i] = item[i]
    BY <1>3, <2>1 DEF ItemsOf, Owned, OwnedRows, BagBy
  <2>2. ASSUME NEW i \in ItemsOf(bag)' PROVE browser[i] = b /\ item'[i] = item[i]
    <3>1. browser'[bag[1]] = b /\ item'[i].bag = bag /\ i \in Reqs /\ item'[i] # None
      BY <1>3, <2>2 DEF ItemsOf, BagBy, Bags
    <3>2. browser'[i] = b
      BY <3>1 DEF Owned, OwnedRows, BagBy
    <3> QED
      BY <3>1, <3>2
  <2> QED
    BY <2>1, <2>2 DEF ItemsOf
<1>4. InCart(b)' = InCart(b) /\ \A i \in InCart(b) : item'[i] = item[i]
  <2>1. cookie[b] \in Reqs => stored'[cookie[b]] = stored[cookie[b]]
                              /\ (cookie[b] \in live' <=> cookie[b] \in live)
    BY DEF Named
  <2>2. cookie[b] \in live \/ cookie[b] \in live' => cookie[b] \in Reqs /\ cookie[b] # None
    BY ShopAssumption DEF TypeOK
  <2>3. cookie[b] \in live /\ stored[cookie[b]] # None => BagBy(b, stored[cookie[b]])
    BY <2>2 DEF Owned, OwnedRows, By
  <2> QED
    BY <1>3, <2>1, <2>2, <2>3 DEF InCart
<1>5. ASSUME NEW r \in Reqs, Serves(b, r) PROVE Serving(b, r)'
  <2>1. /\ pc'[r] = pc[r] /\ req'[r] = req[r] /\ browser'[r] = b /\ browser[r] = b
        /\ req[r] \in Request /\ Serving(b, r)
    BY <1>5 DEF Serves, Shopping, TypeOK
  <2>2. Wanted(r)' = Wanted(r)
    BY <2>1, WantedSame
  <2>3. pc[r] # "open" => BagBy(b, req[r].cart)
    <3>1. None \notin Bags
      BY ShopAssumption DEF Bags
    <3> QED
      BY <1>5, <2>1, <3>1 DEF Serves, Staged, Owned, OwnedLocals
  <2>4. pc[r] # "open" => /\ ItemsOf(req[r].cart)' = ItemsOf(req[r].cart)
                          /\ \A i \in ItemsOf(req[r].cart) : item'[i] = item[i]
    BY <1>3, <2>1, <2>3 DEF ItemsOf
  <2>5. pc[r] # "open" => /\ Matches(r)' = Matches(r)
                          /\ \A i \in Matches(r) : item'[i] = item[i]
    BY <2>1, <2>4 DEF Matches
  <2>6. Named(b, req[r].key) /\ (req[r].key \in live \/ req[r].key = None \/ req[r].key \in Reqs)
    BY <1>5, <2>1 DEF Named, Request
  <2>7. req[r].key \in live => req[r].key \in live' /\ stored'[req[r].key] = stored[req[r].key]
    BY <2>6 DEF TypeOK
  <2>8. ASSUME NEW rows, NEW lines, Lists(item, rows, lines), \A i \in rows : item'[i] = item[i]
        PROVE  Lists(item', rows, lines)
    BY <2>8, ListsSame
  <2> QED
    BY <1>4, <2>1, <2>2, <2>4, <2>5, <2>7, <2>8 DEF Serving, Looking
<1>6. ~ Busy(b)' => Lists(item', InCart(b)', expected'[b])
  BY <1>2, <1>4, ListsSame DEF Shopping
<1> QED
  BY <1>1, <1>5, <1>6 DEF Shopping

(* A step of the one request a shopper has at work.                        *)
LEMMA OwnStep ==
  ASSUME NEW r \in Reqs, NEW b \in Browsers, Shopping(b), Serves(b, r),
         UNCHANGED browser, \A q \in Reqs \ {r} : pc'[q] = pc[q],
         IF Running(r)' THEN Serving(b, r)' ELSE Lists(item', InCart(b)', expected'[b])
  PROVE  Shopping(b)'
<1>1. \A q \in Reqs : Serves(b, q)' => q = r
  BY DEF Shopping, Serves, Running
<1>2. Busy(b)' <=> Running(r)'
  BY <1>1 DEF Busy, Serves
<1> QED
  BY <1>1, <1>2 DEF Shopping, Serves


(* A step of another shopper's request.                                    *)
LEMMA ServeFrame ==
  ASSUME OInv, NEW r \in Reqs, Serve(r), NEW b \in Browsers, browser[r] # b
  PROVE  /\ cookie'[b] = cookie[b] /\ expected'[b] = expected[b] /\ UNCHANGED browser
         /\ \A k \in Reqs : Named(b, k) => stored'[k] = stored[k] /\ (k \in live' <=> k \in live)
         /\ \A i \in Reqs : browser[i] = b => item'[i] = item[i]
         /\ \A q \in Reqs : browser[q] = b => pc'[q] = pc[q] /\ req'[q] = req[q]
<1> USE DEF OInv, TInv
<1>1. Running(r) /\ browser[r] \in Browsers /\ UNCHANGED browser
  BY DEF Serve, OpenCart, GetItem, InsertItem, SaveItem, FindItem, ListItems, DeleteItem,
     Deleted, Reply, Receive, Fail, Running, Over, TypeOK
<1>2. \A q \in Reqs \ {r} : pc'[q] = pc[q] /\ req'[q] = req[q]
  BY DEF Serve, OpenCart, GetItem, InsertItem, SaveItem, FindItem, ListItems, DeleteItem,
     Deleted, Reply, Receive, Fail, Ends, Goes, TypeOK
<1>3. cookie'[b] = cookie[b] /\ expected'[b] = expected[b]
  BY DEF Serve, OpenCart, GetItem, InsertItem, SaveItem, FindItem, ListItems, DeleteItem,
     Deleted, Reply, Receive, Fail, Fulfil, history, TypeOK
<1>4. \A i \in Reqs : browser[i] = b => item'[i] = item[i]
  <2>1. CASE InsertItem(r)
    BY <1>1, <2>1 DEF InsertItem, TypeOK
  <2>2. CASE SaveItem(r)
    BY <1>1, <2>2 DEF SaveItem, TypeOK, Owned, OwnedLocals, By
  <2>3. ASSUME NEW i \in Reqs, DeleteItem(r, i) PROVE \A j \in Reqs : browser[j] = b => item'[j] = item[j]
    BY <1>1, <2>3 DEF DeleteItem, TypeOK, Owned, OwnedLocals, By
  <2>4. CASE ~ InsertItem(r) /\ ~ SaveItem(r) /\ ~ \E i \in Reqs : DeleteItem(r, i)
    BY <2>4 DEF Serve, OpenCart, GetItem, FindItem, ListItems, Deleted, Reply, Receive, Fail, serverVars
  <2> QED
    BY <2>1, <2>2, <2>3, <2>4
<1>5. ASSUME NEW k \in Reqs, Named(b, k)
      PROVE  stored'[k] = stored[k] /\ (k \in live' <=> k \in live)
  <2>1. browser[k] = b
    BY <1>5, ShopAssumption DEF Named, Serves, Owned, OwnedRows, OwnedLocals, By
  <2>2. k # r /\ (Running(r) /\ req[r].key # None => k # req[r].key)
    BY <1>1, <2>1 DEF Owned, OwnedLocals, By
  <2>3. CASE OpenCart(r)
    BY <2>2, <2>3 DEF OpenCart
  <2>4. CASE Reply(r)
    BY <1>1, <2>2, <2>4 DEF Reply, SaveKey, TypeOK
  <2>5. CASE ~ OpenCart(r) /\ ~ Reply(r)
    BY <2>5 DEF Serve, GetItem, InsertItem, SaveItem, FindItem, ListItems, DeleteItem,
       Deleted, Receive, Fail, serverVars
  <2> QED
    BY <2>3, <2>4, <2>5
<1> QED
  BY <1>1, <1>2, <1>3, <1>4, <1>5

(* A request only goes forward.                                            *)
LEMMA Forward ==
  ASSUME TInv, [Next]_vars, NEW k \in Reqs
  PROVE  /\ pc[k] \notin {"new", "open"} => pc'[k] \notin {"new", "open"}
         /\ pc[k] \in {"reply", "sent", "done", "failed"} =>
              pc'[k] \in {"reply", "sent", "done", "failed"}
         /\ pc[k] = "done" => pc'[k] = "done"
<1>1. CASE UNCHANGED pc
  BY <1>1
<1>2. ASSUME NEW r \in Reqs, NEW b \in Browsers, NEW view \in Views, NEW n \in Quantities,
             NEW p \in ProductOf(view), Arrive(r, b, view, p, n)
      PROVE  pc[r] = "new" /\ \A q \in Reqs \ {r} : pc'[q] = pc[q]
  BY <1>2 DEF Arrive, Ends, Goes, TInv, TypeOK
<1>3. ASSUME NEW r \in Reqs, Serve(r)
      PROVE  /\ \A q \in Reqs \ {r} : pc'[q] = pc[q]
             /\ pc[r] \notin {"done", "failed"}
             /\ pc'[r] \notin {"new", "open"}
             /\ pc[r] \in {"reply", "sent"} => pc'[r] \in {"sent", "done", "failed"}
  BY <1>3 DEF Serve, OpenCart, AfterOpen, GetItem, InsertItem, SaveItem, FindItem, ListItems,
     DeleteItem, Deleted, Reply, Receive, Fail, Ends, Goes, Running, Over, TInv, TypeOK
<1>4. CASE \/ \E p \in Products : Withdraw(p)
           \/ \E r \in Reqs : Expire(r)
           \/ \E b \in Browsers : Forget(b)
  BY <1>1, <1>4 DEF Withdraw, Expire, Forget, requestVars
<1> QED
  BY <1>1, <1>2, <1>3, <1>4 DEF Next, vars, requestVars

LEMMA NextFreshNames == OInv /\ Fresh /\ [Next]_vars => FreshBags' /\ FreshKeys'
<1> SUFFICES ASSUME OInv, Fresh, [Next]_vars PROVE FreshBags' /\ FreshKeys'
  OBVIOUS
<1> USE DEF OInv, TInv, Fresh
<1>0. TInv'
  BY NextTInv
<1>1. \A bag \in Bags : Created(pc, bag) => Created(pc', bag)
  BY Forward DEF Created, Bags
<1>2. \A k \in Reqs : pc[k] = "done" => pc'[k] = "done"
  BY Forward
<1>3. None \notin Bags /\ None \notin Reqs
  BY ShopAssumption DEF Bags
<1>4. ASSUME NEW r \in Reqs, \A q \in Reqs \ {r} : pc'[q] = pc[q] /\ req'[q] = req[q],
             \/ ~ Running(r)'
             \/ /\ req'[r].cart # None => Created(pc', req'[r].cart)
                /\ req'[r].key # None => req'[r].key = r \/ pc'[req'[r].key] = "done"
             \/ /\ Running(r) /\ pc[r] # "open"
                /\ req'[r].cart = req[r].cart /\ req'[r].key = req[r].key
      PROVE  \A q \in Reqs : Running(q)' =>
               /\ req'[q].cart # None => Created(pc', req'[q].cart)
               /\ req'[q].key # None => req'[q].key = q \/ pc'[req'[q].key] = "done"
  <2> TAKE q \in Reqs
  <2>1. q # r => (Running(q)' <=> Running(q))
    BY <1>4 DEF Running
  <2>2. Running(q) => req[q] \in Request
    BY DEF TypeOK
  <2>3. Running(q) /\ req[q].cart # None => Created(pc', req[q].cart)
    BY <1>1, <2>2 DEF FreshBags, Request
  <2>4. Running(q) /\ req[q].key # None => req[q].key = q \/ pc'[req[q].key] = "done"
    BY <1>2, <2>2 DEF FreshKeys, Request
  <2> QED
    BY <1>4, <2>1, <2>3, <2>4
<1>5. ASSUME UNCHANGED <<item, stored>>
      PROVE  /\ \A i \in Reqs : item'[i] # None => Created(pc', item'[i].bag)
             /\ \A k \in Reqs : stored'[k] # None => Created(pc', stored'[k])
  BY <1>1, <1>5 DEF FreshBags, TypeOK, ItemRow
<1>6. UNCHANGED cookie => \A b \in Browsers : cookie'[b] # None => pc'[cookie'[b]] = "done"
  BY <1>2 DEF FreshKeys, TypeOK
<1>7. ASSUME NEW r \in Reqs, NEW b \in Browsers, NEW view \in Views, NEW n \in Quantities,
             NEW p \in ProductOf(view), Arrive(r, b, view, p, n)
      PROVE  FreshBags' /\ FreshKeys'
  <2>1. UNCHANGED <<item, stored, cookie>> /\ \A q \in Reqs \ {r} : pc'[q] = pc[q] /\ req'[q] = req[q]
    BY <1>7 DEF Arrive, Ends, Goes, serverVars, TypeOK
  <2>2. Running(r)' => req'[r].cart = None /\ req'[r].key = cookie[b]
    BY <1>7 DEF Arrive, Ends, Goes, Running, Over, TypeOK
  <2>3. cookie[b] # None => pc'[cookie[b]] = "done"
    BY <1>2 DEF FreshKeys, TypeOK
  <2> QED
    BY <1>4, <1>5, <1>6, <2>1, <2>2, <2>3 DEF FreshBags, FreshKeys
<1>8. ASSUME NEW r \in Reqs, Serve(r)
      PROVE  Running(r) /\ req[r] \in Request /\ \A q \in Reqs \ {r} : pc'[q] = pc[q] /\ req'[q] = req[q]
  BY <1>8 DEF Serve, OpenCart, GetItem, InsertItem, SaveItem, FindItem, ListItems, DeleteItem,
     Deleted, Reply, Receive, Fail, Ends, Goes, Running, Over, TypeOK
<1>9. ASSUME NEW r \in Reqs, OpenCart(r) PROVE FreshBags' /\ FreshKeys'
  <2> DEFINE lapsed == req[r].key # None /\ req[r].key \notin live
             bag == IF req[r].key \in live THEN stored[req[r].key] ELSE None
             mine == IF bag = None THEN NewBag(r, 1) ELSE bag
  <2>1. /\ req[r] \in Request /\ pc[r] = "open" /\ UNCHANGED <<item, stored, cookie>>
        /\ \A q \in Reqs \ {r} : pc'[q] = pc[q] /\ req'[q] = req[q]
    <3>1. Serve(r)
      BY <1>9 DEF Serve
    <3> QED
      BY <1>8, <1>9, <3>1 DEF OpenCart
  <2>2. /\ req'[r].cart = mine /\ req'[r].key \in {req[r].key, r} /\ pc'[r] \notin {"new", "open"}
        /\ Running(r)
    BY <1>9, <2>1 DEF OpenCart, Goes, AfterOpen, Request, TypeOK, Running, Over
  <2>3. Created(pc', mine)
    <3>1. CASE bag = None
      BY <2>2, <3>1 DEF NewBag, Created
    <3>2. CASE bag # None
      BY <1>1, <3>2 DEF FreshBags, TypeOK
    <3> QED
      BY <3>1, <3>2
  <2>4. req[r].key # None => req[r].key = r \/ pc'[req[r].key] = "done"
    BY <1>2, <2>1, <2>2 DEF FreshKeys, Request
  <2> HIDE DEF mine
  <2> QED
    BY <1>4, <1>5, <1>6, <2>1, <2>2, <2>3, <2>4 DEF FreshBags, FreshKeys
<1>10. ASSUME NEW r \in Reqs,
              GetItem(r) \/ FindItem(r) \/ ListItems(r) \/ InsertItem(r) \/ SaveItem(r) \/
              (\E i \in Reqs : DeleteItem(r, i))
       PROVE  FreshBags' /\ FreshKeys'
  <2>1. /\ Running(r) /\ req[r] \in Request /\ pc[r] # "open" /\ UNCHANGED <<stored, cookie>>
        /\ \A q \in Reqs \ {r} : pc'[q] = pc[q] /\ req'[q] = req[q]
    BY <1>8, <1>10 DEF GetItem, FindItem, ListItems, InsertItem, SaveItem, DeleteItem, serverVars, Serve
  <2>2. ~ Running(r)' \/ (req'[r].cart = req[r].cart /\ req'[r].key = req[r].key)
    BY <1>10, <2>1 DEF GetItem, FindItem, ListItems, InsertItem, SaveItem, DeleteItem, Ends, Goes,
       Running, Over, Request, TypeOK
  <2>3. \A i \in Reqs : item'[i] # None =>
          item'[i] = item[i] \/ item'[i].bag = req[r].cart
    BY <1>10, <2>1 DEF GetItem, FindItem, ListItems, InsertItem, SaveItem, DeleteItem, Row,
       serverVars, TypeOK
  <2>4. req[r].cart \in Bags /\ Created(pc, req[r].cart)
    BY <1>3, <2>1 DEF Staged, FreshBags
  <2>5. \A i \in Reqs : item'[i] # None => Created(pc', item'[i].bag)
    BY <1>1, <2>3, <2>4 DEF FreshBags, TypeOK, ItemRow
  <2>6. \A k \in Reqs : stored'[k] # None => Created(pc', stored'[k])
    BY <1>1, <2>1 DEF FreshBags, TypeOK
  <2> QED
    BY <1>4, <1>6, <2>1, <2>2, <2>5, <2>6 DEF FreshBags, FreshKeys
<1>11. ASSUME NEW r \in Reqs, Deleted(r) PROVE FreshBags' /\ FreshKeys'
  <2>1. /\ Running(r) /\ req[r] \in Request /\ pc[r] = "delete" /\ UNCHANGED <<item, stored, cookie>>
        /\ \A q \in Reqs \ {r} : pc'[q] = pc[q] /\ req'[q] = req[q]
    BY <1>8, <1>11 DEF Deleted, serverVars, Serve
  <2>2. /\ pc'[r] = "reply" /\ req'[r].key = req[r].key
        /\ req'[r].cart \in {req[r].cart, <<r, 2>>}
    BY <1>11, <2>1 DEF Deleted, Goes, NewBag, Request, TypeOK
  <2>3. Created(pc', <<r, 2>>)
    BY <2>2 DEF Created
  <2>4. req[r].cart \in Bags /\ Created(pc', req[r].cart)
    BY <1>1, <1>3, <2>1 DEF Staged, FreshBags
  <2>5. req[r].key # None => req[r].key = r \/ pc'[req[r].key] = "done"
    BY <1>2, <2>1 DEF FreshKeys, Request
  <2>6. Created(pc', req'[r].cart)
    BY <2>2, <2>3, <2>4
  <2> QED
    BY <1>4, <1>5, <1>6, <2>1, <2>2, <2>5, <2>6 DEF FreshBags, FreshKeys
<1>12. ASSUME NEW r \in Reqs, Reply(r) PROVE FreshBags' /\ FreshKeys'
  <2>1. /\ Running(r) /\ req[r] \in Request /\ pc[r] = "reply" /\ UNCHANGED <<item, cookie>>
        /\ \A q \in Reqs \ {r} : pc'[q] = pc[q] /\ req'[q] = req[q]
    BY <1>8, <1>12 DEF Reply, Serve
  <2>2. req[r].cart \in Bags /\ Created(pc', req[r].cart)
    BY <1>1, <1>3, <2>1 DEF Staged, FreshBags
  <2>3. ~ Running(r)' \/ (req'[r].cart = req[r].cart /\ req'[r].key = SaveKey(r))
    BY <1>12, <2>1 DEF Reply, Ends, Goes, Running, Over, Request, TypeOK
  <2>4. SaveKey(r) = r \/ pc'[SaveKey(r)] = "done"
    BY <1>2, <2>1 DEF FreshKeys, Request, SaveKey
  <2>5. \A k \in Reqs : stored'[k] = stored[k] \/ stored'[k] = req[r].cart
    BY <1>12, <2>1 DEF Reply, TypeOK
  <2>6. \A k \in Reqs : stored'[k] # None => Created(pc', stored'[k])
    BY <1>1, <2>2, <2>5 DEF FreshBags, TypeOK
  <2>7. \A i \in Reqs : item'[i] # None => Created(pc', item'[i].bag)
    BY <1>1, <2>1 DEF FreshBags, TypeOK, ItemRow
  <2>8. ~ Running(r)' \/ Created(pc', req'[r].cart)
    BY <2>2, <2>3
  <2> QED
    BY <1>4, <1>6, <2>1, <2>3, <2>4, <2>6, <2>7, <2>8 DEF FreshBags, FreshKeys
<1>13. ASSUME NEW r \in Reqs, Receive(r) \/ Fail(r) PROVE FreshBags' /\ FreshKeys'
  <2>1. /\ Running(r) /\ req[r] \in Request /\ UNCHANGED <<item, stored>> /\ ~ Running(r)'
        /\ \A q \in Reqs \ {r} : pc'[q] = pc[q] /\ req'[q] = req[q]
    BY <1>8, <1>13 DEF Receive, Fail, serverVars, Serve, Ends, Goes, Running, Over, TypeOK
  <2>2. Receive(r) => pc'[r] = "done" /\ (req[r].key # None => pc'[req[r].key] = "done")
    BY <1>2, <2>1 DEF Receive, Ends, Goes, TypeOK, FreshKeys, Request
  <2>3. \A b \in Browsers : cookie'[b] # None => pc'[cookie'[b]] = "done"
    BY <1>2, <1>13, <2>2 DEF Receive, Fail, FreshKeys, TypeOK
  <2> QED
    BY <1>4, <1>5, <2>1, <2>3 DEF FreshBags, FreshKeys
<1>14. CASE \/ \E p \in Products : Withdraw(p)
            \/ \E k \in Reqs : Expire(k)
            \/ \E b \in Browsers : Forget(b)
            \/ UNCHANGED vars
  <2>1. UNCHANGED <<item, stored, pc, req>>
    BY <1>14 DEF Withdraw, Expire, Forget, vars, serverVars, requestVars
  <2>2. \A b \in Browsers : cookie'[b] \in {cookie[b], None}
    BY <1>14 DEF Withdraw, Expire, Forget, vars, serverVars, requestVars, TypeOK
  <2> QED
    BY <2>1, <2>2 DEF FreshBags, FreshKeys, Created, Running
<1> QED
  BY <1>7, <1>9, <1>10, <1>11, <1>12, <1>13, <1>14 DEF Next, Serve

LEMMA NextFresh == OInv /\ Fresh /\ [Next]_vars => Fresh'
<1> SUFFICES ASSUME OInv, Fresh, [Next]_vars PROVE FreshRows'
  BY NextFreshNames DEF Fresh
<1> USE DEF OInv, TInv
<1>1. \A k \in Reqs : pc[k] \in Replying => pc'[k] \in Replying
  BY Forward DEF Replying
<1>2. \A q \in Reqs : pc[q] = "save" => req[q].got.id \in Reqs /\ pc'[req[q].got.id] \in Replying
  BY <1>1 DEF Fresh, FreshRows, Staged, Running, Over
<1>3. \A i \in Reqs : item[i] # None => pc'[i] \in Replying
  BY <1>1 DEF Fresh, FreshRows
<1>4. ASSUME NEW r \in Reqs, \A q \in Reqs \ {r} : pc'[q] = pc[q] /\ req'[q] = req[q],
             \A i \in Reqs : item'[i] # None => item'[i] = item[i] \/ pc'[i] \in Replying,
             pc'[r] = "save" => pc'[req'[r].got.id] \in Replying
      PROVE  FreshRows'
  BY <1>2, <1>3, <1>4 DEF FreshRows
<1>5. ASSUME NEW r \in Reqs, NEW b \in Browsers, NEW view \in Views, NEW n \in Quantities,
             NEW p \in ProductOf(view), Arrive(r, b, view, p, n)
      PROVE  FreshRows'
  <2>1. UNCHANGED item /\ \A q \in Reqs \ {r} : pc'[q] = pc[q] /\ req'[q] = req[q]
    BY <1>5 DEF Arrive, Ends, Goes, serverVars, TypeOK
  <2>2. pc'[r] # "save"
    BY <1>5 DEF Arrive, Ends, Goes, TypeOK
  <2> QED
    BY <1>4, <2>1, <2>2
<1>6. ASSUME NEW r \in Reqs, GetItem(r) PROVE FreshRows'
  <2>1. UNCHANGED item /\ \A q \in Reqs \ {r} : pc'[q] = pc[q] /\ req'[q] = req[q]
    BY <1>6 DEF GetItem, Ends, Goes, serverVars, TypeOK
  <2>2. pc'[r] = "save" => \E i \in Matches(r) : req'[r].got.id = i
    BY <1>6 DEF GetItem, Ends, Goes, TypeOK, Running, Over, Request
  <2>3. \A i \in Matches(r) : pc'[i] \in Replying
    BY <1>3 DEF Matches, ItemsOf
  <2> QED
    BY <1>4, <2>1, <2>2, <2>3
<1>7. ASSUME NEW r \in Reqs, InsertItem(r) \/ SaveItem(r) \/ \E i \in Reqs : DeleteItem(r, i) PROVE FreshRows'
  <2>1. \A q \in Reqs \ {r} : pc'[q] = pc[q] /\ req'[q] = req[q]
    BY <1>7 DEF InsertItem, SaveItem, DeleteItem, Goes, TypeOK
  <2>2. InsertItem(r) \/ SaveItem(r) => pc'[r] \in Replying
    BY <1>7 DEF InsertItem, SaveItem, Goes, TypeOK, Replying
  <2>3. SaveItem(r) => pc'[req[r].got.id] \in Replying
    BY <1>2 DEF SaveItem
  <2>4. \A i \in Reqs : item'[i] # None => item'[i] = item[i] \/ pc'[i] \in Replying
    BY <1>7, <2>2, <2>3 DEF InsertItem, SaveItem, DeleteItem, TypeOK
  <2>5. pc'[r] # "save"
    BY <1>7, <2>2 DEF DeleteItem, Replying
  <2> QED
    BY <1>4, <2>1, <2>4, <2>5
<1>8. ASSUME NEW r \in Reqs,
             \/ OpenCart(r) \/ FindItem(r) \/ ListItems(r) \/ Deleted(r) \/ Reply(r)
             \/ Receive(r) \/ Fail(r)
      PROVE  FreshRows'
  <2>1. UNCHANGED item /\ \A q \in Reqs \ {r} : pc'[q] = pc[q] /\ req'[q] = req[q]
    BY <1>8 DEF OpenCart, FindItem, ListItems, Deleted, Reply, Receive, Fail, Ends, Goes,
       serverVars, TypeOK
  <2>2. pc'[r] # "save"
    BY <1>8 DEF OpenCart, AfterOpen, FindItem, ListItems, Deleted, Reply, Receive, Fail, Ends, Goes, TypeOK
  <2> QED
    BY <1>4, <2>1, <2>2
<1>9. CASE \/ \E p \in Products : Withdraw(p)
           \/ \E k \in Reqs : Expire(k)
           \/ \E b \in Browsers : Forget(b)
           \/ UNCHANGED vars
  <2>1. UNCHANGED <<item, pc, req>>
    BY <1>9 DEF Withdraw, Expire, Forget, vars, serverVars, requestVars
  <2> QED
    BY <2>1 DEF Fresh, FreshRows
<1> QED
  BY <1>5, <1>6, <1>7, <1>8, <1>9 DEF Next, Serve

-----------------------------------------------------------------------------
(* What each query of the one request a shopper has at work does.          *)

(* Where the request goes, and what it leaves as it was.                   *)
AtWork(b, r) ==
  /\ OInv /\ OInv' /\ Fresh /\ Serves(b, r) /\ Serving(b, r)
  /\ r \in Reqs /\ b \in Browsers /\ Shopping(b)

LEMMA Locals ==
  ASSUME NEW b, NEW r, AtWork(b, r)
  PROVE  /\ Running(r) /\ browser[r] = b /\ req[r] \in Request
         /\ pc[r] # "open" => req[r].cart \in Bags
         /\ req \in [Reqs -> Request \cup {None}] /\ pc \in [Reqs -> Stages]
         /\ live \subseteq Reqs /\ None \notin Reqs /\ None \notin Bags
         /\ stored \in [Reqs -> Bags \cup {None}] /\ item \in [Reqs -> ItemRow \cup {None}]
         /\ expected \in [Browsers -> SUBSET Content] /\ cookie \in [Browsers -> Reqs \cup {None}]
BY ShopAssumption DEF AtWork, Serves, OInv, TInv, TypeOK, Staged, Bags

LEMMA NoRow == None \notin ItemRow
BY ShopAssumption DEF ItemRow, Bags

LEMMA OpenOwn ==
  ASSUME NEW b, NEW r, AtWork(b, r), OpenCart(r)
  PROVE  Shopping(b)'
<1> DEFINE key == req[r].key
           lapsed == key # None /\ key \notin live
           bag == IF key \in live THEN stored[key] ELSE None
           mine == IF bag = None THEN NewBag(r, 1) ELSE bag
<1>1. /\ Running(r) /\ browser[r] = b /\ req[r] \in Request /\ pc[r] = "open"
      /\ None \notin Reqs /\ None \notin Bags /\ live \subseteq Reqs
      /\ UNCHANGED <<stored, item, cookie, browser, expected>>
  BY Locals DEF OpenCart
<1>2. /\ pc'[r] = AfterOpen(req[r].view) /\ \A q \in Reqs \ {r} : pc'[q] = pc[q]
      /\ req'[r].cart = mine /\ req'[r].modified = (bag = None)
      /\ req'[r].key = IF lapsed THEN r ELSE key
      /\ req'[r].view = req[r].view /\ req'[r].product = req[r].product
      /\ req'[r].quantity = req[r].quantity
      /\ live' = IF lapsed THEN live \cup {r} ELSE live
  BY <1>1, Locals DEF OpenCart, Goes, Request, AtWork
<1>3. cookie[b] # r
  BY <1>1 DEF AtWork, Fresh, FreshKeys
<1>4. InCart(b)' = InCart(b)
  BY <1>1, <1>2, <1>3 DEF InCart, ItemsOf
<1>5. key = cookie[b] /\ Lists(item, InCart(b), expected[b])
  BY <1>1 DEF AtWork, Serving
<1>6. Lists(item, ItemsOf(mine), expected[b])
  <2>1. CASE bag = None
    <3>1. InCart(b) = {}
      BY <1>1, <1>5, <2>1 DEF InCart
    <3>2. expected[b] = {}
      BY <1>5, <3>1 DEF Lists
    <3>3. ItemsOf(<<r, 1>>) = {}
      BY <1>1 DEF ItemsOf, AtWork, Fresh, FreshBags, Created
    <3> QED
      BY <2>1, <3>2, <3>3 DEF NewBag, Lists
  <2>2. CASE bag # None
    BY <1>5, <2>2 DEF InCart
  <2> QED
    BY <2>1, <2>2
<1>7. bag # None => key \in live /\ stored[key] = mine /\ ~ lapsed
  OBVIOUS
<1> HIDE DEF key, lapsed, bag, mine
<1>8. ItemsOf(req[r].cart)' = ItemsOf(mine)
  BY <1>1, <1>2 DEF ItemsOf
<1>9. pc'[r] = "reply" => Lists(item', ItemsOf(mine), Wanted(r)')
  <2>1. Wanted(r)' = Wanted(r)
    BY <1>1, <1>2, WantedSame
  <2>2. pc'[r] = "reply" => req[r].view \notin {"add_to_cart", "remove_from_cart", "clear_cart"}
    BY <1>2 DEF AfterOpen
  <2>3. pc'[r] = "reply" => Wanted(r) = expected[b]
    BY <1>1, <2>2, WantedAs
  <2> QED
    BY <1>1, <1>6, <2>1, <2>3
<1>10. Serving(b, r)'
  BY <1>1, <1>2, <1>4, <1>5, <1>6, <1>7, <1>8, <1>9 DEF Serving, AfterOpen, Looking
<1>11. Running(r)'
  BY <1>2 DEF AfterOpen, Running, Over
<1> QED
  BY <1>1, <1>2, <1>10, <1>11, OwnStep DEF AtWork

(* A request that fails on what it finds leaves the cart as it was.        *)
LEMMA EndOwn ==
  ASSUME NEW b, NEW r, AtWork(b, r), pc[r] \in Looking, Ends(r, "failed"),
         UNCHANGED <<serverVars, cookie, browser, expected>>
  PROVE  Shopping(b)'
<1>1. /\ InCart(b)' = InCart(b) /\ Lists(item, InCart(b), expected[b])
      /\ UNCHANGED <<item, expected>>
  BY DEF InCart, ItemsOf, serverVars, AtWork, Serving
<1>2. ~ Running(r)' /\ \A q \in Reqs \ {r} : pc'[q] = pc[q]
  BY Locals DEF Ends, Goes, Running, Over, AtWork
<1> QED
  BY <1>1, <1>2, OwnStep DEF AtWork

LEMMA GetOwn ==
  ASSUME NEW b, NEW r, AtWork(b, r), GetItem(r)
  PROVE  Shopping(b)'
<1>1. /\ pc[r] = "get" /\ UNCHANGED <<serverVars, cookie, browser, history>> /\ req[r] \in Request
      /\ browser[r] = b /\ Serving(b, r) /\ Running(r) /\ r \in Reqs
  BY Locals DEF GetItem, AtWork
<1>2. InCart(b)' = InCart(b)
  BY <1>1 DEF InCart, ItemsOf, serverVars
<1>3. CASE Matches(r) = {} /\ Goes(r, "insert") /\ UNCHANGED req
  <2>1. /\ ItemsOf(req[r].cart)' = ItemsOf(req[r].cart) /\ Matches(r)' = Matches(r)
        /\ pc'[r] = "insert" /\ Running(r)' /\ \A q \in Reqs \ {r} : pc'[q] = pc[q]
    BY <1>1, <1>3, Locals DEF ItemsOf, Matches, serverVars, Goes, Running, Over
  <2>2. Serving(b, r)'
    BY <1>1, <1>2, <1>3, <2>1 DEF Serving, Looking, serverVars, history
  <2> QED
    BY <1>1, <2>1, <2>2, OwnStep DEF AtWork
<1>4. ASSUME NEW i \in Matches(r), Goes(r, "save"),
             req' = [req EXCEPT ![r].got = [id |-> i, quantity |-> item[i].quantity]]
      PROVE  Shopping(b)'
  <2>1. /\ req'[r].cart = req[r].cart /\ req'[r].product = req[r].product
        /\ req'[r].key = req[r].key /\ req'[r].modified = req[r].modified
        /\ req'[r].got.id = i /\ req'[r].got.quantity = item[i].quantity
    BY <1>1, <1>4, Locals DEF Request
  <2>2. /\ ItemsOf(req[r].cart)' = ItemsOf(req[r].cart) /\ Matches(r)' = Matches(r)
        /\ pc'[r] = "save" /\ Running(r)' /\ \A q \in Reqs \ {r} : pc'[q] = pc[q]
    BY <1>1, <1>4, <2>1, Locals DEF ItemsOf, Matches, serverVars, Goes, Running, Over
  <2>3. Serving(b, r)'
    BY <1>1, <1>2, <2>1, <2>2 DEF Serving, Looking, serverVars, history
  <2> QED
    BY <1>1, <2>2, <2>3, OwnStep DEF AtWork
<1>5. CASE Ends(r, "failed")
  BY <1>1, <1>5, EndOwn DEF Looking, history
<1> QED
  BY <1>3, <1>4, <1>5 DEF GetItem

(* Once the rows are written only the answer to the request is to come.    *)
LEMMA WriteOwn ==
  ASSUME NEW b, NEW r, AtWork(b, r), pc[r] \in {"insert", "save"}, Goes(r, "reply"),
         UNCHANGED <<catalog, live, stored, cookie, browser, req, history>>,
         Lists(item', ItemsOf(req[r].cart)', Wanted(r))
  PROVE  Shopping(b)'
<1>1. /\ pc'[r] = "reply" /\ Running(r)' /\ \A q \in Reqs \ {r} : pc'[q] = pc[q]
  BY Locals DEF Goes, Running, Over, AtWork
<1>2. Wanted(r)' = Wanted(r)
  BY WantedSame DEF history
<1>3. ~ req[r].modified => /\ req[r].key = cookie[b] /\ req[r].key \in live
                           /\ stored[req[r].key] = req[r].cart
  BY DEF AtWork, Serving, Looking
<1>4. Serving(b, r)'
  BY <1>1, <1>2, <1>3 DEF Serving, Looking
<1> QED
  BY <1>1, <1>4, OwnStep DEF AtWork

LEMMA InsertOwn ==
  ASSUME NEW b, NEW r, AtWork(b, r), InsertItem(r)
  PROVE  Shopping(b)'
<1> DEFINE had == expected[b]
           p == req[r].product
           rows == ItemsOf(req[r].cart)
           line == [product |-> p, quantity |-> req[r].quantity]
<1>1. /\ pc[r] = "insert" /\ r \in Reqs /\ browser[r] = b /\ Goes(r, "reply")
      /\ item' = [item EXCEPT ![r] = Row(r, req[r].quantity)]
      /\ UNCHANGED <<catalog, live, stored, cookie, browser, req, history>>
      /\ req[r].cart \in Bags /\ None \notin Bags
      /\ item \in [Reqs -> ItemRow \cup {None}] /\ req[r].view = "add_to_cart"
      /\ \A i \in rows : item[i].product # p
      /\ Lists(item, rows, had)
  BY Locals DEF InsertItem, AtWork, Serving, Looking, Matches, OInv, TInv, Staged
<1>2. item[r] = None
  BY <1>1 DEF AtWork, Fresh, FreshRows, Replying
<1>3. \A e \in had : e.product # p
  BY <1>1 DEF Lists, Line
<1>4. Wanted(r) = had \cup {line}
  <2>1. {e \in had : e.product # p} = had
    BY <1>3
  <2> QED
    BY <1>1, <2>1, WantedAs
<1>5. ItemsOf(req[r].cart)' = rows \cup {r} /\ r \notin rows
  <2>1. Row(r, req[r].quantity) \in ItemRow
    <3>1. Running(r) /\ req[r] \in Request /\ p \in Products
      BY <1>1, Locals DEF AtWork, OInv, TInv, Staged, ProductViews
    <3> QED
      BY <1>1, <3>1, ShopAssumption DEF Row, ItemRow, Request
  <2>2. item'[r] # None /\ item'[r].bag = req[r].cart
    BY <1>1, <2>1, NoRow DEF Row
  <2> QED
    BY <1>1, <1>2, <2>2 DEF ItemsOf
<1>6. Line(item', r) = line /\ \A i \in rows : item'[i] = item[i]
  BY <1>1, <1>5 DEF Line, Row
<1>7. Lists(item', rows \cup {r}, had \cup {line})
  <2> HIDE DEF rows, had
  <2>1. \A i \in rows : Line(item', i) = Line(item, i) /\ item'[i].product # p
    BY <1>1, <1>6 DEF Line
  <2>2. line.product = p /\ item'[r].product = p
    BY <1>6 DEF Line
  <2> HIDE DEF line
  <2>3. \A i \in rows \cup {r} : Line(item', i) \in had \cup {line}
    BY <1>1, <1>6, <2>1 DEF Lists
  <2>4. \A e \in had \cup {line} : \E i \in rows \cup {r} : Line(item', i) = e
    <3>1. \A e \in had : \E i \in rows : Line(item, i) = e
      BY <1>1 DEF Lists
    <3>2. ASSUME NEW e \in had PROVE \E i \in rows \cup {r} : Line(item', i) = e
      BY <2>1, <3>1
    <3> QED
      BY <1>6, <3>2
  <2>5. \A i, j \in rows : item'[i].product = item'[j].product => i = j
    BY <1>1, <1>6 DEF Lists
  <2>6. \A i, j \in rows \cup {r} : item'[i].product = item'[j].product => i = j
    BY <2>1, <2>2, <2>5
  <2> QED
    BY <2>3, <2>4, <2>6 DEF Lists
<1> QED
  BY <1>1, <1>4, <1>5, <1>7, WriteOwn

LEMMA SaveOwn ==
  ASSUME NEW b, NEW r, AtWork(b, r), SaveItem(r)
  PROVE  Shopping(b)'
<1> DEFINE had == expected[b]
           p == req[r].product
           rows == ItemsOf(req[r].cart)
           id == req[r].got.id
           others == {e \in had : e.product # p}
           bumped == [product |-> p, quantity |-> item[id].quantity + 1]
<1>1. /\ pc[r] = "save" /\ r \in Reqs /\ browser[r] = b /\ Goes(r, "reply")
      /\ item' = [item EXCEPT ![id] = Row(r, item[id].quantity + 1)]
      /\ UNCHANGED <<catalog, live, stored, cookie, browser, req, history>>
      /\ item \in [Reqs -> ItemRow \cup {None}] /\ req[r].view = "add_to_cart"
      /\ id \in rows /\ item[id].product = p /\ had \in SUBSET Content
      /\ Lists(item, rows, had)
  BY Locals DEF SaveItem, AtWork, Serving, Looking, Matches, OInv, TInv, Staged
<1>2. /\ id \in Reqs /\ item[id] \in ItemRow /\ item[id] # None /\ item[id].bag = req[r].cart
      /\ rows \subseteq Reqs
  BY <1>1, ShopAssumption DEF ItemsOf
<1>3. Line(item, id) \in had /\ \A e \in had : e.product = p => e = Line(item, id)
  BY <1>1 DEF Lists, Line
<1>4. Wanted(r) = others \cup {bumped}
  <2>1. others # had /\ had \ others = {Line(item, id)}
    BY <1>1, <1>3 DEF Line
  <2>2. [Line(item, id) EXCEPT !.quantity = @ + 1] = bumped
    BY <1>1 DEF Line
  <2>3. Wanted(r) = others \cup {[e EXCEPT !.quantity = @ + 1] : e \in had \ others}
    BY <1>1, <2>1 DEF Wanted
  <2> QED
    BY <2>1, <2>2, <2>3
<1>5. item'[id] = Row(r, item[id].quantity + 1) /\ \A i \in Reqs \ {id} : item'[i] = item[i]
  BY <1>1, <1>2
<1>6. ItemsOf(req[r].cart)' = rows
  <2>1. Row(r, item[id].quantity + 1) \in ItemRow
    BY <1>1, <1>2 DEF Row, ItemRow
  <2> QED
    BY <1>1, <1>2, <1>5, <2>1, NoRow DEF ItemsOf, Row
<1>7. Line(item', id) = bumped
  BY <1>5 DEF Line, Row
<1>8. Lists(item', rows, others \cup {bumped})
  <2> HIDE DEF rows, id, had
  <2>1. \A i \in rows \ {id} : Line(item', i) = Line(item, i) /\ Line(item, i) \in others
    BY <1>1, <1>2, <1>5 DEF Lists, Line
  <2>2. \A i \in rows : item'[i].product = item[i].product
    BY <1>1, <1>2, <1>5 DEF Row
  <2>3. \A e \in others : \E i \in rows \ {id} : Line(item, i) = e
    BY <1>1 DEF Lists, Line
  <2> HIDE DEF others, bumped
  <2>4. \A i \in rows : Line(item', i) \in others \cup {bumped}
    BY <1>7, <2>1
  <2>5. \A e \in others \cup {bumped} : \E i \in rows : Line(item', i) = e
    BY <1>1, <1>7, <2>1, <2>3
  <2>6. \A i, j \in rows : item'[i].product = item'[j].product => i = j
    BY <1>1, <2>2 DEF Lists
  <2> QED
    BY <2>4, <2>5, <2>6 DEF Lists
<1> QED
  BY <1>1, <1>4, <1>6, <1>8, WriteOwn

LEMMA LookOwn ==
  ASSUME NEW b, NEW r, AtWork(b, r), FindItem(r) \/ ListItems(r)
  PROVE  Shopping(b)'
<1> DEFINE rows == ItemsOf(req[r].cart)
<1>1. /\ pc[r] \in {"find", "list"} /\ r \in Reqs /\ browser[r] = b /\ req[r] \in Request
      /\ UNCHANGED <<serverVars, cookie, browser, history>> /\ Lists(item, rows, expected[b])
      /\ req \in [Reqs -> Request \cup {None}]
  BY Locals DEF FindItem, ListItems, AtWork, Serving, Looking
<1>2. CASE Ends(r, "failed")
  BY <1>1, <1>2, EndOwn DEF Looking, history
<1>3. ASSUME NEW found, Goes(r, "delete"), req' = [req EXCEPT ![r].todo = found],
             Lists(item, rows \ found, Wanted(r))
      PROVE  Shopping(b)'
  <2>1. /\ req'[r].cart = req[r].cart /\ req'[r].product = req[r].product
        /\ req'[r].key = req[r].key /\ req'[r].modified = req[r].modified
        /\ req'[r].view = req[r].view /\ req'[r].quantity = req[r].quantity
        /\ req'[r].todo = found
    BY <1>1, <1>3 DEF Request
  <2>2. /\ pc'[r] = "delete" /\ Running(r)' /\ \A q \in Reqs \ {r} : pc'[q] = pc[q]
        /\ UNCHANGED <<item, expected, cookie, live, stored, browser>>
    BY <1>1, <1>3, Locals DEF Goes, Running, Over, serverVars, history
  <2>3. Wanted(r)' = Wanted(r) /\ ItemsOf(req[r].cart)' = rows
    BY <1>1, <2>1, <2>2, WantedSame DEF ItemsOf
  <2>4. ~ req[r].modified => /\ req[r].key = cookie[b] /\ req[r].key \in live
                             /\ stored[req[r].key] = req[r].cart
    BY <1>1 DEF AtWork, Serving, Looking
  <2>5. Lists(item', ItemsOf(req[r].cart)' \ req'[r].todo, Wanted(r)')
    BY <1>3, <2>1, <2>2, <2>3
  <2> HIDE DEF rows
  <2>6. Serving(b, r)'
    BY <2>1, <2>2, <2>4, <2>5 DEF Serving, Looking
  <2> QED
    BY <2>2, <2>6, OwnStep DEF AtWork
<1>4. CASE FindItem(r) /\ ~ Ends(r, "failed")
  <2>1. Goes(r, "delete") /\ req' = [req EXCEPT ![r].todo = Matches(r)] /\ req[r].view = "remove_from_cart"
    BY <1>4 DEF FindItem, AtWork, Serving
  <2>2. Wanted(r) = {e \in expected[b] : e.product # req[r].product}
    BY <1>1, <2>1, WantedAs
  <2>3. rows \ Matches(r) = {i \in rows : item[i].product # req[r].product}
    BY DEF Matches
  <2>4. Lists(item, rows \ Matches(r), Wanted(r))
    <3> HIDE DEF rows
    <3> QED
      BY <1>1, <2>2, <2>3 DEF Lists, Line
  <2> QED
    BY <1>3, <2>1, <2>4
<1>5. CASE ListItems(r)
  <2>1. Goes(r, "delete") /\ req' = [req EXCEPT ![r].todo = rows] /\ req[r].view = "clear_cart"
    BY <1>5 DEF ListItems, AtWork, Serving
  <2>2. Wanted(r) = {}
    BY <2>1, WantedAs
  <2>3. Lists(item, rows \ rows, Wanted(r))
    BY <2>2 DEF Lists
  <2> QED
    BY <1>3, <2>1, <2>3
<1> QED
  BY <1>2, <1>4, <1>5

LEMMA DeleteOwn ==
  ASSUME NEW b, NEW r, AtWork(b, r), NEW i \in Reqs, DeleteItem(r, i)
  PROVE  Shopping(b)'
<1> DEFINE rows == ItemsOf(req[r].cart)
           todo == req[r].todo
<1>1. /\ pc[r] = "delete" /\ r \in Reqs /\ browser[r] = b /\ req[r] \in Request
      /\ UNCHANGED <<catalog, live, stored, cookie, browser, pc, history>>
      /\ req \in [Reqs -> Request \cup {None}] /\ item \in [Reqs -> ItemRow \cup {None}]
      /\ Lists(item, rows \ todo, Wanted(r)) /\ i \in todo
      /\ item' = [item EXCEPT ![i] = None]
  BY Locals DEF DeleteItem, AtWork, Serving
<1>2. /\ req'[r].cart = req[r].cart /\ req'[r].product = req[r].product
      /\ req'[r].key = req[r].key /\ req'[r].modified = req[r].modified
      /\ req'[r].view = req[r].view /\ req'[r].quantity = req[r].quantity
      /\ req'[r].todo = todo \ {i}
  BY <1>1 DEF Request, DeleteItem
<1>3. ItemsOf(req[r].cart)' = rows \ {i}
  BY <1>1, <1>2 DEF ItemsOf
<1>4. \A j \in rows \ todo : item'[j] = item[j]
  BY <1>1 DEF ItemsOf
<1>5. (rows \ {i}) \ (todo \ {i}) = rows \ todo
  BY <1>1
<1>6. Wanted(r)' = Wanted(r)
  BY <1>1, <1>2, WantedSame DEF history
<1> HIDE DEF rows, todo
<1>7. Lists(item', rows \ todo, Wanted(r)')
  BY <1>1, <1>4, <1>6, ListsSame
<1>8. ~ req[r].modified => /\ req[r].key = cookie[b] /\ req[r].key \in live
                           /\ stored[req[r].key] = req[r].cart
  BY <1>1 DEF AtWork, Serving, Looking
<1>9. Serving(b, r)' /\ Running(r)'
  BY <1>1, <1>2, <1>3, <1>5, <1>7, <1>8 DEF Serving, Looking, Running, Over
<1> QED
  BY <1>1, <1>9, OwnStep DEF AtWork

LEMMA DeletedOwn ==
  ASSUME NEW b, NEW r, AtWork(b, r), Deleted(r)
  PROVE  Shopping(b)'
<1>1. /\ pc[r] = "delete" /\ r \in Reqs /\ browser[r] = b /\ req[r] \in Request
      /\ UNCHANGED <<serverVars, cookie, browser, history>>
      /\ req \in [Reqs -> Request \cup {None}]
      /\ Lists(item, ItemsOf(req[r].cart), Wanted(r))
      /\ ~ req[r].modified => /\ req[r].key = cookie[b] /\ req[r].key \in live
                              /\ stored[req[r].key] = req[r].cart
  <2>1. req[r].todo = {} /\ pc[r] = "delete"
    BY DEF Deleted
  <2>2. ItemsOf(req[r].cart) \ {} = ItemsOf(req[r].cart)
    OBVIOUS
  <2> QED
    BY <2>1, <2>2, Locals DEF Deleted, AtWork, Serving, Looking
<1>2. /\ pc'[r] = "reply" /\ Running(r)' /\ \A q \in Reqs \ {r} : pc'[q] = pc[q]
      /\ UNCHANGED <<item, expected, cookie, live, stored, browser>>
  BY <1>1, Locals DEF Deleted, Goes, Running, Over, serverVars, history
<1>3. CASE req[r].view = "clear_cart"
  <2>1. /\ req'[r].cart = <<r, 2>> /\ req'[r].modified = TRUE
        /\ req'[r].view = req[r].view /\ req'[r].quantity = req[r].quantity
        /\ req'[r].product = req[r].product
    BY <1>1, <1>3 DEF Deleted, NewBag, Request
  <2>2. Wanted(r)' = {}
    BY <1>2, <1>3, <2>1, WantedSame, WantedAs
  <2>3. ItemsOf(req[r].cart)' = {}
    BY <1>1, <1>2, <2>1 DEF ItemsOf, AtWork, Fresh, FreshBags, Created
  <2>4. Serving(b, r)'
    BY <1>2, <2>1, <2>2, <2>3 DEF Serving, Looking, Lists
  <2> QED
    BY <1>2, <2>4, OwnStep DEF AtWork
<1>4. CASE req[r].view # "clear_cart"
  <2>1. UNCHANGED req
    BY <1>4 DEF Deleted
  <2>2. Wanted(r)' = Wanted(r) /\ ItemsOf(req[r].cart)' = ItemsOf(req[r].cart)
    BY <1>2, <2>1, WantedSame DEF ItemsOf
  <2>3. Serving(b, r)'
    BY <1>1, <1>2, <2>1, <2>2 DEF Serving, Looking
  <2> QED
    BY <1>2, <2>3, OwnStep DEF AtWork
<1> QED
  BY <1>3, <1>4

LEMMA ReplyOwn ==
  ASSUME NEW b, NEW r, AtWork(b, r), Reply(r)
  PROVE  Shopping(b)'
<1>1. /\ pc[r] = "reply" /\ r \in Reqs /\ b \in Browsers /\ browser[r] = b /\ req[r] \in Request
      /\ UNCHANGED <<catalog, item, cookie, browser, calm, twice>>
      /\ req \in [Reqs -> Request \cup {None}]
      /\ Lists(item, ItemsOf(req[r].cart), Wanted(r))
      /\ ~ req[r].modified => /\ req[r].key = cookie[b] /\ req[r].key \in live
                              /\ stored[req[r].key] = req[r].cart
      /\ req[r].cart # None /\ SaveKey(r) \in Reqs
      /\ stored \in [Reqs -> Bags \cup {None}] /\ expected \in [Browsers -> SUBSET Content]
  <2>1. pc[r] = "reply" /\ UNCHANGED <<catalog, item, cookie, browser, calm, twice>>
    BY DEF Reply
  <2>2. r \in Reqs /\ b \in Browsers /\ Serving(b, r)
    BY DEF AtWork
  <2>3. /\ Lists(item, ItemsOf(req[r].cart), Wanted(r))
        /\ ~ req[r].modified => /\ req[r].key = cookie[b] /\ req[r].key \in live
                                /\ stored[req[r].key] = req[r].cart
    BY <2>1, <2>2 DEF Serving, Looking
  <2>4. /\ browser[r] = b /\ req[r] \in Request /\ req[r].cart # None
        /\ req \in [Reqs -> Request \cup {None}]
        /\ stored \in [Reqs -> Bags \cup {None}] /\ expected \in [Browsers -> SUBSET Content]
    BY <2>1, Locals
  <2>5. SaveKey(r) \in Reqs
    BY <2>2, <2>4 DEF SaveKey, Request
  <2> QED
    BY <2>1, <2>2, <2>3, <2>4, <2>5
<1>2. CASE req[r].modified \/ req[r].view \in EndsInShop
  <2>1. /\ req'[r].cart = req[r].cart /\ req'[r].key = SaveKey(r)
        /\ req'[r].view = req[r].view /\ req'[r].quantity = req[r].quantity
        /\ req'[r].product = req[r].product
    BY <1>1, <1>2 DEF Reply, Request
  <2>2. /\ pc'[r] = "sent" /\ Running(r)' /\ \A q \in Reqs \ {r} : pc'[q] = pc[q]
        /\ UNCHANGED expected /\ SaveKey(r) \in live' /\ stored'[SaveKey(r)] = req[r].cart
    BY <1>1, <1>2, Locals DEF Reply, Goes, Running, Over
  <2>3. Wanted(r)' = Wanted(r) /\ ItemsOf(req[r].cart)' = ItemsOf(req[r].cart)
    BY <1>1, <2>1, <2>2, WantedSame DEF ItemsOf
  <2>4. Serving(b, r)'
    BY <1>1, <2>1, <2>2, <2>3 DEF Serving, Looking
  <2> QED
    BY <1>1, <2>2, <2>4, OwnStep DEF AtWork
<1>3. CASE ~ (req[r].modified \/ req[r].view \in EndsInShop)
  <2>1. /\ ~ Running(r)' /\ \A q \in Reqs \ {r} : pc'[q] = pc[q]
        /\ UNCHANGED <<live, stored>> /\ expected'[b] = Wanted(r)
    BY <1>1, <1>3, Locals DEF Reply, Ends, Goes, Running, Over, Fulfil
  <2>2. InCart(b)' = ItemsOf(req[r].cart)
    BY <1>1, <1>3, <2>1 DEF InCart, ItemsOf
  <2> QED
    BY <1>1, <2>1, <2>2, OwnStep DEF AtWork
<1> QED
  BY <1>2, <1>3

LEMMA ReceiveOwn ==
  ASSUME NEW b, NEW r, AtWork(b, r), Receive(r)
  PROVE  Shopping(b)'
<1>1. /\ pc[r] = "sent" /\ r \in Reqs /\ b \in Browsers /\ browser[r] = b
      /\ UNCHANGED <<serverVars, browser>>
      /\ Lists(item, ItemsOf(req[r].cart), Wanted(r))
      /\ req[r].key \in live /\ stored[req[r].key] = req[r].cart /\ req[r].cart # None
      /\ expected \in [Browsers -> SUBSET Content] /\ cookie \in [Browsers -> Reqs \cup {None}]
  <2>1. pc[r] = "sent" /\ UNCHANGED <<serverVars, browser>>
    BY DEF Receive
  <2>2. r \in Reqs /\ b \in Browsers /\ Serving(b, r)
    BY DEF AtWork
  <2>3. /\ Lists(item, ItemsOf(req[r].cart), Wanted(r))
        /\ req[r].key \in live /\ stored[req[r].key] = req[r].cart
    BY <2>1, <2>2 DEF Serving
  <2>4. /\ browser[r] = b /\ req[r].cart # None
        /\ expected \in [Browsers -> SUBSET Content] /\ cookie \in [Browsers -> Reqs \cup {None}]
    BY <2>1, Locals
  <2> QED
    BY <2>1, <2>2, <2>3, <2>4
<1>2. /\ ~ Running(r)' /\ \A q \in Reqs \ {r} : pc'[q] = pc[q]
      /\ expected'[b] = Wanted(r) /\ cookie'[b] = req[r].key
      /\ UNCHANGED <<live, stored, item>>
  BY <1>1, Locals DEF Receive, Ends, Goes, Running, Over, Fulfil, serverVars
<1>3. InCart(b)' = ItemsOf(req[r].cart)
  BY <1>1, <1>2 DEF InCart, ItemsOf
<1> QED
  BY <1>1, <1>2, <1>3, OwnStep DEF AtWork

LEMMA OwnServe ==
  ASSUME NEW b, NEW r, AtWork(b, r), Serve(r), b \in calm'
  PROVE  Shopping(b)'
<1>1. CASE OpenCart(r)
  BY <1>1, OpenOwn
<1>2. CASE GetItem(r)
  BY <1>2, GetOwn
<1>3. CASE InsertItem(r)
  BY <1>3, InsertOwn
<1>4. CASE SaveItem(r)
  BY <1>4, SaveOwn
<1>5. CASE FindItem(r) \/ ListItems(r)
  BY <1>5, LookOwn
<1>6. ASSUME NEW i \in Reqs, DeleteItem(r, i) PROVE Shopping(b)'
  BY <1>6, DeleteOwn
<1>7. CASE Deleted(r)
  BY <1>7, DeletedOwn
<1>8. CASE Reply(r)
  BY <1>8, ReplyOwn
<1>9. CASE Receive(r)
  BY <1>9, ReceiveOwn
<1>10. ~ Fail(r)
  BY Locals DEF Fail
<1> QED
  BY <1>1, <1>2, <1>3, <1>4, <1>5, <1>6, <1>7, <1>8, <1>9, <1>10 DEF Serve

LEMMA ArriveShopping ==
  ASSUME OInv, OInv', NEW b \in calm', Shopping(b), NEW r \in Reqs, NEW c \in Browsers, NEW view \in Views,
         NEW n \in Quantities, NEW p \in ProductOf(view), Arrive(r, c, view, p, n)
  PROVE  Shopping(b)'
<1> USE DEF OInv, TInv
<1>1. /\ b \in Browsers /\ pc[r] = "new" /\ browser[r] = None /\ browser[r] # b
      /\ browser' = [browser EXCEPT ![r] = c] /\ browser'[r] = c
      /\ UNCHANGED <<serverVars, cookie, expected, twice>>
      /\ \A q \in Reqs \ {r} : pc'[q] = pc[q] /\ req'[q] = req[q] /\ browser'[q] = browser[q]
  BY ShopAssumption DEF Arrive, Ends, Goes, TypeOK
<1>2. CASE c # b
  BY <1>1, <1>2, LeftAlone DEF serverVars
<1>3. CASE c = b
  <2>1. ~ Busy(b) /\ ~ Running(r)
    BY <1>1, <1>3 DEF Arrive, Running, Over
  <2>2. \A q \in Reqs : Serves(b, q)' => q = r
    BY <1>1, <2>1 DEF Serves, Running, Busy
  <2>3. InCart(b)' = InCart(b) /\ Lists(item, InCart(b), expected[b]) /\ UNCHANGED <<item, expected>>
    BY <1>1, <2>1 DEF InCart, ItemsOf, serverVars, Shopping
  <2>4. Running(r)' => /\ pc'[r] = "open" /\ req'[r].key = cookie[b] /\ ~ req'[r].modified
    BY <1>3, <1>1 DEF Arrive, Ends, Goes, Running, Over, TypeOK
  <2>5. Running(r)' => Serving(b, r)'
    BY <1>1, <2>3, <2>4 DEF Serving, Looking
  <2> QED
    BY <2>2, <2>3, <2>5 DEF Shopping, Serves, Busy
<1> QED
  BY <1>2, <1>3

LEMMA OutsideShopping ==
  ASSUME OInv, OInv', NEW b \in calm', Shopping(b),
         \/ \E p \in Products : Withdraw(p)
         \/ \E k \in Reqs : Expire(k)
         \/ \E c \in Browsers : Forget(c)
         \/ UNCHANGED vars
  PROVE  Shopping(b)'
<1> USE DEF OInv, TInv
<1>1. b \in Browsers
  BY DEF TypeOK
<1>2. CASE (\E p \in Products : Withdraw(p)) \/ UNCHANGED vars
  BY <1>1, <1>2, LeftAlone DEF Withdraw, vars, serverVars, requestVars, history
<1>3. ASSUME Lists(item, {}, {}), ~ Busy(b), UNCHANGED <<item, requestVars>>, expected'[b] = {}, InCart(b)' = {}
      PROVE  Shopping(b)'
  <2>1. \A q \in Reqs : ~ Serves(b, q)'
    BY <1>3 DEF Busy, Serves, Running, requestVars
  <2> QED
    BY <1>3, <2>1 DEF Shopping
<1>4. Lists(item, {}, {})
  BY DEF Lists
<1>5. ASSUME NEW k \in Reqs, Expire(k) PROVE Shopping(b)'
  <2> DEFINE holders == {c \in Browsers : cookie[c] = k \/ \E r \in Reqs :
                           Running(r) /\ browser[r] = c /\ req[r].key = k}
  <2>1. /\ live' = live \ {k} /\ UNCHANGED <<catalog, stored, item, cookie, requestVars>>
        /\ expected' = [c \in Browsers |-> IF c \in holders THEN {} ELSE expected[c]]
        /\ b \notin {c \in holders : Busy(c)}
    BY <1>5 DEF Expire, Emptied
  <2>2. CASE b \in holders
    <3>1. ~ Busy(b) /\ expected'[b] = {}
      BY <1>1, <2>1, <2>2
    <3>2. cookie[b] = k
      BY <2>2, <3>1 DEF Busy
    <3>3. InCart(b)' = {}
      BY <2>1, <3>2 DEF InCart
    <3> QED
      BY <1>3, <1>4, <2>1, <3>1, <3>3
  <2>3. CASE b \notin holders
    <3>1. \A q \in Reqs : Named(b, q) => q # k
      BY <1>1, <2>3 DEF Named, Serves
    <3>2. expected'[b] = expected[b]
      BY <1>1, <2>1, <2>3
    <3> QED
      BY <1>1, <2>1, <3>1, <3>2, LeftAlone DEF requestVars
  <2> QED
    BY <2>2, <2>3
<1>6. ASSUME NEW c \in Browsers, Forget(c) PROVE Shopping(b)'
  <2>1. /\ cookie' = [cookie EXCEPT ![c] = None] /\ UNCHANGED <<serverVars, requestVars>>
        /\ expected' = [d \in Browsers |-> IF d \in {c} THEN {} ELSE expected[d]]
        /\ b \notin {d \in {c} : Busy(d)}
    BY <1>6 DEF Forget, Emptied
  <2>2. CASE b = c
    <3>1. ~ Busy(b) /\ expected'[b] = {} /\ cookie'[b] = None /\ None \notin live'
      BY <1>1, <2>1, <2>2, ShopAssumption DEF TypeOK
    <3>2. InCart(b)' = {}
      BY <3>1 DEF InCart
    <3> QED
      BY <1>3, <1>4, <2>1, <3>1, <3>2 DEF serverVars
  <2>3. CASE b # c
    <3>1. cookie'[b] = cookie[b] /\ expected'[b] = expected[b]
      BY <1>1, <2>1, <2>3 DEF TypeOK
    <3> QED
      BY <1>1, <2>1, <3>1, LeftAlone DEF serverVars, requestVars
  <2> QED
    BY <2>2, <2>3
<1> QED
  BY <1>2, <1>5, <1>6

LEMMA NextEInv == EInv /\ [Next]_vars => EInv'
<1> SUFFICES ASSUME EInv, [Next]_vars PROVE EInv'
  OBVIOUS
<1>1. OInv /\ OInv' /\ Fresh /\ Fresh'
  BY NextOInv, NextFresh DEF EInv
<1>2. IsFiniteSet(Rows')
  <2>1. \E x : Rows' \subseteq Rows \cup {x}
    <3> item \in [Reqs -> ItemRow \cup {None}]
      BY <1>1 DEF OInv, TInv, TypeOK
    <3>1. ASSUME NEW r \in Reqs, InsertItem(r) \/ SaveItem(r)
          PROVE  \E x : Rows' \subseteq Rows \cup {x}
      <4>1. CASE InsertItem(r)
        <5>1. \A i \in Reqs \ {r} : item'[i] = item[i]
          BY <4>1 DEF InsertItem
        <5> QED
          BY <5>1 DEF Rows
      <4>2. CASE SaveItem(r)
        <5>1. \A i \in Reqs \ {req[r].got.id} : item'[i] = item[i]
          BY <4>2 DEF SaveItem
        <5> QED
          BY <5>1 DEF Rows
      <4> QED
        BY <3>1, <4>1, <4>2
    <3>2. CASE ~ \E r \in Reqs : InsertItem(r) \/ SaveItem(r)
      <4>1. UNCHANGED item \/ \E r, i \in Reqs : DeleteItem(r, i)
        <5>1. ASSUME NEW r \in Reqs, Serve(r), ~ \E i \in Reqs : DeleteItem(r, i)
              PROVE  UNCHANGED item
          BY <3>2, <5>1 DEF Serve, OpenCart, GetItem, FindItem, ListItems,
             Deleted, Reply, Receive, Fail, serverVars
        <5>2. CASE ~ \E r \in Reqs : Serve(r)
          BY <5>2 DEF Next, Arrive, Withdraw, Expire, Forget, vars, serverVars
        <5> QED
          BY <5>1, <5>2
      <4>2. \A i \in Reqs : item'[i] # None => item'[i] = item[i]
        BY <4>1 DEF DeleteItem
      <4> QED
        BY <4>2 DEF Rows
    <3> QED
      BY <3>1, <3>2
  <2>2. IsFiniteSet(Rows)
    BY DEF EInv
  <2> QED
    BY <2>1, <2>2, FS_AddElement, FS_Subset
<1>3. ASSUME NEW b \in calm' PROVE Shopping(b)'
  <2>1. b \in calm /\ b \in Browsers /\ Shopping(b)
    <3>1. calm' \subseteq calm
      <4>1. ASSUME NEW r \in Reqs, Serve(r) PROVE calm' \subseteq calm
        BY <4>1 DEF Serve, OpenCart, GetItem, InsertItem, SaveItem, FindItem, ListItems, DeleteItem,
           Deleted, Reply, Receive, Fail, history
      <4>2. ASSUME NEW r \in Reqs, NEW c \in Browsers, NEW view \in Views, NEW n \in Quantities,
                   NEW p \in ProductOf(view), Arrive(r, c, view, p, n)
            PROVE  calm' \subseteq calm
        BY <4>2 DEF Arrive
      <4>3. CASE \/ \E p \in Products : Withdraw(p)
                 \/ \E k \in Reqs : Expire(k)
                 \/ \E c \in Browsers : Forget(c)
                 \/ UNCHANGED vars
        BY <4>3 DEF Withdraw, Expire, Forget, Emptied, vars, history
      <4> QED
        BY <4>1, <4>2, <4>3 DEF Next
    <3> QED
      BY <1>1, <3>1 DEF EInv, OInv, TInv, TypeOK
  <2>2. ASSUME NEW r \in Reqs, Serve(r) PROVE Shopping(b)'
    <3>1. CASE browser[r] # b
      <4>1. /\ cookie'[b] = cookie[b] /\ expected'[b] = expected[b] /\ UNCHANGED browser
            /\ \A k \in Reqs : Named(b, k) => stored'[k] = stored[k] /\ (k \in live' <=> k \in live)
            /\ \A i \in Reqs : browser[i] = b => item'[i] = item[i]
            /\ \A q \in Reqs : browser[q] = b => pc'[q] = pc[q] /\ req'[q] = req[q]
        BY <1>1, <2>1, <2>2, <3>1, ServeFrame
      <4> QED
        BY <1>1, <2>1, <4>1, LeftAlone
    <3>2. CASE browser[r] = b
      <4>1. Running(r)
        BY <2>2 DEF Serve, OpenCart, GetItem, InsertItem, SaveItem, FindItem, ListItems, DeleteItem,
           Deleted, Reply, Receive, Fail, Running, Over
      <4>2. AtWork(b, r)
        BY <1>1, <2>1, <3>2, <4>1 DEF AtWork, Serves, Shopping
      <4> QED
        BY <2>2, <4>2, OwnServe
    <3> QED
      BY <3>1, <3>2
  <2>3. ASSUME NEW r \in Reqs, NEW c \in Browsers, NEW view \in Views, NEW n \in Quantities,
               NEW p \in ProductOf(view), Arrive(r, c, view, p, n)
        PROVE  Shopping(b)'
    BY <1>1, <2>1, <2>3, ArriveShopping
  <2> QED
    BY <1>1, <2>1, <2>2, <2>3, OutsideShopping DEF Next
<1> QED
  BY <1>1, <1>2, <1>3 DEF EInv

(* A shopper who sends one request at a time finds in the cart what those  *)
(* requests asked for, one row per product, whatever the others do (Cart   *)
(* and its views).                                                         *)
THEOREM CartAsShoppedHolds == Spec => []CartAsShopped
<1>1. Init => EInv
  <2> SUFFICES ASSUME Init PROVE EInv
    OBVIOUS
  <2>1. OInv
    BY InitOInv
  <2>2. Fresh
    BY DEF Init, Fresh, FreshBags, FreshKeys, FreshRows, Running, Over
  <2>3. Rows = {} /\ IsFiniteSet({})
    BY FS_EmptySet DEF Init, Rows
  <2>4. ASSUME NEW b \in Browsers PROVE Shopping(b)
    <3>1. \A r \in Reqs : ~ Serves(b, r)
      BY DEF Init, Serves, Running, Over
    <3>2. InCart(b) = {} /\ expected[b] = {}
      BY DEF Init, InCart
    <3> QED
      BY <3>1, <3>2 DEF Shopping, Lists
  <2> QED
    BY <2>1, <2>2, <2>3, <2>4 DEF EInv, Init
<1>2. EInv => CartAsShopped
  <2> SUFFICES ASSUME EInv, NEW b \in calm, ~ Busy(b)
               PROVE  /\ {[product |-> item[i].product, quantity |-> item[i].quantity]
                             : i \in InCart(b)} = expected[b]
                      /\ Cardinality(InCart(b)) = Cardinality(expected[b])
    BY DEF CartAsShopped
  <2>1. Lists(item, InCart(b), expected[b])
    BY DEF EInv, Shopping
  <2>2. IsFiniteSet(InCart(b))
    <3>1. InCart(b) \in SUBSET Rows
      BY DEF InCart, ItemsOf, Rows
    <3> QED
      BY <3>1, FS_Subset DEF EInv
  <2> DEFINE line(i) == [product |-> item[i].product, quantity |-> item[i].quantity]
  <2>3. {line(i) : i \in InCart(b)} = expected[b]
    BY <2>1 DEF Lists, Line
  <2>4. Cardinality(InCart(b)) = Cardinality(expected[b])
    <3> DEFINE f == [i \in InCart(b) |-> line(i)]
    <3>1. f \in Bijection(InCart(b), expected[b])
      BY <2>1 DEF Lists, Line, Bijection, Injection, Surjection, IsInjective
    <3> QED
      BY <2>2, <3>1, FS_Bijection DEF ExistsBijection
  <2> QED
    BY <2>3, <2>4
<1> QED
  BY <1>1, <1>2, NextEInv, PTL DEF Spec
=============================================================================
