--------------------------------- MODULE Shop -------------------------------
(***************************************************************************)
(* The shopping cart of the coffee shop (wcr/wcr/cart.py, views.py).       *)
(*                                                                         *)
(* A request is served by some worker; every query commits on its own (no  *)
(* ATOMIC_REQUESTS), so between two queries of one request any other       *)
(* request may run.  The session is read once, when the cart is opened,    *)
(* and written whole when the response is sent.                            *)
(*                                                                         *)
(* Rows are named after the request that creates them: a request creates   *)
(* at most one session (its key is the request's name), two bags (<<r, 1>> *)
(* and, after a clear, <<r, 2>>) and one item.                             *)
(***************************************************************************)
EXTENDS Naturals, FiniteSets

CONSTANTS
  Reqs,        \* requests (identities)
  Browsers,    \* each has one cookie jar
  Products,
  Quantities,  \* quantities an add_to_cart url may name
  None

ASSUME ShopAssumption ==
  /\ Quantities \subseteq Nat
  /\ None \notin Reqs \cup (Reqs \X {1, 2}) \cup Browsers \cup Products
  /\ None \notin [bag : Reqs \X {1, 2}, product : Products, quantity : Nat]

VARIABLES
  catalog,   \* the products in the table
  live,      \* keys of the session rows that have not expired
  stored,    \* stored[k]: CART-ID in the session row k
  item,      \* item[i]: the row of table item created by request i, or None
  cookie,    \* cookie[b]: the session key browser b sends
  browser,   \* browser[r]: who sent request r
  pc,        \* pc[r]: the next query of request r
  req,       \* req[r]: the locals of request r while it is served; see Request
  calm,      \* history: browsers that met no overlap, failure or loss
  expected,  \* history: expected[b]: what a calm browser b put in its cart
  twice      \* history: <<bag, product>> that two adds worked on at once

serverVars == <<catalog, live, stored, item>>
requestVars == <<browser, pc, req>>
history == <<calm, expected, twice>>
vars == <<serverVars, cookie, requestVars, history>>

Bags == Reqs \X {1, 2}
ProductViews == {"detail", "add_to_cart", "remove_from_cart"}
Views == ProductViews \cup {"shop", "cart", "clear_cart"}
Over == {"new", "done", "failed"}

(* add_to_cart and clear_cart end in shop(request), which calls            *)
(* session.set_expiry and so always has the session saved.                 *)
EndsInShop == {"shop", "add_to_cart", "clear_cart"}

Running(r) == pc[r] \notin Over
Busy(b) == \E r \in Reqs : Running(r) /\ browser[r] = b

ItemsOf(bag) == {i \in Reqs : item[i] # None /\ item[i].bag = bag}

(* The next query of r; the request ends and its locals are gone.          *)
Goes(r, stage) == pc' = [pc EXCEPT ![r] = stage]
Ends(r, stage) == Goes(r, stage) /\ req' = [req EXCEPT ![r] = None]

-----------------------------------------------------------------------------
(* What a url of this view can name.                                       *)
ProductOf(view) == IF view \in ProductViews THEN Products ELSE {None}

(* A request arrives, with its cookie, and looks up its product: no such   *)
(* product is a 404 or a 500.                                              *)
Arrive(r, b, view, p, n) ==
  /\ pc[r] = "new"
  /\ browser' = [browser EXCEPT ![r] = b]
  /\ IF view \in ProductViews /\ p \notin catalog
       THEN Ends(r, "failed")
       ELSE /\ Goes(r, "open")
            /\ req' = [req EXCEPT ![r] =
                 [view |-> view, product |-> p, quantity |-> n,
                  key |-> cookie[b], cart |-> None, modified |-> FALSE,
                  got |-> None, todo |-> {}]]
  /\ calm' = IF Busy(b) THEN calm \ {b} ELSE calm
  /\ UNCHANGED <<serverVars, cookie, expected, twice>>

-----------------------------------------------------------------------------
(* Cart.__init__.                                                          *)

(* Slips: the id is read before the bag is saved; any open bag will do.    *)
NewBagUnsaved(r, n) == None

NewBagAnyOpen(r, n) ==
  IF \A q \in Reqs : stored[q] = None THEN <<r, n>>
  ELSE stored[CHOOSE q \in Reqs : stored[q] # None]

NewBag(r, n) == <<r, n>>

AfterOpen(view) ==
  CASE view = "add_to_cart"      -> "get"
    [] view = "remove_from_cart" -> "find"
    [] view = "clear_cart"       -> "list"
    [] OTHER                     -> "reply"

Adding(bag, p) ==
  {q \in Reqs : /\ pc[q] \in {"get", "insert", "save"}
                /\ req[q].cart = bag /\ req[q].product = p}

(* The session row is loaded; a key without one gets a new, empty row.  A  *)
(* session without a bag gets one.  Bags are never deleted nor checked     *)
(* out, so the bag a session names is always found.                        *)
OpenCart(r) ==
  /\ pc[r] = "open" /\ Goes(r, AfterOpen(req[r].view))
  /\ LET lapsed == req[r].key # None /\ req[r].key \notin live
         bag == IF req[r].key \in live THEN stored[req[r].key] ELSE None
         mine == IF bag = None THEN NewBag(r, 1) ELSE bag
         p == req[r].product
     IN
     /\ req' = [req EXCEPT ![r].key = IF lapsed THEN r ELSE @,
                           ![r].cart = mine,
                           ![r].modified = (bag = None)]
     /\ live' = IF lapsed THEN live \cup {r} ELSE live
     /\ twice' = IF req[r].view = "add_to_cart" /\ Adding(mine, p) # {}
                   THEN twice \cup {<<mine, p>>} ELSE twice
  /\ UNCHANGED <<catalog, stored, item, cookie, browser, calm, expected>>

-----------------------------------------------------------------------------
(* Cart.add, remove and clear.                                             *)

(* Slip: the item is looked up by its product only.                        *)
MatchesAnyBag(r) ==
  {i \in Reqs : item[i] # None /\ item[i].product = req[r].product}

Matches(r) == {i \in ItemsOf(req[r].cart) : item[i].product = req[r].product}

(* Slip: add inserts without looking.                                      *)
GetItemNever(r) ==
  /\ pc[r] = "get" /\ Goes(r, "insert")
  /\ UNCHANGED <<serverVars, cookie, browser, req, history>>

(* Item.objects.get in add.  Two matches raise MultipleObjectsReturned.    *)
GetItem(r) ==
  /\ pc[r] = "get"
  /\ \/ Matches(r) = {} /\ Goes(r, "insert") /\ UNCHANGED req
     \/ \E i \in Matches(r) :
          /\ Matches(r) = {i} /\ Goes(r, "save")
          /\ req' = [req EXCEPT ![r].got =
                       [id |-> i, quantity |-> item[i].quantity]]
     \/ Cardinality(Matches(r)) > 1 /\ Ends(r, "failed")
  /\ UNCHANGED <<serverVars, cookie, browser, history>>

Row(r, n) == [bag |-> req[r].cart, product |-> req[r].product, quantity |-> n]

InsertItem(r) ==
  /\ pc[r] = "insert" /\ Goes(r, "reply")
  /\ item' = [item EXCEPT ![r] = Row(r, req[r].quantity)]
  /\ UNCHANGED <<catalog, live, stored, cookie, browser, req, history>>

(* Slip: the quantity is saved as it was read.                             *)
SaveItemUnbumped(r) ==
  /\ pc[r] = "save" /\ Goes(r, "reply")
  /\ item' = [item EXCEPT ![req[r].got.id] = Row(r, req[r].got.quantity)]
  /\ UNCHANGED <<catalog, live, stored, cookie, browser, req, history>>

(* item.save() writes the whole row that was read, one more in quantity,   *)
(* and inserts it again if it is gone.                                     *)
SaveItem(r) ==
  /\ pc[r] = "save" /\ Goes(r, "reply")
  /\ item' = [item EXCEPT ![req[r].got.id] = Row(r, req[r].got.quantity + 1)]
  /\ UNCHANGED <<catalog, live, stored, cookie, browser, req, history>>

(* Item.objects.get in remove: anything but one match raises.              *)
FindItem(r) ==
  /\ pc[r] = "find"
  /\ IF Cardinality(Matches(r)) = 1
       THEN Goes(r, "delete") /\ req' = [req EXCEPT ![r].todo = Matches(r)]
       ELSE Ends(r, "failed")
  /\ UNCHANGED <<serverVars, cookie, browser, history>>

(* bag.item_set.all() in clear.                                            *)
ListItems(r) ==
  /\ pc[r] = "list" /\ Goes(r, "delete")
  /\ req' = [req EXCEPT ![r].todo = ItemsOf(req[r].cart)]
  /\ UNCHANGED <<serverVars, cookie, browser, history>>

(* item.delete(), one after the other.                                     *)
DeleteItem(r, i) ==
  /\ pc[r] = "delete" /\ i \in req[r].todo
  /\ item' = [item EXCEPT ![i] = None]
  /\ req' = [req EXCEPT ![r].todo = @ \ {i}]
  /\ UNCHANGED <<catalog, live, stored, cookie, browser, pc, history>>

(* remove goes on to the cart page.  clear empties the session, and the    *)
(* shop page opens a new cart.                                             *)
Deleted(r) ==
  /\ pc[r] = "delete" /\ req[r].todo = {} /\ Goes(r, "reply")
  /\ req' = IF req[r].view = "clear_cart"
              THEN [req EXCEPT ![r].cart = NewBag(r, 2), ![r].modified = TRUE]
              ELSE req
  /\ UNCHANGED <<serverVars, cookie, browser, history>>

-----------------------------------------------------------------------------
(* The response.                                                           *)

(* What the request does to its browser's cart when nothing disturbs it.   *)
Wanted(r) ==
  LET had == expected[browser[r]]
      p == req[r].product
      others == {e \in had : e.product # p}
  IN CASE req[r].view = "add_to_cart" ->
            IF others = had
              THEN had \cup {[product |-> p, quantity |-> req[r].quantity]}
              ELSE others \cup {[e EXCEPT !.quantity = @ + 1] : e \in had \ others}
       [] req[r].view = "remove_from_cart" -> others
       [] req[r].view = "clear_cart" -> {}
       [] OTHER -> had

Fulfil(r) == expected' = [expected EXCEPT ![browser[r]] = Wanted(r)]

SaveKey(r) == IF req[r].key = None THEN r ELSE req[r].key

(* SessionMiddleware: a modified session is written, all of it, under a    *)
(* new key if it has none, and the key is sent back.                       *)
Reply(r) ==
  /\ pc[r] = "reply"
  /\ IF req[r].modified \/ req[r].view \in EndsInShop
       THEN /\ Goes(r, "sent")
            /\ req' = [req EXCEPT ![r].key = SaveKey(r)]
            /\ live' = live \cup {SaveKey(r)}
            /\ stored' = [stored EXCEPT ![SaveKey(r)] = req[r].cart]
            /\ UNCHANGED expected
       ELSE Ends(r, "done") /\ Fulfil(r) /\ UNCHANGED <<live, stored>>
  /\ UNCHANGED <<catalog, item, cookie, browser, calm, twice>>

(* Responses reach a browser in any order; the last cookie stays.          *)
Receive(r) ==
  /\ pc[r] = "sent" /\ Ends(r, "done") /\ Fulfil(r)
  /\ cookie' = [cookie EXCEPT ![browser[r]] = req[r].key]
  /\ UNCHANGED <<serverVars, browser, calm, twice>>

(* The response is lost, or a query fails and the rest of the request with *)
(* it: what was committed stays.                                           *)
Fail(r) ==
  /\ Running(r) /\ Ends(r, "failed")
  /\ calm' = calm \ {browser[r]}
  /\ UNCHANGED <<serverVars, cookie, browser, expected, twice>>

-----------------------------------------------------------------------------
(* Outside of any request.                                                 *)

Withdraw(p) ==   \* the owner deletes a product
  /\ p \in catalog
  /\ catalog' = catalog \ {p}
  /\ UNCHANGED <<live, stored, item, cookie, requestVars, history>>

(* The carts of these browsers are empty from now on, as they see it.      *)
Emptied(holders) ==
  /\ expected' = [b \in Browsers |-> IF b \in holders THEN {} ELSE expected[b]]
  /\ calm' = calm \ {b \in holders : Busy(b)}
  /\ UNCHANGED twice

Expire(k) ==   \* a session row passes its expire_date
  /\ k \in live
  /\ live' = live \ {k}
  /\ Emptied({b \in Browsers : cookie[b] = k \/ \E r \in Reqs :
                Running(r) /\ browser[r] = b /\ req[r].key = k})
  /\ UNCHANGED <<catalog, stored, item, cookie, requestVars>>

Forget(b) ==   \* a cookie passes its max-age, or is deleted
  /\ cookie[b] # None
  /\ cookie' = [cookie EXCEPT ![b] = None]
  /\ Emptied({b})
  /\ UNCHANGED <<serverVars, requestVars>>

-----------------------------------------------------------------------------
Init ==
  /\ catalog = Products
  /\ live = {} /\ stored = [k \in Reqs |-> None]
  /\ item = [i \in Reqs |-> None]
  /\ cookie = [b \in Browsers |-> None]
  /\ browser = [r \in Reqs |-> None]
  /\ pc = [r \in Reqs |-> "new"]
  /\ req = [r \in Reqs |-> None]
  /\ calm = Browsers /\ expected = [b \in Browsers |-> {}]
  /\ twice = {}

Serve(r) ==
  \/ OpenCart(r) \/ GetItem(r) \/ InsertItem(r) \/ SaveItem(r) \/ FindItem(r)
  \/ ListItems(r) \/ (\E i \in Reqs : DeleteItem(r, i)) \/ Deleted(r)
  \/ Reply(r) \/ Receive(r) \/ Fail(r)

Next ==
  \/ \E r \in Reqs, b \in Browsers, view \in Views, n \in Quantities :
       \E p \in ProductOf(view) : Arrive(r, b, view, p, n)
  \/ \E r \in Reqs : Serve(r)
  \/ \E p \in Products : Withdraw(p)
  \/ \E k \in Reqs : Expire(k)
  \/ \E b \in Browsers : Forget(b)

Spec == Init /\ [][Next]_vars

-----------------------------------------------------------------------------
Request ==
  [view : Views, product : Products \cup {None}, quantity : Quantities,
   key : Reqs \cup {None},    \* request.session.session_key
   cart : Bags \cup {None},   \* request.session[CART_ID]: the bag of the Cart
   modified : BOOLEAN,        \* request.session.modified
   got : [id : Reqs, quantity : Nat] \cup {None},   \* the item add has read
   todo : SUBSET Reqs]        \* the items clear and remove will delete

ItemRow == [bag : Bags, product : Products, quantity : Nat]
Content == [product : Products, quantity : Nat]
Stages == Over \cup {"open", "get", "insert", "save", "find", "list",
                     "delete", "reply", "sent"}

TypeOK ==
  /\ catalog \subseteq Products
  /\ live \subseteq Reqs /\ stored \in [Reqs -> Bags \cup {None}]
  /\ item \in [Reqs -> ItemRow \cup {None}]
  /\ cookie \in [Browsers -> Reqs \cup {None}]
  /\ browser \in [Reqs -> Browsers \cup {None}] /\ pc \in [Reqs -> Stages]
  /\ \A r \in Reqs : pc[r] = "new" <=> browser[r] = None
  /\ req \in [Reqs -> Request \cup {None}]
  /\ \A r \in Reqs : IF Running(r) THEN req[r] \in Request ELSE req[r] = None
  /\ calm \subseteq Browsers
  /\ expected \in [Browsers -> SUBSET Content]
  /\ twice \subseteq Bags \X Products

Reaches(b, bag) ==
  \/ cookie[b] # None /\ stored[cookie[b]] = bag
  \/ \E r \in Reqs : Running(r) /\ browser[r] = b /\ req[r].cart = bag

(* However sessions lapse, are created anew, saved late or over one        *)
(* another, no two shoppers ever get at the same bag (Cart.__init__).      *)
CartIsolation ==
  \A b, c \in Browsers : b # c =>
    \A bag \in Bags : ~ (Reaches(b, bag) /\ Reaches(c, bag))

(* Cart.add, remove and clear look their items up and write them later, by *)
(* id.  Still a row is changed only by a request of the shopper whose      *)
(* request inserted it.                                                    *)
OthersLeaveIt ==
  [][\A i \in Reqs : item'[i] # item[i] =>
       \E r \in Reqs : /\ pc'[r] # pc[r] \/ req'[r] # req[r]
                       /\ browser[r] = browser[i]]_vars

(* A second row for one product in one bag makes Item.objects.get raise    *)
(* from then on, in add and in remove.  It takes two adds of that product  *)
(* at work on that bag at once.                                            *)
DuplicateOnlyIfTwoAdds ==
  \A i, j \in Reqs :
    (i # j /\ item[i] # None /\ item[j] # None
           /\ item[i].bag = item[j].bag /\ item[i].product = item[j].product)
      => <<item[i].bag, item[i].product>> \in twice

InCart(b) ==
  IF cookie[b] \in live /\ stored[cookie[b]] # None
    THEN ItemsOf(stored[cookie[b]]) ELSE {}

(* A shopper who sends one request at a time, and whose responses arrive,  *)
(* finds in the cart what those requests asked for, whatever the others do *)
(* and whichever requests raised: one row per product, one more in         *)
(* quantity per further add, nothing left after a clear or a lapse.        *)
CartAsShopped ==
  \A b \in calm : ~ Busy(b) =>
    /\ {[product |-> item[i].product, quantity |-> item[i].quantity]
           : i \in InCart(b)} = expected[b]
    /\ Cardinality(InCart(b)) = Cardinality(expected[b])
=============================================================================
