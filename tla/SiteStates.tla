----------------------------- MODULE SiteStates -----------------------------
(***************************************************************************)
(* The four HTML scrapers of the track-day server                          *)
(* (src/main/nodejs/src/main.js) and the one piece of state they share:    *)
(* the global list `states`, which holds one entry per site, saying how    *)
(* far the scraper of that site is through a listing and what it has read. *)
(*                                                                         *)
(* Each scraper is a pair of callbacks of an htmlparser2 parser: onopentag *)
(* and ontext.  A callback runs to completion on the event loop, so it is  *)
(* one action here.  An opening tag is named by the condition of the code  *)
(* it satisfies ("category": an <a> whose href has "category="); a tag     *)
(* that satisfies none of them is "other".  A text is the sequence of the  *)
(* pieces the scraper's separator ("-", "|" or " ") cuts it into, and a    *)
(* piece is the triple <<what it says, site, listing>>.                    *)
(***************************************************************************)
EXTENDS Integers, Sequences

CONSTANT Sites          \* the sites that are scraped (sites.url)

ASSUME SitesAssumption == Sites \subseteq {"zoom", "letsride", "keigwin", "ptt"}

VARIABLES
  states,     \* the shared list of scraper entries
  inserted    \* per site, the rows handed to addscheduletodb, in call order

siteVars == <<states, inserted>>

CurrStates ==
  {"nostate", "start", "title", "date", "money", "group", "transition"}

Piece == {"title", "date", "cost", "group", "frag", "empty", "invalid"}
           \X (Sites \cup {"none"}) \X Nat

Empty == <<"empty", "none", 0>>           \* the text ""
Frag(s) == <<"frag", s, 0>>               \* any text that is not a whole field
InvalidDate == <<"invalid", "none", 0>>   \* what Date prints for a bad date

Entry == [key : Sites, currState : CurrStates, trackname : Piece,
          trackdate : Piece, trackcost : Piece, groups : Piece]

Row == [name : Piece, date : Piece, cost : Piece]

Fresh(_key, _next) ==
  [key |-> _key, currState |-> _next, trackname |-> Empty,
   trackdate |-> Empty, trackcost |-> Empty, groups |-> Empty]

-----------------------------------------------------------------------------
(* The list of entries.                                                    *)

Null == 0

Matches(key) == {i \in DOMAIN states : states[i].key = key}

(* Slips: a list of two entries is not searched either; the keys are not   *)
(* compared.                                                               *)
getMyStateAboveTwo(key) ==
  IF Len(states) > 2 /\ Matches(key) # {}
    THEN CHOOSE i \in Matches(key) : \A j \in Matches(key) : i <= j
    ELSE Null

getMyStateAnyKey(key) ==
  IF Len(states) > 1 THEN 1 ELSE Null

(* The index of the entry of `key`, or Null.  The loop runs down to 0 and  *)
(* does not stop at a match, so the lowest index wins; a list of a single  *)
(* entry is never searched.                                                *)
getMyState(key) ==
  IF Len(states) > 1 /\ Matches(key) # {}
    THEN CHOOSE i \in Matches(key) : \A j \in Matches(key) : i <= j
    ELSE Null

(* What a callback sees as its current state: "null" when it has no entry. *)
Current(key) ==
  LET me == getMyState(key) IN
  IF me = Null THEN "null" ELSE states[me].currState

isState(key, checkValue) == Current(key) = checkValue

(* Slip: the new entry is put in front (unshift for push).                 *)
nextStateInFront(_key, _next) ==
  LET me == getMyState(_key) IN
  states' = IF me # Null
              THEN [states EXCEPT ![me].currState = _next]
              ELSE <<Fresh(_key, _next)>> \o states

nextState(_key, _next) ==
  LET me == getMyState(_key) IN
  states' = IF me # Null
              THEN [states EXCEPT ![me].currState = _next]
              ELSE Append(states, Fresh(_key, _next))

-----------------------------------------------------------------------------
(* onopentag: each scraper is a table of moves.  A move is taken when the  *)
(* tag and the current state match, and a tag matches one move at most.    *)

Move(tag, from, to) == [tag |-> tag, from |-> from, to |-> to]

AnyState == CurrStates \cup {"null"}

ZoomMoves ==
  {Move("category", AnyState,  "start"),
   Move("h1",       {"start"}, "title"),
   Move("price",    AnyState,  "money")}

LetsrideMoves ==
  {Move("name",     {"nostate"},    "start"),
   Move("ayelshop", {"start"},      "date"),
   Move("price",    {"transition"}, "money")}

KeigwinMoves ==
  {Move("datatable", AnyState,  "start"),
   Move("roster",    {"start"}, "date"),
   Move("td",        {"date"},  "title"),
   Move("td",        {"title"}, "group"),
   Move("td",        {"group"}, "money")}

PttMoves ==
  {Move("eb_title", AnyState,    "start"),
   Move("a",        {"start"},   "title"),
   Move("price",    {"nostate"}, "money")}

Moves(s) == CASE s = "zoom"     -> ZoomMoves
              [] s = "letsride" -> LetsrideMoves
              [] s = "keigwin"  -> KeigwinMoves
              [] s = "ptt"      -> PttMoves

Tags == {"category", "h1", "price", "name", "ayelshop", "datatable",
         "roster", "td", "eb_title", "a", "other"}

(* The Let's Ride scraper first gives itself an entry, on any tag, and     *)
(* then compares the entry it looked up BEFORE that, which was null.       *)
OnOpenTag(s, tag) ==
  /\ \/ /\ s = "letsride" /\ getMyState(s) = Null
        /\ nextState(s, "nostate")
     \/ /\ ~(s = "letsride" /\ getMyState(s) = Null)
        /\ \E m \in Moves(s) : /\ m.tag = tag
                               /\ Current(s) \in m.from
                               /\ nextState(s, m.to)
     \/ /\ ~(s = "letsride" /\ getMyState(s) = Null)
        /\ \A m \in Moves(s) : m.tag = tag => Current(s) \notin m.from
        /\ UNCHANGED states
  /\ UNCHANGED inserted

-----------------------------------------------------------------------------
(* ontext.                                                                 *)

Whole(s, words) == IF Len(words) = 1 THEN words[1] ELSE Frag(s)

(* new Date(Date.parse(text)), printed: a text that is no date is          *)
(* "Invalid Date", whatever it was.                                        *)
ParsedDate(text) == IF text[1] = "date" THEN text ELSE InvalidDate

(* The cost is read, the row goes to addscheduletodb and resetState clears *)
(* the entry.  The test before it (trackname and trackdate not null) holds *)
(* always: both are strings from the moment the entry exists.              *)
Insertion(s, words) ==
  LET _state == states[getMyState(s)] IN
  [inserted EXCEPT ![s] = Append(@, [name |-> _state.trackname,
                                     date |-> ParsedDate(_state.trackdate),
                                     cost |-> Whole(s, words)])]

(* Slip: the state is reset, the fields are not.                           *)
CostKeepsFields(s, words) ==
  /\ inserted' = Insertion(s, words)
  /\ states' = [states EXCEPT ![getMyState(s)].currState = "nostate"]

CostText(s, words) ==
  /\ inserted' = Insertion(s, words)
  /\ states' = [states EXCEPT ![getMyState(s)] = Fresh(s, "nostate")]

(* The entry e after a text that is not a cost, in each scraper. *)
ZoomText(e, words) ==
  CASE e.currState = "title" -> [e EXCEPT !.trackname = Whole("zoom", words),
                                          !.currState = "date"]
    [] e.currState = "date"  -> [e EXCEPT !.trackdate = Whole("zoom", words),
                                          !.currState = "nostate"]
    [] OTHER -> e

(* Slip: the whole split is kept for its second piece.                     *)
LetsrideTextArray(e, words) ==
  IF e.currState = "date" /\ Len(words) > 1
    THEN [e EXCEPT !.trackdate = words[1], !.trackname = words,
                   !.currState = "transition"]
    ELSE e

(* Slip: the length of the split is compared one too high.                 *)
LetsrideTextThree(e, words) ==
  IF e.currState = "date" /\ Len(words) > 2
    THEN [e EXCEPT !.trackdate = words[1], !.trackname = words[2],
                   !.currState = "transition"]
    ELSE e

LetsrideText(e, words) ==
  IF e.currState = "date" /\ Len(words) > 1
    THEN [e EXCEPT !.trackdate = words[1], !.trackname = words[2],
                   !.currState = "transition"]
    ELSE e

KeigwinText(e, words) ==
  CASE e.currState = "date" /\ Len(words) > 1 ->
         [e EXCEPT !.trackdate = words[1]]
    [] e.currState = "title" /\ e.trackname = Empty ->
         [e EXCEPT !.trackname = Whole("keigwin", words)]
    [] e.currState = "group" -> [e EXCEPT !.groups = Whole("keigwin", words)]
    [] OTHER -> e

PttText(e, words) ==
  IF e.currState = "title" /\ Len(words) > 1
    THEN [e EXCEPT !.trackname = words[1], !.trackdate = words[2],
                   !.currState = "nostate"]
    ELSE e

FieldText(s, e, words) ==
  CASE s = "zoom"     -> ZoomText(e, words)
    [] s = "letsride" -> LetsrideText(e, words)
    [] s = "keigwin"  -> KeigwinText(e, words)
    [] s = "ptt"      -> PttText(e, words)

OnText(s, words) ==
  \/ isState(s, "null") /\ UNCHANGED siteVars
  \/ isState(s, "money") /\ CostText(s, words)
  \/ /\ Current(s) \notin {"null", "money"}
     /\ states' = [states EXCEPT ![getMyState(s)] = FieldText(s, @, words)]
     /\ UNCHANGED inserted

-----------------------------------------------------------------------------
SiteInit ==
  /\ states = <<>>
  /\ inserted = [s \in Sites |-> <<>>]
=============================================================================
