------------------------------ MODULE Scraper -------------------------------
(***************************************************************************)
(* The pages arriving at the scrapers (src/main/nodejs/src/main.js).  A    *)
(* /refresh starts one HTTP response per site; each 'data' chunk of a      *)
(* response is written to the site's ONE parser, which is then ended, and  *)
(* ended parsers keep parsing.  A second /refresh does not wait for the    *)
(* first, so two responses of a site can feed its parser in turns; a       *)
(* response that breaks off simply takes no more steps.                    *)
(*                                                                         *)
(* The page of a site is a sequence of parser events.  Chunk boundaries    *)
(* are placed anywhere by splitting events: one step delivers one event,   *)
(* or the part of one before or after a boundary.                          *)
(***************************************************************************)
EXTENDS SiteStates, FiniteSets

CONSTANTS
  Page,         \* Page[s]: the events of the page of site s
  Listings,     \* Listings[s]: the track days on it, with their last event
  Place,        \* Place[s][i]: the listing and its step the i-th event is at
  MaxRefresh,   \* bound: how many /refresh requests
  MaxUp,        \* bound: how many sites answer at all
  MaxHits       \* bound: how many disturbances per site (see hits)

Words == Seq(Piece)
Event == [tag : Tags \cup {"#text", "close"}, words : Words]
Listing == [row : Row, last : Nat]

(* A page says nothing about another site's track days. *)
OwnWords(s, words) == \A i \in DOMAIN words : words[i][2] \in {s, "none"}

ASSUME ScraperAssumption ==
  /\ MaxRefresh \in Nat /\ MaxHits \in Nat /\ MaxUp \in Nat
  /\ Page \in [Sites -> Seq(Event)]
  /\ Listings \in [Sites -> Seq(Listing)]
  /\ \A s \in Sites : \A i \in DOMAIN Page[s] : OwnWords(s, Page[s][i].words)

(* What the scraper of a site is made for, as its conditions say: a page   *)
(* of listings, each the steps below, with tags in between that it does    *)
(* not look for, and one of those first.                                   *)
StepsOf(s) ==
  CASE s = "zoom" ->
         <<"category", "h1", "#text", "#text", "price", "#text">>
    [] s = "letsride" -> <<"name", "ayelshop", "#text", "price", "#text">>
    [] s = "keigwin" ->
         <<"datatable", "roster", "#text", "td", "#text", "td", "#text",
           "td", "#text">>
    [] s = "ptt" -> <<"eb_title", "a", "#text", "price", "#text">>

(* The text of a step says what it should of the row.                      *)
Says(s, step, words, row) ==
  CASE step = Len(StepsOf(s)) -> Whole(s, words) = row.cost
    [] s = "zoom" /\ step = 3 -> Whole(s, words) = row.name
    [] s = "zoom" /\ step = 4 -> Whole(s, words) = row.date
    [] s = "letsride" /\ step = 3 ->
         Len(words) > 1 /\ words[1] = row.date /\ words[2] = row.name
    [] s = "keigwin" /\ step = 3 -> Len(words) > 1 /\ words[1] = row.date
    [] s = "keigwin" /\ step = 5 -> Whole(s, words) = row.name
    [] s = "ptt" /\ step = 3 ->
         Len(words) > 1 /\ words[1] = row.name /\ words[2] = row.date
    [] OTHER -> TRUE

Between(s, i) ==
  /\ Page[s][i].tag \in {"other", "close"}
  /\ Place[s][i + 1] = Place[s][i]

Expected(s, i) ==
  LET l == Place[s][i].listing
      step == Place[s][i].step
      last == step = Len(StepsOf(s))
  IN /\ l \in DOMAIN Listings[s]
     /\ Page[s][i].tag = StepsOf(s)[step]
     /\ StepsOf(s)[step] = "#text" =>
          Says(s, step, Page[s][i].words, Listings[s][l].row)
     /\ last => Listings[s][l].last = i
     /\ Place[s][i + 1] = [listing |-> IF last THEN l + 1 ELSE l,
                           step |-> IF last THEN 1 ELSE step + 1]

ASSUME PagesAssumption ==
  \A s \in Sites :
    /\ Place[s] \in [1..(Len(Page[s]) + 1) ->
                       [listing : Nat \ {0}, step : 1..Len(StepsOf(s))]]
    /\ Place[s][1] = [listing |-> 1, step |-> 1]
    /\ Page[s] # <<>> => Page[s][1].tag = "other"
    /\ \A i \in DOMAIN Page[s] : Between(s, i) \/ Expected(s, i)
    /\ Place[s][Len(Page[s]) + 1].step = 1
    /\ \A l \in DOMAIN Listings[s] :
         /\ Listings[s][l].last \in DOMAIN Page[s]
         /\ Expected(s, Listings[s][l].last)
         /\ Place[s][Listings[s][l].last] =
              [listing |-> l, step |-> Len(StepsOf(s))]
         /\ Listings[s][l].row.name # Empty
         /\ Listings[s][l].row.date[1] = "date"

VARIABLES
  up,         \* the sites that answer; the others only log an error
  refreshes,  \* how many /refresh requests have been served
  pos,        \* pos[r][s]: next event of the r-th response of site s
  rest,       \* rest[r][s]: the text that is left of a split event, or <<>>
  inTag,      \* inTag[s]: the response in whose tag the tokenizer of s stands
  lastFed,    \* history: the response that fed the parser of s last, or 0
  hits        \* history: the disturbances each site has seen

streamVars == <<up, refreshes, pos, rest, inTag, lastFed, hits>>
vars == <<siteVars, streamVars>>

Responses == 1..MaxRefresh

Running(r, s) == s \in up /\ r \in 1..refreshes /\ pos[r][s] <= Len(Page[s])
Here(r, s) == Page[s][pos[r][s]]

(* A disturbance: a boundary inside a text, a text made of half a tag, or  *)
(* a change of response in mid-page (two overlap, or one broke off).       *)
Feed(r, s, disturbances) ==
  LET switch == /\ lastFed[s] \notin {0, r}
                /\ Running(lastFed[s], s) \/ pos[r][s] > 1
      now == hits[s] + disturbances + (IF switch THEN 1 ELSE 0)
  IN /\ Running(r, s)
     /\ now <= MaxHits
     /\ hits' = [hits EXCEPT ![s] = now]
     /\ lastFed' = [lastFed EXCEPT ![s] = r]
     /\ UNCHANGED <<up, refreshes>>

Passed(r, s) ==
  /\ pos' = [pos EXCEPT ![r][s] = @ + 1]
  /\ rest' = [rest EXCEPT ![r][s] = <<>>]

Opened(s, tag) ==
  IF tag = "close" THEN UNCHANGED siteVars ELSE OnOpenTag(s, tag)

-----------------------------------------------------------------------------
(* getallschedulesfromsites: fetch every site again, whatever is underway. *)
Refresh ==
  /\ refreshes < MaxRefresh
  /\ refreshes' = refreshes + 1
  /\ UNCHANGED <<siteVars, up, pos, rest, inTag, lastFed, hits>>

(* An event that lies within one chunk. *)
WholeEvent(r, s) ==
  /\ Feed(r, s, 0)
  /\ rest[r][s] = <<>> /\ inTag[s] = 0
  /\ IF Here(r, s).tag = "#text" THEN OnText(s, Here(r, s).words)
                                 ELSE Opened(s, Here(r, s).tag)
  /\ Passed(r, s)
  /\ UNCHANGED inTag

(* A boundary in the i-th piece of a text: write() emits what it has.      *)
SplitText(r, s) ==
  /\ Feed(r, s, 1)
  /\ rest[r][s] = <<>> /\ inTag[s] = 0
  /\ Here(r, s).tag = "#text"
  /\ LET words == Here(r, s).words IN
     \E i \in 1..Len(words) :
       /\ OnText(s, Append(SubSeq(words, 1, i - 1), Frag(s)))
       /\ rest' = [rest EXCEPT ![r][s] =
                     <<Frag(s)>> \o SubSeq(words, i + 1, Len(words))]
  /\ UNCHANGED <<pos, inTag>>

(* A boundary in a tag: end() may emit the half it has as a text, with or  *)
(* without a separator in it, and the tokenizer stays inside the tag.      *)
SplitTag(r, s) ==
  /\ rest[r][s] = <<>> /\ inTag[s] = 0
  /\ Running(r, s) /\ Here(r, s).tag # "#text"
  /\ \/ Feed(r, s, 0) /\ UNCHANGED siteVars
     \/ Feed(r, s, 1) /\ \E n \in 1..2 : OnText(s, [i \in 1..n |-> Frag(s)])
  /\ rest' = [rest EXCEPT ![r][s] = <<Frag(s)>>]
  /\ inTag' = [inTag EXCEPT ![s] = r]
  /\ UNCHANGED pos

(* What follows the boundary.  The rest of a tag completes it; but if the  *)
(* tokenizer has left the tag meanwhile, it is a text like any other.      *)
Remainder(r, s) ==
  /\ Feed(r, s, 0)
  /\ rest[r][s] # <<>>
  /\ \/ inTag[s] = r /\ Opened(s, Here(r, s).tag)
     \/ inTag[s] = 0 /\ OnText(s, rest[r][s])
  /\ inTag' = [inTag EXCEPT ![s] = 0]
  /\ Passed(r, s)

(* An event that arrives while the tokenizer stands in a tag of another    *)
(* response is part of that tag, and may end it: as the tag it began as,   *)
(* or as one no scraper looks for.                                         *)
Swallowed(r, s) ==
  /\ Feed(r, s, 0)
  /\ inTag[s] \notin {0, r}
  /\ \/ UNCHANGED <<siteVars, inTag>>
     \/ /\ \E tag \in {Here(inTag[s], s).tag, "other"} : Opened(s, tag)
        /\ inTag' = [inTag EXCEPT ![s] = 0]
  /\ Passed(r, s)

-----------------------------------------------------------------------------
Init ==
  /\ SiteInit
  /\ up \in {u \in SUBSET Sites : Cardinality(u) \in 1..MaxUp}
  /\ refreshes = 0
  /\ pos = [r \in Responses |-> [s \in Sites |-> 1]]
  /\ rest = [r \in Responses |-> [s \in Sites |-> <<>>]]
  /\ inTag = [s \in Sites |-> 0]
  /\ lastFed = [s \in Sites |-> 0]
  /\ hits = [s \in Sites |-> 0]

Chunk(r, s) ==
  \/ WholeEvent(r, s)
  \/ SplitText(r, s)
  \/ SplitTag(r, s)
  \/ Remainder(r, s)
  \/ Swallowed(r, s)

Next == Refresh \/ \E r \in Responses, s \in Sites : Chunk(r, s)

Spec == Init /\ [][Next]_vars

-----------------------------------------------------------------------------
TypeOK ==
  /\ states \in Seq(Entry)
  /\ inserted \in [Sites -> Seq(Row)]
  /\ up \subseteq Sites
  /\ refreshes \in 0..MaxRefresh
  /\ pos \in [Responses -> [Sites -> Nat \ {0}]]
  /\ rest \in [Responses -> [Sites -> Words]]
  /\ inTag \in [Sites -> 0..MaxRefresh]
  /\ lastFed \in [Sites -> 0..MaxRefresh]
  /\ hits \in [Sites -> 0..MaxHits]

(* The shared list never holds two entries of a site, but for one slip: a  *)
(* list of one entry is not searched, so the site that made the first      *)
(* entry may make the second too (main.js:41).                             *)
OneEntryPerSite ==
  \A i, j \in DOMAIN states :
    (i < j /\ states[i].key = states[j].key) => (i = 1 /\ j = 2)

(* Once a scraper finds its entry it finds that same entry for ever, also  *)
(* when the others push theirs: no half-read listing is ever orphaned.     *)
FoundStays ==
  [][\A s \in Sites :
       getMyState(s) # Null => getMyState(s)' = getMyState(s)]_vars

(* The scrapers share the list, the parsers feed them in any order, and    *)
(* still no row of one club carries a text of another club's page.         *)
OwnRows ==
  \A s \in Sites : \A i \in DOMAIN inserted[s] :
    \A field \in {"name", "date", "cost"} :
      inserted[s][i][field][2] \in {s, "none"}

RowsOf(s) == {Listings[s][k].row : k \in DOMAIN Listings[s]}
Spoiled(s) == {i \in DOMAIN inserted[s] : inserted[s][i] \notin RowsOf(s)}

Passages(s) ==
  {p \in (1..refreshes) \X DOMAIN Listings[s] :
     pos[p[1]][s] > Listings[s][p[2]].last}

(* The scraper that made the first entry of the list finds it only when    *)
(* there is a second, which another's callback may make in mid-listing.    *)
First(s) == states # <<>> /\ states[1].key = s
FoundLate(s) == First(s) /\ Len(states) > 1 /\ states[2].key # s

(* The damage of bad boundaries and overlapping responses is bounded: a    *)
(* disturbance spoils two rows at most (the one it breaks into, and, where *)
(* it goes on in mid-listing, the next), and the cold start of the list    *)
(* (main.js:41) one, of the site that another helps to its entry.          *)
DamageBounded ==
  \A s \in Sites :
    Cardinality(Spoiled(s)) <= 2 * hits[s] + (IF FoundLate(s) THEN 1 ELSE 0)

(* A scraper nothing has disturbed has handed every listing that has gone  *)
(* by to the database, but for the one that met the cold start, which is   *)
(* only lost to the site that made the first entry.                        *)
NothingLost ==
  \A s \in Sites :
    hits[s] = 0 =>
      Cardinality(DOMAIN inserted[s] \ Spoiled(s))
        >= Cardinality(Passages(s)) - (IF First(s) THEN 1 ELSE 0)
=============================================================================
