--------------------------- MODULE ScraperProofs ---------------------------
(***************************************************************************)
(* Theorems about Scraper, for every set of sites, every page and every    *)
(* bound.                                                                  *)
(***************************************************************************)
EXTENDS Scraper, SequenceTheorems, TLAPS, FiniteSetTheorems

TypeStates == states \in Seq(Entry)

(* getMyState returns the first entry of its key, or Null.  That there is  *)
(* a first one follows from OneEntryPerSite: two matches are 1 and 2.      *)
LEMMA Lookup ==
  ASSUME TypeStates, OneEntryPerSite, NEW key
  PROVE  \/ /\ getMyState(key) = Null
            /\ Len(states) <= 1 \/ \A i \in DOMAIN states : states[i].key # key
         \/ /\ getMyState(key) \in DOMAIN states
            /\ getMyState(key) \in Nat \ {0}
            /\ states[getMyState(key)].key = key
            /\ Len(states) > 1
            /\ \A i \in DOMAIN states :
                 states[i].key = key => getMyState(key) <= i
<1>1. Matches(key) \subseteq 1..Len(states)
  BY DEF Matches, TypeStates
<1>2. CASE Len(states) > 1 /\ Matches(key) # {}
  <2>1. \E m \in Matches(key) : \A j \in Matches(key) : m <= j
    <3>1. CASE 1 \in Matches(key)
      BY <1>1, <3>1
    <3>2. CASE 1 \notin Matches(key)
      <4>1. PICK m \in Matches(key) : TRUE
        BY <1>2
      <4>2. \A i, j \in Matches(key) : i = j
        BY <1>1, <3>2 DEF OneEntryPerSite, Matches
      <4> QED
        BY <1>1, <4>1, <4>2
    <3> QED
      BY <3>1, <3>2
  <2>2. /\ getMyState(key) \in Matches(key)
        /\ \A j \in Matches(key) : getMyState(key) <= j
    BY <1>2, <2>1 DEF getMyState
  <2> QED
    BY <1>1, <1>2, <2>2 DEF Matches
<1>3. CASE ~(Len(states) > 1 /\ Matches(key) # {})
  BY <1>3 DEF getMyState, Matches, TypeStates
<1> QED
  BY <1>2, <1>3

-----------------------------------------------------------------------------
(* What a callback may do to the list: give a site its missing entry, or   *)
(* rewrite entries without touching their keys.                            *)
Extended == \E s \in Sites, c \in CurrStates :
              /\ getMyState(s) = Null
              /\ states' = Append(states, Fresh(s, c))

Rewritten == /\ states' \in Seq(Entry)
             /\ Len(states') = Len(states)
             /\ \A i \in DOMAIN states : states'[i].key = states[i].key

LEMMA FreshIsEntry ==
  ASSUME NEW s \in Sites, NEW c \in CurrStates
  PROVE  Fresh(s, c) \in Entry
BY DEF Fresh, Entry, Empty, Piece

LEMMA SiteCases ==
  ASSUME NEW s \in Sites
  PROVE  s \in {"zoom", "letsride", "keigwin", "ptt"}
BY SitesAssumption

LEMMA MoveTargets ==
  ASSUME NEW s \in Sites, NEW m \in Moves(s)
  PROVE  m.to \in CurrStates
BY SiteCases DEF Moves, ZoomMoves, LetsrideMoves, KeigwinMoves, PttMoves,
                 Move, CurrStates

LEMMA NextStateShape ==
  ASSUME TypeStates, OneEntryPerSite,
         NEW s \in Sites, NEW c \in CurrStates, nextState(s, c)
  PROVE  Extended \/ Rewritten
<1>1. CASE getMyState(s) = Null
  BY <1>1 DEF nextState, Extended
<1>2. CASE getMyState(s) # Null
  <2>1. /\ getMyState(s) \in DOMAIN states
        /\ states' = [states EXCEPT ![getMyState(s)].currState = c]
    BY <1>2, Lookup DEF nextState
  <2> DEFINE e == states[getMyState(s)]
  <2>2. e \in Entry
    BY <2>1 DEF TypeStates
  <2>3. [e EXCEPT !.currState = c] \in Entry
        /\ [e EXCEPT !.currState = c].key = e.key
    BY <2>2 DEF Entry
  <2>4. states' = [states EXCEPT ![getMyState(s)] = [e EXCEPT !.currState = c]]
    BY <2>1
  <2> HIDE DEF e
  <2> QED
    BY <2>1, <2>3, <2>4 DEF Rewritten, TypeStates, e
<1> QED
  BY <1>1, <1>2

LEMMA OpenTagShape ==
  ASSUME TypeStates, OneEntryPerSite,
         NEW s \in Sites, NEW tag, OnOpenTag(s, tag)
  PROVE  Extended \/ Rewritten
<1>1. CASE UNCHANGED states
  BY <1>1 DEF Rewritten, TypeStates
<1>2. CASE \E c \in CurrStates : nextState(s, c)
  BY <1>2, NextStateShape
<1>3. UNCHANGED states \/ \E c \in CurrStates : nextState(s, c)
  BY MoveTargets DEF OnOpenTag, CurrStates
<1> QED
  BY <1>1, <1>2, <1>3

LEMMA WholeIsPiece ==
  ASSUME NEW s \in Sites, NEW words \in Words
  PROVE  Whole(s, words) \in Piece
BY DEF Whole, Words, Frag, Piece

LEMMA FieldTextIsEntry ==
  ASSUME NEW s \in Sites, NEW e \in Entry, NEW words \in Words
  PROVE  /\ FieldText(s, e, words) \in Entry
         /\ FieldText(s, e, words).key = e.key
<1>1. Len(words) > 1 => words[1] \in Piece /\ words[2] \in Piece
  BY DEF Words
<1>2. CASE s = "zoom"
  <2>1. FieldText(s, e, words) = ZoomText(e, words)
    BY <1>2 DEF FieldText
  <2> QED
    BY <1>2, <2>1, WholeIsPiece DEF ZoomText, Entry, CurrStates
<1>3. CASE s = "letsride"
  <2>1. FieldText(s, e, words) = LetsrideText(e, words)
    BY <1>3 DEF FieldText
  <2> QED
    BY <1>1, <2>1 DEF LetsrideText, Entry, CurrStates
<1>4. CASE s = "keigwin"
  <2>1. FieldText(s, e, words) = KeigwinText(e, words)
    BY <1>4 DEF FieldText
  <2> QED
    BY <1>1, <1>4, <2>1, WholeIsPiece DEF KeigwinText, Entry, CurrStates
<1>5. CASE s = "ptt"
  <2>1. FieldText(s, e, words) = PttText(e, words)
    BY <1>5 DEF FieldText
  <2> QED
    BY <1>1, <2>1 DEF PttText, Entry, CurrStates
<1> QED
  BY <1>2, <1>3, <1>4, <1>5, SiteCases

LEMMA TextShape ==
  ASSUME TypeStates, OneEntryPerSite,
         NEW s \in Sites, NEW words \in Words, OnText(s, words)
  PROVE  Rewritten
<1>1. CASE UNCHANGED siteVars
  BY <1>1 DEF Rewritten, TypeStates, siteVars
<1>2. CASE isState(s, "money") /\ CostText(s, words)
  <2>1. getMyState(s) \in DOMAIN states /\ states[getMyState(s)].key = s
    BY <1>2, Lookup DEF isState, Current
  <2>2. Fresh(s, "nostate") \in Entry
    BY FreshIsEntry DEF CurrStates
  <2>3. states' = [states EXCEPT ![getMyState(s)] = Fresh(s, "nostate")]
    BY <1>2 DEF CostText
  <2> QED
    BY <2>1, <2>2, <2>3 DEF Rewritten, TypeStates, Fresh
<1>3. CASE /\ Current(s) \notin {"null", "money"}
           /\ states' = [states EXCEPT ![getMyState(s)] = FieldText(s, @, words)]
  <2>1. getMyState(s) \in DOMAIN states
    BY <1>3, Lookup DEF Current
  <2>2. states[getMyState(s)] \in Entry
    BY <2>1 DEF TypeStates
  <2> QED
    BY <1>3, <2>1, <2>2, FieldTextIsEntry DEF Rewritten, TypeStates
<1> QED
  BY <1>1, <1>2, <1>3 DEF OnText

-----------------------------------------------------------------------------
(* Every step of Next is a callback, or leaves the list alone.             *)
LEMMA HereIsEvent ==
  ASSUME TypeOK, NEW r \in Responses, NEW s \in Sites, Running(r, s)
  PROVE  Here(r, s) \in Event /\ OwnWords(s, Here(r, s).words)
<1>1. pos[r][s] \in 1..Len(Page[s])
  BY ScraperAssumption DEF TypeOK, Running, Responses
<1> QED
  BY <1>1, ScraperAssumption DEF Here

(* The words a callback of ontext can be given. *)
LEMMA SplitWords ==
  ASSUME NEW s \in Sites, NEW words \in Words, OwnWords(s, words),
         NEW i \in 1..Len(words)
  PROVE  /\ Append(SubSeq(words, 1, i - 1), Frag(s)) \in Words
         /\ OwnWords(s, Append(SubSeq(words, 1, i - 1), Frag(s)))
         /\ <<Frag(s)>> \o SubSeq(words, i + 1, Len(words)) \in Words
         /\ OwnWords(s, <<Frag(s)>> \o SubSeq(words, i + 1, Len(words)))
<1>1. Frag(s) \in Piece /\ Frag(s)[2] = s
  BY DEF Frag, Piece
<1>2. SubSeq(words, 1, i - 1) \in Words
      /\ OwnWords(s, SubSeq(words, 1, i - 1))
  BY DEF Words, OwnWords
<1>3. SubSeq(words, i + 1, Len(words)) \in Words
      /\ OwnWords(s, SubSeq(words, i + 1, Len(words)))
  BY DEF Words, OwnWords
<1>4. ASSUME NEW u \in Words, OwnWords(s, u)
      PROVE  Append(u, Frag(s)) \in Words /\ OwnWords(s, Append(u, Frag(s)))
  BY <1>1, <1>4 DEF Words, OwnWords
<1>5. ASSUME NEW u \in Words, OwnWords(s, u)
      PROVE  <<Frag(s)>> \o u \in Words /\ OwnWords(s, <<Frag(s)>> \o u)
  <2> DEFINE f == <<Frag(s)>>
  <2>1. f \in Words /\ Len(f) = 1 /\ f[1] = Frag(s)
    BY <1>1 DEF Words
  <2> HIDE DEF f
  <2>2. /\ f \o u \in Words
        /\ Len(f \o u) = 1 + Len(u)
        /\ \A j \in 1..(1 + Len(u)) :
             (f \o u)[j] = IF j <= 1 THEN f[j] ELSE u[j - 1]
    <3>1. f \in Seq(Piece) /\ u \in Seq(Piece)
      BY <2>1 DEF Words
    <3>2. /\ f \o u \in Seq(Piece)
          /\ Len(f \o u) = Len(f) + Len(u)
          /\ \A j \in 1..(Len(f) + Len(u)) :
               (f \o u)[j] = IF j <= Len(f) THEN f[j] ELSE u[j - Len(f)]
      BY <3>1, ConcatProperties, Zenon
    <3> QED
      BY <2>1, <3>2 DEF Words
  <2>3. DOMAIN (f \o u) = 1..(1 + Len(u))
    BY <2>2 DEF Words
  <2>4. \A j \in 1..(1 + Len(u)) : j = 1 \/ j - 1 \in DOMAIN u
    <3> SUFFICES ASSUME NEW j \in 1..(1 + Len(u)), j # 1
                 PROVE  j - 1 \in DOMAIN u
      OBVIOUS
    <3>1. u \in Seq(Piece) /\ Len(u) \in Nat /\ DOMAIN u = 1..Len(u)
      BY DEF Words
    <3> QED
      BY <3>1
  <2>5. \A j \in DOMAIN (f \o u) : (f \o u)[j][2] \in {s, "none"}
    BY <1>1, <1>5, <2>1, <2>2, <2>3, <2>4 DEF OwnWords
  <2> QED
    BY <2>2, <2>5 DEF OwnWords, f
<1> QED
  BY <1>2, <1>3, <1>4, <1>5

LEMMA HalfTagWords ==
  ASSUME NEW s \in Sites, NEW n \in 1..2
  PROVE  /\ [i \in 1..n |-> Frag(s)] \in Words
         /\ OwnWords(s, [i \in 1..n |-> Frag(s)])
         /\ <<Frag(s)>> \in Words /\ OwnWords(s, <<Frag(s)>>)
BY DEF Words, OwnWords, Frag, Piece

RestOwn == \A r \in Responses, s \in Sites : OwnWords(s, rest[r][s])

LEMMA Callbacks ==
  ASSUME TypeOK, RestOwn, NEW r \in Responses, NEW s \in Sites, Chunk(r, s)
  PROVE  \/ UNCHANGED siteVars
         \/ \E tag : OnOpenTag(s, tag)
         \/ \E words \in Words : OwnWords(s, words) /\ OnText(s, words)
<1>1. Running(r, s) /\ Here(r, s) \in Event /\ OwnWords(s, Here(r, s).words)
  BY HereIsEvent DEF Chunk, WholeEvent, SplitText, SplitTag, Remainder,
                     Swallowed, Feed
<1>2. CASE WholeEvent(r, s)
  BY <1>1, <1>2 DEF WholeEvent, Event, Opened
<1>3. CASE SplitText(r, s)
  BY <1>1, <1>3, SplitWords DEF SplitText, Event
<1>4. CASE SplitTag(r, s)
  BY <1>4, HalfTagWords DEF SplitTag
<1>5. CASE Remainder(r, s)
  <2>1. rest[r][s] \in Words /\ OwnWords(s, rest[r][s])
    BY DEF TypeOK, RestOwn
  <2> QED
    BY <1>1, <1>5, <2>1 DEF Remainder, Event, Opened
<1>6. CASE Swallowed(r, s)
  <2>1. CASE UNCHANGED siteVars
    BY <2>1
  <2>2. CASE \E tag \in {Here(inTag[s], s).tag, "other"} : Opened(s, tag)
    BY <2>2 DEF Opened
  <2> QED
    BY <1>6, <2>1, <2>2 DEF Swallowed
<1> QED
  BY <1>2, <1>3, <1>4, <1>5, <1>6 DEF Chunk

-----------------------------------------------------------------------------
(* The list: at most one entry per site, with the one exception.           *)
LEMMA ShapeKeepsOneEntry ==
  ASSUME TypeStates, OneEntryPerSite, Extended \/ Rewritten
  PROVE  OneEntryPerSite'
<1>1. CASE Rewritten
  BY <1>1 DEF Rewritten, TypeStates, OneEntryPerSite
<1>2. CASE Extended
  <2>1. PICK s \in Sites, c \in CurrStates :
          /\ getMyState(s) = Null
          /\ states' = Append(states, Fresh(s, c))
    BY <1>2 DEF Extended
  <2>2. Len(states) <= 1 \/ \A i \in DOMAIN states : states[i].key # s
    BY <2>1, Lookup DEF Null
  <2>3. /\ DOMAIN states' = 1..(Len(states) + 1)
        /\ \A i \in DOMAIN states : states'[i] = states[i]
        /\ states'[Len(states) + 1] = Fresh(s, c)
    BY <2>1 DEF TypeStates
  <2>4. SUFFICES ASSUME NEW i \in DOMAIN states', NEW j \in DOMAIN states',
                        i < j, states'[i].key = states'[j].key
                 PROVE  i = 1 /\ j = 2
    BY DEF OneEntryPerSite
  <2>5. i \in DOMAIN states
    BY <2>3, <2>4 DEF TypeStates
  <2>6. CASE j \in DOMAIN states
    BY <2>3, <2>4, <2>5, <2>6 DEF OneEntryPerSite
  <2>7. CASE j = Len(states) + 1
    <3>1. states'[j].key = s
      BY <2>3, <2>7 DEF Fresh
    <3>2. Len(states) <= 1
      BY <2>2, <2>3, <2>4, <2>5, <3>1
    <3> QED
      BY <2>4, <2>5, <2>7, <3>2 DEF TypeStates
  <2> QED
    BY <2>3, <2>6, <2>7 DEF TypeStates
<1> QED
  BY <1>1, <1>2

LEMMA ShapeKeepsType ==
  ASSUME TypeStates, Extended \/ Rewritten
  PROVE  TypeStates'
BY FreshIsEntry DEF TypeStates, Extended, Rewritten

(* An entry that is found stays the one that is found.                     *)
LEMMA ShapeKeepsFound ==
  ASSUME TypeStates, OneEntryPerSite, Extended \/ Rewritten,
         NEW s \in Sites, getMyState(s) # Null
  PROVE  getMyState(s)' = getMyState(s)
<1> DEFINE m == getMyState(s)
<1>1. /\ m \in DOMAIN states /\ states[m].key = s /\ Len(states) > 1
      /\ \A i \in DOMAIN states : states[i].key = s => m <= i
  BY Lookup
<1>2. /\ Len(states') >= Len(states)
      /\ \A i \in DOMAIN states : i \in DOMAIN states' /\ states'[i].key = states[i].key
      /\ \A i \in DOMAIN states' : i \in DOMAIN states \/ i > Len(states)
  BY DEF TypeStates, Extended, Rewritten
<1>3. /\ m \in Matches(s)' /\ Len(states') > 1
      /\ \A i \in Matches(s)' : m <= i
  BY <1>1, <1>2 DEF Matches, TypeStates
<1> HIDE DEF m
<1>4. \A i \in Matches(s)' : (\A j \in Matches(s)' : i <= j) => i = m
  <2>1. Matches(s)' \subseteq Nat
    BY ShapeKeepsType DEF Matches, TypeStates
  <2> QED
    BY <1>3, <2>1
<1>5. getMyState(s)' = m
  BY <1>3, <1>4 DEF getMyState
<1> QED
  BY <1>5 DEF m

-----------------------------------------------------------------------------
(* Every text an entry or a row holds is of its own site.                  *)
OwnEntry(e) == /\ e.trackname[2] \in {e.key, "none"}
               /\ e.trackdate[2] \in {e.key, "none"}

OwnEntries == \A i \in DOMAIN states : OwnEntry(states[i])

OwnText == OwnEntries /\ OwnRows /\ RestOwn

LEMMA WholeIsOwn ==
  ASSUME NEW s \in Sites, NEW words \in Words, OwnWords(s, words)
  PROVE  Whole(s, words)[2] \in {s, "none"}
BY DEF Whole, OwnWords, Words, Frag

LEMMA FieldTextIsOwn ==
  ASSUME NEW s \in Sites, NEW e \in Entry, e.key = s, OwnEntry(e),
         NEW words \in Words, OwnWords(s, words)
  PROVE  OwnEntry(FieldText(s, e, words))
<1>1. Len(words) > 1 => /\ words[1][2] \in {s, "none"}
                        /\ words[2][2] \in {s, "none"}
  BY DEF Words, OwnWords
<1>2. CASE s = "zoom"
  <2>1. FieldText(s, e, words) = ZoomText(e, words)
    BY <1>2 DEF FieldText
  <2> QED
    <3> DEFINE w == Whole("zoom", words)
    <3>1. w[2] \in {"zoom", "none"}
      BY <1>2, WholeIsOwn
    <3> HIDE DEF w
    <3>2. CASE e.currState = "title"
      <4>1. ZoomText(e, words) = [e EXCEPT !.trackname = w, !.currState = "date"]
        BY <3>2 DEF ZoomText, w
      <4> QED
        BY <1>2, <2>1, <3>1, <4>1 DEF Entry, OwnEntry
    <3>3. CASE e.currState = "date"
      <4>1. ZoomText(e, words) = [e EXCEPT !.trackdate = w, !.currState = "nostate"]
        BY <3>3 DEF ZoomText, w
      <4> QED
        BY <1>2, <2>1, <3>1, <4>1 DEF Entry, OwnEntry
    <3>4. CASE e.currState \notin {"title", "date"}
      BY <2>1, <3>4 DEF ZoomText
    <3> QED
      BY <3>2, <3>3, <3>4
<1>3. CASE s = "letsride"
  <2>1. FieldText(s, e, words) = LetsrideText(e, words)
    BY <1>3 DEF FieldText
  <2> QED
    BY <1>1, <1>3, <2>1 DEF LetsrideText, Entry, OwnEntry
<1>4. CASE s = "keigwin"
  <2>1. FieldText(s, e, words) = KeigwinText(e, words)
    BY <1>4 DEF FieldText
  <2> QED
    BY <1>1, <1>4, <2>1, WholeIsOwn DEF KeigwinText, Entry, OwnEntry
<1>5. CASE s = "ptt"
  <2>1. FieldText(s, e, words) = PttText(e, words)
    BY <1>5 DEF FieldText
  <2> QED
    BY <1>1, <1>5, <2>1 DEF PttText, Entry, OwnEntry
<1> QED
  BY <1>2, <1>3, <1>4, <1>5, SiteCases

(* What reading a cost appends to the rows of the site. *)
LEMMA InsertionRow ==
  ASSUME TypeStates, NEW s \in Sites, NEW words \in Words,
         OwnWords(s, words), inserted \in [Sites -> Seq(Row)],
         getMyState(s) \in DOMAIN states, states[getMyState(s)].key = s,
         OwnEntries
  PROVE  \E row \in Row :
           /\ Insertion(s, words) = [inserted EXCEPT ![s] = Append(@, row)]
           /\ \A field \in {"name", "date", "cost"} :
                row[field][2] \in {s, "none"}
<1> DEFINE e == states[getMyState(s)]
           row == [name |-> e.trackname, date |-> ParsedDate(e.trackdate),
                   cost |-> Whole(s, words)]
<1>1. e \in Entry /\ OwnEntry(e) /\ e.key = s
  BY DEF TypeStates, OwnEntries
<1>2. /\ ParsedDate(e.trackdate) \in Piece
      /\ ParsedDate(e.trackdate)[2] \in {s, "none"}
  BY <1>1 DEF ParsedDate, InvalidDate, Piece, Entry, OwnEntry
<1>3. Whole(s, words) \in Piece /\ Whole(s, words)[2] \in {s, "none"}
  BY WholeIsPiece, WholeIsOwn
<1>4. row \in Row /\ \A field \in {"name", "date", "cost"} :
                        row[field][2] \in {s, "none"}
  BY <1>1, <1>2, <1>3 DEF Row, Entry, OwnEntry
<1>5. Insertion(s, words) = [inserted EXCEPT ![s] = Append(@, row)]
  BY DEF Insertion
<1> HIDE DEF row
<1> QED
  BY <1>4, <1>5

SiteInv == /\ TypeStates
           /\ inserted \in [Sites -> Seq(Row)]
           /\ OwnEntries
           /\ OwnRows

LEMMA NextStateKeepsOwn ==
  ASSUME SiteInv, OneEntryPerSite,
         NEW s \in Sites, NEW c \in CurrStates, nextState(s, c)
  PROVE  OwnEntries'
<1>1. CASE getMyState(s) = Null
  <2>1. states' = Append(states, Fresh(s, c))
    BY <1>1 DEF nextState
  <2>2. OwnEntry(Fresh(s, c))
    BY DEF OwnEntry, Fresh, Empty
  <2> QED
    BY <2>1, <2>2 DEF SiteInv, TypeStates, OwnEntries
<1>2. CASE getMyState(s) # Null
  <2> DEFINE m == getMyState(s)
  <2>1. /\ m \in DOMAIN states
        /\ states' = [states EXCEPT ![m].currState = c]
    BY <1>2, Lookup DEF nextState, SiteInv
  <2>2. OwnEntry([states[m] EXCEPT !.currState = c])
    BY <2>1 DEF OwnEntry, SiteInv, OwnEntries, TypeStates, Entry
  <2>3. states' = [states EXCEPT ![m] = [states[m] EXCEPT !.currState = c]]
    BY <2>1
  <2> HIDE DEF m
  <2> QED
    BY <2>1, <2>2, <2>3 DEF SiteInv, TypeStates, OwnEntries
<1> QED
  BY <1>1, <1>2

LEMMA OpenTagKeepsInv ==
  ASSUME SiteInv, OneEntryPerSite, NEW s \in Sites, NEW tag, OnOpenTag(s, tag)
  PROVE  SiteInv'
<1>1. inserted' = inserted
  BY DEF OnOpenTag
<1>2. TypeStates'
  BY OpenTagShape, ShapeKeepsType DEF SiteInv
<1>3. OwnRows'
  BY <1>1 DEF SiteInv, OwnRows
<1>4. OwnEntries'
  <2>1. UNCHANGED states \/ \E c \in CurrStates : nextState(s, c)
    BY MoveTargets DEF OnOpenTag, CurrStates
  <2> QED
    BY <2>1, NextStateKeepsOwn DEF SiteInv, OwnEntries
<1> QED
  BY <1>1, <1>2, <1>3, <1>4 DEF SiteInv

LEMMA TextKeepsInv ==
  ASSUME SiteInv, OneEntryPerSite, NEW s \in Sites, NEW words \in Words,
         OwnWords(s, words), OnText(s, words)
  PROVE  SiteInv'
<1>1. TypeStates'
  BY TextShape, ShapeKeepsType DEF SiteInv
<1>2. CASE UNCHANGED siteVars
  BY <1>2 DEF siteVars, SiteInv, TypeStates, OwnEntries, OwnRows
<1>3. CASE isState(s, "money") /\ CostText(s, words)
  <2> DEFINE m == getMyState(s)
  <2>1. m \in DOMAIN states /\ states[m].key = s
    BY <1>3, Lookup DEF isState, Current, SiteInv
  <2>2. PICK row \in Row :
          /\ inserted' = [inserted EXCEPT ![s] = Append(@, row)]
          /\ \A field \in {"name", "date", "cost"} : row[field][2] \in {s, "none"}
    BY <1>3, <2>1, InsertionRow DEF CostText, SiteInv
  <2>3. inserted' \in [Sites -> Seq(Row)]
    BY <2>2 DEF SiteInv
  <2>4. OwnRows'
    <3>1. \A t \in Sites : t # s => inserted'[t] = inserted[t]
      BY <2>2 DEF SiteInv
    <3>2. inserted'[s] = Append(inserted[s], row) /\ inserted[s] \in Seq(Row)
      BY <2>2 DEF SiteInv
    <3>3. \A i \in DOMAIN inserted'[s] :
            \/ inserted'[s][i] = row
            \/ i \in DOMAIN inserted[s] /\ inserted'[s][i] = inserted[s][i]
      BY <3>2
    <3> QED
      BY <2>2, <3>1, <3>3 DEF SiteInv, OwnRows
  <2>5. states' = [states EXCEPT ![m] = Fresh(s, "nostate")]
    BY <1>3 DEF CostText
  <2>6. OwnEntry(Fresh(s, "nostate"))
    BY DEF OwnEntry, Fresh, Empty
  <2> HIDE DEF m
  <2>7. OwnEntries'
    BY <2>1, <2>5, <2>6 DEF SiteInv, TypeStates, OwnEntries
  <2> QED
    BY <1>1, <2>3, <2>4, <2>7 DEF SiteInv
<1>4. CASE /\ Current(s) \notin {"null", "money"}
           /\ states' = [states EXCEPT ![getMyState(s)] = FieldText(s, @, words)]
           /\ UNCHANGED inserted
  <2> DEFINE m == getMyState(s)
  <2>1. m \in DOMAIN states /\ states[m].key = s
    BY <1>4, Lookup DEF Current, SiteInv
  <2>2. OwnEntry(FieldText(s, states[m], words))
    BY <2>1, FieldTextIsOwn DEF SiteInv, TypeStates, OwnEntries
  <2>3. states' = [states EXCEPT ![m] = FieldText(s, states[m], words)]
    BY <1>4
  <2> HIDE DEF m
  <2>4. OwnEntries'
    BY <2>1, <2>2, <2>3 DEF SiteInv, TypeStates, OwnEntries
  <2> QED
    BY <1>1, <1>4, <2>4 DEF SiteInv, OwnRows
<1> QED
  BY <1>2, <1>3, <1>4 DEF OnText

-----------------------------------------------------------------------------
(* The inductive invariant: each entry can be found, so that a callback    *)
(* updates an entry that exists, and every text in it is of its own site.  *)
IInv == TypeOK /\ OneEntryPerSite /\ OwnText

LEMMA IInvImpliesSiteInv ==
  IInv => SiteInv
BY DEF IInv, TypeOK, OwnText, SiteInv, TypeStates

LEMMA InitIInv ==
  Init => IInv
<1> SUFFICES ASSUME Init PROVE IInv
  OBVIOUS
<1>1. TypeOK
  BY ScraperAssumption
     DEF Init, SiteInit, TypeOK, Words, Responses
<1>2. OneEntryPerSite /\ OwnEntries /\ OwnRows
  BY DEF Init, SiteInit, OneEntryPerSite, OwnEntries, OwnRows
<1>3. RestOwn
  BY DEF Init, RestOwn, OwnWords
<1> QED
  BY <1>1, <1>2, <1>3 DEF IInv, OwnText

(* The response variables a chunk changes, whatever the callbacks do.      *)
StreamsOK == /\ up \subseteq Sites
             /\ refreshes \in 0..MaxRefresh
             /\ pos \in [Responses -> [Sites -> Nat \ {0}]]
             /\ rest \in [Responses -> [Sites -> Words]]
             /\ inTag \in [Sites -> 0..MaxRefresh]
             /\ lastFed \in [Sites -> 0..MaxRefresh]
             /\ hits \in [Sites -> 0..MaxHits]

LEMMA FeedKeepsStreams ==
  ASSUME StreamsOK, NEW r \in Responses, NEW s \in Sites,
         NEW n \in Nat, Feed(r, s, n)
  PROVE  /\ up' \subseteq Sites /\ refreshes' \in 0..MaxRefresh
         /\ lastFed' \in [Sites -> 0..MaxRefresh]
         /\ hits' \in [Sites -> 0..MaxHits]
BY ScraperAssumption DEF StreamsOK, Feed, Responses

LEMMA PassedKeepsStreams ==
  ASSUME StreamsOK, NEW r \in Responses, NEW s \in Sites, Passed(r, s)
  PROVE  /\ pos' \in [Responses -> [Sites -> Nat \ {0}]]
         /\ rest' \in [Responses -> [Sites -> Words]]
BY DEF StreamsOK, Passed, Words

LEMMA ChunkKeepsStreams ==
  ASSUME TypeOK, RestOwn, NEW r \in Responses, NEW s \in Sites, Chunk(r, s)
  PROVE  StreamsOK' /\ RestOwn'
<1>1. StreamsOK
  BY DEF TypeOK, StreamsOK
<1>2. /\ up' \subseteq Sites /\ refreshes' \in 0..MaxRefresh
      /\ lastFed' \in [Sites -> 0..MaxRefresh]
      /\ hits' \in [Sites -> 0..MaxHits]
  BY <1>1, FeedKeepsStreams
     DEF Chunk, WholeEvent, SplitText, SplitTag, Remainder, Swallowed
<1>3. inTag' \in [Sites -> 0..MaxRefresh]
  <2>1. \/ inTag' = inTag
        \/ inTag' = [inTag EXCEPT ![s] = 0]
        \/ inTag' = [inTag EXCEPT ![s] = r]
    BY DEF Chunk, WholeEvent, SplitText, SplitTag, Remainder, Swallowed
  <2>2. r \in 0..MaxRefresh /\ 0 \in 0..MaxRefresh
    BY ScraperAssumption DEF Responses
  <2> QED
    BY <1>1, <2>1, <2>2 DEF StreamsOK
<1>4. CASE Passed(r, s)
  <2>1. RestOwn'
    BY <1>1, <1>4 DEF RestOwn, Passed, StreamsOK, OwnWords
  <2> QED
    BY <1>1, <1>2, <1>3, <1>4, <2>1, PassedKeepsStreams DEF StreamsOK
<1>5. CASE /\ UNCHANGED pos
           /\ \E u \in Words : /\ OwnWords(s, u)
                               /\ rest' = [rest EXCEPT ![r][s] = u]
  <2>1. PICK u \in Words : /\ OwnWords(s, u)
                           /\ rest' = [rest EXCEPT ![r][s] = u]
    BY <1>5
  <2>2. rest' \in [Responses -> [Sites -> Words]]
    BY <1>1, <2>1 DEF StreamsOK
  <2>3. RestOwn'
    BY <1>1, <2>1 DEF RestOwn, StreamsOK
  <2> QED
    BY <1>1, <1>2, <1>3, <1>5, <2>2, <2>3 DEF StreamsOK
<1>6. \/ Passed(r, s)
      \/ /\ UNCHANGED pos
         /\ \E u \in Words : /\ OwnWords(s, u)
                             /\ rest' = [rest EXCEPT ![r][s] = u]
  <2>1. CASE SplitText(r, s)
    <3>1. /\ Here(r, s).words \in Words
          /\ OwnWords(s, Here(r, s).words)
      BY <2>1, HereIsEvent DEF SplitText, Feed, Event
    <3> QED
      BY <2>1, <3>1, SplitWords DEF SplitText
  <2>2. CASE SplitTag(r, s)
    <3>1. <<Frag(s)>> \in Words /\ OwnWords(s, <<Frag(s)>>)
      BY HalfTagWords, 1 \in 1..2
    <3> QED
      BY <2>2, <3>1 DEF SplitTag
  <2>3. CASE WholeEvent(r, s) \/ Remainder(r, s) \/ Swallowed(r, s)
    BY <2>3 DEF WholeEvent, Remainder, Swallowed
  <2> QED
    BY <2>1, <2>2, <2>3 DEF Chunk
<1> QED
  BY <1>4, <1>5, <1>6

LEMMA ChunkShape ==
  ASSUME IInv, NEW r \in Responses, NEW s \in Sites, Chunk(r, s)
  PROVE  Extended \/ Rewritten
<1>1. TypeStates /\ OneEntryPerSite
  BY DEF IInv, TypeOK, TypeStates
<1>2. UNCHANGED siteVars => Rewritten
  BY <1>1 DEF siteVars, Rewritten, TypeStates
<1> QED
  BY <1>1, <1>2, Callbacks, OpenTagShape, TextShape DEF IInv, OwnText

LEMMA NextIInv ==
  IInv /\ [Next]_vars => IInv'
<1> SUFFICES ASSUME IInv, [Next]_vars PROVE IInv'
  OBVIOUS
<1>1. CASE UNCHANGED vars
  BY <1>1 DEF vars, siteVars, streamVars, IInv, TypeOK, OneEntryPerSite, OwnText,
              OwnEntries, OwnRows, RestOwn
<1>2. CASE Refresh
  BY <1>2, ScraperAssumption
     DEF Refresh, siteVars, IInv, TypeOK, OneEntryPerSite, OwnText,
         OwnEntries, OwnRows, RestOwn
<1>3. ASSUME NEW r \in Responses, NEW s \in Sites, Chunk(r, s)
      PROVE  IInv'
  <2>1. SiteInv /\ OneEntryPerSite /\ TypeOK /\ RestOwn
    BY IInvImpliesSiteInv DEF IInv, OwnText
  <2>2. OneEntryPerSite'
    BY <1>3, <2>1, ChunkShape, ShapeKeepsOneEntry DEF SiteInv
  <2>3. SiteInv'
    <3>1. UNCHANGED siteVars => SiteInv'
      BY <2>1 DEF siteVars, SiteInv, TypeStates, OwnEntries, OwnRows
    <3> QED
      BY <1>3, <2>1, <3>1, Callbacks, OpenTagKeepsInv, TextKeepsInv
  <2>4. StreamsOK' /\ RestOwn'
    BY <1>3, <2>1, ChunkKeepsStreams
  <2> QED
    BY <2>2, <2>3, <2>4
       DEF SiteInv, StreamsOK, IInv, TypeOK, OwnText, TypeStates
<1> QED
  BY <1>1, <1>2, <1>3 DEF Next

(* The inductive invariant holds: its parts are the theorems below.        *)
THEOREM Invariance == Spec => []IInv
BY InitIInv, NextIInv, PTL DEF Spec

(* Every variable has its type in every reachable state.                   *)
THEOREM TypeCorrect == Spec => []TypeOK
<1>1. IInv => TypeOK
  BY DEF IInv
<1> QED
  BY <1>1, Invariance, PTL

(* The shared list holds one entry per site, but for the one slip of the   *)
(* cold start, however the chunks of however many sites interleave.        *)
THEOREM OneEntryPerSiteHolds == Spec => []OneEntryPerSite
<1>1. IInv => OneEntryPerSite
  BY DEF IInv
<1> QED
  BY <1>1, Invariance, PTL

(* No row of one club ever carries a text of another club's page.          *)
THEOREM OwnRowsHolds == Spec => []OwnRows
<1>1. IInv => OwnRows
  BY DEF IInv, OwnText
<1> QED
  BY <1>1, Invariance, PTL

(* A scraper that has found its entry finds the same one ever after.       *)
THEOREM FoundStaysHolds == Spec => FoundStays
<1>1. ASSUME IInv, [Next]_vars
      PROVE  [\A s \in Sites :
                getMyState(s) # Null => getMyState(s)' = getMyState(s)]_vars
  <2> SUFFICES ASSUME NEW s \in Sites, getMyState(s) # Null
               PROVE  getMyState(s)' = getMyState(s)
    OBVIOUS
  <2>1. CASE UNCHANGED states
    BY <2>1 DEF getMyState, Matches
  <2>2. CASE Extended \/ Rewritten
    BY <1>1, <2>2, ShapeKeepsFound DEF IInv, TypeOK, TypeStates
  <2>3. UNCHANGED states \/ Extended \/ Rewritten
    BY <1>1, ChunkShape DEF Next, Refresh, vars, siteVars
  <2> QED
    BY <2>1, <2>2, <2>3
<1> QED
  BY <1>1, Invariance, PTL DEF Spec, FoundStays

-----------------------------------------------------------------------------
(***************************************************************************)
(* The damage.  Which rows may still be spoiled, though nothing disturbs   *)
(* their scraper any more, depends on how its entry and its page stand to  *)
(* each other: Risk.  An event that passes whole never raises the rows     *)
(* that are spoiled and those that may be, taken together; a disturbance   *)
(* raises them by two at most, and the cold start by one.                  *)
(***************************************************************************)

(* What the list holds for a site: no entry, one that is not found because *)
(* the list has no other, or one that is.                                  *)
Kind(s) == IF Matches(s) = {} THEN "none"
           ELSE IF getMyState(s) = Null THEN "unfound" ELSE "found"
Mine(s) == states[IF getMyState(s) = Null THEN 1 ELSE getMyState(s)]

(* The states an entry can be made in.                                     *)
MadeIn(s) == CASE s = "zoom" -> {"start", "money"}
               [] s = "letsride" -> {"nostate"}
               [] s \in {"keigwin", "ptt"} -> {"start"}

Known(s, k, e) == /\ k \in {"none", "unfound", "found"}
                  /\ k = "found" => e \in Entry /\ e.key = s
                  /\ k = "unfound" => \E c \in MadeIn(s) : e = Fresh(s, c)

Read(e, row) == e.trackname = row.name /\ e.trackdate = row.date

(* The rows that may be spoiled though nothing disturbs the scraper any    *)
(* more, when it stands before a step of a listing with this row, whole or *)
(* cut.                                                                    *)
ZoomReady(e, step, row) ==
  \/ step = 2 /\ e.currState = "start"
  \/ step = 3 /\ e.currState = "title"
  \/ step = 4 /\ e.currState = "date" /\ e.trackname = row.name
  \/ step = 5 /\ e.currState = "nostate" /\ Read(e, row)

ZoomOne(k, e, step, row, whole) ==
  k = "found" /\ \/ step = 1 /\ e.currState = "money"
                 \/ step \in 2..5 /\ ~(whole /\ ZoomReady(e, step, row))
                 \/ step = 6 /\ e.currState = "money" /\ ~(whole /\ Read(e, row))
ZoomTwo(k, e, step) ==
  \/ k = "none" /\ step \in 2..5
  \/ k = "unfound" /\ e.currState = "money"
  \/ k = "found" /\ step \in 2..5 /\ e.currState = "money"

LetsrideOne(k, e, step, row, whole) ==
  k = "found" /\
    \/ e.currState = "date" /\ ~(step \in 1..2 \/ (step = 3 /\ whole))
    \/ e.currState = "transition" /\ ~(step = 4 /\ Read(e, row))
    \/ e.currState = "money" /\ ~(step = 5 /\ whole /\ Read(e, row))

KeigwinReady(e, step, row, whole) ==
  \/ e.currState \in {"nostate", "start"} /\ e.trackname = Empty
  \/ step = 3 /\ whole /\ e.currState = "date" /\ e.trackname = Empty
  \/ /\ step = 4 /\ e.currState = "date"
     /\ e.trackname = Empty /\ e.trackdate = row.date
  \/ /\ step = 5 /\ whole /\ e.currState = "title"
     /\ e.trackname = Empty /\ e.trackdate = row.date
  \/ step = 6 /\ e.currState = "title" /\ Read(e, row)
  \/ step \in {7, 8} /\ e.currState = "group" /\ Read(e, row)
  \/ step = 9 /\ whole /\ e.currState = "money" /\ Read(e, row)
KeigwinOne(k, e, step, row, whole) ==
  k = "found" /\ ~KeigwinReady(e, step, row, whole)

PttOne(k, e, step, row, whole) ==
  k = "found" /\
    \/ e.currState = "nostate" /\ step \in 2..4 /\ ~(step = 4 /\ Read(e, row))
    \/ e.currState = "money" /\ ~(step = 5 /\ whole /\ Read(e, row))
    \/ e.currState = "title" /\ step = 3 /\ ~whole
PttTwo(k, e, step) == k = "found" /\ e.currState = "money" /\ step \in {2, 3}

One(s, k, e, step, row, whole) ==
  CASE s = "zoom" -> ZoomOne(k, e, step, row, whole)
    [] s = "letsride" -> LetsrideOne(k, e, step, row, whole)
    [] s = "keigwin" -> KeigwinOne(k, e, step, row, whole)
    [] s = "ptt" -> PttOne(k, e, step, row, whole)
Two(s, k, e, step) == \/ s = "zoom" /\ ZoomTwo(k, e, step)
                      \/ s = "ptt" /\ PttTwo(k, e, step)

Risk(s, k, e, step, row, whole) ==
  IF Two(s, k, e, step) THEN 2 ELSE IF One(s, k, e, step, row, whole) THEN 1 ELSE 0

(* What a tag does to them.                                                *)
Sees(k, e) == IF k = "found" THEN e.currState ELSE "null"
Turns(s, k, e, c, l, f) ==
  \/ k = "found" /\ l = "found" /\ f = [e EXCEPT !.currState = c]
  \/ k = "unfound" /\ l = "found" /\ f = e
  \/ k = "none" /\ l \in {"unfound", "found"} /\ f = Fresh(s, c)
Goes(s, tag, cur, c) ==
  \E m \in Moves(s) : m.tag = tag /\ cur \in m.from /\ m.to = c
Tagged(s, tag, k, e, l, f) ==
  IF s = "letsride" /\ k # "found" THEN Turns(s, k, e, "nostate", l, f)
  ELSE \/ \E c : Goes(s, tag, Sees(k, e), c) /\ Turns(s, k, e, c, l, f)
       \/ (\A c : ~Goes(s, tag, Sees(k, e), c)) /\ l = k /\ f = e

LEMMA ZoomGoes ==
  ASSUME NEW tag, NEW cur \in AnyState, NEW c
  PROVE  Goes("zoom", tag, cur, c) <=> \/ tag = "category" /\ c = "start"
                                       \/ tag = "h1" /\ cur = "start" /\ c = "title"
                                       \/ tag = "price" /\ c = "money"
<1>1. Moves("zoom") = ZoomMoves
  BY DEF Moves
<1>2. ASSUME Goes("zoom", tag, cur, c)
      PROVE  \/ tag = "category" /\ c = "start"
             \/ tag = "h1" /\ cur = "start" /\ c = "title"
             \/ tag = "price" /\ c = "money"
  <2>1. PICK m \in ZoomMoves : m.tag = tag /\ cur \in m.from /\ m.to = c
    BY <1>1, <1>2 DEF Goes
  <2>2. CASE m = Move("category", AnyState, "start")
    BY <2>1, <2>2 DEF Move
  <2>3. CASE m = Move("h1", {"start"}, "title")
    BY <2>1, <2>3 DEF Move
  <2>4. CASE m = Move("price", AnyState, "money")
    BY <2>1, <2>4 DEF Move
  <2> QED
    BY <2>1, <2>2, <2>3, <2>4 DEF ZoomMoves
<1>3. Move("category", AnyState, "start") \in ZoomMoves
  BY DEF ZoomMoves
<1>4. Move("h1", {"start"}, "title") \in ZoomMoves
  BY DEF ZoomMoves
<1>5. Move("price", AnyState, "money") \in ZoomMoves
  BY DEF ZoomMoves
<1>6. \A m \in ZoomMoves : m.tag = tag /\ cur \in m.from /\ m.to = c => Goes("zoom", tag, cur, c)
  BY <1>1 DEF Goes
<1> QED
  BY <1>2, <1>3, <1>4, <1>5, <1>6 DEF Move

LEMMA LetsrideGoes ==
  ASSUME NEW tag, NEW cur \in AnyState, NEW c
  PROVE  Goes("letsride", tag, cur, c) <=>
           \/ tag = "name" /\ cur = "nostate" /\ c = "start"
           \/ tag = "ayelshop" /\ cur = "start" /\ c = "date"
           \/ tag = "price" /\ cur = "transition" /\ c = "money"
<1>1. Moves("letsride") = LetsrideMoves
  BY DEF Moves
<1>2. ASSUME Goes("letsride", tag, cur, c)
      PROVE  \/ tag = "name" /\ cur = "nostate" /\ c = "start"
             \/ tag = "ayelshop" /\ cur = "start" /\ c = "date"
             \/ tag = "price" /\ cur = "transition" /\ c = "money"
  <2>1. PICK m \in LetsrideMoves : m.tag = tag /\ cur \in m.from /\ m.to = c
    BY <1>1, <1>2 DEF Goes
  <2>2. CASE m = Move("name", {"nostate"}, "start")
    BY <2>1, <2>2 DEF Move
  <2>3. CASE m = Move("ayelshop", {"start"}, "date")
    BY <2>1, <2>3 DEF Move
  <2>4. CASE m = Move("price", {"transition"}, "money")
    BY <2>1, <2>4 DEF Move
  <2> QED
    BY <2>1, <2>2, <2>3, <2>4 DEF LetsrideMoves
<1>3. Move("name", {"nostate"}, "start") \in LetsrideMoves
  BY DEF LetsrideMoves
<1>4. Move("ayelshop", {"start"}, "date") \in LetsrideMoves
  BY DEF LetsrideMoves
<1>5. Move("price", {"transition"}, "money") \in LetsrideMoves
  BY DEF LetsrideMoves
<1>6. \A m \in LetsrideMoves : m.tag = tag /\ cur \in m.from /\ m.to = c => Goes("letsride", tag, cur, c)
  BY <1>1 DEF Goes
<1> QED
  BY <1>2, <1>3, <1>4, <1>5, <1>6 DEF Move

LEMMA KeigwinGoes ==
  ASSUME NEW tag, NEW cur \in AnyState, NEW c
  PROVE  Goes("keigwin", tag, cur, c) <=>
           \/ tag = "datatable" /\ c = "start"
           \/ tag = "roster" /\ cur = "start" /\ c = "date"
           \/ tag = "td" /\ cur = "date" /\ c = "title"
           \/ tag = "td" /\ cur = "title" /\ c = "group"
           \/ tag = "td" /\ cur = "group" /\ c = "money"
<1>1. Moves("keigwin") = KeigwinMoves
  BY DEF Moves
<1>2. ASSUME Goes("keigwin", tag, cur, c)
      PROVE  \/ tag = "datatable" /\ c = "start"
             \/ tag = "roster" /\ cur = "start" /\ c = "date"
             \/ tag = "td" /\ cur = "date" /\ c = "title"
             \/ tag = "td" /\ cur = "title" /\ c = "group"
             \/ tag = "td" /\ cur = "group" /\ c = "money"
  <2>1. PICK m \in KeigwinMoves : m.tag = tag /\ cur \in m.from /\ m.to = c
    BY <1>1, <1>2 DEF Goes
  <2>2. CASE m = Move("datatable", AnyState, "start")
    BY <2>1, <2>2 DEF Move
  <2>3. CASE m = Move("roster", {"start"}, "date")
    BY <2>1, <2>3 DEF Move
  <2>4. CASE m = Move("td", {"date"}, "title")
    BY <2>1, <2>4 DEF Move
  <2>5. CASE m = Move("td", {"title"}, "group")
    BY <2>1, <2>5 DEF Move
  <2>6. CASE m = Move("td", {"group"}, "money")
    BY <2>1, <2>6 DEF Move
  <2> QED
    BY <2>1, <2>2, <2>3, <2>4, <2>5, <2>6 DEF KeigwinMoves
<1>3. Move("datatable", AnyState, "start") \in KeigwinMoves
  BY DEF KeigwinMoves
<1>4. Move("roster", {"start"}, "date") \in KeigwinMoves
  BY DEF KeigwinMoves
<1>5. Move("td", {"date"}, "title") \in KeigwinMoves
  BY DEF KeigwinMoves
<1>6. Move("td", {"title"}, "group") \in KeigwinMoves
  BY DEF KeigwinMoves
<1>7. Move("td", {"group"}, "money") \in KeigwinMoves
  BY DEF KeigwinMoves
<1>8. \A m \in KeigwinMoves : m.tag = tag /\ cur \in m.from /\ m.to = c => Goes("keigwin", tag, cur, c)
  BY <1>1 DEF Goes
<1> QED
  BY <1>2, <1>3, <1>4, <1>5, <1>6, <1>7, <1>8 DEF Move

LEMMA PttGoes ==
  ASSUME NEW tag, NEW cur \in AnyState, NEW c
  PROVE  Goes("ptt", tag, cur, c) <=>
           \/ tag = "eb_title" /\ c = "start"
           \/ tag = "a" /\ cur = "start" /\ c = "title"
           \/ tag = "price" /\ cur = "nostate" /\ c = "money"
<1>1. Moves("ptt") = PttMoves
  BY DEF Moves
<1>2. ASSUME Goes("ptt", tag, cur, c)
      PROVE  \/ tag = "eb_title" /\ c = "start"
             \/ tag = "a" /\ cur = "start" /\ c = "title"
             \/ tag = "price" /\ cur = "nostate" /\ c = "money"
  <2>1. PICK m \in PttMoves : m.tag = tag /\ cur \in m.from /\ m.to = c
    BY <1>1, <1>2 DEF Goes
  <2>2. CASE m = Move("eb_title", AnyState, "start")
    BY <2>1, <2>2 DEF Move
  <2>3. CASE m = Move("a", {"start"}, "title")
    BY <2>1, <2>3 DEF Move
  <2>4. CASE m = Move("price", {"nostate"}, "money")
    BY <2>1, <2>4 DEF Move
  <2> QED
    BY <2>1, <2>2, <2>3, <2>4 DEF PttMoves
<1>3. Move("eb_title", AnyState, "start") \in PttMoves
  BY DEF PttMoves
<1>4. Move("a", {"start"}, "title") \in PttMoves
  BY DEF PttMoves
<1>5. Move("price", {"nostate"}, "money") \in PttMoves
  BY DEF PttMoves
<1>6. \A m \in PttMoves : m.tag = tag /\ cur \in m.from /\ m.to = c => Goes("ptt", tag, cur, c)
  BY <1>1 DEF Goes
<1> QED
  BY <1>2, <1>3, <1>4, <1>5, <1>6 DEF Move

LEMMA SeesAny ==
  ASSUME NEW s, NEW k, NEW e, Known(s, k, e)
  PROVE  Sees(k, e) \in AnyState
BY DEF Known, Sees, AnyState, Entry

Same(f, e) == /\ f \in Entry /\ f.key = e.key
              /\ f.trackname = e.trackname /\ f.trackdate = e.trackdate

LEMMA FreshIs ==
  ASSUME NEW s \in Sites, NEW c \in CurrStates, NEW f, f = Fresh(s, c)
  PROVE  /\ f \in Entry /\ f.key = s /\ f.currState = c
         /\ f.trackname = Empty /\ f.trackdate = Empty
BY FreshIsEntry DEF Fresh

LEMMA GoesTo ==
  ASSUME NEW s \in Sites, NEW tag, NEW cur, NEW c, Goes(s, tag, cur, c)
  PROVE  c \in CurrStates
BY MoveTargets DEF Goes

LEMMA TagFound ==
  ASSUME NEW s \in Sites, NEW tag, NEW e, NEW l, NEW f, Known(s, "found", e),
         Tagged(s, tag, "found", e, l, f)
  PROVE  /\ l = "found" /\ Same(f, e) /\ Known(s, l, f)
         /\ \/ \E c : Goes(s, tag, e.currState, c) /\ f.currState = c
            \/ (\A c : ~Goes(s, tag, e.currState, c)) /\ f.currState = e.currState
<1>1. e \in Entry /\ e.key = s
  BY DEF Known
<1>2. \/ \E c : Goes(s, tag, e.currState, c) /\ l = "found" /\ f = [e EXCEPT !.currState = c]
      \/ (\A c : ~Goes(s, tag, e.currState, c)) /\ l = "found" /\ f = e
  BY DEF Tagged, Turns, Sees
<1>3. CASE (\A c : ~Goes(s, tag, e.currState, c)) /\ l = "found" /\ f = e
  BY <1>1, <1>3 DEF Same, Known
<1>4. ASSUME NEW c, Goes(s, tag, e.currState, c), l = "found", f = [e EXCEPT !.currState = c]
      PROVE  Same(f, e) /\ f.currState = c
  <2>1. c \in CurrStates
    BY <1>4, GoesTo
  <2> QED
    BY <1>1, <1>4, <2>1 DEF Same, Entry
<1> QED
  BY <1>1, <1>2, <1>3, <1>4 DEF Same, Known

LEMMA MadeInIs == ASSUME NEW s \in Sites PROVE MadeIn(s) \subseteq CurrStates
BY SiteCases DEF MadeIn, CurrStates

LEMMA TagUnfound ==
  ASSUME NEW s \in Sites, NEW tag, NEW e, NEW l, NEW f, Known(s, "unfound", e),
         Tagged(s, tag, "unfound", e, l, f)
  PROVE  /\ f = e /\ f \in Entry /\ f.currState \in MadeIn(s)
         /\ f.trackname = Empty /\ f.trackdate = Empty /\ Known(s, l, f)
         /\ \/ l = "found" /\ (s = "letsride" \/ \E c : Goes(s, tag, "null", c))
            \/ l = "unfound" /\ s # "letsride" /\ \A c : ~Goes(s, tag, "null", c)
<1>1. PICK c \in MadeIn(s) : e = Fresh(s, c)
  BY DEF Known
<1>2. c \in CurrStates
  BY MadeInIs
<1>3. e \in Entry /\ e.key = s /\ e.currState = c /\ e.trackname = Empty /\ e.trackdate = Empty
  BY <1>1, <1>2, FreshIs
<1>4. /\ f = e
      /\ \/ l = "found" /\ (s = "letsride" \/ \E d : Goes(s, tag, "null", d))
         \/ l = "unfound" /\ s # "letsride" /\ \A d : ~Goes(s, tag, "null", d)
  BY DEF Tagged, Turns, Sees
<1>5. Known(s, l, f)
  BY <1>1, <1>3, <1>4 DEF Known
<1> QED
  BY <1>3, <1>4, <1>5

LEMMA TagNone ==
  ASSUME NEW s \in Sites, NEW tag, NEW e, NEW l, NEW f, Known(s, "none", e),
         Tagged(s, tag, "none", e, l, f)
  PROVE  \/ /\ l = "none" /\ s # "letsride" /\ \A c : ~Goes(s, tag, "null", c)
         \/ \E c \in CurrStates :
              /\ IF s = "letsride" THEN c = "nostate" ELSE Goes(s, tag, "null", c)
              /\ l \in {"unfound", "found"} /\ f = Fresh(s, c)
              /\ f \in Entry /\ f.key = s /\ f.currState = c
              /\ f.trackname = Empty /\ f.trackdate = Empty
<1>1. \/ l = "none" /\ s # "letsride" /\ \A c : ~Goes(s, tag, "null", c)
      \/ \E c : /\ IF s = "letsride" THEN c = "nostate" ELSE Goes(s, tag, "null", c)
                /\ l \in {"unfound", "found"} /\ f = Fresh(s, c)
  BY DEF Tagged, Turns, Sees
<1>2. ASSUME NEW c, IF s = "letsride" THEN c = "nostate" ELSE Goes(s, tag, "null", c)
      PROVE  c \in CurrStates
  BY <1>2, GoesTo DEF CurrStates
<1> QED
  BY <1>1, <1>2, FreshIs

NullGoes(s, tag, c) ==
  CASE s = "zoom" -> \/ tag = "category" /\ c = "start"
                     \/ tag = "price" /\ c = "money"
    [] s = "keigwin" -> tag = "datatable" /\ c = "start"
    [] s = "ptt" -> tag = "eb_title" /\ c = "start"
    [] s = "letsride" -> FALSE

LEMMA GoesFromNull ==
  ASSUME NEW s \in Sites, NEW tag, NEW c
  PROVE  Goes(s, tag, "null", c) <=> NullGoes(s, tag, c)
<1>1. "null" \in AnyState
  BY DEF AnyState
<1>2. CASE s = "zoom"
  BY <1>1, <1>2, ZoomGoes DEF NullGoes
<1>3. CASE s = "letsride"
  BY <1>1, <1>3, LetsrideGoes DEF NullGoes
<1>4. CASE s = "keigwin"
  BY <1>1, <1>4, KeigwinGoes DEF NullGoes
<1>5. CASE s = "ptt"
  BY <1>1, <1>5, PttGoes DEF NullGoes
<1> QED
  BY <1>2, <1>3, <1>4, <1>5, SiteCases

(* No more rows are at risk.                                               *)
NoWorse(s, k, e, step, row, whole, l, f, next, other) ==
  /\ Two(s, l, f, next) => Two(s, k, e, step)
  /\ One(s, l, f, next, other, TRUE) => Two(s, k, e, step) \/ One(s, k, e, step, row, whole)

LEMMA NoneKnown ==
  ASSUME NEW s \in Sites, NEW tag, NEW e, NEW l, NEW f, Known(s, "none", e),
         Tagged(s, tag, "none", e, l, f)
  PROVE  Known(s, l, f)
<1>1. CASE l = "none"
  BY <1>1 DEF Known
<1>2. ASSUME NEW c \in CurrStates, l \in {"unfound", "found"}, f = Fresh(s, c), f \in Entry, f.key = s,
             IF s = "letsride" THEN c = "nostate" ELSE Goes(s, tag, "null", c)
      PROVE  Known(s, l, f)
  <2>1. c \in MadeIn(s)
    BY <1>2, GoesFromNull, SiteCases DEF MadeIn, NullGoes
  <2> QED
    BY <1>2, <2>1 DEF Known
<1> QED
  BY <1>1, <1>2, TagNone

LEMMA ZoomTag ==
  ASSUME "zoom" \in Sites,
         NEW k, NEW e, NEW l, NEW f, Known("zoom", k, e), NEW step \in {1, 2, 5}, NEW row,
         NEW tag, tag = StepsOf("zoom")[step], Tagged("zoom", tag, k, e, l, f)
  PROVE  NoWorse("zoom", k, e, step, row, TRUE, l, f, step + 1, row)
<1>1. tag = CASE step = 1 -> "category" [] step = 2 -> "h1" [] step = 5 -> "price"
  BY DEF StepsOf
<1>2. CASE k = "found"
  <2>1. e.currState \in AnyState
    BY <1>2 DEF Known, Entry, AnyState
  <2>2. /\ l = "found" /\ Same(f, e)
        /\ step = 1 => f.currState = "start"
        /\ step = 2 => f.currState = IF e.currState = "start" THEN "title" ELSE e.currState
        /\ step = 5 => f.currState = "money"
    <3>1. /\ l = "found" /\ Same(f, e)
          /\ \/ \E c : Goes("zoom", tag, e.currState, c) /\ f.currState = c
             \/ (\A c : ~Goes("zoom", tag, e.currState, c)) /\ f.currState = e.currState
      BY <1>2, TagFound
    <3>2. \A c : Goes("zoom", tag, e.currState, c) <=> 
                       \/ tag = "category" /\ c = "start"
                       \/ tag = "h1" /\ e.currState = "start" /\ c = "title"
                       \/ tag = "price" /\ c = "money"
      BY <2>1, ZoomGoes
    <3> QED
      BY <1>1, <3>1, <3>2
  <2> QED
    BY <1>2, <2>2 DEF Same, NoWorse, One, Two, ZoomOne, ZoomTwo, ZoomReady, Read
<1>3. CASE k = "unfound"
  <2>1. /\ f = e /\ e.currState \in {"start", "money"}
        /\ l = IF step = 2 THEN "unfound" ELSE "found"
    <3>1. \A c : Goes("zoom", tag, "null", c) <=> NullGoes("zoom", tag, c)
      BY GoesFromNull
    <3> QED
      BY <1>1, <1>3, <3>1, TagUnfound DEF MadeIn, NullGoes
  <2> QED
    BY <1>3, <2>1 DEF NoWorse, One, Two, ZoomOne, ZoomTwo, ZoomReady
<1>4. CASE k = "none"
  <2>1. \/ l = "none" /\ step = 2
        \/ /\ l \in {"unfound", "found"} /\ step \in {1, 5}
           /\ f.currState = IF step = 1 THEN "start" ELSE "money"
    <3>1. \A c : Goes("zoom", tag, "null", c) <=> NullGoes("zoom", tag, c)
      BY GoesFromNull
    <3> QED
      BY <1>1, <1>4, <3>1, TagNone DEF NullGoes
  <2> QED
    BY <1>4, <2>1 DEF NoWorse, One, Two, ZoomOne, ZoomTwo, ZoomReady
<1> QED
  BY <1>2, <1>3, <1>4 DEF Known

LEMMA LetsrideTag ==
  ASSUME "letsride" \in Sites,
         NEW k, NEW e, NEW l, NEW f, Known("letsride", k, e), NEW step \in {1, 2, 4}, NEW row,
         NEW tag, tag = StepsOf("letsride")[step], Tagged("letsride", tag, k, e, l, f)
  PROVE  NoWorse("letsride", k, e, step, row, TRUE, l, f, step + 1, row)
<1>1. tag = CASE step = 1 -> "name" [] step = 2 -> "ayelshop" [] step = 4 -> "price"
  BY DEF StepsOf
<1>2. CASE k = "found"
  <2>1. e.currState \in AnyState
    BY <1>2 DEF Known, Entry, AnyState
  <2>2. /\ l = "found" /\ Same(f, e)
        /\ f.currState = CASE step = 1 /\ e.currState = "nostate" -> "start"
                           [] step = 2 /\ e.currState = "start" -> "date"
                           [] step = 4 /\ e.currState = "transition" -> "money"
                           [] OTHER -> e.currState
    <3>1. /\ l = "found" /\ Same(f, e)
          /\ \/ \E c : Goes("letsride", tag, e.currState, c) /\ f.currState = c
             \/ (\A c : ~Goes("letsride", tag, e.currState, c)) /\ f.currState = e.currState
      BY <1>2, TagFound
    <3>2. \A c : Goes("letsride", tag, e.currState, c) <=> 
                       \/ tag = "name" /\ e.currState = "nostate" /\ c = "start"
                       \/ tag = "ayelshop" /\ e.currState = "start" /\ c = "date"
                       \/ tag = "price" /\ e.currState = "transition" /\ c = "money"
      BY <2>1, LetsrideGoes
    <3> QED
      BY <1>1, <3>1, <3>2
  <2> QED
    BY <1>2, <2>2 DEF Same, NoWorse, One, Two, LetsrideOne, Read
<1>3. CASE k = "unfound"
  <2>1. e.currState = "nostate" /\ f = e
    BY <1>3, TagUnfound DEF MadeIn
  <2> QED
    BY <1>3, <2>1 DEF NoWorse, One, Two, LetsrideOne
<1>4. CASE k = "none"
  <2>1. f.currState = "nostate"
    BY <1>1, <1>4, TagNone
  <2> QED
    BY <1>4, <2>1 DEF NoWorse, One, Two, LetsrideOne
<1> QED
  BY <1>2, <1>3, <1>4 DEF Known

LEMMA KeigwinTag ==
  ASSUME "keigwin" \in Sites,
         NEW k, NEW e, NEW l, NEW f, Known("keigwin", k, e), NEW step \in {1, 2, 4, 6, 8}, NEW row,
         NEW tag, tag = StepsOf("keigwin")[step], Tagged("keigwin", tag, k, e, l, f)
  PROVE  NoWorse("keigwin", k, e, step, row, TRUE, l, f, step + 1, row)
<1>1. tag = CASE step = 1 -> "datatable" [] step = 2 -> "roster" [] OTHER -> "td"
  BY DEF StepsOf
<1>2. CASE k = "found"
  <2>1. e.currState \in AnyState
    BY <1>2 DEF Known, Entry, AnyState
  <2>2. /\ l = "found" /\ Same(f, e)
        /\ f.currState = CASE step = 1 -> "start"
                           [] step = 2 /\ e.currState = "start" -> "date"
                           [] step > 2 /\ e.currState = "date" -> "title"
                           [] step > 2 /\ e.currState = "title" -> "group"
                           [] step > 2 /\ e.currState = "group" -> "money"
                           [] OTHER -> e.currState
    <3>1. /\ l = "found" /\ Same(f, e)
          /\ \/ \E c : Goes("keigwin", tag, e.currState, c) /\ f.currState = c
             \/ (\A c : ~Goes("keigwin", tag, e.currState, c)) /\ f.currState = e.currState
      BY <1>2, TagFound
    <3>2. \A c : Goes("keigwin", tag, e.currState, c) <=> 
                       \/ tag = "datatable" /\ c = "start"
                       \/ tag = "roster" /\ e.currState = "start" /\ c = "date"
                       \/ tag = "td" /\ e.currState = "date" /\ c = "title"
                       \/ tag = "td" /\ e.currState = "title" /\ c = "group"
                       \/ tag = "td" /\ e.currState = "group" /\ c = "money"
      BY <2>1, KeigwinGoes
    <3> QED
      BY <1>1, <3>1, <3>2
  <2> QED
    BY <1>2, <2>2 DEF Same, NoWorse, One, Two, KeigwinOne, KeigwinReady, Read
<1>3. CASE k = "unfound"
  <2>1. e.currState = "start" /\ f = e /\ e.trackname = Empty
    BY <1>3, TagUnfound DEF MadeIn
  <2> QED
    BY <1>3, <2>1 DEF NoWorse, One, Two, KeigwinOne, KeigwinReady
<1>4. CASE k = "none"
  <2>1. l = "none" \/ (f.currState = "start" /\ f.trackname = Empty)
    <3>1. \A c : Goes("keigwin", tag, "null", c) <=> NullGoes("keigwin", tag, c)
      BY GoesFromNull
    <3>2. CASE l # "none"
      <4>1. PICK c \in CurrStates :
              /\ IF "keigwin" = "letsride" THEN c = "nostate" ELSE Goes("keigwin", tag, "null", c)
              /\ f.currState = c /\ f.trackname = Empty
        BY <1>4, <3>2, TagNone
      <4> QED
        BY <3>1, <4>1 DEF NullGoes
    <3> QED
      BY <3>2
  <2> QED
    BY <1>4, <2>1 DEF NoWorse, One, Two, KeigwinOne, KeigwinReady
<1> QED
  BY <1>2, <1>3, <1>4 DEF Known

LEMMA PttTag ==
  ASSUME "ptt" \in Sites,
         NEW k, NEW e, NEW l, NEW f, Known("ptt", k, e), NEW step \in {1, 2, 4}, NEW row,
         NEW tag, tag = StepsOf("ptt")[step], Tagged("ptt", tag, k, e, l, f)
  PROVE  NoWorse("ptt", k, e, step, row, TRUE, l, f, step + 1, row)
<1>1. tag = CASE step = 1 -> "eb_title" [] step = 2 -> "a" [] step = 4 -> "price"
  BY DEF StepsOf
<1>2. CASE k = "found"
  <2>1. e.currState \in AnyState
    BY <1>2 DEF Known, Entry, AnyState
  <2>2. /\ l = "found" /\ Same(f, e)
        /\ f.currState = CASE step = 1 -> "start"
                           [] step = 2 /\ e.currState = "start" -> "title"
                           [] step = 4 /\ e.currState = "nostate" -> "money"
                           [] OTHER -> e.currState
    <3>1. /\ l = "found" /\ Same(f, e)
          /\ \/ \E c : Goes("ptt", tag, e.currState, c) /\ f.currState = c
             \/ (\A c : ~Goes("ptt", tag, e.currState, c)) /\ f.currState = e.currState
      BY <1>2, TagFound
    <3>2. \A c : Goes("ptt", tag, e.currState, c) <=> 
                       \/ tag = "eb_title" /\ c = "start"
                       \/ tag = "a" /\ e.currState = "start" /\ c = "title"
                       \/ tag = "price" /\ e.currState = "nostate" /\ c = "money"
      BY <2>1, PttGoes
    <3> QED
      BY <1>1, <3>1, <3>2
  <2> QED
    BY <1>2, <2>2 DEF Same, NoWorse, One, Two, PttOne, PttTwo, Read
<1>3. CASE k = "unfound"
  <2>1. e.currState = "start" /\ f = e
    BY <1>3, TagUnfound DEF MadeIn
  <2> QED
    BY <1>3, <2>1 DEF NoWorse, One, Two, PttOne, PttTwo
<1>4. CASE k = "none"
  <2>1. l = "none" \/ f.currState = "start"
    <3>1. \A c : Goes("ptt", tag, "null", c) <=> NullGoes("ptt", tag, c)
      BY GoesFromNull
    <3> QED
      BY <1>1, <1>4, <3>1, TagNone DEF NullGoes
  <2> QED
    BY <1>4, <2>1 DEF NoWorse, One, Two, PttOne, PttTwo
<1> QED
  BY <1>2, <1>3, <1>4 DEF Known

LEMMA OtherTag ==
  ASSUME NEW s \in Sites, NEW k, NEW e, NEW l, NEW f, Known(s, k, e),
         Tagged(s, "other", k, e, l, f),
         NEW step \in Nat, NEW row
  PROVE  NoWorse(s, k, e, step, row, TRUE, l, f, step, row)
<1>1. ASSUME NEW cur \in AnyState, NEW c PROVE ~Goes(s, "other", cur, c)
  BY SiteCases, ZoomGoes, LetsrideGoes, KeigwinGoes, PttGoes
<1>2. Sees(k, e) \in AnyState
  BY SeesAny
<1>3. CASE ~(s = "letsride" /\ k # "found")
  <2>1. l = k /\ f = e
    BY <1>1, <1>2, <1>3 DEF Tagged
  <2> QED
    BY <2>1 DEF NoWorse
<1>4. CASE s = "letsride" /\ k # "found"
  <2>1. CASE k = "unfound"
    BY <1>4, <2>1, TagUnfound DEF MadeIn, NoWorse, One, Two, LetsrideOne
  <2>2. CASE k = "none"
    BY <1>4, <2>2, TagNone DEF NoWorse, One, Two, LetsrideOne
  <2> QED
    BY <1>4, <2>1, <2>2 DEF Known
<1> QED
  BY <1>3, <1>4

-----------------------------------------------------------------------------
(* A row of a page.                                                        *)
OnPage(row) == row \in Row /\ row.name # Empty /\ row.date[1] = "date"

LEMMA ZoomTextEffect ==
  ASSUME "zoom" \in Sites, NEW e, Known("zoom", "found", e), NEW words \in Words
  PROVE  LET f == FieldText("zoom", e, words) IN
         /\ e.currState = "title" => f.currState = "date" /\ f.trackname = Whole("zoom", words)
         /\ e.currState = "date" => /\ f.currState = "nostate" /\ f.trackdate = Whole("zoom", words)
                                    /\ f.trackname = e.trackname
         /\ e.currState \notin {"title", "date"} => f = e
<1> DEFINE w == Whole("zoom", words)
<1>1. FieldText("zoom", e, words) = ZoomText(e, words) /\ e \in Entry
  BY DEF FieldText, Known
<1>2. CASE e.currState = "title"
  <2>1. ZoomText(e, words) = [e EXCEPT !.trackname = w, !.currState = "date"]
    BY <1>2 DEF ZoomText
  <2> HIDE DEF w
  <2> QED
    BY <1>1, <1>2, <2>1 DEF w, Entry
<1>3. CASE e.currState = "date"
  <2>1. ZoomText(e, words) = [e EXCEPT !.trackdate = w, !.currState = "nostate"]
    BY <1>3 DEF ZoomText
  <2> HIDE DEF w
  <2> QED
    BY <1>1, <1>3, <2>1 DEF w, Entry
<1>4. CASE e.currState \notin {"title", "date"}
  <2>1. ZoomText(e, words) = e
    BY <1>4 DEF ZoomText
  <2> QED
    BY <1>1, <1>4, <2>1
<1> QED
  BY <1>2, <1>3, <1>4

LEMMA ZoomTexts ==
  ASSUME "zoom" \in Sites, NEW e, Known("zoom", "found", e), e.currState # "money",
         NEW words \in Words, NEW f, f = FieldText("zoom", e, words),
         NEW step \in {3, 4, 6}, NEW row, OnPage(row), NEW whole \in BOOLEAN,
         whole => Says("zoom", step, words, row), NEW other
  PROVE  NoWorse("zoom", "found", e, step, row, whole, "found", f,
                 IF step = 6 THEN 1 ELSE step + 1, IF step = 6 THEN other ELSE row)
<1>1. Len(StepsOf("zoom")) = 6
  BY DEF StepsOf
<1>2. whole /\ step = 3 => Whole("zoom", words) = row.name
  BY <1>1 DEF Says
<1>3. whole /\ step = 4 => Whole("zoom", words) = row.date
  BY <1>1 DEF Says
<1>4. \/ f = e /\ e.currState \notin {"title", "date"}
      \/ /\ e.currState = "title" /\ f.currState = "date" /\ f.trackname = Whole("zoom", words)
      \/ /\ e.currState = "date" /\ f.currState = "nostate" /\ f.trackdate = Whole("zoom", words)
         /\ f.trackname = e.trackname
  BY ZoomTextEffect
<1> QED
  BY <1>2, <1>3, <1>4 DEF NoWorse, One, Two, ZoomOne, ZoomTwo, ZoomReady, Read

LEMMA LetsrideTextEffect ==
  ASSUME "letsride" \in Sites, NEW e, Known("letsride", "found", e), NEW words \in Words
  PROVE  LET f == FieldText("letsride", e, words) IN
         IF e.currState = "date" /\ Len(words) > 1
         THEN f.currState = "transition" /\ f.trackdate = words[1] /\ f.trackname = words[2]
         ELSE f = e
<1>1. FieldText("letsride", e, words) = LetsrideText(e, words) /\ e \in Entry
  BY DEF FieldText, Known
<1>2. CASE e.currState = "date" /\ Len(words) > 1
  <2> DEFINE d == words[1]
             n == words[2]
  <2>1. LetsrideText(e, words) = [e EXCEPT !.trackdate = d, !.trackname = n, !.currState = "transition"]
    BY <1>2 DEF LetsrideText
  <2> HIDE DEF d, n
  <2>2. LET f == LetsrideText(e, words) IN
        f.currState = "transition" /\ f.trackdate = d /\ f.trackname = n
    BY <1>1, <2>1 DEF Entry
  <2> QED
    BY <1>1, <1>2, <2>2 DEF d, n
<1>3. CASE ~(e.currState = "date" /\ Len(words) > 1)
  BY <1>1, <1>3 DEF LetsrideText
<1> QED
  BY <1>2, <1>3

LEMMA LetsrideTexts ==
  ASSUME "letsride" \in Sites, NEW e, Known("letsride", "found", e), e.currState # "money",
         NEW words \in Words, NEW f, f = FieldText("letsride", e, words),
         NEW step \in {3, 5}, NEW row, OnPage(row), NEW whole \in BOOLEAN,
         whole => Says("letsride", step, words, row), NEW other
  PROVE  NoWorse("letsride", "found", e, step, row, whole, "found", f,
                 IF step = 5 THEN 1 ELSE step + 1, IF step = 5 THEN other ELSE row)
<1>1. Len(StepsOf("letsride")) = 5
  BY DEF StepsOf
<1>2. whole /\ step = 3 => Len(words) > 1 /\ words[1] = row.date /\ words[2] = row.name
  BY <1>1 DEF Says
<1>3. \/ f = e /\ (e.currState # "date" \/ ~(whole /\ step = 3))
      \/ /\ e.currState = "date" /\ f.currState = "transition"
         /\ whole /\ step = 3 => Read(f, row)
  BY <1>2, LetsrideTextEffect DEF Read
<1> QED
  BY <1>3 DEF NoWorse, One, Two, LetsrideOne

LEMMA KeigwinTextEffect ==
  ASSUME "keigwin" \in Sites, NEW e, Known("keigwin", "found", e), NEW words \in Words
  PROVE  LET f == FieldText("keigwin", e, words) IN
         /\ f.currState = e.currState
         /\ f.trackname = IF e.currState = "title" /\ e.trackname = Empty
                          THEN Whole("keigwin", words) ELSE e.trackname
         /\ f.trackdate = IF e.currState = "date" /\ Len(words) > 1
                          THEN words[1] ELSE e.trackdate
<1> DEFINE w == Whole("keigwin", words)
           d == words[1]
           long == Len(words) > 1
<1>1. FieldText("keigwin", e, words) = KeigwinText(e, words) /\ e \in Entry
  BY DEF FieldText, Known
<1>2. KeigwinText(e, words) =
        CASE e.currState = "date" /\ long -> [e EXCEPT !.trackdate = d]
          [] e.currState = "title" /\ e.trackname = Empty -> [e EXCEPT !.trackname = w]
          [] e.currState = "group" -> [e EXCEPT !.groups = w]
          [] OTHER -> e
  BY DEF KeigwinText
<1> HIDE DEF w, d, long
<1>3. LET f == KeigwinText(e, words) IN
         /\ f.currState = e.currState
         /\ f.trackname = IF e.currState = "title" /\ e.trackname = Empty THEN w ELSE e.trackname
         /\ f.trackdate = IF e.currState = "date" /\ long THEN d ELSE e.trackdate
  BY <1>1, <1>2 DEF Entry
<1> QED
  BY <1>1, <1>3 DEF w, d, long

LEMMA KeigwinTexts ==
  ASSUME "keigwin" \in Sites, NEW e, Known("keigwin", "found", e), e.currState # "money",
         NEW words \in Words, NEW f, f = FieldText("keigwin", e, words),
         NEW step \in {3, 5, 7, 9}, NEW row, OnPage(row), NEW whole \in BOOLEAN,
         whole => Says("keigwin", step, words, row), NEW other
  PROVE  NoWorse("keigwin", "found", e, step, row, whole, "found", f,
                 IF step = 9 THEN 1 ELSE step + 1, IF step = 9 THEN other ELSE row)
<1>1. Len(StepsOf("keigwin")) = 9
  BY DEF StepsOf
<1>2. whole /\ step = 3 => Len(words) > 1 /\ words[1] = row.date
  BY <1>1 DEF Says
<1>3. whole /\ step = 5 => Whole("keigwin", words) = row.name
  BY <1>1 DEF Says
<1>4. /\ f.currState = e.currState
      /\ f.trackname = IF e.currState = "title" /\ e.trackname = Empty
                       THEN Whole("keigwin", words) ELSE e.trackname
      /\ e.currState # "date" => f.trackdate = e.trackdate
      /\ e.currState = "date" /\ whole /\ step = 3 => f.trackdate = row.date
  BY <1>2, KeigwinTextEffect
<1> QED
  BY <1>3, <1>4 DEF NoWorse, One, Two, KeigwinOne, KeigwinReady, Read, OnPage

LEMMA PttTextEffect ==
  ASSUME "ptt" \in Sites, NEW e, Known("ptt", "found", e), NEW words \in Words
  PROVE  LET f == FieldText("ptt", e, words) IN
         IF e.currState = "title" /\ Len(words) > 1
         THEN f.currState = "nostate" /\ f.trackname = words[1] /\ f.trackdate = words[2]
         ELSE f = e
<1>1. FieldText("ptt", e, words) = PttText(e, words) /\ e \in Entry
  BY DEF FieldText, Known
<1>2. CASE e.currState = "title" /\ Len(words) > 1
  <2> DEFINE d == words[2]
             n == words[1]
  <2>1. PttText(e, words) = [e EXCEPT !.trackname = n, !.trackdate = d, !.currState = "nostate"]
    BY <1>2 DEF PttText
  <2> HIDE DEF d, n
  <2>2. LET f == PttText(e, words) IN
        f.currState = "nostate" /\ f.trackdate = d /\ f.trackname = n
    BY <1>1, <2>1 DEF Entry
  <2> QED
    BY <1>1, <1>2, <2>2 DEF d, n
<1>3. CASE ~(e.currState = "title" /\ Len(words) > 1)
  BY <1>1, <1>3 DEF PttText
<1> QED
  BY <1>2, <1>3

LEMMA PttTexts ==
  ASSUME "ptt" \in Sites, NEW e, Known("ptt", "found", e), e.currState # "money",
         NEW words \in Words, NEW f, f = FieldText("ptt", e, words),
         NEW step \in {3, 5}, NEW row, OnPage(row), NEW whole \in BOOLEAN,
         whole => Says("ptt", step, words, row), NEW other
  PROVE  NoWorse("ptt", "found", e, step, row, whole, "found", f,
                 IF step = 5 THEN 1 ELSE step + 1, IF step = 5 THEN other ELSE row)
<1>1. Len(StepsOf("ptt")) = 5
  BY DEF StepsOf
<1>2. whole /\ step = 3 => Len(words) > 1 /\ words[1] = row.name /\ words[2] = row.date
  BY <1>1 DEF Says
<1>3. \/ f = e /\ (e.currState # "title" \/ ~(whole /\ step = 3))
      \/ /\ e.currState = "title" /\ f.currState = "nostate"
         /\ whole /\ step = 3 => Read(f, row)
  BY <1>2, PttTextEffect DEF Read
<1> QED
  BY <1>3 DEF NoWorse, One, Two, PttOne, PttTwo

(* A cost is read.                                                         *)
Inserted(e, s, words) == [name |-> e.trackname, date |-> ParsedDate(e.trackdate),
                          cost |-> Whole(s, words)]

LEMMA FreshRisk ==
  ASSUME NEW s \in Sites, NEW f, f = Fresh(s, "nostate"), NEW step, NEW row, NEW whole
  PROVE  Known(s, "found", f) /\ ~Two(s, "found", f, step)
<1>1. f \in Entry /\ f.key = s /\ f.currState = "nostate"
  BY FreshIs DEF CurrStates
<1> QED
  BY <1>1 DEF Known, Two, ZoomTwo, PttTwo

LEMMA StepCounts ==
  /\ Len(StepsOf("zoom")) = 6 /\ Len(StepsOf("letsride")) = 5
  /\ Len(StepsOf("keigwin")) = 9 /\ Len(StepsOf("ptt")) = 5
BY DEF StepsOf

LEMMA GoodRow ==
  ASSUME NEW s \in Sites, NEW e, Known(s, "found", e), NEW words \in Words, NEW row,
         OnPage(row), Read(e, row), Says(s, Len(StepsOf(s)), words, row)
  PROVE  Inserted(e, s, words) = row
<1>1. Whole(s, words) = row.cost
  <2> DEFINE n == Len(StepsOf(s))
  <2>1. Says(s, n, words, row)
    OBVIOUS
  <2>2. n # 3 /\ n # 4 /\ ~(s = "keigwin" /\ n = 5)
    <3>1. \/ s = "zoom" /\ n = 6
          \/ s \in {"letsride", "ptt"} /\ n = 5
          \/ s = "keigwin" /\ n = 9
      BY SiteCases, StepCounts
    <3> HIDE DEF n
    <3> QED
      BY <3>1
  <2>3. n = Len(StepsOf(s))
    OBVIOUS
  <2> HIDE DEF n
  <2> QED
    BY <2>1, <2>2, <2>3 DEF Says
<1>2. ParsedDate(e.trackdate) = row.date /\ e.trackname = row.name
  BY DEF ParsedDate, OnPage, Read
<1>3. PICK n \in Piece, d \in Piece, c \in Piece : row = [name |-> n, date |-> d, cost |-> c]
  BY DEF OnPage, Row
<1>4. row.name = n /\ row.date = d /\ row.cost = c
  BY <1>3
<1>5. Inserted(e, s, words) = [name |-> n, date |-> d, cost |-> c]
  BY <1>1, <1>2, <1>4 DEF Inserted
<1> QED
  BY <1>3, <1>5

LEMMA CostRisk ==
  ASSUME NEW s \in Sites, NEW e, Known(s, "found", e), e.currState = "money",
         NEW words \in Words, NEW f, f = Fresh(s, "nostate"),
         NEW step \in 1..Len(StepsOf(s)), StepsOf(s)[step] = "#text",
         NEW row, OnPage(row), NEW whole \in BOOLEAN,
         whole => Says(s, step, words, row), NEW other
  PROVE  LET next == IF step = Len(StepsOf(s)) THEN 1 ELSE step + 1
             after == IF step = Len(StepsOf(s)) THEN other ELSE row
         IN  /\ One(s, "found", f, next, after, TRUE) => Two(s, "found", e, step)
             /\ \/ Inserted(e, s, words) = row
                \/ Two(s, "found", e, step) \/ One(s, "found", e, step, row, whole)
<1>1. f \in Entry /\ f.key = s /\ f.currState = "nostate" /\ f.trackname = Empty
  BY FreshIs DEF CurrStates
<1>2. ASSUME whole, Read(e, row), step = Len(StepsOf(s))
      PROVE  Inserted(e, s, words) = row
  BY <1>2, GoodRow
<1>3. CASE s = "zoom"
  <2>1. step \in {3, 4, 6} /\ Len(StepsOf(s)) = 6
    BY <1>3 DEF StepsOf
  <2>2. Two(s, "found", e, step) <=> step \in {3, 4}
    BY <1>3, <2>1 DEF Two, ZoomTwo
  <2>3. step = 6 => ~One(s, "found", f, 1, other, TRUE)
    BY <1>1, <1>3 DEF One, ZoomOne
  <2>4. step = 6 /\ ~(whole /\ Read(e, row)) => One(s, "found", e, step, row, whole)
    BY <1>3 DEF One, ZoomOne
  <2> QED
    BY <1>2, <2>1, <2>2, <2>3, <2>4
<1>4. CASE s = "letsride"
  <2>1. step \in {3, 5} /\ Len(StepsOf(s)) = 5
    BY <1>4 DEF StepsOf
  <2> QED
    BY <1>1, <1>2, <1>4, <2>1 DEF One, Two, LetsrideOne
<1>5. CASE s = "keigwin"
  <2>1. step \in {3, 5, 7, 9} /\ Len(StepsOf(s)) = 9
    BY <1>5 DEF StepsOf
  <2>2. \A n, r : ~One(s, "found", f, n, r, TRUE)
    BY <1>1, <1>5 DEF One, KeigwinOne, KeigwinReady
  <2>3. ~(step = 9 /\ whole /\ Read(e, row)) => One(s, "found", e, step, row, whole)
    BY <1>5 DEF One, KeigwinOne, KeigwinReady
  <2>4. \/ Inserted(e, s, words) = row
        \/ One(s, "found", e, step, row, whole)
    BY <1>2, <2>1, <2>3
  <2> QED
    BY <2>2, <2>4
<1>6. CASE s = "ptt"
  <2>1. step \in {3, 5} /\ Len(StepsOf(s)) = 5
    BY <1>6 DEF StepsOf
  <2>2. step = 3 => Two(s, "found", e, step)
    BY <1>6 DEF Two, PttTwo
  <2>3. step = 5 => ~One(s, "found", f, 1, other, TRUE)
    BY <1>1, <1>6 DEF One, PttOne
  <2>4. step = 5 /\ ~(whole /\ Read(e, row)) => One(s, "found", e, step, row, whole)
    BY <1>6 DEF One, PttOne
  <2> QED
    BY <1>2, <2>1, <2>2, <2>3, <2>4
<1> QED
  BY <1>3, <1>4, <1>5, <1>6, SiteCases

RowAt(s, i) == Listings[s][Place[s][i].listing].row
RiskAt(s, k, e, i, whole) == Risk(s, k, e, Place[s][i].step, RowAt(s, i), whole)

LEMMA RiskRange ==
  ASSUME NEW s, NEW k, NEW e, NEW step, NEW row, NEW whole
  PROVE  Risk(s, k, e, step, row, whole) \in 0..2
BY DEF Risk

LEMMA NoWorseRisk ==
  ASSUME NEW s, NEW k, NEW e, NEW step, NEW row, NEW whole, NEW l, NEW f, NEW next, NEW other,
         NoWorse(s, k, e, step, row, whole, l, f, next, other)
  PROVE  Risk(s, l, f, next, other, TRUE) <= Risk(s, k, e, step, row, whole)
<1> DEFINE a == Risk(s, l, f, next, other, TRUE)
           b == Risk(s, k, e, step, row, whole)
           two == Two(s, l, f, next)
           twice == Two(s, k, e, step)
           one == One(s, l, f, next, other, TRUE)
           once == One(s, k, e, step, row, whole)
<1>1. a = IF two THEN 2 ELSE IF one THEN 1 ELSE 0
  BY DEF Risk
<1>2. b = IF twice THEN 2 ELSE IF once THEN 1 ELSE 0
  BY DEF Risk
<1>3. (two => twice) /\ (one => twice \/ once)
  BY DEF NoWorse
<1>4. (two => twice) /\ (one => twice \/ once) => a <= b
  <2> HIDE DEF a, b, two, twice, one, once
  <2>1. CASE twice
    <3>1. b = 2
      BY <1>2, <2>1
    <3>2. a \in 0..2
      BY <1>1
    <3> QED
      BY <3>1, <3>2
  <2>2. CASE ~twice /\ once /\ ~two
    <3>1. b = 1
      BY <1>2, <2>2
    <3>2. a \in 0..1
      BY <1>1, <2>2
    <3> QED
      BY <3>1, <3>2
  <2>3. CASE ~twice /\ ~once /\ ~two /\ ~one
    <3>1. b = 0 /\ a = 0
      BY <1>1, <1>2, <2>3
    <3> QED
      BY <3>1
  <2> QED
    BY <2>1, <2>2, <2>3
<1> QED
  BY <1>3, <1>4

(* A place in the page of a site.                                          *)
LEMMA Places ==
  ASSUME NEW s \in Sites, NEW i \in DOMAIN Page[s]
  PROVE  /\ Page[s][i] \in Event
         /\ Place[s][i].step \in 1..Len(StepsOf(s))
         /\ Between(s, i) \/ Expected(s, i)
<1>1. Page[s] \in Seq(Event)
  BY ScraperAssumption
<1>2. Page[s][i] \in Event
  BY <1>1
<1>3. i \in 1..(Len(Page[s]) + 1)
  BY <1>1
<1>4. Place[s] \in [1..(Len(Page[s]) + 1) -> [listing : Nat \ {0}, step : 1..Len(StepsOf(s))]]
  BY PagesAssumption
<1>5. Place[s][i] \in [listing : Nat \ {0}, step : 1..Len(StepsOf(s))]
  BY <1>3, <1>4
<1> QED
  BY <1>2, <1>5, PagesAssumption

LEMMA ExpectedIs ==
  ASSUME NEW s \in Sites, NEW i \in DOMAIN Page[s], Expected(s, i)
  PROVE  LET step == Place[s][i].step
             row == RowAt(s, i)
             last == step = Len(StepsOf(s))
         IN  /\ Page[s][i].tag = StepsOf(s)[step]
             /\ StepsOf(s)[step] = "#text" => Says(s, step, Page[s][i].words, row)
             /\ OnPage(row) /\ row \in RowsOf(s)
             /\ Place[s][i + 1].step = IF last THEN 1 ELSE step + 1
             /\ ~last => RowAt(s, i + 1) = row
<1> DEFINE l == Place[s][i].listing
           step == Place[s][i].step
<1>1. /\ l \in DOMAIN Listings[s]
      /\ Page[s][i].tag = StepsOf(s)[step]
      /\ StepsOf(s)[step] = "#text" =>
            Says(s, step, Page[s][i].words, Listings[s][l].row)
      /\ Place[s][i + 1] = [listing |-> IF step = Len(StepsOf(s)) THEN l + 1 ELSE l,
                            step |-> IF step = Len(StepsOf(s)) THEN 1 ELSE step + 1]
  BY DEF Expected
<1>2. Listings[s] \in Seq(Listing)
  BY ScraperAssumption
<1>3. Listings[s][l] \in Listing
  BY <1>1, <1>2
<1>4. OnPage(Listings[s][l].row)
  BY <1>1, <1>3, PagesAssumption DEF OnPage, Listing
<1>5. Listings[s][l].row \in RowsOf(s)
  BY <1>1 DEF RowsOf
<1>6. /\ Place[s][i + 1].step = IF step = Len(StepsOf(s)) THEN 1 ELSE step + 1
      /\ step # Len(StepsOf(s)) => Place[s][i + 1].listing = l
  BY <1>1
<1> QED
  BY <1>1, <1>4, <1>5, <1>6 DEF RowAt

LEMMA SomeTag ==
  ASSUME NEW s \in Sites, NEW step \in 1..Len(StepsOf(s)), StepsOf(s)[step] # "#text"
  PROVE  /\ StepsOf(s)[step] \notin {"other", "close"}
         /\ step # Len(StepsOf(s))
         /\ s = "zoom" => step \in {1, 2, 5}
         /\ s = "letsride" => step \in {1, 2, 4}
         /\ s = "keigwin" => step \in {1, 2, 4, 6, 8}
         /\ s = "ptt" => step \in {1, 2, 4}
<1>1. CASE s = "zoom"
  BY <1>1 DEF StepsOf
<1>2. CASE s = "letsride"
  BY <1>2 DEF StepsOf
<1>3. CASE s = "keigwin"
  BY <1>3 DEF StepsOf
<1>4. CASE s = "ptt"
  BY <1>4 DEF StepsOf
<1> QED
  BY <1>1, <1>2, <1>3, <1>4, SiteCases

LEMMA SomeText ==
  ASSUME NEW s \in Sites, NEW step \in 1..Len(StepsOf(s)), StepsOf(s)[step] = "#text"
  PROVE  /\ s = "zoom" => step \in {3, 4, 6}
         /\ s = "letsride" => step \in {3, 5}
         /\ s = "keigwin" => step \in {3, 5, 7, 9}
         /\ s = "ptt" => step \in {3, 5}
<1>1. CASE s = "zoom"
  BY <1>1 DEF StepsOf
<1>2. CASE s = "letsride"
  BY <1>2 DEF StepsOf
<1>3. CASE s = "keigwin"
  BY <1>3 DEF StepsOf
<1>4. CASE s = "ptt"
  BY <1>4 DEF StepsOf
<1> QED
  BY <1>1, <1>2, <1>3, <1>4, SiteCases

TagTo(s, tag, k, e, l, f) ==
  IF tag = "close" THEN l = k /\ f = e ELSE Tagged(s, tag, k, e, l, f)

LEMMA TaggedKnown ==
  ASSUME NEW s \in Sites, NEW tag, NEW k, NEW e, NEW l, NEW f, Known(s, k, e),
         TagTo(s, tag, k, e, l, f)
  PROVE  Known(s, l, f)
<1>1. k \in {"none", "unfound", "found"}
  BY DEF Known
<1>2. CASE tag = "close"
  BY <1>2 DEF TagTo
<1>3. CASE tag # "close" /\ k = "none"
  BY <1>3, NoneKnown DEF TagTo
<1>4. CASE tag # "close" /\ k = "unfound"
  BY <1>4, TagUnfound DEF TagTo
<1>5. CASE tag # "close" /\ k = "found"
  BY <1>5, TagFound DEF TagTo
<1> QED
  BY <1>1, <1>2, <1>3, <1>4, <1>5

(* A tag of the page, or one no scraper looks for in its place.            *)
LEMMA PassTag ==
  ASSUME NEW s \in Sites, NEW k, NEW e, NEW l, NEW f, Known(s, k, e),
         NEW i \in DOMAIN Page[s], Page[s][i].tag # "#text",
         TagTo(s, Page[s][i].tag, k, e, l, f)
  PROVE  RiskAt(s, l, f, i + 1, TRUE) <= RiskAt(s, k, e, i, TRUE)
<1> DEFINE step == Place[s][i].step
           row == RowAt(s, i)
           tag == Page[s][i].tag
<1>1. step \in 1..Len(StepsOf(s)) /\ step \in Nat
  BY Places
<1>2. CASE Between(s, i)
  <2>1. Place[s][i + 1] = Place[s][i] /\ tag \in {"other", "close"}
    BY <1>2 DEF Between
  <2>2. NoWorse(s, k, e, step, row, TRUE, l, f, step, row)
    <3>1. CASE tag = "close"
      BY <3>1 DEF TagTo, NoWorse
    <3>2. CASE tag = "other"
      <4>1. Tagged(s, "other", k, e, l, f)
        BY <3>2 DEF TagTo
      <4> HIDE DEF step, row
      <4> QED
        BY <1>1, <4>1, OtherTag
    <3> QED
      BY <2>1, <3>1, <3>2
  <2> HIDE DEF tag
  <2> QED
    BY <2>1, <2>2, NoWorseRisk DEF RiskAt, RowAt
<1>3. CASE Expected(s, i)
  <2>1. tag = StepsOf(s)[step]
    BY <1>3, ExpectedIs
  <2>2. /\ step # Len(StepsOf(s)) /\ tag # "close"
        /\ s = "zoom" => step \in {1, 2, 5}
        /\ s = "letsride" => step \in {1, 2, 4}
        /\ s = "keigwin" => step \in {1, 2, 4, 6, 8}
        /\ s = "ptt" => step \in {1, 2, 4}
    BY <1>1, <2>1, SomeTag
  <2>3. Place[s][i + 1].step = step + 1 /\ RowAt(s, i + 1) = row
    BY <1>3, <2>2, ExpectedIs
  <2>4. Tagged(s, tag, k, e, l, f)
    BY <2>2 DEF TagTo
  <2> HIDE DEF step, row, tag
  <2>5. NoWorse(s, k, e, step, row, TRUE, l, f, step + 1, row)
    <3>1. CASE s = "zoom"
      BY <2>1, <2>2, <2>4, <3>1, ZoomTag
    <3>2. CASE s = "letsride"
      BY <2>1, <2>2, <2>4, <3>2, LetsrideTag
    <3>3. CASE s = "keigwin"
      BY <2>1, <2>2, <2>4, <3>3, KeigwinTag
    <3>4. CASE s = "ptt"
      BY <2>1, <2>2, <2>4, <3>4, PttTag
    <3> QED
      BY <3>1, <3>2, <3>3, <3>4, SiteCases
  <2>6. Risk(s, l, f, step + 1, row, TRUE) <= Risk(s, k, e, step, row, TRUE)
    BY <2>5, NoWorseRisk
  <2> QED
    BY <2>3, <2>6 DEF RiskAt, step, row
<1> QED
  BY <1>2, <1>3, Places

TextTo(s, words, k, e, l, f) ==
  /\ l = k
  /\ f = IF k # "found" THEN e
         ELSE IF e.currState = "money" THEN Fresh(s, "nostate")
         ELSE FieldText(s, e, words)
Spoils(s, words, k, e) ==
  IF k = "found" /\ e.currState = "money" /\ Inserted(e, s, words) \notin RowsOf(s)
  THEN 1 ELSE 0

LEMMA TextKnown ==
  ASSUME NEW s \in Sites, NEW words \in Words, NEW k, NEW e, NEW l, NEW f, Known(s, k, e),
         TextTo(s, words, k, e, l, f)
  PROVE  Known(s, l, f)
<1>1. CASE k # "found"
  BY <1>1 DEF TextTo
<1>2. CASE k = "found" /\ e.currState = "money"
  BY <1>2, FreshIs DEF TextTo, Known, CurrStates
<1>3. CASE k = "found" /\ e.currState # "money"
  BY <1>3, FieldTextIsEntry DEF TextTo, Known
<1> QED
  BY <1>1, <1>2, <1>3

LEMMA FieldTexts ==
  ASSUME NEW s \in Sites, NEW e, Known(s, "found", e), e.currState # "money",
         NEW words \in Words, NEW f, f = FieldText(s, e, words),
         NEW step \in 1..Len(StepsOf(s)), StepsOf(s)[step] = "#text",
         NEW row, OnPage(row), NEW whole \in BOOLEAN,
         whole => Says(s, step, words, row), NEW other
  PROVE  NoWorse(s, "found", e, step, row, whole, "found", f,
                 IF step = Len(StepsOf(s)) THEN 1 ELSE step + 1,
                 IF step = Len(StepsOf(s)) THEN other ELSE row)
<1>1. CASE s = "zoom"
  BY <1>1, SomeText, ZoomTexts, StepCounts
<1>2. CASE s = "letsride"
  BY <1>2, SomeText, LetsrideTexts, StepCounts
<1>3. CASE s = "keigwin"
  <2>1. step \in {3, 5, 7, 9} /\ Len(StepsOf(s)) = 9
    BY <1>3, SomeText, StepCounts
  <2>2. NoWorse("keigwin", "found", e, step, row, whole, "found", f,
                IF step = 9 THEN 1 ELSE step + 1, IF step = 9 THEN other ELSE row)
    BY <1>3, <2>1, KeigwinTexts
  <2> QED
    BY <1>3, <2>1, <2>2
<1>4. CASE s = "ptt"
  BY <1>4, SomeText, PttTexts, StepCounts
<1> QED
  BY <1>1, <1>2, <1>3, <1>4, SiteCases

(* A site that does not find its entry has nothing to lose to a text.      *)
LEMMA UnfoundTexts ==
  ASSUME NEW s \in Sites, NEW k, k # "found", NEW e,
         NEW step \in 1..Len(StepsOf(s)), StepsOf(s)[step] = "#text",
         NEW row, NEW whole \in BOOLEAN, NEW next, NEW other,
         next = IF step = Len(StepsOf(s)) THEN 1 ELSE step + 1
  PROVE  NoWorse(s, k, e, step, row, whole, k, e, next, other)
<1>0. k # "found"
  OBVIOUS
<1>1. ~One(s, k, e, next, other, TRUE)
  BY SiteCases DEF One, ZoomOne, LetsrideOne, KeigwinOne, PttOne
<1>2. CASE s = "zoom"
  <2>1. step \in {3, 4, 6} /\ next = IF step = 6 THEN 1 ELSE step + 1
    BY <1>2, SomeText, StepCounts
  <2>2. next \in 2..5 => step \in 2..5
    BY <2>1
  <2> QED
    BY <1>1, <1>2, <1>0, <2>2 DEF NoWorse, Two, ZoomTwo
<1>3. CASE s # "zoom"
  BY <1>1, <1>3 DEF NoWorse, Two, PttTwo
<1> QED
  BY <1>2, <1>3

(* A text of the page, whole or cut.                                       *)
LEMMA PassText ==
  ASSUME NEW s \in Sites, NEW k, NEW e, NEW l, NEW f, Known(s, k, e),
         NEW i \in DOMAIN Page[s], Page[s][i].tag = "#text",
         NEW words \in Words, NEW whole \in BOOLEAN, whole => words = Page[s][i].words,
         TextTo(s, words, k, e, l, f)
  PROVE  RiskAt(s, l, f, i + 1, TRUE) + Spoils(s, words, k, e) <= RiskAt(s, k, e, i, whole)
<1> DEFINE step == Place[s][i].step
           row == RowAt(s, i)
           other == RowAt(s, i + 1)
           next == Place[s][i + 1].step
           a == RiskAt(s, l, f, i + 1, TRUE)
           b == RiskAt(s, k, e, i, whole)
           c == Spoils(s, words, k, e)
<1> SUFFICES a + c <= b
  OBVIOUS
<1>1. step \in 1..Len(StepsOf(s)) /\ Expected(s, i)
  BY Places DEF Between
<1>2. /\ StepsOf(s)[step] = "#text" /\ OnPage(row) /\ row \in RowsOf(s)
      /\ whole => Says(s, step, words, row)
      /\ next = IF step = Len(StepsOf(s)) THEN 1 ELSE step + 1
      /\ other = IF step = Len(StepsOf(s)) THEN other ELSE row
  BY <1>1, ExpectedIs
<1>3. a = Risk(s, l, f, next, other, TRUE) /\ b = Risk(s, k, e, step, row, whole)
  BY DEF RiskAt
<1>4. a \in 0..2 /\ b \in 0..2
  BY <1>3, RiskRange
<1> HIDE DEF step, row, other, next, a, b, c
<1>5. CASE k # "found"
  <2>1. l = k /\ f = e /\ c = 0
    BY <1>5 DEF TextTo, Spoils, c
  <2>2. NoWorse(s, k, e, step, row, whole, k, e, next, other)
    BY <1>1, <1>2, <1>5, UnfoundTexts
  <2>3. a <= b
    BY <1>3, <2>1, <2>2, NoWorseRisk
  <2> QED
    BY <1>4, <2>1, <2>3
<1>6. CASE k = "found" /\ e.currState # "money"
  <2>1. l = k /\ f = FieldText(s, e, words) /\ c = 0
    BY <1>6 DEF TextTo, Spoils, c
  <2>2. NoWorse(s, k, e, step, row, whole, l, f, next, other)
    BY <1>1, <1>2, <1>6, <2>1, FieldTexts
  <2>3. a <= b
    BY <1>3, <2>2, NoWorseRisk
  <2> QED
    BY <1>4, <2>1, <2>3
<1>7. CASE k = "found" /\ e.currState = "money"
  <2>1. l = "found" /\ f = Fresh(s, "nostate")
    BY <1>7 DEF TextTo
  <2>2. /\ One(s, "found", f, next, other, TRUE) => Two(s, "found", e, step)
        /\ \/ Inserted(e, s, words) = row
           \/ Two(s, "found", e, step) \/ One(s, "found", e, step, row, whole)
    BY <1>1, <1>2, <1>7, <2>1, CostRisk
  <2>3. ~Two(s, "found", f, next)
    BY <2>1, FreshRisk
  <2>4. a = IF One(s, "found", f, next, other, TRUE) THEN 1 ELSE 0
    BY <1>3, <2>1, <2>3 DEF Risk
  <2>5. b = IF Two(s, "found", e, step) THEN 2
            ELSE IF One(s, "found", e, step, row, whole) THEN 1 ELSE 0
    BY <1>3, <1>7 DEF Risk
  <2>6. Inserted(e, s, words) = row => c = 0
    BY <1>2 DEF Spoils, c
  <2>7. c \in 0..1
    BY DEF Spoils, c
  <2> DEFINE two == Two(s, "found", e, step)
             one == One(s, "found", e, step, row, whole)
             left == One(s, "found", f, next, other, TRUE)
             same == Inserted(e, s, words) = row
  <2>8. /\ left => two
        /\ same \/ two \/ one
        /\ a = IF left THEN 1 ELSE 0
        /\ b = IF two THEN 2 ELSE IF one THEN 1 ELSE 0
        /\ same => c = 0
        /\ c \in 0..1
    BY <2>2, <2>4, <2>5, <2>6, <2>7
  <2> HIDE DEF two, one, left, same
  <2> QED
    BY <2>8
<1> QED
  BY <1>5, <1>6, <1>7

LEMMA AtStepOne ==
  ASSUME NEW s \in Sites, NEW k, NEW e, NEW row, NEW whole, NEW other, NEW cut
  PROVE  Risk(s, k, e, 1, row, whole) = Risk(s, k, e, 1, other, cut)
<1>1. One(s, k, e, 1, row, whole) <=> One(s, k, e, 1, other, cut)
  <2>1. CASE s = "zoom"
    BY <2>1 DEF One, ZoomOne
  <2>2. CASE s = "letsride"
    BY <2>2 DEF One, LetsrideOne
  <2>3. CASE s = "keigwin"
    BY <2>3 DEF One, KeigwinOne, KeigwinReady
  <2>4. CASE s = "ptt"
    BY <2>4 DEF One, PttOne
  <2> QED
    BY <2>1, <2>2, <2>3, <2>4, SiteCases
<1> QED
  BY <1>1 DEF Risk

(* The rest of a tag that comes as a text, before the first listing.       *)
LEMMA StrayText ==
  ASSUME NEW s \in Sites, NEW k, NEW e, NEW l, NEW f, Known(s, k, e),
         NEW words \in Words, words = <<Frag(s)>>,
         TextTo(s, words, k, e, l, f), NEW row, NEW other
  PROVE  Risk(s, l, f, 1, other, TRUE) + Spoils(s, words, k, e) <= Risk(s, k, e, 1, row, TRUE)
<1> DEFINE a == Risk(s, l, f, 1, other, TRUE)
           b == Risk(s, k, e, 1, row, TRUE)
           c == Spoils(s, words, k, e)
<1> SUFFICES a + c <= b
  OBVIOUS
<1>1. /\ a = 0 \/ a = 1 \/ a = 2
      /\ b = 0 \/ b = 1 \/ b = 2
      /\ c = 0 \/ c = 1
  BY DEF Risk, Spoils
<1>2. b = Risk(s, k, e, 1, other, TRUE)
  BY AtStepOne
<1>3. Len(words) = 1 /\ ~(Len(words) > 1)
  OBVIOUS
<1> HIDE DEF a, b, c
<1>4. CASE k # "found"
  <2>1. a = b /\ c = 0
    BY <1>2, <1>4 DEF TextTo, Spoils, a, c
  <2> QED
    BY <1>1, <2>1
<1>5. CASE k = "found" /\ e.currState # "money"
  <2>1. l = "found" /\ f = FieldText(s, e, words) /\ c = 0
    BY <1>5 DEF TextTo, Spoils, c
  <2>2. NoWorse(s, k, e, 1, other, TRUE, l, f, 1, other)
    <3>1. CASE s = "zoom"
      <4>1. f.currState # "money"
        BY <1>5, <2>1, <3>1, ZoomTextEffect
      <4> QED
        BY <1>5, <2>1, <3>1, <4>1 DEF NoWorse, One, Two, ZoomOne, ZoomTwo
    <3>2. CASE s = "letsride"
      <4>1. f = e
        BY <1>3, <1>5, <2>1, <3>2, LetsrideTextEffect
      <4> QED
        BY <2>1, <1>5, <4>1 DEF NoWorse
    <3>3. CASE s = "keigwin"
      <4>1. f.currState = e.currState /\ (e.currState # "title" => f.trackname = e.trackname)
        BY <1>5, <2>1, <3>3, KeigwinTextEffect
      <4> QED
        BY <1>5, <2>1, <3>3, <4>1 DEF NoWorse, One, Two, KeigwinOne, KeigwinReady
    <3>4. CASE s = "ptt"
      <4>1. f = e
        BY <1>3, <1>5, <2>1, <3>4, PttTextEffect
      <4> QED
        BY <2>1, <1>5, <4>1 DEF NoWorse
    <3> QED
      BY <3>1, <3>2, <3>3, <3>4, SiteCases
  <2>3. a <= b
    BY <1>2, <2>2, NoWorseRisk DEF a
  <2> QED
    BY <1>1, <2>1, <2>3
<1>6. CASE k = "found" /\ e.currState = "money"
  <2>1. l = "found" /\ f = Fresh(s, "nostate")
    BY <1>6 DEF TextTo
  <2>2. f.currState = "nostate" /\ f.trackname = Empty
    BY <2>1, FreshIs DEF CurrStates
  <2>3. ~Two(s, l, f, 1) /\ ~One(s, l, f, 1, other, TRUE)
    <3>1. CASE s = "zoom"
      BY <2>1, <2>2, <3>1 DEF One, Two, ZoomOne, ZoomTwo
    <3>2. CASE s = "letsride"
      BY <2>1, <2>2, <3>2 DEF One, Two, LetsrideOne
    <3>3. CASE s = "keigwin"
      BY <2>1, <2>2, <3>3 DEF One, Two, KeigwinOne, KeigwinReady
    <3>4. CASE s = "ptt"
      BY <2>1, <2>2, <3>4 DEF One, Two, PttOne, PttTwo
    <3> QED
      BY <3>1, <3>2, <3>3, <3>4, SiteCases
  <2>4. a = 0
    BY <2>3 DEF Risk, a
  <2>5. One(s, k, e, 1, other, TRUE)
    <3>1. CASE s = "zoom"
      BY <1>6, <3>1 DEF One, Two, ZoomOne, ZoomTwo
    <3>2. CASE s = "letsride"
      BY <1>6, <3>2 DEF One, Two, LetsrideOne
    <3>3. CASE s = "keigwin"
      BY <1>6, <3>3 DEF One, Two, KeigwinOne, KeigwinReady
    <3>4. CASE s = "ptt"
      BY <1>6, <3>4 DEF One, Two, PttOne, PttTwo
    <3> QED
      BY <3>1, <3>2, <3>3, <3>4, SiteCases
  <2>6. b # 0
    BY <1>2, <2>5 DEF Risk
  <2> QED
    BY <1>1, <2>4, <2>6
<1> QED
  BY <1>4, <1>5, <1>6

(* Another site helps a site to find its entry.                            *)
LEMMA LateRisk ==
  ASSUME NEW s \in Sites, NEW e, Known(s, "unfound", e), NEW step, NEW row, NEW whole
  PROVE  /\ Risk(s, "found", e, step, row, whole) <= Risk(s, "unfound", e, step, row, whole) + 1
         /\ Known(s, "found", e)
<1> DEFINE a == Risk(s, "found", e, step, row, whole)
           b == Risk(s, "unfound", e, step, row, whole)
<1>1. PICK c \in MadeIn(s) : e = Fresh(s, c)
  BY DEF Known
<1>2. e.currState = c /\ e \in Entry /\ e.key = s
  BY <1>1, MadeInIs, FreshIs
<1>3. Two(s, "found", e, step) => Two(s, "unfound", e, step)
  BY <1>1, <1>2 DEF MadeIn, Two, ZoomTwo, PttTwo
<1>4. a \in 0..2 /\ b \in 0..2
  BY RiskRange
<1>5. a = 2 => b = 2
  BY <1>3 DEF Risk
<1> HIDE DEF a, b
<1>6. a <= b + 1
  BY <1>4, <1>5
<1> QED
  BY <1>2, <1>6 DEF Known, a, b

(* A reader of a cost leaves one row at risk, at most.                     *)
LEMMA AfterCost ==
  ASSUME NEW s \in Sites, NEW words, NEW k, NEW e, NEW l, NEW f, TextTo(s, words, k, e, l, f),
         NEW step, NEW row, NEW whole
  PROVE  Risk(s, l, f, step, row, whole) + Spoils(s, words, k, e) <= 2
<1> DEFINE a == Risk(s, l, f, step, row, whole)
           c == Spoils(s, words, k, e)
<1>1. a \in 0..2 /\ c \in 0..1
  BY RiskRange DEF Spoils
<1>2. c # 0 => l = "found" /\ f = Fresh(s, "nostate")
  BY DEF Spoils, TextTo
<1>3. c # 0 => a # 2
  BY <1>2, FreshRisk DEF Risk
<1> HIDE DEF a, c
<1>4. a + c <= 2
  BY <1>1, <1>3
<1> QED
  BY <1>4 DEF a, c

Viewed(s) ==
  \/ /\ Kind(s) = "none" /\ getMyState(s) = Null
     /\ \A i \in DOMAIN states : states[i].key # s
  \/ /\ Kind(s) = "unfound" /\ getMyState(s) = Null /\ Mine(s) = states[1]
     /\ Len(states) = 1 /\ states[1] \in Entry /\ states[1].key = s
  \/ /\ Kind(s) = "found" /\ getMyState(s) # Null /\ Mine(s) = states[getMyState(s)]
     /\ getMyState(s) \in DOMAIN states /\ Len(states) > 1
     /\ Mine(s) \in Entry /\ Mine(s).key = s
     /\ \A i \in DOMAIN states : states[i].key = s => getMyState(s) <= i

LEMMA View ==
  ASSUME TypeStates, OneEntryPerSite, NEW s \in Sites
  PROVE  Viewed(s)
<1>1. Matches(s) = {i \in DOMAIN states : states[i].key = s}
  BY DEF Matches
<1>2. CASE Matches(s) = {}
  <2>1. \A i \in DOMAIN states : states[i].key # s
    BY <1>1, <1>2
  <2>2. getMyState(s) = Null
    BY <1>2 DEF getMyState
  <2> QED
    BY <1>2, <2>1, <2>2 DEF Kind, Viewed
<1>3. CASE Matches(s) # {} /\ getMyState(s) = Null
  <2>1. PICK i \in DOMAIN states : states[i].key = s
    BY <1>1, <1>3
  <2>2. Len(states) = 1 /\ i = 1
    <3>1. Len(states) <= 1 \/ \A j \in DOMAIN states : states[j].key # s
      BY <1>3, Lookup DEF Null
    <3>2. Len(states) <= 1 /\ Len(states) \in Nat /\ i \in 1..Len(states)
      BY <2>1, <3>1 DEF TypeStates
    <3> DEFINE n == Len(states)
    <3>3. n <= 1 /\ n \in Nat /\ i \in 1..n
      BY <3>2
    <3> HIDE DEF n
    <3>4. n = 1 /\ i = 1
      BY <3>3
    <3> QED
      BY <3>4 DEF n
  <2>3. states[1] \in Entry
    BY <2>1, <2>2 DEF TypeStates
  <2> QED
    BY <1>3, <2>1, <2>2, <2>3 DEF Kind, Mine, Viewed
<1>4. CASE Matches(s) # {} /\ getMyState(s) # Null
  <2>1. /\ getMyState(s) \in DOMAIN states /\ states[getMyState(s)].key = s
        /\ Len(states) > 1
        /\ \A i \in DOMAIN states : states[i].key = s => getMyState(s) <= i
    BY <1>4, Lookup
  <2>2. states[getMyState(s)] \in Entry
    BY <2>1 DEF TypeStates
  <2> QED
    BY <1>4, <2>1, <2>2 DEF Kind, Mine, Viewed
<1> QED
  BY <1>2, <1>3, <1>4

LEMMA ViewNext == TypeStates' /\ OneEntryPerSite' => (\A s \in Sites : Viewed(s))'
<1>1. TypeStates /\ OneEntryPerSite => \A s \in Sites : Viewed(s)
  BY View
<1> QED
  BY <1>1, PTL

Made(s, c) == getMyState(s) = Null /\ states' = Append(states, Fresh(s, c))
Edited(s, x) == /\ getMyState(s) # Null /\ x \in Entry /\ x.key = s
                /\ states' = [states EXCEPT ![getMyState(s)] = x]

(* The entry a site makes.                                                 *)
LEMMA MadeView ==
  ASSUME TypeStates, OneEntryPerSite, TypeStates', OneEntryPerSite',
         NEW s \in Sites, NEW c \in CurrStates, Made(s, c)
  PROVE  Turns(s, Kind(s), Mine(s), c, Kind(s)', Mine(s)')
<1> DEFINE n == Len(states)
<1>1. /\ Len(states') = n + 1 /\ n \in Nat
      /\ \A i \in 1..n : states'[i] = states[i]
      /\ states'[n + 1] = Fresh(s, c)
  BY DEF Made, TypeStates
<1>2. Fresh(s, c).key = s
  BY DEF Fresh
<1>3. states' \in Seq(Entry) /\ DOMAIN states' = 1..(n + 1) /\ DOMAIN states = 1..n
  BY <1>1 DEF TypeStates
<1>4. \/ Kind(s)' = "unfound" /\ Mine(s)' = states'[1] /\ Len(states') = 1
      \/ /\ Kind(s)' = "found" /\ Mine(s)' = states'[getMyState(s)'] /\ Len(states') > 1
         /\ getMyState(s)' \in DOMAIN states' /\ states'[getMyState(s)'].key = s
         /\ \A i \in DOMAIN states' : states'[i].key = s => getMyState(s)' <= i
  <2>1. Viewed(s)'
    BY ViewNext
  <2>2. (n + 1) \in DOMAIN states' /\ states'[n + 1].key = s
    BY <1>1, <1>2, <1>3
  <2> QED
    BY <2>1, <2>2 DEF Viewed
<1> HIDE DEF n
<1>5. CASE Kind(s) = "none"
  <2>1. \A i \in 1..n : states'[i].key # s
    BY <1>1, <1>3, <1>5, View DEF Viewed
  <2>2. Kind(s)' = "found" => getMyState(s)' = n + 1
    BY <1>1, <1>3, <1>4, <2>1
  <2>3. Kind(s)' = "unfound" => n + 1 = 1
    BY <1>1, <1>4
  <2>4. Mine(s)' = Fresh(s, c) /\ Kind(s)' \in {"unfound", "found"}
    BY <1>1, <1>4, <2>2, <2>3
  <2> QED
    BY <1>5, <2>4 DEF Turns
<1>6. CASE Kind(s) # "none"
  <2>1. /\ Kind(s) = "unfound" /\ n = 1 /\ states[1].key = s /\ Mine(s) = states[1]
    BY <1>6, View DEF Viewed, Made, n
  <2>2. Kind(s)' = "found" /\ getMyState(s)' = 1
    BY <1>1, <1>3, <1>4, <2>1
  <2>3. Mine(s)' = Mine(s)
    BY <1>1, <1>4, <2>1, <2>2
  <2> QED
    BY <2>1, <2>2, <2>3 DEF Turns
<1> QED
  BY <1>5, <1>6

LEMMA EditedView ==
  ASSUME TypeStates, OneEntryPerSite, TypeStates', OneEntryPerSite',
         NEW s \in Sites, NEW x, Edited(s, x)
  PROVE  Kind(s)' = "found" /\ Mine(s)' = x /\ Kind(s) = "found"
<1> DEFINE m == getMyState(s)
<1>1. m \in DOMAIN states /\ Kind(s) = "found" /\ m # Null
  BY View DEF Viewed, Edited
<1>2. Rewritten
  <2>1. states[m].key = s
    BY <1>1, View DEF Viewed
  <2> QED
    BY <1>1, <2>1 DEF Edited, Rewritten, TypeStates
<1>3. getMyState(s)' = m
  BY <1>1, <1>2, ShapeKeepsFound
<1>4. states'[m] = x
  BY <1>1 DEF Edited, TypeStates
<1>5. Kind(s)' = "found" /\ Mine(s)' = states'[getMyState(s)']
  <2>1. getMyState(s)' # Null'
    BY <1>1, <1>3 DEF Null
  <2>2. Viewed(s)'
    BY ViewNext
  <2> QED
    BY <2>1, <2>2 DEF Viewed
<1> QED
  BY <1>1, <1>3, <1>4, <1>5

(* What another site's callback may do to what a site sees.                *)
Kept(t) == /\ Kind(t)' = Kind(t) /\ (Kind(t) # "none" => Mine(t)' = Mine(t))
Helped(t) == /\ Kind(t) = "unfound" /\ Kind(t)' = "found" /\ Mine(t)' = Mine(t)
             /\ ~FoundLate(t) /\ FoundLate(t)'

Callback(s) == \/ UNCHANGED states
               \/ \E c \in CurrStates : Made(s, c)
               \/ \E x \in Entry : Edited(s, x)

LEMMA LateStays ==
  ASSUME TypeStates, OneEntryPerSite, NEW s \in Sites, Callback(s), NEW t \in Sites
  PROVE  /\ FoundLate(t) => FoundLate(t)'
         /\ First(t) => First(t)'
<1>1. /\ Len(states') >= Len(states)
      /\ \A i \in 1..Len(states) : states'[i].key = states[i].key
  <2>1. CASE UNCHANGED states
    BY <2>1 DEF TypeStates
  <2>2. CASE \E c \in CurrStates : Made(s, c)
    BY <2>2 DEF Made, TypeStates
  <2>3. ASSUME NEW x \in Entry, Edited(s, x)
        PROVE  /\ Len(states') >= Len(states)
               /\ \A i \in 1..Len(states) : states'[i].key = states[i].key
    <3>1. states[getMyState(s)].key = s
      BY <2>3, View DEF Viewed, Edited
    <3> QED
      BY <2>3, <3>1 DEF Edited, TypeStates
  <2> QED
    BY <2>1, <2>2, <2>3 DEF Callback
<1>2. Len(states) \in Nat /\ (states # <<>> => Len(states) > 0) /\ (Len(states') > 0 => states' # <<>>)
  <2>1. CASE UNCHANGED states
    BY <2>1 DEF TypeStates
  <2>2. CASE ~UNCHANGED states
    BY <2>2 DEF Callback, Made, Edited, TypeStates
  <2> QED
    BY <2>1, <2>2
<1>3. Len(states') \in Nat
  BY DEF Callback, Made, Edited, TypeStates
<1> QED
  BY <1>1, <1>2, <1>3 DEF FoundLate, First

LEMMA Elsewhere ==
  ASSUME TypeStates, OneEntryPerSite, TypeStates', OneEntryPerSite',
         NEW s \in Sites, Callback(s), NEW t \in Sites, t # s
  PROVE  Kept(t) \/ Helped(t)
<1>1. CASE UNCHANGED states
  BY <1>1 DEF Kept, Kind, Mine, getMyState, Matches
<1>2. ASSUME NEW x \in Entry, Edited(s, x) PROVE Kept(t)
  <2> DEFINE m == getMyState(s)
  <2>1. m \in DOMAIN states /\ states[m].key = s /\ x.key = s /\ states' = [states EXCEPT ![m] = x]
    BY <1>2, View DEF Viewed, Edited
  <2> HIDE DEF m
  <2>2. /\ DOMAIN states' = DOMAIN states /\ Len(states') = Len(states)
        /\ \A i \in DOMAIN states : states'[i].key = states[i].key
        /\ \A i \in DOMAIN states : i # m => states'[i] = states[i]
    BY <2>1 DEF TypeStates
  <2>3. Matches(t)' = Matches(t)
    BY <2>2 DEF Matches
  <2>4. getMyState(t)' = getMyState(t)
    BY <2>2, <2>3 DEF getMyState, Null
  <2>5. Kind(t)' = Kind(t)
    BY <2>3, <2>4 DEF Kind, Null
  <2>6. Kind(t) # "none" => Mine(t)' = Mine(t)
    <3> SUFFICES ASSUME Kind(t) # "none" PROVE Mine(t)' = Mine(t)
      OBVIOUS
    <3> DEFINE j == IF getMyState(t) = Null THEN 1 ELSE getMyState(t)
    <3>1. j \in DOMAIN states /\ states[j].key = t
      BY View DEF Viewed, TypeStates
    <3>2. states'[j] = states[j]
      BY <2>1, <2>2, <3>1
    <3> QED
      BY <2>4, <3>2 DEF Mine, Null
  <2> QED
    BY <2>5, <2>6 DEF Kept
<1>3. ASSUME NEW c \in CurrStates, Made(s, c) PROVE Kept(t) \/ Helped(t)
  <2> DEFINE n == Len(states)
  <2>1. /\ n \in Nat /\ DOMAIN states = 1..n /\ DOMAIN states' = 1..(n + 1) /\ Len(states') = n + 1
        /\ \A i \in 1..n : states'[i] = states[i]
        /\ states'[n + 1].key = s
    BY <1>3 DEF Made, TypeStates, Fresh
  <2> HIDE DEF n
  <2>2. Matches(t)' = Matches(t)
    BY <2>1 DEF Matches
  <2>3. CASE Kind(t) = "none"
    <3>1. Matches(t) = {}
      BY <2>3 DEF Kind
    <3> QED
      BY <2>2, <2>3, <3>1 DEF Kept, Kind
  <2>4. CASE Kind(t) = "found"
    <3>1. n > 1 /\ getMyState(t) \in 1..n /\ getMyState(t) # Null /\ Mine(t) = states[getMyState(t)]
      BY <2>1, <2>4, View DEF Viewed, n
    <3>2. getMyState(t)' = getMyState(t)
      BY <2>1, <2>2, <3>1 DEF getMyState, n, Null
    <3> QED
      BY <2>1, <2>2, <2>4, <3>1, <3>2 DEF Kept, Kind, Mine, Null
  <2>5. CASE Kind(t) = "unfound"
    <3>1. n = 1 /\ states[1].key = t /\ Mine(t) = states[1]
      BY <2>5, View DEF Viewed, n
    <3>2. /\ Len(states') = 2 /\ states'[1] = states[1] /\ states'[1].key = t /\ states'[2].key = s
      BY <2>1, <3>1
    <3>3. 1 \in Matches(t)'
      BY <2>1, <3>1, <3>2 DEF Matches
    <3>4. getMyState(t)' = 1
      <4>1. Viewed(t)'
        BY ViewNext
      <4> QED
        BY <2>1, <3>1, <3>2, <3>3, <4>1 DEF Viewed, Kind
    <3>5. Kind(t)' = "found" /\ Mine(t)' = states'[1]
      BY <3>3, <3>4 DEF Kind, Mine, Null
    <3>6. FoundLate(t)' /\ ~FoundLate(t)
      <4>1. states' # <<>>
        BY <2>1, <3>1
      <4> QED
        BY <3>1, <3>2, <4>1 DEF FoundLate, First, n
    <3> QED
      BY <2>5, <3>1, <3>2, <3>5, <3>6 DEF Helped
  <2> QED
    BY <2>3, <2>4, <2>5, View DEF Viewed
<1> QED
  BY <1>1, <1>2, <1>3 DEF Callback

ListOK == TypeStates /\ OneEntryPerSite

LEMMA CurrentIs ==
  ASSUME ListOK, NEW s \in Sites
  PROVE  Current(s) = Sees(Kind(s), Mine(s))
BY View DEF ListOK, Viewed, Current, Sees

LEMMA NextStateView ==
  ASSUME ListOK, ListOK', NEW s \in Sites, NEW c \in CurrStates, nextState(s, c)
  PROVE  Turns(s, Kind(s), Mine(s), c, Kind(s)', Mine(s)') /\ Callback(s)
<1>1. CASE getMyState(s) = Null
  <2>1. Made(s, c)
    BY <1>1 DEF nextState, Made
  <2> QED
    BY <2>1, MadeView DEF ListOK, Callback
<1>2. CASE getMyState(s) # Null
  <2> DEFINE m == getMyState(s)
             e == Mine(s)
             x == [e EXCEPT !.currState = c]
  <2>1. m \in DOMAIN states /\ e = states[m] /\ e \in Entry /\ e.key = s /\ Kind(s) = "found"
    BY <1>2, View DEF ListOK, Viewed
  <2>2. states' = [states EXCEPT ![m] = x]
    <3>1. states' = [states EXCEPT ![m].currState = c]
      BY <1>2 DEF nextState
    <3> QED
      BY <2>1, <3>1
  <2>3. x \in Entry /\ x.key = s
    <3> HIDE DEF e
    <3> QED
      BY <2>1 DEF Entry
  <2> HIDE DEF x
  <2>4. Edited(s, x)
    BY <1>2, <2>2, <2>3 DEF Edited
  <2>5. Kind(s)' = "found" /\ Mine(s)' = x
    BY <2>4, EditedView DEF ListOK
  <2>6. Callback(s)
    BY <2>3, <2>4 DEF Callback
  <2> QED
    BY <2>1, <2>5, <2>6 DEF Turns, x
<1> QED
  BY <1>1, <1>2

LEMMA TagView ==
  ASSUME ListOK, ListOK', NEW s \in Sites, NEW tag, OnOpenTag(s, tag)
  PROVE  /\ Tagged(s, tag, Kind(s), Mine(s), Kind(s)', Mine(s)')
         /\ Callback(s) /\ inserted' = inserted
<1>1. inserted' = inserted
  BY DEF OnOpenTag
<1>2. getMyState(s) = Null <=> Kind(s) # "found"
  BY View DEF ListOK, Viewed
<1>3. CASE s = "letsride" /\ getMyState(s) = Null
  <2>1. nextState(s, "nostate")
    BY <1>3 DEF OnOpenTag
  <2>2. Turns(s, Kind(s), Mine(s), "nostate", Kind(s)', Mine(s)') /\ Callback(s)
    BY <2>1, NextStateView DEF CurrStates
  <2> QED
    BY <1>1, <1>2, <1>3, <2>2 DEF Tagged
<1>4. ASSUME ~(s = "letsride" /\ getMyState(s) = Null),
             NEW m \in Moves(s), m.tag = tag, Current(s) \in m.from, nextState(s, m.to)
      PROVE  Tagged(s, tag, Kind(s), Mine(s), Kind(s)', Mine(s)') /\ Callback(s)
  <2>1. m.to \in CurrStates
    BY <1>4, MoveTargets
  <2>2. Turns(s, Kind(s), Mine(s), m.to, Kind(s)', Mine(s)') /\ Callback(s)
    BY <1>4, <2>1, NextStateView
  <2>3. Goes(s, tag, Sees(Kind(s), Mine(s)), m.to)
    BY <1>4, CurrentIs DEF Goes
  <2> QED
    BY <1>2, <1>4, <2>2, <2>3 DEF Tagged
<1>5. CASE /\ ~(s = "letsride" /\ getMyState(s) = Null)
           /\ \A m \in Moves(s) : m.tag = tag => Current(s) \notin m.from
           /\ UNCHANGED states
  <2>1. \A c : ~Goes(s, tag, Sees(Kind(s), Mine(s)), c)
    BY <1>5, CurrentIs DEF Goes
  <2>2. Kind(s)' = Kind(s) /\ Mine(s)' = Mine(s)
    BY <1>5 DEF Kind, Mine, getMyState, Matches
  <2> QED
    BY <1>1, <1>2, <1>5, <2>1, <2>2 DEF Tagged, Callback
<1> QED
  BY <1>1, <1>3, <1>4, <1>5 DEF OnOpenTag

LEMMA OpenedView ==
  ASSUME ListOK, ListOK', NEW s \in Sites, NEW tag, Opened(s, tag)
  PROVE  /\ TagTo(s, tag, Kind(s), Mine(s), Kind(s)', Mine(s)')
         /\ Callback(s) /\ inserted' = inserted
<1>1. CASE tag = "close"
  <2>1. UNCHANGED states /\ UNCHANGED inserted
    BY <1>1 DEF Opened, siteVars
  <2>2. Kind(s)' = Kind(s) /\ Mine(s)' = Mine(s)
    BY <2>1 DEF Kind, Mine, getMyState, Matches
  <2> QED
    BY <1>1, <2>1, <2>2 DEF TagTo, Callback
<1>2. CASE tag # "close"
  BY <1>2, TagView DEF Opened, TagTo
<1> QED
  BY <1>1, <1>2

LEMMA TextView ==
  ASSUME ListOK, ListOK', NEW s \in Sites, NEW words \in Words, OnText(s, words)
  PROVE  /\ TextTo(s, words, Kind(s), Mine(s), Kind(s)', Mine(s)')
         /\ Callback(s)
         /\ inserted' = IF Kind(s) = "found" /\ Mine(s).currState = "money"
                        THEN [inserted EXCEPT ![s] = Append(@, Inserted(Mine(s), s, words))]
                        ELSE inserted
<1> DEFINE m == getMyState(s)
           e == Mine(s)
<1>1. Current(s) = Sees(Kind(s), e)
  BY CurrentIs
<1>2. Viewed(s)
  BY View DEF ListOK
<1>3. Kind(s) = "found" => e.currState # "null" /\ e \in Entry /\ e.key = s /\ m # Null /\ e = states[m]
  BY <1>2 DEF Viewed, Entry, CurrStates
<1>4. CASE isState(s, "null") /\ UNCHANGED siteVars
  <2>1. Kind(s) # "found"
    BY <1>1, <1>3, <1>4 DEF isState, Sees
  <2>2. UNCHANGED states /\ UNCHANGED inserted
    BY <1>4 DEF siteVars
  <2>3. Kind(s)' = Kind(s) /\ Mine(s)' = Mine(s)
    BY <2>2 DEF Kind, Mine, getMyState, Matches
  <2> QED
    BY <2>1, <2>2, <2>3 DEF TextTo, Callback
<1>5. CASE isState(s, "money") /\ CostText(s, words)
  <2>1. Kind(s) = "found" /\ e.currState = "money"
    BY <1>1, <1>5 DEF isState, Sees
  <2>2. inserted' = [inserted EXCEPT ![s] = Append(@, Inserted(e, s, words))]
    BY <1>3, <1>5, <2>1 DEF CostText, Insertion, Inserted
  <2>3. Edited(s, Fresh(s, "nostate")) /\ Fresh(s, "nostate") \in Entry
    BY <1>3, <1>5, <2>1, FreshIs DEF CostText, Edited, CurrStates
  <2>4. Kind(s)' = "found" /\ Mine(s)' = Fresh(s, "nostate")
    BY <2>3, EditedView DEF ListOK
  <2> QED
    BY <2>1, <2>2, <2>3, <2>4 DEF TextTo, Callback
<1>6. CASE /\ Current(s) \notin {"null", "money"}
           /\ states' = [states EXCEPT ![getMyState(s)] = FieldText(s, @, words)]
           /\ UNCHANGED inserted
  <2>1. Kind(s) = "found" /\ e.currState # "money"
    BY <1>1, <1>6 DEF Sees
  <2>2. FieldText(s, e, words) \in Entry /\ FieldText(s, e, words).key = s
    BY <1>3, <2>1, FieldTextIsEntry
  <2>3. states' = [states EXCEPT ![m] = FieldText(s, e, words)]
    BY <1>3, <1>6, <2>1
  <2>4. Edited(s, FieldText(s, e, words))
    BY <1>3, <2>1, <2>2, <2>3 DEF Edited
  <2>5. Kind(s)' = "found" /\ Mine(s)' = FieldText(s, e, words)
    BY <2>4, EditedView DEF ListOK
  <2> QED
    BY <1>6, <2>1, <2>2, <2>4, <2>5 DEF TextTo, Callback
<1> QED
  BY <1>4, <1>5, <1>6 DEF OnText

(* The streams of a site.                                                  *)
Unfed(s) == \A r \in Responses : pos[r][s] = 1 /\ rest[r][s] = <<>>
HeldBack(r, s) == /\ pos[r][s] <= Len(Page[s]) /\ r <= refreshes /\ s \in up
                  /\ Here(r, s).tag # "#text" => rest[r][s] = <<Frag(s)>>
StreamOK(s) ==
  /\ lastFed[s] <= refreshes
  /\ lastFed[s] = 0 => Unfed(s)
  /\ \A r \in Responses : pos[r][s] <= Len(Page[s]) + 1
  /\ \A r \in Responses : rest[r][s] # <<>> => HeldBack(r, s)
  /\ inTag[s] # 0 => rest[inTag[s]][s] # <<>> /\ Here(inTag[s], s).tag # "#text"
  /\ (lastFed[s] # 0 /\ inTag[s] = 0) =>
       (rest[lastFed[s]][s] # <<>> => Here(lastFed[s], s).tag = "#text")

(* What a chunk does to them.                                              *)
Goes1(r, s) == pos'[r][s] = pos[r][s] + 1 /\ rest'[r][s] = <<>>
Advanced(r, s) ==
  \/ /\ rest[r][s] = <<>> /\ inTag[s] = 0
     /\ Goes1(r, s) /\ inTag'[s] = 0
  \/ /\ rest[r][s] = <<>> /\ inTag[s] = 0
     /\ Here(r, s).tag = "#text"
     /\ pos'[r][s] = pos[r][s] /\ rest'[r][s] # <<>> /\ inTag'[s] = 0
  \/ /\ rest[r][s] = <<>> /\ inTag[s] = 0
     /\ Here(r, s).tag # "#text"
     /\ pos'[r][s] = pos[r][s] /\ rest'[r][s] = <<Frag(s)>> /\ inTag'[s] = r
  \/ /\ rest[r][s] # <<>> /\ inTag[s] \in {0, r}
     /\ Goes1(r, s) /\ inTag'[s] = 0
  \/ /\ inTag[s] \notin {0, r}
     /\ Goes1(r, s) /\ inTag'[s] \in {0, inTag[s]}
Unmoved(q, t) == pos'[q][t] = pos[q][t] /\ rest'[q][t] = rest[q][t]
Chunked(r, s) ==
  /\ Running(r, s) /\ up' = up /\ refreshes' = refreshes
  /\ lastFed' = [lastFed EXCEPT ![s] = r]
  /\ \A t \in Sites : t # s => /\ inTag'[t] = inTag[t]
                               /\ \A q \in Responses : Unmoved(q, t)
  /\ \A q \in Responses : q # r => Unmoved(q, s)
  /\ Advanced(r, s)

LEMMA PassedMoves ==
  ASSUME StreamsOK, NEW r \in Responses, NEW s \in Sites, Passed(r, s)
  PROVE  /\ Goes1(r, s)
         /\ \A t \in Sites : t # s => \A q \in Responses : Unmoved(q, t)
         /\ \A q \in Responses : q # r => Unmoved(q, s)
BY DEF Passed, StreamsOK, Goes1, Unmoved

LEMMA HeldMoves ==
  ASSUME StreamsOK, NEW r \in Responses, NEW s \in Sites, NEW u, UNCHANGED pos,
         rest' = [rest EXCEPT ![r][s] = u]
  PROVE  /\ pos'[r][s] = pos[r][s] /\ rest'[r][s] = u
         /\ \A t \in Sites : t # s => \A q \in Responses : Unmoved(q, t)
         /\ \A q \in Responses : q # r => Unmoved(q, s)
BY DEF StreamsOK, Unmoved

LEMMA SplitSome ==
  ASSUME NEW s, NEW u \in Words
  PROVE  <<Frag(s)>> \o u # <<>> /\ <<Frag(s)>> # <<>>
BY DEF Words

LEMMA ChunkIs ==
  ASSUME IInv, NEW r \in Responses, NEW s \in Sites, Chunk(r, s)
  PROVE  Chunked(r, s)
<1>1. StreamsOK
  BY DEF IInv, TypeOK, StreamsOK
<1>2. \E n \in Nat : Feed(r, s, n)
  BY DEF Chunk, WholeEvent, SplitText, SplitTag, Remainder, Swallowed
<1>3. /\ Running(r, s) /\ up' = up /\ refreshes' = refreshes
      /\ lastFed' = [lastFed EXCEPT ![s] = r]
  BY <1>2 DEF Feed
<1>4. inTag \in [Sites -> 0..MaxRefresh]
  BY <1>1 DEF StreamsOK
<1>5. CASE WholeEvent(r, s)
  BY <1>1, <1>3, <1>5, PassedMoves DEF WholeEvent, Chunked, Advanced
<1>6. CASE SplitText(r, s)
  <2>1. Here(r, s).words \in Words
    BY <1>3, HereIsEvent DEF IInv, Event
  <2>2. PICK i \in 1..Len(Here(r, s).words) :
          rest' = [rest EXCEPT ![r][s] = <<Frag(s)>> \o SubSeq(Here(r, s).words, i + 1, Len(Here(r, s).words))]
    BY <1>6 DEF SplitText
  <2> DEFINE u == <<Frag(s)>> \o SubSeq(Here(r, s).words, i + 1, Len(Here(r, s).words))
  <2>3. SubSeq(Here(r, s).words, i + 1, Len(Here(r, s).words)) \in Words
    BY <2>1 DEF Words
  <2>4. u # <<>>
    BY <2>3, SplitSome
  <2>5. UNCHANGED <<pos, inTag>> /\ rest[r][s] = <<>> /\ inTag[s] = 0 /\ Here(r, s).tag = "#text"
    BY <1>6 DEF SplitText
  <2> HIDE DEF u
  <2>6. rest' = [rest EXCEPT ![r][s] = u]
    BY <2>2 DEF u
  <2> QED
    BY <1>1, <1>3, <2>4, <2>5, <2>6, HeldMoves DEF Chunked, Advanced
<1>7. CASE SplitTag(r, s)
  <2>1. rest' = [rest EXCEPT ![r][s] = <<Frag(s)>>] /\ UNCHANGED pos
        /\ inTag' = [inTag EXCEPT ![s] = r]
        /\ rest[r][s] = <<>> /\ inTag[s] = 0 /\ Here(r, s).tag # "#text"
    BY <1>7 DEF SplitTag
  <2>2. inTag'[s] = r /\ \A t \in Sites : t # s => inTag'[t] = inTag[t]
    BY <1>4, <2>1
  <2> DEFINE u == <<Frag(s)>>
  <2>3. rest' = [rest EXCEPT ![r][s] = u] /\ UNCHANGED pos
    BY <2>1
  <2> HIDE DEF u
  <2>4. /\ pos'[r][s] = pos[r][s] /\ rest'[r][s] = u
        /\ \A t \in Sites : t # s => \A q \in Responses : Unmoved(q, t)
        /\ \A q \in Responses : q # r => Unmoved(q, s)
    BY <1>1, <2>3, HeldMoves
  <2>5. Advanced(r, s)
    BY <2>1, <2>2, <2>4 DEF Advanced, u
  <2> QED
    BY <1>3, <2>2, <2>4, <2>5 DEF Chunked
<1>8. CASE Remainder(r, s)
  <2>1. inTag' = [inTag EXCEPT ![s] = 0] /\ Passed(r, s)
        /\ rest[r][s] # <<>> /\ inTag[s] \in {0, r}
    BY <1>8 DEF Remainder
  <2>2. inTag'[s] = 0 /\ \A t \in Sites : t # s => inTag'[t] = inTag[t]
    BY <1>4, <2>1
  <2> QED
    BY <1>1, <1>3, <2>1, <2>2, PassedMoves DEF Chunked, Advanced
<1>9. CASE Swallowed(r, s)
  <2>1. (inTag' = inTag \/ inTag' = [inTag EXCEPT ![s] = 0]) /\ Passed(r, s)
        /\ inTag[s] \notin {0, r}
    BY <1>9 DEF Swallowed
  <2>2. inTag'[s] \in {0, inTag[s]} /\ \A t \in Sites : t # s => inTag'[t] = inTag[t]
    BY <1>4, <2>1
  <2> QED
    BY <1>1, <1>3, <2>1, <2>2, PassedMoves DEF Chunked, Advanced
<1> QED
  BY <1>5, <1>6, <1>7, <1>8, <1>9 DEF Chunk

LEMMA OtherStreams ==
  ASSUME IInv, IInv', NEW r \in Responses, NEW s \in Sites, Chunked(r, s),
         NEW t \in Sites, t # s, StreamOK(t)
  PROVE  StreamOK(t)'
<1>1. /\ lastFed'[t] = lastFed[t] /\ inTag'[t] = inTag[t] /\ up' = up /\ refreshes' = refreshes
      /\ \A q \in Responses : pos'[q][t] = pos[q][t] /\ rest'[q][t] = rest[q][t]
  BY DEF Chunked, Unmoved, IInv, TypeOK
<1>2. lastFed[t] \in 0..MaxRefresh /\ inTag[t] \in 0..MaxRefresh
  BY DEF IInv, TypeOK
<1>3. (lastFed[t] # 0 => lastFed[t] \in Responses) /\ (inTag[t] # 0 => inTag[t] \in Responses)
  BY <1>2, ScraperAssumption DEF Responses
<1> QED
  BY <1>1, <1>3 DEF StreamOK, Unfed, HeldBack, Here

LEMMA OwnStream ==
  ASSUME IInv, IInv', NEW r \in Responses, NEW s \in Sites, Chunked(r, s), StreamOK(s)
  PROVE  StreamOK(s)'
<1>1. /\ lastFed'[s] = r /\ up' = up /\ refreshes' = refreshes
      /\ \A q \in Responses : q # r => pos'[q][s] = pos[q][s] /\ rest'[q][s] = rest[q][s]
  BY DEF Chunked, Unmoved, IInv, TypeOK
<1>2. /\ r \in Nat /\ r # 0 /\ r <= refreshes /\ s \in up
      /\ pos[r][s] \in Nat /\ pos[r][s] <= Len(Page[s]) /\ Len(Page[s]) \in Nat
      /\ refreshes \in Nat
  BY ScraperAssumption DEF Chunked, Running, Responses, IInv, TypeOK
<1>3. lastFed[s] \in 0..MaxRefresh /\ inTag[s] \in 0..MaxRefresh
  BY DEF IInv, TypeOK
<1>4. (inTag[s] # 0 => inTag[s] \in Responses)
  BY <1>3, ScraperAssumption DEF Responses
<1>5. pos'[r][s] = pos[r][s] \/ pos'[r][s] = pos[r][s] + 1
  BY DEF Chunked, Advanced, Goes1
<1>6. \A q \in Responses : pos'[q][s] <= Len(Page[s]) + 1
  BY <1>1, <1>2, <1>5 DEF StreamOK
<1>7. rest'[r][s] # <<>> => HeldBack(r, s)'
  BY <1>1, <1>2 DEF Chunked, Advanced, Goes1, HeldBack, Here
<1>8. \A q \in Responses : rest'[q][s] # <<>> => HeldBack(q, s)'
  BY <1>1, <1>7 DEF StreamOK, HeldBack, Here
<1>9. inTag'[s] # 0 => rest'[inTag'[s]][s] # <<>> /\ (Here(inTag[s], s).tag # "#text")'
  <2>1. CASE inTag'[s] = r /\ Here(r, s).tag # "#text" /\ pos'[r][s] = pos[r][s] /\ rest'[r][s] = <<Frag(s)>>
    BY <2>1 DEF Here
  <2>2. CASE inTag[s] \notin {0, r} /\ inTag'[s] = inTag[s]
    BY <1>1, <1>4, <2>2 DEF StreamOK, Here
  <2>3. CASE inTag'[s] = 0
    BY <2>3
  <2> QED
    BY <2>1, <2>2, <2>3 DEF Chunked, Advanced
<1>10. inTag'[s] = 0 => (rest'[r][s] # <<>> => (Here(r, s).tag = "#text")')
  BY <1>2 DEF Chunked, Advanced, Goes1, Here
<1> QED
  BY <1>1, <1>2, <1>6, <1>8, <1>9, <1>10 DEF StreamOK, Here

Idx(s) == IF lastFed[s] = 0 THEN 1 ELSE pos[lastFed[s]][s]
Dirty(s) == inTag[s] \notin {0, lastFed[s]}
Cut(s) == lastFed[s] # 0 /\ rest[lastFed[s]][s] # <<>> /\ inTag[s] # lastFed[s]
RiskNow(s) == IF Dirty(s) THEN 2 ELSE RiskAt(s, Kind(s), Mine(s), Idx(s), ~Cut(s))
Sp(s) == Cardinality(Spoiled(s))
Late(s) == IF FoundLate(s) THEN 1 ELSE 0

LEMMA SpoiledCounts ==
  ASSUME IInv, NEW s \in Sites
  PROVE  IsFiniteSet(Spoiled(s)) /\ Sp(s) \in Nat
<1>1. inserted[s] \in Seq(Row)
  BY DEF IInv, TypeOK
<1>2. Spoiled(s) \subseteq 1..Len(inserted[s])
  BY <1>1 DEF Spoiled
<1>3. IsFiniteSet(1..Len(inserted[s]))
  BY <1>1, FS_Interval
<1>4. IsFiniteSet(Spoiled(s))
  BY <1>2, <1>3, FS_Subset
<1> QED
  BY <1>4, FS_CardinalityType DEF Sp

LEMMA SpoiledGrows ==
  ASSUME IInv, IInv', NEW s \in Sites, NEW row,
         inserted' = [inserted EXCEPT ![s] = Append(@, row)]
  PROVE  /\ Sp(s)' = Sp(s) + (IF row \in RowsOf(s) THEN 0 ELSE 1)
         /\ \A t \in Sites : t # s => Sp(t)' = Sp(t)
<1> DEFINE n == Len(inserted[s])
<1>1. inserted \in [Sites -> Seq(Row)]
  BY DEF IInv, TypeOK
<1>2. inserted'[s] = Append(inserted[s], row) /\ \A t \in Sites : t # s => inserted'[t] = inserted[t]
  BY <1>1
<1>3. /\ DOMAIN inserted[s] = 1..n /\ n \in Nat /\ DOMAIN inserted'[s] = 1..(n + 1)
      /\ \A i \in 1..n : inserted'[s][i] = inserted[s][i]
      /\ inserted'[s][n + 1] = row
  BY <1>1, <1>2
<1> HIDE DEF n
<1>4. Spoiled(s)' = IF row \in RowsOf(s) THEN Spoiled(s) ELSE Spoiled(s) \cup {n + 1}
  BY <1>3 DEF Spoiled, RowsOf
<1>5. n + 1 \notin Spoiled(s)
  BY <1>3 DEF Spoiled
<1>6. Cardinality(Spoiled(s) \cup {n + 1}) = Cardinality(Spoiled(s)) + 1
  BY <1>5, SpoiledCounts, FS_AddElement
<1>7. \A t \in Sites : t # s => Sp(t)' = Sp(t)
  BY <1>2 DEF Sp, Spoiled, RowsOf
<1>8. Sp(s) \in Nat
  BY SpoiledCounts
<1>9. CASE row \in RowsOf(s)
  <2>1. Spoiled(s)' = Spoiled(s)
    BY <1>4, <1>9
  <2> QED
    BY <1>7, <1>8, <1>9, <2>1 DEF Sp
<1>10. CASE row \notin RowsOf(s)
  <2>1. Spoiled(s)' = Spoiled(s) \cup {n + 1}
    BY <1>4, <1>10
  <2> QED
    BY <1>6, <1>7, <1>10, <2>1 DEF Sp
<1> QED
  BY <1>9, <1>10

LEMMA TextCounts ==
  ASSUME IInv, IInv', NEW s \in Sites, NEW words \in Words, OnText(s, words)
  PROVE  /\ TextTo(s, words, Kind(s), Mine(s), Kind(s)', Mine(s)') /\ Callback(s)
         /\ Sp(s)' = Sp(s) + Spoils(s, words, Kind(s), Mine(s))
         /\ \A t \in Sites : t # s => Sp(t)' = Sp(t)
<1>1. ListOK /\ ListOK'
  BY DEF IInv, TypeOK, ListOK, TypeStates
<1>2. /\ TextTo(s, words, Kind(s), Mine(s), Kind(s)', Mine(s)')
      /\ Callback(s)
      /\ inserted' = IF Kind(s) = "found" /\ Mine(s).currState = "money"
                     THEN [inserted EXCEPT ![s] = Append(@, Inserted(Mine(s), s, words))]
                     ELSE inserted
  BY <1>1, TextView
<1>3. CASE Kind(s) = "found" /\ Mine(s).currState = "money"
  BY <1>2, <1>3, SpoiledGrows DEF Spoils
<1>4. CASE ~(Kind(s) = "found" /\ Mine(s).currState = "money")
  <2>1. \A t \in Sites : Sp(t)' = Sp(t)
    BY <1>2, <1>4 DEF Sp, Spoiled, RowsOf
  <2>2. Spoils(s, words, Kind(s), Mine(s)) = 0 /\ Sp(s) \in Nat
    BY <1>4, SpoiledCounts DEF Spoils
  <2> QED
    BY <1>2, <2>1, <2>2
<1> QED
  BY <1>3, <1>4

Still(s) == UNCHANGED siteVars /\ Kind(s)' = Kind(s) /\ Mine(s)' = Mine(s)

LEMMA StillCounts ==
  ASSUME UNCHANGED siteVars, NEW s
  PROVE  Still(s) /\ Callback(s) /\ \A t \in Sites : Sp(t)' = Sp(t)
BY DEF Still, siteVars, Kind, Mine, getMyState, Matches, Sp, Spoiled, RowsOf, Callback

LEMMA TagCounts ==
  ASSUME IInv, IInv', NEW s \in Sites, NEW tag, Opened(s, tag)
  PROVE  /\ TagTo(s, tag, Kind(s), Mine(s), Kind(s)', Mine(s)') /\ Callback(s)
         /\ \A t \in Sites : Sp(t)' = Sp(t)
<1>1. ListOK /\ ListOK'
  BY DEF IInv, TypeOK, ListOK, TypeStates
<1>2. inserted' = inserted
  BY <1>1, OpenedView
<1> QED
  BY <1>1, <1>2, OpenedView DEF Sp, Spoiled, RowsOf

(* What a chunk hands its site.                                            *)
LEMMA ChunkGives ==
  ASSUME IInv, NEW r \in Responses, NEW s \in Sites, Chunk(r, s)
  PROVE  \/ UNCHANGED siteVars
         \/ \E tag : Opened(s, tag)
         \/ \E words \in Words : OnText(s, words) /\ inTag'[s] \in {0, r}
<1>1. Running(r, s) /\ Here(r, s) \in Event
  BY ChunkIs, HereIsEvent DEF Chunked, IInv
<1>2. inTag \in [Sites -> 0..MaxRefresh] /\ rest[r][s] \in Words
  BY DEF IInv, TypeOK
<1>3. CASE WholeEvent(r, s)
  BY <1>1, <1>3 DEF WholeEvent, Event
<1>4. CASE SplitText(r, s)
  <2>1. Here(r, s).words \in Words /\ OwnWords(s, Here(r, s).words)
    BY <1>1, HereIsEvent DEF Event, IInv
  <2> QED
    BY <1>4, <2>1, SplitWords DEF SplitText
<1>5. CASE SplitTag(r, s)
  <2>1. inTag'[s] = r
    BY <1>2, <1>5 DEF SplitTag
  <2> QED
    BY <1>5, <2>1, HalfTagWords DEF SplitTag
<1>6. CASE Remainder(r, s)
  BY <1>2, <1>6 DEF Remainder
<1>7. CASE Swallowed(r, s)
  BY <1>7 DEF Swallowed
<1> QED
  BY <1>3, <1>4, <1>5, <1>6, <1>7 DEF Chunk

(* Whatever happens, a chunk adds two rows to what is or may be spoiled.   *)
LEMMA HitStep ==
  ASSUME IInv, IInv', NEW r \in Responses, NEW s \in Sites, Chunk(r, s)
  PROVE  /\ Sp(s)' + RiskNow(s)' <= Sp(s) + 2
         /\ Callback(s) /\ \A t \in Sites : t # s => Sp(t)' = Sp(t)
         /\ Known(s, Kind(s), Mine(s)) => Known(s, Kind(s)', Mine(s)')
<1>1. Sp(s) \in Nat
  BY SpoiledCounts
<1>2. RiskNow(s)' \in 0..2
  <2>1. RiskNow(s) \in 0..2
    BY RiskRange DEF RiskNow, RiskAt
  <2> QED
    BY RiskRange DEF RiskNow, RiskAt
<1>3. CASE UNCHANGED siteVars
  <2>1. Sp(s)' = Sp(s)
    BY <1>3, StillCounts
  <2>2. Callback(s) /\ \A t \in Sites : Sp(t)' = Sp(t)
    BY <1>3, StillCounts
  <2>3. Kind(s)' = Kind(s) /\ Mine(s)' = Mine(s)
    BY <1>3, StillCounts DEF Still
  <2> QED
    BY <1>1, <1>2, <2>1, <2>2, <2>3
<1>4. ASSUME NEW tag, Opened(s, tag)
      PROVE  /\ Sp(s)' + RiskNow(s)' <= Sp(s) + 2
             /\ Callback(s) /\ \A t \in Sites : t # s => Sp(t)' = Sp(t)
             /\ Known(s, Kind(s), Mine(s)) => Known(s, Kind(s)', Mine(s)')
  <2>1. /\ TagTo(s, tag, Kind(s), Mine(s), Kind(s)', Mine(s)') /\ Callback(s)
        /\ \A t \in Sites : Sp(t)' = Sp(t)
    BY <1>4, TagCounts
  <2>2. Known(s, Kind(s), Mine(s)) => Known(s, Kind(s)', Mine(s)')
    BY <2>1, TaggedKnown
  <2> QED
    BY <1>1, <1>2, <2>1, <2>2
<1>5. ASSUME NEW words \in Words, OnText(s, words), inTag'[s] \in {0, r}
      PROVE  /\ Sp(s)' + RiskNow(s)' <= Sp(s) + 2
             /\ Callback(s) /\ \A t \in Sites : t # s => Sp(t)' = Sp(t)
             /\ Known(s, Kind(s), Mine(s)) => Known(s, Kind(s)', Mine(s)')
  <2> DEFINE c == Spoils(s, words, Kind(s), Mine(s))
  <2>1. /\ TextTo(s, words, Kind(s), Mine(s), Kind(s)', Mine(s)') /\ Callback(s)
        /\ Sp(s)' = Sp(s) + c
        /\ \A t \in Sites : t # s => Sp(t)' = Sp(t)
    BY <1>5, TextCounts
  <2>2. Known(s, Kind(s), Mine(s)) => Known(s, Kind(s)', Mine(s)')
    BY <2>1, TextKnown
  <2>3. ~Dirty(s)'
    <3>1. lastFed'[s] = r
      <4>1. Chunked(r, s)
        BY ChunkIs
      <4>2. lastFed \in [Sites -> 0..MaxRefresh]
        BY DEF IInv, TypeOK
      <4> QED
        BY <4>1, <4>2 DEF Chunked
    <3> QED
      BY <1>5, <3>1 DEF Dirty
  <2>4. RiskNow(s)' = Risk(s, Kind(s)', Mine(s)', Place[s][Idx(s)'].step, RowAt(s, Idx(s)'), ~Cut(s)')
    BY <2>3 DEF RiskNow, RiskAt, RowAt
  <2>5. RiskNow(s)' + c <= 2
    BY <2>1, <2>4, AfterCost
  <2>6. c \in 0..1
    BY DEF Spoils
  <2> HIDE DEF c
  <2> QED
    BY <1>1, <1>2, <2>1, <2>2, <2>5, <2>6
<1> QED
  BY <1>3, <1>4, <1>5, ChunkGives

(* A chunk that is no disturbance finds its site where the last one left   *)
(* it: in the same response, or between two whole ones.                    *)
Quiet(r, s) == /\ lastFed[s] \notin {0, r} => (~Running(lastFed[s], s) /\ pos[r][s] = 1)
               /\ Running(r, s)

LEMMA FeedIsQuiet ==
  ASSUME IInv, NEW r \in Responses, NEW s \in Sites, NEW n \in Nat, Feed(r, s, n)
  PROVE  /\ hits'[s] \in Nat /\ hits[s] \in Nat /\ hits'[s] >= hits[s]
         /\ \A t \in Sites : t # s => hits'[t] = hits[t]
         /\ hits'[s] = hits[s] => n = 0 /\ Quiet(r, s)
<1> DEFINE switch == /\ lastFed[s] \notin {0, r}
                     /\ Running(lastFed[s], s) \/ pos[r][s] > 1
           m == IF switch THEN 1 ELSE 0
<1>1. hits \in [Sites -> 0..MaxHits] /\ pos[r][s] \in Nat \ {0}
  BY DEF IInv, TypeOK
<1>2. hits' = [hits EXCEPT ![s] = hits[s] + n + m] /\ Running(r, s)
  BY DEF Feed
<1>3. hits[s] \in Nat
  BY <1>1, ScraperAssumption
<1>4. m = 0 => Quiet(r, s)
  BY <1>1, <1>2 DEF Quiet
<1>5. m \in 0..1
  OBVIOUS
<1> HIDE DEF m
<1>6. hits'[s] = hits[s] + n + m /\ \A t \in Sites : t # s => hits'[t] = hits[t]
  BY <1>1, <1>2
<1> QED
  BY <1>3, <1>4, <1>5, <1>6

LEMMA RiskAtOne ==
  ASSUME NEW s \in Sites, NEW k, NEW e, NEW i, NEW row, Place[s][i].step = 1
  PROVE  RiskAt(s, k, e, i, TRUE) = Risk(s, k, e, 1, row, TRUE)
<1>1. RiskAt(s, k, e, i, TRUE) = Risk(s, k, e, 1, RowAt(s, i), TRUE)
  BY DEF RiskAt
<1> QED
  BY <1>1, AtStepOne

(* The place it finds the site at.                                         *)
LEMMA QuietPlace ==
  ASSUME IInv, NEW r \in Responses, NEW s \in Sites, Quiet(r, s), StreamOK(s), ~Dirty(s)
  PROVE  /\ pos[r][s] \in DOMAIN Page[s]
         /\ inTag[s] \in {0, r}
         /\ inTag[s] = r => lastFed[s] = r
         /\ lastFed[s] # r => pos[r][s] = 1
         /\ RiskNow(s) = RiskAt(s, Kind(s), Mine(s), pos[r][s], lastFed[s] = r => ~Cut(s))
         /\ lastFed[s] = 0 => rest[r][s] = <<>>
<1> DEFINE q == lastFed[s]
<1>1. /\ q \in 0..MaxRefresh /\ inTag[s] \in 0..MaxRefresh /\ refreshes \in 0..MaxRefresh
      /\ pos[r][s] \in Nat \ {0} /\ r # 0 /\ r \in Nat
      /\ q # 0 => q \in Responses /\ pos[q][s] \in Nat \ {0}
      /\ inTag[s] # 0 => inTag[s] \in Responses
  BY ScraperAssumption DEF IInv, TypeOK, Responses
<1>2. Page[s] \in Seq(Event) /\ Len(Page[s]) \in Nat /\ DOMAIN Page[s] = 1..Len(Page[s])
  BY ScraperAssumption
<1>3. pos[r][s] \in DOMAIN Page[s] /\ s \in up
  BY <1>1, <1>2 DEF Quiet, Running
<1>4. RiskNow(s) = RiskAt(s, Kind(s), Mine(s), Idx(s), ~Cut(s))
  BY DEF RiskNow
<1>5. CASE q = r
  BY <1>1, <1>3, <1>4, <1>5 DEF Dirty, Idx
<1>6. CASE q = 0
  <2>1. pos[r][s] = 1 /\ rest[r][s] = <<>>
    BY <1>6 DEF StreamOK, Unfed
  <2>2. ~Cut(s) /\ Idx(s) = 1
    BY <1>6 DEF Cut, Idx
  <2>3. inTag[s] = 0
    BY <1>6 DEF Dirty
  <2>4. RiskNow(s) = RiskAt(s, Kind(s), Mine(s), 1, TRUE)
    BY <1>4, <2>2
  <2> QED
    BY <1>1, <1>3, <1>6, <2>1, <2>3, <2>4
<1>7. CASE q \notin {0, r}
  <2>1. ~Running(q, s) /\ pos[r][s] = 1
    BY <1>7 DEF Quiet
  <2>2. q \in Responses /\ q <= refreshes /\ q \in 1..refreshes
    BY <1>1, <1>7 DEF StreamOK
  <2>3. pos[q][s] = Len(Page[s]) + 1
    <3>1. pos[q][s] <= Len(Page[s]) + 1 /\ ~(pos[q][s] <= Len(Page[s]))
      BY <1>3, <2>1, <2>2 DEF Running, StreamOK
    <3> QED
      BY <1>1, <1>2, <1>7, <3>1
  <2>4. rest[q][s] = <<>>
    BY <1>2, <2>2, <2>3 DEF StreamOK, HeldBack
  <2>5. inTag[s] = 0
    BY <1>7, <2>4 DEF Dirty, StreamOK
  <2>6. Place[s][Len(Page[s]) + 1].step = 1 /\ Place[s][1].step = 1
    BY PagesAssumption
  <2>7. Idx(s) = Len(Page[s]) + 1
    BY <1>7, <2>3 DEF Idx
  <2>8. RiskNow(s) = Risk(s, Kind(s), Mine(s), 1, RowAt(s, 1), TRUE)
    <3>1. ~Cut(s) = TRUE
      BY <1>7, <2>4 DEF Cut
    <3>2. RiskNow(s) = RiskAt(s, Kind(s), Mine(s), Len(Page[s]) + 1, TRUE)
      BY <1>4, <2>7, <3>1
    <3> QED
      BY <2>6, <3>2, RiskAtOne
  <2>9. RiskAt(s, Kind(s), Mine(s), 1, TRUE) = Risk(s, Kind(s), Mine(s), 1, RowAt(s, 1), TRUE)
    BY <2>6, RiskAtOne
  <2>10. RiskNow(s) = RiskAt(s, Kind(s), Mine(s), 1, TRUE)
    BY <2>8, <2>9
  <2> QED
    BY <1>1, <1>3, <1>7, <2>1, <2>5, <2>10
<1> QED
  BY <1>5, <1>6, <1>7

(* And where it leaves it.                                                 *)
LEMMA LeftAt ==
  ASSUME IInv, NEW r \in Responses, NEW s \in Sites, Chunked(r, s),
         \/ rest'[r][s] = <<>> /\ inTag'[s] = 0
         \/ inTag'[s] = r
  PROVE  RiskNow(s)' = RiskAt(s, Kind(s)', Mine(s)', pos'[r][s], TRUE)
<1>1. lastFed'[s] = r /\ r # 0
  BY ScraperAssumption DEF Chunked, IInv, TypeOK, Responses
<1>2. ~Dirty(s)' /\ ~Cut(s)' /\ Idx(s)' = pos'[r][s]
  BY <1>1 DEF Dirty, Cut, Idx
<1> QED
  BY <1>2 DEF RiskNow, RiskAt, RowAt

LEMMA QuietStep ==
  ASSUME IInv, IInv', NEW r \in Responses, NEW s \in Sites, Chunk(r, s),
         StreamOK(s), Known(s, Kind(s), Mine(s)), hits'[s] = hits[s]
  PROVE  Sp(s)' + RiskNow(s)' <= Sp(s) + RiskNow(s)
<1> DEFINE i == pos[r][s]
           k == Kind(s)
           e == Mine(s)
           l == Kind(s)'
           f == Mine(s)'
           now == RiskNow(s)
           then == RiskNow(s)'
           was == Sp(s)
           is == Sp(s)'
<1>1. was \in Nat
  BY SpoiledCounts
<1>2. now \in 0..2
  BY RiskRange DEF RiskNow, RiskAt
<1>0. then \in 0..2
  BY RiskRange DEF RiskNow, RiskAt
<1> SUFFICES is + then <= was + now
  OBVIOUS
<1> HIDE DEF now, then, was, is
<1>3. CASE Dirty(s)
  <2>1. now = 2 /\ is + then <= was + 2
    BY <1>3, HitStep DEF RiskNow, now, then, was, is
  <2> QED
    BY <1>1, <2>1
<1>4. CASE ~Dirty(s)
  <2>1. Quiet(r, s) /\ ~\E n \in Nat : n # 0 /\ Feed(r, s, n)
    BY FeedIsQuiet DEF Chunk, WholeEvent, SplitText, SplitTag, Remainder, Swallowed
  <2>2. /\ i \in DOMAIN Page[s] /\ inTag[s] \in {0, r}
        /\ inTag[s] = r => lastFed[s] = r
        /\ lastFed[s] # r => i = 1
        /\ now = RiskAt(s, k, e, i, lastFed[s] = r => ~Cut(s))
        /\ lastFed[s] = 0 => rest[r][s] = <<>>
    BY <1>4, <2>1, QuietPlace DEF now
  <2>3. Chunked(r, s)
    BY ChunkIs
  <2>4. Here(r, s) = Page[s][i] /\ Page[s][i] \in Event
    BY <2>2, Places DEF Here
  <2>5. (rest[r][s] = <<>> \/ inTag[s] = r) => now = RiskAt(s, k, e, i, TRUE)
    <3> SUFFICES ASSUME rest[r][s] = <<>> \/ inTag[s] = r
                 PROVE  now = RiskAt(s, k, e, i, TRUE)
      OBVIOUS
    <3>1. (lastFed[s] = r => ~Cut(s)) = TRUE
      BY <2>2 DEF Cut
    <3> QED
      BY <2>2, <3>1
  <2>6. ASSUME Opened(s, Here(r, s).tag), Here(r, s).tag # "#text", now = RiskAt(s, k, e, i, TRUE),
               then = RiskAt(s, l, f, i + 1, TRUE)
        PROVE  is + then <= was + now
    <3>1. TagTo(s, Page[s][i].tag, k, e, l, f) /\ is = was
      BY <2>4, <2>6, TagCounts DEF is, was
    <3>2. RiskAt(s, l, f, i + 1, TRUE) <= RiskAt(s, k, e, i, TRUE)
      BY <2>2, <2>4, <2>6, <3>1, PassTag
    <3>3. then <= now
      BY <2>6, <3>2
    <3> QED
      BY <1>0, <1>1, <1>2, <3>1, <3>3
  <2>7. ASSUME NEW words \in Words, NEW whole \in BOOLEAN, OnText(s, words), Here(r, s).tag = "#text",
               whole => words = Here(r, s).words, now = RiskAt(s, k, e, i, whole),
               then = RiskAt(s, l, f, i + 1, TRUE)
        PROVE  is + then <= was + now
    <3> DEFINE c == Spoils(s, words, k, e)
    <3>1. TextTo(s, words, k, e, l, f) /\ is = was + c
      BY <2>7, TextCounts DEF is, was
    <3>2. RiskAt(s, l, f, i + 1, TRUE) + c <= RiskAt(s, k, e, i, whole)
      BY <2>2, <2>4, <2>7, <3>1, PassText
    <3>3. c \in 0..1
      BY DEF Spoils
    <3> HIDE DEF c
    <3>4. then + c <= now
      BY <2>7, <3>2
    <3> QED
      BY <1>0, <1>1, <1>2, <3>1, <3>3, <3>4
  <2>8. CASE WholeEvent(r, s)
    <3>1. rest[r][s] = <<>> /\ inTag[s] = 0 /\ inTag'[s] = 0 /\ Passed(r, s)
      BY <2>2, <2>8 DEF WholeEvent
    <3>2. pos'[r][s] = i + 1 /\ rest'[r][s] = <<>>
      BY <3>1, PassedMoves DEF Goes1, IInv, TypeOK, StreamsOK
    <3>3. then = RiskAt(s, l, f, i + 1, TRUE)
      BY <2>3, <3>1, <3>2, LeftAt DEF then
    <3>4. now = RiskAt(s, k, e, i, TRUE)
      BY <2>5, <3>1
    <3>5. CASE Here(r, s).tag = "#text"
      <4>1. OnText(s, Here(r, s).words) /\ Here(r, s).words \in Words
        BY <2>4, <2>8, <3>5 DEF WholeEvent, Event
      <4> QED
        BY <2>7, <3>3, <3>4, <3>5, <4>1
    <3>6. CASE Here(r, s).tag # "#text"
      BY <2>6, <2>8, <3>3, <3>4, <3>6 DEF WholeEvent
    <3> QED
      BY <3>5, <3>6
  <2>9. CASE SplitText(r, s)
    <3>1. Feed(r, s, 1)
      BY <2>9 DEF SplitText
    <3> QED
      BY <2>1, <3>1
  <2>10. CASE SplitTag(r, s)
    <3>1. rest[r][s] = <<>> /\ UNCHANGED siteVars
      BY <2>1, <2>10 DEF SplitTag
    <3>2. inTag' = [inTag EXCEPT ![s] = r] /\ pos' = pos
      BY <2>10 DEF SplitTag
    <3>3. inTag'[s] = r
      BY <3>2 DEF IInv, TypeOK
    <3>4. then = RiskAt(s, l, f, i, TRUE)
      BY <2>3, <3>2, <3>3, LeftAt DEF then
    <3>5. l = k /\ f = e /\ is = was
      BY <3>1, StillCounts DEF Still, is, was
    <3>6. then = now
      BY <2>5, <3>1, <3>4, <3>5
    <3> QED
      BY <1>1, <1>2, <3>5, <3>6
  <2>11. CASE Remainder(r, s)
    <3>1. rest[r][s] # <<>> /\ inTag' = [inTag EXCEPT ![s] = 0] /\ Passed(r, s)
      BY <2>11 DEF Remainder
    <3>2. pos'[r][s] = i + 1 /\ rest'[r][s] = <<>> /\ inTag'[s] = 0
      BY <3>1, PassedMoves DEF Goes1, IInv, TypeOK, StreamsOK
    <3>3. then = RiskAt(s, l, f, i + 1, TRUE)
      BY <2>3, <3>2, LeftAt DEF then
    <3>4. CASE inTag[s] = r /\ Opened(s, Here(r, s).tag)
      <4>1. Here(r, s).tag # "#text"
        BY <3>4, ScraperAssumption DEF StreamOK, Responses
      <4> QED
        BY <2>5, <2>6, <3>3, <3>4, <4>1
    <3>5. CASE inTag[s] = 0 /\ OnText(s, rest[r][s])
      <4> DEFINE words == rest[r][s]
      <4>1. words \in Words
        BY DEF IInv, TypeOK
      <4>2. CASE lastFed[s] = r
        <5>1. Here(r, s).tag = "#text"
          BY <3>1, <3>5, <4>2, ScraperAssumption DEF StreamOK, Responses
        <5>2. (lastFed[s] = r => ~Cut(s)) = FALSE
          BY <3>1, <3>5, <4>2, ScraperAssumption DEF Cut, Responses
        <5>3. now = RiskAt(s, k, e, i, FALSE)
          BY <2>2, <5>2
        <5> QED
          BY <2>7, <3>3, <3>5, <4>1, <5>1, <5>3
      <4>3. CASE lastFed[s] # r
        <5>1. i = 1
          BY <2>2, <4>3
        <5>2. Page[s][1].tag = "other" /\ Place[s][1].step = 1
          <6>1. Page[s] \in Seq(Event) /\ 1 \in DOMAIN Page[s]
            BY <2>2, <5>1, ScraperAssumption
          <6>2. Page[s] # <<>>
            BY <6>1
          <6> QED
            BY <6>2, PagesAssumption
        <5>3. words = <<Frag(s)>>
          BY <2>4, <3>1, <5>1, <5>2 DEF StreamOK, HeldBack
        <5>4. Between(s, 1)
          <6>1. 1 \in DOMAIN Page[s]
            BY <2>2, <5>1
          <6>2. StepsOf(s)[1] = "#text" \/ StepsOf(s)[1] \notin {"other", "close"}
            BY <6>1, <5>2, Places, SomeTag
          <6>3. ~Expected(s, 1)
            BY <6>1, <6>2, <5>2, ExpectedIs
          <6> QED
            BY <6>1, <6>3, Places
        <5>5. Place[s][2].step = 1
          BY <5>2, <5>4 DEF Between
        <5>6. now = Risk(s, k, e, 1, RowAt(s, 1), TRUE)
          <6>1. (lastFed[s] = r => ~Cut(s)) = TRUE
            BY <4>3
          <6>2. now = RiskAt(s, k, e, 1, TRUE)
            BY <2>2, <5>1, <6>1
          <6> QED
            BY <5>2, <6>2, RiskAtOne
        <5>7. then = Risk(s, l, f, 1, RowAt(s, 2), TRUE)
          <6>1. i + 1 = 2
            BY <5>1
          <6>2. then = RiskAt(s, l, f, 2, TRUE)
            BY <3>3, <6>1
          <6> HIDE DEF l, f
          <6> QED
            BY <5>5, <6>2, RiskAtOne
        <5> DEFINE c == Spoils(s, words, k, e)
        <5>8. TextTo(s, words, k, e, l, f) /\ is = was + c
          BY <3>5, <4>1, TextCounts DEF is, was
        <5>9. Risk(s, l, f, 1, RowAt(s, 2), TRUE) + c <= Risk(s, k, e, 1, RowAt(s, 1), TRUE)
          BY <4>1, <5>3, <5>8, StrayText
        <5>10. c \in 0..1
          BY DEF Spoils
        <5> HIDE DEF c
        <5>11. then + c <= now
          BY <5>6, <5>7, <5>9
        <5> QED
          BY <1>0, <1>1, <1>2, <5>8, <5>10, <5>11
      <4> QED
        BY <4>2, <4>3
    <3> QED
      BY <2>11, <3>4, <3>5 DEF Remainder
  <2>12. CASE Swallowed(r, s)
    BY <2>2, <2>12 DEF Swallowed
  <2> QED
    BY <2>8, <2>9, <2>10, <2>11, <2>12 DEF Chunk
<1> QED
  BY <1>3, <1>4

LEMMA NoneRisk ==
  ASSUME NEW s \in Sites, NEW e, NEW f, NEW step, NEW row, NEW whole
  PROVE  Risk(s, "none", e, step, row, whole) = Risk(s, "none", f, step, row, whole)
<1>1. One(s, "none", e, step, row, whole) <=> One(s, "none", f, step, row, whole)
  <2>1. CASE s = "zoom"
    BY <2>1 DEF One, ZoomOne
  <2>2. CASE s = "letsride"
    BY <2>2 DEF One, LetsrideOne
  <2>3. CASE s = "keigwin"
    BY <2>3 DEF One, KeigwinOne, KeigwinReady
  <2>4. CASE s = "ptt"
    BY <2>4 DEF One, PttOne
  <2> QED
    BY <2>1, <2>2, <2>3, <2>4, SiteCases
<1>2. Two(s, "none", e, step) <=> Two(s, "none", f, step)
  BY DEF Two, ZoomTwo, PttTwo
<1> QED
  BY <1>1, <1>2 DEF Risk

(* The books of a site: the rows that are spoiled and those that may be,   *)
(* against the disturbances it has seen.                                   *)
Booked(s) == /\ Known(s, Kind(s), Mine(s))
             /\ StreamOK(s)
             /\ Sp(s) + RiskNow(s) <= 2 * hits[s] + Late(s)
DInv == IInv /\ \A s \in Sites : Booked(s)

LEMMA NowRange ==
  ASSUME NEW s PROVE RiskNow(s) \in 0..2
BY RiskRange DEF RiskNow, RiskAt

LEMMA NextCounts ==
  IInv' => (\A s \in Sites : Sp(s) \in Nat)'
<1>1. IInv => \A s \in Sites : Sp(s) \in Nat
  BY SpoiledCounts
<1> QED
  BY <1>1, PTL

LEMMA InitBooked == Init => DInv
<1> SUFFICES ASSUME Init, NEW s \in Sites PROVE Booked(s)
  BY InitIInv DEF DInv
<1>1. states = <<>> /\ inserted[s] = <<>>
  BY DEF Init, SiteInit
<1>2. Kind(s) = "none"
  BY <1>1 DEF Kind, Matches
<1>3. Known(s, Kind(s), Mine(s))
  BY <1>2 DEF Known
<1>4. Unfed(s) /\ lastFed[s] = 0 /\ inTag[s] = 0 /\ refreshes = 0 /\ hits[s] = 0
  BY DEF Init, Unfed
<1>5. Len(Page[s]) \in Nat
  BY ScraperAssumption
<1>6. StreamOK(s)
  BY <1>4, <1>5 DEF StreamOK, Unfed
<1>7. Spoiled(s) = {} /\ Sp(s) = 0
  BY <1>1, FS_EmptySet DEF Spoiled, Sp
<1>8. ~Dirty(s) /\ ~Cut(s) /\ Idx(s) = 1
  BY <1>4 DEF Dirty, Cut, Idx
<1>9. RiskNow(s) = 0
  <2>1. Place[s][1].step = 1
    BY PagesAssumption
  <2>2. RiskNow(s) = RiskAt(s, "none", Mine(s), 1, TRUE)
    BY <1>2, <1>8 DEF RiskNow
  <2>3. Risk(s, "none", Mine(s), 1, RowAt(s, 1), TRUE) = 0
    <3>1. ~One(s, "none", Mine(s), 1, RowAt(s, 1), TRUE)
      <4>1. CASE s = "zoom"
        BY <4>1 DEF One, ZoomOne
      <4>2. CASE s = "letsride"
        BY <4>2 DEF One, LetsrideOne
      <4>3. CASE s = "keigwin"
        BY <4>3 DEF One, KeigwinOne, KeigwinReady
      <4>4. CASE s = "ptt"
        BY <4>4 DEF One, PttOne
      <4> QED
        BY <4>1, <4>2, <4>3, <4>4, SiteCases
    <3>2. ~Two(s, "none", Mine(s), 1)
      BY DEF Two, ZoomTwo, PttTwo
    <3> QED
      BY <3>1, <3>2 DEF Risk
  <2> QED
    BY <2>1, <2>2, <2>3 DEF RiskAt
<1>10. Late(s) \in 0..1
  BY DEF Late
<1> QED
  BY <1>3, <1>4, <1>6, <1>7, <1>9, <1>10 DEF Booked

LEMMA RefreshBooked ==
  ASSUME DInv, IInv', Refresh \/ UNCHANGED vars
  PROVE  DInv'
<1> SUFFICES ASSUME NEW s \in Sites PROVE Booked(s)'
  BY DEF DInv
<1>1. /\ states' = states /\ inserted' = inserted /\ up' = up /\ pos' = pos /\ rest' = rest
      /\ inTag' = inTag /\ lastFed' = lastFed /\ hits' = hits
      /\ refreshes' \in Nat /\ refreshes' >= refreshes /\ refreshes \in Nat
  BY ScraperAssumption DEF DInv, Refresh, vars, streamVars, siteVars, IInv, TypeOK
<1>2. /\ Kind(s)' = Kind(s) /\ Mine(s)' = Mine(s) /\ Sp(s)' = Sp(s) /\ Late(s)' = Late(s)
  BY <1>1 DEF Kind, Mine, getMyState, Matches, Sp, Spoiled, RowsOf, Late, FoundLate, First
<1>3. RiskNow(s)' = RiskNow(s)
  BY <1>1, <1>2 DEF RiskNow, Dirty, RiskAt, RowAt, Idx, Cut
<1>4. StreamOK(s)'
  <2>1. StreamOK(s) /\ lastFed[s] \in Nat /\ \A r \in Responses : r \in Nat
    BY ScraperAssumption DEF DInv, Booked, IInv, TypeOK, Responses
  <2>2. \A r \in Responses : HeldBack(r, s) => HeldBack(r, s)'
    BY <1>1, <2>1 DEF HeldBack, Here
  <2> QED
    BY <1>1, <2>1, <2>2 DEF StreamOK, Unfed, Here
<1>5. Known(s, Kind(s), Mine(s)) /\ Sp(s) + RiskNow(s) <= 2 * hits[s] + Late(s)
  BY DEF DInv, Booked
<1> QED
  BY <1>1, <1>2, <1>3, <1>4, <1>5 DEF Booked

LEMMA OwnBooked ==
  ASSUME DInv, IInv', NEW r \in Responses, NEW s \in Sites, Chunk(r, s)
  PROVE  Booked(s)'
<1>1. IInv /\ Known(s, Kind(s), Mine(s)) /\ StreamOK(s)
      /\ Sp(s) + RiskNow(s) <= 2 * hits[s] + Late(s)
  BY DEF DInv, Booked
<1>2. Chunked(r, s) /\ StreamOK(s)'
  BY <1>1, ChunkIs, OwnStream
<1>3. /\ Sp(s)' + RiskNow(s)' <= Sp(s) + 2 /\ Callback(s)
      /\ Known(s, Kind(s)', Mine(s)')
  BY <1>1, HitStep
<1>4. PICK n \in Nat : Feed(r, s, n)
  BY DEF Chunk, WholeEvent, SplitText, SplitTag, Remainder, Swallowed
<1>5. hits'[s] \in Nat /\ hits[s] \in Nat /\ hits'[s] >= hits[s]
  BY <1>1, <1>4, FeedIsQuiet
<1>6. hits'[s] = hits[s] => Sp(s)' + RiskNow(s)' <= Sp(s) + RiskNow(s)
  BY <1>1, QuietStep
<1>7. Late(s) \in 0..1 /\ Late(s)' \in 0..1 /\ Late(s)' >= Late(s)
  <2>1. FoundLate(s) => FoundLate(s)'
    BY <1>1, <1>3, LateStays DEF IInv, TypeOK, TypeStates
  <2> QED
    BY <2>1 DEF Late
<1>8. Sp(s) \in Nat /\ RiskNow(s) \in 0..2 /\ RiskNow(s)' \in 0..2 /\ Sp(s)' \in Nat
  <2>1. Sp(s)' \in Nat
    BY NextCounts
  <2>2. RiskNow(s)' \in 0..2
    BY RiskRange DEF RiskNow, RiskAt
  <2> QED
    BY <1>1, <2>1, <2>2, SpoiledCounts, NowRange
<1>9. Sp(s)' + RiskNow(s)' <= 2 * hits'[s] + Late(s)'
  <2> DEFINE a == Sp(s)'
             b == RiskNow(s)'
             c == Sp(s)
             d == RiskNow(s)
             h == hits[s]
             g == hits'[s]
             x == Late(s)
             y == Late(s)'
  <2> SUFFICES a + b <= 2 * g + y
    OBVIOUS
  <2>1. /\ a \in Nat /\ b \in 0..2 /\ c \in Nat /\ d \in 0..2 /\ h \in Nat /\ g \in Nat
        /\ x \in 0..1 /\ y \in 0..1 /\ y >= x /\ g >= h /\ c + d <= 2 * h + x
        /\ a + b <= c + 2 /\ (g = h => a + b <= c + d)
    BY <1>1, <1>3, <1>5, <1>6, <1>7, <1>8
  <2> HIDE DEF a, b, c, d, h, g, x, y
  <2>2. CASE g = h
    BY <2>1, <2>2
  <2>3. CASE g > h
    BY <2>1, <2>3
  <2> QED
    BY <2>1, <2>2, <2>3
<1> QED
  BY <1>2, <1>3, <1>9 DEF Booked, Known

LEMMA OtherBooked ==
  ASSUME DInv, IInv', NEW r \in Responses, NEW s \in Sites, Chunk(r, s),
         NEW t \in Sites, t # s
  PROVE  Booked(t)'
<1>1. IInv /\ Known(t, Kind(t), Mine(t)) /\ StreamOK(t)
      /\ Sp(t) + RiskNow(t) <= 2 * hits[t] + Late(t)
  BY DEF DInv, Booked
<1>2. Chunked(r, s)
  BY <1>1, ChunkIs
<1>3. StreamOK(t)'
  BY <1>1, <1>2, OtherStreams
<1>4. Callback(s) /\ Sp(t)' = Sp(t)
  BY <1>1, HitStep
<1>5. PICK n \in Nat : Feed(r, s, n)
  BY DEF Chunk, WholeEvent, SplitText, SplitTag, Remainder, Swallowed
<1>6. hits'[t] = hits[t] /\ hits[t] \in Nat
  <2>1. hits[t] \in 0..MaxHits
    BY <1>1 DEF IInv, TypeOK
  <2> QED
    BY <1>1, <1>5, <2>1, FeedIsQuiet, ScraperAssumption
<1>7. Dirty(t)' = Dirty(t) /\ Idx(t)' = Idx(t) /\ Cut(t)' = Cut(t)
  <2>1. /\ lastFed'[t] = lastFed[t] /\ inTag'[t] = inTag[t]
        /\ \A q \in Responses : pos'[q][t] = pos[q][t] /\ rest'[q][t] = rest[q][t]
    BY <1>1, <1>2 DEF Chunked, Unmoved, IInv, TypeOK
  <2>2. lastFed[t] # 0 => lastFed[t] \in Responses
    <3>1. lastFed[t] \in 0..MaxRefresh
      BY <1>1 DEF IInv, TypeOK
    <3> QED
      BY <3>1, ScraperAssumption DEF Responses
  <2> QED
    BY <2>1, <2>2 DEF Dirty, Idx, Cut
<1>8. ListOK /\ ListOK'
  BY <1>1 DEF IInv, TypeOK, ListOK, TypeStates
<1>9. Kept(t) \/ Helped(t)
  BY <1>4, <1>8, Elsewhere DEF ListOK
<1>10. Late(t) \in 0..1 /\ Late(t)' \in 0..1 /\ Late(t)' >= Late(t)
  <2>1. FoundLate(t) => FoundLate(t)'
    BY <1>4, <1>8, LateStays DEF ListOK
  <2> QED
    BY <2>1 DEF Late
<1>11. Sp(t) \in Nat /\ RiskNow(t) \in 0..2 /\ RiskNow(t)' \in 0..2
  <2>1. RiskNow(t)' \in 0..2
    BY RiskRange DEF RiskNow, RiskAt
  <2> QED
    BY <1>1, <2>1, SpoiledCounts, NowRange
<1>12. CASE Kept(t)
  <2>1. Known(t, Kind(t)', Mine(t)')
    BY <1>1, <1>12 DEF Kept, Known
  <2>2. RiskNow(t)' = RiskNow(t)
    <3>1. CASE Kind(t) # "none"
      BY <1>7, <1>12, <3>1 DEF Kept, RiskNow, RiskAt, RowAt
    <3>2. CASE Kind(t) = "none"
      <4>1. Kind(t)' = "none"
        BY <1>12, <3>2 DEF Kept
      <4>2. Dirty(t) => (RiskNow(t) = 2 /\ RiskNow(t)' = 2)
        BY <1>7 DEF RiskNow
      <4>3. CASE ~Dirty(t)
        <5> DEFINE step == Place[t][Idx(t)].step
                   row == RowAt(t, Idx(t))
                   whole == ~Cut(t)
        <5>1. RiskNow(t) = Risk(t, "none", Mine(t), step, row, whole)
          BY <3>2, <4>3 DEF RiskNow, RiskAt
        <5>2. RiskNow(t)' = Risk(t, "none", Mine(t)', step, row, whole)
          BY <1>7, <4>1, <4>3 DEF RiskNow, RiskAt, RowAt
        <5> HIDE DEF step, row, whole
        <5> QED
          BY <5>1, <5>2, NoneRisk
      <4> QED
        BY <4>2, <4>3
    <3> QED
      BY <3>1, <3>2
  <2>3. Sp(t)' + RiskNow(t)' <= 2 * hits'[t] + Late(t)'
    <3> DEFINE a == Sp(t)
               b == RiskNow(t)
               h == hits[t]
               x == Late(t)
               y == Late(t)'
    <3>1. Sp(t)' = a /\ RiskNow(t)' = b /\ hits'[t] = h
      BY <1>4, <1>6, <2>2
    <3>2. a \in Nat /\ b \in 0..2 /\ h \in Nat /\ x \in 0..1 /\ y \in 0..1 /\ x <= y /\ a + b <= 2 * h + x
      BY <1>1, <1>6, <1>10, <1>11
    <3> SUFFICES a + b <= 2 * h + y
      BY <3>1
    <3> HIDE DEF a, b, h, x, y
    <3> QED
      BY <3>2
  <2> QED
    BY <1>3, <2>1, <2>3 DEF Booked, Known
<1>13. CASE Helped(t)
  <2>1. Known(t, "unfound", Mine(t)) /\ Mine(t)' = Mine(t) /\ Kind(t) = "unfound" /\ Kind(t)' = "found"
    BY <1>1, <1>13 DEF Helped
  <2> DEFINE step == Place[t][Idx(t)].step
             row == RowAt(t, Idx(t))
             whole == ~Cut(t)
             b == RiskNow(t)
             d == RiskNow(t)'
  <2>2. Known(t, "found", Mine(t))
    BY <2>1, LateRisk
  <2>3. d <= b + 1
    <3>1. CASE Dirty(t)
      BY <1>7, <3>1 DEF RiskNow
    <3>2. CASE ~Dirty(t)
      <4>1. b = Risk(t, "unfound", Mine(t), step, row, whole)
        BY <2>1, <3>2 DEF RiskNow, RiskAt
      <4>2. d = Risk(t, "found", Mine(t), step, row, whole)
        BY <1>7, <2>1, <3>2 DEF RiskNow, RiskAt, RowAt
      <4> HIDE DEF step, row, whole, b, d
      <4> QED
        BY <2>1, <4>1, <4>2, LateRisk
    <3> QED
      BY <3>1, <3>2
  <2>4. Late(t) = 0 /\ Late(t)' = 1
    BY <1>13 DEF Helped, Late
  <2>5. Sp(t)' + RiskNow(t)' <= 2 * hits'[t] + Late(t)'
    <3> DEFINE a == Sp(t)
               h == hits[t]
    <3>1. Sp(t)' = a /\ hits'[t] = h /\ Late(t)' = 1
      BY <1>4, <1>6, <2>4
    <3>2. a \in Nat /\ b \in 0..2 /\ d \in 0..2 /\ h \in Nat /\ a + b <= 2 * h + 0 /\ d <= b + 1
      BY <1>1, <1>6, <1>11, <2>3, <2>4
    <3> SUFFICES a + d <= 2 * h + 1
      BY <3>1
    <3> HIDE DEF a, b, d, h
    <3> QED
      BY <3>2
  <2> QED
    BY <1>3, <2>1, <2>2, <2>5 DEF Booked
<1> QED
  BY <1>9, <1>12, <1>13

(* Spoiled rows are paid for by disturbances, and the one that nothing     *)
(* disturbed by the cold start of the list: two rows at most for each      *)
(* chunk boundary in a text or change of response, on every page of the    *)
(* scrapers' format, for any number of refreshes and disturbances.         *)
THEOREM DamageBoundedHolds == Spec => []DamageBounded
<1>1. Init => DInv
  BY InitBooked
<1>2. DInv /\ [Next]_vars => DInv'
  <2> SUFFICES ASSUME DInv, [Next]_vars PROVE DInv'
    OBVIOUS
  <2>1. IInv'
    BY NextIInv DEF DInv
  <2>2. CASE Refresh \/ UNCHANGED vars
    BY <2>1, <2>2, RefreshBooked
  <2>3. ASSUME NEW r \in Responses, NEW s \in Sites, Chunk(r, s) PROVE DInv'
    <3>1. ASSUME NEW t \in Sites PROVE Booked(t)'
      BY <2>1, <2>3, OwnBooked, OtherBooked
    <3> QED
      BY <2>1, <3>1 DEF DInv
  <2> QED
    BY <2>2, <2>3 DEF Next
<1>3. DInv => DamageBounded
  <2> SUFFICES ASSUME DInv, NEW s \in Sites
               PROVE  Cardinality(Spoiled(s)) <= 2 * hits[s] + Late(s)
    BY DEF DamageBounded, Late
  <2>1. hits[s] \in 0..MaxHits
    BY DEF DInv, IInv, TypeOK
  <2>2. /\ Sp(s) \in Nat /\ RiskNow(s) \in 0..2 /\ hits[s] \in Nat /\ Late(s) \in 0..1
        /\ Sp(s) + RiskNow(s) <= 2 * hits[s] + Late(s)
    BY <2>1, SpoiledCounts, NowRange, ScraperAssumption DEF DInv, Booked, Late
  <2> QED
    BY <2>2 DEF Sp
<1> QED
  BY <1>1, <1>2, <1>3, PTL DEF Spec

-----------------------------------------------------------------------------
(* Nothing is lost.  A scraper is in step with its page when it stands     *)
(* where the listing under way will make a good row; one that nothing      *)
(* disturbs falls out of step only at the cold start, and then waits where *)
(* the next listing finds it.                                              *)

(* A scraper keeps step with its page when it stands where a listing will  *)
(* make it a good row.                                                     *)
Sync(s, e, step, row) ==
  CASE s = "zoom" -> \/ step = 1 \/ ZoomReady(e, step, row)
                     \/ step = 6 /\ e.currState = "money" /\ Read(e, row)
    [] s = "letsride" -> \/ step = 1 /\ e.currState = "nostate"
                         \/ step = 2 /\ e.currState = "start"
                         \/ step = 3 /\ e.currState = "date"
                         \/ step = 4 /\ e.currState = "transition" /\ Read(e, row)
                         \/ step = 5 /\ e.currState = "money" /\ Read(e, row)
    [] s = "keigwin" -> \/ step = 1 /\ e.trackname = Empty
                        \/ step = 2 /\ e.currState = "start" /\ e.trackname = Empty
                        \/ /\ step > 2 /\ e.currState \notin {"start", "nostate"}
                           /\ KeigwinReady(e, step, row, TRUE)
    [] s = "ptt" -> \/ step = 1
                    \/ step = 2 /\ e.currState = "start"
                    \/ step = 3 /\ e.currState = "title"
                    \/ step = 4 /\ e.currState = "nostate" /\ Read(e, row)
                    \/ step = 5 /\ e.currState = "money" /\ Read(e, row)

(* So does one that has no entry, or does not find it, between listings,   *)
(* but for Let's Ride's, which takes a tag more to find its own.           *)
OnTime(s, k, e, step, row) ==
  \/ k = "found" /\ Sync(s, e, step, row)
  \/ k = "none" /\ step = 1
  \/ k = "unfound" /\ step = 1 /\ s # "letsride"

(* And one that is out of step waits where the next listing finds it.      *)
Patient(s, k, e, step, row) ==
  /\ k = "none" => step = 1
  /\ k = "unfound" => e.currState # "money" /\ (s = "letsride" => step = 1)
  /\ (k = "found" /\ ~Sync(s, e, step, row)) =>
       /\ s = "letsride" => e.currState = "nostate"
       /\ s = "keigwin" => e.currState = "start" /\ e.trackname = Empty

Keeps(s, k, e, step, row, l, f, next, other) ==
  /\ Patient(s, l, f, next, other)
  /\ OnTime(s, k, e, step, row) => (OnTime(s, l, f, next, other) \/ (k = "none" /\ l = "unfound"))

(* What the tags of its listings do to a scraper that has its entry.       *)
LEMMA ZoomTurns ==
  ASSUME "zoom" \in Sites, NEW e, NEW l, NEW f, Known("zoom", "found", e), NEW step \in {1, 2, 5},
         NEW tag, tag = StepsOf("zoom")[step], Tagged("zoom", tag, "found", e, l, f)
  PROVE  /\ l = "found" /\ Same(f, e)
         /\ step = 1 => f.currState = "start"
         /\ step = 2 => f.currState = IF e.currState = "start" THEN "title" ELSE e.currState
         /\ step = 5 => f.currState = "money"
<1>1. tag = CASE step = 1 -> "category" [] step = 2 -> "h1" [] step = 5 -> "price"
  BY DEF StepsOf
<1>2. e.currState \in AnyState
  BY DEF Known, Entry, AnyState
<1>3. /\ l = "found" /\ Same(f, e)
      /\ \/ \E c : Goes("zoom", tag, e.currState, c) /\ f.currState = c
         \/ (\A c : ~Goes("zoom", tag, e.currState, c)) /\ f.currState = e.currState
  BY TagFound
<1>4. \A c : Goes("zoom", tag, e.currState, c) <=>
               \/ tag = "category" /\ c = "start"
               \/ tag = "h1" /\ e.currState = "start" /\ c = "title"
               \/ tag = "price" /\ c = "money"
  BY <1>2, ZoomGoes
<1> QED
  BY <1>1, <1>3, <1>4

LEMMA LetsrideTurns ==
  ASSUME "letsride" \in Sites, NEW e, NEW l, NEW f, Known("letsride", "found", e),
         NEW step \in {1, 2, 4},
         NEW tag, tag = StepsOf("letsride")[step], Tagged("letsride", tag, "found", e, l, f)
  PROVE  /\ l = "found" /\ Same(f, e)
         /\ f.currState = CASE step = 1 /\ e.currState = "nostate" -> "start"
                            [] step = 2 /\ e.currState = "start" -> "date"
                            [] step = 4 /\ e.currState = "transition" -> "money"
                            [] OTHER -> e.currState
<1>1. tag = CASE step = 1 -> "name" [] step = 2 -> "ayelshop" [] step = 4 -> "price"
  BY DEF StepsOf
<1>2. e.currState \in AnyState
  BY DEF Known, Entry, AnyState
<1>3. /\ l = "found" /\ Same(f, e)
      /\ \/ \E c : Goes("letsride", tag, e.currState, c) /\ f.currState = c
         \/ (\A c : ~Goes("letsride", tag, e.currState, c)) /\ f.currState = e.currState
  BY TagFound
<1>4. \A c : Goes("letsride", tag, e.currState, c) <=>
               \/ tag = "name" /\ e.currState = "nostate" /\ c = "start"
               \/ tag = "ayelshop" /\ e.currState = "start" /\ c = "date"
               \/ tag = "price" /\ e.currState = "transition" /\ c = "money"
  BY <1>2, LetsrideGoes
<1> QED
  BY <1>1, <1>3, <1>4

LEMMA KeigwinTurns ==
  ASSUME "keigwin" \in Sites, NEW e, NEW l, NEW f, Known("keigwin", "found", e),
         NEW step \in {1, 2, 4, 6, 8},
         NEW tag, tag = StepsOf("keigwin")[step], Tagged("keigwin", tag, "found", e, l, f)
  PROVE  /\ l = "found" /\ Same(f, e)
         /\ f.currState = CASE step = 1 -> "start"
                            [] step = 2 /\ e.currState = "start" -> "date"
                            [] step > 2 /\ e.currState = "date" -> "title"
                            [] step > 2 /\ e.currState = "title" -> "group"
                            [] step > 2 /\ e.currState = "group" -> "money"
                            [] OTHER -> e.currState
<1>1. tag = CASE step = 1 -> "datatable" [] step = 2 -> "roster" [] OTHER -> "td"
  BY DEF StepsOf
<1>2. e.currState \in AnyState
  BY DEF Known, Entry, AnyState
<1>3. /\ l = "found" /\ Same(f, e)
      /\ \/ \E c : Goes("keigwin", tag, e.currState, c) /\ f.currState = c
         \/ (\A c : ~Goes("keigwin", tag, e.currState, c)) /\ f.currState = e.currState
  BY TagFound
<1>4. \A c : Goes("keigwin", tag, e.currState, c) <=>
               \/ tag = "datatable" /\ c = "start"
               \/ tag = "roster" /\ e.currState = "start" /\ c = "date"
               \/ tag = "td" /\ e.currState = "date" /\ c = "title"
               \/ tag = "td" /\ e.currState = "title" /\ c = "group"
               \/ tag = "td" /\ e.currState = "group" /\ c = "money"
  BY <1>2, KeigwinGoes
<1> QED
  BY <1>1, <1>3, <1>4

LEMMA PttTurns ==
  ASSUME "ptt" \in Sites, NEW e, NEW l, NEW f, Known("ptt", "found", e), NEW step \in {1, 2, 4},
         NEW tag, tag = StepsOf("ptt")[step], Tagged("ptt", tag, "found", e, l, f)
  PROVE  /\ l = "found" /\ Same(f, e)
         /\ f.currState = CASE step = 1 -> "start"
                            [] step = 2 /\ e.currState = "start" -> "title"
                            [] step = 4 /\ e.currState = "nostate" -> "money"
                            [] OTHER -> e.currState
<1>1. tag = CASE step = 1 -> "eb_title" [] step = 2 -> "a" [] step = 4 -> "price"
  BY DEF StepsOf
<1>2. e.currState \in AnyState
  BY DEF Known, Entry, AnyState
<1>3. /\ l = "found" /\ Same(f, e)
      /\ \/ \E c : Goes("ptt", tag, e.currState, c) /\ f.currState = c
         \/ (\A c : ~Goes("ptt", tag, e.currState, c)) /\ f.currState = e.currState
  BY TagFound
<1>4. \A c : Goes("ptt", tag, e.currState, c) <=>
               \/ tag = "eb_title" /\ c = "start"
               \/ tag = "a" /\ e.currState = "start" /\ c = "title"
               \/ tag = "price" /\ e.currState = "nostate" /\ c = "money"
  BY <1>2, PttGoes
<1> QED
  BY <1>1, <1>3, <1>4

(* Such a tag keeps it in step, or has it wait.                            *)
LEMMA FoundKeeps ==
  ASSUME NEW s \in Sites, NEW e, NEW l, NEW f, Known(s, "found", e),
         NEW step \in 1..Len(StepsOf(s)), StepsOf(s)[step] # "#text", NEW row,
         NEW tag, tag = StepsOf(s)[step], Tagged(s, tag, "found", e, l, f),
         Patient(s, "found", e, step, row)
  PROVE  Keeps(s, "found", e, step, row, l, f, step + 1, row)
<1>1. CASE s = "zoom"
  <2>1. step \in {1, 2, 5}
    BY <1>1, SomeTag
  <2>2. /\ l = "found" /\ Same(f, e)
        /\ step = 1 => f.currState = "start"
        /\ step = 2 => f.currState = IF e.currState = "start" THEN "title" ELSE e.currState
        /\ step = 5 => f.currState = "money"
    BY <1>1, <2>1, ZoomTurns
  <2> QED
    BY <1>1, <2>1, <2>2 DEF Keeps, Patient, OnTime, Sync, ZoomReady, Same, Read
<1>2. CASE s = "letsride"
  <2>1. step \in {1, 2, 4}
    BY <1>2, SomeTag
  <2>2. /\ l = "found" /\ Same(f, e)
        /\ f.currState = CASE step = 1 /\ e.currState = "nostate" -> "start"
                           [] step = 2 /\ e.currState = "start" -> "date"
                           [] step = 4 /\ e.currState = "transition" -> "money"
                           [] OTHER -> e.currState
    BY <1>2, <2>1, LetsrideTurns
  <2> QED
    BY <1>2, <2>1, <2>2 DEF Keeps, Patient, OnTime, Sync, Same, Read
<1>3. CASE s = "keigwin"
  <2>1. step \in {1, 2, 4, 6, 8}
    BY <1>3, SomeTag
  <2>2. /\ l = "found" /\ Same(f, e)
        /\ f.currState = CASE step = 1 -> "start"
                           [] step = 2 /\ e.currState = "start" -> "date"
                           [] step > 2 /\ e.currState = "date" -> "title"
                           [] step > 2 /\ e.currState = "title" -> "group"
                           [] step > 2 /\ e.currState = "group" -> "money"
                           [] OTHER -> e.currState
    BY <1>3, <2>1, KeigwinTurns
  <2> QED
    BY <1>3, <2>1, <2>2 DEF Keeps, Patient, OnTime, Sync, KeigwinReady, Same, Read
<1>4. CASE s = "ptt"
  <2>1. step \in {1, 2, 4}
    BY <1>4, SomeTag
  <2>2. /\ l = "found" /\ Same(f, e)
        /\ f.currState = CASE step = 1 -> "start"
                           [] step = 2 /\ e.currState = "start" -> "title"
                           [] step = 4 /\ e.currState = "nostate" -> "money"
                           [] OTHER -> e.currState
    BY <1>4, <2>1, PttTurns
  <2> QED
    BY <1>4, <2>1, <2>2 DEF Keeps, Patient, OnTime, Sync, Same, Read
<1> QED
  BY <1>1, <1>2, <1>3, <1>4, SiteCases

LEMMA UnfoundKeeps ==
  ASSUME NEW s \in Sites, NEW e, NEW l, NEW f, Known(s, "unfound", e),
         NEW step \in 1..Len(StepsOf(s)), StepsOf(s)[step] # "#text", NEW row,
         NEW tag, tag = StepsOf(s)[step], Tagged(s, tag, "unfound", e, l, f),
         Patient(s, "unfound", e, step, row)
  PROVE  Keeps(s, "unfound", e, step, row, l, f, step + 1, row)
<1>1. /\ f = e /\ e.currState \in MadeIn(s) /\ e.trackname = Empty /\ e.currState # "money"
      /\ \/ l = "found" /\ (s = "letsride" \/ \E c : NullGoes(s, tag, c))
         \/ l = "unfound" /\ s # "letsride" /\ \A c : ~NullGoes(s, tag, c)
  BY TagUnfound, GoesFromNull DEF Patient
<1>2. CASE s = "zoom"
  <2>1. step \in {1, 2, 5} /\ e.currState = "start"
    BY <1>1, <1>2, SomeTag DEF MadeIn
  <2>2. tag = CASE step = 1 -> "category" [] step = 2 -> "h1" [] step = 5 -> "price"
    BY <1>2, <2>1 DEF StepsOf
  <2>3. step = 1 => l = "found"
    BY <1>1, <1>2, <2>2 DEF NullGoes
  <2> QED
    BY <1>1, <1>2, <2>1, <2>3 DEF Keeps, Patient, OnTime, Sync, ZoomReady
<1>3. CASE s = "letsride"
  <2>1. e.currState = "nostate" /\ l = "found" /\ step = 1
    BY <1>1, <1>3 DEF MadeIn, Patient
  <2> QED
    BY <1>1, <1>3, <2>1 DEF Keeps, Patient, OnTime, Sync
<1>4. CASE s = "keigwin"
  <2>1. step \in {1, 2, 4, 6, 8} /\ e.currState = "start"
    BY <1>1, <1>4, SomeTag DEF MadeIn
  <2>2. step = 1 => tag = "datatable"
    BY <1>4, <2>1 DEF StepsOf
  <2>3. step = 1 => l = "found"
    BY <1>1, <1>4, <2>2 DEF NullGoes
  <2> QED
    BY <1>1, <1>4, <2>1, <2>3 DEF Keeps, Patient, OnTime, Sync
<1>5. CASE s = "ptt"
  <2>1. step \in {1, 2, 4} /\ e.currState = "start"
    BY <1>1, <1>5, SomeTag DEF MadeIn
  <2>2. step = 1 => tag = "eb_title"
    BY <1>5, <2>1 DEF StepsOf
  <2>3. step = 1 => l = "found"
    BY <1>1, <1>5, <2>2 DEF NullGoes
  <2> QED
    BY <1>1, <1>5, <2>1, <2>3 DEF Keeps, Patient, OnTime, Sync
<1> QED
  BY <1>2, <1>3, <1>4, <1>5, SiteCases

LEMMA NoneKeeps ==
  ASSUME NEW s \in Sites, s # "letsride", NEW e, NEW l, NEW f, Known(s, "none", e),
         NEW step \in 1..Len(StepsOf(s)), StepsOf(s)[step] # "#text", NEW row,
         NEW tag, tag = StepsOf(s)[step], Tagged(s, tag, "none", e, l, f),
         Patient(s, "none", e, step, row)
  PROVE  Keeps(s, "none", e, step, row, l, f, step + 1, row)
<1>1. step = 1
  BY DEF Patient
<1>2. tag = CASE s = "zoom" -> "category" [] s = "keigwin" -> "datatable" [] s = "ptt" -> "eb_title"
  BY <1>1, SiteCases DEF StepsOf
<1>3. \A c : NullGoes(s, tag, c) <=> c = "start"
  BY <1>2, SiteCases DEF NullGoes
<1>4. l \in {"unfound", "found"} /\ f.currState = "start" /\ f.trackname = Empty
  <2>1. \A c : Goes(s, tag, "null", c) <=> c = "start"
    BY <1>3, GoesFromNull
  <2> QED
    BY <2>1, TagNone
<1>5. l = "found" => Sync(s, f, 2, row)
  BY <1>4, SiteCases DEF Sync, ZoomReady
<1> QED
  BY <1>1, <1>4, <1>5 DEF Keeps, Patient, OnTime

(* A tag that no scraper looks for.                                        *)
LEMMA OtherKeeps ==
  ASSUME NEW s \in Sites, NEW k, NEW e, NEW l, NEW f, Known(s, k, e),
         Tagged(s, "other", k, e, l, f),
         NEW step \in Nat, NEW row, Patient(s, k, e, step, row)
  PROVE  Keeps(s, k, e, step, row, l, f, step, row)
<1>1. ASSUME NEW cur \in AnyState, NEW c PROVE ~Goes(s, "other", cur, c)
  BY SiteCases, ZoomGoes, LetsrideGoes, KeigwinGoes, PttGoes
<1>2. Sees(k, e) \in AnyState
  BY SeesAny
<1>3. CASE ~(s = "letsride" /\ k # "found")
  <2>1. l = k /\ f = e
    BY <1>1, <1>2, <1>3 DEF Tagged
  <2> QED
    BY <2>1 DEF Keeps
<1>4. CASE s = "letsride" /\ k = "unfound"
  <2>1. l = "found" /\ f.currState = "nostate" /\ step = 1
    BY <1>4, TagUnfound DEF MadeIn, Patient
  <2> QED
    BY <1>4, <2>1 DEF Keeps, Patient, OnTime, Sync
<1>5. CASE s = "letsride" /\ k = "none"
  <2>1. l \in {"unfound", "found"} /\ f.currState = "nostate" /\ step = 1
    BY <1>5, TagNone DEF Patient
  <2> QED
    BY <1>5, <2>1 DEF Keeps, Patient, OnTime, Sync
<1> QED
  BY <1>3, <1>4, <1>5 DEF Known

(* What a text of its listings does to a scraper: it keeps it in step, or  *)
(* has it wait, and the last one of a listing makes the row, if it was in  *)
(* step, and leaves it in step whether or not it was.                      *)
Tells(s, words, k, e, step, row, l, f, other) ==
  IF step = Len(StepsOf(s))
  THEN /\ Patient(s, l, f, 1, other) /\ OnTime(s, l, f, 1, other)
       /\ OnTime(s, k, e, step, row) =>
            k = "found" /\ e.currState = "money" /\ Inserted(e, s, words) = row
  ELSE /\ Patient(s, l, f, step + 1, row)
       /\ OnTime(s, k, e, step, row) => OnTime(s, l, f, step + 1, row)

LEMMA ZoomTells ==
  ASSUME "zoom" \in Sites, NEW e, Known("zoom", "found", e), e.currState # "money",
         NEW words \in Words, NEW f, f = FieldText("zoom", e, words),
         NEW step \in {3, 4, 6}, NEW row, Says("zoom", step, words, row), NEW other,
         Patient("zoom", "found", e, step, row)
  PROVE  Tells("zoom", words, "found", e, step, row, "found", f, other)
<1>1. Len(StepsOf("zoom")) = 6
  BY DEF StepsOf
<1>2. step = 3 => Whole("zoom", words) = row.name
  BY <1>1 DEF Says
<1>3. step = 4 => Whole("zoom", words) = row.date
  BY <1>1 DEF Says
<1>4. \/ f = e /\ e.currState \notin {"title", "date"}
      \/ /\ e.currState = "title" /\ f.currState = "date" /\ f.trackname = Whole("zoom", words)
      \/ /\ e.currState = "date" /\ f.currState = "nostate" /\ f.trackdate = Whole("zoom", words)
         /\ f.trackname = e.trackname
  BY ZoomTextEffect
<1>5. CASE step = 6
  <2>1. Patient("zoom", "found", f, 1, other) /\ OnTime("zoom", "found", f, 1, other)
    BY <1>4 DEF Patient, OnTime, Sync, ZoomReady
  <2>2. ~OnTime("zoom", "found", e, step, row)
    BY <1>5 DEF OnTime, Sync, ZoomReady
  <2> QED
    BY <1>1, <1>5, <2>1, <2>2 DEF Tells
<1>6. CASE step # 6
  <2>1. Sync("zoom", e, step, row) => Sync("zoom", f, step + 1, row)
    BY <1>2, <1>3, <1>4, <1>6 DEF Sync, ZoomReady, Read
  <2>2. Patient("zoom", "found", f, step + 1, row)
    BY <1>4, <1>6, <2>1 DEF Patient
  <2> QED
    BY <1>1, <1>6, <2>1, <2>2 DEF Tells, OnTime
<1> QED
  BY <1>5, <1>6

LEMMA LetsrideTells ==
  ASSUME "letsride" \in Sites, NEW e, Known("letsride", "found", e), e.currState # "money",
         NEW words \in Words, NEW f, f = FieldText("letsride", e, words),
         NEW step \in {3, 5}, NEW row, Says("letsride", step, words, row), NEW other,
         Patient("letsride", "found", e, step, row)
  PROVE  Tells("letsride", words, "found", e, step, row, "found", f, other)
<1>1. Len(StepsOf("letsride")) = 5
  BY DEF StepsOf
<1>2. step = 3 => Len(words) > 1 /\ words[1] = row.date /\ words[2] = row.name
  BY <1>1 DEF Says
<1>3. \/ f = e /\ (e.currState # "date" \/ step # 3)
      \/ /\ e.currState = "date" /\ f.currState = "transition"
         /\ step = 3 => Read(f, row)
  BY <1>2, LetsrideTextEffect DEF Read
<1>5. CASE step = 5
  <2>1. Patient("letsride", "found", f, 1, other) /\ OnTime("letsride", "found", f, 1, other)
    BY <1>3, <1>5 DEF Patient, OnTime, Sync
  <2>2. ~OnTime("letsride", "found", e, step, row)
    BY <1>5 DEF OnTime, Sync
  <2> QED
    BY <1>1, <1>5, <2>1, <2>2 DEF Tells
<1>6. CASE step = 3
  <2>1. Sync("letsride", e, step, row) => Sync("letsride", f, step + 1, row)
    BY <1>3, <1>6 DEF Sync, Read
  <2>2. Patient("letsride", "found", f, step + 1, row)
    BY <1>3, <1>6, <2>1 DEF Patient, Sync
  <2> QED
    BY <1>1, <1>6, <2>1, <2>2 DEF Tells, OnTime
<1> QED
  BY <1>5, <1>6

LEMMA KeigwinTells ==
  ASSUME "keigwin" \in Sites, NEW e, Known("keigwin", "found", e), e.currState # "money",
         NEW words \in Words, NEW f, f = FieldText("keigwin", e, words),
         NEW step \in {3, 5, 7, 9}, NEW row, OnPage(row), Says("keigwin", step, words, row),
         NEW other, Patient("keigwin", "found", e, step, row)
  PROVE  Tells("keigwin", words, "found", e, step, row, "found", f, other)
<1>1. Len(StepsOf("keigwin")) = 9
  BY DEF StepsOf
<1>2. step = 3 => Len(words) > 1 /\ words[1] = row.date
  BY <1>1 DEF Says
<1>3. step = 5 => Whole("keigwin", words) = row.name
  BY <1>1 DEF Says
<1>4. /\ f.currState = e.currState
      /\ f.trackname = IF e.currState = "title" /\ e.trackname = Empty
                       THEN Whole("keigwin", words) ELSE e.trackname
      /\ e.currState # "date" => f.trackdate = e.trackdate
      /\ e.currState = "date" /\ step = 3 => f.trackdate = row.date
  BY <1>2, KeigwinTextEffect
<1>5. CASE step = 9
  <2>1. Patient("keigwin", "found", f, 1, other) /\ OnTime("keigwin", "found", f, 1, other)
    BY <1>4, <1>5 DEF Patient, OnTime, Sync, KeigwinReady
  <2>2. ~OnTime("keigwin", "found", e, step, row)
    BY <1>5 DEF OnTime, Sync, KeigwinReady
  <2> QED
    BY <1>1, <1>5, <2>1, <2>2 DEF Tells
<1>6. CASE step # 9
  <2>1. Sync("keigwin", e, step, row) => Sync("keigwin", f, step + 1, row)
    BY <1>2, <1>3, <1>4, <1>6 DEF Sync, KeigwinReady, Read
  <2>2. Patient("keigwin", "found", f, step + 1, row)
    BY <1>4, <1>6, <2>1 DEF Patient
  <2> QED
    BY <1>1, <1>6, <2>1, <2>2 DEF Tells, OnTime
<1> QED
  BY <1>5, <1>6

LEMMA PttTells ==
  ASSUME "ptt" \in Sites, NEW e, Known("ptt", "found", e), e.currState # "money",
         NEW words \in Words, NEW f, f = FieldText("ptt", e, words),
         NEW step \in {3, 5}, NEW row, Says("ptt", step, words, row), NEW other,
         Patient("ptt", "found", e, step, row)
  PROVE  Tells("ptt", words, "found", e, step, row, "found", f, other)
<1>1. Len(StepsOf("ptt")) = 5
  BY DEF StepsOf
<1>2. step = 3 => Len(words) > 1 /\ words[1] = row.name /\ words[2] = row.date
  BY <1>1 DEF Says
<1>3. \/ f = e /\ (e.currState # "title" \/ step # 3)
      \/ /\ e.currState = "title" /\ f.currState = "nostate"
         /\ step = 3 => Read(f, row)
  BY <1>2, PttTextEffect DEF Read
<1>5. CASE step = 5
  <2>1. Patient("ptt", "found", f, 1, other) /\ OnTime("ptt", "found", f, 1, other)
    BY <1>3, <1>5 DEF Patient, OnTime, Sync
  <2>2. ~OnTime("ptt", "found", e, step, row)
    BY <1>5 DEF OnTime, Sync
  <2> QED
    BY <1>1, <1>5, <2>1, <2>2 DEF Tells
<1>6. CASE step = 3
  <2>1. Sync("ptt", e, step, row) => Sync("ptt", f, step + 1, row)
    BY <1>3, <1>6 DEF Sync, Read
  <2>2. Patient("ptt", "found", f, step + 1, row)
    BY <1>3, <1>6, <2>1 DEF Patient, Sync
  <2> QED
    BY <1>1, <1>6, <2>1, <2>2 DEF Tells, OnTime
<1> QED
  BY <1>5, <1>6

LEMMA CostTells ==
  ASSUME NEW s \in Sites, NEW e, Known(s, "found", e), e.currState = "money",
         NEW words \in Words, NEW f, f = Fresh(s, "nostate"),
         NEW step \in 1..Len(StepsOf(s)), StepsOf(s)[step] = "#text",
         NEW row, OnPage(row), Says(s, step, words, row), NEW other,
         Patient(s, "found", e, step, row)
  PROVE  Tells(s, words, "found", e, step, row, "found", f, other)
<1>1. f.currState = "nostate" /\ f.trackname = Empty
  BY FreshIs DEF CurrStates
<1>2. \A n : Patient(s, "found", f, 1, n) /\ OnTime(s, "found", f, 1, n)
  BY <1>1, SiteCases DEF Patient, OnTime, Sync
<1>3. Read(e, row) /\ step = Len(StepsOf(s)) => Inserted(e, s, words) = row
  BY GoodRow
<1>4. CASE s = "zoom"
  <2>1. step \in {3, 4, 6} /\ Len(StepsOf(s)) = 6
    BY <1>4, SomeText, StepCounts
  <2>2. Patient(s, "found", f, step + 1, row)
    BY <1>4 DEF Patient
  <2>3. OnTime(s, "found", e, step, row) => step = 6 /\ Read(e, row)
    BY <1>4, <2>1 DEF OnTime, Sync, ZoomReady
  <2> QED
    BY <1>2, <1>3, <2>1, <2>2, <2>3 DEF Tells
<1>5. CASE s = "letsride"
  <2>1. step \in {3, 5} /\ Len(StepsOf(s)) = 5
    BY <1>5, SomeText, StepCounts
  <2> QED
    BY <1>1, <1>2, <1>3, <1>5, <2>1 DEF Tells, Patient, OnTime, Sync
<1>6. CASE s = "keigwin"
  <2>1. step \in {3, 5, 7, 9} /\ Len(StepsOf(s)) = 9
    BY <1>6, SomeText, StepCounts
  <2>2. step = 9 /\ Read(e, row)
    BY <1>6, <2>1 DEF Patient, Sync, KeigwinReady
  <2> QED
    BY <1>1, <1>2, <1>3, <1>6, <2>1, <2>2 DEF Tells
<1>7. CASE s = "ptt"
  <2>1. step \in {3, 5} /\ Len(StepsOf(s)) = 5
    BY <1>7, SomeText, StepCounts
  <2>2. Patient(s, "found", f, step + 1, row)
    BY <1>7 DEF Patient
  <2>3. OnTime(s, "found", e, step, row) => step = 5 /\ Read(e, row)
    BY <1>7, <2>1 DEF OnTime, Sync
  <2> QED
    BY <1>2, <1>3, <2>1, <2>2, <2>3 DEF Tells
<1> QED
  BY <1>4, <1>5, <1>6, <1>7, SiteCases

LEMMA TextTells ==
  ASSUME NEW s \in Sites, NEW k, NEW e, NEW l, NEW f, Known(s, k, e),
         NEW words \in Words, TextTo(s, words, k, e, l, f),
         NEW step \in 1..Len(StepsOf(s)), StepsOf(s)[step] = "#text",
         NEW row, OnPage(row), Says(s, step, words, row), NEW other,
         Patient(s, k, e, step, row)
  PROVE  Tells(s, words, k, e, step, row, l, f, other)
<1>0. step # 1
  BY SomeText, SiteCases
<1>1. CASE k # "found"
  <2>1. k = "unfound" /\ s # "letsride" /\ l = k /\ f = e /\ e.currState # "money"
    BY <1>0, <1>1 DEF Known, Patient, TextTo
  <2> QED
    BY <1>0, <2>1 DEF Tells, Patient, OnTime
<1>2. CASE k = "found" /\ e.currState = "money"
  <2>1. l = "found" /\ f = Fresh(s, "nostate")
    BY <1>2 DEF TextTo
  <2> QED
    BY <1>2, <2>1, CostTells
<1>3. CASE k = "found" /\ e.currState # "money"
  <2>1. l = "found" /\ f = FieldText(s, e, words)
    BY <1>3 DEF TextTo
  <2>2. CASE s = "zoom"
    BY <1>3, <2>1, <2>2, SomeText, ZoomTells
  <2>3. CASE s = "letsride"
    BY <1>3, <2>1, <2>3, SomeText, LetsrideTells
  <2>4. CASE s = "keigwin"
    BY <1>3, <2>1, <2>4, SomeText, KeigwinTells
  <2>5. CASE s = "ptt"
    BY <1>3, <2>1, <2>5, SomeText, PttTells
  <2> QED
    BY <2>2, <2>3, <2>4, <2>5, SiteCases
<1> QED
  BY <1>1, <1>2, <1>3

OnAt(s, k, e, i) == OnTime(s, k, e, Place[s][i].step, RowAt(s, i))
PatientAt(s, k, e, i) == Patient(s, k, e, Place[s][i].step, RowAt(s, i))

(* Which events end a listing: only texts, at the last step.               *)
LEMMA LastIsText ==
  ASSUME NEW s \in Sites, NEW l \in DOMAIN Listings[s]
  PROVE  LET i == Listings[s][l].last IN
         /\ i \in DOMAIN Page[s] /\ Page[s][i].tag = "#text"
         /\ Place[s][i].step = Len(StepsOf(s)) /\ Place[s][i].listing = l
<1> DEFINE i == Listings[s][l].last
<1>1. i \in DOMAIN Page[s] /\ Expected(s, i) /\ Place[s][i] = [listing |-> l, step |-> Len(StepsOf(s))]
  BY PagesAssumption
<1>2. Place[s][i].step = Len(StepsOf(s)) /\ Place[s][i].listing = l
  BY <1>1
<1>3. Page[s][i].tag = StepsOf(s)[Place[s][i].step]
  BY <1>1 DEF Expected
<1>4. StepsOf(s)[Len(StepsOf(s))] = "#text"
  BY SiteCases, StepCounts DEF StepsOf
<1> QED
  BY <1>1, <1>2, <1>3, <1>4

LEMMA TextEnds ==
  ASSUME NEW s \in Sites, NEW i \in DOMAIN Page[s], Page[s][i].tag = "#text"
  PROVE  /\ Place[s][i].step \in 1..Len(StepsOf(s)) /\ StepsOf(s)[Place[s][i].step] = "#text"
         /\ Place[s][i].step = Len(StepsOf(s)) =>
              \E l \in DOMAIN Listings[s] : Listings[s][l].last = i
<1>1. Expected(s, i) /\ Place[s][i].step \in 1..Len(StepsOf(s))
  BY Places DEF Between
<1> QED
  BY <1>1 DEF Expected

(* A tag of the page.                                                      *)
LEMMA TagPasses ==
  ASSUME NEW s \in Sites, NEW k, NEW e, NEW l, NEW f, Known(s, k, e),
         NEW i \in DOMAIN Page[s], Page[s][i].tag # "#text",
         TagTo(s, Page[s][i].tag, k, e, l, f), PatientAt(s, k, e, i),
         (s = "letsride" /\ k = "none") => i = 1
  PROVE  /\ PatientAt(s, l, f, i + 1)
         /\ OnAt(s, k, e, i) => (OnAt(s, l, f, i + 1) \/ (k = "none" /\ l = "unfound"))
         /\ (s = "letsride" /\ k = "none") => l # "none"
         /\ (s = "letsride" /\ l = "none") => k = "none"
<1> DEFINE step == Place[s][i].step
           row == RowAt(s, i)
           tag == Page[s][i].tag
<1>1. step \in 1..Len(StepsOf(s)) /\ step \in Nat
  BY Places
<1>2. k \in {"none", "unfound", "found"} /\ (l = "none" => k = "none")
  <2>1. k \in {"none", "unfound", "found"}
    BY DEF Known
  <2> QED
    BY <2>1 DEF TagTo, Tagged, Turns
<1>3. (s = "letsride" /\ k = "none") => (tag = "other" /\ l # "none")
  <2> SUFFICES ASSUME s = "letsride", k = "none" PROVE tag = "other" /\ l # "none"
    OBVIOUS
  <2>1. Page[s] # <<>> /\ Page[s][1].tag = "other"
    <3>1. Page[s] \in Seq(Event)
      BY ScraperAssumption
    <3>2. Page[s] # <<>>
      BY <3>1
    <3> QED
      BY <3>2, PagesAssumption
  <2> QED
    BY <2>1 DEF TagTo, Tagged, Turns
<1>4. CASE Between(s, i)
  <2>1. Place[s][i + 1] = Place[s][i] /\ tag \in {"other", "close"}
    BY <1>4 DEF Between
  <2>2. Keeps(s, k, e, step, row, l, f, step, row)
    <3>1. CASE tag = "close"
      BY <3>1 DEF TagTo, Keeps, PatientAt
    <3>2. CASE tag = "other"
      <4>1. Tagged(s, "other", k, e, l, f) /\ Patient(s, k, e, step, row)
        BY <3>2 DEF TagTo, PatientAt
      <4> HIDE DEF step, row
      <4> QED
        BY <1>1, <4>1, OtherKeeps
    <3> QED
      BY <2>1, <3>1, <3>2
  <2> HIDE DEF tag
  <2> QED
    BY <1>2, <1>3, <2>1, <2>2 DEF Keeps, PatientAt, OnAt, RowAt
<1>5. CASE Expected(s, i)
  <2>1. tag = StepsOf(s)[step]
    BY <1>5, ExpectedIs
  <2>2. step # Len(StepsOf(s)) /\ tag # "close" /\ tag # "other"
    BY <1>1, <2>1, SomeTag
  <2>3. Place[s][i + 1].step = step + 1 /\ RowAt(s, i + 1) = row
    BY <1>5, <2>2, ExpectedIs
  <2>4. Tagged(s, tag, k, e, l, f) /\ Patient(s, k, e, step, row)
    BY <2>2 DEF TagTo, PatientAt
  <2>5. tag # "#text"
    OBVIOUS
  <2> HIDE DEF step, row, tag
  <2>6. Keeps(s, k, e, step, row, l, f, step + 1, row)
    <3>1. CASE k = "found"
      BY <1>1, <2>1, <2>4, <2>5, <3>1, FoundKeeps
    <3>2. CASE k = "unfound"
      BY <1>1, <2>1, <2>4, <2>5, <3>2, UnfoundKeeps
    <3>3. CASE k = "none"
      BY <1>1, <1>3, <2>1, <2>2, <2>4, <2>5, <3>3, NoneKeeps
    <3> QED
      BY <1>2, <3>1, <3>2, <3>3
  <2> QED
    BY <1>2, <1>3, <2>3, <2>6 DEF Keeps, PatientAt, OnAt, step, row
<1> QED
  BY <1>4, <1>5, Places

(* A text of the page.                                                     *)
Gains(s, words, k, e) ==
  IF k = "found" /\ e.currState = "money" /\ Inserted(e, s, words) \in RowsOf(s) THEN 1 ELSE 0

LEMMA TextPasses ==
  ASSUME NEW s \in Sites, NEW k, NEW e, NEW l, NEW f, Known(s, k, e),
         NEW i \in DOMAIN Page[s], Page[s][i].tag = "#text",
         NEW words \in Words, words = Page[s][i].words,
         TextTo(s, words, k, e, l, f), PatientAt(s, k, e, i)
  PROVE  /\ PatientAt(s, l, f, i + 1)
         /\ IF Place[s][i].step = Len(StepsOf(s))
            THEN /\ OnAt(s, l, f, i + 1)
                 /\ OnAt(s, k, e, i) => Gains(s, words, k, e) = 1
            ELSE OnAt(s, k, e, i) => OnAt(s, l, f, i + 1)
         /\ l = "none" => k = "none"
<1> DEFINE step == Place[s][i].step
           row == RowAt(s, i)
           other == RowAt(s, i + 1)
<1>1. step \in 1..Len(StepsOf(s)) /\ Expected(s, i)
  BY Places DEF Between
<1>2. /\ StepsOf(s)[step] = "#text" /\ OnPage(row) /\ row \in RowsOf(s)
      /\ Says(s, step, words, row)
      /\ Place[s][i + 1].step = IF step = Len(StepsOf(s)) THEN 1 ELSE step + 1
      /\ step # Len(StepsOf(s)) => other = row
  BY <1>1, ExpectedIs
<1>3. Tells(s, words, k, e, step, row, l, f, other)
  <2>1. Patient(s, k, e, step, row)
    BY DEF PatientAt
  <2> HIDE DEF step, row, other
  <2> QED
    BY <1>1, <1>2, <2>1, TextTells
<1>4. l = k
  BY DEF TextTo
<1>5. CASE step = Len(StepsOf(s))
  BY <1>2, <1>3, <1>4, <1>5 DEF Tells, PatientAt, OnAt, Gains
<1>6. CASE step # Len(StepsOf(s))
  BY <1>2, <1>3, <1>4, <1>6 DEF Tells, PatientAt, OnAt
<1> QED
  BY <1>5, <1>6

-----------------------------------------------------------------------------
(* The rows that are good, and the listings that have gone by.             *)
Good(s) == Cardinality(DOMAIN inserted[s] \ Spoiled(s))
Went(s) == Cardinality(Passages(s))

LEMMA GoodCounts ==
  ASSUME IInv, NEW s \in Sites
  PROVE  IsFiniteSet(DOMAIN inserted[s] \ Spoiled(s)) /\ Good(s) \in Nat
<1>1. inserted[s] \in Seq(Row)
  BY DEF IInv, TypeOK
<1>2. DOMAIN inserted[s] \ Spoiled(s) \subseteq 1..Len(inserted[s])
  BY <1>1
<1>3. IsFiniteSet(1..Len(inserted[s]))
  BY <1>1, FS_Interval
<1>4. IsFiniteSet(DOMAIN inserted[s] \ Spoiled(s))
  BY <1>2, <1>3, FS_Subset
<1> QED
  BY <1>4, FS_CardinalityType DEF Good

LEMMA GoodGrows ==
  ASSUME IInv, IInv', NEW s \in Sites, NEW row,
         inserted' = [inserted EXCEPT ![s] = Append(@, row)]
  PROVE  /\ Good(s)' = Good(s) + (IF row \in RowsOf(s) THEN 1 ELSE 0)
         /\ \A t \in Sites : t # s => Good(t)' = Good(t)
<1> DEFINE n == Len(inserted[s])
           was == DOMAIN inserted[s] \ Spoiled(s)
           is == DOMAIN inserted'[s] \ Spoiled(s)'
<1>1. inserted \in [Sites -> Seq(Row)]
  BY DEF IInv, TypeOK
<1>2. inserted'[s] = Append(inserted[s], row) /\ \A t \in Sites : t # s => inserted'[t] = inserted[t]
  BY <1>1
<1>3. /\ DOMAIN inserted[s] = 1..n /\ n \in Nat /\ DOMAIN inserted'[s] = 1..(n + 1)
      /\ \A i \in 1..n : inserted'[s][i] = inserted[s][i]
      /\ inserted'[s][n + 1] = row
  BY <1>1, <1>2
<1> HIDE DEF n
<1>4. /\ was = {i \in 1..n : inserted[s][i] \in RowsOf(s)}
      /\ is = {i \in 1..(n + 1) : inserted'[s][i] \in RowsOf(s)}
  BY <1>3 DEF Spoiled, RowsOf
<1>5. is = IF row \in RowsOf(s) THEN was \cup {n + 1} ELSE was
  <2> HIDE DEF was, is
  <2>1. \A i : i \in 1..(n + 1) <=> (i \in 1..n \/ i = n + 1)
    BY <1>3
  <2>2. n + 1 \notin 1..n
    BY <1>3
  <2> QED
    BY <1>3, <1>4, <2>1, <2>2
<1>6. n + 1 \notin was
  BY <1>3, <1>4
<1>7. Cardinality(was \cup {n + 1}) = Cardinality(was) + 1
  BY <1>6, GoodCounts, FS_AddElement
<1>8. \A t \in Sites : t # s => Good(t)' = Good(t)
  BY <1>2 DEF Good, Spoiled, RowsOf
<1>9. Good(s) \in Nat /\ Good(s) = Cardinality(was) /\ Good(s)' = Cardinality(is)
  BY GoodCounts DEF Good
<1> HIDE DEF was, is
<1>10. CASE row \in RowsOf(s)
  BY <1>5, <1>7, <1>8, <1>9, <1>10
<1>11. CASE row \notin RowsOf(s)
  BY <1>5, <1>8, <1>9, <1>11
<1> QED
  BY <1>10, <1>11

LEMMA TextGains ==
  ASSUME IInv, IInv', NEW s \in Sites, NEW words \in Words, OnText(s, words)
  PROVE  /\ Good(s)' = Good(s) + Gains(s, words, Kind(s), Mine(s))
         /\ \A t \in Sites : t # s => Good(t)' = Good(t)
<1>1. ListOK /\ ListOK'
  BY DEF IInv, TypeOK, ListOK, TypeStates
<1>2. inserted' = IF Kind(s) = "found" /\ Mine(s).currState = "money"
                  THEN [inserted EXCEPT ![s] = Append(@, Inserted(Mine(s), s, words))]
                  ELSE inserted
  BY <1>1, TextView
<1>3. CASE Kind(s) = "found" /\ Mine(s).currState = "money"
  BY <1>2, <1>3, GoodGrows DEF Gains
<1>4. CASE ~(Kind(s) = "found" /\ Mine(s).currState = "money")
  <2>1. \A t \in Sites : Good(t)' = Good(t)
    BY <1>2, <1>4 DEF Good, Spoiled, RowsOf
  <2>2. Gains(s, words, Kind(s), Mine(s)) = 0 /\ Good(s) \in Nat
    BY <1>4, GoodCounts DEF Gains
  <2> QED
    BY <2>1, <2>2
<1> QED
  BY <1>3, <1>4

LEMMA TagGains ==
  ASSUME IInv, IInv', NEW s \in Sites, NEW tag, Opened(s, tag)
  PROVE  \A t \in Sites : Good(t)' = Good(t)
<1>1. ListOK /\ ListOK'
  BY DEF IInv, TypeOK, ListOK, TypeStates
<1>2. inserted' = inserted
  BY <1>1, OpenedView
<1> QED
  BY <1>2 DEF Good, Spoiled, RowsOf

LEMMA WentCounts ==
  ASSUME IInv, NEW s \in Sites
  PROVE  IsFiniteSet(Passages(s)) /\ Went(s) \in Nat
<1>1. refreshes \in 0..MaxRefresh /\ Listings[s] \in Seq(Listing)
  BY ScraperAssumption DEF IInv, TypeOK
<1>2. IsFiniteSet(1..refreshes) /\ IsFiniteSet(DOMAIN Listings[s])
  <2>1. DOMAIN Listings[s] = 1..Len(Listings[s]) /\ Len(Listings[s]) \in Int
    BY <1>1
  <2>2. refreshes \in Int
    BY <1>1
  <2> QED
    BY <2>1, <2>2, FS_Interval
<1>3. IsFiniteSet((1..refreshes) \X DOMAIN Listings[s])
  BY <1>2, FS_Product
<1>4. Passages(s) \subseteq (1..refreshes) \X DOMAIN Listings[s]
  BY DEF Passages
<1>5. IsFiniteSet(Passages(s))
  BY <1>3, <1>4, FS_Subset
<1> QED
  BY <1>5, FS_CardinalityType DEF Went

(* An event passes.                                                        *)
LEMMA PassageStep ==
  ASSUME IInv, NEW r \in Responses, NEW s \in Sites, r \in 1..refreshes,
         pos[r][s] \in DOMAIN Page[s], refreshes' = refreshes,
         pos'[r][s] = pos[r][s] + 1,
         \A q \in Responses : q # r => pos'[q][s] = pos[q][s]
  PROVE  LET i == pos[r][s]
             ends == Page[s][i].tag = "#text" /\ Place[s][i].step = Len(StepsOf(s))
         IN  Went(s)' = Went(s) + (IF ends THEN 1 ELSE 0)
<1> DEFINE i == pos[r][s]
           ends == Page[s][i].tag = "#text" /\ Place[s][i].step = Len(StepsOf(s))
           L == DOMAIN Listings[s]
<1>1. /\ i \in Nat /\ pos'[r][s] = i + 1 /\ refreshes \in 0..MaxRefresh
      /\ \A q \in 1..refreshes : q \in Responses /\ pos[q][s] \in Nat
      /\ \A l \in L : Listings[s][l].last \in Nat
  <2>1. \A l \in L : Listings[s][l].last \in DOMAIN Page[s]
    BY LastIsText
  <2>2. Page[s] \in Seq(Event)
    BY ScraperAssumption
  <2> QED
    BY <2>1, <2>2, ScraperAssumption DEF IInv, TypeOK, Responses
<1>2. Passages(s) = {p \in (1..refreshes) \X L : pos[p[1]][s] > Listings[s][p[2]].last}
  BY DEF Passages
<1>3. Passages(s)' = {p \in (1..refreshes) \X L : pos'[p[1]][s] > Listings[s][p[2]].last}
  BY DEF Passages
<1>4. \A q \in 1..refreshes, l \in L :
        (pos'[q][s] > Listings[s][l].last) <=>
          (pos[q][s] > Listings[s][l].last \/ (q = r /\ Listings[s][l].last = i))
  <2> SUFFICES ASSUME NEW q \in 1..refreshes, NEW l \in L
               PROVE  (pos'[q][s] > Listings[s][l].last) <=>
                        (pos[q][s] > Listings[s][l].last \/ (q = r /\ Listings[s][l].last = i))
    OBVIOUS
  <2>1. CASE q # r
    BY <1>1, <2>1
  <2>2. CASE q = r
    BY <1>1, <2>2
  <2> QED
    BY <2>1, <2>2
<1>5. IsFiniteSet(Passages(s)) /\ Went(s) \in Nat /\ Went(s) = Cardinality(Passages(s))
      /\ Went(s)' = Cardinality(Passages(s)')
  BY WentCounts DEF Went
<1>6. \A l \in L : Listings[s][l].last = i => ends /\ Place[s][i].listing = l
  BY LastIsText
<1>7. CASE ends
  <2>1. PICK l \in L : Listings[s][l].last = i
    BY <1>7, TextEnds
  <2>2. \A m \in L : Listings[s][m].last = i <=> m = l
    BY <1>6, <2>1
  <2>3. Passages(s)' = Passages(s) \cup {<<r, l>>}
    <3> HIDE DEF L, i
    <3> QED
      BY <1>2, <1>3, <1>4, <2>2
  <2>4. <<r, l>> \notin Passages(s)
    BY <1>1, <1>2, <2>1
  <2>5. Cardinality(Passages(s) \cup {<<r, l>>}) = Cardinality(Passages(s)) + 1
    BY <1>5, <2>4, FS_AddElement
  <2> QED
    BY <1>5, <1>7, <2>3, <2>5
<1>8. CASE ~ends
  <2>1. Passages(s)' = Passages(s)
    <3> HIDE DEF L, i
    <3> QED
      BY <1>2, <1>3, <1>4, <1>6, <1>8
  <2> QED
    BY <1>5, <1>8, <2>1
<1> QED
  BY <1>7, <1>8

Top(s) == IF First(s) THEN 1 ELSE 0
Lag(s) == IF OnAt(s, Kind(s), Mine(s), Idx(s)) THEN 0 ELSE 1

(* The streams of a site that nothing has disturbed.                       *)
Orderly(s) ==
  /\ \A r \in Responses : r \notin 1..refreshes => pos[r][s] = 1
  /\ \A r \in Responses : r # lastFed[s] => rest[r][s] = <<>>
  /\ inTag[s] \in {0, lastFed[s]}
  /\ (lastFed[s] # 0 /\ inTag[s] = 0) => rest[lastFed[s]][s] = <<>>

(* It has made a row of every listing that went by, but for one, and the   *)
(* same one again if it is not in step now.                                *)
Unlost(s) ==
  /\ Orderly(s)
  /\ (s = "letsride" /\ Kind(s) = "none") => Idx(s) = 1
  /\ PatientAt(s, Kind(s), Mine(s), Idx(s))
  /\ Went(s) + Lag(s) <= Good(s) + Top(s)

NInv == DInv /\ \A s \in Sites : hits[s] = 0 => Unlost(s)

LEMMA InitUnlost == Init => NInv
<1> SUFFICES ASSUME Init, NEW s \in Sites PROVE Unlost(s)
  BY InitBooked DEF NInv
<1>1. states = <<>> /\ inserted[s] = <<>>
  BY DEF Init, SiteInit
<1>2. Kind(s) = "none"
  BY <1>1 DEF Kind, Matches
<1>3. /\ \A r \in Responses : pos[r][s] = 1 /\ rest[r][s] = <<>>
      /\ lastFed[s] = 0 /\ inTag[s] = 0 /\ refreshes = 0
  BY DEF Init
<1>4. Orderly(s) /\ Idx(s) = 1
  BY <1>3 DEF Orderly, Idx
<1>5. Place[s][1].step = 1
  BY PagesAssumption
<1>6. PatientAt(s, Kind(s), Mine(s), Idx(s)) /\ Lag(s) = 0
  BY <1>2, <1>4, <1>5 DEF PatientAt, Patient, Lag, OnAt, OnTime
<1>7. Went(s) = 0 /\ Good(s) = 0
  <2>1. DOMAIN inserted[s] \ Spoiled(s) = {}
    BY <1>1
  <2>2. Passages(s) = {}
    BY <1>3 DEF Passages
  <2> QED
    BY <2>1, <2>2, FS_EmptySet DEF Went, Good
<1>8. Top(s) \in 0..1
  BY DEF Top
<1> QED
  BY <1>2, <1>4, <1>6, <1>7, <1>8 DEF Unlost

LEMMA RefreshUnlost ==
  ASSUME NInv, DInv', Refresh \/ UNCHANGED vars
  PROVE  NInv'
<1> SUFFICES ASSUME NEW s \in Sites, hits'[s] = 0 PROVE Unlost(s)'
  BY DEF NInv
<1>1. /\ states' = states /\ inserted' = inserted /\ pos' = pos /\ rest' = rest
      /\ inTag' = inTag /\ lastFed' = lastFed /\ hits' = hits
      /\ refreshes' \in {refreshes, refreshes + 1} /\ refreshes \in Nat
  BY ScraperAssumption DEF NInv, DInv, Refresh, vars, streamVars, siteVars, IInv, TypeOK
<1>2. Unlost(s)
  BY <1>1 DEF NInv
<1>3. /\ Kind(s)' = Kind(s) /\ Mine(s)' = Mine(s) /\ Good(s)' = Good(s) /\ Top(s)' = Top(s)
      /\ Idx(s)' = Idx(s)
  BY <1>1 DEF Kind, Mine, getMyState, Matches, Good, Spoiled, RowsOf, Top, First, Idx
<1>4. Lag(s)' = Lag(s) /\ PatientAt(s, Kind(s), Mine(s), Idx(s))'
  BY <1>2, <1>3 DEF Lag, OnAt, RowAt, PatientAt, Unlost
<1>5. Orderly(s)'
  BY <1>1, <1>2 DEF Unlost, Orderly
<1>6. Went(s)' = Went(s)
  <2>1. \A q \in 1..refreshes', l \in DOMAIN Listings[s] :
           pos[q][s] > Listings[s][l].last => q \in 1..refreshes
    <3> SUFFICES ASSUME NEW q \in 1..refreshes', NEW l \in DOMAIN Listings[s],
                        pos[q][s] > Listings[s][l].last, q \notin 1..refreshes
                 PROVE  FALSE
      OBVIOUS
    <3>1. refreshes' \in 0..MaxRefresh
      BY DEF DInv, IInv, TypeOK
    <3>2. q \in Responses
      BY <3>1, ScraperAssumption DEF Responses
    <3>3. pos[q][s] = 1
      BY <1>2, <3>2 DEF Unlost, Orderly
    <3>4. Listings[s][l].last \in DOMAIN Page[s] /\ Page[s] \in Seq(Event)
      BY LastIsText, ScraperAssumption
    <3> QED
      BY <3>3, <3>4
  <2>2. 1..refreshes \subseteq 1..refreshes'
    BY <1>1
  <2>3. Passages(s)' = Passages(s)
    BY <1>1, <2>1, <2>2 DEF Passages
  <2> QED
    BY <2>3 DEF Went
<1> QED
  BY <1>2, <1>3, <1>4, <1>5, <1>6 DEF Unlost

(* The site that has the first entry.                                      *)
LEMMA TopGrows ==
  ASSUME TypeStates, OneEntryPerSite, TypeStates', OneEntryPerSite',
         NEW s \in Sites, Callback(s), NEW t \in Sites
  PROVE  /\ Top(t) \in 0..1 /\ Top(t)' \in 0..1 /\ Top(t)' >= Top(t)
         /\ (Kind(t) = "none" /\ Kind(t)' = "unfound") => Top(t)' = Top(t) + 1
<1>1. First(t) => First(t)'
  BY LateStays
<1>2. Kind(t) = "none" => ~First(t)
  <2>1. Kind(t) = "none" => \A i \in DOMAIN states : states[i].key # t
    BY View DEF Viewed
  <2>2. First(t) => 1 \in DOMAIN states /\ states[1].key = t
    BY DEF First, TypeStates
  <2> QED
    BY <2>1, <2>2
<1>3. Kind(t)' = "unfound" => First(t)'
  <2>1. Viewed(t)'
    BY ViewNext
  <2> QED
    BY <2>1 DEF Viewed, First
<1> QED
  BY <1>1, <1>2, <1>3 DEF Top

(* At the first step all listings are alike.                               *)
LEMMA AlikeAtOne ==
  ASSUME NEW s \in Sites, NEW k, NEW e, NEW i, NEW j, Place[s][i].step = 1, Place[s][j].step = 1
  PROVE  /\ OnAt(s, k, e, i) <=> OnAt(s, k, e, j)
         /\ PatientAt(s, k, e, i) <=> PatientAt(s, k, e, j)
<1>1. \A row, other : Sync(s, e, 1, row) <=> Sync(s, e, 1, other)
  BY SiteCases DEF Sync, ZoomReady
<1> QED
  BY <1>1 DEF OnAt, OnTime, PatientAt, Patient

(* The place an undisturbed site is found at.                              *)
LEMMA OrderlyPlace ==
  ASSUME DInv, NEW r \in Responses, NEW s \in Sites, Quiet(r, s), Unlost(s)
  PROVE  /\ pos[r][s] \in DOMAIN Page[s] /\ r \in 1..refreshes /\ r # 0
         /\ inTag[s] \in {0, r} /\ (inTag[s] = 0 => rest[r][s] = <<>>)
         /\ (s = "letsride" /\ Kind(s) = "none") => pos[r][s] = 1
         /\ PatientAt(s, Kind(s), Mine(s), pos[r][s])
         /\ Lag(s) = IF OnAt(s, Kind(s), Mine(s), pos[r][s]) THEN 0 ELSE 1
<1> DEFINE q == lastFed[s]
<1>1. IInv /\ StreamOK(s) /\ ~Dirty(s) /\ Orderly(s)
  BY DEF DInv, Booked, Unlost, Orderly, Dirty
<1>2. /\ pos[r][s] \in DOMAIN Page[s] /\ inTag[s] \in {0, r} /\ (inTag[s] = r => q = r)
      /\ q # r => pos[r][s] = 1
  BY <1>1, QuietPlace
<1>3. r \in 1..refreshes /\ r # 0 /\ q \in 0..MaxRefresh /\ (q # 0 => q \in Responses)
  <2>1. q \in 0..MaxRefresh
    BY <1>1 DEF IInv, TypeOK
  <2> QED
    BY <2>1, ScraperAssumption DEF Quiet, Running, Responses
<1>4. inTag[s] = 0 => rest[r][s] = <<>>
  BY <1>1, <1>2, <1>3 DEF Orderly
<1>5. CASE q = r
  <2>1. Idx(s) = pos[r][s]
    BY <1>3, <1>5 DEF Idx
  <2> QED
    BY <1>2, <1>3, <1>4, <2>1 DEF Unlost, Lag
<1>6. CASE q = 0
  <2>1. Idx(s) = 1 /\ pos[r][s] = 1
    BY <1>2, <1>3, <1>6 DEF Idx
  <2> QED
    BY <1>2, <1>3, <1>4, <2>1 DEF Unlost, Lag
<1>7. CASE q \notin {0, r}
  <2>1. pos[r][s] = 1 /\ ~Running(q, s) /\ s \in up
    BY <1>2, <1>7 DEF Quiet, Running
  <2>2. /\ Page[s] \in Seq(Event) /\ Len(Page[s]) \in Nat /\ q \in Nat /\ refreshes \in Nat
        /\ pos[q][s] \in Nat
    BY <1>1, <1>3, <1>7, ScraperAssumption DEF IInv, TypeOK
  <2>3. q <= refreshes /\ pos[q][s] <= Len(Page[s]) + 1
    BY <1>1, <1>3, <1>7 DEF StreamOK
  <2>4. pos[q][s] = Len(Page[s]) + 1
    BY <1>7, <2>1, <2>2, <2>3 DEF Running
  <2>5. Idx(s) = Len(Page[s]) + 1
    BY <1>7, <2>4 DEF Idx
  <2>6. Place[s][Idx(s)].step = 1 /\ Place[s][pos[r][s]].step = 1
    BY <2>1, <2>5, PagesAssumption
  <2> QED
    BY <1>2, <1>3, <1>4, <2>1, <2>6, AlikeAtOne DEF Unlost, Lag
<1> QED
  BY <1>5, <1>6, <1>7

(* The streams of the site stay in order.                                  *)
LEMMA OrderlyStays ==
  ASSUME IInv, NEW r \in Responses, NEW s \in Sites, Chunked(r, s), Quiet(r, s), Orderly(s),
         r \in 1..refreshes, inTag[s] \in {0, r}, lastFed[s] # r => pos[r][s] = 1,
         inTag'[s] \in {0, r}, inTag'[s] = 0 => rest'[r][s] = <<>>
  PROVE  Orderly(s)' /\ Idx(s)' = pos'[r][s]
<1>1. /\ lastFed'[s] = r /\ refreshes' = refreshes /\ r # 0
      /\ \A q \in Responses : q # r => pos'[q][s] = pos[q][s] /\ rest'[q][s] = rest[q][s]
  BY ScraperAssumption DEF Chunked, Unmoved, IInv, TypeOK
<1>2. \A q \in Responses : q # r => rest[q][s] = <<>>
  <2> SUFFICES ASSUME NEW q \in Responses, q # r, rest[q][s] # <<>> PROVE FALSE
    OBVIOUS
  <2>1. lastFed[s] = q
    BY DEF Orderly
  <2>2. q # 0 /\ inTag[s] = 0 => rest[q][s] = <<>>
    BY <2>1 DEF Orderly
  <2>3. q # 0
    BY ScraperAssumption DEF Responses
  <2>4. inTag[s] = r
    BY <2>2, <2>3
  <2> QED
    BY <1>1, <2>1, <2>4 DEF Orderly
<1>3. Orderly(s)'
  BY <1>1, <1>2 DEF Orderly
<1>4. Idx(s)' = pos'[r][s]
  BY <1>1 DEF Idx
<1> QED
  BY <1>3, <1>4

(* An event has passed.                                                    *)
LEMMA PassedUnlost ==
  ASSUME DInv, DInv', NEW r \in Responses, NEW s \in Sites, Chunked(r, s), Quiet(r, s),
         Unlost(s), Callback(s), pos'[r][s] = pos[r][s] + 1, rest'[r][s] = <<>>, inTag'[s] = 0,
         PatientAt(s, Kind(s)', Mine(s)', pos[r][s] + 1), s = "letsride" => Kind(s)' # "none",
         NEW g \in 0..1, Good(s)' = Good(s) + g,
         IF Page[s][pos[r][s]].tag = "#text" /\ Place[s][pos[r][s]].step = Len(StepsOf(s))
         THEN /\ OnAt(s, Kind(s)', Mine(s)', pos[r][s] + 1)
              /\ OnAt(s, Kind(s), Mine(s), pos[r][s]) => g = 1
         ELSE OnAt(s, Kind(s), Mine(s), pos[r][s]) =>
                \/ OnAt(s, Kind(s)', Mine(s)', pos[r][s] + 1)
                \/ Kind(s) = "none" /\ Kind(s)' = "unfound"
  PROVE  Unlost(s)'
<1> DEFINE i == pos[r][s]
           ends == Page[s][i].tag = "#text" /\ Place[s][i].step = Len(StepsOf(s))
           on == OnAt(s, Kind(s), Mine(s), i)
           next == OnAt(s, Kind(s)', Mine(s)', i + 1)
           w == Went(s)
           v == Went(s)'
           a == Good(s)
           b == Good(s)'
           t == Top(s)
           u == Top(s)'
           p == Lag(s)
           q == Lag(s)'
           made == Kind(s) = "none" /\ Kind(s)' = "unfound"
<1>1. IInv /\ IInv' /\ ListOK /\ ListOK'
  BY DEF DInv, IInv, TypeOK, ListOK, TypeStates
<1>2. /\ i \in DOMAIN Page[s] /\ r \in 1..refreshes
      /\ inTag[s] \in {0, r} /\ Orderly(s)
      /\ p = IF on THEN 0 ELSE 1
  BY OrderlyPlace DEF Unlost
<1>3. lastFed[s] # r => i = 1
  BY <1>1, QuietPlace DEF DInv, Booked, Orderly, Dirty, Unlost
<1>4. Orderly(s)' /\ Idx(s)' = i + 1
  BY <1>1, <1>2, <1>3, OrderlyStays
<1>5. q = IF next THEN 0 ELSE 1
  BY <1>4 DEF Lag, OnAt, RowAt
<1>6. PatientAt(s, Kind(s), Mine(s), Idx(s))'
  BY <1>4 DEF PatientAt, RowAt
<1>7. v = w + (IF ends THEN 1 ELSE 0)
  <2>1. refreshes' = refreshes /\ \A x \in Responses : x # r => pos'[x][s] = pos[x][s]
    BY DEF Chunked, Unmoved
  <2> QED
    BY <1>1, <1>2, <2>1, PassageStep
<1>8. w \in Nat /\ a \in Nat
  BY <1>1, WentCounts, GoodCounts
<1>9. t \in 0..1 /\ u \in 0..1 /\ u >= t /\ (made => u = t + 1)
  BY <1>1, TopGrows DEF ListOK
<1>10. w + p <= a + t
  BY DEF Unlost
<1>11. b = a + g /\ IF ends THEN next /\ (on => g = 1) ELSE on => (next \/ made)
  OBVIOUS
<1>12. v + q <= b + u
  <2> HIDE DEF ends, on, next, w, v, a, b, t, u, p, q, made
  <2>1. CASE ends
    <3>1. CASE on
      BY <1>2, <1>5, <1>7, <1>8, <1>9, <1>10, <1>11, <2>1, <3>1
    <3>2. CASE ~on
      BY <1>2, <1>5, <1>7, <1>8, <1>9, <1>10, <1>11, <2>1, <3>2
    <3> QED
      BY <3>1, <3>2
  <2>2. CASE ~ends
    <3>1. CASE on
      BY <1>2, <1>5, <1>7, <1>8, <1>9, <1>10, <1>11, <2>2, <3>1
    <3>2. CASE ~on
      BY <1>2, <1>5, <1>7, <1>8, <1>9, <1>10, <1>11, <2>2, <3>2
    <3> QED
      BY <3>1, <3>2
  <2> QED
    BY <2>1, <2>2
<1> QED
  BY <1>4, <1>6, <1>12 DEF Unlost

LEMMA FirstIsOther ==
  ASSUME NEW s \in Sites, 1 \in DOMAIN Page[s]
  PROVE  Page[s][1].tag = "other"
<1>1. Page[s] \in Seq(Event)
  BY ScraperAssumption
<1>2. Page[s] # <<>>
  BY <1>1
<1> QED
  BY <1>2, PagesAssumption

LEMMA TagUnlost ==
  ASSUME DInv, DInv', NEW r \in Responses, NEW s \in Sites, Chunked(r, s), Quiet(r, s),
         Unlost(s), pos'[r][s] = pos[r][s] + 1, rest'[r][s] = <<>>, inTag'[s] = 0,
         Here(r, s).tag # "#text", Opened(s, Here(r, s).tag)
  PROVE  Unlost(s)'
<1> DEFINE i == pos[r][s]
<1>1. IInv /\ IInv' /\ Known(s, Kind(s), Mine(s))
  BY DEF DInv, Booked
<1>2. /\ i \in DOMAIN Page[s] /\ PatientAt(s, Kind(s), Mine(s), i)
      /\ (s = "letsride" /\ Kind(s) = "none") => i = 1
  BY OrderlyPlace
<1>3. Here(r, s) = Page[s][i]
  BY DEF Here
<1>4. TagTo(s, Page[s][i].tag, Kind(s), Mine(s), Kind(s)', Mine(s)') /\ Callback(s)
  BY <1>1, <1>3, TagCounts
<1>5. Good(s)' = Good(s) + 0
  <2>1. Good(s) \in Nat
    BY <1>1, GoodCounts
  <2>2. Good(s)' = Good(s)
    BY <1>1, TagGains
  <2> QED
    BY <2>1, <2>2
<1>6. /\ PatientAt(s, Kind(s)', Mine(s)', i + 1)
      /\ OnAt(s, Kind(s), Mine(s), i) =>
           \/ OnAt(s, Kind(s)', Mine(s)', i + 1)
           \/ Kind(s) = "none" /\ Kind(s)' = "unfound"
      /\ (s = "letsride" /\ Kind(s) = "none") => Kind(s)' # "none"
      /\ (s = "letsride" /\ Kind(s)' = "none") => Kind(s) = "none"
  BY <1>1, <1>2, <1>3, <1>4, TagPasses
<1>7. s = "letsride" => Kind(s)' # "none"
  BY <1>6
<1>8. Page[s][i].tag # "#text"
  BY <1>3
<1> QED
  BY <1>4, <1>5, <1>6, <1>7, <1>8, PassedUnlost

LEMMA TextUnlost ==
  ASSUME DInv, DInv', NEW r \in Responses, NEW s \in Sites, Chunked(r, s), Quiet(r, s),
         Unlost(s), pos'[r][s] = pos[r][s] + 1, rest'[r][s] = <<>>, inTag'[s] = 0,
         Here(r, s).tag = "#text", OnText(s, Here(r, s).words)
  PROVE  Unlost(s)'
<1> DEFINE i == pos[r][s]
           words == Here(r, s).words
           g == Gains(s, words, Kind(s), Mine(s))
<1>1. IInv /\ IInv' /\ Known(s, Kind(s), Mine(s))
  BY DEF DInv, Booked
<1>2. /\ i \in DOMAIN Page[s] /\ PatientAt(s, Kind(s), Mine(s), i)
      /\ (s = "letsride" /\ Kind(s) = "none") => i = 1
  BY OrderlyPlace
<1>3. Here(r, s) = Page[s][i] /\ Page[s][i] \in Event /\ words = Page[s][i].words
  BY <1>2, Places DEF Here
<1>4. words \in Words
  BY <1>3 DEF Event
<1>5. TextTo(s, words, Kind(s), Mine(s), Kind(s)', Mine(s)') /\ Callback(s)
  BY <1>1, <1>4, TextCounts
<1>6. Good(s)' = Good(s) + g
  BY <1>1, <1>4, TextGains
<1>7. g \in 0..1
  BY DEF Gains
<1>8. Page[s][i].tag = "#text"
  BY <1>3
<1> HIDE DEF words
<1>9. /\ PatientAt(s, Kind(s)', Mine(s)', i + 1)
      /\ IF Place[s][i].step = Len(StepsOf(s))
         THEN /\ OnAt(s, Kind(s)', Mine(s)', i + 1)
              /\ OnAt(s, Kind(s), Mine(s), i) => g = 1
         ELSE OnAt(s, Kind(s), Mine(s), i) => OnAt(s, Kind(s)', Mine(s)', i + 1)
      /\ Kind(s)' = "none" => Kind(s) = "none"
  <2> DEFINE k == Kind(s)
             e == Mine(s)
             l == Kind(s)'
             f == Mine(s)'
  <2>1. Known(s, k, e) /\ TextTo(s, words, k, e, l, f) /\ PatientAt(s, k, e, i)
    BY <1>1, <1>2, <1>5
  <2> SUFFICES /\ PatientAt(s, l, f, i + 1)
               /\ IF Place[s][i].step = Len(StepsOf(s))
                  THEN /\ OnAt(s, l, f, i + 1)
                       /\ OnAt(s, k, e, i) => Gains(s, words, k, e) = 1
                  ELSE OnAt(s, k, e, i) => OnAt(s, l, f, i + 1)
               /\ l = "none" => k = "none"
    OBVIOUS
  <2> HIDE DEF k, e, l, f
  <2> QED
    <3>1. i \in DOMAIN Page[s] /\ words \in Words /\ words = Page[s][i].words
      BY <1>2, <1>3, <1>4
    <3> HIDE DEF i
    <3> QED
      BY <1>8, <2>1, <3>1, TextPasses
<1>10. s = "letsride" => Kind(s)' # "none"
  <2> SUFFICES ASSUME s = "letsride", Kind(s)' = "none" PROVE FALSE
    OBVIOUS
  <2>1. i = 1
    BY <1>2, <1>9
  <2> QED
    BY <1>2, <1>8, <2>1, FirstIsOther
<1> HIDE DEF g
<1> QED
  BY <1>5, <1>6, <1>7, <1>8, <1>9, <1>10, PassedUnlost

(* The first half of a tag.                                                *)
LEMMA HeldUnlost ==
  ASSUME DInv, DInv', NEW r \in Responses, NEW s \in Sites, Chunked(r, s), Quiet(r, s),
         Unlost(s), UNCHANGED siteVars, pos' = pos, inTag'[s] = r
  PROVE  Unlost(s)'
<1> DEFINE i == pos[r][s]
<1>1. IInv /\ IInv'
  BY DEF DInv
<1>2. /\ i \in DOMAIN Page[s] /\ r \in 1..refreshes /\ r # 0
      /\ inTag[s] \in {0, r} /\ Orderly(s)
      /\ (s = "letsride" /\ Kind(s) = "none") => i = 1
      /\ PatientAt(s, Kind(s), Mine(s), i)
      /\ Lag(s) = IF OnAt(s, Kind(s), Mine(s), i) THEN 0 ELSE 1
  BY OrderlyPlace DEF Unlost
<1>3. lastFed[s] # r => i = 1
  BY <1>1, QuietPlace DEF DInv, Booked, Orderly, Dirty, Unlost
<1>4. Orderly(s)' /\ Idx(s)' = i
  BY <1>1, <1>2, <1>3, OrderlyStays
<1>5. /\ Kind(s)' = Kind(s) /\ Mine(s)' = Mine(s) /\ Good(s)' = Good(s) /\ Top(s)' = Top(s)
  BY DEF siteVars, Kind, Mine, getMyState, Matches, Good, Spoiled, RowsOf, Top, First
<1>6. Went(s)' = Went(s)
  BY DEF Went, Passages, Chunked
<1>7. Lag(s)' = Lag(s) /\ PatientAt(s, Kind(s), Mine(s), Idx(s))'
  BY <1>2, <1>4, <1>5 DEF Lag, OnAt, RowAt, PatientAt
<1> QED
  BY <1>2, <1>4, <1>5, <1>6, <1>7 DEF Unlost

LEMMA OwnUnlost ==
  ASSUME NInv, DInv', NEW r \in Responses, NEW s \in Sites, Chunk(r, s), hits'[s] = 0
  PROVE  Unlost(s)'
<1> DEFINE i == pos[r][s]
<1>1. DInv /\ IInv /\ StreamOK(s)
  BY DEF NInv, DInv, Booked
<1>2. PICK n \in Nat : Feed(r, s, n)
  BY DEF Chunk, WholeEvent, SplitText, SplitTag, Remainder, Swallowed
<1>3. hits[s] = 0 /\ hits'[s] = hits[s]
  BY <1>1, <1>2, FeedIsQuiet
<1>4. Quiet(r, s) /\ ~\E m \in Nat : m # 0 /\ Feed(r, s, m)
  BY <1>1, <1>2, <1>3, FeedIsQuiet
<1>5. Unlost(s)
  BY <1>3 DEF NInv
<1>6. Chunked(r, s)
  BY <1>1, ChunkIs
<1>7. inTag[s] \in {0, r} /\ (inTag[s] = 0 => rest[r][s] = <<>>)
  BY <1>1, <1>4, <1>5, OrderlyPlace
<1>8. StreamsOK
  BY <1>1 DEF IInv, TypeOK, StreamsOK
<1>9. CASE WholeEvent(r, s)
  <2>1. inTag[s] = 0 /\ inTag'[s] = 0 /\ Passed(r, s)
    BY <1>9 DEF WholeEvent
  <2>2. pos'[r][s] = i + 1 /\ rest'[r][s] = <<>>
    BY <1>8, <2>1, PassedMoves DEF Goes1
  <2>3. CASE Here(r, s).tag = "#text"
    <3>1. OnText(s, Here(r, s).words)
      BY <1>9, <2>3 DEF WholeEvent
    <3> QED
      BY <1>1, <1>4, <1>5, <1>6, <2>1, <2>2, <2>3, <3>1, TextUnlost
  <2>4. CASE Here(r, s).tag # "#text"
    <3>1. Opened(s, Here(r, s).tag)
      BY <1>9, <2>4 DEF WholeEvent
    <3> QED
      BY <1>1, <1>4, <1>5, <1>6, <2>1, <2>2, <2>4, <3>1, TagUnlost
  <2> QED
    BY <2>3, <2>4
<1>10. CASE SplitText(r, s)
  <2>1. Feed(r, s, 1)
    BY <1>10 DEF SplitText
  <2> QED
    BY <1>4, <2>1
<1>11. CASE SplitTag(r, s)
  <2>1. UNCHANGED siteVars
    BY <1>4, <1>11 DEF SplitTag
  <2>2. inTag' = [inTag EXCEPT ![s] = r] /\ pos' = pos
    BY <1>11 DEF SplitTag
  <2>3. inTag'[s] = r
    BY <1>1, <2>2 DEF IInv, TypeOK
  <2> QED
    BY <1>1, <1>4, <1>5, <1>6, <2>1, <2>2, <2>3, HeldUnlost
<1>12. CASE Remainder(r, s)
  <2>1. /\ rest[r][s] # <<>> /\ inTag' = [inTag EXCEPT ![s] = 0] /\ Passed(r, s)
        /\ inTag[s] = r /\ Opened(s, Here(r, s).tag)
    BY <1>7, <1>12 DEF Remainder
  <2>2. pos'[r][s] = i + 1 /\ rest'[r][s] = <<>> /\ inTag'[s] = 0
    BY <1>1, <1>8, <2>1, PassedMoves DEF Goes1, IInv, TypeOK
  <2>3. Here(r, s).tag # "#text"
    BY <1>1, <2>1, ScraperAssumption DEF StreamOK, Responses
  <2> QED
    BY <1>1, <1>4, <1>5, <1>6, <2>1, <2>2, <2>3, TagUnlost
<1>13. CASE Swallowed(r, s)
  BY <1>7, <1>13 DEF Swallowed
<1> QED
  BY <1>9, <1>10, <1>11, <1>12, <1>13 DEF Chunk

(* What the chunks of another site's pages do.                             *)
LEMMA OtherGood ==
  ASSUME IInv, IInv', NEW r \in Responses, NEW s \in Sites, Chunk(r, s),
         NEW t \in Sites, t # s
  PROVE  Good(t)' = Good(t)
<1>1. CASE UNCHANGED siteVars
  BY <1>1 DEF siteVars, Good, Spoiled, RowsOf
<1>2. CASE \E tag : Opened(s, tag)
  BY <1>2, TagGains
<1>3. CASE \E words \in Words : OnText(s, words)
  BY <1>3, TextGains
<1> QED
  BY <1>1, <1>2, <1>3, ChunkGives

LEMMA HelpedStays ==
  ASSUME NEW s \in Sites, NEW e, Known(s, "unfound", e), NEW i, PatientAt(s, "unfound", e, i)
  PROVE  /\ PatientAt(s, "found", e, i)
         /\ OnAt(s, "unfound", e, i) => OnAt(s, "found", e, i)
<1>1. PICK c \in MadeIn(s) : e = Fresh(s, c)
  BY DEF Known
<1>2. c \in CurrStates
  BY MadeInIs
<1>3. e.currState = c /\ e.trackname = Empty
  BY <1>1, <1>2, FreshIs
<1>4. /\ s = "zoom" => e.currState \in {"start", "money"}
      /\ s = "letsride" => e.currState = "nostate"
      /\ s \in {"keigwin", "ptt"} => e.currState = "start"
  BY <1>3 DEF MadeIn
<1> QED
  BY <1>3, <1>4, SiteCases DEF PatientAt, OnAt, Patient, OnTime, Sync

LEMMA OtherUnlost ==
  ASSUME NInv, DInv', NEW r \in Responses, NEW s \in Sites, Chunk(r, s),
         NEW t \in Sites, t # s, hits'[t] = 0
  PROVE  Unlost(t)'
<1>1. DInv /\ IInv /\ IInv' /\ Known(t, Kind(t), Mine(t)) /\ Chunked(r, s) /\ ListOK /\ ListOK'
  <2>1. DInv /\ IInv /\ IInv' /\ Known(t, Kind(t), Mine(t))
    BY DEF NInv, DInv, Booked
  <2> QED
    BY <2>1, ChunkIs DEF IInv, TypeOK, ListOK, TypeStates
<1>2. PICK n \in Nat : Feed(r, s, n)
  BY DEF Chunk, WholeEvent, SplitText, SplitTag, Remainder, Swallowed
<1>3. hits'[t] = hits[t] /\ Unlost(t)
  <2>1. hits'[t] = hits[t]
    BY <1>1, <1>2, FeedIsQuiet
  <2> QED
    BY <2>1 DEF NInv
<1>4. Callback(s) /\ Good(t)' = Good(t)
  BY <1>1, HitStep, OtherGood
<1>5. /\ lastFed'[t] = lastFed[t] /\ inTag'[t] = inTag[t] /\ refreshes' = refreshes
      /\ \A q \in Responses : pos'[q][t] = pos[q][t] /\ rest'[q][t] = rest[q][t]
  BY <1>1 DEF Chunked, Unmoved, IInv, TypeOK
<1>6. lastFed[t] # 0 => lastFed[t] \in Responses
  <2>1. lastFed[t] \in 0..MaxRefresh
    BY <1>1 DEF IInv, TypeOK
  <2> QED
    BY <2>1, ScraperAssumption DEF Responses
<1>7. Orderly(t)' /\ Idx(t)' = Idx(t)
  BY <1>3, <1>5, <1>6 DEF Orderly, Unlost, Idx
<1>8. Went(t)' = Went(t)
  <2>1. \A q \in 1..refreshes : q \in Responses
    BY <1>1, ScraperAssumption DEF IInv, TypeOK, Responses
  <2>2. Passages(t)' = Passages(t)
    BY <1>5, <2>1 DEF Passages
  <2> QED
    BY <2>2 DEF Went
<1>9. Top(t) \in 0..1 /\ Top(t)' \in 0..1 /\ Top(t)' >= Top(t)
  BY <1>1, <1>4, TopGrows DEF ListOK
<1>10. Kept(t) \/ Helped(t)
  BY <1>1, <1>4, Elsewhere DEF ListOK
<1> DEFINE i == Idx(t)
<1>11. PatientAt(t, Kind(t)', Mine(t)', i)
  <2>1. PatientAt(t, Kind(t), Mine(t), i)
    BY <1>3 DEF Unlost
  <2>2. CASE Kept(t) /\ Kind(t) # "none"
    BY <2>1, <2>2 DEF Kept
  <2>3. CASE Kept(t) /\ Kind(t) = "none"
    BY <2>1, <2>3 DEF Kept, PatientAt, Patient
  <2>4. CASE Helped(t)
    <3>1. Kind(t) = "unfound" /\ Kind(t)' = "found" /\ Mine(t)' = Mine(t)
      BY <2>4 DEF Helped
    <3> QED
      BY <1>1, <2>1, <3>1, HelpedStays
  <2> QED
    BY <1>10, <2>2, <2>3, <2>4
<1>12. OnAt(t, Kind(t), Mine(t), i) => OnAt(t, Kind(t)', Mine(t)', i)
  <2>1. PatientAt(t, Kind(t), Mine(t), i)
    BY <1>3 DEF Unlost
  <2>2. CASE Kept(t) /\ Kind(t) # "none"
    BY <2>2 DEF Kept
  <2>3. CASE Kept(t) /\ Kind(t) = "none"
    BY <2>3 DEF Kept, OnAt, OnTime
  <2>4. CASE Helped(t)
    <3>1. Kind(t) = "unfound" /\ Kind(t)' = "found" /\ Mine(t)' = Mine(t)
      BY <2>4 DEF Helped
    <3> QED
      BY <1>1, <2>1, <3>1, HelpedStays
  <2> QED
    BY <1>10, <2>2, <2>3, <2>4
<1>13. PatientAt(t, Kind(t), Mine(t), Idx(t))'
  BY <1>7, <1>11 DEF PatientAt, RowAt
<1>14. Lag(t) \in 0..1 /\ Lag(t)' \in 0..1 /\ Lag(t)' <= Lag(t)
  <2>1. Lag(t) = IF OnAt(t, Kind(t), Mine(t), i) THEN 0 ELSE 1
    BY DEF Lag
  <2>2. Lag(t)' = IF OnAt(t, Kind(t)', Mine(t)', i) THEN 0 ELSE 1
    BY <1>7 DEF Lag, OnAt, RowAt
  <2> QED
    BY <1>12, <2>1, <2>2
<1>15. (t = "letsride" /\ Kind(t)' = "none") => Idx(t)' = 1
  <2>1. Kind(t)' = "none" => Kind(t) = "none"
    BY <1>10 DEF Kept, Helped
  <2> QED
    BY <1>3, <1>7, <2>1 DEF Unlost
<1>16. Went(t)' + Lag(t)' <= Good(t)' + Top(t)'
  <2> DEFINE w == Went(t)
             a == Good(t)
             p == Lag(t)
             q == Lag(t)'
             x == Top(t)
             y == Top(t)'
  <2>1. w \in Nat /\ a \in Nat /\ w + p <= a + x
    BY <1>1, <1>3, WentCounts, GoodCounts DEF Unlost
  <2> SUFFICES w + q <= a + y
    BY <1>4, <1>8
  <2>2. p \in 0..1 /\ q \in 0..1 /\ q <= p /\ x \in 0..1 /\ y \in 0..1 /\ y >= x
    BY <1>9, <1>14
  <2> HIDE DEF w, a, p, q, x, y
  <2> QED
    BY <2>1, <2>2
<1> QED
  BY <1>7, <1>13, <1>15, <1>16 DEF Unlost

LEMMA NextBooked ==
  ASSUME DInv, [Next]_vars PROVE DInv'
<1>1. IInv'
  BY NextIInv DEF DInv
<1>2. CASE Refresh \/ UNCHANGED vars
  BY <1>1, <1>2, RefreshBooked
<1>3. ASSUME NEW r \in Responses, NEW s \in Sites, Chunk(r, s) PROVE DInv'
  <2>1. ASSUME NEW t \in Sites PROVE Booked(t)'
    BY <1>1, <1>3, OwnBooked, OtherBooked
  <2> QED
    BY <1>1, <2>1 DEF DInv
<1> QED
  BY <1>2, <1>3 DEF Next

(* A scraper nothing has disturbed makes a row of every listing that goes  *)
(* by, but for the one the cold start of the list costs the site that made *)
(* the first entry: on every page of the scrapers' format, for any number  *)
(* of refreshes, wherever the tags are cut and whatever the other sites'   *)
(* callbacks do to the shared list.                                        *)
THEOREM NothingLostHolds == Spec => []NothingLost
<1>1. Init => NInv
  BY InitUnlost
<1>2. NInv /\ [Next]_vars => NInv'
  <2> SUFFICES ASSUME NInv, [Next]_vars PROVE NInv'
    OBVIOUS
  <2>1. DInv'
    BY NextBooked DEF NInv
  <2>2. CASE Refresh \/ UNCHANGED vars
    BY <2>1, <2>2, RefreshUnlost
  <2>3. ASSUME NEW r \in Responses, NEW s \in Sites, Chunk(r, s) PROVE NInv'
    <3>1. ASSUME NEW t \in Sites, hits'[t] = 0 PROVE Unlost(t)'
      BY <2>1, <2>3, <3>1, OwnUnlost, OtherUnlost
    <3> QED
      BY <2>1, <3>1 DEF NInv
  <2> QED
    BY <2>2, <2>3 DEF Next
<1>3. NInv => NothingLost
  <2> SUFFICES ASSUME NInv, NEW s \in Sites, hits[s] = 0
               PROVE  Good(s) >= Went(s) - Top(s)
    BY DEF NothingLost, Good, Went, Top
  <2>1. Went(s) + Lag(s) <= Good(s) + Top(s)
    BY DEF NInv, Unlost
  <2>2. Went(s) \in Nat /\ Good(s) \in Nat
    BY WentCounts, GoodCounts DEF NInv, DInv
  <2>3. Lag(s) \in 0..1 /\ Top(s) \in 0..1
    BY DEF Lag, Top
  <2> QED
    BY <2>1, <2>2, <2>3
<1> QED
  BY <1>1, <1>2, <1>3, PTL DEF Spec
=============================================================================
