----------------------------- MODULE MCScraper ------------------------------
(***************************************************************************)
(* Pages for model-checking Scraper: what the conditions and comments of   *)
(* the four scrapers expect a site to send.  Every page begins with a tag  *)
(* no scraper looks for, and holds NumListings track days.                 *)
(***************************************************************************)
EXTENDS Scraper, TLC, SequencesExt

CONSTANT NumListings

open(tag) == [tag |-> tag, words |-> <<>>]
text(words) == [tag |-> "#text", words |-> words]
close == open("close")

Title(s, l) == <<"title", s, l>>
Date(s, l) == <<"date", s, l>>
Cost(s, l) == <<"cost", s, l>>
Group(s, l) == <<"group", s, l>>

Block(s, l) ==
  CASE s = "zoom" ->
         <<open("category"), open("h1"), text(<<Title(s, l)>>), close,
           text(<<Date(s, l)>>), open("price"), text(<<Cost(s, l)>>)>>
    [] s = "letsride" ->
         <<open("name"), open("ayelshop"), text(<<Date(s, l), Title(s, l)>>),
           open("price"), text(<<Cost(s, l)>>)>>
    [] s = "keigwin" ->
         <<open("datatable"), open("roster"), text(<<Date(s, l), Frag(s)>>),
           open("td"), text(<<Title(s, l)>>), open("td"),
           text(<<Group(s, l)>>), open("td"), text(<<Cost(s, l)>>)>>
    [] s = "ptt" ->
         <<open("eb_title"), open("a"), text(<<Title(s, l), Date(s, l)>>),
           open("price"), text(<<Cost(s, l)>>)>>

MCPage ==
  [s \in Sites |->
     <<open("other")>> \o FlattenSeq([l \in 1..NumListings |-> Block(s, l)])]

MCListings ==
  [s \in Sites |->
     [l \in 1..NumListings |->
        [row |-> [name |-> Title(s, l), date |-> Date(s, l),
                  cost |-> Cost(s, l)],
         last |-> 1 + l * Len(Block(s, l))]]]

(* Where in the page an event is: after the first, which is another tag,   *)
(* the blocks follow each other.                                           *)
MCPlace ==
  [s \in Sites |->
     LET length == Len(Block(s, 1))
         before(n) == {k \in 1..(n - 1) : Block(s, 1)[k].tag # "close"}
     IN [i \in 1..(Len(MCPage[s]) + 1) |->
           IF i = 1 THEN [listing |-> 1, step |-> 1]
           ELSE [listing |-> (i - 2) \div length + 1,
                 step |-> Cardinality(before(((i - 2) % length) + 1)) + 1]]]
=============================================================================
