------------------------------ MODULE TaskTree -------------------------------
(***************************************************************************)
(* The red-black tree of src/tree.h, generated for the sockets of          *)
(* src/cares_wrap.cc (RB_GENERATE_STATIC): RB_INSERT, RB_REMOVE, RB_FIND   *)
(* and what they call, pointer by pointer.  What the macros write twice,   *)
(* for left and for right, is written once for a side.                     *)
(***************************************************************************)
EXTENDS Integers, FiniteSets

CONSTANT Socks      \* socket numbers, which order the tree

VARIABLES
  tree,    \* rbh_root, and rbe_left, rbe_right, rbe_parent, rbe_color of each node
  tasks    \* history: the sockets that were inserted and not removed

rbvars == <<tree, tasks>>

Null == -1
Sides == {"left", "right"}
Other(s) == IF s = "left" THEN "right" ELSE "left"

Nodes == Socks \cup {Null}
Trees == [root : Nodes, kid : [Sides -> [Socks -> Nodes]], parent : [Socks -> Nodes],
          color : [Socks -> {"red", "black"}]]

Empty == [root |-> Null,
          kid |-> [s \in Sides |-> [n \in Socks |-> Null]],
          parent |-> [n \in Socks |-> Null],
          color |-> [n \in Socks |-> "red"]]

Red(t, n) == n # Null /\ t.color[n] = "red"
Paint(t, n, c) == IF n = Null THEN t ELSE [t EXCEPT !.color[n] = c]

(* Slip: the other is left as it was.                                      *)
SetBlack(t, black, red) == [t EXCEPT !.color[black] = "black"]

SetBlackRed(t, black, red) == [t EXCEPT !.color[black] = "black", !.color[red] = "red"]

SetParent(t, n, p) == IF n = Null THEN t ELSE [t EXCEPT !.parent[n] = p]
SideOf(t, up, n) == IF t.kid["left"][up] = n THEN "left" ELSE "right"

(* new takes the place of old under up, or at the root.                    *)
Replace(t, up, old, new) ==
  IF up = Null THEN [t EXCEPT !.root = new]
  ELSE [t EXCEPT !.kid[SideOf(t, up, old)][up] = new]

(* RB_ROTATE_LEFT and RB_ROTATE_RIGHT: elm goes down on side s.            *)
Rotate(t, elm, s) ==
  LET tmp == t.kid[Other(s)][elm]
      inner == t.kid[s][tmp]
      up == t.parent[elm]
      moved == SetParent([t EXCEPT !.kid[Other(s)][elm] = inner], inner, elm)
      placed == Replace([moved EXCEPT !.parent[tmp] = up], up, elm, tmp)
  IN  [placed EXCEPT !.kid[s][tmp] = elm, !.parent[elm] = tmp]

-----------------------------------------------------------------------------
(* Where the key is found, and else the node it would hang from.           *)
Search(t, key) ==
  LET From[n \in Nodes, up \in Nodes] ==
        IF n = Null \/ n = key THEN [at |-> n, up |-> up]
        ELSE From[t.kid[IF key < n THEN "left" ELSE "right"][n], n]
  IN  From[t.root, Null]

RB_FIND(t, key) == Search(t, key).at

RB_NFIND(t, key) ==
  LET From[n \in Nodes, res \in Nodes] ==
        IF n = Null \/ n = key THEN IF n = key THEN n ELSE res
        ELSE IF key < n THEN From[t.kid["left"][n], n]
             ELSE From[t.kid["right"][n], res]
  IN  From[t.root, Null]

Outermost(t, m, s) ==
  LET From[n \in Nodes] == IF n = Null \/ t.kid[s][n] = Null THEN n ELSE From[t.kid[s][n]]
  IN  From[m]

RB_MINMAX(t, s) == Outermost(t, t.root, s)

Climb(t, m, s) ==
  LET From[n \in Socks] ==
        IF t.parent[n] # Null /\ n = t.kid[s][t.parent[n]] THEN From[t.parent[n]] ELSE t.parent[n]
  IN  From[m]

(* RB_NEXT goes to the right, RB_PREV to the left.                         *)
Step(t, n, s) ==
  IF t.kid[s][n] # Null THEN Outermost(t, t.kid[s][n], Other(s)) ELSE Climb(t, n, s)

-----------------------------------------------------------------------------
InsertColor[t \in Trees, elm \in Nodes] ==
  LET parent == t.parent[elm] IN
  IF parent = Null \/ ~Red(t, parent) THEN Paint(t, t.root, "black")
  ELSE
    LET gparent == t.parent[parent]
        s == SideOf(t, gparent, parent)
        uncle == t.kid[Other(s)][gparent]
        bent == t.kid[Other(s)][parent] = elm
        straight == IF bent THEN Rotate(t, parent, s) ELSE t
        upper == IF bent THEN elm ELSE parent
        lower == IF bent THEN parent ELSE elm
    IN
    IF Red(t, uncle)
    THEN InsertColor[SetBlackRed(Paint(t, uncle, "black"), parent, gparent), gparent]
    ELSE InsertColor[Rotate(SetBlackRed(straight, upper, gparent), gparent, Other(s)), lower]

RB_INSERT(t, elm) ==
  LET found == Search(t, elm) IN
  IF found.at # Null THEN t
  ELSE
    LET set == [t EXCEPT !.parent[elm] = found.up, !.kid["left"][elm] = Null,
                         !.kid["right"][elm] = Null, !.color[elm] = "red"]
        hung == IF found.up = Null THEN [set EXCEPT !.root = elm]
                ELSE [set EXCEPT !.kid[IF elm < found.up THEN "left" ELSE "right"][found.up] = elm]
    IN  InsertColor[hung, elm]

-----------------------------------------------------------------------------
(* elm, under parent, has a black node too few above it.                   *)
RemoveColor[t \in Trees, parent \in Nodes, elm \in Nodes] ==
  IF Red(t, elm) \/ elm = t.root THEN Paint(t, elm, "black")
  ELSE
    LET s == SideOf(t, parent, elm)
        o == Other(s)
        first == t.kid[o][parent]
        u == IF Red(t, first) THEN Rotate(SetBlackRed(t, first, parent), parent, s) ELSE t
        tmp == u.kid[o][parent]
    IN
    IF ~Red(u, u.kid["left"][tmp]) /\ ~Red(u, u.kid["right"][tmp])
    THEN RemoveColor[Paint(u, tmp, "red"), u.parent[parent], parent]
    ELSE
      LET inner == u.kid[s][tmp]
          v == IF Red(u, u.kid[o][tmp]) THEN u
               ELSE Rotate(Paint(Paint(u, inner, "black"), tmp, "red"), tmp, o)
          top == v.kid[o][parent]
          w == Paint(Paint(Paint(v, top, v.color[parent]), parent, "black"), v.kid[o][top], "black")
          x == Rotate(w, parent, s)
      IN  Paint(x, x.root, "black")

(* At most one child, which takes the place of elm.                        *)
RemoveOne(t, elm) ==
  LET l == t.kid["left"][elm]
      child == IF l = Null THEN t.kid["right"][elm] ELSE l
      parent == t.parent[elm]
      u == Replace(SetParent(t, child, parent), parent, elm, child)
  IN  IF Red(t, elm) THEN u ELSE RemoveColor[u, parent, child]

(* Two children: the next node leaves its own place and takes old's.       *)
RemoveInner(t, old) ==
  LET elm == Outermost(t, t.kid["right"][old], "left")
      child == t.kid["right"][elm]
      up == t.parent[elm]
      a == Replace(SetParent(t, child, up), up, elm, child)
      parent == IF up = old THEN elm ELSE up
      b == [a EXCEPT !.kid["left"][elm] = a.kid["left"][old],
                     !.kid["right"][elm] = a.kid["right"][old],
                     !.parent[elm] = a.parent[old], !.color[elm] = a.color[old]]
      c == Replace(b, b.parent[old], old, elm)
      d == SetParent(SetParent(c, c.kid["left"][old], elm), c.kid["right"][old], elm)
  IN  IF Red(t, elm) THEN d ELSE RemoveColor[d, parent, child]

(* The node itself is freed once its poll handle is closed.                *)
Forget(t, n) ==
  [t EXCEPT !.kid["left"][n] = Null, !.kid["right"][n] = Null, !.parent[n] = Null,
            !.color[n] = "red"]

RB_REMOVE(t, old) ==
  Forget(IF t.kid["left"][old] # Null /\ t.kid["right"][old] # Null
         THEN RemoveInner(t, old) ELSE RemoveOne(t, old), old)

-----------------------------------------------------------------------------
Init == tree = Empty /\ tasks = {}

Insert(n) ==
  /\ RB_FIND(tree, n) = Null
  /\ tree' = RB_INSERT(tree, n) /\ tasks' = tasks \cup {n}

Remove(n) ==
  /\ RB_FIND(tree, n) = n
  /\ tree' = RB_REMOVE(tree, n) /\ tasks' = tasks \ {n}

Next == \E n \in Socks : Insert(n) \/ Remove(n)

Spec == Init /\ [][Next]_rbvars

-----------------------------------------------------------------------------
TypeOK == tree \in Trees /\ tasks \subseteq Socks

Below[n \in Nodes] ==
  IF n = Null THEN {} ELSE {n} \cup Below[tree.kid["left"][n]] \cup Below[tree.kid["right"][n]]

(* The black nodes on every way down, or -1 if the ways differ.            *)
BlackHeight[n \in Nodes] ==
  IF n = Null THEN 0
  ELSE LET l == BlackHeight[tree.kid["left"][n]]
           r == BlackHeight[tree.kid["right"][n]]
       IN  IF l = -1 \/ l # r THEN -1 ELSE l + (IF Red(tree, n) THEN 0 ELSE 1)

(* The nodes are the sockets, each where a search finds it, and the parent *)
(* pointers lead back.                                                     *)
Searchable ==
  /\ Below[tree.root] = tasks
  /\ \A n \in tasks :
       /\ \A m \in Below[tree.kid["left"][n]] : m < n
       /\ \A m \in Below[tree.kid["right"][n]] : m > n
       /\ \A s \in Sides : tree.kid[s][n] # Null => tree.parent[tree.kid[s][n]] = n
  /\ tree.root # Null => tree.parent[tree.root] = Null

(* No red node under a red one, the root black, the same number of black   *)
(* nodes on each way down: no way is longer than twice another.            *)
Balanced ==
  /\ ~Red(tree, tree.root) /\ BlackHeight[tree.root] # -1
  /\ \A n \in tasks : Red(tree, n) => \A s \in Sides : ~Red(tree, tree.kid[s][n])

(* What the queries answer, said of the set.                               *)
Least(S) == IF S = {} THEN Null ELSE CHOOSE m \in S : \A k \in S : m <= k
Greatest(S) == IF S = {} THEN Null ELSE CHOOSE m \in S : \A k \in S : m >= k

AnswersAsSet ==
  /\ RB_MINMAX(tree, "left") = Least(tasks) /\ RB_MINMAX(tree, "right") = Greatest(tasks)
  /\ \A k \in Socks : /\ RB_FIND(tree, k) = IF k \in tasks THEN k ELSE Null
                      /\ RB_NFIND(tree, k) = Least({m \in tasks : m >= k})
  /\ \A n \in tasks : /\ Step(tree, n, "right") = Least({m \in tasks : m > n})
                      /\ Step(tree, n, "left") = Greatest({m \in tasks : m < n})

(* Together: whatever sockets c-ares opens and closes, a search finds each *)
(* that is open, in a tree that stays balanced (src/tree.h).               *)
TreeIsTheSet == Searchable /\ Balanced /\ AnswersAsSet
=============================================================================
