-------------------------- MODULE NodePartsProofs ---------------------------
(***************************************************************************)
(* Each part of NodeParts by itself: its inductive invariant, that every   *)
(* step keeps it, and what follows from it, for any values of the          *)
(* constants.  NodeCoreProofs draws the conclusions.                       *)
(***************************************************************************)
EXTENDS NodeParts, FiniteSetTheorems, SequenceTheorems, WellFoundedInduction,
        Integers, TLAPS

-----------------------------------------------------------------------------
(* slab_allocator.cc.                                                      *)

Area == [buf : Nat, size : Nat, at : Nat, len : Nat]

SlabTypes ==
  /\ slab \in Nat /\ made \in Nat /\ slab <= made /\ offset \in Nat
  /\ lastPtr \subseteq Nat
  /\ asked \in [Readers -> Area] /\ given \subseteq Area

(* A room is in a buffer that was made, and within it; one of the slab     *)
(* ends before offset_.                                                    *)
RoomFits(r) ==
  /\ r.buf <= made /\ r.buf # 0 /\ r.len # 0
  /\ r.at + r.len <= r.size
  /\ r.buf = slab => r.at + r.len <= offset

(* Before the room that last_ptr_ names lie all others of the slab.        *)
RoomPrecedes(r, spot) == r.buf = slab => r.at + r.len <= spot.at

Asking == {o \in Readers : asked[o] # Slb!NoRoom}

LastIsLast ==
  \A o \in Asking : Slb!IsLast(asked[o]) =>
    /\ lastPtr = {asked[o].at}
    /\ \A p \in Asking \ {o} : RoomPrecedes(asked[p], asked[o])
    /\ \A g \in given : RoomPrecedes(g, asked[o])

AllFit == (\A o \in Asking : RoomFits(asked[o])) /\ \A g \in given : RoomFits(g)

AllApart ==
  /\ \A o, p \in Asking : o # p => Slb!Apart(asked[o], asked[p])
  /\ \A o \in Asking, g \in given : Slb!Apart(asked[o], g)

SInv == SlabTypes /\ AllFit /\ LastIsLast /\ AllApart

(* Rounding up loses nothing.                                              *)
LEMMA RoundsUp == ASSUME NEW n \in Nat PROVE Slb!RoundUp(n, Slb!Align) \in Nat /\ n <= Slb!RoundUp(n, Slb!Align)
BY SMT DEF Slb!RoundUp, Slb!Align

(* A room that is given out where nothing lies: behind what the slab has,  *)
(* or in a buffer of its own.                                              *)
LEMMA NewRoom ==
  ASSUME SInv, NEW o \in Readers, NEW spot \in Area,
         asked[o] = Slb!NoRoom, asked' = [asked EXCEPT ![o] = spot], UNCHANGED given,
         slab' \in Nat, made' \in Nat, slab' <= made', made <= made', offset' \in Nat,
         lastPtr' \subseteq Nat,
         RoomFits(spot)',
         \/ slab' = slab /\ offset <= offset'
         \/ slab' > made,
         \/ spot.buf = slab /\ spot.at = offset
         \/ spot.buf > made,
         \/ spot.buf = slab' /\ lastPtr' = {spot.at}
         \/ spot.buf # slab' /\ slab' = slab /\ lastPtr' = lastPtr
  PROVE  SInv'
<1>1. spot # Slb!NoRoom /\ asked'[o] = spot /\ \A p \in Readers \ {o} : asked'[p] = asked[p]
  BY DEF RoomFits, Slb!NoRoom, Slb!Region, SInv, SlabTypes
<1>2. Asking' = Asking \cup {o} /\ o \notin Asking
  BY <1>1 DEF Asking
<1>3. SlabTypes'
  BY DEF SInv, SlabTypes
<1>4. \A p \in Asking : RoomFits(asked[p]) /\ asked[p] \in Area
  BY DEF SInv, AllFit, SlabTypes, Asking
<1>5. \A g \in given : RoomFits(g) /\ g \in Area
  BY DEF SInv, AllFit, SlabTypes
<1>6. ASSUME NEW r \in Area, RoomFits(r) PROVE RoomFits(r)' /\ Slb!Apart(spot, r) /\ Slb!Apart(r, spot)
  BY <1>6 DEF RoomFits, Slb!Apart, SInv, SlabTypes, Area
<1>7. AllFit'
  BY <1>1, <1>2, <1>4, <1>5, <1>6 DEF AllFit
<1>8. AllApart'
  BY <1>1, <1>2, <1>4, <1>5, <1>6 DEF AllApart, SInv
<1>9. LastIsLast'
  <2> SUFFICES ASSUME NEW p \in Asking', Slb!IsLast(asked[p])'
               PROVE  /\ lastPtr' = {asked'[p].at}
                      /\ \A q \in Asking' \ {p} : RoomPrecedes(asked[q], asked[p])'
                      /\ \A g \in given : RoomPrecedes(g, asked[p])'
    BY DEF LastIsLast
  <2>1. CASE spot.buf = slab'
    <3>1. p = o
      BY <2>1, <1>1, <1>2, <1>4 DEF Slb!IsLast, RoomFits, SInv, SlabTypes, Area
    <3>2. ASSUME NEW r \in Area, RoomFits(r) PROVE RoomPrecedes(r, spot)'
      BY <3>2, <2>1 DEF RoomPrecedes, RoomFits, SInv, SlabTypes, Area
    <3> QED
      BY <3>1, <3>2, <2>1, <1>1, <1>2, <1>4, <1>5 DEF RoomPrecedes
  <2>2. CASE spot.buf # slab' /\ slab' = slab /\ lastPtr' = lastPtr
    BY <2>2, <1>1, <1>2 DEF Slb!IsLast, LastIsLast, RoomPrecedes, SInv
  <2> QED
    BY <2>1, <2>2
<1> QED
  BY <1>3, <1>7, <1>8, <1>9 DEF SInv

LEMMA AllocateSInv ==
  ASSUME SInv, NEW o \in Readers, NEW size \in Sizes, Slb!Allocate(o, size)
  PROVE  SInv'
<1> size \in Nat /\ size # 0
  BY NodePartsAssumption
<1>1. /\ slab \in Nat /\ made \in Nat /\ slab <= made /\ offset \in Nat /\ lastPtr \subseteq Nat
      /\ SlabSize \in Nat
  BY NodePartsAssumption DEF SInv, SlabTypes
<1>2. CASE Slb!AllocateLarge(o, size)
  <2>0. PICK spot \in Area : spot = Slb!Region(made + 1, Slb!NewSlab(size), 0, size)
    <3>1. \A n \in Nat : Slb!NewSlab(n) \in Nat
      BY RoundsUp DEF Slb!NewSlab
    <3>2. Slb!Region(made + 1, Slb!NewSlab(size), 0, size) \in Area
      BY <1>1, <3>1 DEF Slb!Region, Area
    <3> QED
      BY <3>2
  <2>1. size <= Slb!NewSlab(size) /\ Slb!NewSlab(size) \in Nat
    BY <1>1, RoundsUp DEF Slb!NewSlab
  <2>2. RoomFits(spot)'
    BY <1>1, <1>2, <2>0, <2>1 DEF RoomFits, Slb!Region, Slb!AllocateLarge
  <2>3. asked[o] = Slb!NoRoom /\ asked' = [asked EXCEPT ![o] = spot] /\ UNCHANGED given
    BY <1>2, <2>0 DEF Slb!AllocateLarge, Slb!Allocate
  <2>4. /\ slab' \in Nat /\ made' \in Nat /\ slab' <= made' /\ made <= made' /\ offset' \in Nat
        /\ lastPtr' \subseteq Nat 
        /\ \/ slab' = slab /\ offset <= offset'
           \/ slab' > made
    BY <1>1, <1>2 DEF Slb!AllocateLarge
  <2>5. /\ \/ spot.buf = slab /\ spot.at = offset
           \/ spot.buf > made
        /\ \/ spot.buf = slab' /\ lastPtr' = {spot.at}
           \/ spot.buf # slab' /\ slab' = slab /\ lastPtr' = lastPtr
    BY <1>1, <1>2, <2>0 DEF Slb!AllocateLarge, Slb!Region
  <2> QED
    BY <2>1, <2>2, <2>3, <2>4, <2>5, NewRoom
<1>3. CASE Slb!AllocateHere(o, size)
  <2>0. PICK spot \in Area : spot = Slb!Region(slab, Slb!NewSlab(SlabSize), offset, size)
    <3>1. \A n \in Nat : Slb!NewSlab(n) \in Nat
      BY RoundsUp DEF Slb!NewSlab
    <3>2. Slb!Region(slab, Slb!NewSlab(SlabSize), offset, size) \in Area
      BY <1>1, <3>1 DEF Slb!Region, Area
    <3> QED
      BY <3>2
  <2>1. SlabSize <= Slb!NewSlab(SlabSize) /\ Slb!NewSlab(SlabSize) \in Nat
    BY <1>1, RoundsUp DEF Slb!NewSlab
  <2>2. RoomFits(spot)'
    BY <1>1, <1>3, <2>0, <2>1 DEF RoomFits, Slb!Region, Slb!AllocateHere
  <2>3. asked[o] = Slb!NoRoom /\ asked' = [asked EXCEPT ![o] = spot] /\ UNCHANGED given
    BY <1>3, <2>0 DEF Slb!AllocateHere, Slb!Allocate
  <2>4. /\ slab' \in Nat /\ made' \in Nat /\ slab' <= made' /\ made <= made' /\ offset' \in Nat
        /\ lastPtr' \subseteq Nat 
        /\ \/ slab' = slab /\ offset <= offset'
           \/ slab' > made
    BY <1>1, <1>3 DEF Slb!AllocateHere
  <2>5. /\ \/ spot.buf = slab /\ spot.at = offset
           \/ spot.buf > made
        /\ \/ spot.buf = slab' /\ lastPtr' = {spot.at}
           \/ spot.buf # slab' /\ slab' = slab /\ lastPtr' = lastPtr
    BY <1>1, <1>3, <2>0 DEF Slb!AllocateHere, Slb!Region
  <2> QED
    BY <2>1, <2>2, <2>3, <2>4, <2>5, NewRoom
<1>4. CASE Slb!AllocateNew(o, size)
  <2>0. PICK spot \in Area : spot = Slb!Region(made + 1, Slb!NewSlab(SlabSize), 0, size)
    <3>1. \A n \in Nat : Slb!NewSlab(n) \in Nat
      BY RoundsUp DEF Slb!NewSlab
    <3>2. Slb!Region(made + 1, Slb!NewSlab(SlabSize), 0, size) \in Area
      BY <1>1, <3>1 DEF Slb!Region, Area
    <3> QED
      BY <3>2
  <2>1. SlabSize <= Slb!NewSlab(SlabSize) /\ Slb!NewSlab(SlabSize) \in Nat
    BY <1>1, RoundsUp DEF Slb!NewSlab
  <2>2. RoomFits(spot)'
    BY <1>1, <1>4, <2>0, <2>1 DEF RoomFits, Slb!Region, Slb!AllocateNew
  <2>3. asked[o] = Slb!NoRoom /\ asked' = [asked EXCEPT ![o] = spot] /\ UNCHANGED given
    BY <1>4, <2>0 DEF Slb!AllocateNew, Slb!Allocate
  <2>4. /\ slab' \in Nat /\ made' \in Nat /\ slab' <= made' /\ made <= made' /\ offset' \in Nat
        /\ lastPtr' \subseteq Nat 
        /\ \/ slab' = slab /\ offset <= offset'
           \/ slab' > made
    BY <1>1, <1>4 DEF Slb!AllocateNew
  <2>5. /\ \/ spot.buf = slab /\ spot.at = offset
           \/ spot.buf > made
        /\ \/ spot.buf = slab' /\ lastPtr' = {spot.at}
           \/ spot.buf # slab' /\ slab' = slab /\ lastPtr' = lastPtr
    BY <1>1, <1>4, <2>0 DEF Slb!AllocateNew, Slb!Region
  <2> QED
    BY <2>1, <2>2, <2>3, <2>4, <2>5, NewRoom
<1> QED
  BY <1>2, <1>3, <1>4 DEF Slb!Allocate

(* What a read leaves goes back, or stays with the bytes that were read.   *)
LEMMA ShrinkSInv ==
  ASSUME SInv, NEW o \in Readers, NEW nread \in Nat, Slb!Shrink(o, nread)
  PROVE  SInv'
<1>0. PICK spot \in Area : spot = asked[o]
  BY DEF SInv, SlabTypes
<1>k. PICK kept \in Area : kept = [spot EXCEPT !.len = nread]
  BY DEF Area
<1>1. /\ o \in Asking /\ spot \in Area /\ RoomFits(spot) /\ nread <= spot.len
      /\ slab' = slab /\ made' = made
      /\ slab \in Nat /\ made \in Nat /\ offset \in Nat /\ lastPtr \subseteq Nat
  BY <1>0 DEF Slb!Shrink, Asking, SInv, SlabTypes, AllFit
<1>2. Asking' = Asking \ {o} /\ \A p \in Readers \ {o} : asked'[p] = asked[p]
  BY DEF Slb!Shrink, Asking, SInv, SlabTypes
<1>3. kept \in Area /\ kept.buf = spot.buf /\ kept.size = spot.size /\ kept.at = spot.at
      /\ kept.len = nread
  BY <1>1, <1>k DEF Area
<1>4. given' = given \/ (nread # 0 /\ given' = given \cup {kept})
  BY <1>0, <1>k DEF Slb!Shrink
<1>5. \A p \in Asking : asked[p] \in Area /\ RoomFits(asked[p])
  BY DEF SInv, AllFit, SlabTypes, Asking
<1>6. \A g \in given : g \in Area /\ RoomFits(g)
  BY DEF SInv, AllFit, SlabTypes
<1>7. Slb!RoundUp(nread, Slb!Align) \in Nat /\ nread <= Slb!RoundUp(nread, Slb!Align)
  BY RoundsUp
<1>8. SlabTypes'
  <2>1. offset' \in Nat /\ lastPtr' \subseteq Nat
    BY <1>0, <1>1, <1>7 DEF Slb!Shrink, Area
  <2>2. asked' \in [Readers -> Area]
    BY DEF Slb!Shrink, SInv, SlabTypes, Slb!NoRoom, Slb!Region, Area
  <2> QED
    BY <1>1, <1>3, <1>4, <2>1, <2>2 DEF SlabTypes, SInv
<1>9. AllApart'
  <2>1. ASSUME NEW r \in Area, Slb!Apart(r, spot) PROVE Slb!Apart(r, kept)
    BY <2>1, <1>1, <1>3 DEF Slb!Apart, Area
  <2> QED
    BY <1>0, <1>1, <1>2, <1>4, <1>5, <2>1 DEF AllApart, SInv, Asking
<1>10. CASE Slb!IsLast(spot)
  <2>1. lastPtr' = {} /\ offset' = spot.at + Slb!RoundUp(nread, Slb!Align)
    BY <1>0, <1>10 DEF Slb!Shrink
  <2>2. ASSUME NEW r \in Area, RoomFits(r), RoomPrecedes(r, spot) PROVE RoomFits(r)'
    BY <2>2, <2>1, <1>1, <1>7 DEF RoomFits, RoomPrecedes, Area
  <2>3. nread # 0 => RoomFits(kept)'
    BY <2>1, <1>1, <1>3, <1>7 DEF RoomFits, Area
  <2>4. AllFit'
    BY <1>0, <1>1, <1>2, <1>4, <1>5, <1>6, <1>10, <2>2, <2>3 DEF AllFit, LastIsLast, SInv, Asking
  <2>5. LastIsLast'
    BY <2>1 DEF LastIsLast, Slb!IsLast
  <2> QED
    BY <1>8, <1>9, <2>4, <2>5 DEF SInv
<1>11. CASE ~Slb!IsLast(spot)
  <2>1. lastPtr' = lastPtr /\ offset' = offset
    BY <1>0, <1>11 DEF Slb!Shrink
  <2>2. nread # 0 => RoomFits(kept)'
    BY <2>1, <1>1, <1>3 DEF RoomFits, Area
  <2>3. \A r : RoomFits(r)' = RoomFits(r)
    BY <2>1, <1>1 DEF RoomFits
  <2>4. AllFit'
    BY <1>1, <1>2, <1>4, <1>5, <1>6, <2>2, <2>3 DEF AllFit, Asking
  <2>5. ASSUME NEW r \in Area, RoomPrecedes(spot, r) PROVE RoomPrecedes(kept, r)
    BY <2>5, <1>1, <1>3 DEF RoomPrecedes, Area
  <2>6. ASSUME NEW p \in Asking', Slb!IsLast(asked'[p])
        PROVE  /\ lastPtr = {asked'[p].at}
               /\ \A q \in Asking' \ {p} : RoomPrecedes(asked'[q], asked'[p])
               /\ \A g \in given' : RoomPrecedes(g, asked'[p])
    <3>1. p \in Asking /\ p # o /\ asked'[p] = asked[p]
      BY <1>2 DEF Asking
    <3>2. /\ lastPtr = {asked[p].at} /\ RoomPrecedes(spot, asked[p])
          /\ \A q \in Asking \ {p} : RoomPrecedes(asked[q], asked[p])
          /\ \A g \in given : RoomPrecedes(g, asked[p])
      BY <1>0, <1>1, <2>6, <3>1 DEF LastIsLast, SInv
    <3>3. RoomPrecedes(kept, asked[p])
      BY <1>5, <2>5, <3>1, <3>2
    <3>4. \A q \in Asking' \ {p} : q \in Asking \ {p} /\ asked'[q] = asked[q]
      BY <1>2 DEF Asking
    <3> QED
      BY <1>4, <3>1, <3>2, <3>3, <3>4
  <2>7. LastIsLast'
    BY <1>1, <2>1, <2>6 DEF LastIsLast, Slb!IsLast, RoomPrecedes
  <2> QED
    BY <1>8, <1>9, <2>4, <2>7 DEF SInv
<1> QED
  BY <1>10, <1>11

LEMMA InitSInv == Slb!Init => SInv
BY DEF Slb!Init, SInv, SlabTypes, AllFit, LastIsLast, AllApart, Asking, Slb!NoRoom, Slb!Region, Area

LEMMA NextSInv == ASSUME SInv, [Slb!Next]_slabVars PROVE SInv'
<1>1. ASSUME NEW o \in Readers, NEW size \in Sizes, Slb!Allocate(o, size) PROVE SInv'
  BY <1>1, AllocateSInv
<1>2. ASSUME NEW o \in Readers, NEW nread \in {0, 7} \cup Sizes, Slb!Shrink(o, nread) PROVE SInv'
  BY <1>2, ShrinkSInv, NodePartsAssumption
<1>3. CASE UNCHANGED slabVars
  BY <1>3 DEF slabVars, SInv, SlabTypes, AllFit, RoomFits, LastIsLast, RoomPrecedes, Slb!IsLast, AllApart, Asking
<1> QED
  BY <1>1, <1>2, <1>3 DEF Slb!Next

LEMMA SlabRoomsApart == SInv => Slb!RoomsApart
BY DEF SInv, Slb!RoomsApart, AllApart, AllFit, RoomFits, Slb!Rooms, Asking, SlabTypes, Area

-----------------------------------------------------------------------------
(* Requests of node_crypto.cc: whose the memory is.                        *)

JobUntouched(j) ==
  /\ jobj[j] = "empty" /\ jinput[j] = "none" /\ joutput[j] = "none"
  /\ jreq[j] = "none" /\ janswer[j] = 0

(* A request under way has its own memory, and only pbkdf2 has an input.   *)
JobUnderWay(j) ==
  /\ jreq[j] = "held" /\ joutput[j] = "held" /\ janswer[j] = 0
  /\ jobj[j] # "disposed" /\ jinput[j] # "freed"
  /\ \/ jwhat[j] = "pbkdf2"
     \/ jwhat[j] = "random" /\ jinput[j] = "none"

JobOver(j) ==
  /\ janswer[j] = 1 /\ jreq[j] # "held" /\ jinput[j] \in {"none", "freed"}
  /\ jobj[j] # "held" /\ joutput[j] # "held"
  /\ joutput[j] = "buffer" <=> jwhat[j] = "random" /\ ~jfailed[j]

(* Where a request is says whose its memory is; after its bytes were       *)
(* collected nothing more is done with it.                                 *)
JobOwned(j) ==
  /\ jstate[j] = "new" => JobUntouched(j)
  /\ jstate[j] \in {"queued", "working", "worked"} => JobUnderWay(j)
  /\ jstate[j] = "answered" => JobOver(j)
  /\ jstate[j] = "collected" => joutput[j] = "freed" /\ janswer[j] = 1

JInv == Job!TypeOK /\ \A j \in Jobs : JobOwned(j)

JobKept(k) ==
  /\ jwhat'[k] = jwhat[k] /\ jstate'[k] = jstate[k] /\ jfailed'[k] = jfailed[k]
  /\ jobj'[k] = jobj[k] /\ jinput'[k] = jinput[k] /\ joutput'[k] = joutput[k]
  /\ jreq'[k] = jreq[k] /\ janswer'[k] = janswer[k]

LEMMA JobKeptOwned == ASSUME NEW k \in Jobs, JobKept(k), JobOwned(k) PROVE JobOwned(k)'
BY DEF JobKept, JobOwned, JobUntouched, JobUnderWay, JobOver

(* A step of one request leaves the others alone.                          *)
LEMMA OneJobAtATime ==
  ASSUME JInv, NEW j \in Jobs, Job!TypeOK', JobOwned(j)', \A k \in Jobs \ {j} : JobKept(k)
  PROVE  JInv'
BY JobKeptOwned DEF JInv

LEMMA AskJInv ==
  ASSUME JInv, NEW j \in Jobs, NEW what \in {"pbkdf2", "random"}, NEW async \in BOOLEAN,
         Job!Ask(j, what, async)
  PROVE  JInv'
<1>1. Job!TypeOK'
  BY DEF Job!Ask, JInv, Job!TypeOK
<1>2. JobOwned(j)'
  <2>1. JobUntouched(j)
    BY DEF Job!Ask, JInv, JobOwned
  <2>2. jstate'[j] = "queued" /\ JobUnderWay(j)'
    BY <2>1 DEF Job!Ask, JInv, Job!TypeOK, JobUntouched, JobUnderWay
  <2> QED
    BY <2>2 DEF JobOwned
<1>3. \A k \in Jobs \ {j} : JobKept(k)
  BY DEF Job!Ask, JInv, Job!TypeOK, JobKept
<1> QED
  BY <1>1, <1>2, <1>3, OneJobAtATime

LEMMA PBKDF2ThrowsJInv == ASSUME JInv, NEW j \in Jobs, Job!PBKDF2Throws(j) PROVE JInv'
<1>1. Job!TypeOK'
  BY DEF Job!PBKDF2Throws, JInv, Job!TypeOK
<1>2. JobOwned(j)'
  <2>1. JobUntouched(j)
    BY DEF Job!PBKDF2Throws, JInv, JobOwned
  <2>2. jstate'[j] = "answered" /\ JobOver(j)'
    BY <2>1 DEF Job!PBKDF2Throws, JInv, Job!TypeOK, JobUntouched, JobOver
  <2> QED
    BY <2>2 DEF JobOwned
<1>3. \A k \in Jobs \ {j} : JobKept(k)
  BY DEF Job!PBKDF2Throws, JInv, Job!TypeOK, JobKept
<1> QED
  BY <1>1, <1>2, <1>3, OneJobAtATime

(* A thread takes a request, or is done with one.                          *)
LEMMA WorkJInv ==
  ASSUME JInv, NEW j \in Jobs, Job!Begin(j) \/ Job!EIO_PBKDF2(j) \/ Job!RandomBytesWork(j)
  PROVE  JInv'
<1>1. Job!TypeOK'
  BY DEF Job!Begin, Job!EIO_PBKDF2, Job!RandomBytesWork, JInv, Job!TypeOK
<1>2. JobOwned(j)'
  <2>1. JobUnderWay(j)
    BY DEF Job!Begin, Job!EIO_PBKDF2, Job!RandomBytesWork, JInv, JobOwned
  <2>2. jstate'[j] \in {"working", "worked"}
    BY DEF Job!Begin, Job!EIO_PBKDF2, Job!RandomBytesWork, JInv, Job!TypeOK
  <2>3. JobUnderWay(j)'
    BY <2>1 DEF Job!Begin, Job!EIO_PBKDF2, Job!RandomBytesWork, JInv, Job!TypeOK, JobUnderWay
  <2> QED
    BY <2>2, <2>3 DEF JobOwned
<1>3. \A k \in Jobs \ {j} : JobKept(k)
  BY DEF Job!Begin, Job!EIO_PBKDF2, Job!RandomBytesWork, JInv, Job!TypeOK, JobKept
<1> QED
  BY <1>1, <1>2, <1>3, OneJobAtATime

LEMMA AfterJInv ==
  ASSUME JInv, NEW j \in Jobs, Job!EIO_PBKDF2After(j) \/ Job!RandomBytesAfter(j)
  PROVE  JInv'
<1>1. JobUnderWay(j)
  BY DEF Job!EIO_PBKDF2After, Job!RandomBytesAfter, JInv, JobOwned
<1>2. Job!TypeOK'
  BY <1>1 DEF Job!EIO_PBKDF2After, Job!RandomBytesAfter, Job!Answered, JInv, Job!TypeOK, JobUnderWay
<1>3. JobOwned(j)'
  <2>1. jstate'[j] = "answered"
    BY DEF Job!EIO_PBKDF2After, Job!RandomBytesAfter, Job!Answered, JInv, Job!TypeOK
  <2>2. /\ janswer'[j] = 1 /\ jreq'[j] = "freed" /\ jobj'[j] # "held"
        /\ jwhat'[j] = jwhat[j] /\ jfailed'[j] = jfailed[j]
    BY <1>1 DEF Job!EIO_PBKDF2After, Job!RandomBytesAfter, Job!Answered, JInv, Job!TypeOK, JobUnderWay
  <2>3. CASE Job!EIO_PBKDF2After(j)
    <3>1. jwhat'[j] = "pbkdf2" /\ jinput'[j] = "freed" /\ joutput'[j] = "freed"
      BY <2>3 DEF Job!EIO_PBKDF2After, JInv, Job!TypeOK
    <3> QED
      BY <2>1, <2>2, <3>1 DEF JobOwned, JobOver
  <2>4. CASE Job!RandomBytesAfter(j)
    <3>1. jwhat'[j] = "random" /\ jinput'[j] = "none"
      BY <1>1, <2>4 DEF Job!RandomBytesAfter, JInv, Job!TypeOK, JobUnderWay
    <3>2. joutput'[j] = IF jfailed[j] THEN "freed" ELSE "buffer"
      BY <2>4 DEF Job!RandomBytesAfter, JInv, Job!TypeOK
    <3> QED
      BY <2>1, <2>2, <3>1, <3>2 DEF JobOwned, JobOver
  <2> QED
    BY <2>3, <2>4
<1>4. \A k \in Jobs \ {j} : JobKept(k)
  BY DEF Job!EIO_PBKDF2After, Job!RandomBytesAfter, Job!Answered, JInv, Job!TypeOK, JobKept
<1> QED
  BY <1>2, <1>3, <1>4, OneJobAtATime

LEMMA RandomBytesFreeJInv == ASSUME JInv, NEW j \in Jobs, Job!RandomBytesFree(j) PROVE JInv'
<1>1. Job!TypeOK'
  BY DEF Job!RandomBytesFree, JInv, Job!TypeOK
<1>2. jstate[j] = "answered" /\ JobOver(j)
  BY DEF Job!RandomBytesFree, JInv, Job!TypeOK, JobOwned, JobUntouched, JobUnderWay
<1>3. JobOwned(j)'
  BY <1>2 DEF Job!RandomBytesFree, JInv, Job!TypeOK, JobOwned, JobOver
<1>4. \A k \in Jobs \ {j} : JobKept(k)
  BY DEF Job!RandomBytesFree, JInv, Job!TypeOK, JobKept
<1> QED
  BY <1>1, <1>3, <1>4, OneJobAtATime

LEMMA InitJInv == Job!Init => JInv
BY DEF Job!Init, JInv, Job!TypeOK, JobOwned, JobUntouched

LEMMA NextJInv == ASSUME JInv, [Job!Next]_jobsVars PROVE JInv'
<1>1. ASSUME NEW j \in Jobs, NEW async \in BOOLEAN, Job!PBKDF2(j, async) \/ Job!RandomBytes(j, async)
      PROVE  JInv'
  BY <1>1, AskJInv DEF Job!PBKDF2, Job!RandomBytes
<1>2. ASSUME NEW j \in Jobs, Job!PBKDF2Throws(j) PROVE JInv'
  BY <1>2, PBKDF2ThrowsJInv
<1>3. ASSUME NEW j \in Jobs, Job!Begin(j) \/ Job!EIO_PBKDF2(j) \/ Job!RandomBytesWork(j) PROVE JInv'
  BY <1>3, WorkJInv
<1>4. ASSUME NEW j \in Jobs, Job!EIO_PBKDF2After(j) \/ Job!RandomBytesAfter(j) PROVE JInv'
  BY <1>4, AfterJInv
<1>5. ASSUME NEW j \in Jobs, Job!RandomBytesFree(j) PROVE JInv'
  BY <1>5, RandomBytesFreeJInv
<1>6. CASE UNCHANGED jobsVars
  BY <1>6 DEF jobsVars, JInv, Job!TypeOK, JobOwned, JobUntouched, JobUnderWay, JobOver
<1> QED
  BY <1>1, <1>2, <1>3, <1>4, <1>5, <1>6 DEF Job!Next

LEMMA JobsOwnTheirMemory == JInv => Job!RequestsOwnTheirMemory
BY DEF JInv, JobOwned, JobUnderWay, JobOver, Job!RequestsOwnTheirMemory

-----------------------------------------------------------------------------
(* handle_wrap.cc, req_wrap.h and the wraps.                               *)

(* What libuv knows is live, and handle__ and initialized_ are of a handle *)
(* that is open.                                                           *)
HandlesHeld ==
  \A h \in Handles :
    /\ uv[h] \in {"open", "closing"} => wrap[h] = "live"
    /\ handle[h] => uv[h] = "open" \/ (kind[h] = "fsevent" /\ uv[h] = "none")
    /\ started[h] => kind[h] = "fsevent" /\ uv[h] = "open"
    /\ wrap[h] = "freed" => ~started[h] /\ ~handle[h]

(* A request is on a handle that libuv has, and what it sends is not       *)
(* closed before it is sent.                                               *)
RequestsHeld ==
  \A r \in Reqs :
    /\ req[r] # Hdl!Free => req[r].on \in Handles /\ uv[req[r].on] \in {"open", "closing"}
    /\ req[r].sends # Hdl!NoHandle =>
         /\ req[r].sends \in Handles /\ uv[req[r].sends] = "open"
         /\ kind[req[r].sends] \in {"tcp", "pipe", "udp"}

(* What the C++ function goes on with is there; OnClose's handle is closed.*)
FrameHeld ==
  /\ frame.h # Hdl!NoHandle => frame.h \in Handles /\ wrap[frame.h] = "live"
  /\ frame.cb = "OnClose" => frame.h \in Handles /\ uv[frame.h] = "closed"
  /\ frame.r # Hdl!NoReq => frame.r \in Reqs /\ req[frame.r].what = "calling"

HInv == Hdl!TypeOK /\ HandlesHeld /\ RequestsHeld /\ FrameHeld

Busy == {"idle", "connecting", "connected", "reading", "listening", "running"}
Callbacks == {"OnRead", "OnConnection", "OnRecv", "OnTimeout", "OnSignal", "OnExit", "OnEvent"}

(* JavaScript goes on, or is called on behalf of an open handle.           *)
Called ==
  \E cb \in Callbacks, g \in Handles :
    uv[g] = "open" /\ frame' = Hdl!Frame(cb, g, Hdl!NoReq)

LEMMA CalledFrame ==
  ASSUME HInv, UNCHANGED frame \/ Called,
         \A g \in Handles : uv[g] = "open" => wrap'[g] = "live",
         \A g \in Handles : wrap[g] = "live" => wrap'[g] = "live",
         \A g \in Handles : uv[g] = "closed" /\ wrap[g] = "live" => uv'[g] = "closed",
         \A r \in Reqs : req[r].what = "calling" => req'[r].what = "calling"
  PROVE  /\ FrameHeld'
         /\ frame' \in [cb : {"loop", "main", "OnClose", "OnRead", "After", "OnConnection",
                              "OnRecv", "OnTimeout", "OnSignal", "OnExit", "OnEvent"},
                        h : Handles \cup {Hdl!NoHandle}, r : Reqs \cup {Hdl!NoReq}]
<1>1. CASE UNCHANGED frame
  <2>1. FrameHeld'
    BY <1>1, NoneAssumption DEF HInv, FrameHeld
  <2> QED
    BY <1>1, <2>1 DEF HInv, Hdl!TypeOK
<1>2. CASE Called
  <2>1. PICK cb \in Callbacks, g \in Handles :
          uv[g] = "open" /\ frame' = [cb |-> cb, h |-> g, r |-> Hdl!NoReq]
    BY <1>2 DEF Called, Hdl!Frame
  <2>2. FrameHeld'
    BY <2>1 DEF FrameHeld, Callbacks
  <2> QED
    BY <2>1, <2>2 DEF Callbacks
<1> QED
  BY <1>1, <1>2

(* Only what a handle does changes.                                        *)
LEMMA QuietHInv ==
  ASSUME HInv, UNCHANGED <<kind, wrap, handle, uv, started, req>>, UNCHANGED frame \/ Called,
         hflags' \in [Handles -> SUBSET {"unref", "close"}], busy' \in [Handles -> Busy]
  PROVE  HInv'
<1>1. \A g \in Handles : uv[g] = "open" => wrap[g] = "live"
  BY DEF HInv, HandlesHeld
<1>2. Hdl!TypeOK' /\ FrameHeld'
  <2>1. /\ FrameHeld'
        /\ frame' \in [cb : {"loop", "main", "OnClose", "OnRead", "After", "OnConnection",
                              "OnRecv", "OnTimeout", "OnSignal", "OnExit", "OnEvent"},
                        h : Handles \cup {Hdl!NoHandle}, r : Reqs \cup {Hdl!NoReq}]
    BY <1>1, CalledFrame
  <2> QED
    BY <2>1 DEF HInv, Hdl!TypeOK, Busy
<1>3. HandlesHeld' /\ RequestsHeld'
  BY DEF HInv, HandlesHeld, RequestsHeld
<1> QED
  BY <1>2, <1>3 DEF HInv

(* A wrapper is made: of a handle that libuv did not know.                 *)
LEMMA WrapHInv ==
  ASSUME HInv, NEW h \in Handles, NEW k \in Hdl!Kinds, NEW ptr \in BOOLEAN,
         NEW u \in {"open", "none"}, NEW b \in Busy, Hdl!HandleWrap(h, k, ptr, u, b),
         ptr => u = "open" \/ k = "fsevent",
         UNCHANGED <<hflags, started, req>>, UNCHANGED frame \/ Called
  PROVE  HInv'
<1>1. \A g \in Handles : uv[g] = "open" => wrap[g] = "live"
  BY DEF HInv, HandlesHeld
<1>2. /\ wrap[h] = "none" /\ \A g \in Handles : wrap'[g] = IF g = h THEN "live" ELSE wrap[g]
      /\ \A g \in Handles : uv'[g] = IF g = h THEN u ELSE uv[g]
      /\ \A g \in Handles : kind'[g] = IF g = h THEN k ELSE kind[g]
      /\ \A g \in Handles : handle'[g] = IF g = h THEN ptr ELSE handle[g]
  BY DEF HInv, Hdl!TypeOK, Hdl!HandleWrap
<1>3. /\ FrameHeld'
      /\ frame' \in [cb : {"loop", "main", "OnClose", "OnRead", "After", "OnConnection",
                              "OnRecv", "OnTimeout", "OnSignal", "OnExit", "OnEvent"},
                        h : Handles \cup {Hdl!NoHandle}, r : Reqs \cup {Hdl!NoReq}]
  BY <1>1, <1>2, CalledFrame
<1>4. Hdl!TypeOK'
  BY <1>3 DEF HInv, Hdl!TypeOK, Hdl!HandleWrap, Busy
<1>5. HandlesHeld'
  BY <1>2 DEF HInv, HandlesHeld
<1>6. RequestsHeld'
  BY <1>1, <1>2 DEF HInv, HandlesHeld, RequestsHeld
<1> QED
  BY <1>3, <1>4, <1>5, <1>6 DEF HInv

LEMMA InitHInv == Hdl!Init => HInv
<1> SUFFICES ASSUME Hdl!Init PROVE HInv
  OBVIOUS
<1>1. Hdl!TypeOK
  BY DEF Hdl!Init, Hdl!TypeOK, Hdl!Kinds, Hdl!Streams, Hdl!Free, Hdl!Frame
<1>2. HandlesHeld /\ RequestsHeld /\ FrameHeld
  BY DEF Hdl!Init, HandlesHeld, RequestsHeld, FrameHeld, Hdl!Free, Hdl!Frame
<1> QED
  BY <1>1, <1>2 DEF HInv

(* uv_close: nothing that is still to be sent is closed.                   *)
LEMMA CloseHInv ==
  ASSUME HInv, NEW h \in Handles, Hdl!Close(h) \/ Hdl!FSEventClose(h)
  PROVE  HInv'
<1>1. /\ wrap[h] = "live" /\ handle[h] /\ uv[h] = "open"
      /\ \A g \in Handles : uv'[g] = IF g = h THEN "closing" ELSE uv[g]
      /\ \A g \in Handles : handle'[g] = IF g = h THEN FALSE ELSE handle[g]
      /\ UNCHANGED <<kind, wrap, req, frame>>
  <2>1. CASE Hdl!Close(h)
    BY <2>1 DEF HInv, Hdl!TypeOK, HandlesHeld, Hdl!Close, Hdl!CloseWrap
  <2>2. CASE Hdl!FSEventClose(h)
    BY <2>2 DEF HInv, Hdl!TypeOK, HandlesHeld, Hdl!FSEventClose, Hdl!CloseWrap
  <2> QED
    BY <2>1, <2>2
<1>2. \A g \in Handles : started'[g] = IF g = h THEN FALSE ELSE started[g]
  <2>1. CASE Hdl!Close(h)
    <3>1. ~started[h]
      BY <2>1 DEF HInv, HandlesHeld, Hdl!Close
    <3> QED
      BY <2>1, <3>1 DEF HInv, Hdl!TypeOK, Hdl!Close
  <2>2. CASE Hdl!FSEventClose(h)
    BY <2>2 DEF HInv, Hdl!TypeOK, Hdl!FSEventClose
  <2> QED
    BY <2>1, <2>2
<1>3. \A r \in Reqs : req[r].sends # h
  <2>1. CASE Hdl!Close(h)
    BY <2>1 DEF Hdl!Close, Hdl!Unsent
  <2>2. CASE Hdl!FSEventClose(h)
    <3>1. kind[h] = "fsevent" /\ h # Hdl!NoHandle
      BY <2>2, NoneAssumption DEF Hdl!FSEventClose
    <3> QED
      BY <3>1 DEF HInv, RequestsHeld
  <2> QED
    BY <2>1, <2>2
<1>4. Hdl!TypeOK'
  <2>1. CASE Hdl!Close(h)
    <3>1. hflags' \in [Handles -> SUBSET {"unref", "close"}]
      BY <2>1 DEF HInv, Hdl!TypeOK, Hdl!Close, Hdl!CloseWrap
    <3> QED
      BY <2>1, <3>1 DEF HInv, Hdl!TypeOK, Hdl!Close, Hdl!CloseWrap
  <2>2. CASE Hdl!FSEventClose(h)
    <3>1. hflags' \in [Handles -> SUBSET {"unref", "close"}]
      BY <2>2 DEF HInv, Hdl!TypeOK, Hdl!FSEventClose, Hdl!CloseWrap
    <3> QED
      BY <2>2, <3>1 DEF HInv, Hdl!TypeOK, Hdl!FSEventClose, Hdl!CloseWrap
  <2> QED
    BY <2>1, <2>2
<1>5. HandlesHeld'
  BY <1>1, <1>2 DEF HInv, HandlesHeld
<1>6. RequestsHeld'
  BY <1>1, <1>3 DEF HInv, RequestsHeld
<1>7. FrameHeld'
  BY <1>1 DEF HInv, FrameHeld
<1> QED
  BY <1>4, <1>5, <1>6, <1>7 DEF HInv

(* A handle that is closed has neither a request nor one that sends it.    *)
LEMMA OnCloseHInv == ASSUME HInv, NEW h \in Handles, Hdl!OnClose(h) PROVE HInv'
<1>1. /\ frame.h = Hdl!NoHandle /\ frame.r = Hdl!NoReq /\ frame.cb = "loop"
  BY DEF Hdl!OnClose, Hdl!InLoop, Hdl!Loop, Hdl!Frame
<1>2. /\ uv[h] = "closing" /\ wrap[h] = "live" /\ ~handle[h] /\ ~started[h]
      /\ UNCHANGED <<kind, handle, started, req>>
      /\ \A g \in Handles : uv'[g] = IF g = h THEN "closed" ELSE uv[g]
      /\ \A r \in Reqs : req[r].on # h
  BY DEF HInv, Hdl!TypeOK, HandlesHeld, Hdl!OnClose, Hdl!Queued
<1>3. /\ \A g \in Handles \ {h} : wrap'[g] = wrap[g]
      /\ \/ wrap'[h] = "live" /\ frame' = [cb |-> "OnClose", h |-> h, r |-> Hdl!NoReq]
         \/ wrap'[h] = "freed" /\ frame' = frame
  BY <1>2 DEF HInv, Hdl!TypeOK, Hdl!OnClose, Hdl!Delete, Hdl!Frame
<1>4. Hdl!TypeOK'
  <2>1. wrap' \in [Handles -> {"none", "live", "freed"}]
    BY DEF HInv, Hdl!TypeOK, Hdl!OnClose, Hdl!Delete
  <2>2. uv' \in [Handles -> {"none", "open", "closing", "closed"}]
    BY DEF HInv, Hdl!TypeOK, Hdl!OnClose
  <2>3. frame' \in [cb : {"loop", "main", "OnClose", "OnRead", "After", "OnConnection",
                           "OnRecv", "OnTimeout", "OnSignal", "OnExit", "OnEvent"},
                    h : Handles \cup {Hdl!NoHandle}, r : Reqs \cup {Hdl!NoReq}]
    <3>1. CASE frame' = frame
      BY <3>1 DEF HInv, Hdl!TypeOK
    <3>2. CASE frame' = [cb |-> "OnClose", h |-> h, r |-> Hdl!NoReq]
      BY <3>2
    <3> QED
      BY <1>3, <3>1, <3>2
  <2> QED
    BY <2>1, <2>2, <2>3 DEF HInv, Hdl!TypeOK, Hdl!OnClose
<1>5. HandlesHeld'
  BY <1>2, <1>3 DEF HInv, HandlesHeld
<1>6. RequestsHeld'
  BY <1>2 DEF HInv, RequestsHeld
<1>7. FrameHeld'
  BY <1>1, <1>2, <1>3 DEF HInv, FrameHeld
<1> QED
  BY <1>4, <1>5, <1>6, <1>7 DEF HInv

LEMMA DispatchHInv ==
  ASSUME HInv, NEW h \in Handles, NEW r \in Reqs,
         NEW what \in {"write", "shutdown", "connect", "send"},
         NEW g \in Handles \cup {Hdl!NoHandle},
         g # Hdl!NoHandle => kind[g] \in {"tcp", "pipe", "udp"} /\ Hdl!Usable(g),
         Hdl!Dispatch(h, r, what, g), busy' \in [Handles -> Busy]
  PROVE  HInv'
<1>1. /\ uv[h] = "open" /\ req[r] = Hdl!Free /\ UNCHANGED <<kind, wrap, handle, uv, hflags, started, frame>>
      /\ \A q \in Reqs : req'[q] = IF q = r THEN [on |-> h, what |-> what, sends |-> g] ELSE req[q]
  BY DEF HInv, Hdl!TypeOK, Hdl!Dispatch, Hdl!Usable
<1>2. Hdl!TypeOK'
  BY DEF HInv, Hdl!TypeOK, Hdl!Dispatch, Busy
<1>3. HandlesHeld'
  BY <1>1 DEF HInv, HandlesHeld
<1>4. RequestsHeld'
  BY <1>1, NoneAssumption DEF HInv, RequestsHeld, Hdl!Usable
<1>5. FrameHeld'
  BY <1>1 DEF HInv, FrameHeld, Hdl!Free
<1> QED
  BY <1>2, <1>3, <1>4, <1>5 DEF HInv

(* The request stays for its callback, what it sent does not.              *)
LEMMA AfterHInv ==
  ASSUME HInv, NEW r \in Reqs, NEW what \in {"write", "shutdown", "connect", "send"},
         Hdl!AfterReq(r, what), busy' \in [Handles -> Busy]
  PROVE  HInv'
<1>1. /\ req[r].on \in Handles /\ uv[req[r].on] \in {"open", "closing"}
      /\ wrap[req[r].on] = "live"
  BY DEF HInv, HandlesHeld, RequestsHeld, Hdl!AfterReq, Hdl!Free
<1> DEFINE Records == [on : Handles \cup {Hdl!NoHandle}, sends : Handles \cup {Hdl!NoHandle},
                      what : {"none", "write", "shutdown", "connect", "send", "calling"}]
           After == [[req[r] EXCEPT !.what = "calling"] EXCEPT !.sends = Hdl!NoHandle]
<1>a. req[r] \in Records /\ req \in [Reqs -> Records]
  BY DEF HInv, Hdl!TypeOK
<1>b. After = [on |-> req[r].on, what |-> "calling", sends |-> Hdl!NoHandle]
  <2>1. req[r] = [on |-> req[r].on, what |-> req[r].what, sends |-> req[r].sends]
    BY <1>a
  <2>2. [req[r] EXCEPT !.what = "calling"]
          = [on |-> req[r].on, what |-> "calling", sends |-> req[r].sends]
    BY <2>1
  <2> DEFINE Half == [req[r] EXCEPT !.what = "calling"]
  <2>3. [Half EXCEPT !.sends = Hdl!NoHandle]
          = [on |-> req[r].on, what |-> "calling", sends |-> Hdl!NoHandle]
    <3>1. Half = [on |-> req[r].on, what |-> "calling", sends |-> req[r].sends]
      BY <2>2
    <3> HIDE DEF Half
    <3> QED
      BY <3>1
  <2> QED
    BY <2>3 DEF Half
<1>c. req' = [req EXCEPT ![r] = After]
  BY <1>a DEF Hdl!AfterReq
<1>2. /\ UNCHANGED <<kind, wrap, handle, uv, hflags, started>>
      /\ frame' = [cb |-> "After", h |-> req[r].on, r |-> r]
      /\ \A q \in Reqs : req'[q] = IF q = r
           THEN [on |-> req[r].on, what |-> "calling", sends |-> Hdl!NoHandle] ELSE req[q]
  BY <1>a, <1>b, <1>c DEF Hdl!AfterReq, Hdl!Frame
<1>3. req' \in [Reqs -> Records]
  BY <1>1, <1>a, <1>b, <1>c
<1>4. Hdl!TypeOK'
  BY <1>1, <1>2, <1>3 DEF HInv, Hdl!TypeOK, Busy
<1>5. HandlesHeld'
  BY <1>2 DEF HInv, HandlesHeld
<1>6. RequestsHeld'
  BY <1>1, <1>2 DEF HInv, RequestsHeld
<1>7. FrameHeld'
  BY <1>1, <1>2 DEF FrameHeld
<1> QED
  BY <1>4, <1>5, <1>6, <1>7 DEF HInv

(* Spawn and FSEventStart give libuv a handle it did not have.             *)
LEMMA StartHInv ==
  ASSUME HInv, NEW h \in Handles, Hdl!Spawn(h) \/ Hdl!FSEventStart(h)
  PROVE  HInv'
<1>1. /\ uv[h] = "none" /\ wrap[h] = "live" /\ UNCHANGED <<kind, wrap, hflags, req, frame>>
      /\ \A g \in Handles : uv'[g] = IF g = h THEN "open" ELSE uv[g]
      /\ \A g \in Handles \ {h} : started'[g] = started[g] /\ handle'[g] = handle[g]
      /\ started'[h] => started[h] \/ kind[h] = "fsevent"
  BY DEF HInv, Hdl!TypeOK, Hdl!Spawn, Hdl!FSEventStart
<1>2. Hdl!TypeOK'
  <2>1. CASE Hdl!Spawn(h)
    BY <2>1 DEF HInv, Hdl!TypeOK, Hdl!Spawn
  <2>2. CASE Hdl!FSEventStart(h)
    BY <2>2 DEF HInv, Hdl!TypeOK, Hdl!FSEventStart
  <2> QED
    BY <2>1, <2>2
<1>3. HandlesHeld'
  BY <1>1 DEF HInv, HandlesHeld
<1>4. RequestsHeld' /\ FrameHeld'
  BY <1>1 DEF HInv, RequestsHeld, FrameHeld
<1> QED
  BY <1>2, <1>3, <1>4 DEF HInv

LEMMA ReturnHInv == ASSUME HInv, Hdl!Return PROVE HInv'
<1>1. UNCHANGED <<kind, handle, uv, hflags, busy, started>> /\ frame' = [cb |-> "loop", h |-> Hdl!NoHandle, r |-> Hdl!NoReq]
  BY DEF Hdl!Return, Hdl!Loop, Hdl!Frame
<1>2. \A r \in Reqs : req'[r] = req[r] \/ req'[r] = Hdl!Free
  BY DEF HInv, Hdl!TypeOK, Hdl!Return
<1>3. req' \in [Reqs -> [on : Handles \cup {Hdl!NoHandle}, sends : Handles \cup {Hdl!NoHandle},
                          what : {"none", "write", "shutdown", "connect", "send", "calling"}]]
  BY DEF HInv, Hdl!TypeOK, Hdl!Return, Hdl!Free
<1>4. /\ wrap' \in [Handles -> {"none", "live", "freed"}]
      /\ \A g \in Handles : wrap'[g] # wrap[g] => uv[g] = "closed" /\ wrap[g] = "live" /\ wrap'[g] = "freed"
  BY NoneAssumption DEF HInv, Hdl!TypeOK, FrameHeld, Hdl!Return, Hdl!Delete
<1>5. Hdl!TypeOK'
  BY <1>1, <1>3, <1>4 DEF HInv, Hdl!TypeOK
<1>6. HandlesHeld'
  BY <1>1, <1>4 DEF HInv, HandlesHeld
<1>7. RequestsHeld'
  BY <1>1, <1>2 DEF HInv, RequestsHeld, Hdl!Free
<1>8. FrameHeld'
  BY <1>1 DEF FrameHeld
<1> QED
  BY <1>5, <1>6, <1>7, <1>8 DEF HInv

LEMMA NextHInv == ASSUME HInv, [Hdl!Next]_handlesVars PROVE HInv'
<1>1. CASE UNCHANGED handlesVars
  BY <1>1, QuietHInv DEF HInv, Hdl!TypeOK, Busy, handlesVars
<1>2. CASE Hdl!Return
  BY <1>2, ReturnHInv
<1>3. ASSUME NEW h \in Handles,
             \/ Hdl!NewTcp(h) \/ Hdl!NewPipe(h) \/ Hdl!NewTty(h) \/ Hdl!NewUdp(h)
             \/ Hdl!NewTimer(h) \/ Hdl!NewSignal(h) \/ Hdl!NewProcess(h) \/ Hdl!NewFSEvent(h)
      PROVE  HInv'
  <2>1. PICK k \in Hdl!Kinds, ptr \in BOOLEAN, u \in {"open", "none"}, b \in Busy :
          Hdl!Construct(h, k, ptr, u, b) /\ (ptr => u = "open" \/ k = "fsevent")
    BY <1>3 DEF Hdl!NewTcp, Hdl!NewPipe, Hdl!NewTty, Hdl!NewUdp, Hdl!NewTimer, Hdl!NewSignal,
                Hdl!NewProcess, Hdl!NewFSEvent, Hdl!Kinds, Hdl!Streams, Busy
  <2>2. Hdl!HandleWrap(h, k, ptr, u, b) /\ UNCHANGED <<hflags, started, req, frame>>
    BY <2>1 DEF Hdl!Construct
  <2> QED
    BY <2>1, <2>2, WrapHInv
<1>4. ASSUME NEW h \in Handles, Hdl!Ref(h) \/ Hdl!Unref(h)
      PROVE  HInv'
  <2>1. hflags' \in [Handles -> SUBSET {"unref", "close"}]
    BY <1>4 DEF HInv, Hdl!TypeOK, Hdl!Ref, Hdl!Unref
  <2>2. UNCHANGED <<kind, wrap, handle, uv, busy, started, req, frame>>
    BY <1>4 DEF Hdl!Ref, Hdl!Unref
  <2> QED
    BY <2>1, <2>2, QuietHInv DEF HInv, Hdl!TypeOK, Busy
<1>5. ASSUME NEW h \in Handles,
             \/ Hdl!ReadStart(h) \/ Hdl!ReadStop(h) \/ Hdl!Open(h) \/ Hdl!Listen(h)
             \/ Hdl!RecvStart(h) \/ Hdl!RecvStop(h) \/ Hdl!TimerStart(h) \/ Hdl!TimerStop(h)
             \/ Hdl!SignalStart(h) \/ Hdl!SignalStop(h)
      PROVE  HInv'
  <2>1. Hdl!Unchanged /\ \E b \in Busy : busy' = [busy EXCEPT ![h] = b]
    BY <1>5 DEF Hdl!ReadStart, Hdl!ReadStop, Hdl!Open, Hdl!Listen, Hdl!RecvStart, Hdl!RecvStop,
                Hdl!TimerStart, Hdl!TimerStop, Hdl!SignalStart, Hdl!SignalStop, Hdl!Switch, Busy
  <2>2. busy' \in [Handles -> Busy]
    BY <2>1 DEF HInv, Hdl!TypeOK, Busy
  <2> QED
    BY <2>1, <2>2, QuietHInv DEF HInv, Hdl!TypeOK, Hdl!Unchanged
<1>6. ASSUME NEW h \in Handles,
             \/ Hdl!UdpOnRecv(h) \/ Hdl!OnTimeout(h) \/ Hdl!OnSignal(h) \/ Hdl!OnExit(h)
             \/ Hdl!OnEvent(h)
      PROVE  HInv'
  <2>1. /\ UNCHANGED <<kind, wrap, handle, uv, hflags, started, req>> /\ Called
        /\ UNCHANGED busy \/ \E b \in Busy : busy' = [busy EXCEPT ![h] = b]
    BY <1>6 DEF Hdl!UdpOnRecv, Hdl!OnTimeout, Hdl!OnSignal, Hdl!OnExit, Hdl!OnEvent, Hdl!Call,
                Called, Callbacks, Busy
  <2>2. busy' \in [Handles -> Busy]
    BY <2>1 DEF HInv, Hdl!TypeOK, Busy
  <2> QED
    BY <2>1, <2>2, QuietHInv DEF HInv, Hdl!TypeOK
<1>7. ASSUME NEW h \in Handles,
             Hdl!OnRead(h) \/ Hdl!TcpOnConnection(h) \/ Hdl!PipeOnConnection(h)
      PROVE  HInv'
  <2>1. CASE UNCHANGED <<kind, wrap, handle, uv, busy>> /\ Called
    <3>1. UNCHANGED <<hflags, started, req>>
      BY <1>7 DEF Hdl!OnRead, Hdl!TcpOnConnection, Hdl!PipeOnConnection
    <3> QED
      BY <2>1, <3>1, QuietHInv DEF HInv, Hdl!TypeOK, Busy
  <2>2. CASE \E g \in Handles, k \in Hdl!Kinds, b \in Busy :
               Hdl!HandleWrap(g, k, TRUE, "open", b) /\ (UNCHANGED frame \/ Called)
    <3>1. UNCHANGED <<hflags, started, req>>
      BY <1>7 DEF Hdl!OnRead, Hdl!TcpOnConnection, Hdl!PipeOnConnection
    <3>2. PICK g \in Handles, k \in Hdl!Kinds, b \in Busy :
            Hdl!HandleWrap(g, k, TRUE, "open", b) /\ (UNCHANGED frame \/ Called)
      BY <2>2
    <3> QED
      BY <3>1, <3>2, WrapHInv
  <2>3. CASE Hdl!OnRead(h)
    <3>1. Called
      BY <2>3 DEF Hdl!OnRead, Hdl!Call, Called, Callbacks
    <3> QED
      BY <2>1, <2>2, <2>3, <3>1 DEF Hdl!OnRead, Hdl!AcceptHandle, Hdl!Kinds, Hdl!Streams, Busy
  <2>4. CASE Hdl!TcpOnConnection(h) \/ Hdl!PipeOnConnection(h)
    <3>1. Hdl!Call("OnConnection", h) => Called
      BY <2>4 DEF Hdl!TcpOnConnection, Hdl!PipeOnConnection, Hdl!Call, Called, Callbacks
    <3>2. kind[h] \in Hdl!Kinds
      BY DEF HInv, Hdl!TypeOK
    <3>3. \/ UNCHANGED <<kind, wrap, handle, uv, busy>> /\ Called
          \/ \E g \in Handles : Hdl!Accepted(h, g)
      BY <2>4, <3>1 DEF Hdl!TcpOnConnection, Hdl!PipeOnConnection
    <3>4. ASSUME NEW g \in Handles, Hdl!Accepted(h, g) PROVE HInv'
      BY <2>2, <3>1, <3>2, <3>4 DEF Hdl!Accepted, Busy
    <3> QED
      BY <2>1, <3>3, <3>4
  <2> QED
    BY <1>7, <2>3, <2>4
<1>8. ASSUME NEW h \in Handles, Hdl!Close(h) \/ Hdl!FSEventClose(h) \/ Hdl!OnClose(h)
                              \/ Hdl!Spawn(h) \/ Hdl!FSEventStart(h)
      PROVE  HInv'
  BY <1>8, CloseHInv, OnCloseHInv, StartHInv
<1>9. ASSUME NEW h \in Handles, NEW r \in Reqs,
             \/ Hdl!WriteBuffer(h, r) \/ Hdl!WriteString(h, r) \/ Hdl!Shutdown(h, r)
             \/ Hdl!Connect(h, r) \/ Hdl!UdpSend(h, r)
      PROVE  HInv'
  <2>1. PICK what \in {"write", "shutdown", "connect", "send"}, g \in Handles \cup {Hdl!NoHandle} :
          /\ Hdl!Dispatch(h, r, what, g)
          /\ g # Hdl!NoHandle => kind[g] \in {"tcp", "pipe", "udp"} /\ Hdl!Usable(g)
    <3>1. CASE Hdl!WriteString(h, r)
      BY <3>1 DEF Hdl!WriteString
    <3> QED
      BY <1>9, <3>1 DEF Hdl!WriteBuffer, Hdl!Shutdown, Hdl!Connect, Hdl!UdpSend
  <2>2. UNCHANGED busy \/ busy' = [busy EXCEPT ![h] = "connecting"]
    BY <1>9 DEF Hdl!WriteBuffer, Hdl!WriteString, Hdl!Shutdown, Hdl!Connect, Hdl!UdpSend
  <2>3. busy' \in [Handles -> Busy]
    BY <2>2 DEF HInv, Hdl!TypeOK, Busy
  <2> QED
    BY <2>1, <2>3, DispatchHInv
<1>10. ASSUME NEW r \in Reqs,
              \/ Hdl!AfterWrite(r) \/ Hdl!AfterShutdown(r) \/ Hdl!AfterConnect(r)
              \/ Hdl!UdpOnSend(r)
       PROVE  HInv'
  <2>1. PICK what \in {"write", "shutdown", "connect", "send"} : Hdl!AfterReq(r, what)
    BY <1>10 DEF Hdl!AfterWrite, Hdl!AfterShutdown, Hdl!AfterConnect, Hdl!UdpOnSend
  <2>2. UNCHANGED busy \/ \E b \in Busy : busy' = [busy EXCEPT ![req[r].on] = b]
    BY <1>10 DEF Hdl!AfterWrite, Hdl!AfterShutdown, Hdl!AfterConnect, Hdl!UdpOnSend,
                 Hdl!Connected, Busy
  <2>3. busy' \in [Handles -> Busy]
    BY <2>2 DEF HInv, Hdl!TypeOK, Busy
  <2> QED
    BY <2>1, <2>3, AfterHInv
<1> QED
  BY <1>1, <1>2, <1>3, <1>4, <1>5, <1>6, <1>7, <1>8, <1>9, <1>10 DEF Hdl!Next

LEMMA HandlesHeldWhileUsed == HInv => Hdl!HandlesOutliveTheirUse
BY DEF HInv, HandlesHeld, RequestsHeld, FrameHeld, Hdl!HandlesOutliveTheirUse, Hdl!HeldByUv, Hdl!HeldByFrame

-----------------------------------------------------------------------------
(* node_file.cc.                                                           *)

Tellings == {"thrown", "returned", "called"}

FileTypes ==
  /\ fst \in [FsReqs -> {"none", "working", "answering", "over"}]
  /\ fop \in [FsReqs -> Fil!Ops \cup {"none"}]
  /\ fspan \in [FsReqs -> [off : Nat, len : Nat]]
  /\ fresult \in [FsReqs -> {"none", "ok", "failed"}] /\ fpath \in [FsReqs -> BOOLEAN]
  /\ ftold \in [FsReqs -> Seq(Tellings)]
  /\ DOMAIN fargs = FsReqs
  /\ fbuffer \in {"held", "dropped", "freed"} /\ fjs \in Seq(FsReqs)

OnStack(s, f) == \E i \in DOMAIN s : s[i] = f

(* A call has one answer once it is answered, and its callback is on the   *)
(* stack once.                                                             *)
AnsweredOnce ==
  /\ \A r \in FsReqs : Len(ftold[r]) = (IF fst[r] \in {"answering", "over"} THEN 1 ELSE 0)
  /\ \A r \in FsReqs : fst[r] = "answering" <=> OnStack(fjs, r)
  /\ \A i, j \in DOMAIN fjs : fjs[i] = fjs[j] => i = j

(* A callback has After's arguments; a call not made yet has no path.      *)
ArgsOfAfter ==
  \A r \in FsReqs :
    /\ fst[r] = "none" => ~fpath[r]
    /\ fst[r] = "working" => fop[r] \in Fil!Ops
    /\ fst[r] = "answering" => /\ fop[r] \in Fil!Ops /\ fresult[r] \in {"ok", "failed"}
                               /\ fargs[r] = Fil!AfterArgs(fop[r], fresult[r], fpath[r])

FInv == FileTypes /\ AnsweredOnce /\ ArgsOfAfter /\ Fil!InsideBuffer

(* What After gives is the value, or the error.                            *)
LEMMA AfterGivesTheValue ==
  ASSUME NEW op \in Fil!Ops, NEW path
  PROVE  /\ Fil!AfterArgs(op, "failed", path) = <<Fil!Error(path)>>
         /\ LET args == Fil!AfterArgs(op, "ok", path)
            IN Fil!Kind(op) = (IF Len(args) = 2 THEN args[2] ELSE "nothing")
<1>1. Fil!AfterArgs(op, "failed", path) = <<Fil!Error(path)>>
  BY DEF Fil!AfterArgs
<1>2. CASE op \in Fil!WholeOps
  <2>1. Fil!AfterArgs(op, "ok", path) = <<"null">> /\ Fil!Kind(op) = "nothing"
    BY <1>2 DEF Fil!AfterArgs, Fil!Kind, Fil!WholeOps, Fil!TimeOps, Fil!NumberOps, Fil!StatOps
  <2> QED
    BY <1>1, <2>1
<1>3. CASE op \in Fil!TimeOps
  <2>1. Fil!AfterArgs(op, "ok", path) = <<>> /\ Fil!Kind(op) = "nothing"
    BY <1>3 DEF Fil!AfterArgs, Fil!Kind, Fil!WholeOps, Fil!TimeOps, Fil!NumberOps, Fil!StatOps
  <2> QED
    BY <1>1, <2>1
<1>4. CASE op \notin Fil!WholeOps \cup Fil!TimeOps
  <2>1. Fil!AfterArgs(op, "ok", path) = <<"null", Fil!Kind(op)>>
    BY <1>4 DEF Fil!AfterArgs
  <2> QED
    BY <1>1, <2>1
<1> QED
  BY <1>2, <1>3, <1>4

(* What is called runs first of what is on the stack.                      *)
LEMMA CalledFirst ==
  ASSUME NEW S, NEW s \in Seq(S), NEW r \in S, ~OnStack(s, r),
         \A i, j \in DOMAIN s : s[i] = s[j] => i = j
  PROVE  LET t == <<r>> \o s
         IN /\ t \in Seq(S) /\ \A i, j \in DOMAIN t : t[i] = t[j] => i = j
            /\ \A q \in S : OnStack(t, q) <=> q = r \/ OnStack(s, q)
<1> DEFINE t == <<r>> \o s
<1>1. /\ t \in Seq(S) /\ DOMAIN t = 1..Len(s) + 1 /\ DOMAIN s = 1..Len(s) /\ Len(s) \in Nat
      /\ t[1] = r /\ \A i \in 1..Len(s) : t[i + 1] = s[i]
      /\ \A i \in 2..Len(s) + 1 : i - 1 \in 1..Len(s) /\ t[i] = s[i - 1]
  OBVIOUS
<1> HIDE DEF t
<1>2. ASSUME NEW i \in DOMAIN t, NEW j \in DOMAIN t, t[i] = t[j] PROVE i = j
  <2>1. CASE i = 1 \/ j = 1
    <3>1. \A k \in 2..Len(s) + 1 : t[k] # r
      BY <1>1 DEF OnStack
    <3> QED
      BY <1>1, <1>2, <2>1, <3>1
  <2>2. CASE i # 1 /\ j # 1
    <3>1. i \in 2..Len(s) + 1 /\ j \in 2..Len(s) + 1
      BY <1>1, <2>2
    <3>2. i - 1 \in DOMAIN s /\ j - 1 \in DOMAIN s /\ s[i - 1] = s[j - 1]
      BY <1>1, <1>2, <3>1
    <3> QED
      BY <3>1, <3>2
  <2> QED
    BY <2>1, <2>2
<1>3. ASSUME NEW q \in S PROVE OnStack(t, q) <=> q = r \/ OnStack(s, q)
  <2>1. ASSUME NEW i \in DOMAIN t, t[i] = q PROVE q = r \/ OnStack(s, q)
    <3>1. CASE i = 1
      BY <1>1, <2>1, <3>1
    <3>2. CASE i # 1
      <4>1. i \in 2..Len(s) + 1
        BY <1>1, <3>2
      <4>2. i - 1 \in DOMAIN s /\ s[i - 1] = q
        BY <1>1, <2>1, <4>1
      <4> QED
        BY <4>2 DEF OnStack
    <3> QED
      BY <3>1, <3>2
  <2>2. ASSUME NEW i \in DOMAIN s, s[i] = q PROVE i + 1 \in DOMAIN t /\ t[i + 1] = q
    BY <1>1, <2>2
  <2> QED
    BY <1>1, <2>1, <2>2 DEF OnStack
<1> QED
  BY <1>1, <1>2, <1>3 DEF t

LEMMA ReturnedFirst ==
  ASSUME NEW S, NEW s \in Seq(S), s # <<>>, \A i, j \in DOMAIN s : s[i] = s[j] => i = j
  PROVE  /\ Tail(s) \in Seq(S) /\ Head(s) \in S /\ OnStack(s, Head(s))
         /\ \A i, j \in DOMAIN Tail(s) : Tail(s)[i] = Tail(s)[j] => i = j
         /\ \A q \in S : OnStack(Tail(s), q) <=> q # Head(s) /\ OnStack(s, q)
<1> DEFINE t == Tail(s)
<1>1. /\ t \in Seq(S) /\ DOMAIN t = 1..Len(s) - 1 /\ DOMAIN s = 1..Len(s) /\ Len(s) \in Nat
      /\ Head(s) = s[1] /\ 1 \in DOMAIN s /\ s[1] \in S
      /\ \A i \in 1..Len(s) - 1 : t[i] = s[i + 1]
      /\ \A i \in 2..Len(s) : t[i - 1] = s[i]
  OBVIOUS
<1> HIDE DEF t
<1>2. ASSUME NEW i \in DOMAIN t, NEW j \in DOMAIN t, t[i] = t[j] PROVE i = j
  <2>1. i + 1 \in DOMAIN s /\ j + 1 \in DOMAIN s /\ s[i + 1] = s[j + 1]
    BY <1>1, <1>2
  <2> QED
    BY <1>1, <2>1
<1>3. ASSUME NEW q \in S PROVE OnStack(t, q) <=> q # Head(s) /\ OnStack(s, q)
  <2>1. ASSUME NEW i \in DOMAIN t, t[i] = q PROVE i + 1 \in DOMAIN s /\ s[i + 1] = q /\ q # s[1]
    BY <1>1, <2>1
  <2>2. ASSUME NEW i \in DOMAIN s, s[i] = q, q # s[1] PROVE i - 1 \in DOMAIN t /\ t[i - 1] = q
    BY <1>1, <2>2
  <2> QED
    BY <1>1, <2>1, <2>2 DEF OnStack
<1> QED
  BY <1>1, <1>2, <1>3 DEF t, OnStack

LEMMA InitFInv == Fil!Init => FInv
<1> SUFFICES ASSUME Fil!Init PROVE FInv
  OBVIOUS
<1>1. FileTypes
  BY DEF Fil!Init, FileTypes, Fil!NoSpan
<1>2. AnsweredOnce /\ ArgsOfAfter /\ Fil!InsideBuffer
  BY DEF Fil!Init, AnsweredOnce, ArgsOfAfter, Fil!InsideBuffer, OnStack
<1> QED
  BY <1>1, <1>2 DEF FInv

(* One answer more.                                                        *)
LEMMA ToldOnce ==
  ASSUME NEW told \in [FsReqs -> Seq(Tellings)], NEW r \in FsReqs, NEW how \in Tellings
  PROVE  LET now == [told EXCEPT ![r] = Append(@, how)]
         IN /\ now \in [FsReqs -> Seq(Tellings)] /\ Len(now[r]) = Len(told[r]) + 1
            /\ \A q \in FsReqs \ {r} : now[q] = told[q]
<1> DEFINE longer == Append(told[r], how)
<1>1. longer \in Seq(Tellings) /\ Len(longer) = Len(told[r]) + 1
  <2>1. told[r] \in Seq(Tellings)
    OBVIOUS
  <2> QED
    BY <2>1, AppendProperties
<1> HIDE DEF longer
<1>2. /\ [told EXCEPT ![r] = longer] \in [FsReqs -> Seq(Tellings)]
      /\ [told EXCEPT ![r] = longer][r] = longer
      /\ \A q \in FsReqs \ {r} : [told EXCEPT ![r] = longer][q] = told[q]
  BY <1>1
<1> QED
  BY <1>1, <1>2 DEF longer

(* One call is made, and is over or goes on.                               *)
LEMMA MethodFInv ==
  ASSUME FInv, NEW r \in FsReqs, NEW op \in Fil!Ops, NEW span \in [off : Nat, len : Nat],
         fst[r] = "none",
         op \in Fil!Data => fbuffer = "held" /\ span.off + span.len <= BufferLength,
         Fil!BadArgs(r) \/ Fil!Method(r, op, span)
  PROVE  FInv'
<1>1. CASE Fil!BadArgs(r) \/ Fil!SyncCall(r)
  <2>1. /\ fst' = [fst EXCEPT ![r] = "over"]
        /\ UNCHANGED <<fop, fspan, fresult, fpath, fargs, fbuffer, fjs>>
    BY <1>1 DEF Fil!BadArgs, Fil!SyncCall, Fil!Told
  <2>2. PICK how \in Tellings : ftold' = [ftold EXCEPT ![r] = Append(@, how)]
    BY <1>1 DEF Fil!BadArgs, Fil!SyncCall, Fil!Told, Tellings
  <2>3. /\ ftold' \in [FsReqs -> Seq(Tellings)]
        /\ Len(ftold'[r]) = Len(ftold[r]) + 1 /\ \A q \in FsReqs \ {r} : ftold'[q] = ftold[q]
    BY <2>2, ToldOnce DEF FInv, FileTypes
  <2>4. /\ fst'[r] = "over" /\ \A q \in FsReqs \ {r} : fst'[q] = fst[q]
        /\ fst' \in [FsReqs -> {"none", "working", "answering", "over"}]
    BY <2>1 DEF FInv, FileTypes
  <2>5. FileTypes'
    BY <2>1, <2>3, <2>4 DEF FInv, FileTypes
  <2>6. AnsweredOnce'
    <3>1. \A q \in FsReqs : fst'[q] = "answering" <=> OnStack(fjs', q)
      BY <2>1, <2>4 DEF FInv, AnsweredOnce
    <3>2. \A i, j \in DOMAIN fjs' : fjs'[i] = fjs'[j] => i = j
      BY <2>1 DEF FInv, AnsweredOnce
    <3>3. Len(ftold[r]) = 0 /\ Len(ftold'[r]) = 1
      BY <2>3 DEF FInv, AnsweredOnce
    <3>4. \A q \in FsReqs : Len(ftold'[q]) = (IF fst'[q] \in {"answering", "over"} THEN 1 ELSE 0)
      BY <2>3, <2>4, <3>3 DEF FInv, AnsweredOnce
    <3> QED
      BY <3>1, <3>2, <3>4 DEF AnsweredOnce
  <2>7. ArgsOfAfter' /\ Fil!InsideBuffer'
    BY <2>1, <2>4 DEF FInv, ArgsOfAfter, Fil!InsideBuffer
  <2> QED
    BY <2>5, <2>6, <2>7 DEF FInv
<1>2. CASE Fil!AsyncCall(r, op, span)
  <2>1. /\ fst'[r] = "working" /\ \A q \in FsReqs \ {r} : fst'[q] = fst[q]
        /\ fop'[r] = op /\ \A q \in FsReqs \ {r} : fop'[q] = fop[q]
        /\ fspan'[r] = span /\ \A q \in FsReqs \ {r} : fspan'[q] = fspan[q]
        /\ \A q \in FsReqs \ {r} : fpath'[q] = fpath[q]
        /\ UNCHANGED <<fresult, ftold, fargs, fbuffer, fjs>>
    BY <1>2 DEF FInv, FileTypes, Fil!AsyncCall
  <2>2. FileTypes'
    BY <1>2 DEF FInv, FileTypes, Fil!AsyncCall
  <2>3. AnsweredOnce' /\ ArgsOfAfter'
    BY <2>1 DEF FInv, AnsweredOnce, ArgsOfAfter
  <2>4. Fil!InsideBuffer'
    BY <2>1 DEF FInv, Fil!InsideBuffer
  <2> QED
    BY <2>2, <2>3, <2>4 DEF FInv
<1>3. CASE Fil!AsyncFails(r, op)
  <2>1. /\ fst'[r] = "answering" /\ \A q \in FsReqs \ {r} : fst'[q] = fst[q]
        /\ fop'[r] = op /\ \A q \in FsReqs \ {r} : fop'[q] = fop[q]
        /\ fresult'[r] = "failed" /\ \A q \in FsReqs \ {r} : fresult'[q] = fresult[q]
        /\ fargs'[r] = Fil!AfterArgs(op, "failed", FALSE)
        /\ \A q \in FsReqs \ {r} : fargs'[q] = fargs[q]
        /\ fjs' = <<r>> \o fjs /\ UNCHANGED <<fspan, fpath, fbuffer>>
    BY <1>3 DEF FInv, FileTypes, Fil!AsyncFails
  <2>2. /\ ftold' \in [FsReqs -> Seq(Tellings)]
        /\ Len(ftold'[r]) = Len(ftold[r]) + 1 /\ \A q \in FsReqs \ {r} : ftold'[q] = ftold[q]
    BY <1>3, ToldOnce DEF FInv, FileTypes, Tellings, Fil!AsyncFails
  <2>3. ~OnStack(fjs, r) /\ fjs \in Seq(FsReqs) /\ fpath[r] = FALSE
    BY DEF FInv, AnsweredOnce, FileTypes, ArgsOfAfter
  <2>4. /\ fjs' \in Seq(FsReqs) /\ \A i, j \in DOMAIN fjs' : fjs'[i] = fjs'[j] => i = j
        /\ \A q \in FsReqs : OnStack(fjs', q) <=> q = r \/ OnStack(fjs, q)
    BY <2>1, <2>3, CalledFirst DEF FInv, AnsweredOnce
  <2>5. FileTypes'
    <3>1. /\ fst' \in [FsReqs -> {"none", "working", "answering", "over"}]
          /\ fop' \in [FsReqs -> Fil!Ops \cup {"none"}]
          /\ fresult' \in [FsReqs -> {"none", "ok", "failed"}] /\ DOMAIN fargs' = FsReqs
      BY <1>3 DEF FInv, FileTypes, Fil!AsyncFails
    <3> QED
      BY <2>1, <2>2, <2>4, <3>1 DEF FInv, FileTypes
  <2>6. AnsweredOnce'
    <3>1. \A q \in FsReqs : fst'[q] = "answering" <=> OnStack(fjs', q)
      BY <2>1, <2>4 DEF FInv, AnsweredOnce
    <3>2. Len(ftold[r]) = 0 /\ Len(ftold'[r]) = 1
      BY <2>2 DEF FInv, AnsweredOnce
    <3>3. \A q \in FsReqs : Len(ftold'[q]) = (IF fst'[q] \in {"answering", "over"} THEN 1 ELSE 0)
      BY <2>1, <2>2, <3>2 DEF FInv, AnsweredOnce
    <3> QED
      BY <2>4, <3>1, <3>3 DEF AnsweredOnce
  <2>7. ArgsOfAfter'
    BY <2>1, <2>3 DEF FInv, ArgsOfAfter
  <2>8. Fil!InsideBuffer'
    BY <2>1 DEF FInv, Fil!InsideBuffer
  <2> QED
    BY <2>5, <2>6, <2>7, <2>8 DEF FInv
<1> QED
  BY <1>1, <1>2, <1>3 DEF Fil!Method

LEMMA TransferFInv ==
  ASSUME FInv, NEW r \in FsReqs, NEW op \in Fil!Data, Fil!Transfer(r, op)
  PROVE  FInv'
<1>1. PICK span \in [off : 0..BufferLength, len : 0..BufferLength + 1] :
        \/ Fil!BadArgs(r)
        \/ ~Fil!OutOfBounds(span) /\ Fil!Method(r, op, span)
  BY DEF Fil!Transfer
<1>2. fst[r] = "none" /\ fbuffer = "held" /\ op \in Fil!Ops
  BY DEF Fil!Transfer, Fil!Data, Fil!Ops, Fil!NumberOps
<1>3. span \in [off : Nat, len : Nat]
  BY NodePartsAssumption
<1>4. CASE Fil!BadArgs(r)
  <2>1. [off |-> 0, len |-> 0] \in [off : Nat, len : Nat] /\ 0 + 0 <= BufferLength
    BY NodePartsAssumption
  <2> DEFINE none == [off |-> 0, len |-> 0]
  <2>2. none.off + none.len <= BufferLength
    BY <2>1
  <2> QED
    BY <1>2, <1>4, <2>1, <2>2, MethodFInv
<1>5. CASE ~Fil!OutOfBounds(span) /\ Fil!Method(r, op, span)
  <2>1. span.off + span.len <= BufferLength
    BY <1>3, <1>5, NodePartsAssumption DEF Fil!OutOfBounds
  <2> QED
    BY <1>2, <1>3, <1>5, <2>1, MethodFInv
<1> QED
  BY <1>1, <1>4, <1>5

LEMMA AfterFInv ==
  ASSUME FInv, NEW r \in FsReqs, NEW res \in {"ok", "failed"}, Fil!After(r, res)
  PROVE  FInv'
<1>1. /\ fst[r] = "working" /\ fjs = <<>> /\ fjs' = <<r>>
      /\ fst'[r] = "answering" /\ \A q \in FsReqs \ {r} : fst'[q] = fst[q]
      /\ fresult'[r] = res /\ \A q \in FsReqs \ {r} : fresult'[q] = fresult[q]
      /\ fargs'[r] = Fil!AfterArgs(fop[r], res, fpath[r])
      /\ \A q \in FsReqs \ {r} : fargs'[q] = fargs[q]
      /\ UNCHANGED <<fop, fspan, fpath, fbuffer>>
  BY DEF FInv, FileTypes, Fil!After
<1>2. /\ ftold' \in [FsReqs -> Seq(Tellings)]
      /\ Len(ftold'[r]) = Len(ftold[r]) + 1 /\ \A q \in FsReqs \ {r} : ftold'[q] = ftold[q]
  BY ToldOnce DEF FInv, FileTypes, Tellings, Fil!After
<1>3. FileTypes'
  <2>1. /\ fst' \in [FsReqs -> {"none", "working", "answering", "over"}]
        /\ fresult' \in [FsReqs -> {"none", "ok", "failed"}] /\ DOMAIN fargs' = FsReqs
    BY DEF FInv, FileTypes, Fil!After
  <2> QED
    BY <1>1, <1>2, <2>1 DEF FInv, FileTypes
<1>4. AnsweredOnce'
  <2>1. \A q \in FsReqs : fst[q] # "answering"
    BY <1>1 DEF FInv, AnsweredOnce, OnStack
  <2>2. \A q \in FsReqs : OnStack(fjs', q) <=> q = r
    BY <1>1 DEF OnStack
  <2>3. \A i, j \in DOMAIN fjs' : fjs'[i] = fjs'[j] => i = j
    BY <1>1
  <2> QED
    BY <1>1, <1>2, <2>1, <2>2, <2>3 DEF FInv, AnsweredOnce
<1>5. ArgsOfAfter' /\ Fil!InsideBuffer'
  BY <1>1 DEF FInv, ArgsOfAfter, Fil!InsideBuffer
<1> QED
  BY <1>3, <1>4, <1>5 DEF FInv

LEMMA CleanupFInv == ASSUME FInv, Fil!Cleanup PROVE FInv'
<1> DEFINE r == Head(fjs)
<1>1. /\ r \in FsReqs /\ fst[r] = "answering" /\ fjs' = Tail(fjs) /\ fjs' \in Seq(FsReqs)
      /\ \A i, j \in DOMAIN fjs' : fjs'[i] = fjs'[j] => i = j
      /\ \A q \in FsReqs : OnStack(fjs', q) <=> q # r /\ OnStack(fjs, q)
  BY ReturnedFirst DEF FInv, FileTypes, AnsweredOnce, Fil!Cleanup
<1>2. /\ fst' = [fst EXCEPT ![r] = "over"] /\ fop' = [fop EXCEPT ![r] = "none"]
      /\ fspan' = [fspan EXCEPT ![r] = Fil!NoSpan] /\ fargs' = [fargs EXCEPT ![r] = <<>>]
      /\ fresult' = [fresult EXCEPT ![r] = "none"] /\ fpath' = [fpath EXCEPT ![r] = FALSE]
      /\ UNCHANGED <<ftold, fbuffer>>
  BY DEF Fil!Cleanup
<1> HIDE DEF r
<1>3. FileTypes'
  BY <1>1, <1>2 DEF FInv, FileTypes, Fil!NoSpan
<1>4. /\ fst'[r] = "over" /\ \A q \in FsReqs \ {r} :
           /\ fst'[q] = fst[q] /\ fop'[q] = fop[q] /\ fspan'[q] = fspan[q]
           /\ fargs'[q] = fargs[q] /\ fresult'[q] = fresult[q] /\ fpath'[q] = fpath[q]
  BY <1>1, <1>2 DEF FInv, FileTypes
<1>5. AnsweredOnce'
  BY <1>1, <1>2, <1>4 DEF FInv, AnsweredOnce
<1>6. ArgsOfAfter'
  BY <1>4 DEF FInv, ArgsOfAfter
<1>7. Fil!InsideBuffer'
  BY <1>2, <1>4 DEF FInv, Fil!InsideBuffer
<1> QED
  BY <1>3, <1>5, <1>6, <1>7 DEF FInv

LEMMA NextFInv == ASSUME FInv, [Fil!Next]_filesVars PROVE FInv'
<1>1. CASE UNCHANGED filesVars
  BY <1>1 DEF FInv, FileTypes, AnsweredOnce, ArgsOfAfter, Fil!InsideBuffer, filesVars, OnStack
<1>2. CASE Fil!Drop \/ Fil!Collect
  <2>1. UNCHANGED <<fst, fop, fspan, fresult, fpath, ftold, fargs, fjs>>
    BY <1>2 DEF Fil!Drop, Fil!Collect
  <2>2. FileTypes' /\ AnsweredOnce' /\ ArgsOfAfter'
    BY <1>2, <2>1 DEF FInv, FileTypes, AnsweredOnce, ArgsOfAfter, OnStack, Fil!Drop, Fil!Collect
  <2>3. Fil!InsideBuffer'
    BY <1>2, <2>1 DEF FInv, Fil!InsideBuffer, Fil!Drop, Fil!Collect
  <2> QED
    BY <2>2, <2>3 DEF FInv
<1>3. ASSUME NEW r \in FsReqs, Fil!Write(r) \/ Fil!Read(r)
      PROVE  FInv'
  BY <1>3, TransferFInv DEF Fil!Write, Fil!Read, Fil!Data
<1>4. ASSUME NEW r \in FsReqs, NEW op \in Fil!Ops \ Fil!Data, Fil!Does(r, op)
      PROVE  FInv'
  BY <1>4, MethodFInv DEF Fil!Does, Fil!NoSpan
<1>5. ASSUME NEW r \in FsReqs, Fil!OnPaths(r) \/ Fil!OnFds(r)
      PROVE  FInv'
  <2>1. Fil!Write(r) \/ Fil!Read(r) \/ \E op \in Fil!Ops \ Fil!Data : Fil!Does(r, op)
    BY <1>5 DEF Fil!OnPaths, Fil!OnFds, Fil!Close, Fil!Stat, Fil!LStat, Fil!FStat, Fil!Symlink,
                Fil!Link, Fil!ReadLink, Fil!Rename, Fil!FTruncate, Fil!Fdatasync, Fil!Fsync,
                Fil!Unlink, Fil!RMDir, Fil!MKDir, Fil!ReadDir, Fil!Open, Fil!Chmod, Fil!FChmod,
                Fil!Chown, Fil!FChown, Fil!UTimes, Fil!FUTimes, Fil!Ops, Fil!WholeOps,
                Fil!TimeOps, Fil!NumberOps, Fil!StatOps, Fil!Data
  <2> QED
    BY <1>3, <1>4, <2>1
<1> QED
  BY <1>1, <1>2, <1>5, AfterFInv, CleanupFInv DEF Fil!Next

LEMMA FilesAnsweredHolds == FInv => Fil!FilesAnswered
<1> SUFFICES ASSUME FInv PROVE Fil!FilesAnswered
  OBVIOUS
<1>1. Fil!OneAnswer
  BY DEF FInv, AnsweredOnce, OnStack, Fil!OneAnswer
<1>2. Fil!AsyncAsSync
  <2>1. SUFFICES ASSUME NEW r \in FsReqs, fst[r] = "answering"
                 PROVE  IF fresult[r] = "ok"
                        THEN Fil!Kind(fop[r]) = (IF Len(fargs[r]) = 2 THEN fargs[r][2] ELSE "nothing")
                        ELSE fargs[r] = <<Fil!Error(fpath[r])>>
    BY DEF Fil!AsyncAsSync
  <2>2. /\ fop[r] \in Fil!Ops /\ fresult[r] \in {"ok", "failed"}
        /\ fargs[r] = Fil!AfterArgs(fop[r], fresult[r], fpath[r])
    BY <2>1 DEF FInv, ArgsOfAfter
  <2> QED
    BY <2>2, AfterGivesTheValue
<1> QED
  BY <1>1, <1>2 DEF FInv, Fil!FilesAnswered

-----------------------------------------------------------------------------
(* node_zlib.cc.                                                           *)

Slice == [gen : Nat, lo : Nat, hi : Nat]
Chunk == [on : BOOLEAN, inOff : Nat, avail : Nat, err : {"ok", "end", "need_dict", "data"}]

ZlibTypes ==
  /\ zmode \in {"new", "open", "none", "aborted"} /\ zbusy \in BOOLEAN /\ zrefs \in Nat
  /\ zwork \in {"none", "queued", "working", "worked"}
  /\ zerr \in {"ok", "end", "need_dict", "data"} /\ zbinding \in {"held", "null"}
  /\ strm \in [in : Nat, avail_in : Nat, out : Nat, avail_out : Nat, to : Nat]
  /\ zchunk \in Chunk /\ zreset \in {"none", "late", "raced"}
  /\ zbuf \in [gen : Nat, offset : Nat, avail : Nat] /\ zpushed \subseteq Slice
  /\ zcount \in [given : Nat, done : Nat, errors : Nat, made : Nat]

(* A write holds the stream, and its chunk is the one that is not done;    *)
(* the script's binding goes when nothing is worked on, or in a reset that *)
(* raced with the thread.                                                  *)
WriteHeld ==
  /\ zwork # "none" =>
       /\ zmode \in {"open", "aborted"} /\ zchunk.on
       /\ IF zbinding = "held" THEN zbusy /\ zrefs = 1
          ELSE ~zbusy /\ zrefs = 0 /\ zreset = "raced" /\ zwork \in {"working", "worked"}
  /\ zwork = "none" => ~zbusy /\ zrefs = 0 /\ (zchunk.on => zbinding = "null")
  /\ zcount.given = zcount.done + (IF zchunk.on THEN 1 ELSE 0)
  /\ IF zbinding = "held" THEN zcount.errors = 0
     ELSE (zcount.errors > 0 => zchunk.on) /\ (zreset # "raced" => zcount.errors <= 1)

(* What zlib still reads ends where the chunk does, what it still writes   *)
(* begins after what was served; it stopped for want of either.            *)
StreamFits ==
  /\ zbuf.offset <= BufferSize
  /\ zwork # "none" =>
       /\ strm.in + strm.avail_in = zchunk.inOff + zchunk.avail
       /\ zchunk.inOff + zchunk.avail <= ChunkLength /\ strm.avail_in <= zchunk.avail
       /\ strm.out + strm.avail_out = BufferSize /\ zbuf.offset + zbuf.avail = BufferSize
       /\ strm.avail_out <= zbuf.avail /\ strm.to = zbuf.gen
  /\ zwork = "worked" /\ zerr = "ok" /\ zreset = "none" =>
       strm.avail_in = 0 \/ strm.avail_out = 0
  /\ ~zchunk.on /\ zchunk.err = "ok" /\ zreset = "none" => zchunk.avail = 0

(* The slices lie apart, in older buffers or before what comes next.       *)
Behind(p, b) == p.gen < b.gen \/ (p.gen = b.gen /\ p.hi <= b.offset)

SlicesBehind ==
  /\ \A p \in zpushed : p.lo < p.hi /\ p.hi <= BufferSize /\ Behind(p, zbuf)
  /\ \A p, q \in zpushed : p # q => ~Zlb!Overlap(p, q)

ZInv == ZlibTypes /\ WriteHeld /\ StreamFits /\ SlicesBehind

LEMMA InitZInv == Zlb!Init => ZInv
<1> SUFFICES ASSUME Zlb!Init PROVE ZInv
  OBVIOUS
<1>1. ZlibTypes
  BY DEF Zlb!Init, Zlb!NoChunk, ZlibTypes, Chunk
<1>2. WriteHeld /\ StreamFits /\ SlicesBehind
  BY NodePartsAssumption DEF Zlb!Init, Zlb!NoChunk, WriteHeld, StreamFits, SlicesBehind
<1> QED
  BY <1>1, <1>2 DEF ZInv

(* All that was made is served, from where the last slice ended.           *)
LEMMA ServedBehind ==
  ASSUME ZInv, zwork # "none"
  PROVE  /\ Zlb!Served \subseteq Slice /\ Zlb!Have \in Nat
         /\ Zlb!NextBuffer \in [gen : Nat, offset : Nat, avail : Nat]
         /\ Zlb!NextBuffer.offset <= BufferSize
         /\ strm.avail_out = 0 => /\ Zlb!NextBuffer.offset = 0
                                  /\ Zlb!NextBuffer.avail = BufferSize
         /\ \A p \in Zlb!Served : p.lo < p.hi /\ p.hi <= BufferSize /\ Behind(p, Zlb!NextBuffer)
         /\ \A p, q \in Zlb!Served : p # q => ~Zlb!Overlap(p, q)
<1> DEFINE new == [gen |-> zbuf.gen, lo |-> zbuf.offset, hi |-> zbuf.offset + Zlb!Have]
           next == Zlb!NextBuffer
<1>1. /\ zbuf.gen \in Nat /\ zbuf.offset \in Nat /\ zbuf.avail \in Nat /\ strm.avail_out \in Nat
      /\ zbuf \in [gen : Nat, offset : Nat, avail : Nat]
      /\ BufferSize \in Nat
  BY NodePartsAssumption DEF ZInv, ZlibTypes
<1>2. Zlb!Have \in Nat /\ zbuf.offset + Zlb!Have <= BufferSize
  BY <1>1 DEF ZInv, StreamFits, Zlb!Have
<1>3. new \in Slice /\ new.gen = zbuf.gen /\ new.lo = zbuf.offset /\ new.hi = zbuf.offset + Zlb!Have
  BY <1>1, <1>2 DEF Slice
<1>4. /\ next \in [gen : Nat, offset : Nat, avail : Nat] /\ next.offset <= BufferSize
      /\ strm.avail_out = 0 => next.offset = 0 /\ next.avail = BufferSize
      /\ \/ next.gen = zbuf.gen + 1
         \/ next.gen = zbuf.gen /\ next.offset = zbuf.offset + Zlb!Have
  <2>1. CASE strm.avail_out = 0 \/ zbuf.offset + Zlb!Have >= BufferSize
    <3>1. next = [gen |-> zbuf.gen + 1, offset |-> 0, avail |-> BufferSize]
      BY <2>1 DEF Zlb!NextBuffer
    <3> QED
      BY <1>1, <3>1
  <2>2. CASE ~(strm.avail_out = 0 \/ zbuf.offset + Zlb!Have >= BufferSize)
    <3>1. next = [zbuf EXCEPT !.offset = @ + Zlb!Have]
      BY <2>2 DEF Zlb!NextBuffer
    <3> QED
      BY <1>1, <1>2, <2>2, <3>1
  <2> QED
    BY <2>1, <2>2
<1> HIDE DEF new, next
<1>5. Zlb!Served = zpushed \/ (Zlb!Served = zpushed \cup {new} /\ new.lo < new.hi)
  BY <1>1, <1>2, <1>3 DEF Zlb!Served, new
<1>6. \A p \in zpushed : p \in Slice /\ p.gen \in Nat /\ p.lo \in Nat /\ p.hi \in Nat
  BY DEF ZInv, ZlibTypes, Slice
<1>7. \A p \in zpushed : Behind(p, next)
  BY <1>1, <1>2, <1>4, <1>6 DEF ZInv, SlicesBehind, Behind
<1>8. new.hi <= BufferSize /\ Behind(new, next)
  BY <1>1, <1>2, <1>3, <1>4 DEF Behind
<1>9. \A p \in zpushed : ~Zlb!Overlap(p, new) /\ ~Zlb!Overlap(new, p)
  BY <1>1, <1>2, <1>3, <1>6 DEF ZInv, SlicesBehind, Behind, Zlb!Overlap
<1>10. \A p, q \in Zlb!Served : p # q => ~Zlb!Overlap(p, q)
  BY <1>5, <1>9 DEF ZInv, SlicesBehind
<1> QED
  BY <1>2, <1>3, <1>4, <1>5, <1>6, <1>7, <1>8, <1>10 DEF next, ZInv, SlicesBehind

(* After without an error: the chunk is done, or goes on in a new buffer.  *)
LEMMA ServeZInv ==
  ASSUME ZInv, Zlb!AfterOk, zpushed' = Zlb!Served, zbuf' = Zlb!NextBuffer,
         zerr' = zerr, zbinding' = zbinding, zreset' = zreset,
         \/ /\ strm.avail_out = 0 /\ zwork' = "queued" /\ zbusy'
            /\ zchunk' = [zchunk EXCEPT !.inOff = @ + Zlb!Consumed, !.avail = strm.avail_in]
            /\ strm' = Zlb!Pointed(zchunk.inOff + Zlb!Consumed, strm.avail_in, 0, BufferSize,
                                   Zlb!NextBuffer.gen)
            /\ UNCHANGED <<zmode, zrefs, zcount>>
         \/ /\ strm.avail_out > 0 /\ zwork' = "none" /\ ~zbusy' /\ zbusy' \in BOOLEAN
            /\ zrefs' = zrefs - 1 /\ zmode' \in {"open", "none", zmode}
            /\ zchunk' = Zlb!ChunkDone
            /\ zcount' = [zcount EXCEPT !.done = @ + 1] /\ UNCHANGED strm
  PROVE  ZInv'
<1>1. /\ zwork = "worked" /\ zmode \in {"open", "aborted"} /\ zbusy /\ zrefs = 1 /\ zchunk.on
      /\ zbinding = "held" /\ zcount.errors = 0 /\ zcount.given = zcount.done + 1
      /\ zerr \in {"ok", "end"}
  <2>1. /\ zwork = "worked" /\ zerr \in {"ok", "end"} /\ zrefs > 0
        /\ zbinding \in {"held", "null"}
    BY DEF ZInv, ZlibTypes, Zlb!AfterOk, Zlb!Fatal
  <2> QED
    BY <2>1 DEF ZInv, WriteHeld
<1>2. /\ zpushed' \subseteq Slice /\ zbuf' \in [gen : Nat, offset : Nat, avail : Nat]
      /\ zbuf'.offset <= BufferSize
      /\ strm.avail_out = 0 => zbuf'.offset = 0 /\ zbuf'.avail = BufferSize
  BY <1>1, ServedBehind
<1>3. SlicesBehind'
  <2>1. /\ \A p \in zpushed' : p.lo < p.hi /\ p.hi <= BufferSize /\ Behind(p, zbuf')
        /\ \A p, q \in zpushed' : p # q => ~Zlb!Overlap(p, q)
    BY <1>1, ServedBehind
  <2> QED
    BY <2>1 DEF SlicesBehind, Behind, Zlb!Overlap
<1>4. /\ zchunk \in Chunk /\ zchunk.inOff \in Nat
      /\ zchunk.avail \in Nat /\ strm.avail_in \in Nat /\ strm.avail_in <= zchunk.avail
      /\ zchunk.inOff + zchunk.avail <= ChunkLength /\ Zlb!Consumed \in Nat
      /\ Zlb!Consumed + strm.avail_in = zchunk.avail
      /\ BufferSize \in Nat /\ strm.avail_out \in Nat /\ ChunkLength \in Nat
  BY <1>1, NodePartsAssumption DEF ZInv, ZlibTypes, Chunk, StreamFits, Zlb!Consumed
<1>5. CASE strm.avail_out = 0
  <2>0. zchunk.inOff + Zlb!Consumed \in Nat
    BY <1>4
  <2>1. /\ zchunk'.on /\ zchunk'.inOff = zchunk.inOff + Zlb!Consumed /\ zchunk'.avail = strm.avail_in
        /\ zchunk' \in Chunk
        /\ zwork' = "queued" /\ zbusy' /\ UNCHANGED <<zmode, zrefs, zcount>>
    <3>1. /\ zwork' = "queued" /\ zbusy' /\ UNCHANGED <<zmode, zrefs, zcount>>
          /\ zchunk' = [zchunk EXCEPT !.inOff = zchunk.inOff + Zlb!Consumed,
                                      !.avail = strm.avail_in]
      BY <1>5
    <3>2. /\ zchunk'.on = zchunk.on /\ zchunk'.inOff = zchunk.inOff + Zlb!Consumed
          /\ zchunk'.avail = strm.avail_in
          /\ zchunk' \in Chunk
      BY <1>1, <1>4, <2>0, <3>1 DEF Chunk
    <3> QED
      BY <1>1, <3>1, <3>2
  <2>2. /\ strm'.in = zchunk'.inOff /\ strm'.avail_in = zchunk'.avail /\ strm'.out = 0
        /\ strm'.avail_out = BufferSize /\ strm'.to = zbuf'.gen
        /\ strm' \in [in : Nat, avail_in : Nat, out : Nat, avail_out : Nat, to : Nat]
    BY <1>1, <1>2, <1>4, <1>5, <2>1 DEF Zlb!Pointed
  <2>3. ZlibTypes'
    BY <1>1, <1>2, <2>1, <2>2 DEF ZInv, ZlibTypes, WriteHeld
  <2>4. WriteHeld'
    BY <1>1, <2>1 DEF WriteHeld
  <2>5. StreamFits'
    BY <1>2, <1>4, <1>5, <2>1, <2>2 DEF StreamFits
  <2> QED
    BY <1>3, <2>3, <2>4, <2>5 DEF ZInv
<1>6. CASE strm.avail_out > 0
  <2>0. zchunk.inOff + Zlb!Consumed \in Nat
    BY <1>4
  <2>1. /\ ~zchunk'.on /\ zchunk'.avail = strm.avail_in /\ zchunk'.err = zerr
        /\ zchunk' \in Chunk
        /\ zwork' = "none" /\ ~zbusy' /\ zbusy' \in BOOLEAN /\ zrefs' = 0 /\ UNCHANGED strm
        /\ zmode' \in {"new", "open", "none", "aborted"}
    <3>1. /\ zwork' = "none" /\ ~zbusy' /\ zbusy' \in BOOLEAN /\ UNCHANGED strm
          /\ zrefs' = zrefs - 1 /\ zmode' \in {"open", "none", zmode}
          /\ zchunk' = [zchunk EXCEPT !.on = FALSE, !.inOff = zchunk.inOff + Zlb!Consumed,
                                      !.avail = strm.avail_in, !.err = zerr]
      BY <1>6 DEF Zlb!ChunkDone
    <3>2. /\ ~zchunk'.on /\ zchunk'.avail = strm.avail_in /\ zchunk'.err = zerr
          /\ zchunk' \in Chunk
      BY <1>1, <1>4, <2>0, <3>1 DEF Chunk
    <3> QED
      BY <1>1, <3>1, <3>2
  <2>2. /\ zcount' \in [given : Nat, done : Nat, errors : Nat, made : Nat]
        /\ zcount'.given = zcount'.done /\ zcount'.errors = 0
    BY <1>1, <1>4, <1>6 DEF ZInv, ZlibTypes
  <2>3. ZlibTypes'
    BY <1>1, <1>2, <2>1, <2>2 DEF ZInv, ZlibTypes
  <2>4. WriteHeld'
    BY <1>1, <2>1, <2>2 DEF WriteHeld, ZInv, ZlibTypes
  <2>5. zerr = "ok" /\ zreset = "none" => strm.avail_in = 0
    BY <1>1, <1>4, <1>6 DEF ZInv, StreamFits
  <2>6. StreamFits'
    BY <1>2, <2>1, <2>5 DEF StreamFits
  <2> QED
    BY <1>3, <2>3, <2>4, <2>6 DEF ZInv
<1> QED
  BY <1>4, <1>5, <1>6

LEMMA AbortZInv == ASSUME ZInv, Zlb!Abort PROVE ZInv'
BY DEF Zlb!Abort, ZInv, ZlibTypes, WriteHeld, StreamFits, SlicesBehind, Behind, Zlb!Overlap

(* Nothing is worked on, and only who holds the stream changes.            *)
LEMMA IdleZInv ==
  ASSUME ZInv, zwork = "none", zmode' \in {"new", "open", "none", "aborted"},
         zbinding' \in {zbinding, "null"}, zerr' = zerr,
         UNCHANGED <<zbusy, zrefs, zwork, strm, zchunk, zbuf, zpushed, zcount, zreset>>
  PROVE  ZInv'
BY DEF ZInv, ZlibTypes, WriteHeld, StreamFits, SlicesBehind, Behind, Zlb!Overlap

LEMMA TransformZInv ==
  ASSUME ZInv, NEW n \in {0, ChunkLength}, Zlb!Transform(n)
  PROVE  ZInv'
<1>1. CASE ~Zlb!MayWrite(0, n, zbuf.offset, BufferSize - zbuf.offset)
  BY <1>1, AbortZInv DEF Zlb!Transform
<1>2. CASE Zlb!MayWrite(0, n, zbuf.offset, BufferSize - zbuf.offset)
  <2>1. /\ n \in Nat /\ n <= ChunkLength /\ zmode = "open" /\ zwork = "none" /\ zrefs = 0
        /\ zbuf.offset \in Nat /\ zbuf.offset <= BufferSize /\ BufferSize \in Nat
        /\ BufferSize - zbuf.offset \in Nat /\ zbinding = "held" /\ ~zchunk.on
        /\ zcount.errors = 0 /\ zcount.given = zcount.done /\ zbuf.gen \in Nat
        /\ zreset \in {"none", "late", "raced"}
    BY <1>2, NodePartsAssumption DEF ZInv, ZlibTypes, WriteHeld, StreamFits, Zlb!MayWrite, Zlb!Transform
  <2>2. /\ zbusy' = TRUE /\ zrefs' = zrefs + 1 /\ zwork' = "queued"
        /\ strm' = [in |-> 0, avail_in |-> n, out |-> zbuf.offset,
                    avail_out |-> BufferSize - zbuf.offset, to |-> zbuf.gen]
        /\ zchunk' = [on |-> TRUE, inOff |-> 0, avail |-> n, err |-> "ok"]
        /\ zreset' = IF zreset = "raced" THEN "raced" ELSE "none"
        /\ zbuf' = [zbuf EXCEPT !.avail = BufferSize - zbuf.offset]
        /\ zcount' = [zcount EXCEPT !.given = @ + 1]
        /\ UNCHANGED <<zmode, zdict, zerr, zbinding, zclosed, zpushed>>
    BY <1>2 DEF Zlb!Transform, Zlb!Pointed, Zlb!NoChunk
  <2>3. /\ zcount' \in [given : Nat, done : Nat, errors : Nat, made : Nat]
        /\ zcount'.given = zcount'.done + 1 /\ zcount'.errors = 0
    BY <2>1, <2>2 DEF ZInv, ZlibTypes
  <2>4. /\ zbuf' \in [gen : Nat, offset : Nat, avail : Nat] /\ zbuf'.gen = zbuf.gen
        /\ zbuf'.offset = zbuf.offset /\ zbuf'.avail = BufferSize - zbuf.offset
    BY <2>1, <2>2 DEF ZInv, ZlibTypes
  <2>5. ZlibTypes'
    BY <2>1, <2>2, <2>3, <2>4 DEF ZInv, ZlibTypes, Chunk
  <2>6. WriteHeld'
    BY <2>1, <2>2, <2>3 DEF WriteHeld
  <2>7. StreamFits'
    BY <2>1, <2>2, <2>4 DEF StreamFits
  <2>8. SlicesBehind'
    BY <2>2, <2>4 DEF ZInv, SlicesBehind, Behind, Zlb!Overlap
  <2> QED
    BY <2>5, <2>6, <2>7, <2>8 DEF ZInv
<1> QED
  BY <1>1, <1>2

LEMMA ProcessZInv ==
  ASSUME ZInv, NEW taken \in Nat, NEW wrote \in Nat,
         NEW err \in {"ok", "end", "need_dict", "data"}, Zlb!Process(taken, wrote, err)
  PROVE  ZInv'
<1>1. /\ zwork = "working" /\ zwork' = "worked" /\ taken <= strm.avail_in /\ wrote <= strm.avail_out
      /\ strm.in \in Nat /\ strm.avail_in \in Nat /\ strm.out \in Nat /\ strm.avail_out \in Nat
      /\ err = "ok" /\ zreset # "raced" => taken = strm.avail_in \/ wrote = strm.avail_out
      /\ zerr' = err
      /\ UNCHANGED <<zmode, zbusy, zrefs, zbinding, zchunk, zbuf, zpushed, zreset>>
  BY DEF Zlb!Process, ZInv, ZlibTypes
<1>2. /\ strm' \in [in : Nat, avail_in : Nat, out : Nat, avail_out : Nat, to : Nat]
      /\ strm'.in = strm.in + taken /\ strm'.avail_in = strm.avail_in - taken
      /\ strm'.out = strm.out + wrote /\ strm'.avail_out = strm.avail_out - wrote
      /\ strm'.to = strm.to
  <2>1. /\ strm' = [strm EXCEPT !.in = @ + taken, !.avail_in = @ - taken,
                                !.out = @ + wrote, !.avail_out = @ - wrote]
        /\ strm \in [in : Nat, avail_in : Nat, out : Nat, avail_out : Nat, to : Nat]
    BY DEF Zlb!Process, ZInv, ZlibTypes
  <2>2. /\ strm.in + taken \in Nat /\ strm.avail_in - taken \in Nat
        /\ strm.out + wrote \in Nat /\ strm.avail_out - wrote \in Nat
    BY <1>1
  <2> QED
    BY <2>1, <2>2
<1>3. /\ zcount' \in [given : Nat, done : Nat, errors : Nat, made : Nat]
      /\ zcount'.given = zcount.given /\ zcount'.done = zcount.done
      /\ zcount'.errors = zcount.errors
  BY DEF Zlb!Process, ZInv, ZlibTypes
<1>4. ZlibTypes'
  BY <1>1, <1>2, <1>3 DEF ZInv, ZlibTypes
<1>5. WriteHeld'
  BY <1>1, <1>3 DEF ZInv, WriteHeld
<1>6. StreamFits'
  <2>1. /\ strm.in + strm.avail_in = zchunk.inOff + zchunk.avail
        /\ zchunk.inOff + zchunk.avail <= ChunkLength /\ strm.avail_in <= zchunk.avail
        /\ strm.out + strm.avail_out = BufferSize /\ zbuf.offset + zbuf.avail = BufferSize
        /\ strm.avail_out <= zbuf.avail /\ strm.to = zbuf.gen /\ zbuf.offset <= BufferSize
        /\ zchunk.on
    BY <1>1 DEF ZInv, StreamFits, WriteHeld
  <2>2. zchunk.avail \in Nat /\ zbuf.avail \in Nat
    BY DEF ZInv, ZlibTypes, Chunk
  <2> QED
    BY <1>1, <1>2, <2>1, <2>2 DEF StreamFits
<1>7. SlicesBehind'
  BY <1>1 DEF ZInv, SlicesBehind, Behind, Zlb!Overlap
<1> QED
  BY <1>4, <1>5, <1>6, <1>7 DEF ZInv

LEMMA AfterErrorZInv == ASSUME ZInv, Zlb!AfterError PROVE ZInv'
<1>1. /\ zwork = "worked" /\ zchunk.on /\ zrefs = 1 /\ zcount.errors = 0
      /\ zbinding' = "null" /\ zbusy' = FALSE /\ zrefs' = 0 /\ zwork' = "none"
      /\ UNCHANGED <<zmode, zerr, strm, zchunk, zbuf, zpushed, zreset>>
  BY DEF Zlb!AfterError, ZInv, ZlibTypes, WriteHeld
<1>2. /\ zcount' \in [given : Nat, done : Nat, errors : Nat, made : Nat]
      /\ zcount'.given = zcount.given /\ zcount'.done = zcount.done /\ zcount'.errors = 1
  BY <1>1 DEF Zlb!AfterError, ZInv, ZlibTypes
<1>3. ZlibTypes'
  BY <1>1, <1>2 DEF ZInv, ZlibTypes
<1>4. WriteHeld'
  BY <1>1, <1>2 DEF ZInv, WriteHeld
<1>5. StreamFits' /\ SlicesBehind'
  BY <1>1 DEF ZInv, StreamFits, SlicesBehind, Behind, Zlb!Overlap
<1> QED
  BY <1>3, <1>4, <1>5 DEF ZInv

(* A reset while nothing works on the stream, or before the thread begins, *)
(* or after it has ended, or amidst its work.                              *)
LEMMA ScriptResetZInv == ASSUME ZInv, Zlb!ScriptReset PROVE ZInv'
<1>1. /\ zerr' = "ok" /\ zbinding = "held"
      /\ zreset' \in {"none", "late", "raced"}
      /\ zreset' = "none" => zreset = "none" /\ (zwork = "worked" => zerr = "ok")
      /\ zwork = "working" => zreset' = "raced"
      /\ UNCHANGED <<zmode, zbusy, zrefs, zwork, strm, zbinding, zchunk, zbuf, zpushed, zcount>>
  BY DEF Zlb!ScriptReset, ZInv, ZlibTypes
<1>2. ZlibTypes' /\ SlicesBehind'
  BY <1>1 DEF ZInv, ZlibTypes, SlicesBehind, Behind, Zlb!Overlap
<1>3. WriteHeld' /\ StreamFits'
  BY <1>1 DEF ZInv, WriteHeld, StreamFits
<1> QED
  BY <1>2, <1>3 DEF ZInv

(* Error is called by a reset while the thread works on, and again, if it  *)
(* is, by After, which nothing holds the stream for.                       *)
LEMMA ResetFailsZInv ==
  ASSUME ZInv, Zlb!ResetFails \/ Zlb!AfterUnheld PROVE ZInv'
<1>1. /\ zwork \in {"working", "worked"} /\ zchunk.on /\ zcount.errors \in Nat
      /\ zmode \in {"open", "aborted"} /\ zmode' \in {"open", "aborted"}
      /\ zbinding' = "null" /\ zbusy' = FALSE /\ zrefs' = 0 /\ zreset' = "raced"
      /\ zerr' \in {"ok", "end", "need_dict", "data"}
      /\ UNCHANGED <<zwork, strm, zchunk, zbuf, zpushed>>
  <2>1. CASE Zlb!ResetFails
    BY <2>1 DEF Zlb!ResetFails, ZInv, ZlibTypes, WriteHeld
  <2>2. CASE Zlb!AfterUnheld
    BY <2>2 DEF Zlb!AfterUnheld, ZInv, ZlibTypes, WriteHeld
  <2> QED
    BY <2>1, <2>2
<1>2. /\ zcount' \in [given : Nat, done : Nat, errors : Nat, made : Nat]
      /\ zcount'.given = zcount.given /\ zcount'.done = zcount.done
  BY DEF Zlb!ResetFails, Zlb!AfterUnheld, ZInv, ZlibTypes
<1>3. ZlibTypes' /\ SlicesBehind'
  BY <1>1, <1>2 DEF ZInv, ZlibTypes, SlicesBehind, Behind, Zlb!Overlap
<1>4. WriteHeld' /\ StreamFits'
  BY <1>1, <1>2 DEF ZInv, WriteHeld, StreamFits
<1> QED
  BY <1>3, <1>4 DEF ZInv

LEMMA NextZInv == ASSUME ZInv, [Zlb!Next]_zlibVars PROVE ZInv'
<1>1. CASE UNCHANGED zlibVars
  BY <1>1 DEF zlibVars, ZInv, ZlibTypes, WriteHeld, StreamFits, SlicesBehind, Behind, Zlb!Overlap
<1>2. ASSUME NEW d \in BOOLEAN, Zlb!ZInit(d) PROVE ZInv'
  BY <1>2, IdleZInv DEF Zlb!ZInit, ZInv, WriteHeld
<1>3. CASE Zlb!ZInitFails
  BY <1>3, AbortZInv DEF Zlb!ZInitFails
<1>4. CASE Zlb!Begin
  BY <1>4 DEF Zlb!Begin, ZInv, ZlibTypes, WriteHeld, StreamFits, SlicesBehind, Behind, Zlb!Overlap
<1>5. ASSUME NEW taken \in 0 .. ChunkLength, NEW wrote \in 0 .. BufferSize,
             NEW err \in {"ok", "end", "need_dict", "data"}, Zlb!Process(taken, wrote, err)
      PROVE  ZInv'
  BY <1>5, ProcessZInv, NodePartsAssumption
<1>6. CASE Zlb!AfterMore
  BY <1>6, ServeZInv DEF Zlb!AfterMore
<1>7. CASE Zlb!AfterDone
  BY <1>7, ServeZInv DEF Zlb!AfterDone
<1>8. CASE Zlb!ClosedWithin
  <2>1. CASE strm.avail_out = 0
    BY <1>8, <2>1, AbortZInv DEF Zlb!ClosedWithin
  <2>2. CASE strm.avail_out # 0
    <3>1. strm.avail_out > 0
      BY <2>2 DEF ZInv, ZlibTypes
    <3> QED
      BY <1>8, <2>2, <3>1, ServeZInv DEF Zlb!ClosedWithin, Zlb!CloseCtx
  <2> QED
    BY <2>1, <2>2
<1>9. CASE Zlb!ScriptClose
  <2>1. CASE zbinding = "null"
    BY <1>9, <2>1 DEF Zlb!ScriptClose, ZInv, ZlibTypes, WriteHeld, StreamFits, SlicesBehind, Behind,
                      Zlb!Overlap
  <2>2. CASE zbinding # "null" /\ zbusy
    BY <1>9, <2>2, AbortZInv DEF Zlb!ScriptClose
  <2>3. CASE zbinding # "null" /\ ~zbusy
    <3>1. zwork = "none"
      BY <2>3 DEF ZInv, ZlibTypes, WriteHeld
    <3> QED
      BY <3>1, <1>9, <2>3, IdleZInv DEF Zlb!ScriptClose, Zlb!CloseCtx, ZInv, WriteHeld
  <2> QED
    BY <2>1, <2>2, <2>3
<1>10. CASE Zlb!ZCollect
  BY <1>10, IdleZInv, AbortZInv DEF Zlb!ZCollect, Zlb!CloseCtx, ZInv, WriteHeld
<1>11. CASE Zlb!RaceEnds
  BY <1>11, AbortZInv DEF Zlb!RaceEnds
<1> QED
  BY <1>1, <1>2, <1>3, <1>4, <1>5, <1>6, <1>7, <1>8, <1>9, <1>10, <1>11, TransformZInv,
     AfterErrorZInv, ScriptResetZInv, ResetFailsZInv DEF Zlb!Next

LEMMA ZlibKeepsItsBuffersHolds == ZInv => Zlb!ZlibKeepsItsBuffers
<1> SUFFICES ASSUME ZInv PROVE Zlb!ZlibKeepsItsBuffers
  OBVIOUS
<1>1. \A p \in zpushed : p.gen \in Nat /\ p.lo \in Nat /\ p.hi \in Nat
  BY DEF ZInv, ZlibTypes, Slice
<1>2. zwork # "none" => \A p \in zpushed : ~Zlb!Overlap(p, [gen |-> strm.to, lo |-> zbuf.offset,
                                                          hi |-> strm.out + strm.avail_out])
  <2>1. zbuf.gen \in Nat /\ zbuf.offset \in Nat
    BY DEF ZInv, ZlibTypes
  <2> QED
    BY <1>1, <2>1 DEF ZInv, StreamFits, SlicesBehind, Behind, Zlb!Overlap
<1>3. zwork # "none" => strm.in + strm.avail_in <= ChunkLength /\ strm.out + strm.avail_out <= BufferSize
  BY NodePartsAssumption DEF ZInv, StreamFits
<1>4. /\ zcount.done <= zcount.given /\ zcount.given <= zcount.done + 1
      /\ zcount.errors > 0 => zchunk.on
      /\ zreset # "raced" => zcount.errors <= 1
  <2>1. zcount.done \in Nat /\ zcount.given \in Nat /\ zcount.errors \in Nat
        /\ zbinding \in {"held", "null"}
    BY DEF ZInv, ZlibTypes
  <2> QED
    BY <2>1 DEF ZInv, WriteHeld
<1>5. /\ zmode # "aborted" /\ zwork # "none" =>
           zmode = "open" /\ zchunk.on /\ (zreset # "raced" => zrefs = 1 /\ zbusy)
      /\ ~zchunk.on /\ zchunk.err = "ok" /\ zreset = "none" => zchunk.avail = 0
  BY DEF ZInv, WriteHeld, StreamFits
<1> QED
  BY <1>2, <1>3, <1>4, <1>5 DEF ZInv, SlicesBehind, Zlb!ZlibKeepsItsBuffers

-----------------------------------------------------------------------------
(* node.cc and node.js: ticks and immediates.                              *)

TickFrames == [f : {"main", "callback", "tick", "handler", "exit", "_tickCallback"}, n : Nat]
InfoBoxes == [length : Nat, index : Nat, depth : Nat]

TickTypes ==
  /\ nextTickQueue \in Seq(Nat) /\ infoBox \in InfoBoxes
  /\ inTick \in BOOLEAN /\ needSpinner \in BOOLEAN /\ need_tick_cb \in BOOLEAN
  /\ tick_spinner \in BOOLEAN /\ immediates \in Nat /\ need_immediate_cb \in BOOLEAN
  /\ frames \in Seq(TickFrames) /\ phase \in {"running", "exiting", "gone"}
  /\ exitcode \in {0, 7, 8} /\ ran \in Nat /\ ticksMade \in Nat

(* The frames of a stack: a tick was called by the loop over the queue, of *)
(* which there is one, within the length it has seen.                      *)
StackKept(s, length) ==
  /\ \A i \in DOMAIN s : s[i].f = "tick" => i + 1 \in DOMAIN s /\ s[i + 1].f = "_tickCallback"
  /\ \A i, j \in DOMAIN s : s[i].f = "_tickCallback" /\ s[j].f = "_tickCallback" => i = j
  /\ \A i \in DOMAIN s : s[i].f = "_tickCallback" => s[i].n <= length

HasLoop(s) == \E i \in DOMAIN s : s[i].f = "_tickCallback"

(* Ticks wait for the loop that runs, or for the spinner.                  *)
Spinning ==
  /\ need_tick_cb = tick_spinner /\ (~needSpinner => need_tick_cb)
  /\ nextTickQueue # <<>> => need_tick_cb \/ inTick

Ending ==
  /\ phase # "running" /\ exitcode = 0 => ran = ticksMade
  /\ phase = "gone" => frames = <<>>
  /\ phase # "gone" => (inTick <=> HasLoop(frames))

KInv ==
  /\ TickTypes /\ Tck!InOrder /\ Tck!ImmediatesAwaited
  /\ StackKept(frames, infoBox.length) /\ Spinning /\ Ending

(* A call puts a frame on the stack.                                       *)
LEMMA Pushed ==
  ASSUME NEW s \in Seq(TickFrames), NEW length \in Nat, StackKept(s, length),
         NEW f \in TickFrames,
         f.f = "tick" => s # <<>> /\ Head(s).f = "_tickCallback",
         f.f = "_tickCallback" => ~HasLoop(s) /\ f.n <= length
  PROVE  /\ <<f>> \o s \in Seq(TickFrames) /\ StackKept(<<f>> \o s, length)
         /\ HasLoop(<<f>> \o s) <=> f.f = "_tickCallback" \/ HasLoop(s)
<1> DEFINE t == <<f>> \o s
<1>1. /\ t \in Seq(TickFrames) /\ DOMAIN t = 1..Len(s) + 1 /\ DOMAIN s = 1..Len(s) /\ Len(s) \in Nat
      /\ t[1] = f /\ \A i \in 1..Len(s) : t[i + 1] = s[i]
      /\ \A i \in 2..Len(s) + 1 : i - 1 \in 1..Len(s) /\ t[i] = s[i - 1]
      /\ s # <<>> => Head(s) = s[1] /\ Len(s) # 0
  OBVIOUS
<1> HIDE DEF t
<1>2. \A i \in DOMAIN t : i = 1 \/ (i \in 2..Len(s) + 1 /\ i - 1 \in DOMAIN s /\ t[i] = s[i - 1])
  BY <1>1
<1>3. ASSUME NEW i \in DOMAIN t, t[i].f = "tick"
      PROVE  i + 1 \in DOMAIN t /\ t[i + 1].f = "_tickCallback"
  <2>1. CASE i = 1
    <3>1. 1 \in 1..Len(s) /\ s[1].f = "_tickCallback"
      BY <1>1, <1>3, <2>1
    <3> QED
      BY <1>1, <2>1, <3>1
  <2>2. CASE i # 1
    <3>1. i - 1 \in DOMAIN s /\ s[i - 1].f = "tick"
      BY <1>2, <1>3, <2>2
    <3>2. (i - 1) + 1 \in DOMAIN s /\ s[(i - 1) + 1].f = "_tickCallback"
      BY <3>1 DEF StackKept
    <3>3. i \in 1..Len(s) /\ s[i].f = "_tickCallback"
      BY <1>1, <3>1, <3>2
    <3> QED
      BY <1>1, <3>3
  <2> QED
    BY <2>1, <2>2
<1>4. ASSUME NEW i \in DOMAIN t, t[i].f = "_tickCallback"
      PROVE  /\ t[i].n <= length
             /\ i # 1 => ~(f.f = "_tickCallback")
  <2>1. CASE i = 1
    BY <1>1, <1>4, <2>1
  <2>2. CASE i # 1
    <3>1. i - 1 \in DOMAIN s /\ s[i - 1].f = "_tickCallback" /\ t[i] = s[i - 1]
      BY <1>2, <1>4, <2>2
    <3> QED
      BY <3>1 DEF StackKept, HasLoop
  <2> QED
    BY <2>1, <2>2
<1>5. ASSUME NEW i \in DOMAIN t, NEW j \in DOMAIN t,
             t[i].f = "_tickCallback", t[j].f = "_tickCallback"
      PROVE  i = j
  <2>1. CASE i = 1 \/ j = 1
    BY <1>1, <1>4, <1>5, <2>1
  <2>2. CASE i # 1 /\ j # 1
    <3>1. i - 1 \in DOMAIN s /\ j - 1 \in DOMAIN s /\ i \in Nat /\ j \in Nat
          /\ s[i - 1].f = "_tickCallback" /\ s[j - 1].f = "_tickCallback"
      BY <1>1, <1>2, <1>5, <2>2
    <3>2. i - 1 = j - 1
      BY <3>1 DEF StackKept
    <3> QED
      BY <3>1, <3>2
  <2> QED
    BY <2>1, <2>2
<1>6. HasLoop(t) <=> f.f = "_tickCallback" \/ HasLoop(s)
  <2>1. ASSUME NEW i \in DOMAIN t, t[i].f = "_tickCallback" PROVE f.f = "_tickCallback" \/ HasLoop(s)
    BY <1>1, <1>2, <2>1 DEF HasLoop
  <2>2. ASSUME NEW i \in DOMAIN s, s[i].f = "_tickCallback" PROVE HasLoop(t)
    <3>1. i + 1 \in DOMAIN t /\ t[i + 1].f = "_tickCallback"
      BY <1>1, <2>2
    <3> QED
      BY <3>1 DEF HasLoop
  <2>3. 1 \in DOMAIN t /\ t[1] = f
    BY <1>1
  <2> QED
    BY <2>1, <2>2, <2>3 DEF HasLoop
<1> QED
  BY <1>1, <1>3, <1>4, <1>5, <1>6 DEF t, StackKept

(* A return takes it away; the loop's was the only one.                    *)
LEMMA Popped ==
  ASSUME NEW s \in Seq(TickFrames), NEW length \in Nat, StackKept(s, length), s # <<>>
  PROVE  /\ Tail(s) \in Seq(TickFrames) /\ StackKept(Tail(s), length)
         /\ Head(s) \in TickFrames
         /\ Head(s).f = "_tickCallback" => ~HasLoop(Tail(s)) /\ HasLoop(s) /\ Head(s).n <= length
         /\ Head(s).f # "_tickCallback" => (HasLoop(Tail(s)) <=> HasLoop(s))
         /\ Head(s).f = "tick" => Tail(s) # <<>> /\ Head(Tail(s)).f = "_tickCallback"
<1> DEFINE t == Tail(s)
<1>1. /\ t \in Seq(TickFrames) /\ DOMAIN t = 1..Len(s) - 1 /\ DOMAIN s = 1..Len(s) /\ Len(s) \in Nat
      /\ Head(s) = s[1] /\ 1 \in DOMAIN s /\ s[1] \in TickFrames
      /\ \A i \in 1..Len(s) - 1 : t[i] = s[i + 1] /\ i + 1 \in 1..Len(s)
      /\ \A i \in 2..Len(s) : t[i - 1] = s[i] /\ i - 1 \in 1..Len(s) - 1
      /\ Len(t) = Len(s) - 1
  OBVIOUS
<1> HIDE DEF t
<1>a. /\ t # <<>> => Head(t) = t[1]
      /\ t = <<>> => Len(t) = 0
  BY <1>1
<1>2. ASSUME NEW i \in DOMAIN t, t[i].f = "tick"
      PROVE  i + 1 \in DOMAIN t /\ t[i + 1].f = "_tickCallback"
  <2>1. i + 1 \in DOMAIN s /\ s[i + 1].f = "tick" /\ i \in Nat
    BY <1>1, <1>2
  <2>2. (i + 1) + 1 \in DOMAIN s /\ s[(i + 1) + 1].f = "_tickCallback"
    BY <2>1 DEF StackKept
  <2>3. i + 1 \in 1..Len(s) - 1
    BY <1>1, <2>1, <2>2
  <2> QED
    BY <1>1, <2>2, <2>3
<1>3. ASSUME NEW i \in DOMAIN t, t[i].f = "_tickCallback"
      PROVE  i + 1 \in DOMAIN s /\ s[i + 1].f = "_tickCallback" /\ t[i].n <= length /\ i \in Nat /\ i # 0
  <2>1. i + 1 \in DOMAIN s /\ s[i + 1] = t[i] /\ i \in Nat /\ i # 0
    BY <1>1
  <2> QED
    BY <1>3, <2>1 DEF StackKept
<1>4. ASSUME NEW i \in DOMAIN t, NEW j \in DOMAIN t,
             t[i].f = "_tickCallback", t[j].f = "_tickCallback"
      PROVE  i = j
  <2>1. /\ i + 1 \in DOMAIN s /\ s[i + 1].f = "_tickCallback" /\ i \in Nat
        /\ j + 1 \in DOMAIN s /\ s[j + 1].f = "_tickCallback" /\ j \in Nat
    BY <1>3, <1>4
  <2>2. i + 1 = j + 1
    BY <2>1 DEF StackKept
  <2> QED
    BY <2>1, <2>2
<1>5. StackKept(t, length)
  BY <1>2, <1>3, <1>4 DEF StackKept
<1>6. HasLoop(t) => HasLoop(s) /\ Head(s).f # "_tickCallback"
  <2>1. SUFFICES ASSUME NEW i \in DOMAIN t, t[i].f = "_tickCallback"
                 PROVE  HasLoop(s) /\ Head(s).f # "_tickCallback"
    BY DEF HasLoop
  <2>2. /\ i + 1 \in DOMAIN s /\ s[i + 1].f = "_tickCallback" /\ i + 1 # 1
    BY <1>3, <2>1
  <2> QED
    BY <1>1, <2>2 DEF HasLoop, StackKept
<1>7. HasLoop(s) /\ Head(s).f # "_tickCallback" => HasLoop(t)
  <2>1. SUFFICES ASSUME NEW i \in DOMAIN s, s[i].f = "_tickCallback", s[1].f # "_tickCallback"
                 PROVE  HasLoop(t)
    BY <1>1 DEF HasLoop
  <2>2. i - 1 \in DOMAIN t /\ t[i - 1].f = "_tickCallback"
    BY <1>1, <2>1
  <2> QED
    BY <2>2 DEF HasLoop
<1>8. Head(s).f = "_tickCallback" => HasLoop(s) /\ Head(s).n <= length
  BY <1>1 DEF HasLoop, StackKept
<1>9. Head(s).f = "tick" => t # <<>> /\ Head(t).f = "_tickCallback"
  <2>1. SUFFICES ASSUME s[1].f = "tick" PROVE t # <<>> /\ Head(t).f = "_tickCallback"
    BY <1>1
  <2>2. 1 + 1 \in DOMAIN s /\ s[1 + 1].f = "_tickCallback"
    BY <1>1, <2>1 DEF StackKept
  <2>3. Len(s) # 1 /\ t[1].f = "_tickCallback"
    BY <1>1, <2>2
  <2> QED
    BY <1>1, <1>a, <2>3
<1> QED
  BY <1>1, <1>5, <1>6, <1>7, <1>8, <1>9 DEF t

LEMMA InitKInv == Tck!Init => KInv
<1> SUFFICES ASSUME Tck!Init PROVE KInv
  OBVIOUS
<1>1. /\ nextTickQueue = <<>> /\ infoBox = [length |-> 0, index |-> 0, depth |-> 0]
      /\ frames = <<[f |-> "main", n |-> 0]>> /\ phase = "running" /\ exitcode = 0
      /\ inTick = FALSE /\ needSpinner = TRUE /\ need_tick_cb = FALSE /\ tick_spinner = FALSE
      /\ immediates = 0 /\ need_immediate_cb = FALSE /\ ran = 0 /\ ticksMade = 0
  BY DEF Tck!Init, Tck!Zero, Tck!Frame
<1>2. TickTypes
  <2>1. frames \in Seq(TickFrames)
    BY <1>1 DEF TickFrames
  <2> QED
    <3>1. infoBox \in InfoBoxes /\ nextTickQueue \in Seq(Nat)
      BY <1>1 DEF InfoBoxes
    <3> QED
      BY <1>1, <2>1, <3>1 DEF TickTypes
<1>3. Tck!InOrder /\ Tck!ImmediatesAwaited
  BY <1>1 DEF Tck!InOrder, Tck!ImmediatesAwaited
<1>4. StackKept(frames, infoBox.length) /\ ~HasLoop(frames)
  BY <1>1 DEF StackKept, HasLoop
<1>5. Spinning /\ Ending
  BY <1>1, <1>4 DEF Spinning, Ending
<1> QED
  BY <1>2, <1>3, <1>4, <1>5 DEF KInv

(* A longer queue lets the loop see no less.                               *)
LEMMA LongerKept ==
  ASSUME NEW s \in Seq(TickFrames), NEW m \in Nat, NEW n \in Nat, StackKept(s, m),
         m <= n \/ ~HasLoop(s)
  PROVE  StackKept(s, n)
<1>1. ASSUME NEW i \in DOMAIN s PROVE s[i].n \in Nat
  <2>1. s[i] \in TickFrames
    OBVIOUS
  <2> QED
    BY <2>1 DEF TickFrames
<1>2. \A i \in DOMAIN s : s[i].f = "_tickCallback" => s[i].n <= n
  BY <1>1 DEF StackKept, HasLoop
<1> QED
  BY <1>2 DEF StackKept

(* What JavaScript does that leaves ticks and frames alone.                *)
LEMMA ImmediateKInv ==
  ASSUME KInv, NEW s \in Seq(TickFrames), frames' = s, StackKept(s, infoBox.length),
         HasLoop(s) <=> HasLoop(frames), phase' \in {phase, "exiting"},
         phase = "running" \/ phase' = phase, phase # "gone" \/ frames' = frames,
         phase' # phase => ran = ticksMade,
         immediates' \in Nat, need_immediate_cb' = (immediates' > 0),
         \/ UNCHANGED <<need_tick_cb, tick_spinner>>
         \/ need_tick_cb' = TRUE /\ tick_spinner' = TRUE,
         UNCHANGED <<nextTickQueue, infoBox, inTick, needSpinner, exitcode, ran, ticksMade>>
  PROVE  KInv'
<1>1. TickTypes'
  <2>0. need_immediate_cb' \in BOOLEAN
    <3>1. CASE immediates' > 0
      BY <3>1
    <3>2. CASE ~(immediates' > 0)
      BY <3>2
    <3> QED
      BY <3>1, <3>2
  <2>1. need_immediate_cb' \in BOOLEAN /\ need_tick_cb' \in BOOLEAN /\ tick_spinner' \in BOOLEAN
    BY <2>0 DEF KInv, TickTypes
  <2>2. phase' \in {"running", "exiting", "gone"}
    BY DEF KInv, TickTypes
  <2> QED
    BY <2>1, <2>2 DEF KInv, TickTypes
<1>2. Tck!InOrder'
  BY DEF KInv, Tck!InOrder
<1>3. Tck!ImmediatesAwaited'
  BY DEF Tck!ImmediatesAwaited
<1>4. StackKept(frames, infoBox.length)'
  BY DEF StackKept
<1>5. Spinning'
  BY DEF KInv, TickTypes, Spinning
<1>6. Ending'
  BY DEF KInv, TickTypes, Ending, HasLoop
<1> QED
  BY <1>1, <1>2, <1>3, <1>4, <1>5, <1>6 DEF KInv

(* The ticks after the first n of the queue, r of which have run before.   *)
Ordered(q, n, r) == \A i \in n + 1..Len(q) : q[i] = r + i - n

LEMMA OrderedLonger ==
  ASSUME NEW q \in Seq(Nat), NEW n \in Nat, NEW r \in Nat, NEW m \in Nat,
         Len(q) - n = m - r, Ordered(q, n, r)
  PROVE  LET t == Append(q, m + 1)
         IN t \in Seq(Nat) /\ Len(t) = Len(q) + 1 /\ Ordered(t, n, r)
<1> DEFINE t == Append(q, m + 1)
<1>1. /\ t \in Seq(Nat) /\ Len(t) = Len(q) + 1 /\ Len(q) \in Nat
      /\ \A i \in 1..Len(q) : t[i] = q[i]
      /\ t[Len(q) + 1] = m + 1
  OBVIOUS
<1> HIDE DEF t
<1>2. ASSUME NEW i \in n + 1..Len(q) + 1 PROVE t[i] = r + i - n
  <2>1. CASE i \in n + 1..Len(q)
    BY <1>1, <2>1 DEF Ordered
  <2>2. CASE i = Len(q) + 1
    BY <1>1, <2>2
  <2> QED
    BY <1>1, <2>1, <2>2
<1> QED
  BY <1>1, <1>2 DEF t, Ordered

LEMMA OrderedRest ==
  ASSUME NEW q \in Seq(Nat), NEW n \in Nat, NEW r \in Nat, n <= Len(q), Ordered(q, n, r)
  PROVE  LET t == SubSeq(q, n + 1, Len(q))
         IN t \in Seq(Nat) /\ Len(t) = Len(q) - n /\ Ordered(t, 0, r)
<1> DEFINE t == SubSeq(q, n + 1, Len(q))
<1>a. /\ \A i \in n + 1..Len(q) : i \in 1..Len(q) /\ q[i] \in Nat
      /\ Len(q) \in Nat
  OBVIOUS
<1>b. t \in Seq(Nat) /\ Len(t) = Len(q) - n
  BY <1>a
<1>c. \A i \in 1..Len(q) - n : t[i] = q[n + 1 + i - 1]
  BY <1>a
<1> HIDE DEF t
<1>1. /\ t \in Seq(Nat) /\ Len(t) = Len(q) - n /\ Len(q) \in Nat
      /\ \A i \in 1..Len(q) - n : t[i] = q[n + i]
  BY <1>a, <1>b, <1>c
<1>2. ASSUME NEW i \in 0 + 1..Len(q) - n PROVE t[i] = r + i - 0
  <2>1. n + i \in n + 1..Len(q) /\ t[i] = q[n + i]
    BY <1>1
  <2>2. q[n + i] = r + (n + i) - n
    BY <2>1 DEF Ordered
  <2> QED
    BY <1>1, <2>1, <2>2
<1> QED
  BY <1>1, <1>2 DEF t, Ordered

LEMMA OrderedNext ==
  ASSUME NEW q \in Seq(Nat), NEW n \in Nat, NEW r \in Nat, n < Len(q), Ordered(q, n, r)
  PROVE  q[n + 1] = r + 1 /\ Ordered(q, n + 1, r + 1)
<1>1. n + 1 \in n + 1..Len(q)
  OBVIOUS
<1>2. q[n + 1] = r + (n + 1) - n
  BY <1>1 DEF Ordered
<1>3. ASSUME NEW i \in (n + 1) + 1..Len(q) PROVE q[i] = (r + 1) + i - (n + 1)
  <2>1. i \in n + 1..Len(q)
    OBVIOUS
  <2>2. q[i] = r + i - n
    BY <2>1 DEF Ordered
  <2> QED
    BY <2>2
<1> QED
  BY <1>2, <1>3 DEF Ordered

LEMMA InOrderNext ==
  ASSUME Len(nextTickQueue') = infoBox'.length, Ordered(nextTickQueue', infoBox'.index, ran'),
         ran' <= ticksMade', infoBox'.index <= infoBox'.length,
         infoBox'.length - infoBox'.index = ticksMade' - ran'
  PROVE  Tck!InOrder'
BY DEF Tck!InOrder, Ordered

LEMMA NextTickKInv == ASSUME KInv, Tck!NextTick PROVE KInv'
<1>1. /\ nextTickQueue \in Seq(Nat) /\ infoBox \in InfoBoxes /\ ran \in Nat /\ ticksMade \in Nat
      /\ infoBox.length \in Nat /\ infoBox.index \in Nat
      /\ ran <= ticksMade /\ infoBox.length = Len(nextTickQueue)
      /\ infoBox.index <= infoBox.length /\ infoBox.length - infoBox.index = ticksMade - ran
      /\ Ordered(nextTickQueue, infoBox.index, ran)
  BY DEF KInv, TickTypes, InfoBoxes, Tck!InOrder, Ordered
<1>2. /\ ticksMade' = ticksMade + 1 /\ nextTickQueue' = Append(nextTickQueue, ticksMade + 1)
      /\ infoBox' = [infoBox EXCEPT !.length = @ + 1] /\ phase = "running"
      /\ UNCHANGED <<inTick, immediates, need_immediate_cb, frames, phase, exitcode, ran>>
  BY DEF Tck!NextTick, Tck!queuevars, Tck!spinvars, Tck!immvars, Tck!endvars
<1>3. /\ infoBox' \in InfoBoxes /\ infoBox'.length = infoBox.length + 1
      /\ infoBox'.index = infoBox.index
  BY <1>1, <1>2 DEF InfoBoxes
<1>4. /\ nextTickQueue' \in Seq(Nat) /\ Len(nextTickQueue') = infoBox.length + 1
      /\ Ordered(nextTickQueue', infoBox.index, ran)
  BY <1>1, <1>2, OrderedLonger
<1>5. /\ needSpinner' \in BOOLEAN /\ need_tick_cb' = TRUE /\ tick_spinner' = TRUE
  <2>1. CASE needSpinner
    BY <2>1 DEF Tck!NextTick, Tck!NeedTickCallback
  <2>2. CASE ~needSpinner
    BY <2>2 DEF Tck!NextTick, KInv, TickTypes, Spinning, Tck!spinvars
  <2> QED
    BY <2>1, <2>2
<1>6. TickTypes'
  BY <1>1, <1>2, <1>3, <1>4, <1>5 DEF KInv, TickTypes
<1>7. Tck!InOrder'
  <2>1. /\ ran' <= ticksMade' /\ infoBox'.index <= infoBox'.length
        /\ infoBox'.length - infoBox'.index = ticksMade' - ran'
    BY <1>1, <1>2, <1>3
  <2>2. Len(nextTickQueue') = infoBox'.length /\ Ordered(nextTickQueue', infoBox'.index, ran')
    BY <1>2, <1>3, <1>4
  <2> QED
    BY <2>1, <2>2, InOrderNext
<1>8. StackKept(frames, infoBox.length)'
  <2>1. StackKept(frames, infoBox'.length)
    BY <1>1, <1>3, LongerKept DEF KInv, TickTypes
  <2> QED
    BY <1>2, <2>1 DEF StackKept
<1>9. Tck!ImmediatesAwaited' /\ Spinning' /\ Ending'
  BY <1>2, <1>5 DEF KInv, Tck!ImmediatesAwaited, Spinning, Ending
<1> QED
  BY <1>6, <1>7, <1>8, <1>9 DEF KInv

(* tickDone: what has run goes from the queue, the rest waits for the      *)
(* spinner.                                                                *)
LEMMA TickDoneKept ==
  ASSUME KInv, NEW d \in Nat, Tck!TickDone(d), UNCHANGED <<ran, ticksMade>>
  PROVE  /\ nextTickQueue' \in Seq(Nat) /\ infoBox' \in InfoBoxes /\ inTick' = FALSE
         /\ Tck!InOrder' /\ Spinning'
         /\ need_tick_cb' \in BOOLEAN /\ tick_spinner' \in BOOLEAN /\ needSpinner' \in BOOLEAN
<1>1. /\ nextTickQueue \in Seq(Nat) /\ infoBox \in InfoBoxes /\ ran \in Nat /\ ticksMade \in Nat
      /\ infoBox.length \in Nat /\ infoBox.index \in Nat
      /\ ran <= ticksMade /\ infoBox.length = Len(nextTickQueue)
      /\ infoBox.index <= infoBox.length /\ infoBox.length - infoBox.index = ticksMade - ran
      /\ Ordered(nextTickQueue, infoBox.index, ran)
  BY DEF KInv, TickTypes, InfoBoxes, Tck!InOrder, Ordered
<1>2. CASE infoBox.length <= infoBox.index
  <2>1. /\ nextTickQueue' = <<>> /\ infoBox' = [Tck!Zero EXCEPT !.depth = d] /\ inTick' = FALSE
        /\ UNCHANGED <<needSpinner, need_tick_cb, tick_spinner>>
    BY <1>2 DEF Tck!TickDone, Tck!queuevars, Tck!spinvars, Tck!immvars, Tck!endvars
  <2>2. infoBox' \in InfoBoxes /\ infoBox'.length = 0 /\ infoBox'.index = 0
    BY <2>1 DEF InfoBoxes, Tck!Zero
  <2>3. Tck!InOrder'
    BY <1>1, <1>2, <2>1, <2>2 DEF Tck!InOrder
  <2> QED
    BY <2>1, <2>2, <2>3 DEF Spinning, KInv, TickTypes
<1>3. CASE ~(infoBox.length <= infoBox.index)
  <2> DEFINE rest == SubSeq(nextTickQueue, infoBox.index + 1, Len(nextTickQueue))
  <2>1. /\ nextTickQueue' = rest /\ infoBox' = [length |-> Len(rest), index |-> 0, depth |-> d]
        /\ inTick' = FALSE
        /\ IF needSpinner THEN need_tick_cb' = TRUE /\ tick_spinner' = TRUE /\ needSpinner' = FALSE
           ELSE UNCHANGED <<needSpinner, need_tick_cb, tick_spinner>>
    BY <1>3 DEF Tck!TickDone, Tck!NeedTickCallback, Tck!queuevars, Tck!spinvars, Tck!immvars, Tck!endvars
  <2>2. /\ rest \in Seq(Nat) /\ Len(rest) = infoBox.length - infoBox.index
        /\ Ordered(rest, 0, ran)
    BY <1>1, OrderedRest
  <2> HIDE DEF rest
  <2>3. infoBox' \in InfoBoxes /\ infoBox'.length = Len(rest) /\ infoBox'.index = 0
    BY <2>1, <2>2 DEF InfoBoxes
  <2>5. Tck!InOrder'
    BY <1>1, <2>1, <2>2, <2>3 DEF Tck!InOrder, Ordered
  <2>6. /\ need_tick_cb' = TRUE /\ tick_spinner' = TRUE /\ needSpinner' \in BOOLEAN
    BY <2>1 DEF KInv, Spinning, TickTypes
  <2> QED
    BY <2>1, <2>2, <2>3, <2>5, <2>6 DEF Spinning
<1> QED
  BY <1>2, <1>3

(* The stack below the loop that is over, when it returns or a tick throws.*)
LEMMA LoopOverKInv ==
  ASSUME KInv, NEW d \in Nat, Tck!TickDone(d), UNCHANGED <<ran, ticksMade>>,
         NEW s \in Seq(TickFrames), StackKept(s, infoBox.length), ~HasLoop(s),
         phase # "gone",
         \/ frames' = s /\ UNCHANGED <<phase, exitcode>>
         \/ frames' = <<>> /\ phase' = "gone" /\ exitcode' = 8,
         UNCHANGED <<immediates, need_immediate_cb>>
  PROVE  KInv'
<1>1. /\ nextTickQueue' \in Seq(Nat) /\ infoBox' \in InfoBoxes /\ inTick' = FALSE
      /\ Tck!InOrder' /\ Spinning'
      /\ need_tick_cb' \in BOOLEAN /\ tick_spinner' \in BOOLEAN /\ needSpinner' \in BOOLEAN
  BY TickDoneKept
<1>2. infoBox.length \in Nat /\ infoBox'.length \in Nat
  BY <1>1 DEF KInv, TickTypes, InfoBoxes
<1>3. /\ frames' \in Seq(TickFrames) /\ StackKept(frames', infoBox'.length) /\ ~HasLoop(frames')
  <2>1. StackKept(s, infoBox'.length)
    BY <1>2, LongerKept
  <2>2. <<>> \in Seq(TickFrames) /\ StackKept(<<>>, infoBox'.length) /\ ~HasLoop(<<>>)
    BY DEF StackKept, HasLoop
  <2> QED
    BY <2>1, <2>2
<1>4. TickTypes'
  BY <1>1, <1>3 DEF KInv, TickTypes
<1>5. StackKept(frames, infoBox.length)'
  BY <1>3 DEF StackKept
<1>6. Tck!ImmediatesAwaited'
  BY DEF KInv, Tck!ImmediatesAwaited
<1>7. Ending'
  BY <1>1, <1>3 DEF KInv, Ending, HasLoop
<1> QED
  BY <1>1, <1>4, <1>5, <1>6, <1>7 DEF KInv

LEMMA TickThrowsKInv == ASSUME KInv, Tck!TickThrows PROVE KInv'
<1> DEFINE s == Tail(Tail(frames))
<1>1. /\ frames \in Seq(TickFrames) /\ frames # <<>> /\ Head(frames).f = "tick"
      /\ StackKept(frames, infoBox.length) /\ infoBox.length \in Nat /\ infoBox.depth \in Nat
      /\ phase # "gone"
  BY DEF Tck!TickThrows, Tck!Running, KInv, TickTypes, InfoBoxes, Ending
<1>2. /\ Tail(frames) \in Seq(TickFrames) /\ StackKept(Tail(frames), infoBox.length)
      /\ Tail(frames) # <<>> /\ Head(Tail(frames)).f = "_tickCallback"
  BY <1>1, Popped
<1>3. s \in Seq(TickFrames) /\ StackKept(s, infoBox.length) /\ ~HasLoop(s)
  BY <1>1, <1>2, Popped
<1> DEFINE h == [f |-> "handler", n |-> 0]
<1>4. h \in TickFrames /\ h.f = "handler"
  BY DEF TickFrames
<1>5. /\ <<h>> \o s \in Seq(TickFrames) /\ StackKept(<<h>> \o s, infoBox.length)
      /\ ~HasLoop(<<h>> \o s)
  BY <1>1, <1>3, <1>4, Pushed
<1>6. /\ Tck!TickDone(infoBox.depth) /\ UNCHANGED <<immediates, need_immediate_cb, ran, ticksMade>>
      /\ \/ frames' = <<h>> \o s /\ UNCHANGED <<phase, exitcode>>
         \/ frames' = s /\ UNCHANGED <<phase, exitcode>>
         \/ frames' = <<>> /\ phase' = "gone" /\ exitcode' = 8
  BY DEF Tck!TickThrows, Tck!Fatal, Tck!Frame, Tck!queuevars, Tck!spinvars, Tck!immvars, Tck!endvars
<1> HIDE DEF s, h
<1> QED
  BY <1>1, <1>3, <1>5, <1>6, LoopOverKInv

LEMMA TickRoundsOverKInv == ASSUME KInv, Tck!TickRoundsOver PROVE KInv'
<1>1. /\ frames \in Seq(TickFrames) /\ frames # <<>> /\ Head(frames).f = "_tickCallback"
      /\ StackKept(frames, infoBox.length) /\ infoBox.length \in Nat /\ phase # "gone"
  BY DEF Tck!TickRoundsOver, Tck!Running, KInv, TickTypes, InfoBoxes, Ending
<1>2. /\ Tail(frames) \in Seq(TickFrames) /\ StackKept(Tail(frames), infoBox.length)
      /\ ~HasLoop(Tail(frames))
  BY <1>1, Popped
<1>3. /\ Tck!TickDone(0) /\ frames' = Tail(frames)
      /\ UNCHANGED <<immediates, need_immediate_cb, phase, exitcode, ran, ticksMade>>
  BY DEF Tck!TickRoundsOver, Tck!queuevars, Tck!spinvars, Tck!immvars, Tck!endvars
<1> QED
  BY <1>1, <1>2, <1>3, LoopOverKInv

(* A round sees the queue as long as it is now.                            *)
LEMMA TickRoundKInv == ASSUME KInv, Tck!TickRound PROVE KInv'
<1> DEFINE f == [f |-> "_tickCallback", n |-> infoBox.length]
<1>1. /\ frames \in Seq(TickFrames) /\ frames # <<>> /\ Head(frames).f = "_tickCallback"
      /\ StackKept(frames, infoBox.length) /\ infoBox.length \in Nat /\ infoBox \in InfoBoxes
      /\ phase # "gone" /\ inTick
  BY Popped DEF Tck!TickRound, Tck!Running, KInv, TickTypes, InfoBoxes, Ending
<1>2. /\ Tail(frames) \in Seq(TickFrames) /\ StackKept(Tail(frames), infoBox.length)
      /\ ~HasLoop(Tail(frames)) /\ HasLoop(frames)
  BY <1>1, Popped
<1>3. f \in TickFrames /\ f.f = "_tickCallback" /\ f.n = infoBox.length
  BY <1>1 DEF TickFrames
<1>4. /\ <<f>> \o Tail(frames) \in Seq(TickFrames)
      /\ StackKept(<<f>> \o Tail(frames), infoBox.length) /\ HasLoop(<<f>> \o Tail(frames))
  <2> HIDE DEF f
  <2>1. f.f = "_tickCallback" => ~HasLoop(Tail(frames)) /\ f.n <= infoBox.length
    BY <1>1, <1>2, <1>3
  <2> QED
    BY <1>1, <1>2, <1>3, <2>1, Pushed
<1>5. /\ infoBox' = [infoBox EXCEPT !.depth = @ + 1] /\ frames' = <<f>> \o Tail(frames)
      /\ UNCHANGED <<nextTickQueue, inTick, needSpinner, need_tick_cb, tick_spinner, immediates,
                     need_immediate_cb, phase, exitcode, ran, ticksMade>>
  BY DEF Tck!TickRound, Tck!Loop, Tck!queuevars, Tck!spinvars, Tck!immvars, Tck!endvars
<1> HIDE DEF f
<1>6. infoBox' \in InfoBoxes /\ infoBox'.length = infoBox.length /\ infoBox'.index = infoBox.index
  BY <1>1, <1>5 DEF InfoBoxes
<1>7. TickTypes'
  BY <1>4, <1>5, <1>6 DEF KInv, TickTypes
<1>8. Tck!InOrder' /\ Tck!ImmediatesAwaited' /\ Spinning'
  BY <1>5, <1>6 DEF KInv, Tck!InOrder, Tck!ImmediatesAwaited, Spinning
<1>9. StackKept(frames, infoBox.length)' /\ Ending'
  BY <1>1, <1>4, <1>5, <1>6 DEF KInv, StackKept, Ending, HasLoop
<1> QED
  BY <1>7, <1>8, <1>9 DEF KInv

(* The next tick of the queue is the next that was made.                   *)
LEMMA TickNextKInv == ASSUME KInv, Tck!TickNext PROVE KInv'
<1> DEFINE f == [f |-> "tick", n |-> 0]
<1>1. /\ frames \in Seq(TickFrames) /\ frames # <<>> /\ Head(frames).f = "_tickCallback"
      /\ StackKept(frames, infoBox.length) /\ infoBox \in InfoBoxes
      /\ infoBox.length \in Nat /\ infoBox.index \in Nat /\ ran \in Nat /\ ticksMade \in Nat
      /\ phase # "gone" /\ infoBox.index < Head(frames).n
  BY DEF Tck!TickNext, Tck!Running, KInv, TickTypes, InfoBoxes, Ending
<1>2. Head(frames).n <= infoBox.length /\ Head(frames).n \in Nat /\ HasLoop(frames)
  BY <1>1, Popped DEF TickFrames
<1>3. f \in TickFrames /\ f.f = "tick"
  BY DEF TickFrames
<1>4. /\ <<f>> \o frames \in Seq(TickFrames)
      /\ StackKept(<<f>> \o frames, infoBox.length) /\ HasLoop(<<f>> \o frames)
  <2> HIDE DEF f
  <2> QED
    BY <1>1, <1>2, <1>3, Pushed
<1>5. /\ infoBox' = [infoBox EXCEPT !.index = @ + 1]
      /\ ran' = (IF nextTickQueue[infoBox'.index] = ran + 1 THEN ran + 1 ELSE MaxTicks + 1)
      /\ frames' = <<f>> \o frames \/ frames' = frames
      /\ UNCHANGED <<nextTickQueue, inTick, needSpinner, need_tick_cb, tick_spinner, immediates,
                     need_immediate_cb, phase, exitcode, ticksMade>>
  BY DEF Tck!TickNext, Tck!Call, Tck!Frame, Tck!queuevars, Tck!spinvars, Tck!immvars, Tck!endvars
<1> HIDE DEF f
<1>6. infoBox' \in InfoBoxes /\ infoBox'.length = infoBox.length /\ infoBox'.index = infoBox.index + 1
  BY <1>1, <1>5 DEF InfoBoxes
<1>7. /\ infoBox.index < infoBox.length /\ ran <= ticksMade
      /\ infoBox.length - infoBox.index = ticksMade - ran
      /\ infoBox.length = Len(nextTickQueue) /\ nextTickQueue \in Seq(Nat)
      /\ Ordered(nextTickQueue, infoBox.index, ran)
  BY <1>1, <1>2 DEF KInv, Tck!InOrder, Ordered, TickTypes
<1>8. /\ ran' = ran + 1 /\ ran < ticksMade
      /\ Ordered(nextTickQueue, infoBox.index + 1, ran + 1)
  <2>1. /\ nextTickQueue[infoBox.index + 1] = ran + 1
        /\ Ordered(nextTickQueue, infoBox.index + 1, ran + 1)
    BY <1>1, <1>7, OrderedNext
  <2> QED
    BY <1>1, <1>5, <1>6, <1>7, <2>1
<1>9. TickTypes'
  <2>1. frames' \in Seq(TickFrames)
    BY <1>1, <1>4, <1>5
  <2>2. ran' \in Nat
    BY <1>1, <1>8
  <2> QED
    BY <1>5, <1>6, <2>1, <2>2 DEF KInv, TickTypes
<1>10. Tck!InOrder'
  <2>1. /\ ran' <= ticksMade' /\ infoBox'.index <= infoBox'.length
        /\ infoBox'.length - infoBox'.index = ticksMade' - ran'
    <3>1. ticksMade' = ticksMade
      BY <1>5
    <3>2. ran + 1 <= ticksMade /\ infoBox.index + 1 <= infoBox.length
      BY <1>1, <1>7, <1>8
    <3>3. infoBox.length - (infoBox.index + 1) = ticksMade - (ran + 1)
      BY <1>1, <1>7
    <3> QED
      BY <1>6, <1>8, <3>1, <3>2, <3>3
  <2>2. Len(nextTickQueue') = infoBox'.length /\ Ordered(nextTickQueue', infoBox'.index, ran')
    BY <1>5, <1>6, <1>7, <1>8
  <2> QED
    BY <2>1, <2>2, InOrderNext
<1>11. Tck!ImmediatesAwaited' /\ Spinning'
  BY <1>5 DEF KInv, Tck!ImmediatesAwaited, Spinning
<1>12. StackKept(frames, infoBox.length)'
  BY <1>1, <1>4, <1>5, <1>6 DEF StackKept
<1>13. Ending'
  <2>1. ~(phase # "running" /\ exitcode = 0)
    BY <1>1, <1>8 DEF KInv, Ending
  <2>2. HasLoop(frames')
    BY <1>2, <1>4, <1>5
  <2> QED
    BY <1>1, <1>2, <1>5, <2>1, <2>2 DEF KInv, Ending, HasLoop
<1> QED
  BY <1>9, <1>10, <1>11, <1>12, <1>13 DEF KInv

(* A callback returns into the loop over the queue, or makes one.          *)
LEMMA CallbackReturnsKInv == ASSUME KInv, Tck!CallbackReturns PROVE KInv'
<1> DEFINE s == Tail(frames)
           f == [f |-> "_tickCallback", n |-> 0]
<1>1. /\ frames \in Seq(TickFrames) /\ frames # <<>> /\ Head(frames).f = "callback"
      /\ StackKept(frames, infoBox.length) /\ infoBox \in InfoBoxes
      /\ infoBox.length \in Nat /\ infoBox.index \in Nat /\ ran \in Nat /\ ticksMade \in Nat
      /\ phase # "gone" /\ (inTick <=> HasLoop(frames))
  BY DEF Tck!CallbackReturns, Tck!Running, KInv, TickTypes, InfoBoxes, Ending
<1>2. /\ s \in Seq(TickFrames) /\ StackKept(s, infoBox.length) /\ (HasLoop(s) <=> HasLoop(frames))
  BY <1>1, Popped
<1>3. f \in TickFrames /\ f.f = "_tickCallback" /\ f.n = 0
  BY DEF TickFrames
<1>4. /\ <<f>> \o s \in Seq(TickFrames)
      /\ ~inTick => StackKept(<<f>> \o s, infoBox.length) /\ HasLoop(<<f>> \o s)
  <2> HIDE DEF f, s
  <2>1. <<f>> \o s \in Seq(TickFrames)
    BY <1>2, <1>3
  <2>2. ~inTick => (f.f = "_tickCallback" => ~HasLoop(s) /\ f.n <= infoBox.length)
    BY <1>1, <1>2, <1>3
  <2>3. f.f # "tick"
    BY <1>3
  <2> QED
    BY <1>1, <1>2, <1>3, <2>1, <2>2, <2>3, Pushed
<1>5. /\ UNCHANGED <<immediates, need_immediate_cb, phase, exitcode, ran, ticksMade>>
      /\ \/ /\ infoBox.length = 0 /\ infoBox' = [length |-> 0, index |-> 0, depth |-> 0] /\ frames' = s
            /\ UNCHANGED <<nextTickQueue, inTick, needSpinner, need_tick_cb, tick_spinner>>
         \/ /\ frames' = s /\ UNCHANGED <<nextTickQueue, infoBox, inTick, needSpinner>>
            /\ \/ need_tick_cb' = TRUE /\ tick_spinner' = TRUE
               \/ UNCHANGED <<need_tick_cb, tick_spinner>>
         \/ /\ ~inTick /\ inTick' = TRUE /\ frames' = <<f>> \o s
            /\ UNCHANGED <<nextTickQueue, infoBox, needSpinner, need_tick_cb, tick_spinner>>
  BY DEF Tck!CallbackReturns, Tck!TickCallback, Tck!NeedTickCallback, Tck!Zero, Tck!Loop,
         Tck!queuevars, Tck!spinvars, Tck!immvars, Tck!endvars
<1> HIDE DEF s, f
<1>6. CASE /\ infoBox.length = 0 /\ infoBox' = [length |-> 0, index |-> 0, depth |-> 0] /\ frames' = s
           /\ UNCHANGED <<nextTickQueue, inTick, needSpinner, need_tick_cb, tick_spinner>>
  <2>1. infoBox' \in InfoBoxes /\ infoBox'.length = 0 /\ infoBox'.index = 0
    BY <1>6 DEF InfoBoxes
  <2>2. TickTypes'
    BY <1>2, <1>5, <1>6, <2>1 DEF KInv, TickTypes
  <2>3. /\ infoBox.length = Len(nextTickQueue) /\ infoBox.index = 0 /\ ran = ticksMade
    BY <1>1, <1>6 DEF KInv, Tck!InOrder
  <2>4. Tck!InOrder'
    BY <1>1, <1>5, <1>6, <2>1, <2>3 DEF Tck!InOrder
  <2>5. StackKept(frames, infoBox.length)'
    BY <1>2, <1>6, <2>1 DEF StackKept
  <2>6. Tck!ImmediatesAwaited' /\ Spinning'
    BY <1>5, <1>6 DEF KInv, Tck!ImmediatesAwaited, Spinning
  <2>7. Ending'
    BY <1>1, <1>2, <1>5, <1>6 DEF KInv, Ending, HasLoop
  <2> QED
    BY <2>2, <2>4, <2>5, <2>6, <2>7 DEF KInv
<1>7. CASE /\ frames' = s /\ UNCHANGED <<nextTickQueue, infoBox, inTick, needSpinner>>
           /\ \/ need_tick_cb' = TRUE /\ tick_spinner' = TRUE
              \/ UNCHANGED <<need_tick_cb, tick_spinner>>
  <2>1. immediates' \in Nat /\ need_immediate_cb' = (immediates' > 0)
    BY <1>5 DEF KInv, TickTypes, Tck!ImmediatesAwaited
  <2> QED
    BY <1>1, <1>2, <1>5, <1>7, <2>1, ImmediateKInv
<1>8. CASE /\ ~inTick /\ inTick' = TRUE /\ frames' = <<f>> \o s
           /\ UNCHANGED <<nextTickQueue, infoBox, needSpinner, need_tick_cb, tick_spinner>>
  <2>1. TickTypes'
    BY <1>4, <1>5, <1>8 DEF KInv, TickTypes
  <2>2. Tck!InOrder' /\ Tck!ImmediatesAwaited' /\ Spinning'
    BY <1>5, <1>8 DEF KInv, Tck!InOrder, Tck!ImmediatesAwaited, Spinning
  <2>3. StackKept(frames, infoBox.length)' /\ HasLoop(frames')
    BY <1>4, <1>8 DEF StackKept
  <2>4. Ending'
    BY <1>1, <1>5, <1>8, <2>3 DEF KInv, Ending, HasLoop
  <2> QED
    BY <2>1, <2>2, <2>3, <2>4 DEF KInv
<1> QED
  BY <1>5, <1>6, <1>7, <1>8

(* The spinner starts the loop over a queue that is not empty.             *)
LEMMA SpinKInv == ASSUME KInv, Tck!Spin PROVE KInv'
<1> DEFINE f == [f |-> "_tickCallback", n |-> 0]
<1>1. /\ infoBox \in InfoBoxes /\ infoBox.length \in Nat /\ infoBox.index \in Nat
      /\ ran \in Nat /\ ticksMade \in Nat /\ frames = <<>> /\ phase = "running"
      /\ need_tick_cb' = FALSE /\ tick_spinner' = FALSE /\ needSpinner' = TRUE
      /\ ~HasLoop(frames) /\ ~inTick /\ infoBox.length = Len(nextTickQueue)
      /\ UNCHANGED <<nextTickQueue, immediates, need_immediate_cb, phase, exitcode, ran, ticksMade>>
  BY DEF Tck!Spin, Tck!InLoop, KInv, TickTypes, InfoBoxes, Ending, HasLoop, Tck!InOrder,
         Tck!queuevars, Tck!spinvars, Tck!immvars, Tck!endvars
<1>2. CASE infoBox.length = 0 /\ infoBox' = Tck!Zero /\ UNCHANGED <<frames, inTick>>
  <2>1. infoBox' \in InfoBoxes /\ infoBox'.length = 0 /\ infoBox'.index = 0
    BY <1>2 DEF InfoBoxes, Tck!Zero
  <2>2. TickTypes'
    BY <1>1, <1>2, <2>1 DEF KInv, TickTypes
  <2>3. infoBox.index = 0 /\ ran = ticksMade
    BY <1>1, <1>2 DEF KInv, Tck!InOrder
  <2>4. Tck!InOrder'
    BY <1>1, <1>2, <2>1, <2>3 DEF Tck!InOrder
  <2>5. StackKept(frames, infoBox.length)'
    BY <1>1, <1>2 DEF StackKept
  <2>6. nextTickQueue' = <<>>
    <3>1. nextTickQueue \in Seq(Nat) /\ Len(nextTickQueue) = infoBox.length
      BY DEF KInv, TickTypes, Tck!InOrder
    <3>2. nextTickQueue' = nextTickQueue
      BY <1>1
    <3> QED
      BY <1>2, <3>1, <3>2
  <2>7. Tck!ImmediatesAwaited' /\ Spinning' /\ Ending'
    BY <1>1, <1>2, <2>6 DEF KInv, Tck!ImmediatesAwaited, Spinning, Ending, HasLoop
  <2> QED
    BY <2>2, <2>4, <2>5, <2>7 DEF KInv
<1>3. CASE infoBox' = [infoBox EXCEPT !.depth = 0] /\ inTick' = TRUE /\ frames' = <<f>>
  <2>1. infoBox' \in InfoBoxes /\ infoBox'.length = infoBox.length /\ infoBox'.index = infoBox.index
    BY <1>1, <1>3 DEF InfoBoxes
  <2>2. /\ frames' \in Seq(TickFrames) /\ HasLoop(frames')
        /\ DOMAIN frames' = {1} /\ frames'[1].f = "_tickCallback" /\ frames'[1].n = 0
    BY <1>3 DEF TickFrames, HasLoop
  <2>3. TickTypes'
    BY <1>1, <1>3, <2>1, <2>2 DEF KInv, TickTypes
  <2>4. Tck!InOrder'
    BY <1>1, <2>1 DEF KInv, Tck!InOrder
  <2>5. StackKept(frames, infoBox.length)'
    BY <1>1, <2>1, <2>2 DEF StackKept
  <2>6. Tck!ImmediatesAwaited' /\ Spinning' /\ Ending'
    BY <1>1, <1>3, <2>2 DEF KInv, Tck!ImmediatesAwaited, Spinning, Ending, HasLoop
  <2> QED
    BY <2>3, <2>4, <2>5, <2>6 DEF KInv
<1> QED
  BY <1>2, <1>3 DEF Tck!Spin, Tck!Loop

(* The process goes: nothing runs any more.                                *)
LEMMA GoneKInv ==
  ASSUME KInv, phase # "gone" \/ UNCHANGED exitcode, frames' = <<>>, phase' = "gone",
         exitcode' \in {7, 8} \/ (phase # "running" /\ exitcode' = exitcode),
         UNCHANGED <<nextTickQueue, infoBox, inTick, needSpinner, need_tick_cb, tick_spinner,
                     immediates, need_immediate_cb, ran, ticksMade>>
  PROVE  KInv'
<1>1. TickTypes'
  BY DEF KInv, TickTypes
<1>2. Tck!InOrder' /\ Tck!ImmediatesAwaited' /\ Spinning'
  BY DEF KInv, Tck!InOrder, Tck!ImmediatesAwaited, Spinning
<1>3. StackKept(frames, infoBox.length)'
  BY DEF StackKept
<1>4. Ending'
  BY DEF KInv, Ending
<1> QED
  BY <1>1, <1>2, <1>3, <1>4 DEF KInv

LEMMA NextKInv == ASSUME KInv, [Tck!Next]_ticksVars PROVE KInv'
<1> USE DEF Tck!queuevars, Tck!spinvars, Tck!immvars, Tck!endvars
<1>1. /\ frames \in Seq(TickFrames) /\ infoBox.length \in Nat
      /\ StackKept(frames, infoBox.length) /\ immediates \in Nat
      /\ need_immediate_cb = (immediates > 0)
      /\ phase \in {"running", "exiting", "gone"} /\ (phase = "gone" => frames = <<>>)
  BY DEF KInv, TickTypes, InfoBoxes, Ending, Tck!ImmediatesAwaited
<1> DEFINE Push(f) == <<[f |-> f, n |-> 0]>>
<1>2. ASSUME NEW f \in {"callback", "handler", "exit"}, NEW s \in Seq(TickFrames),
             StackKept(s, infoBox.length)
      PROVE  /\ Push(f) \o s \in Seq(TickFrames) /\ StackKept(Push(f) \o s, infoBox.length)
             /\ HasLoop(Push(f) \o s) <=> HasLoop(s)
  <2> DEFINE g == [f |-> f, n |-> 0]
  <2>1. g \in TickFrames /\ g.f # "tick" /\ g.f # "_tickCallback"
    BY DEF TickFrames
  <2> HIDE DEF g
  <2>2. /\ <<g>> \o s \in Seq(TickFrames) /\ StackKept(<<g>> \o s, infoBox.length)
        /\ HasLoop(<<g>> \o s) <=> HasLoop(s)
    BY <1>1, <1>2, <2>1, Pushed
  <2> QED
    BY <2>2 DEF g
<1>3. CASE UNCHANGED ticksVars
  BY <1>1, <1>3, ImmediateKInv DEF ticksVars
<1>4. CASE Tck!UsingDomains
  BY <1>1, <1>4, ImmediateKInv DEF Tck!UsingDomains
<1>5. CASE Tck!SetImmediate
  <2>1. immediates' = immediates + 1 /\ need_immediate_cb' = TRUE
    <3> HIDE DEF Push
    <3> QED
      BY <1>5 DEF Tck!SetImmediate
  <2>2. immediates' \in Nat /\ immediates' > 0
    BY <1>1, <2>1
  <2> QED
    BY <1>1, <1>5, <2>1, <2>2, ImmediateKInv DEF Tck!SetImmediate
<1>6. CASE Tck!ClearImmediate
  <2>1. immediates > 0 /\ immediates' = immediates - 1
        /\ need_immediate_cb' = (immediates' > 0)
    <3> HIDE DEF Push
    <3> QED
      BY <1>6 DEF Tck!ClearImmediate
  <2>2. immediates' \in Nat
    BY <1>1, <2>1
  <2> QED
    BY <1>1, <1>6, <2>1, <2>2, ImmediateKInv DEF Tck!ClearImmediate
<1>7. CASE Tck!Nested \/ Tck!MakeCallback
  <2>1. frames' = Push("callback") \o frames /\ phase # "gone"
    BY <1>1, <1>7 DEF Tck!Nested, Tck!MakeCallback, Tck!Call, Tck!Frame, Tck!InJs, Tck!InLoop
  <2>2. UNCHANGED <<nextTickQueue, infoBox, inTick, needSpinner, need_tick_cb, tick_spinner,
                    immediates, need_immediate_cb, phase, exitcode, ran, ticksMade>>
    BY <1>7 DEF Tck!Nested, Tck!MakeCallback
  <2> HIDE DEF Push
  <2> QED
    BY <1>1, <1>2, <2>1, <2>2, ImmediateKInv
<1>8. CASE Tck!CheckImmediate
  <2>1. frames' = Push("callback") \o frames /\ phase # "gone"
    BY <1>8 DEF Tck!CheckImmediate, Tck!Call, Tck!Frame, Tck!InLoop
  <2>2. UNCHANGED <<nextTickQueue, infoBox, inTick, needSpinner, need_tick_cb, tick_spinner,
                    phase, exitcode, ran, ticksMade>>
    BY <1>8 DEF Tck!CheckImmediate
  <2>3. need_immediate_cb /\ immediates' = immediates - 1
        /\ need_immediate_cb' = (immediates' > 0)
    <3> HIDE DEF Push
    <3> QED
      BY <1>8 DEF Tck!CheckImmediate
  <2>4. immediates > 0
    BY <1>1, <2>3
  <2>5. immediates' \in Nat
    BY <1>1, <2>3, <2>4
  <2> HIDE DEF Push
  <2> QED
    BY <1>1, <1>2, <2>1, <2>2, <2>3, <2>5, ImmediateKInv
<1>9. CASE Tck!EmitExit
  <2>1. frames = <<>> /\ phase = "running" /\ ~tick_spinner
    BY <1>9 DEF Tck!EmitExit, Tck!InLoop
  <2>2. nextTickQueue = <<>>
    BY <2>1 DEF KInv, Spinning, Ending, HasLoop
  <2>3. ran = ticksMade
    BY <1>1, <2>2 DEF KInv, Tck!InOrder, TickTypes, InfoBoxes
  <2>4. frames' = Push("exit") \o frames /\ phase' = "exiting"
    BY <1>9 DEF Tck!EmitExit, Tck!Call, Tck!Frame
  <2>5. UNCHANGED <<nextTickQueue, infoBox, inTick, needSpinner, need_tick_cb, tick_spinner,
                    immediates, need_immediate_cb, exitcode, ran, ticksMade>>
    BY <1>9 DEF Tck!EmitExit
  <2> HIDE DEF Push
  <2> QED
    BY <1>1, <1>2, <2>1, <2>3, <2>4, <2>5, ImmediateKInv
<1>10. CASE Tck!TickReturns \/ Tck!HandlerReturns
  <2>1. frames # <<>> /\ Head(frames).f # "_tickCallback" /\ frames' = Tail(frames)
    BY <1>10 DEF Tck!TickReturns, Tck!HandlerReturns, Tck!Running
  <2>2. /\ UNCHANGED <<nextTickQueue, infoBox, inTick, needSpinner,
                        immediates, need_immediate_cb, phase, exitcode, ran, ticksMade>>
        /\ \/ UNCHANGED <<need_tick_cb, tick_spinner>>
           \/ need_tick_cb' = TRUE /\ tick_spinner' = TRUE
    BY <1>10 DEF Tck!TickReturns, Tck!HandlerReturns, Tck!NeedTickCallback
  <2>3. /\ Tail(frames) \in Seq(TickFrames) /\ StackKept(Tail(frames), infoBox.length)
        /\ HasLoop(Tail(frames)) <=> HasLoop(frames)
    BY <1>1, <2>1, Popped
  <2> QED
    BY <1>1, <2>1, <2>2, <2>3, ImmediateKInv
<1>11. CASE Tck!CallbackThrows
  <2> DEFINE s == Tail(frames)
  <2>1. frames # <<>> /\ Head(frames).f # "_tickCallback" /\ phase # "gone"
    BY <1>1, <1>11 DEF Tck!CallbackThrows, Tck!Running
  <2>2. /\ UNCHANGED <<nextTickQueue, infoBox, inTick, needSpinner, need_tick_cb, tick_spinner,
                        immediates, need_immediate_cb, ran, ticksMade>>
        /\ \/ frames' = Push("handler") \o s /\ UNCHANGED <<phase, exitcode>>
           \/ frames' = s /\ UNCHANGED <<phase, exitcode>>
           \/ frames' = <<>> /\ phase' = "gone" /\ exitcode' = 8
    BY <1>11 DEF Tck!CallbackThrows, Tck!Fatal, Tck!Frame
  <2>3. /\ s \in Seq(TickFrames) /\ StackKept(s, infoBox.length)
        /\ HasLoop(s) <=> HasLoop(frames)
    BY <1>1, <2>1, Popped
  <2> HIDE DEF s, Push
  <2>4. CASE frames' = Push("handler") \o s /\ UNCHANGED <<phase, exitcode>>
    BY <1>1, <1>2, <2>1, <2>2, <2>3, <2>4, ImmediateKInv
  <2>5. CASE frames' = s /\ UNCHANGED <<phase, exitcode>>
    BY <1>1, <2>1, <2>2, <2>3, <2>5, ImmediateKInv
  <2>6. CASE frames' = <<>> /\ phase' = "gone" /\ exitcode' = 8
    BY <2>1, <2>2, <2>6, GoneKInv
  <2> QED
    BY <2>2, <2>4, <2>5, <2>6
<1>12. CASE Tck!HandlerThrows
  <2>1. phase # "gone"
    BY <1>1, <1>12 DEF Tck!HandlerThrows, Tck!Running
  <2> QED
    BY <1>12, <2>1, GoneKInv DEF Tck!HandlerThrows
<1>13. CASE Tck!Gone
  BY <1>13, GoneKInv DEF Tck!Gone
<1> QED
  BY <1>3, <1>4, <1>5, <1>6, <1>7, <1>8, <1>9, <1>10, <1>11, <1>12, <1>13, NextTickKInv,
     TickRoundKInv, TickRoundsOverKInv, TickNextKInv, CallbackReturnsKInv, TickThrowsKInv,
     SpinKInv DEF Tck!Next

LEMMA TicksDone == KInv => Tck!DeferredIsDone
<1>1. KInv => Tck!TicksAwaited
  BY DEF KInv, TickTypes, Spinning, Ending, HasLoop, Tck!TicksAwaited, Tck!InLoop
<1> QED
  BY <1>1 DEF KInv, Tck!DeferredIsDone

-----------------------------------------------------------------------------
(* node_crypto.cc: Connection and ClientHelloParser.                       *)

(* What the parser has gathered and not passed on.                         *)
Held == IF hello \in {"tls", "ssl", "waiting", "paused"} THEN hoff ELSE 0

TlsTypes ==
  /\ tin \in Nat /\ tread \in Nat /\ hoff \in 0..HelloSize /\ hbody \in Nat /\ hframe \in Nat
  /\ bioread \in Seq(Nat)
  /\ hello \in {"none", "waiting", "tls", "ssl", "paused", "ended"}
  /\ ssl \in {"none", "handshake", "finished", "freed"}
  /\ sfreed \in Nat /\ tpeer \in {"none", "ok", "bad"}

(* The BIO holds the places behind those that OpenSSL has taken, and what  *)
(* is held back comes behind them.                                         *)
StreamKept ==
  Tls!Alive =>
    /\ bioread = Tls!Places(tread, Len(bioread))
    /\ tread + Len(bioread) + Held = tin

(* Nothing is passed on before the parser has ended; a client has none.    *)
ParserFirst ==
  /\ ssl = "none" => /\ hello = "none" /\ hoff = 0 /\ tin = 0 /\ tread = 0 /\ bioread = <<>>
                     /\ nextsess = "none" /\ ~tauth
  /\ Tls!Alive => (hello = "none" <=> ~tserver)
  /\ Tls!Alive /\ hello \notin {"none", "ended"} => bioread = <<>> /\ tread = 0

(* Room for a header is left while the kind of the frame is not known, and *)
(* afterwards the frame is one whose length was let pass.                  *)
RoomLeft ==
  /\ hello = "waiting" => hoff < Tls!HeaderBytes
  /\ hello \in {"tls", "ssl"} => hframe < HelloSize /\ hoff < hbody + hframe

SessionsKept ==
  /\ ssl = "freed" => sslsess = "none"
  /\ nextsess = "conn" => tserver /\ hello = "ended"
  /\ sfreed > 0 => ssl = "freed"

CInv ==
  /\ TlsTypes /\ StreamKept /\ ParserFirst /\ RoomLeft /\ SessionsKept
  /\ Tls!OnlyVerified

(* Places are places, one behind the other.                                *)
LEMMA PlacesSeq ==
  ASSUME NEW a \in Nat, NEW n \in Nat
  PROVE  /\ Tls!Places(a, n) \in Seq(Nat) /\ Len(Tls!Places(a, n)) = n
         /\ \A i \in 1..n : Tls!Places(a, n)[i] = a + i
BY DEF Tls!Places

(* The places of two stretches that meet are those of one.                 *)
LEMMA PlacesJoin ==
  ASSUME NEW a \in Nat, NEW m \in Nat, NEW n \in Nat
  PROVE  Tls!Places(a, m) \o Tls!Places(a + m, n) = Tls!Places(a, m + n)
<1> DEFINE s == Tls!Places(a, m)
           t == Tls!Places(a + m, n)
           u == Tls!Places(a, m + n)
<1>0. a + m \in Nat /\ m + n \in Nat
  OBVIOUS
<1>1. /\ s \in Seq(Nat) /\ Len(s) = m /\ \A i \in 1..m : s[i] = a + i
      /\ t \in Seq(Nat) /\ Len(t) = n /\ \A i \in 1..n : t[i] = (a + m) + i
      /\ u \in Seq(Nat) /\ Len(u) = m + n /\ \A i \in 1..m + n : u[i] = a + i
  BY <1>0, PlacesSeq
<1> HIDE DEF s, t, u
<1>2. /\ s \o t \in Seq(Nat) /\ Len(s \o t) = m + n
      /\ \A i \in 1..m + n : (s \o t)[i] = IF i <= m THEN s[i] ELSE t[i - m]
  BY <1>1, ConcatProperties
<1> DEFINE v == s \o t
<1> HIDE DEF v
<1>3. ASSUME NEW i \in 1..m + n PROVE v[i] = u[i]
  <2>1. CASE i <= m
    <3>1. v[i] = s[i] /\ i \in 1..m
      BY <1>2, <2>1 DEF v
    <3> QED
      BY <1>1, <3>1
  <2>2. CASE i > m
    <3>1. v[i] = t[i - m] /\ i - m \in 1..n
      BY <1>2, <2>2 DEF v
    <3>2. t[i - m] = (a + m) + (i - m)
      BY <1>1, <3>1
    <3> QED
      BY <1>1, <3>1, <3>2
  <2> QED
    BY <2>1, <2>2
<1>4. v = u
  <2>1. v \in Seq(Nat) /\ Len(v) = m + n
    BY <1>2 DEF v
  <2> QED
    BY <1>1, <1>3, <2>1, SeqEqual
<1> QED
  BY <1>4 DEF s, t, u, v

LEMMA PlacesJoinAll ==
  \A a, m, n \in Nat : Tls!Places(a, m) \o Tls!Places(a + m, n) = Tls!Places(a, m + n)
BY PlacesJoin, Zenon

(* What is left when the first n places are taken.                         *)
LEMMA PlacesTaken ==
  ASSUME NEW a \in Nat, NEW m \in Nat, NEW n \in 1..m
  PROVE  SubSeq(Tls!Places(a, m), n + 1, m) = Tls!Places(a + n, m - n)
<1> DEFINE s == Tls!Places(a, m)
           u == Tls!Places(a + n, m - n)
           t == SubSeq(s, n + 1, m)
<1>0. a + n \in Nat /\ m - n \in Nat
  OBVIOUS
<1>1. /\ s \in Seq(Nat) /\ Len(s) = m /\ \A i \in 1..m : s[i] = a + i
      /\ u \in Seq(Nat) /\ Len(u) = m - n /\ \A i \in 1..m - n : u[i] = (a + n) + i
  BY <1>0, PlacesSeq
<1> HIDE DEF s, u
<1>2. t \in Seq(Nat) /\ Len(t) = m - n /\ \A i \in 1..m - n : t[i] = s[n + i]
  <2>1. \A i \in n + 1..m : s[i] \in Nat
    BY <1>1
  <2>2. /\ t \in Seq(Nat) /\ Len(t) = IF n + 1 <= m THEN m - (n + 1) + 1 ELSE 0
        /\ \A i \in 1..m - (n + 1) + 1 : t[i] = s[(n + 1) + i - 1]
    BY <2>1, SubSeqProperties
  <2>3. m - (n + 1) + 1 = m - n /\ (n + 1 <= m \/ m - n = 0)
    OBVIOUS
  <2>4. Len(t) = m - n
    BY <2>2, <2>3
  <2>5. \A i \in 1..m - n : (n + 1) + i - 1 = n + i
    OBVIOUS
  <2>6. ASSUME NEW i \in 1..m - n PROVE t[i] = s[n + i]
    BY <2>2, <2>3, <2>5
  <2> QED
    BY <2>2, <2>4, <2>6
<1> HIDE DEF t
<1>3. ASSUME NEW i \in 1..m - n PROVE t[i] = u[i]
  <2>1. n + i \in 1..m
    OBVIOUS
  <2> QED
    BY <1>1, <1>2, <2>1
<1>4. t = u
  BY <1>1, <1>2, <1>3, SeqEqual
<1> QED
  BY <1>4 DEF s, u, t

(* The parser takes what it has room for.                                  *)
LEMMA HelloWriteCInv ==
  ASSUME CInv, NEW n \in 1..2, Tls!EncInHello(n)
  PROVE  CInv'
<1> HelloSize \in Nat \ {0, 1}
  BY NodePartsAssumption
<1> DEFINE c == Tls!Copied(n)
<1>1. /\ tin \in Nat /\ tread = 0 /\ hoff \in Nat /\ hoff <= HelloSize /\ bioread = <<>>
      /\ Tls!Alive /\ hello \in {"waiting", "tls", "ssl"} /\ tserver /\ tin = hoff
      /\ hbody \in Nat /\ hframe \in Nat /\ Tls!Gathering
  <2>1. Tls!Alive /\ tserver /\ Tls!Gathering /\ hello \in {"waiting", "tls", "ssl"}
    BY DEF Tls!EncInHello, Tls!HelloWrite, Tls!Gathering
  <2>2. bioread = <<>> /\ tread = 0
    BY <2>1 DEF CInv, ParserFirst
  <2>3. Held = hoff
    BY <2>1 DEF Held
  <2> QED
    BY <2>1, <2>2, <2>3 DEF CInv, TlsTypes, StreamKept
<1>2. c \in Nat /\ hoff + c <= HelloSize
  BY <1>1 DEF Tls!Copied
<1>3. /\ hoff' = hoff + c /\ tin' = tin + c
      /\ UNCHANGED <<tserver, tread, biowrite, nextsess, sslsess, sfreed, ssl, terror, tshut,
                     tpeer, tauth>>
  BY DEF Tls!EncInHello, Tls!HelloWrite, Tls!sslvars
<1>4. \/ hello' \in {"waiting", "tls", "ssl", "paused"} /\ bioread' = bioread
      \/ Tls!Finish(hoff + c)
  BY <1>1 DEF Tls!EncInHello, Tls!HelloWrite
<1>5. hbody' \in Nat /\ hframe' \in Nat /\ RoomLeft'
  <2> HIDE DEF c
  <2> DEFINE off == hoff + c
  <2>1. \/ hello # "waiting" /\ UNCHANGED <<hbody, hframe>>
           /\ (off < hbody + hframe \/ hello' \in {"paused", "ended"})
           /\ hello' # "waiting"
        \/ hello = "waiting" /\ off < 2 /\ UNCHANGED <<hello, hbody, hframe>>
        \/ \E body \in {1, 2}, size \in 0..HelloSize + 1 :
             /\ hbody' = body /\ hframe' = size
             /\ \/ hello' \in {"paused", "ended"}
                \/ size < HelloSize /\ off < body + size /\ hello' \in {"tls", "ssl"}
    BY <1>1, <1>2 DEF c, Tls!EncInHello, Tls!HelloWrite, Tls!HeaderBytes, Tls!Bodies, Tls!Finish
  <2>2. hello # "waiting" => hframe < HelloSize
    BY <1>1 DEF CInv, RoomLeft
  <2> QED
    BY <1>1, <1>2, <1>3, <2>1, <2>2 DEF RoomLeft, Tls!HeaderBytes
<1>6. hello' \in {"waiting", "tls", "ssl", "paused", "ended"} /\ bioread' \in Seq(Nat) /\ Tls!Alive'
  <2>1. hoff + c \in Nat
    BY <1>1, <1>2
  <2>2. Tls!Places(0, hoff + c) \in Seq(Nat)
    BY <2>1, PlacesSeq
  <2> HIDE DEF c
  <2>3. bioread' = bioread \/ bioread' = Tls!Places(0, hoff + c)
    BY <1>1, <1>4, <2>2 DEF Tls!Finish
  <2>4. hello' \in {"waiting", "tls", "ssl", "paused", "ended"}
    BY <1>4 DEF Tls!Finish
  <2>5. bioread' \in Seq(Nat)
    BY <1>1, <2>2, <2>3, EmptySeq
  <2> QED
    BY <1>1, <1>3, <2>4, <2>5 DEF Tls!Alive
<1>7. TlsTypes'
  BY <1>1, <1>2, <1>3, <1>5, <1>6 DEF CInv, TlsTypes
<1>8. StreamKept'
  <2>1. CASE hello' \in {"waiting", "tls", "ssl", "paused"} /\ bioread' = bioread
    <3>1. bioread' = Tls!Places(0, 0) /\ Len(bioread') = 0
      BY <1>1, <2>1 DEF Tls!Places
    <3> QED
      BY <1>1, <1>2, <1>3, <2>1, <3>1 DEF StreamKept, Held
  <2>2. CASE Tls!Finish(hoff + c)
    <3> HIDE DEF c
    <3>1. bioread' = Tls!Places(0, hoff + c) /\ Len(bioread') = hoff + c
      BY <1>1, <1>2, <2>2, PlacesSeq DEF Tls!Finish
    <3>2. Held' = 0
      BY <2>2 DEF Held, Tls!Finish
    <3> QED
      BY <1>1, <1>2, <1>3, <3>1, <3>2 DEF StreamKept
  <2> QED
    BY <1>4, <2>1, <2>2
<1>9. ParserFirst'
  BY <1>1, <1>3, <1>4, <1>6 DEF ParserFirst, Tls!Finish, Tls!Alive
<1>10. SessionsKept' /\ Tls!OnlyVerified'
  BY <1>1, <1>3 DEF CInv, SessionsKept, Tls!OnlyVerified
<1> QED
  BY <1>5, <1>7, <1>8, <1>9, <1>10 DEF CInv

(* Once it has ended, or for a client, what arrives goes on to the BIO.    *)
LEMMA EncInCInv ==
  ASSUME CInv, NEW n \in 1..2, Tls!EncIn(n)
  PROVE  CInv'
<1>1. /\ tin \in Nat /\ tread \in Nat /\ Tls!Alive /\ bioread \in Seq(Nat) /\ Held = 0
      /\ bioread = Tls!Places(tread, Len(bioread)) /\ tread + Len(bioread) = tin
      /\ hello \in {"none", "ended"}
  <2>1. Tls!Alive /\ ~(tserver /\ hello # "ended")
    BY DEF Tls!EncIn
  <2>2. hello \in {"none", "ended"}
    BY <2>1 DEF CInv, ParserFirst
  <2>3. Held = 0
    BY <2>2 DEF Held
  <2> QED
    BY <2>1, <2>2, <2>3 DEF CInv, TlsTypes, StreamKept
<1>2. /\ bioread' = bioread \o Tls!Places(tin, n) /\ tin' = tin + n
      /\ UNCHANGED <<tserver, hello, hoff, hbody, hframe, tread, biowrite, nextsess, sslsess,
                     sfreed, ssl, terror, tshut, tpeer, tauth>>
  BY DEF Tls!EncIn, Tls!sslvars
<1> DEFINE l == Len(bioread)
<1>3. l \in Nat /\ n \in Nat /\ l + n \in Nat
  BY <1>1
<1> HIDE DEF l
<1>4. bioread' = Tls!Places(tread, l + n)
  <2>1. Tls!Places(tread, l) \o Tls!Places(tread + l, n) = Tls!Places(tread, l + n)
    BY <1>1, <1>3, PlacesJoinAll, Zenon
  <2> QED
    BY <1>1, <1>2, <2>1 DEF l
<1>5. Len(bioread') = l + n /\ bioread' \in Seq(Nat)
  BY <1>1, <1>3, <1>4, PlacesSeq
<1>6. TlsTypes'
  BY <1>1, <1>2, <1>5 DEF CInv, TlsTypes
<1>7. StreamKept'
  BY <1>1, <1>2, <1>3, <1>4, <1>5 DEF StreamKept, Held, l
<1>8. ParserFirst' /\ RoomLeft' /\ SessionsKept' /\ Tls!OnlyVerified'
  BY <1>1, <1>2 DEF CInv, ParserFirst, RoomLeft, SessionsKept, Tls!OnlyVerified, Tls!Alive
<1> QED
  BY <1>6, <1>7, <1>8 DEF CInv

(* What was gathered follows the session.                                  *)
LEMMA LoadSessionCInv ==
  ASSUME CInv, NEW found \in BOOLEAN, Tls!LoadSession(found)
  PROVE  CInv'
<1>1. /\ tin \in Nat /\ tread = 0 /\ hoff \in Nat /\ bioread = <<>> /\ Tls!Alive
      /\ hello = "paused" /\ tserver /\ tin = hoff
  <2>1. Tls!Alive /\ hello = "paused" /\ Held = hoff
    BY DEF Tls!LoadSession, Held
  <2>2. bioread = <<>> /\ tread = 0 /\ tserver
    BY <2>1 DEF CInv, ParserFirst
  <2> QED
    BY <2>1, <2>2 DEF CInv, TlsTypes, StreamKept
<1>2. /\ hello' = "ended" /\ bioread' = bioread \o Tls!Places(0, hoff)
      /\ nextsess' \in {nextsess, "conn"}
      /\ UNCHANGED <<tserver, hoff, hbody, hframe, tin, tread, biowrite, sslsess, sfreed, ssl,
                     terror, tshut, tpeer, tauth>>
  BY DEF Tls!LoadSession, Tls!Finish
<1>3. bioread' = Tls!Places(0, hoff) /\ bioread' \in Seq(Nat) /\ Len(bioread') = hoff
  BY <1>1, <1>2, PlacesSeq
<1>4. TlsTypes'
  BY <1>1, <1>2, <1>3 DEF CInv, TlsTypes
<1>5. StreamKept'
  BY <1>1, <1>2, <1>3 DEF StreamKept, Held
<1>6. ParserFirst' /\ RoomLeft' /\ SessionsKept' /\ Tls!OnlyVerified'
  BY <1>1, <1>2 DEF CInv, ParserFirst, RoomLeft, SessionsKept, Tls!OnlyVerified, Tls!Alive
<1> QED
  BY <1>4, <1>5, <1>6 DEF CInv

(* OpenSSL takes bytes from the BIO, and then goes on as it does.          *)
LEMMA TakesCInv ==
  ASSUME CInv, NEW n \in 1..Len(bioread), Tls!Takes(n), Tls!Alive,
         UNCHANGED <<tserver, hello, hoff, hbody, hframe, tin, sfreed>>,
         ssl' = ssl \/ ssl' = "finished", tpeer' \in {"none", "ok", "bad"},
         SessionsKept', Tls!OnlyVerified'
  PROVE  CInv'
<1>1. /\ tin \in Nat /\ tread \in Nat /\ bioread \in Seq(Nat) /\ Len(bioread) \in Nat
      /\ bioread = Tls!Places(tread, Len(bioread)) /\ tread + Len(bioread) + Held = tin
      /\ Held \in Nat
  BY DEF CInv, TlsTypes, StreamKept, Held
<1>2. bioread' = SubSeq(bioread, n + 1, Len(bioread)) /\ tread' = tread + n
  BY DEF Tls!Takes
<1> DEFINE l == Len(bioread)
<1>3. bioread' = Tls!Places(tread + n, l - n)
  <2>1. SubSeq(Tls!Places(tread, l), n + 1, l) = Tls!Places(tread + n, l - n)
    <3>1. l \in Nat /\ n \in 1..l
      BY <1>1
    <3> HIDE DEF l
    <3> QED
      BY <1>1, <3>1, PlacesTaken
  <2> QED
    BY <1>1, <1>2, <2>1
<1>4. Len(bioread') = l - n /\ bioread' \in Seq(Nat) /\ tread' \in Nat
  <2>1. tread + n \in Nat /\ l - n \in Nat
    BY <1>1
  <2> HIDE DEF l
  <2> QED
    BY <1>2, <1>3, <2>1, PlacesSeq
<1>5. Held' = Held
  BY DEF Held
<1>6. TlsTypes'
  BY <1>4 DEF CInv, TlsTypes
<1>7. StreamKept'
  <2>1. bioread' = Tls!Places(tread', Len(bioread'))
    BY <1>2, <1>3, <1>4
  <2>2. tread' + Len(bioread') + Held = tin
    <3>1. tread \in Nat /\ l \in Nat /\ Held \in Nat /\ n \in 1..l /\ tread + l + Held = tin
      BY <1>1
    <3>2. Len(bioread') = l - n /\ tread' = tread + n
      BY <1>2, <1>4
    <3> HIDE DEF l, Held
    <3> QED
      BY <3>1, <3>2
  <2> QED
    BY <1>5, <2>1, <2>2 DEF StreamKept
<1>8. ParserFirst'
  <2>1. bioread # <<>>
    BY <1>1
  <2>2. hello \in {"none", "ended"}
    BY <2>1 DEF CInv, ParserFirst
  <2> QED
    BY <2>2 DEF CInv, ParserFirst, Tls!Alive
<1>9. RoomLeft'
  BY DEF CInv, RoomLeft
<1> QED
  BY <1>6, <1>7, <1>8, <1>9 DEF CInv

(* What leaves the stream alone.                                           *)
LEMMA StreamCInv ==
  ASSUME CInv, UNCHANGED <<tserver, hello, hoff, hbody, hframe, tin, bioread, tread>>,
         ssl' = ssl \/ (Tls!Alive /\ ssl' = "finished"), sfreed' \in Nat,
         tpeer' \in {"none", "ok", "bad"},
         ssl = "none" => nextsess' = nextsess /\ tauth' = tauth,
         SessionsKept', Tls!OnlyVerified'
  PROVE  CInv'
<1>1. TlsTypes'
  BY DEF CInv, TlsTypes
<1>2. StreamKept'
  BY DEF CInv, StreamKept, Held, Tls!Alive
<1>3. ParserFirst' /\ RoomLeft'
  BY DEF CInv, ParserFirst, RoomLeft, Tls!Alive
<1> QED
  BY <1>1, <1>2, <1>3 DEF CInv

LEMMA NextCInv == ASSUME CInv, [Tls!Next]_tlsVars PROVE CInv'
<1> USE DEF Tls!sslvars, Tls!invars
<1>1. /\ sfreed \in Nat /\ tpeer \in {"none", "ok", "bad"} /\ SessionsKept /\ Tls!OnlyVerified
      /\ bioread \in Seq(Nat)
  BY DEF CInv, TlsTypes
<1>2. CASE UNCHANGED tlsVars
  BY <1>1, <1>2, StreamCInv DEF tlsVars, SessionsKept, Tls!OnlyVerified
<1>3. ASSUME NEW server \in BOOLEAN, Tls!New(server) PROVE CInv'
  <2>1. /\ ssl' = "handshake" /\ tserver' = server
        /\ hello' = IF server THEN "waiting" ELSE "none"
        /\ hoff = 0 /\ tin = 0 /\ tread = 0 /\ bioread = <<>> /\ nextsess = "none" /\ ssl = "none"
        /\ ~tauth
        /\ UNCHANGED <<hoff, hbody, hframe, tin, bioread, tread, biowrite, nextsess, sslsess,
                       sfreed, terror, tshut, tpeer, tauth>>
    BY <1>3 DEF Tls!New, CInv, ParserFirst
  <2>2. TlsTypes'
    BY <2>1 DEF CInv, TlsTypes
  <2>3. StreamKept'
    BY <2>1 DEF StreamKept, Held, Tls!Places
  <2>4. ParserFirst' /\ RoomLeft'
    BY <2>1 DEF ParserFirst, RoomLeft, Tls!Alive, Tls!HeaderBytes
  <2>5. SessionsKept' /\ Tls!OnlyVerified'
    BY <1>1, <2>1 DEF SessionsKept, Tls!OnlyVerified
  <2> QED
    BY <2>2, <2>3, <2>4, <2>5 DEF CInv
<1>4. CASE Tls!Handshake
  <2>1. PICK n \in 1..Len(bioread) : Tls!Takes(n)
    BY <1>4 DEF Tls!Handshake
  <2>2. /\ ssl = "handshake" /\ ssl' \in {"handshake", "finished"} /\ tpeer' \in {"none", "ok", "bad"}
        /\ UNCHANGED <<tserver, hello, hoff, hbody, hframe, tin, sfreed, tauth>>
        /\ nextsess' = nextsess \/ nextsess' = "none"
    BY <1>1, <1>4 DEF Tls!Handshake, Tls!GetSessionCallback
  <2>3. SessionsKept' /\ Tls!OnlyVerified'
    BY <1>1, <2>2 DEF SessionsKept, Tls!OnlyVerified
  <2> QED
    BY <2>1, <2>2, <2>3, TakesCInv DEF Tls!Alive
<1>5. CASE Tls!ClearOut
  <2>1. PICK n \in 1..Len(bioread) : Tls!Takes(n)
    BY <1>5 DEF Tls!ClearOut
  <2>2. /\ ssl = "finished"
        /\ UNCHANGED <<tserver, hello, hoff, hbody, hframe, tin, sfreed, ssl, nextsess, sslsess,
                       tpeer, tauth>>
    BY <1>5 DEF Tls!ClearOut
  <2>3. SessionsKept' /\ Tls!OnlyVerified'
    BY <1>1, <2>2 DEF SessionsKept, Tls!OnlyVerified
  <2> QED
    BY <1>1, <2>1, <2>2, <2>3, TakesCInv DEF Tls!Alive
<1>6. CASE Tls!Fails
  <2>1. Tls!Takes(1) /\ 1 \in 1..Len(bioread)
    BY <1>1, <1>6 DEF Tls!Fails
  <2>2. /\ Tls!Alive
        /\ UNCHANGED <<tserver, hello, hoff, hbody, hframe, tin, sfreed, ssl, nextsess, sslsess,
                       tpeer, tauth>>
    BY <1>6 DEF Tls!Fails
  <2>3. SessionsKept' /\ Tls!OnlyVerified'
    BY <1>1, <2>2 DEF SessionsKept, Tls!OnlyVerified
  <2> QED
    BY <1>1, <2>1, <2>2, <2>3, TakesCInv
<1>7. CASE Tls!Start \/ Tls!ClearIn \/ Tls!EncOut \/ Tls!Shutdown
  BY <1>1, <1>7, StreamCInv
     DEF Tls!Start, Tls!ClearIn, Tls!EncOut, Tls!Shutdown, SessionsKept, Tls!OnlyVerified
<1>8. CASE Tls!NewSession \/ Tls!SetSession
  BY <1>1, <1>8, StreamCInv DEF Tls!NewSession, Tls!SetSession, SessionsKept, Tls!OnlyVerified
<1>9. CASE Tls!Secure
  <2>1. tauth' => tpeer = "ok"
    BY <1>1, <1>9 DEF Tls!Secure, Tls!VerifyError
  <2> QED
    BY <1>1, <1>9, <2>1, StreamCInv DEF Tls!Secure, SessionsKept, Tls!OnlyVerified
<1>10. CASE Tls!Close
  <2>1. /\ ssl' = "freed" /\ bioread' = <<>> /\ sslsess' = "none" /\ sfreed' \in Nat
        /\ Tls!Alive
        /\ UNCHANGED <<tserver, hello, hoff, hbody, hframe, tin, tread, nextsess, tpeer, tauth>>
    BY <1>1, <1>10 DEF Tls!Close
  <2>2. TlsTypes'
    BY <2>1 DEF CInv, TlsTypes
  <2>3. StreamKept' /\ ParserFirst'
    BY <2>1 DEF StreamKept, ParserFirst, Tls!Alive
  <2>4. RoomLeft' /\ SessionsKept' /\ Tls!OnlyVerified'
    BY <1>1, <2>1 DEF CInv, RoomLeft, SessionsKept, Tls!OnlyVerified
  <2> QED
    BY <2>2, <2>3, <2>4 DEF CInv
<1>11. CASE Tls!Destroy
  <2>1. /\ ssl = "freed" /\ nextsess' = "none" /\ sfreed' = sfreed + 1
        /\ UNCHANGED <<tserver, hello, hoff, hbody, hframe, tin, bioread, tread, sslsess, ssl,
                       tpeer, tauth>>
    BY <1>11 DEF Tls!Destroy
  <2>2. SessionsKept' /\ Tls!OnlyVerified'
    BY <1>1, <2>1 DEF SessionsKept, Tls!OnlyVerified
  <2> QED
    BY <1>1, <2>1, <2>2, StreamCInv
<1> QED
  BY <1>2, <1>3, <1>4, <1>5, <1>6, <1>7, <1>8, <1>9, <1>10, <1>11,
     HelloWriteCInv, EncInCInv, LoadSessionCInv DEF Tls!Next

LEMMA InitCInv == Tls!Init => CInv
BY NodePartsAssumption DEF Tls!Init, CInv, TlsTypes, StreamKept, ParserFirst, RoomLeft, SessionsKept,
   Tls!OnlyVerified, Tls!Alive

LEMMA ConnectionKept == CInv => Tls!ConnectionFaithful
<1> HelloSize \in Nat \ {0, 1}
  BY NodePartsAssumption
<1> SUFFICES ASSUME CInv PROVE Tls!ConnectionFaithful
  OBVIOUS
<1>1. Tls!CiphertextInOrder
  <2> SUFFICES ASSUME Tls!Alive
               PROVE  Tls!Places(0, tread) \o bioread \o Tls!Places(tread + Len(bioread), Held)
                        = Tls!Places(0, tin)
    BY DEF Tls!CiphertextInOrder, Held
  <2>1. /\ tread \in Nat /\ Len(bioread) \in Nat /\ Held \in Nat /\ tin \in Nat
        /\ bioread = Tls!Places(0 + tread, Len(bioread)) /\ tread + Len(bioread) + Held = tin
    BY DEF CInv, TlsTypes, StreamKept, Held
  <2> DEFINE l == Len(bioread)
  <2>2. Tls!Places(0, tread) \o bioread = Tls!Places(0, tread + l)
    <3> HIDE DEF l
    <3>1. Tls!Places(0, tread) \o Tls!Places(0 + tread, l) = Tls!Places(0, tread + l)
      <4>1. 0 \in Nat /\ tread \in Nat /\ l \in Nat
        BY <2>1 DEF l
      <4> QED
        BY <4>1, PlacesJoinAll, Zenon
    <3> QED
      BY <2>1, <3>1 DEF l
  <2>3. Tls!Places(0, tread + l) \o Tls!Places(tread + l, Held) = Tls!Places(0, tin)
    <3> DEFINE m == tread + l
    <3>1. m \in Nat /\ 0 + m = m /\ m + Held = tin
      BY <2>1
    <3> HIDE DEF m
    <3>2. Tls!Places(0, m) \o Tls!Places(0 + m, Held) = Tls!Places(0, m + Held)
      <4>1. 0 \in Nat
        OBVIOUS
      <4> QED
        BY <2>1, <3>1, <4>1, PlacesJoinAll, Zenon
    <3> QED
      BY <3>1, <3>2 DEF m
  <2> QED
    BY <2>2, <2>3
<1>2. Tls!HelloDrains
  BY DEF CInv, TlsTypes, RoomLeft, Tls!HelloDrains, Tls!Gathering, Tls!HeaderBytes
<1>3. Tls!SessionsOwned
  BY DEF CInv, SessionsKept, Tls!SessionsOwned
<1> QED
  BY <1>1, <1>2, <1>3 DEF CInv, Tls!ConnectionFaithful

-----------------------------------------------------------------------------
(* wrk.c, ae.c and ae_epoll.c.                                             *)

Socket == [st : {"none", "connecting", "open", "failed"}, asked : BOOLEAN,
           in : {"nothing", "part", "until end", "rest", "last"},
           sent : {"nothing", "part", "until end"}, eof : BOOLEAN]
Masks == SUBSET {"r", "w"}
FileEvent == [mask : Masks, client : Conns]
Nets == [ev : [Fds -> FileEvent], epoll : [Fds -> Masks], sock : [Fds -> Socket]]
Connection == [fd : Fds \cup {0}, parser : {"start", "within", "until end"}, lost : BOOLEAN,
               begun : BOOLEAN]
Events == [fd : Fds, mask : Masks]

(* The table of events, epoll and the connections agree on a descriptor.   *)
FdKept(f, n, k) ==
  /\ n.epoll[f] = n.ev[f].mask
  /\ n.sock[f].in # "nothing" => n.sock[f].asked
  /\ n.sock[f].st = "none" => ~n.sock[f].asked /\ n.ev[f].mask = {}
  /\ n.ev[f].mask # {} => /\ k[n.ev[f].client].fd = f /\ k[n.ev[f].client].begun
                          /\ \/ n.ev[f].mask = {"r"}
                             \/ /\ n.ev[f].mask = {"w"} /\ ~n.sock[f].asked
                                /\ k[n.ev[f].client].parser = "start"

NetKept(n, k) ==
  /\ n \in Nets /\ k \in [Conns -> Connection]
  /\ \A f \in Fds : FdKept(f, n, k)

(* What is waited for was asked for, was lost, or is of no use any more; a *)
(* response that ends with the stream is ended once.                       *)
WaitKept(f, n, k, stop, fired) ==
  n.ev[f].mask = {"r"} =>
    /\ n.sock[f].asked \/ k[n.ev[f].client].lost \/ stop
    /\ k[n.ev[f].client].parser = "until end" /\ ~n.sock[f].asked =>
         stop /\ \A e \in fired : e.fd # f

Asked(n) == {f \in Fds : n.sock[f].asked}

(* Descriptors of which something may still be read in this round.         *)
Pending(n, fired) == {f \in Fds : "r" \in n.ev[f].mask /\ \E e \in fired : e.fd = f}

(* Each response is one to a request that is not waited for any more.      *)
Counted(n, complete, sent) == complete + Cardinality(Asked(n)) <= sent

(* A thread that was told to stop has made its requests, and may make as   *)
(* many more as the round has readable descriptors left.                   *)
StopKept(n, complete, stop, fired) ==
  IF stop
  THEN /\ WRequests <= complete
       /\ complete + Cardinality(Pending(n, fired)) <= WRequests + Cardinality(Conns) - 1
  ELSE complete < WRequests

RoundKept ==
  /\ wphase \in {"connecting", "polling", "events", "ended"} /\ wstop \in BOOLEAN
  /\ wcomplete \in Nat /\ hasked \in Nat
  /\ wfired \subseteq Events
  /\ \A e, g \in wfired : e.fd = g.fd => e = g
  /\ whalf # Lod!NoHalf => whalf \in Events /\ wphase = "events" /\ \A e \in wfired : e.fd # whalf.fd
  /\ wphase = "connecting" => ~wstop
  /\ wphase = "ended" => wstop
  /\ Lod!NoHalf \notin wfired

LInv ==
  /\ RoundKept /\ NetKept(wnet, wconn)
  /\ \A f \in Fds : WaitKept(f, wnet, wconn, wstop, wfired)
  /\ Counted(wnet, wcomplete, hasked) /\ StopKept(wnet, wcomplete, wstop, wfired)

(* Nothing but one descriptor is touched.                                  *)
OnlyAt(n, m, fd) ==
  /\ m \in Nets
  /\ \A f \in Fds \ {fd} : m.ev[f] = n.ev[f] /\ m.epoll[f] = n.epoll[f] /\ m.sock[f] = n.sock[f]

(* Whatever is read is read for who it was, and that is not c.             *)
ReadKept(f, n, m, c) ==
  m.ev[f].mask = {"r"} =>
    /\ m.ev[f] = n.ev[f] /\ m.sock[f].asked = n.sock[f].asked /\ m.ev[f].client # c

WithEvent(n, fd, e, p) == [n EXCEPT !.epoll[fd] = p, !.ev[fd] = e]
WithSock(n, fd, s) == [n EXCEPT !.sock[fd] = s]
WithConn(k, c, kc) == [k EXCEPT ![c] = kc]

(* The calls of ae.c and of the kernel.                                    *)
LEMMA EventSet ==
  ASSUME NEW n \in Nets, NEW fd \in Fds, NEW e \in FileEvent, NEW p \in Masks,
         NEW m, m = WithEvent(n, fd, e, p)
  PROVE  /\ OnlyAt(n, m, fd) /\ m.sock[fd] = n.sock[fd] /\ m.ev[fd] = e /\ m.epoll[fd] = p
<1> DEFINE E == [n.ev EXCEPT ![fd] = e]
           P == [n.epoll EXCEPT ![fd] = p]
<1>1. E \in [Fds -> FileEvent] /\ P \in [Fds -> Masks]
  BY DEF Nets
<1>2. m = [n EXCEPT !.epoll = P, !.ev = E]
  BY DEF Nets, WithEvent
<1>3. /\ E[fd] = e /\ \A f \in Fds \ {fd} : E[f] = n.ev[f]
      /\ P[fd] = p /\ \A f \in Fds \ {fd} : P[f] = n.epoll[f]
  BY DEF Nets
<1> HIDE DEF E, P
<1>4. m \in Nets /\ m.ev = E /\ m.epoll = P /\ m.sock = n.sock
  BY <1>1, <1>2 DEF Nets
<1> QED
  BY <1>3, <1>4 DEF OnlyAt

LEMMA SockSet ==
  ASSUME NEW n \in Nets, NEW fd \in Fds, NEW s \in Socket,
         NEW m, m = WithSock(n, fd, s)
  PROVE  /\ OnlyAt(n, m, fd) /\ m.ev[fd] = n.ev[fd] /\ m.epoll[fd] = n.epoll[fd]
         /\ m.sock[fd] = s
<1> DEFINE S == [n.sock EXCEPT ![fd] = s]
<1>1. S \in [Fds -> Socket]
  BY DEF Nets
<1>2. m = [n EXCEPT !.sock = S]
  BY DEF Nets, WithSock
<1>3. S[fd] = s /\ \A f \in Fds \ {fd} : S[f] = n.sock[f]
  BY DEF Nets
<1> HIDE DEF S
<1>4. m \in Nets /\ m.ev = n.ev /\ m.epoll = n.epoll /\ m.sock = S
  BY <1>1, <1>2 DEF Nets
<1> QED
  BY <1>3, <1>4 DEF OnlyAt

LEMMA Created ==
  ASSUME NEW n \in Nets, NEW fd \in Fds, NEW c \in Conns, NEW mask \in Masks,
         Lod!aeApiAddEventOk(n, fd), NEW m, m = Lod!aeCreateFileEvent(n, fd, mask, c)
  PROVE  /\ OnlyAt(n, m, fd) /\ m.sock[fd] = n.sock[fd]
         /\ m.ev[fd] = [mask |-> n.ev[fd].mask \cup mask, client |-> c]
         /\ m.epoll[fd] = n.ev[fd].mask \cup mask
<1> DEFINE e == [mask |-> n.ev[fd].mask \cup mask, client |-> c]
           p == n.ev[fd].mask \cup mask
<1>1. e \in FileEvent /\ p \in Masks
  BY DEF Nets, FileEvent, Masks
<1>2. m = WithEvent(n, fd, e, p)
  BY DEF Lod!aeCreateFileEvent, WithEvent
<1> HIDE DEF e, p
<1>3. /\ OnlyAt(n, m, fd) /\ m.sock[fd] = n.sock[fd] /\ m.ev[fd] = e /\ m.epoll[fd] = p
  BY <1>1, <1>2, EventSet
<1> QED
  BY <1>3 DEF e, p

LEMMA Deleted ==
  ASSUME NEW n \in Nets, NEW fd \in Fds, NEW mask \in Masks, n.ev[fd].mask # {},
         NEW m, m = Lod!aeDeleteFileEvent(n, fd, mask)
  PROVE  /\ OnlyAt(n, m, fd) /\ m.sock[fd] = n.sock[fd]
         /\ m.ev[fd] = [mask |-> n.ev[fd].mask \ mask, client |-> n.ev[fd].client]
         /\ m.epoll[fd] = n.ev[fd].mask \ mask
<1> DEFINE e == [mask |-> n.ev[fd].mask \ mask, client |-> n.ev[fd].client]
           p == n.ev[fd].mask \ mask
<1>1. e \in FileEvent /\ p \in Masks /\ n.ev[fd] \in FileEvent
  BY DEF Nets, FileEvent, Masks
<1>2. [n.ev[fd] EXCEPT !.mask = @ \ mask] = e
  BY <1>1 DEF FileEvent
<1>3. m = [n EXCEPT !.ev[fd] = e, !.epoll[fd] = p]
  BY <1>2 DEF Lod!aeDeleteFileEvent
<1> HIDE DEF e, p
<1>4. m = WithEvent(n, fd, e, p)
  BY <1>3 DEF Nets, WithEvent
<1>5. /\ OnlyAt(n, m, fd) /\ m.sock[fd] = n.sock[fd] /\ m.ev[fd] = e /\ m.epoll[fd] = p
  BY <1>1, <1>4, EventSet
<1> QED
  BY <1>5 DEF e, p

LEMMA Turned ==
  ASSUME NEW n \in Nets, NEW fd \in Fds, NEW a \in {"r", "w"}, NEW b \in {"r", "w"},
         NEW c \in Conns, n.ev[fd].mask = {a}, n.epoll[fd] = {a},
         NEW m, m = Lod!aeCreateFileEvent(Lod!aeDeleteFileEvent(n, fd, {a}), fd, {b}, c)
  PROVE  /\ OnlyAt(n, m, fd) /\ m.sock[fd] = n.sock[fd]
         /\ m.ev[fd] = [mask |-> {b}, client |-> c] /\ m.epoll[fd] = {b}
<1> DEFINE l == Lod!aeDeleteFileEvent(n, fd, {a})
<1> {a} \in SUBSET {"r", "w"} /\ {b} \in SUBSET {"r", "w"}
  OBVIOUS
<1>1. /\ OnlyAt(n, l, fd) /\ l.sock[fd] = n.sock[fd]
      /\ l.ev[fd] = [mask |-> {a} \ {a}, client |-> n.ev[fd].client] /\ l.epoll[fd] = {a} \ {a}
  <2> DEFINE A == {a}
  <2>1. A \in Masks /\ n.ev[fd].mask # {} /\ n.ev[fd].mask = A
    BY DEF Masks
  <2>2. l = Lod!aeDeleteFileEvent(n, fd, A)
    OBVIOUS
  <2> HIDE DEF A, l
  <2>3. /\ OnlyAt(n, l, fd) /\ l.sock[fd] = n.sock[fd]
        /\ l.ev[fd] = [mask |-> n.ev[fd].mask \ A, client |-> n.ev[fd].client]
        /\ l.epoll[fd] = n.ev[fd].mask \ A
    BY <2>1, <2>2, Deleted
  <2> QED
    BY <2>1, <2>3 DEF A
<1>2. l \in Nets /\ l.ev[fd].mask = {} /\ l.epoll[fd] = {}
  <2> HIDE DEF l
  <2> QED
    BY <1>1 DEF OnlyAt
<1>3. Lod!aeApiAddEventOk(l, fd)
  BY <1>2 DEF Lod!aeApiAddEventOk
<1>4. m = Lod!aeCreateFileEvent(l, fd, {b}, c)
  OBVIOUS
<1> HIDE DEF l
<1>5. /\ OnlyAt(l, m, fd) /\ m.sock[fd] = l.sock[fd]
      /\ m.ev[fd] = [mask |-> l.ev[fd].mask \cup {b}, client |-> c]
      /\ m.epoll[fd] = l.ev[fd].mask \cup {b}
  <2> DEFINE B == {b}
  <2>1. B \in Masks /\ m = Lod!aeCreateFileEvent(l, fd, B, c)
    BY <1>4 DEF Masks
  <2> HIDE DEF B
  <2>2. /\ OnlyAt(l, m, fd) /\ m.sock[fd] = l.sock[fd]
        /\ m.ev[fd] = [mask |-> l.ev[fd].mask \cup B, client |-> c]
        /\ m.epoll[fd] = l.ev[fd].mask \cup B
    <3>1. l \in Nets /\ B \in Masks
      BY <1>2, <2>1
    <3>2. ASSUME NEW x, x = Lod!aeCreateFileEvent(l, fd, B, c)
          PROVE  /\ OnlyAt(l, x, fd) /\ x.sock[fd] = l.sock[fd]
                 /\ x.ev[fd] = [mask |-> l.ev[fd].mask \cup B, client |-> c]
                 /\ x.epoll[fd] = l.ev[fd].mask \cup B
      BY <3>1, <1>3, <3>2, Created
    <3> QED
      BY <2>1, <3>2
  <2> QED
    BY <2>2 DEF B
<1>6. {} \cup {b} = {b}
  OBVIOUS
<1> QED
  BY <1>1, <1>2, <1>5, <1>6 DEF OnlyAt

(* A new socket is that of a connection which has none.                    *)
LEMMA Opened ==
  ASSUME NEW n, NEW k, NetKept(n, k), NEW c \in Conns, NEW kc \in Connection,
         \A f \in Fds : n.ev[f].mask # {} => n.ev[f].client # c,
         NEW o \in Lod!connect_socket(n, c, kc), NEW k2, k2 = WithConn(k, c, o.conn)
  PROVE  /\ NetKept(o.net, k2) /\ Asked(o.net) = Asked(n) /\ o.conn.begun
         /\ \A f \in Fds : ReadKept(f, n, o.net, c)
<1>1. n \in Nets /\ k \in [Conns -> Connection] /\ \A f \in Fds : FdKept(f, n, k)
  BY DEF NetKept
<1>2. \A f \in Fds : n.ev[f] \in FileEvent /\ n.sock[f] \in Socket
  BY <1>1 DEF Nets
<1>3. CASE o = [net |-> n, conn |-> [kc EXCEPT !.begun = TRUE]]
  <2>1. o.net = n /\ o.conn \in Connection /\ o.conn.begun
    BY <1>3 DEF Connection
  <2>2. k2 \in [Conns -> Connection] /\ \A d \in Conns \ {c} : k2[d] = k[d]
    BY <1>1, <2>1 DEF WithConn
  <2>3. \A f \in Fds : FdKept(f, n, k2)
    BY <1>1, <1>2, <2>2 DEF FdKept, FileEvent
  <2> QED
    BY <1>1, <2>1, <2>2, <2>3 DEF NetKept, ReadKept
<1>4. ASSUME NEW st \in {"connecting", "open"}, NEW fd \in Fds, n.sock[fd].st = "none",
             o.net = Lod!aeCreateFileEvent([n EXCEPT !.sock[fd].st = st], fd, {"w"}, c),
             o.conn = IF Lod!aeApiAddEventOk(n, fd)
                      THEN [Lod!New EXCEPT !.fd = fd, !.begun = TRUE] ELSE kc
      PROVE  /\ NetKept(o.net, k2) /\ Asked(o.net) = Asked(n) /\ o.conn.begun
             /\ \A f \in Fds : ReadKept(f, n, o.net, c)
  <2> DEFINE s == [n.sock[fd] EXCEPT !.st = st]
             l == WithSock(n, fd, s)
             m == o.net
  <2>1. /\ n.ev[fd].mask = {} /\ n.epoll[fd] = {} /\ ~n.sock[fd].asked
        /\ n.sock[fd].in = "nothing"
    BY <1>1, <1>4 DEF FdKept
  <2>2. s \in Socket /\ s.st = st /\ s.asked = n.sock[fd].asked /\ s.in = n.sock[fd].in
    BY <1>2 DEF Socket
  <2>3. /\ OnlyAt(n, l, fd) /\ l.ev[fd] = n.ev[fd] /\ l.epoll[fd] = n.epoll[fd]
        /\ l.sock[fd] = s
    <3> HIDE DEF s
    <3> QED
      BY <1>1, <2>2, SockSet
  <2>4. Lod!aeApiAddEventOk(n, fd) /\ Lod!aeApiAddEventOk(l, fd) /\ l \in Nets
    BY <2>1, <2>3 DEF Lod!aeApiAddEventOk, OnlyAt
  <2>5. m = Lod!aeCreateFileEvent(l, fd, {"w"}, c)
    <3>1. l = [n EXCEPT !.sock[fd].st = st]
      BY DEF WithSock
    <3> QED
      BY <1>4, <3>1
  <2> HIDE DEF s, l, m
  <2>6. /\ OnlyAt(l, m, fd) /\ m.sock[fd] = l.sock[fd]
        /\ m.ev[fd] = [mask |-> l.ev[fd].mask \cup {"w"}, client |-> c]
        /\ m.epoll[fd] = l.ev[fd].mask \cup {"w"}
    <3> DEFINE B == {"w"}
    <3>1. B \in Masks /\ m = Lod!aeCreateFileEvent(l, fd, B, c)
      BY <2>5 DEF Masks
    <3> HIDE DEF B
    <3>2. /\ OnlyAt(l, m, fd) /\ m.sock[fd] = l.sock[fd]
          /\ m.ev[fd] = [mask |-> l.ev[fd].mask \cup B, client |-> c]
          /\ m.epoll[fd] = l.ev[fd].mask \cup B
      BY <2>4, <3>1, Created
    <3> QED
      BY <3>2 DEF B
  <2>7. /\ m.ev[fd].mask = {"w"} /\ m.ev[fd].client = c /\ m.epoll[fd] = {"w"}
        /\ m.sock[fd].st # "none" /\ ~m.sock[fd].asked /\ m.sock[fd].in = "nothing"
    BY <2>1, <2>2, <2>3, <2>6
  <2>8. /\ m \in Nets
        /\ \A f \in Fds \ {fd} : m.ev[f] = n.ev[f] /\ m.epoll[f] = n.epoll[f] /\ m.sock[f] = n.sock[f]
    BY <2>3, <2>6 DEF OnlyAt
  <2>9. /\ o.conn \in Connection /\ o.conn.fd = fd /\ o.conn.begun /\ o.conn.parser = "start"
    BY <1>4, <2>4 DEF Connection, Lod!New
  <2>10. /\ k2 \in [Conns -> Connection] /\ k2[c] = o.conn
         /\ \A d \in Conns \ {c} : k2[d] = k[d]
    BY <1>1, <2>9 DEF WithConn
  <2>11. ASSUME NEW f \in Fds PROVE FdKept(f, m, k2) /\ ReadKept(f, n, m, c)
    <3>1. CASE f = fd
      BY <2>7, <2>9, <2>10, <3>1 DEF FdKept, ReadKept
    <3>2. CASE f # fd
      <4>1. m.ev[f] = n.ev[f] /\ m.epoll[f] = n.epoll[f] /\ m.sock[f] = n.sock[f]
        BY <2>8, <3>2
      <4>2. n.ev[f].mask # {} => n.ev[f].client \in Conns \ {c}
        BY <1>2 DEF FileEvent
      <4>3. FdKept(f, n, k)
        BY <1>1
      <4> QED
        BY <2>10, <4>1, <4>2, <4>3 DEF FdKept, ReadKept
    <3> QED
      BY <3>1, <3>2
  <2>12. Asked(m) = Asked(n)
    BY <2>1, <2>7, <2>8 DEF Asked
  <2> QED
    BY <2>8, <2>9, <2>10, <2>11, <2>12 DEF NetKept, m
<1>5. \/ o = Lod!NotConnected(n, kc)
      \/ \E fd \in {f \in Fds : n.sock[f].st = "none"}, st \in {"connecting", "open"} :
           o = Lod!Connected(n, c, kc, fd, st)
  BY DEF Lod!connect_socket
<1>6. CASE o = Lod!NotConnected(n, kc)
  BY <1>3, <1>6 DEF Lod!NotConnected
<1>7. ASSUME NEW fd \in {f \in Fds : n.sock[f].st = "none"}, NEW st \in {"connecting", "open"},
             o = Lod!Connected(n, c, kc, fd, st)
      PROVE  /\ NetKept(o.net, k2) /\ Asked(o.net) = Asked(n) /\ o.conn.begun
             /\ \A f \in Fds : ReadKept(f, n, o.net, c)
  <2>1. /\ fd \in Fds /\ n.sock[fd].st = "none"
        /\ o.net = Lod!aeCreateFileEvent([n EXCEPT !.sock[fd].st = st], fd, {"w"}, c)
        /\ o.conn = IF Lod!aeApiAddEventOk(n, fd)
                    THEN [Lod!New EXCEPT !.fd = fd, !.begun = TRUE] ELSE kc
    BY <1>7 DEF Lod!Connected
  <2> QED
    BY <1>4, <2>1
<1> QED
  BY <1>5, <1>6, <1>7

(* A connection whose socket is closed has none.                           *)
LEMMA Closed ==
  ASSUME NEW n, NEW k, NetKept(n, k), NEW fd \in Fds, n.ev[fd].mask # {},
         NEW c, c = n.ev[fd].client,
         NEW m, m = Lod!CloseFd(Lod!aeDeleteFileEvent(n, fd, {"r", "w"}), fd)
  PROVE  /\ NetKept(m, k) /\ Asked(m) = Asked(n) \ {fd}
         /\ \A f \in Fds : m.ev[f].mask # {} => m.ev[f].client # c
         /\ \A f \in Fds : ReadKept(f, n, m, c)
<1>1. n \in Nets /\ k \in [Conns -> Connection] /\ \A f \in Fds : FdKept(f, n, k)
  BY DEF NetKept
<1>2. \A f \in Fds : n.ev[f] \in FileEvent /\ n.sock[f] \in Socket
  BY <1>1 DEF Nets
<1> DEFINE l == Lod!aeDeleteFileEvent(n, fd, {"r", "w"})
<1>3. /\ OnlyAt(n, l, fd) /\ l.sock[fd] = n.sock[fd]
      /\ l.ev[fd] = [mask |-> n.ev[fd].mask \ {"r", "w"}, client |-> n.ev[fd].client]
      /\ l.epoll[fd] = n.ev[fd].mask \ {"r", "w"}
  <2> DEFINE B == {"r", "w"}
  <2>1. B \in Masks /\ l = Lod!aeDeleteFileEvent(n, fd, B)
    BY DEF Masks
  <2> HIDE DEF B, l
  <2>2. /\ OnlyAt(n, l, fd) /\ l.sock[fd] = n.sock[fd]
        /\ l.ev[fd] = [mask |-> n.ev[fd].mask \ B, client |-> n.ev[fd].client]
        /\ l.epoll[fd] = n.ev[fd].mask \ B
    BY <1>1, <2>1, Deleted
  <2> QED
    BY <2>2 DEF B
<1>4. n.ev[fd].mask \ {"r", "w"} = {}
  BY <1>2 DEF FileEvent, Masks
<1>5. l \in Nets /\ l.ev[fd].mask = {}
  BY <1>3, <1>4 DEF OnlyAt
<1>6. m = Lod!CloseFd(l, fd)
  OBVIOUS
<1> HIDE DEF l
<1>7. m = [l EXCEPT !.sock[fd] = Lod!NoSocket, !.epoll[fd] = {}]
  BY <1>6 DEF Lod!CloseFd
<1>8. Lod!NoSocket \in Socket /\ {} \in Masks
  BY DEF Lod!NoSocket, Socket, Masks
<1>9. m \in Nets /\ m.ev = l.ev /\ m.epoll = [l.epoll EXCEPT ![fd] = {}]
      /\ m.sock = [l.sock EXCEPT ![fd] = Lod!NoSocket]
  <2> DEFINE S == [l.sock EXCEPT ![fd] = Lod!NoSocket]
             P == [l.epoll EXCEPT ![fd] = {}]
  <2>1. S \in [Fds -> Socket] /\ P \in [Fds -> Masks]
    BY <1>5, <1>8 DEF Nets
  <2>2. m = [l EXCEPT !.sock = S, !.epoll = P]
    BY <1>5, <1>7 DEF Nets
  <2> HIDE DEF S, P
  <2>3. m \in Nets /\ m.ev = l.ev /\ m.epoll = P /\ m.sock = S
    BY <1>5, <2>1, <2>2 DEF Nets
  <2> QED
    BY <2>3 DEF S, P
<1>11. /\ m.ev[fd].mask = {} /\ m.epoll[fd] = {} /\ m.sock[fd] = Lod!NoSocket
       /\ \A f \in Fds \ {fd} : m.ev[f] = n.ev[f] /\ m.epoll[f] = n.epoll[f] /\ m.sock[f] = n.sock[f]
  BY <1>3, <1>5, <1>9 DEF OnlyAt, Nets
<1>12. m.sock[fd].st = "none" /\ ~m.sock[fd].asked /\ m.sock[fd].in = "nothing"
  BY <1>11 DEF Lod!NoSocket
<1>13. ASSUME NEW f \in Fds PROVE FdKept(f, m, k)
  <2>1. CASE f = fd
    BY <1>11, <1>12, <2>1 DEF FdKept
  <2>2. CASE f # fd
    <3>1. m.ev[f] = n.ev[f] /\ m.epoll[f] = n.epoll[f] /\ m.sock[f] = n.sock[f] /\ FdKept(f, n, k)
      BY <1>1, <1>11, <2>2
    <3> QED
      BY <3>1 DEF FdKept
  <2> QED
    BY <2>1, <2>2
<1>14. \A f \in Fds : m.ev[f].mask # {} => m.ev[f].client # c
  BY <1>1, <1>11 DEF FdKept
<1>15. \A f \in Fds : ReadKept(f, n, m, c)
  BY <1>11, <1>14 DEF ReadKept
<1>16. Asked(m) = Asked(n) \ {fd}
  BY <1>11, <1>12 DEF Asked
<1> QED
  BY <1>1, <1>9, <1>13, <1>14, <1>15, <1>16 DEF NetKept

LEMMA Reconnected ==
  ASSUME NEW n, NEW k, NetKept(n, k), NEW fd \in Fds, n.ev[fd].mask # {},
         NEW c \in Conns, c = n.ev[fd].client, NEW kc \in Connection, kc.fd = fd,
         NEW o \in Lod!reconnect_socket(n, c, kc), NEW k2, k2 = WithConn(k, c, o.conn)
  PROVE  /\ NetKept(o.net, k2) /\ Asked(o.net) = Asked(n) \ {fd}
         /\ \A f \in Fds : ReadKept(f, n, o.net, c)
<1> DEFINE m == Lod!CloseFd(Lod!aeDeleteFileEvent(n, fd, {"r", "w"}), fd)
<1>1. o \in Lod!connect_socket(m, c, kc)
  BY DEF Lod!reconnect_socket
<1>2. /\ NetKept(m, k) /\ Asked(m) = Asked(n) \ {fd}
      /\ \A f \in Fds : m.ev[f].mask # {} => m.ev[f].client # c
      /\ \A f \in Fds : ReadKept(f, n, m, c)
  <2>1. m = Lod!CloseFd(Lod!aeDeleteFileEvent(n, fd, {"r", "w"}), fd)
    OBVIOUS
  <2> HIDE DEF m
  <2> QED
    BY <2>1, Closed
<1> HIDE DEF m
<1>3. /\ NetKept(o.net, k2) /\ Asked(o.net) = Asked(m)
      /\ \A f \in Fds : ReadKept(f, m, o.net, c)
  BY <1>1, <1>2, Opened
<1>4. \A f \in Fds : ReadKept(f, n, o.net, c)
  BY <1>2, <1>3 DEF ReadKept
<1> QED
  BY <1>2, <1>3, <1>4

(* What one connection does on its own descriptor.                         *)
LEMMA OneFd ==
  ASSUME NEW n, NEW k, NetKept(n, k), NEW fd \in Fds, n.ev[fd].mask # {},
         NEW c \in Conns, c = n.ev[fd].client, NEW m, OnlyAt(n, m, fd),
         NEW kc \in Connection, NEW k2, k2 = WithConn(k, c, kc), FdKept(fd, m, k2)
  PROVE  NetKept(m, k2) /\ \A f \in Fds \ {fd} : ReadKept(f, n, m, c)
<1>1. n \in Nets /\ k \in [Conns -> Connection] /\ \A f \in Fds : FdKept(f, n, k)
  BY DEF NetKept
<1>2. \A f \in Fds : n.ev[f].mask # {} => n.ev[f].client \in Conns
  BY <1>1 DEF Nets, FileEvent
<1>3. \A f \in Fds \ {fd} : n.ev[f].mask # {} => n.ev[f].client # c
  BY <1>1 DEF FdKept
<1>4. k2 \in [Conns -> Connection] /\ \A d \in Conns \ {c} : k2[d] = k[d]
  BY <1>1 DEF WithConn
<1>5. ASSUME NEW f \in Fds \ {fd} PROVE FdKept(f, m, k2) /\ ReadKept(f, n, m, c)
  <2>1. m.ev[f] = n.ev[f] /\ m.epoll[f] = n.epoll[f] /\ m.sock[f] = n.sock[f]
    BY DEF OnlyAt
  <2>2. FdKept(f, n, k) /\ (n.ev[f].mask # {} => n.ev[f].client \in Conns \ {c})
    BY <1>1, <1>2, <1>3
  <2> QED
    BY <1>4, <2>1, <2>2 DEF FdKept, ReadKept
<1>6. \A f \in Fds : FdKept(f, m, k2)
  BY <1>5
<1> QED
  BY <1>4, <1>5, <1>6 DEF NetKept, OnlyAt

(* What handling an event of fd, for c, leaves behind.                     *)
Settles(fd, c) ==
  /\ NetKept(wnet', wconn')
  /\ \A d \in Conns \ {c} : wconn'[d] = wconn[d]
  /\ \A f \in Fds \ {fd} : ReadKept(f, wnet, wnet', c)
  /\ wnet'.ev[fd].mask = {"r"} =>
       /\ wnet'.sock[fd].asked \/ wconn'[wnet'.ev[fd].client].lost \/ wstop'
       /\ wconn'[wnet'.ev[fd].client].parser = "until end" /\ ~wnet'.sock[fd].asked => wstop'
  /\ wstop => wstop'

(* A response is counted for a request that was waited for.                *)
Completed(fd) ==
  /\ wcomplete' = wcomplete + 1
  /\ IF wcomplete + 1 >= WRequests THEN wstop' = TRUE ELSE wstop' = wstop
  /\ fd \in Asked(wnet) /\ Asked(wnet') = Asked(wnet) \ {fd}

LEMMA BecomesOne ==
  ASSUME NEW c \in Conns, NEW n, NEW kc, Lod!Becomes(c, {[net |-> n, conn |-> kc]})
  PROVE  wnet' = n /\ wconn' = WithConn(wconn, c, kc)
<1> DEFINE o == [net |-> n, conn |-> kc]
<1>1. wnet' = o.net /\ wconn' = [wconn EXCEPT ![c] = o.conn]
  <2> HIDE DEF o
  <2>1. PICK p \in {o} : wnet' = p.net /\ wconn' = [wconn EXCEPT ![c] = p.conn]
    BY DEF Lod!Becomes, o
  <2> QED
    BY <2>1
<1>2. o.net = n /\ o.conn = kc
  OBVIOUS
<1> HIDE DEF o
<1> QED
  BY <1>1, <1>2 DEF WithConn

LEMMA BecomesSome ==
  ASSUME NEW c \in Conns, NEW outcomes, Lod!Becomes(c, outcomes)
  PROVE  \E o \in outcomes : wnet' = o.net /\ wconn' = WithConn(wconn, c, o.conn)
BY DEF Lod!Becomes, WithConn

LEMMA WithConnIs ==
  ASSUME NEW k \in [Conns -> Connection], NEW c \in Conns, NEW kc
  PROVE  WithConn(k, c, kc)[c] = kc /\ \A d \in Conns \ {c} : WithConn(k, c, kc)[d] = k[d]
BY DEF WithConn

(* request_complete, when the response was taken off its socket.           *)
Counts(n, fd, c) ==
  /\ NetKept(wnet', wconn')
  /\ \A d \in Conns \ {c} : wconn'[d] = wconn[d]
  /\ \A f \in Fds \ {fd} : ReadKept(f, n, wnet', c)
  /\ wnet'.ev[fd].mask = {"r"} => wstop' = TRUE
  /\ wcomplete' = wcomplete + 1
  /\ IF wcomplete + 1 >= WRequests THEN wstop' = TRUE ELSE wstop' = wstop
  /\ Asked(wnet') = Asked(n)

LEMMA RequestComplete ==
  ASSUME NEW n, NetKept(n, wconn), NEW fd \in Fds, n.ev[fd].mask = {"r"},
         ~n.sock[fd].asked, NEW c \in Conns, c = n.ev[fd].client,
         NEW kc \in Connection, kc.fd = fd, kc.begun, NEW keepalive,
         Lod!request_complete(n, c, kc, keepalive)
  PROVE  Counts(n, fd, c)
<1>1. /\ n \in Nets /\ wconn \in [Conns -> Connection] /\ FdKept(fd, n, wconn)
      /\ n.epoll[fd] = {"r"} /\ n.sock[fd].in = "nothing" /\ n.sock[fd].st # "none"
  BY DEF NetKept, FdKept
<1>2. wcomplete' = wcomplete + 1
  BY DEF Lod!request_complete
<1>3. CASE wcomplete + 1 >= WRequests
  <2>1. wstop' = TRUE /\ Lod!Becomes(c, {[net |-> n, conn |-> kc]})
    BY <1>2, <1>3 DEF Lod!request_complete
  <2>2. wnet' = n /\ wconn' = WithConn(wconn, c, kc)
    BY <2>1, BecomesOne
  <2>3. OnlyAt(n, n, fd)
    BY <1>1 DEF OnlyAt
  <2>4. wconn'[c] = kc /\ \A d \in Conns \ {c} : wconn'[d] = wconn[d]
    BY <1>1, <2>2, WithConnIs
  <2>5. FdKept(fd, n, wconn')
    BY <1>1, <2>4 DEF FdKept
  <2>6. NetKept(n, wconn') /\ \A f \in Fds \ {fd} : ReadKept(f, n, n, c)
    BY <2>2, <2>3, <2>5, OneFd
  <2> QED
    BY <1>2, <1>3, <2>1, <2>2, <2>4, <2>6 DEF Counts
<1>4. CASE ~(wcomplete + 1 >= WRequests) /\ keepalive
  <2> DEFINE m == Lod!aeCreateFileEvent(Lod!aeDeleteFileEvent(n, fd, {"r"}), fd, {"w"}, c)
             k1 == [kc EXCEPT !.parser = "start"]
  <2>1. UNCHANGED wstop /\ Lod!Becomes(c, {[net |-> m, conn |-> k1]})
    BY <1>2, <1>4 DEF Lod!request_complete
  <2>2. k1 \in Connection /\ k1.fd = fd /\ k1.begun /\ k1.parser = "start"
    BY DEF Connection
  <2>3. m = Lod!aeCreateFileEvent(Lod!aeDeleteFileEvent(n, fd, {"r"}), fd, {"w"}, c)
    OBVIOUS
  <2> HIDE DEF m, k1
  <2>4. /\ OnlyAt(n, m, fd) /\ m.sock[fd] = n.sock[fd]
        /\ m.ev[fd] = [mask |-> {"w"}, client |-> c] /\ m.epoll[fd] = {"w"}
    BY <1>1, <2>3, Turned
  <2>5. wnet' = m /\ wconn' = WithConn(wconn, c, k1)
    BY <2>1, BecomesOne
  <2>6. wconn'[c] = k1 /\ \A d \in Conns \ {c} : wconn'[d] = wconn[d]
    BY <1>1, <2>5, WithConnIs
  <2>7. m.ev[fd].mask = {"w"} /\ m.ev[fd].client = c
    BY <2>4
  <2>8. FdKept(fd, m, wconn')
    BY <1>1, <2>2, <2>4, <2>6, <2>7 DEF FdKept
  <2>9. NetKept(m, wconn') /\ \A f \in Fds \ {fd} : ReadKept(f, n, m, c)
    BY <2>2, <2>4, <2>5, <2>8, OneFd
  <2>10. Asked(m) = Asked(n)
    BY <2>4 DEF Asked, OnlyAt
  <2> QED
    BY <1>2, <1>4, <2>1, <2>5, <2>6, <2>7, <2>9, <2>10 DEF Counts
<1>5. CASE ~(wcomplete + 1 >= WRequests) /\ ~keepalive
  <2>1. UNCHANGED wstop /\ Lod!Becomes(c, Lod!reconnect_socket(n, c, kc))
    BY <1>2, <1>5 DEF Lod!request_complete
  <2>2. PICK o \in Lod!reconnect_socket(n, c, kc) :
          wnet' = o.net /\ wconn' = WithConn(wconn, c, o.conn)
    BY <2>1, BecomesSome
  <2>3. /\ NetKept(wnet', wconn') /\ Asked(wnet') = Asked(n) \ {fd}
        /\ \A f \in Fds : ReadKept(f, n, wnet', c)
    BY <2>2, Reconnected
  <2>4. \A d \in Conns \ {c} : wconn'[d] = wconn[d]
    BY <1>1, <2>2, WithConnIs
  <2>5. wnet'.ev[fd].mask # {"r"}
    BY <2>3 DEF ReadKept
  <2>6. Asked(wnet') = Asked(n)
    BY <2>3 DEF Asked
  <2> QED
    BY <1>2, <1>5, <2>1, <2>3, <2>4, <2>5, <2>6 DEF Counts
<1> QED
  BY <1>3, <1>4, <1>5

LEMMA Readable ==
  ASSUME LInv, NEW fd \in Fds, wnet.ev[fd].mask = {"r"}, NEW c \in Conns,
         c = wnet.ev[fd].client, \E e \in wfired : e.fd = fd, Lod!socket_readable(fd, c)
  PROVE  /\ Settles(fd, c) /\ hasked' = hasked
         /\ \/ wcomplete' = wcomplete /\ wstop' = wstop /\ Asked(wnet') \subseteq Asked(wnet)
            \/ Completed(fd)
<1> DEFINE s == wnet.sock[fd]
           k == wconn[c]
           t == [s EXCEPT !.in = "nothing"]
           a == [t EXCEPT !.asked = FALSE]
           taken == WithSock(wnet, fd, t)
           answered == WithSock(wnet, fd, a)
<1>1. /\ NetKept(wnet, wconn) /\ wnet \in Nets /\ wconn \in [Conns -> Connection]
      /\ FdKept(fd, wnet, wconn) /\ wnet.epoll[fd] = {"r"} /\ wcomplete \in Nat
      /\ WaitKept(fd, wnet, wconn, wstop, wfired)
  BY DEF LInv, NetKept, FdKept, RoundKept
<1>2. /\ s \in Socket /\ k \in Connection /\ k.fd = fd /\ k.begun
      /\ (s.in # "nothing" => s.asked) /\ s.st # "none"
      /\ (k.parser = "until end" => s.asked)
      /\ s.asked \/ k.lost \/ wstop
  BY <1>1 DEF Nets, FdKept, WaitKept
<1>3. t \in Socket /\ t.in = "nothing" /\ t.asked = s.asked /\ t.st = s.st
  BY <1>2 DEF Socket
<1>4. a \in Socket /\ a.in = "nothing" /\ ~a.asked /\ a.st = s.st
  BY <1>2 DEF Socket
<1>5. /\ taken = [wnet EXCEPT !.sock[fd].in = "nothing"]
      /\ answered = [taken EXCEPT !.sock[fd].asked = FALSE]
  <2>1. taken = [wnet EXCEPT !.sock[fd].in = "nothing"]
    BY DEF WithSock
  <2>2. taken.sock = [wnet.sock EXCEPT ![fd] = t]
    BY <1>1 DEF WithSock, Nets
  <2>3. taken.sock[fd] = t
    BY <1>1, <2>2 DEF Nets
  <2> DEFINE S == [wnet.sock EXCEPT ![fd] = a]
             T == [wnet.sock EXCEPT ![fd] = t]
  <2>4. answered = [wnet EXCEPT !.sock = S] /\ taken = [wnet EXCEPT !.sock = T]
    BY <1>1 DEF WithSock, Nets
  <2>5. [T EXCEPT ![fd].asked = FALSE] = S
    BY <1>1 DEF Nets
  <2> HIDE DEF S, T
  <2>6. [[wnet EXCEPT !.sock = T] EXCEPT !.sock[fd].asked = FALSE] = [wnet EXCEPT !.sock = S]
    BY <1>1, <2>5 DEF Nets
  <2> QED
    BY <2>1, <2>4, <2>6
<1> HIDE DEF s, k, t, a, taken, answered
<1>0. /\ NetKept(wnet, wconn) /\ wconn \in [Conns -> Connection] /\ wnet.ev[fd].mask # {}
      /\ c = wnet.ev[fd].client /\ k \in Connection /\ k.fd = fd
  BY <1>1, <1>2
<1>6. /\ OnlyAt(wnet, taken, fd) /\ taken.ev[fd] = wnet.ev[fd]
      /\ taken.epoll[fd] = wnet.epoll[fd] /\ taken.sock[fd] = t
  BY <1>1, <1>3, SockSet DEF taken
<1>7. /\ OnlyAt(wnet, answered, fd) /\ answered.ev[fd] = wnet.ev[fd]
      /\ answered.epoll[fd] = wnet.epoll[fd] /\ answered.sock[fd] = a
  BY <1>1, <1>4, SockSet DEF answered
<1>8. ASSUME NEW parser \in {"start", "within", "until end"}, parser = "until end" => s.asked,
             Lod!Becomes(c, {[net |-> taken, conn |-> [k EXCEPT !.parser = parser]]}),
             UNCHANGED <<wstop, wcomplete, hasked>>
      PROVE  Settles(fd, c) /\ Asked(wnet') \subseteq Asked(wnet)
  <2> DEFINE k1 == [k EXCEPT !.parser = parser]
  <2>1. k1 \in Connection /\ k1.fd = fd /\ k1.begun /\ k1.parser = parser /\ k1.lost = k.lost
    BY <1>2 DEF Connection
  <2>2. Lod!Becomes(c, {[net |-> taken, conn |-> k1]})
    BY <1>8
  <2> HIDE DEF k1
  <2>3. wnet' = taken /\ wconn' = WithConn(wconn, c, k1)
    BY <2>2, BecomesOne
  <2>4. wconn'[c] = k1 /\ \A d \in Conns \ {c} : wconn'[d] = wconn[d]
    <3>1. wconn \in [Conns -> Connection]
      BY <1>0
    <3> QED
      BY <2>3, <3>1 DEF WithConn
  <2>5. FdKept(fd, taken, wconn')
    BY <1>1, <1>2, <1>3, <1>6, <2>1, <2>4 DEF FdKept
  <2>6. NetKept(taken, wconn') /\ \A f \in Fds \ {fd} : ReadKept(f, wnet, taken, c)
    BY <1>0, <1>6, <2>1, <2>3, <2>5, OneFd
  <2>7. taken.sock[fd].asked = s.asked /\ taken.ev[fd].client = c
    BY <1>3, <1>6
  <2>8. Settles(fd, c)
    BY <1>2, <1>8, <2>1, <2>3, <2>4, <2>6, <2>7 DEF Settles
  <2>9. Asked(taken) \subseteq Asked(wnet)
    BY <1>6, <2>7 DEF Asked, OnlyAt, s
  <2> QED
    BY <2>3, <2>8, <2>9
<1>9. ASSUME Lod!Becomes(c, Lod!reconnect_socket(wnet, c, k)), UNCHANGED <<wstop, wcomplete, hasked>>
      PROVE  Settles(fd, c) /\ Asked(wnet') \subseteq Asked(wnet)
  <2>1. PICK o \in Lod!reconnect_socket(wnet, c, k) :
          wnet' = o.net /\ wconn' = WithConn(wconn, c, o.conn)
    BY <1>9, BecomesSome
  <2>2. /\ NetKept(wnet', wconn') /\ Asked(wnet') = Asked(wnet) \ {fd}
        /\ \A f \in Fds : ReadKept(f, wnet, wnet', c)
    BY <1>0, <2>1, Reconnected
  <2>3. \A d \in Conns \ {c} : wconn'[d] = wconn[d]
    BY <1>1, <2>1, WithConnIs
  <2>4. wnet'.ev[fd].mask # {"r"}
    BY <2>2 DEF ReadKept
  <2> QED
    BY <1>9, <2>2, <2>3, <2>4 DEF Settles
<1>10. ASSUME NEW kc \in Connection, kc.fd = fd, kc.begun, NEW keepalive, s.asked,
              Lod!request_complete(answered, c, kc, keepalive)
       PROVE  Settles(fd, c) /\ Completed(fd)
  <2>1. /\ answered.ev[fd].mask = {"r"} /\ answered.ev[fd].client = c
        /\ ~answered.sock[fd].asked
    BY <1>4, <1>7
  <2>2. WithConn(wconn, c, k) = wconn
    BY <1>1 DEF WithConn, k
  <2>3. FdKept(fd, answered, wconn)
    BY <1>1, <1>2, <1>4, <1>7, <2>1 DEF FdKept, k
  <2>4. NetKept(answered, wconn) /\ \A f \in Fds \ {fd} : ReadKept(f, wnet, answered, c)
    <3>1. OnlyAt(wnet, answered, fd) /\ wconn = WithConn(wconn, c, k)
      BY <1>7, <2>2
    <3> QED
      BY <1>0, <2>3, <3>1, OneFd
  <2>5. /\ NetKept(wnet', wconn')
        /\ \A d \in Conns \ {c} : wconn'[d] = wconn[d]
        /\ \A f \in Fds \ {fd} : ReadKept(f, answered, wnet', c)
        /\ wnet'.ev[fd].mask = {"r"} => wstop' = TRUE
        /\ wcomplete' = wcomplete + 1
        /\ IF wcomplete + 1 >= WRequests THEN wstop' = TRUE ELSE wstop' = wstop
        /\ Asked(wnet') = Asked(answered)
    <3>1. /\ NetKept(answered, wconn) /\ answered.ev[fd].mask = {"r"} /\ c = answered.ev[fd].client
          /\ ~answered.sock[fd].asked
      BY <2>1, <2>4
    <3>2. Counts(answered, fd, c)
      BY <1>10, <3>1, RequestComplete
    <3> QED
      BY <3>2 DEF Counts
  <2>6. \A f \in Fds \ {fd} : ReadKept(f, wnet, wnet', c)
    BY <2>4, <2>5 DEF ReadKept
  <2>7. Asked(answered) = Asked(wnet) \ {fd} /\ fd \in Asked(wnet)
    BY <1>7, <1>10, <2>1 DEF Asked, OnlyAt, s
  <2>8. wstop => wstop'
    BY <2>5
  <2> QED
    BY <2>5, <2>6, <2>7, <2>8 DEF Settles, Completed
<1>11. hasked' = hasked
  BY DEF Lod!socket_readable
<1>12. \/ s.in \in {"part", "until end"} /\ \E parser \in {"within", "until end"} :
            /\ s.in = "until end" \/ parser = "within"
            /\ Lod!Becomes(c, {[net |-> taken, conn |-> [k EXCEPT !.parser = parser]]})
            /\ UNCHANGED <<wstop, wcomplete>>
       \/ s.in \in {"rest", "last"}
            /\ Lod!request_complete(answered, c, [k EXCEPT !.parser = "start"], s.in = "rest")
       \/ Lod!Becomes(c, {[net |-> taken, conn |-> [k EXCEPT !.parser = "start"]]})
            /\ UNCHANGED <<wstop, wcomplete>>
       \/ Lod!Becomes(c, Lod!reconnect_socket(wnet, c, k)) /\ UNCHANGED <<wstop, wcomplete>>
       \/ k.parser = "until end" /\ Lod!request_complete(answered, c, k, FALSE)
  BY <1>5 DEF Lod!socket_readable, s, k
<1>13. CASE s.in \in {"part", "until end"} /\ \E parser \in {"within", "until end"} :
              /\ s.in = "until end" \/ parser = "within"
              /\ Lod!Becomes(c, {[net |-> taken, conn |-> [k EXCEPT !.parser = parser]]})
              /\ UNCHANGED <<wstop, wcomplete>>
  BY <1>2, <1>8, <1>11, <1>13
<1>14. CASE s.in \in {"rest", "last"}
              /\ Lod!request_complete(answered, c, [k EXCEPT !.parser = "start"], s.in = "rest")
  <2> DEFINE k1 == [k EXCEPT !.parser = "start"]
             b == s.in = "rest"
  <2>1. k1 \in Connection /\ k1.fd = fd /\ k1.begun
    BY <1>2 DEF Connection
  <2>2. b \in BOOLEAN /\ Lod!request_complete(answered, c, k1, b)
    BY <1>14
  <2> HIDE DEF k1, b
  <2>3. s.asked
    BY <1>2, <1>14
  <2> QED
    BY <1>10, <1>11, <2>1, <2>2, <2>3
<1>15. CASE k.parser = "until end" /\ Lod!request_complete(answered, c, k, FALSE)
  BY <1>2, <1>10, <1>11, <1>15
<1> QED
  BY <1>8, <1>9, <1>11, <1>12, <1>13, <1>14, <1>15

LEMMA Writeable ==
  ASSUME LInv, NEW fd \in Fds, wnet.ev[fd].mask = {"w"}, NEW c \in Conns,
         c = wnet.ev[fd].client, Lod!socket_writeable(fd, c)
  PROVE  /\ Settles(fd, c) /\ wcomplete' = wcomplete /\ wstop' = wstop
         /\ \/ hasked' = hasked /\ Asked(wnet') \subseteq Asked(wnet)
            \/ hasked' = hasked + 1 /\ Asked(wnet') = Asked(wnet) \cup {fd} /\ fd \notin Asked(wnet)
<1> DEFINE s == wnet.sock[fd]
           k == wconn[c]
           t == [s EXCEPT !.asked = TRUE]
           sent == WithSock(wnet, fd, t)
           wait(n) == Lod!aeCreateFileEvent(Lod!aeDeleteFileEvent(n, fd, {"w"}), fd, {"r"}, c)
<1>1. /\ NetKept(wnet, wconn) /\ wnet \in Nets /\ wconn \in [Conns -> Connection]
      /\ FdKept(fd, wnet, wconn) /\ wnet.epoll[fd] = {"w"}
  BY DEF LInv, NetKept, FdKept
<1>2. /\ s \in Socket /\ k \in Connection /\ k.fd = fd /\ k.begun /\ k.parser = "start"
      /\ ~s.asked /\ s.in = "nothing" /\ s.st # "none"
  BY <1>1 DEF Nets, FdKept
<1>3. t \in Socket /\ t.in = "nothing" /\ t.asked /\ t.st = s.st
  BY <1>2 DEF Socket
<1>4. sent = [wnet EXCEPT !.sock[fd].asked = TRUE]
  BY DEF WithSock
<1> HIDE DEF t, sent
<1>5. /\ OnlyAt(wnet, sent, fd) /\ sent.ev[fd] = wnet.ev[fd]
      /\ sent.epoll[fd] = wnet.epoll[fd] /\ sent.sock[fd] = t
  BY <1>1, <1>3, SockSet DEF sent
<1> HIDE DEF s, k
<1>6. /\ NetKept(wnet, wconn) /\ wconn \in [Conns -> Connection] /\ wnet.ev[fd].mask # {}
      /\ c = wnet.ev[fd].client /\ k \in Connection /\ k.fd = fd
  BY <1>1, <1>2
<1>7. ASSUME NEW n \in Nets, OnlyAt(wnet, n, fd), n.ev[fd] = wnet.ev[fd],
             n.epoll[fd] = wnet.epoll[fd], n.sock[fd].in = "nothing", n.sock[fd].st # "none",
             NEW lost \in BOOLEAN, n.sock[fd].asked \/ lost,
             Lod!Becomes(c, {[net |-> wait(n), conn |-> [k EXCEPT !.lost = lost]]}),
             wstop' = wstop
      PROVE  /\ Settles(fd, c) /\ wnet'.sock[fd] = n.sock[fd]
             /\ \A f \in Fds \ {fd} : wnet'.sock[f] = wnet.sock[f]
  <2> DEFINE m == wait(n)
             k1 == [k EXCEPT !.lost = lost]
  <2>1. k1 \in Connection /\ k1.fd = fd /\ k1.begun /\ k1.parser = "start" /\ k1.lost = lost
    BY <1>2 DEF Connection
  <2>2. Lod!Becomes(c, {[net |-> m, conn |-> k1]})
    BY <1>7
  <2>3. m = Lod!aeCreateFileEvent(Lod!aeDeleteFileEvent(n, fd, {"w"}), fd, {"r"}, c)
    OBVIOUS
  <2> HIDE DEF wait, m, k1
  <2>4. /\ OnlyAt(n, m, fd) /\ m.sock[fd] = n.sock[fd]
        /\ m.ev[fd] = [mask |-> {"r"}, client |-> c] /\ m.epoll[fd] = {"r"}
    <3>1. n.ev[fd].mask = {"w"} /\ n.epoll[fd] = {"w"}
      BY <1>1, <1>7
    <3> QED
      BY <2>3, <3>1, Turned
  <2>5. m.ev[fd].mask = {"r"} /\ m.ev[fd].client = c
    BY <2>4
  <2>6. wnet' = m /\ wconn' = WithConn(wconn, c, k1)
    BY <2>2, BecomesOne
  <2>7. wconn'[c] = k1 /\ \A d \in Conns \ {c} : wconn'[d] = wconn[d]
    <3>1. wconn \in [Conns -> Connection]
      BY <1>1
    <3> QED
      BY <2>6, <3>1 DEF WithConn
  <2>8. OnlyAt(wnet, m, fd)
    BY <1>7, <2>4 DEF OnlyAt
  <2>9. FdKept(fd, m, wconn')
    BY <1>7, <2>1, <2>4, <2>5, <2>7 DEF FdKept
  <2>10. NetKept(m, wconn') /\ \A f \in Fds \ {fd} : ReadKept(f, wnet, m, c)
    BY <1>6, <2>1, <2>6, <2>8, <2>9, OneFd
  <2>11. Settles(fd, c)
    BY <1>7, <2>1, <2>4, <2>5, <2>6, <2>7, <2>10 DEF Settles
  <2> QED
    BY <2>4, <2>6, <2>8, <2>11 DEF OnlyAt
<1>8. \/ /\ Lod!Becomes(c, {[net |-> wait(sent), conn |-> [k EXCEPT !.lost = FALSE]]})
         /\ hasked' = hasked + 1
         /\ UNCHANGED <<wstop, wcomplete>>
      \/ /\ Lod!Becomes(c, Lod!reconnect_socket(wnet, c, k))
         /\ UNCHANGED <<wstop, wcomplete, hasked>>
      \/ /\ Lod!Becomes(c, {[net |-> wait(wnet), conn |-> [k EXCEPT !.lost = TRUE]]})
         /\ UNCHANGED <<wstop, wcomplete, hasked>>
  BY <1>4 DEF Lod!socket_writeable, s, k
<1> HIDE DEF wait
<1>9. CASE /\ Lod!Becomes(c, {[net |-> wait(sent), conn |-> [k EXCEPT !.lost = FALSE]]})
           /\ hasked' = hasked + 1
           /\ UNCHANGED <<wstop, wcomplete>>
  <2>1. sent \in Nets /\ sent.sock[fd].asked /\ sent.sock[fd].in = "nothing"
        /\ sent.sock[fd].st # "none"
    BY <1>2, <1>3, <1>5 DEF OnlyAt
  <2>2. FALSE \in BOOLEAN
    OBVIOUS
  <2>3. /\ Settles(fd, c) /\ wnet'.sock[fd] = sent.sock[fd]
        /\ \A f \in Fds \ {fd} : wnet'.sock[f] = wnet.sock[f]
    BY <1>5, <1>7, <1>9, <2>1, <2>2
  <2>4. Asked(wnet') = Asked(wnet) \cup {fd} /\ fd \notin Asked(wnet)
    BY <1>2, <2>1, <2>3 DEF Asked, s
  <2> QED
    BY <1>9, <2>3, <2>4
<1>10. CASE /\ Lod!Becomes(c, Lod!reconnect_socket(wnet, c, k))
            /\ UNCHANGED <<wstop, wcomplete, hasked>>
  <2>1. PICK o \in Lod!reconnect_socket(wnet, c, k) :
          wnet' = o.net /\ wconn' = WithConn(wconn, c, o.conn)
    BY <1>10, BecomesSome
  <2>2. /\ NetKept(wnet', wconn') /\ Asked(wnet') = Asked(wnet) \ {fd}
        /\ \A f \in Fds : ReadKept(f, wnet, wnet', c)
    BY <1>6, <2>1, Reconnected
  <2>3. \A d \in Conns \ {c} : wconn'[d] = wconn[d]
    BY <1>1, <2>1, WithConnIs
  <2>4. wnet'.ev[fd].mask # {"r"}
    BY <2>2 DEF ReadKept
  <2> QED
    BY <1>10, <2>2, <2>3, <2>4 DEF Settles
<1>11. CASE /\ Lod!Becomes(c, {[net |-> wait(wnet), conn |-> [k EXCEPT !.lost = TRUE]]})
            /\ UNCHANGED <<wstop, wcomplete, hasked>>
  <2>1. /\ wnet \in Nets /\ OnlyAt(wnet, wnet, fd) /\ wnet.sock[fd].in = "nothing"
        /\ wnet.sock[fd].st # "none" /\ TRUE \in BOOLEAN
    BY <1>1, <1>2 DEF OnlyAt, s
  <2>2. /\ Settles(fd, c) /\ wnet'.sock[fd] = wnet.sock[fd]
        /\ \A f \in Fds \ {fd} : wnet'.sock[f] = wnet.sock[f]
    BY <1>7, <1>11, <2>1
  <2>3. Asked(wnet') = Asked(wnet)
    BY <2>2 DEF Asked
  <2> QED
    BY <1>11, <2>2, <2>3
<1> QED
  BY <1>8, <1>9, <1>10, <1>11

(* As many descriptors are read at most as there are connections but c.    *)
LEMMA OthersRead ==
  ASSUME NEW n, NEW k, NetKept(n, k), NEW c \in Conns, NEW S \in SUBSET Fds,
         \A f \in S : n.ev[f].mask # {} /\ n.ev[f].client \in Conns \ {c}
  PROVE  Cardinality(S) <= Cardinality(Conns) - 1
<1>1. IsFiniteSet(Conns) /\ IsFiniteSet(Fds)
  BY NodePartsAssumption
<1>2. /\ IsFiniteSet(S) /\ Cardinality(S) \in Nat
      /\ IsFiniteSet(Conns \ {c}) /\ Cardinality(Conns \ {c}) = Cardinality(Conns) - 1
      /\ Cardinality(Conns \ {c}) \in Nat
  BY <1>1, FS_Subset, FS_RemoveElement, FS_CardinalityType
<1> SUFFICES ASSUME Cardinality(Conns \ {c}) < Cardinality(S) PROVE FALSE
  BY <1>2
<1> DEFINE g == [f \in S |-> n.ev[f].client]
<1>3. g \in [S -> Conns \ {c}]
  OBVIOUS
<1>4. \E x, y \in S : x # y /\ g[x] = g[y]
  <2> HIDE DEF g
  <2> QED
    BY <1>2, <1>3, FS_PigeonHole
<1>5. PICK x, y \in S : x # y /\ n.ev[x].client = n.ev[y].client
  BY <1>4
<1>6. k[n.ev[x].client].fd = x /\ k[n.ev[y].client].fd = y
  BY DEF NetKept, FdKept
<1> QED
  BY <1>5, <1>6

(* The descriptors that remain are those that were there, but fd.          *)
LEMMA Settled ==
  ASSUME LInv, NEW fd \in Fds, NEW c \in Conns, Settles(fd, c),
         wfired' \subseteq wfired, \A e \in wfired' : e.fd # fd
  PROVE  /\ \A f \in Fds : WaitKept(f, wnet', wconn', wstop', wfired')
         /\ Pending(wnet', wfired') \subseteq Pending(wnet, wfired) \ {fd}
         /\ Cardinality(Pending(wnet', wfired')) <= Cardinality(Conns) - 1
<1>1. /\ \A f \in Fds : wnet'.ev[f] \in FileEvent
      /\ \A f \in Fds : FdKept(f, wnet', wconn')
  BY DEF Settles, NetKept, Nets
<1>2. ASSUME NEW f \in Fds PROVE WaitKept(f, wnet', wconn', wstop', wfired')
  <2>1. CASE f = fd
    BY <2>1 DEF Settles, WaitKept
  <2>2. CASE f # fd
    <3> SUFFICES ASSUME wnet'.ev[f].mask = {"r"}
                 PROVE  WaitKept(f, wnet', wconn', wstop', wfired')
      BY DEF WaitKept
    <3>1. /\ wnet'.ev[f] = wnet.ev[f] /\ wnet'.sock[f].asked = wnet.sock[f].asked
          /\ wnet.ev[f].client \in Conns \ {c}
      BY <1>1, <2>2 DEF Settles, ReadKept, FileEvent
    <3>2. wconn'[wnet.ev[f].client] = wconn[wnet.ev[f].client] /\ (wstop => wstop')
      BY <3>1 DEF Settles
    <3>3. WaitKept(f, wnet, wconn, wstop, wfired)
      BY DEF LInv
    <3> QED
      BY <3>1, <3>2, <3>3 DEF WaitKept
  <2> QED
    BY <2>1, <2>2
<1>3. ASSUME NEW f \in Pending(wnet', wfired')
      PROVE  /\ f \in Pending(wnet, wfired) \ {fd} /\ f \in Fds
             /\ wnet'.ev[f].mask # {} /\ wnet'.ev[f].client \in Conns \ {c}
  <2>1. /\ f \in Fds /\ "r" \in wnet'.ev[f].mask /\ \E e \in wfired' : e.fd = f
    BY DEF Pending
  <2>2. f # fd /\ \E e \in wfired : e.fd = f
    BY <2>1
  <2>3. wnet'.ev[f].mask = {"r"}
    BY <1>1, <2>1 DEF FdKept
  <2>4. wnet'.ev[f] = wnet.ev[f] /\ wnet'.ev[f].client # c
    BY <2>1, <2>2, <2>3 DEF Settles, ReadKept
  <2> QED
    BY <1>1, <2>1, <2>2, <2>4 DEF Pending, FileEvent
<1>4. Cardinality(Pending(wnet', wfired')) <= Cardinality(Conns) - 1
  <2>1. NetKept(wnet', wconn')
    BY DEF Settles
  <2>2. Pending(wnet', wfired') \in SUBSET Fds
    BY <1>3
  <2> QED
    BY <1>3, <2>1, <2>2, OthersRead
<1> QED
  BY <1>2, <1>3, <1>4

(* The counts, for whatever is asked and still to be read afterwards.      *)
LEMMA Counting ==
  ASSUME NEW n, NetKept(n, wconn), NEW fired
  PROVE  /\ IsFiniteSet(Asked(n)) /\ Cardinality(Asked(n)) \in Nat
         /\ IsFiniteSet(Pending(n, fired)) /\ Cardinality(Pending(n, fired)) \in Nat
<1>1. IsFiniteSet(Fds) /\ Asked(n) \in SUBSET Fds /\ Pending(n, fired) \in SUBSET Fds
  BY NodePartsAssumption DEF Asked, Pending
<1> QED
  BY <1>1, FS_Subset, FS_CardinalityType

LEMMA ReadHalfLInv ==
  ASSUME LInv, NEW e \in wfired, Lod!ReadHalf(e)
  PROVE  LInv'
<1> DEFINE fd == e.fd
           c == wnet.ev[fd].client
           P == Pending(wnet, wfired)
           Q == Pending(wnet', wfired')
<1> WRequests \in Nat \ {0} /\ IsFiniteSet(Conns)
  BY NodePartsAssumption
<1>1. /\ RoundKept /\ NetKept(wnet, wconn) /\ fd \in Fds /\ c \in Conns
      /\ wfired' = wfired \ {e} /\ whalf' = e /\ wphase' = wphase /\ wphase = "events"
      /\ e \in Events
  BY DEF LInv, RoundKept, NetKept, Nets, FileEvent, Events, Lod!ReadHalf
<1>2. /\ wfired' \subseteq wfired /\ \A g \in wfired' : g.fd # fd
      /\ whalf' # Lod!NoHalf
  BY <1>1 DEF RoundKept
<1>3. wcomplete \in Nat /\ hasked \in Nat /\ wstop \in BOOLEAN
  BY <1>1 DEF RoundKept
<1>4. CASE "r" \in e.mask \cap wnet.ev[fd].mask
  <2>1. wnet.ev[fd].mask = {"r"} /\ Lod!socket_readable(fd, c)
    BY <1>1, <1>4 DEF NetKept, FdKept, Lod!ReadHalf
  <2>2. \E g \in wfired : g.fd = fd
    OBVIOUS
  <2> HIDE DEF fd, c
  <2>3. /\ Settles(fd, c) /\ hasked' = hasked
        /\ \/ wcomplete' = wcomplete /\ wstop' = wstop /\ Asked(wnet') \subseteq Asked(wnet)
           \/ Completed(fd)
    <3>1. c = wnet.ev[fd].client
      BY DEF c
    <3> QED
      BY <1>1, <2>1, <2>2, <3>1, Readable
  <2>4. NetKept(wnet', wconn')
    BY <2>3 DEF Settles
  <2>5. /\ \A f \in Fds : WaitKept(f, wnet', wconn', wstop', wfired')
        /\ Q \subseteq P \ {fd} /\ Cardinality(Q) <= Cardinality(Conns) - 1
    BY <1>1, <1>2, <2>3, Settled
  <2>6. fd \in P
    BY <1>1, <2>1, <2>2 DEF Pending
  <2>7. /\ IsFiniteSet(P) /\ Cardinality(P) \in Nat /\ IsFiniteSet(Asked(wnet))
        /\ Cardinality(Asked(wnet)) \in Nat
    BY <1>1, Counting
  <2> HIDE DEF P, Q
  <2>8. Cardinality(Q) <= Cardinality(P) - 1 /\ Cardinality(Q) \in Nat
    <3>1. IsFiniteSet(P \ {fd}) /\ Cardinality(P \ {fd}) = Cardinality(P) - 1
      BY <2>6, <2>7, FS_RemoveElement
    <3>2. Q \in SUBSET (P \ {fd})
      BY <2>5
    <3>3. IsFiniteSet(Q) /\ Cardinality(Q) <= Cardinality(P \ {fd})
      BY <3>1, <3>2, FS_Subset
    <3> QED
      BY <2>7, <3>1, <3>3, FS_CardinalityType
  <2>9. Cardinality(Conns) \in Nat
    BY FS_CardinalityType
  <2>10. /\ wcomplete + Cardinality(Asked(wnet)) <= hasked
         /\ IF wstop
            THEN /\ WRequests <= wcomplete
                 /\ wcomplete + Cardinality(P) <= WRequests + Cardinality(Conns) - 1
            ELSE wcomplete < WRequests
    BY DEF LInv, Counted, StopKept, P
  <2>11. CASE wcomplete' = wcomplete /\ wstop' = wstop /\ Asked(wnet') \subseteq Asked(wnet)
    <3>1. Cardinality(Asked(wnet')) <= Cardinality(Asked(wnet)) /\ Cardinality(Asked(wnet')) \in Nat
      BY <2>7, <2>11, FS_Subset, FS_CardinalityType
    <3>2. RoundKept'
      BY <1>1, <1>2, <2>3, <2>11 DEF RoundKept
    <3>3. Counted(wnet', wcomplete', hasked')
      BY <1>3, <2>3, <2>7, <2>10, <2>11, <3>1 DEF Counted
    <3>4. StopKept(wnet', wcomplete', wstop', wfired')
      BY <1>3, <2>7, <2>8, <2>9, <2>10, <2>11 DEF StopKept, Q
    <3> QED
      BY <2>4, <2>5, <3>2, <3>3, <3>4 DEF LInv
  <2>12. CASE Completed(fd)
    <3>1. /\ wcomplete' = wcomplete + 1 /\ fd \in Asked(wnet) /\ Asked(wnet') = Asked(wnet) \ {fd}
          /\ IF wcomplete + 1 >= WRequests THEN wstop' = TRUE ELSE wstop' = wstop
      BY <2>12 DEF Completed
    <3>2. Cardinality(Asked(wnet')) = Cardinality(Asked(wnet)) - 1
      BY <2>7, <3>1, FS_RemoveElement
    <3>3. wstop' \in BOOLEAN
      BY <1>3, <3>1
    <3>4. RoundKept'
      BY <1>1, <1>2, <1>3, <2>3, <3>1, <3>3 DEF RoundKept
    <3>5. Counted(wnet', wcomplete', hasked')
      BY <1>3, <2>3, <2>7, <2>10, <3>1, <3>2 DEF Counted
    <3>6. StopKept(wnet', wcomplete', wstop', wfired')
      <4>1. CASE wstop
        <5>1. WRequests <= wcomplete /\ WRequests \in Nat
          BY <2>10, <4>1
        <5>2. wcomplete' = wcomplete + 1 /\ wcomplete \in Nat
          BY <1>3, <3>1
        <5>3. wstop' = TRUE
          BY <3>1, <5>1, <5>2
        <5>4. WRequests <= wcomplete'
          BY <5>1, <5>2
        <5>5. wcomplete' + Cardinality(Pending(wnet', wfired')) <= WRequests + Cardinality(Conns) - 1
          BY <1>3, <2>7, <2>8, <2>9, <2>10, <4>1, <5>1, <5>2 DEF StopKept, Q
        <5> QED
          BY <5>3, <5>4, <5>5 DEF StopKept
      <4>2. CASE ~wstop /\ wcomplete + 1 >= WRequests
        <5>1. wcomplete' = WRequests /\ wstop' = TRUE
          BY <1>3, <2>10, <3>1, <4>2
        <5> QED
          BY <2>5, <2>8, <2>9, <5>1 DEF StopKept, Q
      <4>3. CASE ~wstop /\ ~(wcomplete + 1 >= WRequests)
        BY <1>3, <3>1, <4>3 DEF StopKept
      <4> QED
        BY <1>3, <4>1, <4>2, <4>3
    <3> QED
      BY <2>4, <2>5, <3>4, <3>5, <3>6 DEF LInv
  <2> QED
    BY <2>3, <2>11, <2>12
<1>5. CASE "r" \notin e.mask \cap wnet.ev[fd].mask
  <2>1. UNCHANGED <<wstop, wnet, wconn, wcomplete, hasked>>
    BY <1>5 DEF Lod!ReadHalf
  <2>2. RoundKept'
    BY <1>1, <1>2, <2>1 DEF RoundKept
  <2>3. \A f \in Fds : WaitKept(f, wnet', wconn', wstop', wfired')
    BY <1>2, <2>1 DEF LInv, WaitKept
  <2>4. Q \subseteq P
    BY <1>2, <2>1 DEF Pending
  <2>5. /\ IsFiniteSet(P) /\ Cardinality(P) \in Nat
    BY <1>1, Counting
  <2> HIDE DEF P, Q
  <2>6. Cardinality(Q) <= Cardinality(P) /\ Cardinality(Q) \in Nat
    BY <2>4, <2>5, FS_Subset, FS_CardinalityType
  <2>7. StopKept(wnet', wcomplete', wstop', wfired')
    <3>1. Cardinality(Conns) \in Nat
      BY FS_CardinalityType
    <3>2. StopKept(wnet, wcomplete, wstop, wfired)
      BY DEF LInv
    <3> QED
      BY <1>3, <2>1, <2>5, <2>6, <3>1, <3>2 DEF StopKept, P, Q
  <2> QED
    BY <1>1, <2>1, <2>2, <2>3, <2>7 DEF LInv, Counted
<1> QED
  BY <1>4, <1>5

LEMMA WriteHalfLInv ==
  ASSUME LInv, Lod!WriteHalf
  PROVE  LInv'
<1> DEFINE fd == whalf.fd
           c == wnet.ev[fd].client
           P == Pending(wnet, wfired)
           Q == Pending(wnet', wfired')
<1> WRequests \in Nat \ {0} /\ IsFiniteSet(Conns)
  BY NodePartsAssumption
<1>1. /\ RoundKept /\ NetKept(wnet, wconn) /\ fd \in Fds /\ c \in Conns
      /\ UNCHANGED <<wphase, wfired>> /\ whalf' = Lod!NoHalf
      /\ \A g \in wfired : g.fd # fd
  BY DEF LInv, RoundKept, NetKept, Nets, FileEvent, Events, Lod!WriteHalf
<1>2. wcomplete \in Nat /\ hasked \in Nat /\ wstop \in BOOLEAN
  BY <1>1 DEF RoundKept
<1>3. CASE "w" \in whalf.mask \cap wnet.ev[fd].mask
  <2>1. wnet.ev[fd].mask = {"w"} /\ Lod!socket_writeable(fd, c)
    BY <1>1, <1>3 DEF NetKept, FdKept, Lod!WriteHalf
  <2> HIDE DEF fd, c
  <2>2. /\ Settles(fd, c) /\ wcomplete' = wcomplete /\ wstop' = wstop
        /\ \/ hasked' = hasked /\ Asked(wnet') \subseteq Asked(wnet)
           \/ hasked' = hasked + 1 /\ Asked(wnet') = Asked(wnet) \cup {fd} /\ fd \notin Asked(wnet)
    <3>1. c = wnet.ev[fd].client
      BY DEF c
    <3> QED
      BY <1>1, <2>1, <3>1, Writeable
  <2>3. NetKept(wnet', wconn')
    BY <2>2 DEF Settles
  <2>4. /\ \A f \in Fds : WaitKept(f, wnet', wconn', wstop', wfired')
        /\ Q \subseteq P
    BY <1>1, <2>2, Settled
  <2>5. /\ IsFiniteSet(P) /\ Cardinality(P) \in Nat /\ IsFiniteSet(Asked(wnet))
        /\ Cardinality(Asked(wnet)) \in Nat
    BY <1>1, Counting
  <2> HIDE DEF P, Q
  <2>6. Cardinality(Q) <= Cardinality(P) /\ Cardinality(Q) \in Nat
    BY <2>4, <2>5, FS_Subset, FS_CardinalityType
  <2>7. RoundKept'
    BY <1>1, <1>2, <2>2 DEF RoundKept
  <2>8. Counted(wnet', wcomplete', hasked')
    <3>1. wcomplete + Cardinality(Asked(wnet)) <= hasked
      BY DEF LInv, Counted
    <3>2. CASE hasked' = hasked /\ Asked(wnet') \subseteq Asked(wnet)
      <4>1. Cardinality(Asked(wnet')) <= Cardinality(Asked(wnet)) /\ Cardinality(Asked(wnet')) \in Nat
        BY <2>5, <3>2, FS_Subset, FS_CardinalityType
      <4> QED
        BY <1>2, <2>2, <2>5, <3>1, <3>2, <4>1 DEF Counted
    <3>3. CASE hasked' = hasked + 1 /\ Asked(wnet') = Asked(wnet) \cup {fd} /\ fd \notin Asked(wnet)
      <4>1. Cardinality(Asked(wnet')) = Cardinality(Asked(wnet)) + 1
        BY <2>5, <3>3, FS_AddElement
      <4> QED
        BY <1>2, <2>2, <2>5, <3>1, <3>3, <4>1 DEF Counted
    <3> QED
      BY <2>2, <3>2, <3>3
  <2>9. StopKept(wnet', wcomplete', wstop', wfired')
    <3>1. Cardinality(Conns) \in Nat
      BY FS_CardinalityType
    <3>2. StopKept(wnet, wcomplete, wstop, wfired)
      BY DEF LInv
    <3> QED
      BY <1>2, <2>2, <2>5, <2>6, <3>1, <3>2 DEF StopKept, P, Q
  <2> QED
    BY <2>3, <2>4, <2>7, <2>8, <2>9 DEF LInv
<1>4. CASE "w" \notin whalf.mask \cap wnet.ev[fd].mask
  <2>1. UNCHANGED <<wstop, wnet, wconn, wcomplete, hasked>>
    BY <1>4 DEF Lod!WriteHalf
  <2>2. RoundKept'
    BY <1>1, <2>1 DEF RoundKept
  <2> QED
    BY <1>1, <2>1, <2>2 DEF LInv
<1> QED
  BY <1>3, <1>4

(* A connection is begun.                                                  *)
LEMMA BeginLInv ==
  ASSUME LInv, NEW c \in Conns, Lod!Begin(c)
  PROVE  LInv'
<1>1. /\ RoundKept /\ NetKept(wnet, wconn) /\ wconn \in [Conns -> Connection]
      /\ wnet \in Nets /\ ~wstop /\ ~wconn[c].begun
      /\ UNCHANGED <<wphase, wstop, wfired, whalf, wcomplete, hasked>>
  BY DEF LInv, RoundKept, NetKept, Lod!Begin
<1>2. PICK o \in Lod!connect_socket(wnet, c, wconn[c]) :
        wnet' = o.net /\ wconn' = WithConn(wconn, c, o.conn)
  BY BecomesSome DEF Lod!Begin
<1>3. \A f \in Fds : wnet.ev[f].mask # {} => wnet.ev[f].client # c
  BY <1>1 DEF NetKept, FdKept
<1>4. /\ NetKept(wnet', wconn') /\ Asked(wnet') = Asked(wnet)
      /\ \A f \in Fds : ReadKept(f, wnet, wnet', c)
  BY <1>1, <1>2, <1>3, Opened
<1>5. \A d \in Conns \ {c} : wconn'[d] = wconn[d]
  BY <1>1, <1>2, WithConnIs
<1>6. ASSUME NEW f \in Fds PROVE WaitKept(f, wnet', wconn', wstop', wfired')
  <2> SUFFICES ASSUME wnet'.ev[f].mask = {"r"}
               PROVE  WaitKept(f, wnet', wconn', wstop', wfired')
    BY DEF WaitKept
  <2>1. /\ wnet'.ev[f] = wnet.ev[f] /\ wnet'.sock[f].asked = wnet.sock[f].asked
        /\ wnet.ev[f].client \in Conns \ {c}
    BY <1>1, <1>4 DEF ReadKept, Nets, FileEvent
  <2>2. wconn'[wnet.ev[f].client] = wconn[wnet.ev[f].client]
    BY <1>5, <2>1
  <2>3. WaitKept(f, wnet, wconn, wstop, wfired)
    BY DEF LInv
  <2> QED
    BY <1>1, <2>1, <2>2, <2>3 DEF WaitKept
<1>7. StopKept(wnet', wcomplete', wstop', wfired')
  BY <1>1 DEF LInv, StopKept
<1>8. Counted(wnet', wcomplete', hasked')
  BY <1>1, <1>4 DEF LInv, Counted
<1>9. RoundKept'
  BY <1>1 DEF RoundKept
<1> QED
  BY <1>4, <1>6, <1>7, <1>8, <1>9 DEF LInv

(* What poll returns is of different descriptors.                          *)
LEMMA PollLInv ==
  ASSUME LInv, Lod!Poll
  PROVE  LInv'
<1>1. /\ RoundKept /\ wphase = "polling" /\ ~wstop /\ wphase' = "events"
      /\ UNCHANGED <<wstop, wnet, wconn, whalf, wcomplete, hasked>>
  BY DEF LInv, Lod!Poll
<1>2. \A e \in wfired' : \E fd \in Fds : e = [fd |-> fd, mask |-> Lod!Ready(fd)] /\ e.mask # {}
  BY DEF Lod!Poll
<1>3. \A fd \in Fds : Lod!Ready(fd) \in Masks
  <2> TAKE fd \in Fds
  <2> DEFINE s == wnet.sock[fd]
             r == IF "r" \in wnet.epoll[fd] /\ (s.st = "failed" \/ s.eof \/ s.in # "nothing") THEN {"r"} ELSE {}
             w == IF s.st = "failed" \/ ("w" \in wnet.epoll[fd] /\ s.st = "open") THEN {"w"} ELSE {}
  <2>1. r \subseteq {"r"} /\ w \subseteq {"w"}
    OBVIOUS
  <2>2. Lod!Ready(fd) = r \cup w
    BY DEF Lod!Ready
  <2> HIDE DEF r, w
  <2> QED
    BY <2>1, <2>2 DEF Masks
<1>4. ASSUME NEW e \in wfired' PROVE e \in Events /\ e # Lod!NoHalf
  <2>1. PICK fd \in Fds : e = [fd |-> fd, mask |-> Lod!Ready(fd)] /\ e.mask # {}
    BY <1>2
  <2> QED
    BY <1>3, <2>1 DEF Events, Lod!NoHalf
<1>5. ASSUME NEW e \in wfired', NEW g \in wfired', e.fd = g.fd PROVE e = g
  <2>1. PICK f1 \in Fds : e = [fd |-> f1, mask |-> Lod!Ready(f1)]
    BY <1>2
  <2>2. PICK f2 \in Fds : g = [fd |-> f2, mask |-> Lod!Ready(f2)]
    BY <1>2
  <2>3. f1 = f2
    BY <1>5, <2>1, <2>2
  <2> QED
    BY <2>1, <2>2, <2>3
<1>6. RoundKept'
  <2>1. whalf' = Lod!NoHalf
    BY <1>1 DEF RoundKept
  <2> QED
    BY <1>1, <1>4, <1>5, <2>1 DEF RoundKept
<1>7. \A f \in Fds : WaitKept(f, wnet', wconn', wstop', wfired')
  BY <1>1 DEF LInv, WaitKept
<1> QED
  BY <1>1, <1>6, <1>7 DEF LInv, Counted, StopKept

(* The network takes nothing back that was asked.                          *)
LEMMA PeerLInv ==
  ASSUME LInv, NEW fd \in Fds, Lod!Peer(fd)
  PROVE  LInv'
<1> DEFINE s == wnet.sock[fd]
<1>1. /\ NetKept(wnet, wconn) /\ wnet \in Nets /\ wconn \in [Conns -> Connection]
      /\ FdKept(fd, wnet, wconn) /\ s \in Socket
  BY DEF LInv, NetKept, Nets
<1>2. UNCHANGED <<wphase, wstop, wconn, wfired, whalf, wcomplete, hasked>>
  BY DEF Lod!Peer
<1>3. PICK t \in Socket : /\ wnet' = WithSock(wnet, fd, t)
                          /\ t.asked = s.asked /\ s.st # "none" /\ t.st # "none"
                          /\ t.in # "nothing" => s.asked
  <2> DEFINE Then(t) == wnet' = [wnet EXCEPT !.sock[fd] = t]
  <2>1. \/ s.st = "connecting" /\ Then([s EXCEPT !.st = "open"])
        \/ s.st \in {"connecting", "open"} /\ \E in \in {s.in, "nothing"} :
             Then([s EXCEPT !.st = "failed", !.in = in])
        \/ s.st = "open" /\ ~s.eof /\ Then([s EXCEPT !.eof = TRUE])
        \/ s.st = "open" /\ s.asked /\ \E some \in {"part", "until end"} :
             Then([s EXCEPT !.in = some, !.sent = some])
        \/ s.st = "open" /\ s.asked /\ \E rest \in {"rest", "last"} :
             Then([s EXCEPT !.in = rest, !.sent = "nothing"])
    BY DEF Lod!Peer
  <2>2. s.in # "nothing" => s.asked
    BY <1>1 DEF FdKept
  <2> HIDE DEF s
  <2>3. ASSUME NEW t \in Socket, Then(t) PROVE wnet' = WithSock(wnet, fd, t)
    BY <2>3 DEF WithSock
  <2> HIDE DEF Then
  <2>4. CASE s.st = "connecting" /\ Then([s EXCEPT !.st = "open"])
    <3> DEFINE t == [s EXCEPT !.st = "open"]
    <3>1. t \in Socket /\ t.asked = s.asked /\ t.st = "open" /\ t.in = s.in
      BY <1>1 DEF Socket
    <3> HIDE DEF t
    <3> QED
      BY <2>2, <2>3, <2>4, <3>1 DEF t
  <2>5. ASSUME s.st \in {"connecting", "open"}, NEW in \in {s.in, "nothing"},
               Then([s EXCEPT !.st = "failed", !.in = in])
        PROVE  \E t \in Socket : /\ wnet' = WithSock(wnet, fd, t)
                                 /\ t.asked = s.asked /\ s.st # "none" /\ t.st # "none"
                                 /\ t.in # "nothing" => s.asked
    <3> DEFINE t == [s EXCEPT !.st = "failed", !.in = in]
    <3>1. t \in Socket /\ t.asked = s.asked /\ t.st = "failed" /\ t.in = in
      BY <1>1 DEF Socket
    <3> HIDE DEF t
    <3> QED
      BY <2>2, <2>3, <2>5, <3>1 DEF t
  <2>6. CASE s.st = "open" /\ ~s.eof /\ Then([s EXCEPT !.eof = TRUE])
    <3> DEFINE t == [s EXCEPT !.eof = TRUE]
    <3>1. t \in Socket /\ t.asked = s.asked /\ t.st = s.st /\ t.in = s.in
      BY <1>1 DEF Socket
    <3> HIDE DEF t
    <3> QED
      BY <2>2, <2>3, <2>6, <3>1 DEF t
  <2>7. ASSUME s.st = "open", s.asked, NEW in \in {"part", "until end", "rest", "last"},
               NEW out \in {"part", "until end", "nothing"},
               Then([s EXCEPT !.in = in, !.sent = out])
        PROVE  \E t \in Socket : /\ wnet' = WithSock(wnet, fd, t)
                                 /\ t.asked = s.asked /\ s.st # "none" /\ t.st # "none"
                                 /\ t.in # "nothing" => s.asked
    <3> DEFINE t == [s EXCEPT !.in = in, !.sent = out]
    <3>1. t \in Socket /\ t.asked = s.asked /\ t.st = s.st
      BY <1>1 DEF Socket
    <3> HIDE DEF t
    <3> QED
      BY <2>3, <2>7, <3>1 DEF t
  <2> QED
    BY <2>1, <2>4, <2>5, <2>6, <2>7
<1> HIDE DEF s
<1>4. /\ OnlyAt(wnet, wnet', fd) /\ wnet'.ev[fd] = wnet.ev[fd]
      /\ wnet'.epoll[fd] = wnet.epoll[fd] /\ wnet'.sock[fd] = t
  BY <1>1, <1>3, SockSet
<1>5. ASSUME NEW f \in Fds
      PROVE  /\ wnet'.ev[f] = wnet.ev[f] /\ wnet'.sock[f].asked = wnet.sock[f].asked
             /\ FdKept(f, wnet', wconn)
  <2>1. CASE f = fd
    BY <1>1, <1>3, <1>4, <2>1 DEF FdKept, s
  <2>2. CASE f # fd
    <3>1. wnet'.ev[f] = wnet.ev[f] /\ wnet'.epoll[f] = wnet.epoll[f] /\ wnet'.sock[f] = wnet.sock[f]
      BY <1>4, <2>2 DEF OnlyAt
    <3>2. FdKept(f, wnet, wconn)
      BY <1>1 DEF NetKept
    <3> QED
      BY <3>1, <3>2 DEF FdKept
  <2> QED
    BY <2>1, <2>2
<1>6. NetKept(wnet', wconn')
  BY <1>1, <1>2, <1>4, <1>5 DEF NetKept, OnlyAt
<1>7. \A f \in Fds : WaitKept(f, wnet', wconn', wstop', wfired')
  BY <1>2, <1>5 DEF LInv, WaitKept
<1>8. Asked(wnet') = Asked(wnet) /\ Pending(wnet', wfired') = Pending(wnet, wfired)
  BY <1>2, <1>5 DEF Asked, Pending
<1>9. Counted(wnet', wcomplete', hasked') /\ StopKept(wnet', wcomplete', wstop', wfired')
  BY <1>2, <1>8 DEF LInv, Counted, StopKept
<1>10. RoundKept'
  BY <1>2 DEF LInv, RoundKept
<1> QED
  BY <1>6, <1>7, <1>9, <1>10 DEF LInv

LEMMA NextLInv == ASSUME LInv, [Lod!Next]_loadVars PROVE LInv'
<1>1. CASE UNCHANGED loadVars
  BY <1>1 DEF loadVars, LInv, RoundKept
<1>2. CASE Lod!aeMain
  <2>1. /\ UNCHANGED <<wnet, wconn, wfired, whalf, wcomplete, hasked>>
        /\ wphase' = "polling" /\ wstop' = FALSE /\ wphase = "connecting"
    BY <1>2 DEF Lod!aeMain
  <2>2. ~wstop /\ wstop \in BOOLEAN
    BY <2>1 DEF LInv, RoundKept
  <2>3. RoundKept' /\ wstop' = wstop
    BY <2>1, <2>2 DEF LInv, RoundKept
  <2> QED
    BY <2>1, <2>3 DEF LInv
<1>3. CASE Lod!Processed
  <2>1. /\ UNCHANGED <<wstop, wnet, wconn, wfired, whalf, wcomplete, hasked>>
        /\ whalf = Lod!NoHalf /\ wphase' = IF wstop THEN "ended" ELSE "polling"
    BY <1>3 DEF Lod!Processed
  <2>2. RoundKept'
    BY <2>1 DEF LInv, RoundKept
  <2> QED
    BY <2>1, <2>2 DEF LInv
<1> QED
  BY <1>1, <1>2, <1>3, ReadHalfLInv, WriteHalfLInv, BeginLInv, PollLInv, PeerLInv DEF Lod!Next

LEMMA InitLInv == Lod!Init => LInv
<1> WRequests \in Nat \ {0} /\ IsFiniteSet(Conns) /\ IsFiniteSet(Fds) /\ Conns # {}
  BY NodePartsAssumption
<1> SUFFICES ASSUME Lod!Init PROVE LInv
  OBVIOUS
<1>1. Lod!Init
  OBVIOUS
<1>2. RoundKept
  <2>1. wphase = "connecting" /\ wstop = FALSE /\ wfired = {} /\ whalf = Lod!NoHalf
    BY <1>1 DEF Lod!Init
  <2>2. wcomplete = 0 /\ hasked = 0
    BY <1>1 DEF Lod!Init
  <2> QED
    BY <2>1, <2>2 DEF RoundKept
<1>3. Lod!NoEvents \in FileEvent /\ Lod!NoEvents.mask = {}
  BY DEF Lod!NoEvents, FileEvent, Masks
<1>4. /\ Lod!NoSocket \in Socket /\ Lod!NoSocket.in = "nothing" /\ ~Lod!NoSocket.asked
      /\ {} \in Masks
  BY DEF Lod!NoSocket, Socket, Masks
<1>5. Lod!New \in Connection
  BY DEF Lod!New, Connection
<1>6. /\ wnet.ev = [f \in Fds |-> Lod!NoEvents] /\ wnet.epoll = [f \in Fds |-> {}]
      /\ wnet.sock = [f \in Fds |-> Lod!NoSocket] /\ wconn = [c \in Conns |-> Lod!New]
      /\ wcomplete = 0 /\ hasked = 0 /\ wstop = FALSE
  BY <1>1 DEF Lod!Init
<1>7. wnet \in Nets
  <2> DEFINE E == [f \in Fds |-> Lod!NoEvents]
             P == [f \in Fds |-> {}]
             S == [f \in Fds |-> Lod!NoSocket]
  <2>1. E \in [Fds -> FileEvent] /\ P \in [Fds -> Masks] /\ S \in [Fds -> Socket]
    BY <1>3, <1>4
  <2>2. wnet = [ev |-> E, epoll |-> P, sock |-> S]
    BY <1>1 DEF Lod!Init
  <2> HIDE DEF E, P, S
  <2> QED
    BY <2>1, <2>2 DEF Nets
<1>8. wconn \in [Conns -> Connection]
  BY <1>5, <1>6
<1>9. \A f \in Fds : wnet.ev[f].mask = {} /\ wnet.epoll[f] = {} /\ wnet.sock[f].in = "nothing"
                     /\ ~wnet.sock[f].asked
  BY <1>3, <1>4, <1>6
<1>10. NetKept(wnet, wconn) /\ \A f \in Fds : WaitKept(f, wnet, wconn, wstop, wfired)
  <2>1. ASSUME NEW f \in Fds PROVE FdKept(f, wnet, wconn)
    BY <1>9, <2>1 DEF FdKept
  <2>2. ASSUME NEW f \in Fds PROVE WaitKept(f, wnet, wconn, wstop, wfired)
    BY <1>9, <2>2 DEF WaitKept
  <2> QED
    BY <1>7, <1>8, <2>1, <2>2 DEF NetKept
<1>11. Asked(wnet) = {}
  BY <1>9 DEF Asked
<1>12. Counted(wnet, wcomplete, hasked) /\ StopKept(wnet, wcomplete, wstop, wfired)
  BY <1>6, <1>11, FS_EmptySet DEF Counted, StopKept
<1> QED
  BY <1>2, <1>10, <1>12 DEF LInv

LEMMA LoadIsKept == LInv => Lod!LoadKept
<1> WRequests \in Nat \ {0} /\ IsFiniteSet(Conns) /\ IsFiniteSet(Fds) /\ Conns # {}
  BY NodePartsAssumption
<1> SUFFICES ASSUME LInv PROVE Lod!LoadKept
  OBVIOUS
<1>1. NetKept(wnet, wconn) /\ RoundKept
  BY DEF LInv
<1>2. ASSUME NEW f \in Fds
      PROVE  /\ wnet.epoll[f] = wnet.ev[f].mask
             /\ wnet.ev[f].mask # {} => /\ wnet.sock[f].st # "none"
                                        /\ wconn[wnet.ev[f].client].fd = f
             /\ wnet.ev[f].mask # {} =>
                  \/ wnet.ev[f].mask = {"w"} /\ ~wnet.sock[f].asked
                  \/ /\ wnet.ev[f].mask = {"r"}
                     /\ wnet.sock[f].asked \/ wconn[wnet.ev[f].client].lost \/ wstop
  BY <1>1 DEF NetKept, FdKept, LInv, WaitKept
<1>3. /\ Cardinality(Asked(wnet)) \in Nat /\ Cardinality(Pending(wnet, wfired)) \in Nat
      /\ Cardinality(Conns) \in Nat /\ wcomplete \in Nat /\ hasked \in Nat
  BY <1>1, Counting, FS_CardinalityType DEF RoundKept
<1>4. wcomplete <= hasked
  BY <1>3 DEF LInv, Counted
<1>5. wphase = "ended" => wcomplete \in WRequests .. WRequests + Cardinality(Conns) - 1
  BY <1>1, <1>3 DEF LInv, StopKept, RoundKept
<1>10. Lod!Cardinality(Conns) = Cardinality(Conns)
  BY DEF Lod!Cardinality, Cardinality
<1>6. ASSUME NEW c \in Conns, NEW f \in Fds, f \in Lod!Watched(c)
      PROVE  \/ wnet.ev[f].mask = {"w"} /\ ~wnet.sock[f].asked
             \/ wnet.ev[f].mask = {"r"} /\ (wnet.sock[f].asked \/ wconn[c].lost \/ wstop)
  <2>1. wnet.ev[f].mask # {} /\ wnet.ev[f].client = c
    BY <1>6 DEF Lod!Watched
  <2> QED
    BY <1>2, <2>1
<1>7. \A f \in Fds : wnet.epoll[f] = wnet.ev[f].mask
  BY <1>2
<1>8. \A f \in Fds : wnet.ev[f].mask # {} => /\ wnet.sock[f].st # "none"
                                             /\ wconn[wnet.ev[f].client].fd = f
  BY <1>2
<1>9. \A c \in Conns, f \in Fds : f \in Lod!Watched(c) =>
        \/ wnet.ev[f].mask = {"w"} /\ ~wnet.sock[f].asked
        \/ wnet.ev[f].mask = {"r"} /\ (wnet.sock[f].asked \/ wconn[c].lost \/ wstop)
  BY <1>6
<1> QED
  BY <1>4, <1>5, <1>7, <1>8, <1>9, <1>10 DEF Lod!LoadKept

-----------------------------------------------------------------------------
(* cares_wrap.cc.                                                          *)

DnsFrames ==
  {Dns!Js, Dns!Process} \cup {Dns!Send(q) : q \in Queries}
    \cup {Dns!Callback(q) : q \in Queries} \cup {Dns!AfterAddrInfo(q) : q \in Queries}

DnsTypes ==
  /\ query \in [Queries -> {"none", "made", "sent", "freed"}]
  /\ viauv \in [Queries -> BOOLEAN] /\ answers \in [Queries -> Nat]
  /\ returned \in [Queries -> {"nothing", "object", "null"}]
  /\ ares_timer \in BOOLEAN

(* No function is entered again for the same query while it runs.          *)
DnsStack == stack \in Seq(DnsFrames) /\ \A i, j \in DOMAIN stack : stack[i] = stack[j] => i = j

(* What runs for a query, and what it was told, say how far it has come.   *)
QueryKept(q) ==
  /\ OnStack(stack, Dns!Send(q)) <=> query[q] # "none" /\ returned[q] = "nothing"
  /\ OnStack(stack, Dns!Callback(q)) <=> query[q] = "sent" /\ answers[q] = 1 /\ ~viauv[q]
  /\ OnStack(stack, Dns!AfterAddrInfo(q)) <=> query[q] = "sent" /\ answers[q] = 1 /\ viauv[q]
  /\ query[q] \in {"none", "made"} => answers[q] = 0 /\ returned[q] = "nothing" /\ ~viauv[q]
  /\ query[q] = "sent" => answers[q] \in {0, 1} /\ returned[q] # "null"
  /\ query[q] = "freed" => answers[q] = (IF returned[q] = "null" THEN 0 ELSE 1)

QInv == DnsTypes /\ DnsStack /\ Dns!TimerWithTasks /\ \A q \in Queries : QueryKept(q)

LEMMA FramesApart ==
  ASSUME NEW q \in Queries, NEW r \in Queries
  PROVE  /\ Dns!Send(q) = Dns!Send(r) => q = r
         /\ Dns!Callback(q) = Dns!Callback(r) => q = r
         /\ Dns!AfterAddrInfo(q) = Dns!AfterAddrInfo(r) => q = r
         /\ Dns!Send(q) \notin {Dns!Js, Dns!Process, Dns!Callback(r), Dns!AfterAddrInfo(r)}
         /\ Dns!Callback(q) \notin {Dns!Js, Dns!Process, Dns!AfterAddrInfo(r)}
         /\ Dns!AfterAddrInfo(q) \notin {Dns!Js, Dns!Process}
<1>1. /\ Dns!Send(q).f = "Send" /\ Dns!Send(q).q = q /\ Dns!Send(r).q = r
      /\ Dns!Callback(q).f = "Callback" /\ Dns!Callback(q).q = q /\ Dns!Callback(r).q = r
      /\ Dns!Callback(r).f = "Callback" /\ Dns!AfterAddrInfo(r).f = "AfterGetAddrInfo"
      /\ Dns!AfterAddrInfo(q).f = "AfterGetAddrInfo"
      /\ Dns!AfterAddrInfo(q).q = q /\ Dns!AfterAddrInfo(r).q = r
      /\ Dns!Js.f = "main" /\ Dns!Process.f = "ares_process_fd"
  BY DEF Dns!Send, Dns!Callback, Dns!AfterAddrInfo, Dns!Js, Dns!Process
<1> QED
  BY <1>1

LEMMA FrameOf ==
  ASSUME NEW f \in DnsFrames
  PROVE  /\ f.f = "Send" => \E q \in Queries : f = Dns!Send(q) /\ f.q = q
         /\ f.f = "Callback" => \E q \in Queries : f = Dns!Callback(q) /\ f.q = q
         /\ f.f = "AfterGetAddrInfo" => \E q \in Queries : f = Dns!AfterAddrInfo(q) /\ f.q = q
         /\ f.f = "main" => f = Dns!Js
         /\ f.f = "ares_process_fd" => f = Dns!Process
<1>1. CASE f \in {Dns!Js, Dns!Process}
  BY <1>1 DEF Dns!Js, Dns!Process
<1>2. ASSUME NEW q \in Queries, f = Dns!Send(q)
      PROVE  f.f = "Send" /\ f.q = q
  BY <1>2 DEF Dns!Send
<1>3. ASSUME NEW q \in Queries, f = Dns!Callback(q)
      PROVE  f.f = "Callback" /\ f.q = q
  BY <1>3 DEF Dns!Callback
<1>4. ASSUME NEW q \in Queries, f = Dns!AfterAddrInfo(q)
      PROVE  f.f = "AfterGetAddrInfo" /\ f.q = q
  BY <1>4 DEF Dns!AfterAddrInfo
<1> QED
  BY <1>1, <1>2, <1>3, <1>4 DEF DnsFrames

(* A function is entered, or returns.                                      *)
LEMMA CalledDns ==
  ASSUME DnsStack, NEW f \in DnsFrames, ~OnStack(stack, f), Dns!Call(f)
  PROVE  /\ DnsStack'
         /\ \A g \in DnsFrames : OnStack(stack', g) <=> g = f \/ OnStack(stack, g)
BY CalledFirst DEF DnsStack, Dns!Call

LEMMA ReturnedDns ==
  ASSUME DnsStack, stack # <<>>, stack' = Tail(stack)
  PROVE  /\ DnsStack' /\ Head(stack) \in DnsFrames /\ OnStack(stack, Head(stack))
         /\ \A g \in DnsFrames : OnStack(stack', g) <=> g # Head(stack) /\ OnStack(stack, g)
BY ReturnedFirst DEF DnsStack

LEMMA InitQInv == Dns!Init => QInv
<1> SUFFICES ASSUME Dns!Init PROVE QInv
  OBVIOUS
<1>1. DnsTypes /\ Dns!TimerWithTasks
  BY DEF Dns!Init, DnsTypes, Dns!TimerWithTasks
<1>2. DnsStack /\ \A g \in DnsFrames : OnStack(stack, g) <=> g = Dns!Js
  BY DEF Dns!Init, DnsStack, DnsFrames, OnStack
<1>3. ASSUME NEW q \in Queries PROVE QueryKept(q)
  <2>1. ~OnStack(stack, Dns!Send(q)) /\ ~OnStack(stack, Dns!Callback(q))
        /\ ~OnStack(stack, Dns!AfterAddrInfo(q))
    BY <1>2, FramesApart DEF DnsFrames
  <2> QED
    BY <2>1 DEF Dns!Init, QueryKept
<1> QED
  BY <1>1, <1>2, <1>3 DEF QInv

(* The queries a step leaves alone, with what runs for them.               *)
QueryStill(q) ==
  /\ query'[q] = query[q] /\ viauv'[q] = viauv[q] /\ answers'[q] = answers[q]
  /\ returned'[q] = returned[q]
  /\ OnStack(stack', Dns!Send(q)) <=> OnStack(stack, Dns!Send(q))
  /\ OnStack(stack', Dns!Callback(q)) <=> OnStack(stack, Dns!Callback(q))
  /\ OnStack(stack', Dns!AfterAddrInfo(q)) <=> OnStack(stack, Dns!AfterAddrInfo(q))

LEMMA StillKept == ASSUME NEW q \in Queries, QueryKept(q), QueryStill(q) PROVE QueryKept(q)'
BY DEF QueryKept, QueryStill

SockstateStill == UNCHANGED <<ares_tasks, polling, closing, ares_timer>>

LEMMA AskQInv ==
  ASSUME QInv, NEW q \in Queries, Dns!Query(q) \/ Dns!GetAddrInfo(q)
  PROVE  QInv'
<1>1. DnsTypes /\ DnsStack /\ Dns!TimerWithTasks /\ \A r \in Queries : QueryKept(r)
  BY DEF QInv
<1>2. query[q] = "none" /\ SockstateStill
  BY DEF Dns!Query, Dns!GetAddrInfo, Dns!Sockstate, SockstateStill
<1>3. Dns!TimerWithTasks'
  BY <1>1, <1>2 DEF SockstateStill, Dns!TimerWithTasks
<1>4. CASE Dns!Query(q)
  <2>1. /\ query' = [query EXCEPT ![q] = "made"] /\ UNCHANGED <<viauv, answers, returned>>
        /\ Dns!Call(Dns!Send(q))
    BY <1>4 DEF Dns!Query
  <2>2. Dns!Send(q) \in DnsFrames /\ ~OnStack(stack, Dns!Send(q))
    BY <1>1, <1>2 DEF DnsFrames, QueryKept
  <2>3. /\ DnsStack'
        /\ \A g \in DnsFrames : OnStack(stack', g) <=> g = Dns!Send(q) \/ OnStack(stack, g)
    BY <1>1, <2>1, <2>2, CalledDns
  <2>4. DnsTypes'
    BY <1>1, <1>2, <2>1 DEF DnsTypes, SockstateStill
  <2>5. /\ OnStack(stack', Dns!Send(q))
        /\ OnStack(stack', Dns!Callback(q)) <=> OnStack(stack, Dns!Callback(q))
        /\ OnStack(stack', Dns!AfterAddrInfo(q)) <=> OnStack(stack, Dns!AfterAddrInfo(q))
        /\ \A r \in Queries \ {q} : QueryStill(r)
    BY <1>1, <2>1, <2>3, FramesApart DEF DnsFrames, QueryStill, DnsTypes
  <2>6. QueryKept(q)'
    BY <1>1, <1>2, <2>1, <2>5 DEF QueryKept, DnsTypes
  <2> QED
    BY <1>1, <1>3, <2>3, <2>4, <2>5, <2>6, StillKept DEF QInv
<1>5. CASE Dns!GetAddrInfo(q)
  <2>1. /\ viauv' = [viauv EXCEPT ![q] = TRUE] /\ UNCHANGED <<answers, stack>>
        /\ \/ /\ query' = [query EXCEPT ![q] = "sent"]
              /\ returned' = [returned EXCEPT ![q] = "object"]
           \/ /\ query' = [query EXCEPT ![q] = "freed"]
              /\ returned' = [returned EXCEPT ![q] = "null"]
    BY <1>5 DEF Dns!GetAddrInfo
  <2>2. DnsTypes' /\ DnsStack'
    BY <1>1, <1>2, <2>1 DEF DnsTypes, DnsStack, SockstateStill
  <2>3. \A r \in Queries \ {q} : QueryStill(r)
    BY <1>1, <2>1 DEF QueryStill, DnsTypes
  <2>4. QueryKept(q)'
    BY <1>1, <1>2, <2>1 DEF QueryKept, DnsTypes
  <2> QED
    BY <1>1, <1>3, <2>2, <2>3, <2>4, StillKept DEF QInv
<1> QED
  BY <1>4, <1>5

(* Within Send: the query is refused, taken, or returned from.             *)
LEMMA SendQInv ==
  ASSUME QInv, Dns!SendFails \/ Dns!AresQuery \/ Dns!SendReturns
  PROVE  QInv'
<1>1. DnsTypes /\ DnsStack /\ Dns!TimerWithTasks /\ \A r \in Queries : QueryKept(r)
  BY DEF QInv
<1>2. stack # <<>> /\ Head(stack).f = "Send" /\ SockstateStill
  BY DEF Dns!SendFails, Dns!AresQuery, Dns!SendReturns, Dns!Running, Dns!Sockstate, SockstateStill
<1>3. Head(stack) \in DnsFrames
  BY <1>1, <1>2 DEF DnsStack
<1>4. PICK q \in Queries : Head(stack) = Dns!Send(q) /\ Head(stack).q = q
  BY <1>2, <1>3, FrameOf
<1>5. Dns!TimerWithTasks'
  BY <1>1, <1>2 DEF SockstateStill, Dns!TimerWithTasks
<1>6. CASE Dns!AresQuery
  <2>1. /\ query[q] = "made" /\ query' = [query EXCEPT ![q] = "sent"]
        /\ UNCHANGED <<viauv, answers, returned, stack>>
    BY <1>4, <1>6 DEF Dns!AresQuery
  <2>2. DnsTypes' /\ DnsStack'
    BY <1>1, <1>2, <2>1 DEF DnsTypes, DnsStack, SockstateStill
  <2>3. \A r \in Queries \ {q} : QueryStill(r)
    BY <1>1, <2>1 DEF QueryStill, DnsTypes
  <2>4. QueryKept(q)'
    BY <1>1, <2>1 DEF QueryKept, DnsTypes
  <2> QED
    BY <1>1, <1>5, <2>2, <2>3, <2>4, StillKept DEF QInv
<1>7. CASE Dns!SendFails \/ Dns!SendReturns
  <2>1. /\ stack' = Tail(stack) /\ UNCHANGED <<viauv, answers>>
        /\ \/ /\ query[q] = "made" /\ query' = [query EXCEPT ![q] = "freed"]
              /\ returned' = [returned EXCEPT ![q] = "null"]
           \/ /\ query[q] # "made" /\ query' = query
              /\ returned' = [returned EXCEPT ![q] = "object"]
    BY <1>4, <1>7 DEF Dns!SendFails, Dns!SendReturns
  <2>2. /\ DnsStack' /\ OnStack(stack, Dns!Send(q))
        /\ \A g \in DnsFrames : OnStack(stack', g) <=> g # Dns!Send(q) /\ OnStack(stack, g)
    BY <1>1, <1>2, <1>4, <2>1, ReturnedDns
  <2>3. DnsTypes'
    BY <1>1, <1>2, <2>1 DEF DnsTypes, SockstateStill
  <2>4. /\ ~OnStack(stack', Dns!Send(q))
        /\ OnStack(stack', Dns!Callback(q)) <=> OnStack(stack, Dns!Callback(q))
        /\ OnStack(stack', Dns!AfterAddrInfo(q)) <=> OnStack(stack, Dns!AfterAddrInfo(q))
        /\ \A r \in Queries \ {q} : QueryStill(r)
    BY <1>1, <2>1, <2>2, FramesApart DEF DnsFrames, QueryStill, DnsTypes
  <2>5. QueryKept(q)'
    BY <1>1, <2>1, <2>2, <2>4 DEF QueryKept, DnsTypes
  <2> QED
    BY <1>1, <1>5, <2>2, <2>3, <2>4, <2>5, StillKept DEF QInv
<1> QED
  BY <1>6, <1>7

(* c-ares's sockets and the poll handles: no query is concerned.           *)
LEMMA SocketsQInv ==
  ASSUME QInv,
         \/ \E s \in Sockets : Dns!SockOpened(s) \/ Dns!SockClosed(s)
         \/ Dns!PollClosed
  PROVE  QInv'
<1>1. DnsTypes /\ DnsStack /\ Dns!TimerWithTasks /\ \A r \in Queries : QueryKept(r)
  BY DEF QInv
<1>2. UNCHANGED <<query, viauv, answers, returned, stack>>
  BY DEF Dns!SockOpened, Dns!SockClosed, Dns!PollClosed
<1>3. Dns!TimerWithTasks' /\ ares_timer' \in BOOLEAN
  <2>1. ASSUME NEW s \in Sockets, Dns!SockOpened(s)
        PROVE  Dns!TimerWithTasks' /\ ares_timer' \in BOOLEAN
    <3>1. s \in ares_tasks' /\ polling' = ares_tasks' /\ ares_timer' = TRUE
      BY <1>1, <2>1 DEF Dns!SockOpened, Dns!TimerWithTasks
    <3> QED
      BY <3>1 DEF Dns!TimerWithTasks
  <2>2. ASSUME NEW s \in Sockets, Dns!SockClosed(s)
        PROVE  Dns!TimerWithTasks' /\ ares_timer' \in BOOLEAN
    <3>1. s \in ares_tasks /\ ares_timer /\ polling' = ares_tasks'
          /\ ares_timer' = (ares_timer /\ ares_tasks' # {})
      BY <1>1, <2>2 DEF Dns!SockClosed, Dns!TimerWithTasks
    <3>2. ares_timer' = (ares_tasks' # {})
      BY <3>1, Zenon
    <3> QED
      BY <3>1, <3>2, Zenon DEF Dns!TimerWithTasks
  <2>3. CASE Dns!PollClosed
    <3>1. UNCHANGED <<ares_tasks, polling, ares_timer>>
      BY <2>3 DEF Dns!PollClosed
    <3> QED
      BY <1>1, <3>1 DEF DnsTypes, Dns!TimerWithTasks
  <2> QED
    BY <2>1, <2>2, <2>3
<1>4. DnsTypes' /\ DnsStack'
  BY <1>1, <1>2, <1>3 DEF DnsTypes, DnsStack
<1>5. \A r \in Queries : QueryStill(r)
  BY <1>2 DEF QueryStill
<1> QED
  BY <1>1, <1>3, <1>4, <1>5, StillKept DEF QInv

(* The loop calls ares_process_fd, which returns.                          *)
LEMMA ProcessQInv ==
  ASSUME QInv, Dns!AresPollCb \/ Dns!AresTimeout \/ Dns!ProcessReturns
  PROVE  QInv'
<1>1. DnsTypes /\ DnsStack /\ Dns!TimerWithTasks /\ \A r \in Queries : QueryKept(r)
  BY DEF QInv
<1>2. UNCHANGED <<query, viauv, answers, returned>>
  BY DEF Dns!AresPollCb, Dns!AresTimeout, Dns!ProcessReturns
<1>3. Dns!TimerWithTasks' /\ ares_timer' \in BOOLEAN
  <2>1. CASE Dns!AresPollCb
    <3>1. polling # {} /\ ares_timer' = TRUE /\ UNCHANGED <<ares_tasks, polling>>
      BY <2>1 DEF Dns!AresPollCb
    <3> QED
      BY <1>1, <3>1 DEF Dns!TimerWithTasks
  <2>2. CASE Dns!AresTimeout \/ Dns!ProcessReturns
    <3>1. UNCHANGED <<ares_tasks, polling, ares_timer>>
      BY <2>2 DEF Dns!AresTimeout, Dns!ProcessReturns, Dns!Sockstate
    <3> QED
      BY <1>1, <3>1 DEF DnsTypes, Dns!TimerWithTasks
  <2> QED
    BY <2>1, <2>2
<1>4. DnsStack' /\ \A g \in DnsFrames \ {Dns!Process} : OnStack(stack', g) <=> OnStack(stack, g)
  <2>1. CASE Dns!AresPollCb \/ Dns!AresTimeout
    <3>1. stack = <<>> /\ Dns!Call(Dns!Process)
      BY <2>1 DEF Dns!AresPollCb, Dns!AresTimeout, Dns!InLoop
    <3>2. Dns!Process \in DnsFrames /\ ~OnStack(stack, Dns!Process)
      BY <3>1 DEF DnsFrames, OnStack
    <3> QED
      BY <1>1, <3>1, <3>2, CalledDns
  <2>2. CASE Dns!ProcessReturns
    <3>1. stack # <<>> /\ Head(stack).f = "ares_process_fd" /\ stack' = Tail(stack)
      BY <2>2 DEF Dns!ProcessReturns, Dns!Running
    <3>2. Head(stack) = Dns!Process
      BY <1>1, <3>1, ReturnedDns, FrameOf
    <3> QED
      BY <1>1, <3>1, <3>2, ReturnedDns
  <2> QED
    BY <2>1, <2>2
<1>5. \A r \in Queries : QueryStill(r)
  BY <1>2, <1>4, FramesApart DEF QueryStill, DnsFrames
<1>6. DnsTypes'
  BY <1>1, <1>2, <1>3 DEF DnsTypes
<1> QED
  BY <1>1, <1>3, <1>4, <1>5, <1>6, StillKept DEF QInv

(* A query is answered, by c-ares or by libuv.                             *)
LEMMA AnswerQInv ==
  ASSUME QInv, NEW q \in Queries, Dns!CallOnComplete(q) \/ Dns!AfterGetAddrInfo(q)
  PROVE  QInv'
<1>1. DnsTypes /\ DnsStack /\ Dns!TimerWithTasks /\ \A r \in Queries : QueryKept(r)
  BY DEF QInv
<1>2. /\ query[q] = "sent" /\ answers' = [answers EXCEPT ![q] = @ + 1]
      /\ UNCHANGED <<query, viauv, returned>> /\ SockstateStill
  BY DEF Dns!CallOnComplete, Dns!AfterGetAddrInfo, Dns!Sockstate, SockstateStill
<1>3. Dns!TimerWithTasks'
  BY <1>1, <1>2 DEF SockstateStill, Dns!TimerWithTasks
<1>4. DnsTypes'
  BY <1>1, <1>2 DEF DnsTypes, SockstateStill
<1>5. CASE Dns!CallOnComplete(q)
  <2>1. /\ ~viauv[q] /\ ~OnStack(stack, Dns!Callback(q)) /\ Dns!Call(Dns!Callback(q))
    BY <1>5 DEF Dns!CallOnComplete, OnStack
  <2>2. answers[q] = 0 /\ answers'[q] = 1
    BY <1>1, <1>2, <2>1 DEF QueryKept, DnsTypes
  <2>3. /\ DnsStack'
        /\ \A g \in DnsFrames : OnStack(stack', g) <=> g = Dns!Callback(q) \/ OnStack(stack, g)
    BY <1>1, <2>1, CalledDns DEF DnsFrames
  <2>4. /\ OnStack(stack', Dns!Callback(q))
        /\ OnStack(stack', Dns!Send(q)) <=> OnStack(stack, Dns!Send(q))
        /\ OnStack(stack', Dns!AfterAddrInfo(q)) <=> OnStack(stack, Dns!AfterAddrInfo(q))
        /\ \A r \in Queries \ {q} : QueryStill(r)
    BY <1>1, <1>2, <2>3, FramesApart DEF DnsFrames, QueryStill, DnsTypes
  <2>5. QueryKept(q)'
    BY <1>1, <1>2, <2>1, <2>2, <2>4 DEF QueryKept, DnsTypes
  <2> QED
    BY <1>1, <1>3, <1>4, <2>3, <2>4, <2>5, StillKept DEF QInv
<1>6. CASE Dns!AfterGetAddrInfo(q)
  <2>1. viauv[q] /\ stack = <<>> /\ Dns!Call(Dns!AfterAddrInfo(q))
    BY <1>6 DEF Dns!AfterGetAddrInfo, Dns!InLoop
  <2>2. \A g \in DnsFrames : ~OnStack(stack, g)
    BY <2>1 DEF OnStack
  <2>3. Dns!AfterAddrInfo(q) \in DnsFrames
    BY DEF DnsFrames
  <2>4. answers[q] = 0 /\ answers'[q] = 1
    BY <1>1, <1>2, <2>1, <2>2, <2>3 DEF QueryKept, DnsTypes
  <2>5. /\ DnsStack'
        /\ \A g \in DnsFrames : OnStack(stack', g) <=> g = Dns!AfterAddrInfo(q) \/ OnStack(stack, g)
    BY <1>1, <2>1, <2>2, <2>3, CalledDns
  <2>6. /\ OnStack(stack', Dns!AfterAddrInfo(q))
        /\ OnStack(stack', Dns!Send(q)) <=> OnStack(stack, Dns!Send(q))
        /\ OnStack(stack', Dns!Callback(q)) <=> OnStack(stack, Dns!Callback(q))
        /\ \A r \in Queries \ {q} : QueryStill(r)
    BY <1>1, <1>2, <2>5, FramesApart DEF DnsFrames, QueryStill, DnsTypes
  <2>7. QueryKept(q)'
    BY <1>1, <1>2, <2>1, <2>4, <2>6 DEF QueryKept, DnsTypes
  <2> QED
    BY <1>1, <1>3, <1>4, <2>5, <2>6, <2>7, StillKept DEF QInv
<1> QED
  BY <1>5, <1>6

(* JavaScript returns, to the loop or to what called it for a query.       *)
LEMMA DnsReturnQInv == ASSUME QInv, Dns!Return PROVE QInv'
<1>1. DnsTypes /\ DnsStack /\ Dns!TimerWithTasks /\ \A r \in Queries : QueryKept(r)
  BY DEF QInv
<1>2. /\ stack # <<>> /\ stack' = Tail(stack)
      /\ Head(stack).f \in {"main", "Callback", "AfterGetAddrInfo"}
      /\ UNCHANGED <<viauv, answers, returned>> /\ SockstateStill
  BY DEF Dns!Return, Dns!InJs, Dns!Running, Dns!Sockstate, SockstateStill
<1>3. /\ DnsStack' /\ Head(stack) \in DnsFrames /\ OnStack(stack, Head(stack))
      /\ \A g \in DnsFrames : OnStack(stack', g) <=> g # Head(stack) /\ OnStack(stack, g)
  BY <1>1, <1>2, ReturnedDns
<1>4. Dns!TimerWithTasks'
  BY <1>1, <1>2 DEF SockstateStill, Dns!TimerWithTasks
<1>5. CASE Head(stack).f = "main"
  <2>1. query' = query /\ Head(stack) = Dns!Js
    BY <1>2, <1>3, <1>5, FrameOf DEF Dns!Return, Dns!Running
  <2>2. DnsTypes'
    BY <1>1, <1>2, <2>1 DEF DnsTypes, SockstateStill
  <2>3. \A r \in Queries : QueryStill(r)
    BY <1>2, <1>3, <2>1, FramesApart DEF QueryStill, DnsFrames
  <2> QED
    BY <1>1, <1>3, <1>4, <2>2, <2>3, StillKept DEF QInv
<1>6. CASE Head(stack).f # "main"
  <2>1. PICK q \in Queries : Head(stack) \in {Dns!Callback(q), Dns!AfterAddrInfo(q)} /\ Head(stack).q = q
    BY <1>2, <1>3, <1>6, FrameOf
  <2>2. query' = [query EXCEPT ![q] = "freed"]
    BY <1>2, <1>6, <2>1 DEF Dns!Return, Dns!Running
  <2>3. query[q] = "sent" /\ answers[q] = 1 /\ returned[q] # "null"
    BY <1>1, <1>3, <2>1 DEF QueryKept
  <2>4. DnsTypes'
    BY <1>1, <1>2, <2>2 DEF DnsTypes, SockstateStill
  <2>5. /\ OnStack(stack', Dns!Send(q)) <=> OnStack(stack, Dns!Send(q))
        /\ \A r \in Queries \ {q} : QueryStill(r)
    BY <1>1, <1>2, <1>3, <2>1, <2>2, FramesApart DEF DnsFrames, QueryStill, DnsTypes
  <2>6. ~OnStack(stack', Dns!Callback(q)) /\ ~OnStack(stack', Dns!AfterAddrInfo(q))
    <3>1. ~(OnStack(stack, Dns!Callback(q)) /\ OnStack(stack, Dns!AfterAddrInfo(q)))
      BY <1>1 DEF QueryKept
    <3> QED
      BY <1>3, <2>1, <3>1 DEF DnsFrames
  <2>7. QueryKept(q)'
    BY <1>1, <1>2, <2>2, <2>3, <2>5, <2>6 DEF QueryKept, DnsTypes
  <2> QED
    BY <1>1, <1>3, <1>4, <2>4, <2>5, <2>7, StillKept DEF QInv
<1> QED
  BY <1>5, <1>6

LEMMA NextQInv == ASSUME QInv, [Dns!Next]_dnsVars PROVE QInv'
<1>1. CASE UNCHANGED dnsVars
  <2>1. \A q \in Queries : QueryStill(q)
    BY <1>1 DEF QueryStill, dnsVars
  <2> QED
    BY <1>1, <2>1, StillKept DEF dnsVars, QInv, DnsTypes, DnsStack, Dns!TimerWithTasks
<1>2. ASSUME NEW q \in Queries,
             Dns!ParseError(q) \/ Dns!ParseHosts(q) \/ Dns!ParseRecords(q) \/ Dns!ParseHostent(q)
      PROVE  QInv'
  BY <1>2, AnswerQInv DEF Dns!ParseError, Dns!ParseHosts, Dns!ParseRecords, Dns!ParseHostent
<1> QED
  BY <1>1, <1>2, AskQInv, SendQInv, SocketsQInv, ProcessQInv, AnswerQInv, DnsReturnQInv DEF Dns!Next

LEMMA QueriesKept == QInv => Dns!QueriesAnswered
<1> SUFFICES ASSUME QInv PROVE Dns!QueriesAnswered
  OBVIOUS
<1>1. ASSUME NEW q \in Queries, query[q] = "freed"
      PROVE  answers[q] + (IF returned[q] = "null" THEN 1 ELSE 0) = 1
  BY <1>1 DEF QInv, QueryKept
<1>2. ASSUME NEW q \in Queries, NEW i \in DOMAIN stack,
             stack[i] \in {Dns!Callback(q), Dns!AfterAddrInfo(q)}
      PROVE  query[q] = "sent" /\ answers[q] = 1
  BY <1>2 DEF QInv, QueryKept, OnStack
<1>3. ASSUME NEW q \in Queries
      PROVE  Dns!Send(q) \in {stack[i] : i \in DOMAIN stack} <=> query[q] # "none" /\ returned[q] = "nothing"
  BY DEF QInv, QueryKept, OnStack
<1> QED
  BY <1>1, <1>2, <1>3 DEF QInv, Dns!QueriesAnswered, Dns!AnsweredOnce

-----------------------------------------------------------------------------
(* Buffers.                                                                *)

Views == [parent : Blocks, off : Nat, len : Nat, kin : Blocks \X Nat, cuts : Nat]

BufferTypes ==
  /\ mem \in [Blocks -> (0..(U32 - 1)) \cup {-1}] /\ mem[0] = 0
  /\ pool \in [blk : Blocks, used : Nat]
  /\ bufs \in [Bufs -> Views \cup {Buf!NoBuf}]

(* A buffer lies in its block, and not before where it was cut first; of   *)
(* two first cuts of a block, all of the one ends before the other.        *)
ViewKept(v) ==
  /\ Buf!Inside(v) /\ v.kin[1] = v.parent /\ v.kin[2] <= v.off
  /\ v.parent = 0 => v.kin[2] = 0

CutBefore(v, w) == v.parent = w.parent /\ v.kin[2] < w.kin[2] => v.off + v.len <= w.kin[2]

(* What was cut from the pool lies below pool.used.                        *)
FromPool(v, p) ==
  v.parent = p.blk /\ p.blk # 0 => v.kin[2] < p.used /\ v.off + v.len <= p.used

ViewsKept ==
  \A b \in Buf!Held :
    /\ ViewKept(bufs[b]) /\ FromPool(bufs[b], pool)
    /\ \A c \in Buf!Held : CutBefore(bufs[b], bufs[c])

Within(t) ==
  /\ Buf!Inside(t.view)
  /\ t.noAssert \/ (t.view.off <= t.lo /\ t.hi <= t.view.off + t.view.len)

BufKept == BufferTypes /\ mem[pool.blk] # -1 /\ ViewsKept

BInv == BufKept /\ \A t \in touched : Within(t)

LEMMA HeldViews == ASSUME BufferTypes, NEW b \in Buf!Held PROVE b \in Bufs /\ bufs[b] \in Views
BY DEF BufferTypes, Buf!Held

LEMMA NoBufIsNone == Buf!NoBuf \notin Views
BY DEF Buf!NoBuf, Views

LEMMA InitBInv == Buf!Init => BInv
<1> SUFFICES ASSUME Buf!Init PROVE BInv
  OBVIOUS
<1>1. mem = [k \in Blocks |-> IF k = 0 THEN 0 ELSE -1] /\ pool = [blk |-> 0, used |-> 0]
      /\ bufs = [b \in Bufs |-> Buf!NoBuf] /\ touched = {}
  BY DEF Buf!Init, Buf!Unallocated
<1>2. 0 \in Blocks /\ 0 \in 0..(U32 - 1)
  BY BuffersAssumption
<1>3. Buf!Held = {}
  BY <1>1 DEF Buf!Held
<1>4. BufferTypes
  BY <1>1, <1>2 DEF BufferTypes
<1> QED
  BY <1>1, <1>2, <1>3, <1>4 DEF BInv, BufKept, ViewsKept

-----------------------------------------------------------------------------
(* Where n bytes are put: nowhere, in a block that was not in use, or next *)
(* in the pool.                                                            *)
LEMMA PlaceGiven ==
  ASSUME BufKept, NEW n \in 0..(U32 - 1), NEW at \in Buf!Place(n)
  PROVE  /\ at.blk \in Blocks /\ at.off \in Nat /\ at.pool \in [blk : Blocks, used : Nat]
         /\ at.mem \in [Blocks -> (0..(U32 - 1)) \cup {-1}]
         /\ at.mem[at.blk] # -1 /\ at.off + n <= at.mem[at.blk] /\ at.mem[at.pool.blk] # -1
         /\ \A k \in Blocks : mem[k] # -1 => at.mem[k] = mem[k]
         /\ \/ n = 0 /\ at.blk = 0 /\ at.off = 0 /\ at.pool = pool
            \/ /\ mem[at.blk] = -1 /\ at.off = 0
               /\ \/ at.pool = pool
                  \/ at.pool.blk = at.blk /\ 0 < at.pool.used /\ n <= at.pool.used
            \/ /\ n > 0 /\ at.blk = pool.blk /\ at.off = pool.used
               /\ at.pool.blk = pool.blk /\ pool.used + n <= at.pool.used
<1>1. /\ mem \in [Blocks -> (0..(U32 - 1)) \cup {-1}] /\ mem[0] = 0
      /\ pool \in [blk : Blocks, used : Nat] /\ mem[pool.blk] # -1
      /\ PoolSize \in 0..(U32 - 1) /\ 0 \in Blocks /\ U32 \in Nat
  BY BuffersAssumption DEF BufKept, BufferTypes
<1>2. ASSUME NEW m \in Nat PROVE Buf!Align(m) \in Nat /\ m <= Buf!Align(m)
  BY DEF Buf!Align
<1>3. \A k \in Buf!Unused : k \in Blocks /\ mem[k] = -1
  BY DEF Buf!Unused, Buf!Lowest, Buf!Unallocated
<1>4. CASE n > PoolSize
  <2>1. PICK k \in Buf!Unused : at = [blk |-> k, off |-> 0, mem |-> Buf!Replace(k, n), pool |-> pool]
    BY <1>4 DEF Buf!Place
  <2>2. /\ at.blk = k /\ at.off = 0 /\ at.mem = [mem EXCEPT ![k] = n] /\ at.pool = pool
        /\ k \in Blocks /\ mem[k] = -1
    BY <1>3, <2>1 DEF Buf!Replace
  <2>3. at.mem[k] = n /\ \A j \in Blocks \ {k} : at.mem[j] = mem[j]
    BY <1>1, <2>2
  <2>4. at.mem \in [Blocks -> (0..(U32 - 1)) \cup {-1}]
    BY <1>1, <2>2
  <2> QED
    BY <1>1, <2>2, <2>3, <2>4
<1>5. CASE n = 0 /\ ~(n > PoolSize)
  <2>1. at = [blk |-> 0, off |-> 0, mem |-> mem, pool |-> pool]
    BY <1>5 DEF Buf!Place
  <2> QED
    BY <1>1, <1>5, <2>1
<1>6. CASE n > 0 /\ ~(n > PoolSize) /\ Buf!Fits(n)
  <2>1. at = [blk |-> pool.blk, off |-> pool.used, mem |-> mem,
              pool |-> [pool EXCEPT !.used = Buf!Align(pool.used + n)]]
    BY <1>1, <1>6 DEF Buf!Place
  <2>2. /\ at.blk = pool.blk /\ at.off = pool.used /\ at.mem = mem
        /\ at.pool = [blk |-> pool.blk, used |-> Buf!Align(pool.used + n)]
    BY <1>1, <2>1
  <2>3. pool.used + n \in Nat /\ pool.used + n <= mem[pool.blk] /\ mem[pool.blk] \in Nat
    BY <1>1, <1>6 DEF Buf!Fits
  <2>4. Buf!Align(pool.used + n) \in Nat /\ pool.used + n <= Buf!Align(pool.used + n)
    BY <1>2, <2>3
  <2> QED
    BY <1>1, <1>6, <2>2, <2>3, <2>4
<1>7. CASE n > 0 /\ ~(n > PoolSize) /\ ~Buf!Fits(n)
  <2>1. PICK k \in Buf!Unused :
          at = [blk |-> k, off |-> 0, mem |-> Buf!Replace(k, PoolSize),
                pool |-> [blk |-> k, used |-> Buf!Align(n)]]
    BY <1>7 DEF Buf!Place
  <2>2. /\ at.blk = k /\ at.off = 0 /\ at.mem = [mem EXCEPT ![k] = PoolSize]
        /\ at.pool = [blk |-> k, used |-> Buf!Align(n)]
        /\ k \in Blocks /\ mem[k] = -1
    BY <1>3, <2>1 DEF Buf!Replace
  <2>3. at.mem[k] = PoolSize /\ \A j \in Blocks \ {k} : at.mem[j] = mem[j]
    BY <1>1, <2>2
  <2>4. at.mem \in [Blocks -> (0..(U32 - 1)) \cup {-1}]
    BY <1>1, <2>2
  <2>5. Buf!Align(n) \in Nat /\ n <= Buf!Align(n)
    BY <1>2
  <2> QED
    BY <1>1, <1>7, <2>2, <2>3, <2>4, <2>5
<1> QED
  BY <1>1, <1>4, <1>5, <1>6, <1>7

(* One more buffer, in bytes that no other buffer was cut from.            *)
LEMMA ViewGiven ==
  ASSUME BufKept, NEW b \in Bufs, bufs[b] = Buf!NoBuf, NEW v \in Views,
         bufs' = [bufs EXCEPT ![b] = v],
         mem' \in [Blocks -> (0..(U32 - 1)) \cup {-1}], pool' \in [blk : Blocks, used : Nat],
         mem'[pool'.blk] # -1, \A k \in Blocks : mem[k] # -1 => mem'[k] = mem[k],
         ViewKept(v)', FromPool(v, pool'),
         \A c \in Buf!Held : /\ FromPool(bufs[c], pool')
                             /\ CutBefore(v, bufs[c]) /\ CutBefore(bufs[c], v)
  PROVE  BufKept'
<1>1. /\ Buf!Held' = Buf!Held \cup {b} /\ b \notin Buf!Held /\ bufs'[b] = v
      /\ \A c \in Buf!Held : bufs'[c] = bufs[c]
  BY NoBufIsNone DEF Buf!Held, BufKept, BufferTypes
<1>2. BufferTypes'
  <2>1. mem'[0] = 0
    BY BuffersAssumption DEF BufKept, BufferTypes
  <2> QED
    BY <2>1 DEF BufKept, BufferTypes
<1>3. ASSUME NEW c \in Buf!Held PROVE ViewKept(bufs[c])'
  <2>1. ViewKept(bufs[c]) /\ bufs[c] \in Views
    BY HeldViews DEF BufKept, ViewsKept
  <2>2. mem'[bufs[c].parent] = mem[bufs[c].parent]
    BY <2>1 DEF ViewKept, Buf!Inside, Views, Buf!Unallocated
  <2> QED
    BY <1>1, <2>1, <2>2 DEF ViewKept, Buf!Inside
<1>4. CutBefore(v, v)
  BY DEF CutBefore, Views
<1>5. ViewsKept'
  <2> SUFFICES ASSUME NEW c \in Buf!Held'
               PROVE  /\ ViewKept(bufs[c])' /\ FromPool(bufs[c], pool)'
                      /\ \A d \in Buf!Held' : CutBefore(bufs[c], bufs[d])'
    BY DEF ViewsKept
  <2>1. CASE c = b
    <3>1. ViewKept(bufs[c])'
      BY <1>1, <2>1 DEF ViewKept, Buf!Inside
    <3> QED
      BY <1>1, <1>4, <2>1, <3>1 DEF FromPool, CutBefore
  <2>2. CASE c \in Buf!Held
    <3>1. ASSUME NEW d \in Buf!Held' PROVE CutBefore(bufs'[c], bufs'[d])
      BY <1>1, <2>2, <3>1 DEF BufKept, ViewsKept
    <3>2. FromPool(bufs'[c], pool')
      BY <1>1, <2>2
    <3> QED
      BY <1>3, <2>2, <3>1, <3>2 DEF FromPool, CutBefore
  <2> QED
    BY <1>1, <2>1, <2>2
<1> QED
  BY <1>2, <1>5 DEF BufKept

-----------------------------------------------------------------------------
(* What the calls touch.                                                   *)

LEMMA TouchIs ==
  ASSUME NEW v, NEW lo, NEW hi, NEW t \in Buf!Touch(v, lo, hi)
  PROVE  t.view = v /\ t.lo = lo /\ t.hi = hi
BY DEF Buf!Touch, Buf!Span

LEMMA ModSmall == ASSUME NEW a \in Nat, NEW m \in Nat, a < m PROVE a % m = a
OBVIOUS

LEMMA ModKeeps == ASSUME NEW m \in Nat, NEW a \in 0..(m - 1) PROVE a % m = a
OBVIOUS

LEMMA ModRange == ASSUME NEW a \in Int, NEW m \in Nat \ {0} PROVE a % m \in 0..(m - 1)
OBVIOUS

(* A view as the methods of its parent get it.                             *)
Fitting(v) ==
  /\ v.parent \in Blocks /\ v.off \in Nat /\ v.len \in Nat /\ Buf!Inside(v)
  /\ mem[v.parent] \in 0..(U32 - 1)

LEMMA FittingView ==
  ASSUME BufKept, NEW b \in Buf!Held
  PROVE  bufs[b] \in Views /\ Fitting(bufs[b]) /\ Fitting(Buf!Whole(bufs[b].parent))
<1>1. bufs[b] \in Views /\ Buf!Inside(bufs[b])
  BY HeldViews DEF BufKept, ViewsKept, ViewKept
<1>2. mem \in [Blocks -> (0..(U32 - 1)) \cup {-1}] /\ U32 \in Nat
  BY BuffersAssumption DEF BufKept, BufferTypes
<1>3. mem[bufs[b].parent] \in 0..(U32 - 1)
  BY <1>1, <1>2 DEF Views, Buf!Inside, Buf!Unallocated
<1> QED
  BY <1>1, <1>2, <1>3 DEF Fitting, Views, Buf!Whole, Buf!Inside, Buf!Unallocated

LEMMA SliceWithin ==
  ASSUME NEW v, Fitting(v), NEW lo \in Int, NEW hi \in Int, v.off <= lo, hi <= v.off + v.len,
         NEW t \in Buf!StringSlice(v, lo, hi) \cup Buf!Fill(v, lo, hi)
  PROVE  Within(t)
<1>1. t \in Buf!Touch(v, lo, hi)
  BY DEF Buf!StringSlice, Buf!Fill
<1> QED
  BY <1>1, TouchIs DEF Within, Fitting

LEMMA CopyWithin ==
  ASSUME NEW w, Fitting(w), NEW v, Fitting(v), NEW to \in 0..(U32 - 1), NEW from \in 0..(U32 - 1),
         NEW until \in 0..(U32 - 1), w.off <= to, v.off <= from, until <= v.off + v.len,
         until <= from \/ to + (until - from) <= w.off + w.len
                       \/ w.off + w.len = mem[w.parent],
         NEW t \in Buf!Copy(w, v, to, from, until)
  PROVE  Within(t)
<1> DEFINE n == Buf!Least(Buf!Least(until - from, mem[w.parent] - to), mem[v.parent] - from)
<1>1. to % U32 = to /\ from % U32 = from /\ until % U32 = until /\ U32 \in Nat
  BY ModSmall, BuffersAssumption
<1>a. Buf!Copy(w, v, to, from, until)
        = IF until <= from \/ to >= mem[w.parent] \/ from >= mem[v.parent] \/ until > mem[v.parent]
          THEN {} ELSE Buf!Touch(w, to, to + n) \cup Buf!Touch(v, from, from + n)
  BY <1>1, Zenon DEF Buf!Copy
<1> HIDE DEF n
<1>2. /\ from < until /\ to < mem[w.parent] /\ from < mem[v.parent] /\ until <= mem[v.parent]
      /\ t \in Buf!Touch(w, to, to + n) \cup Buf!Touch(v, from, from + n)
  BY <1>a, <1>1 DEF Fitting
<1>3. /\ n \in Int /\ n <= until - from /\ n <= mem[w.parent] - to /\ n <= mem[v.parent] - from
  BY <1>1, <1>2 DEF Buf!Least, Fitting, n
<1>4. CASE t \in Buf!Touch(w, to, to + n)
  <2>1. t.view = w /\ t.lo = to /\ t.hi = to + n
    BY <1>4, TouchIs
  <2>2. to + n <= w.off + w.len
    BY <1>1, <1>2, <1>3 DEF Fitting
  <2> QED
    BY <2>1, <2>2 DEF Within, Fitting
<1>5. CASE t \in Buf!Touch(v, from, from + n)
  <2>1. t.view = v /\ t.lo = from /\ t.hi = from + n
    BY <1>5, TouchIs
  <2>2. from + n <= v.off + v.len
    BY <1>1, <1>2, <1>3 DEF Fitting
  <2> QED
    BY <2>1, <2>2 DEF Within, Fitting
<1> QED
  BY <1>2, <1>4, <1>5

(* most is what the caller left of the buffer; a whole block is cut to     *)
(* what remains of it.                                                     *)
LEMMA StringWriteWithin ==
  ASSUME NEW v, Fitting(v), NEW n \in Nat, NEW unit \in {1, 2}, NEW at \in Int, NEW most \in Int,
         \/ v.off <= at /\ most \in 0..(U32 - 1) /\ at + most <= v.off + v.len
         \/ v.off = 0 /\ v.len = mem[v.parent],
         NEW t \in Buf!StringWrite(v, n, unit, at, most)
  PROVE  Within(t)
<1> DEFINE lo == at % SizeT
           r == Buf!Least((mem[v.parent] - lo) % SizeT, most % U32)
           left == r \div unit
<1>a. Buf!StringWrite(v, n, unit, at, most)
        = IF n = 0 \/ lo >= mem[v.parent] THEN {}
          ELSE Buf!Touch(v, lo, lo + unit * Buf!Least(n, left))
  BY Zenon DEF Buf!StringWrite
<1>2. /\ SizeT \in Nat \ {0} /\ U32 \in Nat \ {0} /\ mem[v.parent] < SizeT /\ mem[v.parent] \in Nat
      /\ v.off \in Nat /\ v.len \in Nat /\ v.off + v.len <= mem[v.parent]
  BY BuffersAssumption DEF Fitting, Buf!Inside
<1>3. lo \in 0..(SizeT - 1) /\ most % U32 \in 0..(U32 - 1)
  BY <1>2, ModRange
<1>b. most \in 0..(U32 - 1) => most % U32 = most
  BY <1>2, ModKeeps, Zenon
<1>c. at \in 0..(SizeT - 1) => lo = at
  BY <1>2, ModKeeps, Zenon
<1> HIDE DEF lo
<1>1. lo < mem[v.parent] /\ t \in Buf!Touch(v, lo, lo + unit * Buf!Least(n, left))
  <2> HIDE DEF left, r
  <2> QED
    BY <1>a, <1>2, <1>3
<1>4. r <= mem[v.parent] - lo /\ r <= most % U32 /\ r \in Nat
  <2>1. mem[v.parent] - lo \in Nat /\ mem[v.parent] - lo < SizeT
    BY <1>1, <1>2, <1>3
  <2>2. (mem[v.parent] - lo) % SizeT = mem[v.parent] - lo
    BY <1>2, <2>1, ModSmall
  <2> QED
    BY <1>3, <2>1, <2>2 DEF Buf!Least
<1>5. v.off <= at /\ most \in 0..(U32 - 1) /\ at + most <= v.off + v.len => lo = at /\ most % U32 = most
  <2> SUFFICES ASSUME v.off <= at, most \in 0..(U32 - 1), at + most <= v.off + v.len
               PROVE  lo = at /\ most % U32 = most
    OBVIOUS
  <2>1. at \in 0..(SizeT - 1)
    BY <1>2
  <2> QED
    BY <2>1, <1>b, <1>c
<1> HIDE DEF r
<1>6. unit * Buf!Least(n, left) <= r
  <2>1. left \in Nat /\ unit * left <= r
    BY <1>4
  <2> QED
    BY <2>1, <1>4 DEF Buf!Least
<1>7. unit * Buf!Least(n, left) \in Int
  BY <1>4 DEF Buf!Least
<1> DEFINE m == unit * Buf!Least(n, left)
<1>8. t.view = v /\ t.lo = lo /\ t.hi = lo + m
  BY <1>1, TouchIs
<1> HIDE DEF m
<1>9. v.off <= lo /\ lo + m <= v.off + v.len
  BY <1>2, <1>3, <1>4, <1>5, <1>6, <1>7 DEF m
<1> QED
  BY <1>8, <1>9 DEF Within, Fitting

(* What is not to be checked may lie anywhere, and says so.                *)
LEMMA UncheckedWithin ==
  ASSUME NEW v, Fitting(v), NEW size, NEW at,
         NEW t \in Buf!ReadFloatGeneric(v, size, at, TRUE) \cup Buf!WriteFloatGeneric(v, size, at, TRUE)
  PROVE  Within(t)
<1>1. Buf!ReadFloatGeneric(v, size, at, TRUE) = {Buf!Span(v, at, at + size, TRUE)}
  BY Zenon DEF Buf!ReadFloatGeneric
<1>2. Buf!WriteFloatGeneric(v, size, at, TRUE) = {Buf!Span(v, at % U32, (at % U32) + size, TRUE)}
  BY Zenon DEF Buf!WriteFloatGeneric
<1>3. t = Buf!Span(v, at, at + size, TRUE) \/ t = Buf!Span(v, at % U32, (at % U32) + size, TRUE)
  BY <1>1, <1>2, Zenon
<1>4. t.view = v /\ t.noAssert = TRUE
  BY <1>3 DEF Buf!Span
<1> QED
  BY <1>4, Zenon DEF Within, Fitting

LEMMA FloatChecked ==
  ASSUME NEW v, NEW size, NEW at,
         NEW t \in Buf!ReadFloatGeneric(v, size, at, FALSE) \cup Buf!WriteFloatGeneric(v, size, at, FALSE)
  PROVE  /\ ~(at < 0)
         /\ \/ t = Buf!Span(v, at, at + size, FALSE) /\ ~(at + size > mem[v.parent])
            \/ t = Buf!Span(v, at % U32, (at % U32) + size, FALSE) /\ ~((at % U32) + size > mem[v.parent])
BY Zenon DEF Buf!ReadFloatGeneric, Buf!WriteFloatGeneric

LEMMA FloatWithin ==
  ASSUME NEW v, Fitting(v), NEW size \in Nat, NEW at \in -2..(U32 - 1), v.off <= at \/ v.off = 0,
         at + size <= v.off + v.len \/ v.off + v.len = mem[v.parent],
         NEW t \in Buf!ReadFloatGeneric(v, size, at, FALSE) \cup Buf!WriteFloatGeneric(v, size, at, FALSE)
  PROVE  Within(t)
<1>1. U32 \in Nat
  BY BuffersAssumption
<1>2. v.off \in Nat /\ v.len \in Nat /\ mem[v.parent] \in Nat /\ Buf!Inside(v)
  BY <1>1 DEF Fitting
<1>3. ~(at < 0)
  BY FloatChecked, Zenon
<1>4. at \in Nat /\ at < U32
  BY <1>1, <1>3
<1>5. at % U32 = at
  BY <1>1, <1>4, ModSmall
<1>6. t = Buf!Span(v, at, at + size, FALSE) /\ ~(at + size > mem[v.parent])
  <2>1. \/ t = Buf!Span(v, at, at + size, FALSE) /\ ~(at + size > mem[v.parent])
        \/ t = Buf!Span(v, at % U32, (at % U32) + size, FALSE) /\ ~((at % U32) + size > mem[v.parent])
    BY FloatChecked, Zenon
  <2> QED
    BY <1>5, <2>1
<1>7. t.view = v /\ t.lo = at /\ t.hi = at + size
  BY <1>6 DEF Buf!Span
<1>8. v.off <= at /\ at + size <= v.off + v.len
  BY <1>2, <1>4, <1>6
<1> QED
  BY <1>2, <1>7, <1>8, Zenon DEF Within

LEMMA CopySlowWithin ==
  ASSUME NEW w, Fitting(w), w.off = 0, w.len = mem[w.parent],
         NEW v, Fitting(v), v.off = 0, v.len = mem[v.parent],
         NEW to \in Int, NEW from \in Int, NEW until \in Int,
         NEW t \in Buf!Copy(w, v, to, from, until)
  PROVE  Within(t)
<1>1. U32 \in Nat \ {0}
  BY BuffersAssumption
<1>2. to % U32 \in 0..(U32 - 1) /\ from % U32 \in 0..(U32 - 1) /\ until % U32 \in 0..(U32 - 1)
  BY <1>1, ModRange
<1>3. /\ (to % U32) % U32 = to % U32 /\ (from % U32) % U32 = from % U32
      /\ (until % U32) % U32 = until % U32
  BY <1>1, <1>2, ModKeeps, Zenon
<1>4. Buf!Copy(w, v, to, from, until) = Buf!Copy(w, v, to % U32, from % U32, until % U32)
  BY <1>3, Zenon DEF Buf!Copy
<1>5. t \in Buf!Copy(w, v, to % U32, from % U32, until % U32)
  BY <1>4
<1> DEFINE a == to % U32  b == from % U32  c == until % U32
<1> HIDE DEF a, b, c
<1>6. a \in 0..(U32 - 1) /\ b \in 0..(U32 - 1) /\ c \in 0..(U32 - 1) /\ t \in Buf!Copy(w, v, a, b, c)
  BY <1>2, <1>5 DEF a, b, c
<1>7. CASE c <= v.len
  BY <1>6, <1>7, CopyWithin DEF Fitting
<1>8. CASE ~(c <= v.len)
  <2>1. a % U32 = a /\ b % U32 = b /\ c % U32 = c
    BY <1>1, <1>6, ModKeeps
  <2>2. Buf!Copy(w, v, a, b, c) = {}
    BY <1>1, <1>6, <1>8, <2>1 DEF Buf!Copy, Fitting
  <2> QED
    BY <1>6, <2>2
<1> QED
  BY <1>7, <1>8

(* The methods of Buffer.                                                  *)
LEMMA IntsRange == ASSUME NEW i \in Buf!Ints PROVE i \in -2..(U32 - 1) \/ i \in {-2, 0}
BY BuffersAssumption DEF Buf!Ints

LEMMA WriteWithin ==
  ASSUME NEW v, Fitting(v), NEW n \in Nat, NEW unit \in {1, 2},
         NEW skip \in Int, NEW length \in Int,
         NEW t \in Buf!BufferWrite(v, n, unit, skip, length)
  PROVE  Within(t)
<1> DEFINE r == Buf!WriteRoom(v, skip, length)
<1>1. r \in Int /\ r <= v.len - skip
  BY DEF Buf!WriteRoom, Fitting
<1>a. Buf!BufferWrite(v, n, unit, skip, length)
        = IF n > 0 /\ (r < 0 \/ skip < 0) THEN {} ELSE Buf!StringWrite(v, n, unit, v.off + skip, r)
  BY Zenon DEF Buf!BufferWrite
<1> HIDE DEF r
<1>2. t \in Buf!StringWrite(v, n, unit, v.off + skip, r) /\ (n > 0 => r >= 0 /\ skip >= 0)
  BY <1>1, <1>a
<1>3. n # 0
  BY <1>2 DEF Buf!StringWrite
<1>4. r \in 0..(U32 - 1) /\ v.off <= v.off + skip /\ v.off + skip + r <= v.off + v.len
  BY <1>1, <1>2, <1>3, BuffersAssumption DEF Fitting, Buf!Inside
<1>5. v.off + skip \in Int
  BY DEF Fitting
<1> QED
  BY <1>1, <1>2, <1>4, <1>5, StringWriteWithin

LEMMA ToStringWithin ==
  ASSUME NEW v, Fitting(v), NEW start \in Int, NEW end \in Int, NEW t \in Buf!BufferToString(v, start, end)
  PROVE  Within(t)
<1> DEFINE from == (IF start < 0 THEN 0 ELSE Buf!Least(start, v.len)) + v.off
           until == (IF end < 0 THEN 0 ELSE Buf!Least(end, v.len)) + v.off
<1>1. t \in Buf!StringSlice(v, from, until)
  BY DEF Buf!BufferToString
<1>2. from \in Int /\ until \in Int /\ v.off <= from /\ until <= v.off + v.len
  BY DEF Buf!Least, Fitting
<1> HIDE DEF from, until
<1> QED
  BY <1>1, <1>2, SliceWithin

LEMMA FillWithin ==
  ASSUME NEW v, Fitting(v), NEW start \in Int, NEW end \in Int, NEW t \in Buf!BufferFill(v, start, end)
  PROVE  Within(t)
<1> DEFINE until == IF end = 0 THEN v.len ELSE end
<1>a. Buf!BufferFill(v, start, end)
        = IF until <= start \/ v.len = 0 \/ start < 0 \/ start >= v.len \/ until > v.len THEN {}
          ELSE Buf!Fill(v, start + v.off, until + v.off)
  BY Zenon DEF Buf!BufferFill
<1>2. until \in Int
  BY DEF Fitting
<1> HIDE DEF until
<1>1. t \in Buf!Fill(v, start + v.off, until + v.off) /\ start >= 0 /\ until <= v.len
  BY <1>2, <1>a DEF Fitting
<1>3. start + v.off \in Int /\ until + v.off \in Int /\ v.off <= start + v.off /\ until + v.off <= v.off + v.len
  BY <1>1, <1>2 DEF Fitting
<1> QED
  BY <1>1, <1>3, SliceWithin

LEMMA BufferCopyWithin ==
  ASSUME NEW w, Fitting(w), NEW v, Fitting(v), NEW target_start \in Int, NEW start \in Int, NEW end \in Int,
         NEW t \in Buf!BufferCopy(w, v, target_start, start, end)
  PROVE  Within(t)
<1> DEFINE to == IF target_start < 0 THEN 0 ELSE target_start
           from == IF start < 0 THEN 0 ELSE start
           until == Buf!Least(end, v.len)
           last == Buf!Least(until, w.len - to + from)
<1>1. Buf!BufferCopy(w, v, target_start, start, end)
        = IF until <= from \/ w.len = 0 \/ v.len = 0 \/ from > v.len \/ to >= w.len THEN {}
          ELSE Buf!Copy(w, v, to + w.off, from + v.off, last + v.off)
  BY Zenon DEF Buf!BufferCopy
<1>2. to \in Nat /\ from \in Nat /\ until \in Int /\ until <= v.len
  BY DEF Buf!Least, Fitting
<1>3. last \in Int /\ last <= until /\ last <= w.len - to + from /\ (last = until \/ last = w.len - to + from)
  BY <1>2 DEF Buf!Least, Fitting
<1> HIDE DEF to, from, until, last
<1>4. /\ from < until /\ to < w.len
      /\ t \in Buf!Copy(w, v, to + w.off, from + v.off, last + v.off)
  BY <1>1, <1>2 DEF Fitting
<1>5. from < last /\ last <= v.len
  BY <1>2, <1>3, <1>4 DEF Fitting
<1> DEFINE a == to + w.off  b == from + v.off  c == last + v.off
<1>6. /\ a \in 0..(U32 - 1) /\ b \in 0..(U32 - 1) /\ c \in 0..(U32 - 1)
      /\ w.off <= a /\ v.off <= b /\ c <= v.off + v.len /\ a + (c - b) <= w.off + w.len
  BY <1>2, <1>3, <1>4, <1>5, BuffersAssumption DEF Fitting, Buf!Inside
<1>7. t \in Buf!Copy(w, v, a, b, c)
  BY <1>4
<1> HIDE DEF a, b, c
<1> QED
  BY <1>6, <1>7, CopyWithin

LEMMA BufferFloatWithin ==
  ASSUME NEW v, Fitting(v), NEW size \in {4, 8}, NEW skip \in Int, NEW told \in BOOLEAN,
         NEW t \in Buf!BufferReadFloat(v, size, skip, told) \cup Buf!BufferWriteFloat(v, size, skip, told)
  PROVE  Within(t)
<1>1. t \in Buf!ReadFloatGeneric(v, size, v.off + skip, told) \cup Buf!WriteFloatGeneric(v, size, v.off + skip, told)
  BY DEF Buf!BufferReadFloat, Buf!BufferWriteFloat
<1>2. CASE told = TRUE
  BY <1>1, <1>2, UncheckedWithin
<1>3. CASE told = FALSE
  <2>1. skip >= 0 /\ skip + size <= v.len
    BY <1>3 DEF Buf!BufferReadFloat, Buf!BufferWriteFloat, Buf!checkOffset
  <2>2. v.off <= v.off + skip /\ (v.off + skip) + size <= v.off + v.len
    BY <2>1 DEF Fitting
  <2>3. v.off + skip \in -2..(U32 - 1)
    BY <2>1, BuffersAssumption DEF Fitting, Buf!Inside
  <2>4. size \in Nat
    OBVIOUS
  <2> QED
    BY <1>1, <1>3, <2>2, <2>3, <2>4, FloatWithin
<1> QED
  BY <1>2, <1>3

-----------------------------------------------------------------------------
(* The actions.                                                            *)

LEMMA MemFacts ==
  ASSUME BufKept
  PROVE  /\ mem \in [Blocks -> (0..(U32 - 1)) \cup {-1}] /\ mem[0] = 0
         /\ pool \in [blk : Blocks, used : Nat] /\ mem[pool.blk] # -1
         /\ U32 \in Nat /\ 0 \in Blocks
BY BuffersAssumption DEF BufKept, BufferTypes

LEMMA HeldKept ==
  ASSUME BufKept, NEW c \in Buf!Held
  PROVE  /\ bufs[c] \in Views /\ ViewKept(bufs[c]) /\ FromPool(bufs[c], pool)
         /\ mem[bufs[c].parent] # -1
BY HeldViews DEF BufKept, ViewsKept, ViewKept, Buf!Inside, Buf!Unallocated

(* m of the n bytes that were found a place for.                           *)
LEMMA Placed ==
  ASSUME BufKept, NEW b \in Bufs, bufs[b] = Buf!NoBuf,
         NEW n \in 0..(U32 - 1), NEW m \in 0..n, NEW at \in Buf!Place(n),
         mem' = at.mem, pool' = at.pool,
         bufs' = [bufs EXCEPT ![b] = Buf!View(at.blk, at.off, m)]
  PROVE  /\ BufKept' /\ Buf!Inside(Buf!View(at.blk, at.off, n))'
         /\ \A k \in Blocks : mem[k] # -1 => mem'[k] = mem[k]
<1> DEFINE v == Buf!View(at.blk, at.off, m)
<1>1. /\ at.blk \in Blocks /\ at.off \in Nat /\ pool' \in [blk : Blocks, used : Nat]
      /\ mem' \in [Blocks -> (0..(U32 - 1)) \cup {-1}]
      /\ mem'[at.blk] # -1 /\ at.off + n <= mem'[at.blk] /\ mem'[pool'.blk] # -1
      /\ \A k \in Blocks : mem[k] # -1 => mem'[k] = mem[k]
  BY PlaceGiven
<1>2. \/ n = 0 /\ at.blk = 0 /\ at.off = 0 /\ pool' = pool
      \/ /\ mem[at.blk] = -1 /\ at.off = 0
         /\ \/ pool' = pool
            \/ pool'.blk = at.blk /\ 0 < pool'.used /\ n <= pool'.used
      \/ /\ n > 0 /\ at.blk = pool.blk /\ at.off = pool.used
         /\ pool'.blk = pool.blk /\ pool.used + n <= pool'.used
  BY PlaceGiven
<1>3. /\ v.parent = at.blk /\ v.off = at.off /\ v.len = m /\ v.kin[1] = at.blk /\ v.kin[2] = at.off
      /\ v \in Views
  BY <1>1 DEF Buf!View, Views
<1> HIDE DEF v
<1>4. mem[0] = 0 /\ mem[pool.blk] # -1 /\ pool \in [blk : Blocks, used : Nat] /\ U32 \in Nat /\ 0 \in Blocks
  BY MemFacts
<1>5. mem'[at.blk] \in Nat /\ mem'[0] = 0
  BY <1>1, <1>4
<1>6. n > 0 /\ at.blk = pool.blk => pool.blk # 0
  BY <1>1, <1>4, <1>5
<1>7. ViewKept(v)'
  <2>1. v.parent = 0 => v.kin[2] = 0
    BY <1>1, <1>2, <1>3, <1>4, <1>6
  <2> QED
    BY <1>1, <1>3, <1>5, <2>1 DEF ViewKept, Buf!Inside, Buf!Unallocated
<1>8. FromPool(v, pool')
  BY <1>1, <1>2, <1>3, <1>4 DEF FromPool
<1>9. ASSUME NEW c \in Buf!Held
      PROVE  FromPool(bufs[c], pool') /\ CutBefore(v, bufs[c]) /\ CutBefore(bufs[c], v)
  <2>1. /\ bufs[c] \in Views /\ ViewKept(bufs[c]) /\ FromPool(bufs[c], pool)
        /\ mem[bufs[c].parent] # -1
    BY HeldKept
  <2>2. bufs[c].kin[2] \in Nat /\ bufs[c].off \in Nat /\ bufs[c].len \in Nat /\ bufs[c].parent \in Blocks
    BY <2>1 DEF Views
  <2>3. CASE n = 0 /\ at.blk = 0 /\ at.off = 0 /\ pool' = pool
    BY <1>3, <2>1, <2>2, <2>3 DEF CutBefore, ViewKept
  <2>4. CASE mem[at.blk] = -1 /\ at.off = 0 /\ pool' = pool
    BY <1>3, <2>1, <2>2, <2>4 DEF CutBefore
  <2>5. CASE mem[at.blk] = -1 /\ at.off = 0 /\ pool'.blk = at.blk
    BY <1>3, <2>1, <2>2, <2>5 DEF CutBefore, FromPool
  <2>6. CASE n > 0 /\ at.blk = pool.blk /\ at.off = pool.used
             /\ pool'.blk = pool.blk /\ pool.used + n <= pool'.used
    <3>1. pool'.used \in Nat /\ pool.used \in Nat
      BY <1>1, <1>4
    <3>2. FromPool(bufs[c], pool')
      BY <1>6, <2>1, <2>2, <2>6, <3>1 DEF FromPool
    <3>3. CutBefore(v, bufs[c]) /\ CutBefore(bufs[c], v)
      BY <1>3, <1>6, <2>1, <2>2, <2>6, <3>1 DEF FromPool, CutBefore
    <3> QED
      BY <3>2, <3>3
  <2> QED
    BY <1>2, <2>3, <2>4, <2>5, <2>6
<1>10. BufKept'
  <2>1. bufs' = [bufs EXCEPT ![b] = v]
    BY DEF v
  <2> QED
    BY <1>1, <1>3, <1>7, <1>8, <1>9, <2>1, ViewGiven
<1>11. Buf!Inside(Buf!View(at.blk, at.off, n))'
  BY <1>1, <1>5 DEF Buf!Inside, Buf!View, Buf!Unallocated
<1> QED
  BY <1>1, <1>10, <1>11

LEMMA NewBufferBInv ==
  ASSUME BufKept, NEW b \in Bufs, NEW n \in 0..(U32 - 1), NEW m \in 0..n, NEW filled \in BOOLEAN,
         Buf!NewBuffer(b, n, m, filled)
  PROVE  BInv'
<1>1. PICK at \in Buf!Place(n) :
        /\ mem' = at.mem /\ pool' = at.pool
        /\ bufs' = [bufs EXCEPT ![b] = Buf!View(at.blk, at.off, m)]
        /\ touched' = IF filled THEN Buf!Touch(Buf!View(at.blk, at.off, n), at.off, at.off + m) ELSE {}
  BY DEF Buf!NewBuffer
<1>2. bufs[b] = Buf!NoBuf
  BY DEF Buf!NewBuffer
<1>3. BufKept' /\ Buf!Inside(Buf!View(at.blk, at.off, n))'
  BY <1>1, <1>2, Placed
<1>4. at.off \in Nat
  BY PlaceGiven
<1>5. ASSUME NEW t \in touched' PROVE Within(t)'
  <2>1. t.view = Buf!View(at.blk, at.off, n) /\ t.lo = at.off /\ t.hi = at.off + m
    BY <1>1, TouchIs
  <2>2. t.view.off = at.off /\ t.view.len = n
    BY <2>1 DEF Buf!View
  <2> QED
    BY <1>3, <1>4, <2>1, <2>2 DEF Within, Buf!Inside
<1> QED
  BY <1>3, <1>5 DEF BInv

LEMMA NewBufferOfBInv ==
  ASSUME BufKept, NEW b \in Bufs, NEW s \in Bufs, Buf!NewBufferOf(b, s)
  PROVE  BInv'
<1>1. s \in Buf!Held /\ bufs[b] = Buf!NoBuf
  BY DEF Buf!NewBufferOf
<1>2. bufs[s] \in Views /\ Fitting(bufs[s])
  BY <1>1, FittingView
<1>3. PICK n \in 0..(U32 - 1) : n = bufs[s].len /\ n \in 0..n
  BY <1>2, MemFacts DEF Fitting, Buf!Inside
<1>4. PICK at \in Buf!Place(n) :
        /\ mem' = at.mem /\ pool' = at.pool
        /\ bufs' = [bufs EXCEPT ![b] = Buf!View(at.blk, at.off, n)]
        /\ touched' = Buf!Touch(Buf!View(at.blk, at.off, n), at.off, at.off + n)
                      \cup Buf!Touch(bufs[s], bufs[s].off, bufs[s].off + n)
  BY <1>3 DEF Buf!NewBufferOf
<1>5. /\ BufKept' /\ Buf!Inside(Buf!View(at.blk, at.off, n))'
      /\ \A k \in Blocks : mem[k] # -1 => mem'[k] = mem[k]
  BY <1>1, <1>3, <1>4, Placed
<1>6. at.off \in Nat
  BY <1>3, PlaceGiven
<1>7. ASSUME NEW t \in touched' PROVE Within(t)'
  <2>1. CASE t \in Buf!Touch(Buf!View(at.blk, at.off, n), at.off, at.off + n)
    <3>1. t.view = Buf!View(at.blk, at.off, n) /\ t.lo = at.off /\ t.hi = at.off + n
      BY <2>1, TouchIs
    <3>2. t.view.off = at.off /\ t.view.len = n
      BY <3>1 DEF Buf!View
    <3> QED
      BY <1>3, <1>5, <1>6, <3>1, <3>2 DEF Within, Buf!Inside
  <2>2. CASE t \in Buf!Touch(bufs[s], bufs[s].off, bufs[s].off + n)
    <3>1. t.view = bufs[s] /\ t.lo = bufs[s].off /\ t.hi = bufs[s].off + n
      BY <2>2, TouchIs
    <3>2. mem'[bufs[s].parent] = mem[bufs[s].parent]
      BY <1>2, <1>5 DEF Fitting
    <3>3. Buf!Inside(t.view)'
      BY <1>2, <3>1, <3>2 DEF Fitting, Buf!Inside
    <3> QED
      BY <1>2, <1>3, <3>1, <3>3 DEF Within, Fitting
  <2> QED
    BY <1>4, <2>1, <2>2
<1> QED
  BY <1>5, <1>7 DEF BInv

LEMMA NewExternalBInv ==
  ASSUME BufKept, touched = {}, NEW b \in Bufs, NEW n \in 0..(U32 - 1), Buf!NewExternal(b, n)
  PROVE  BInv'
<1>1. PICK k \in Buf!Unused : mem' = Buf!Replace(k, n) /\ bufs' = [bufs EXCEPT ![b] = Buf!View(k, 0, n)]
  BY DEF Buf!NewExternal
<1>2. bufs[b] = Buf!NoBuf /\ pool' = pool /\ touched' = {}
  BY DEF Buf!NewExternal
<1>3. k \in Blocks /\ mem[k] = -1
  BY DEF Buf!Unused, Buf!Lowest, Buf!Unallocated
<1>4. /\ mem' \in [Blocks -> (0..(U32 - 1)) \cup {-1}] /\ mem'[k] = n
      /\ \A j \in Blocks : mem[j] # -1 => mem'[j] = mem[j]
  BY <1>1, <1>3, MemFacts DEF Buf!Replace
<1>5. k # 0 /\ k # pool.blk /\ mem'[pool'.blk] # -1 /\ pool' \in [blk : Blocks, used : Nat]
  BY <1>2, <1>3, <1>4, MemFacts
<1> DEFINE v == Buf!View(k, 0, n)
<1>6. v \in Views /\ v.parent = k /\ v.off = 0 /\ v.len = n /\ v.kin[1] = k /\ v.kin[2] = 0
  BY <1>3 DEF Buf!View, Views
<1>7. bufs' = [bufs EXCEPT ![b] = v]
  BY <1>1
<1> HIDE DEF v
<1>8. ViewKept(v)' /\ FromPool(v, pool')
  BY <1>2, <1>4, <1>5, <1>6 DEF ViewKept, FromPool, Buf!Inside, Buf!Unallocated
<1>9. ASSUME NEW c \in Buf!Held
      PROVE  FromPool(bufs[c], pool') /\ CutBefore(v, bufs[c]) /\ CutBefore(bufs[c], v)
  BY <1>2, <1>3, <1>6, HeldKept DEF CutBefore
<1>10. BufKept'
  BY <1>2, <1>4, <1>5, <1>6, <1>7, <1>8, <1>9, ViewGiven
<1> QED
  BY <1>2, <1>10 DEF BInv

LEMMA Clamped ==
  ASSUME NEW index \in Int, NEW len \in Nat
  PROVE  Buf!clamp(index, len) \in 0..len
BY DEF Buf!clamp

LEMMA SliceBInv ==
  ASSUME BufKept, touched = {}, NEW b \in Bufs, NEW s \in Bufs, NEW i \in Int, NEW j \in Int,
         Buf!Slice(b, s, i, j)
  PROVE  BInv'
<1> DEFINE v == bufs[s]
           from == Buf!clamp(i, v.len)
           n == Buf!clamp(j, v.len) - from
           length == IF n > 0 THEN n ELSE 0
<1>0. /\ bufs[b] = Buf!NoBuf /\ s \in Buf!Held
      /\ bufs' = [bufs EXCEPT ![b] = [v EXCEPT !.off = @ + from, !.len = length, !.cuts = @ + 1]]
      /\ mem' = mem /\ pool' = pool /\ touched' = touched
  BY DEF Buf!Slice
<1>2. v \in Views /\ ViewKept(v) /\ FromPool(v, pool)
  BY <1>0, HeldKept
<1>3. v.len \in Nat /\ v.off \in Nat /\ v.cuts \in Nat /\ v.kin \in Blocks \X Nat /\ v.parent \in Blocks
  BY <1>2 DEF Views
<1>4. from \in Nat /\ length \in Nat /\ from + length <= v.len
  <2>1. from \in 0..v.len /\ Buf!clamp(j, v.len) \in 0..v.len
    BY <1>3, Clamped
  <2> HIDE DEF from
  <2> QED
    BY <1>3, <2>1 DEF n, length
<1> HIDE DEF from, n, length
<1>5. PICK w : w = [v EXCEPT !.off = @ + from, !.len = length, !.cuts = @ + 1]
  OBVIOUS
<1>6. w \in Views /\ w.parent = v.parent /\ w.off = v.off + from /\ w.len = length /\ w.kin = v.kin
  <2>1. [v EXCEPT !.off = @ + from] \in Views
    BY <1>2, <1>4 DEF Views
  <2>2. \A u \in Views : [u EXCEPT !.len = length] \in Views /\ [u EXCEPT !.cuts = @ + 1] \in Views
    BY <1>4 DEF Views
  <2>3. w = [[[v EXCEPT !.off = @ + from] EXCEPT !.len = length] EXCEPT !.cuts = @ + 1]
    BY <1>2, <1>5 DEF Views
  <2>4. w \in Views
    BY <2>1, <2>2, <2>3
  <2>5. w.parent = v.parent /\ w.off = v.off + from /\ w.len = length /\ w.kin = v.kin
    BY <1>2, <1>5 DEF Views
  <2> QED
    BY <2>4, <2>5
<1>1. /\ bufs[b] = Buf!NoBuf /\ s \in Buf!Held /\ bufs' = [bufs EXCEPT ![b] = w]
      /\ mem' = mem /\ pool' = pool /\ touched' = touched
  BY <1>0, <1>5
<1>7. v.kin[2] \in Nat
  BY <1>3
<1>8. /\ Buf!Inside(v) /\ v.kin[1] = v.parent /\ v.kin[2] <= v.off /\ (v.parent = 0 => v.kin[2] = 0)
  BY <1>2 DEF ViewKept
<1>9. mem[v.parent] \in Nat
  BY <1>3, <1>8, MemFacts DEF Buf!Inside, Buf!Unallocated
<1>10. ViewKept(w)'
  <2>1. Buf!Inside(w)'
    BY <1>1, <1>3, <1>4, <1>6, <1>8, <1>9 DEF Buf!Inside
  <2> QED
    BY <1>3, <1>4, <1>6, <1>7, <1>8, <2>1 DEF ViewKept
<1>11. FromPool(w, pool')
  <2>1. pool.used \in Nat
    BY MemFacts
  <2> QED
    BY <1>1, <1>2, <1>3, <1>4, <1>6, <2>1 DEF FromPool
<1>12. ASSUME NEW c \in Buf!Held
       PROVE  FromPool(bufs[c], pool') /\ CutBefore(w, bufs[c]) /\ CutBefore(bufs[c], w)
  <2>1. CutBefore(v, bufs[c]) /\ CutBefore(bufs[c], v) /\ FromPool(bufs[c], pool)
    BY <1>0 DEF BufKept, ViewsKept
  <2>2. bufs[c] \in Views
    BY HeldKept
  <2>3. bufs[c].kin[2] \in Nat
    BY <2>2 DEF Views
  <2>4. CutBefore(w, bufs[c])
    BY <1>3, <1>4, <1>6, <2>1, <2>3 DEF CutBefore
  <2>5. CutBefore(bufs[c], w)
    BY <1>6, <2>1 DEF CutBefore
  <2> QED
    BY <1>1, <2>1, <2>4, <2>5
<1>13. mem' \in [Blocks -> (0..(U32 - 1)) \cup {-1}] /\ mem'[pool'.blk] # -1 /\ pool' \in [blk : Blocks, used : Nat]
       /\ \A k \in Blocks : mem[k] # -1 => mem'[k] = mem[k]
  BY <1>1, MemFacts
<1>14. BufKept'
  BY <1>1, <1>6, <1>10, <1>11, <1>12, <1>13, ViewGiven
<1> QED
  BY <1>1, <1>14 DEF BInv

LEMMA BufStands ==
  ASSUME BufKept, mem' = mem, pool' = pool, bufs' = bufs, \A t \in touched' : Within(t)
  PROVE  BInv'
<1>1. Buf!Held' = Buf!Held
  BY DEF Buf!Held
<1>2. BufKept'
  BY <1>1 DEF BufKept, BufferTypes, ViewsKept, ViewKept, FromPool, CutBefore, Buf!Inside
<1>3. ASSUME NEW t \in touched' PROVE Within(t)'
  BY DEF Within, Buf!Inside
<1> QED
  BY <1>2, <1>3 DEF BInv

LEMMA UseBInv ==
  ASSUME BufKept, NEW b \in Bufs, NEW i \in Int, NEW j \in Int, NEW n \in Nat, Buf!Use(b, i, j, n)
  PROVE  BInv'
<1>1. b \in Buf!Held /\ mem' = mem /\ pool' = pool /\ bufs' = bufs
  BY DEF Buf!Use
<1>2. Fitting(bufs[b])
  BY <1>1, FittingView
<1>3. ASSUME NEW t \in touched' PROVE Within(t)
  <2>1. CASE \E unit \in 1 .. 2 : touched' = Buf!BufferWrite(bufs[b], n, unit, i, j)
    <3>1. PICK unit \in {1, 2} : touched' = Buf!BufferWrite(bufs[b], n, unit, i, j)
      BY <2>1
    <3> QED
      BY <1>2, <3>1, WriteWithin
  <2>2. CASE touched' = Buf!BufferToString(bufs[b], i, j)
    BY <1>2, <2>2, ToStringWithin
  <2>3. CASE touched' = Buf!BufferFill(bufs[b], i, j)
    BY <1>2, <2>3, FillWithin
  <2>4. CASE \E c \in Buf!Held : touched' = Buf!BufferCopy(bufs[c], bufs[b], n, i, j)
    <3>1. PICK c \in Buf!Held : touched' = Buf!BufferCopy(bufs[c], bufs[b], n, i, j)
      BY <2>4
    <3>2. Fitting(bufs[c]) /\ n \in Int
      BY FittingView
    <3> QED
      BY <1>2, <3>1, <3>2, BufferCopyWithin
  <2>5. CASE \E size \in {4, 8}, told \in BOOLEAN :
               \/ touched' = Buf!BufferReadFloat(bufs[b], size, i, told)
               \/ touched' = Buf!BufferWriteFloat(bufs[b], size, i, told)
    <3>1. PICK size \in {4, 8}, told \in BOOLEAN :
            t \in Buf!BufferReadFloat(bufs[b], size, i, told) \cup Buf!BufferWriteFloat(bufs[b], size, i, told)
      BY <2>5
    <3> QED
      BY <1>2, <3>1, BufferFloatWithin
  <2> QED
    BY <2>1, <2>2, <2>3, <2>4, <2>5 DEF Buf!Use
<1> QED
  BY <1>1, <1>3, BufStands

LEMMA UseSlowBInv ==
  ASSUME BufKept, NEW b \in Bufs, NEW i \in Buf!Ints, NEW j \in Buf!Ints, NEW n \in Args, Buf!UseSlow(b, i, j, n)
  PROVE  BInv'
<1> DEFINE v == Buf!Whole(bufs[b].parent)
<1>1. b \in Buf!Held /\ mem' = mem /\ pool' = pool /\ bufs' = bufs
  BY DEF Buf!UseSlow
<1>2. Fitting(v) /\ v.off = 0 /\ v.len = mem[v.parent]
  BY <1>1, FittingView DEF Buf!Whole
<1>3. /\ i \in Int /\ j \in Int /\ n \in Nat /\ n \in Int
      /\ (i >= 0 => i \in -2..(U32 - 1))
  BY BuffersAssumption DEF Buf!Ints
<1>4. \/ \E unit \in 1 .. 2 : touched' = Buf!StringWrite(v, n, unit, i, j)
      \/ touched' = Buf!StringSlice(v, i, j)
      \/ touched' = Buf!Fill(v, i, j)
      \/ \E c \in Buf!Held : touched' = Buf!Copy(Buf!Whole(bufs[c].parent), v, n, i, j)
      \/ \E size \in {4, 8}, told \in BOOLEAN :
           \/ touched' = Buf!ReadFloatGeneric(v, size, i, told)
           \/ touched' = Buf!WriteFloatGeneric(v, size, i, told)
  BY DEF Buf!UseSlow
<1> HIDE DEF v
<1>5. v.off \in Nat /\ v.len \in Nat /\ mem[v.parent] \in 0..(U32 - 1)
  BY <1>2 DEF Fitting
<1>6. ASSUME NEW t \in touched' PROVE Within(t)
  <2>1. CASE \E unit \in 1 .. 2 : touched' = Buf!StringWrite(v, n, unit, i, j)
    <3>1. PICK unit \in {1, 2} : touched' = Buf!StringWrite(v, n, unit, i, j)
      BY <2>1
    <3> QED
      BY <1>2, <1>3, <3>1, StringWriteWithin
  <2>2. CASE touched' = Buf!StringSlice(v, i, j) \/ touched' = Buf!Fill(v, i, j)
    <3>1. Buf!SLICE_ARGS(v.parent, i, j)
      BY <2>2 DEF Buf!StringSlice, Buf!Fill
    <3>2. SizeT \in Nat /\ U32 <= SizeT /\ U32 \in Nat /\ (j >= 0 => j \in 0..(SizeT - 1))
      BY <1>3, BuffersAssumption DEF Buf!Ints
    <3>3. 0 <= i /\ i <= j /\ j % SizeT <= mem[v.parent]
      BY <3>1 DEF Buf!SLICE_ARGS
    <3>4. j % SizeT = j
      BY <1>3, <3>2, <3>3, ModKeeps
    <3>5. v.off <= i /\ j <= v.off + v.len
      BY <1>2, <1>3, <1>5, <3>3, <3>4
    <3> QED
      BY <1>2, <1>3, <2>2, <3>5, SliceWithin
  <2>3. CASE \E c \in Buf!Held : touched' = Buf!Copy(Buf!Whole(bufs[c].parent), v, n, i, j)
    <3>1. PICK c \in Buf!Held : touched' = Buf!Copy(Buf!Whole(bufs[c].parent), v, n, i, j)
      BY <2>3
    <3> DEFINE w == Buf!Whole(bufs[c].parent)
    <3>2. Fitting(w) /\ w.off = 0 /\ w.len = mem[w.parent]
      BY FittingView DEF Buf!Whole
    <3>3. t \in Buf!Copy(w, v, n, i, j)
      BY <3>1
    <3> HIDE DEF w
    <3> QED
      BY <1>2, <1>3, <3>2, <3>3, CopySlowWithin
  <2>4. CASE \E size \in {4, 8}, told \in BOOLEAN :
               \/ touched' = Buf!ReadFloatGeneric(v, size, i, told)
               \/ touched' = Buf!WriteFloatGeneric(v, size, i, told)
    <3>1. PICK size \in {4, 8}, told \in BOOLEAN :
            t \in Buf!ReadFloatGeneric(v, size, i, told) \cup Buf!WriteFloatGeneric(v, size, i, told)
      BY <2>4
    <3>2. CASE told = TRUE
      BY <1>2, <3>1, <3>2, UncheckedWithin
    <3>3. CASE told = FALSE
      <4>1. size \in Nat /\ i \in -2..(U32 - 1) /\ v.off + v.len = mem[v.parent]
        BY <1>2, <1>3, <1>5, <3>1, <3>3 DEF Buf!ReadFloatGeneric, Buf!WriteFloatGeneric
      <4> QED
        BY <1>2, <3>1, <3>3, <4>1, FloatWithin
    <3> QED
      BY <3>2, <3>3
  <2> QED
    BY <1>4, <2>1, <2>2, <2>3, <2>4
<1> QED
  BY <1>1, <1>6, BufStands

LEMMA DropBInv ==
  ASSUME BufKept, touched = {}, NEW b \in Bufs, Buf!Drop(b)
  PROVE  BInv'
<1>1. bufs' = [bufs EXCEPT ![b] = Buf!NoBuf] /\ mem' = mem /\ pool' = pool /\ touched' = {}
  BY DEF Buf!Drop
<1>2. Buf!Held' \subseteq Buf!Held /\ \A c \in Buf!Held' : bufs'[c] = bufs[c]
  BY <1>1 DEF Buf!Held, BufKept, BufferTypes
<1>3. BufferTypes' /\ mem'[pool'.blk] # -1
  BY <1>1 DEF BufferTypes, BufKept
<1>4. ViewsKept'
  BY <1>1, <1>2 DEF BufKept, ViewsKept, ViewKept, FromPool, CutBefore, Buf!Inside
<1> QED
  BY <1>1, <1>3, <1>4 DEF BInv, BufKept

LEMMA CollectBInv ==
  ASSUME BufKept, touched = {}, NEW k \in Blocks, Buf!CollectBlock(k)
  PROVE  BInv'
<1>1. /\ k # 0 /\ k # pool.blk /\ mem' = [mem EXCEPT ![k] = -1]
      /\ bufs' = bufs /\ pool' = pool /\ touched' = {}
      /\ \A b \in Buf!Held : bufs[b].parent # k
  BY DEF Buf!CollectBlock, Buf!Replace, Buf!Unallocated
<1>2. Buf!Held' = Buf!Held
  BY <1>1 DEF Buf!Held
<1>3. \A j \in Blocks \ {k} : mem'[j] = mem[j]
  BY <1>1, MemFacts
<1>4. BufferTypes' /\ mem'[pool'.blk] # -1
  BY <1>1, <1>3, MemFacts DEF BufferTypes, BufKept
<1>5. ASSUME NEW c \in Buf!Held PROVE ViewKept(bufs[c])'
  <2>1. bufs[c].parent \in Blocks \ {k} /\ ViewKept(bufs[c])
    BY <1>1, HeldKept DEF Views
  <2> QED
    BY <1>1, <1>3, <2>1 DEF ViewKept, Buf!Inside
<1>6. ViewsKept'
  BY <1>1, <1>2, <1>5 DEF BufKept, ViewsKept, FromPool, CutBefore
<1> QED
  BY <1>1, <1>4, <1>6 DEF BInv, BufKept

LEMMA NextBInv == ASSUME BInv, [Buf!Next]_buffersVars PROVE BInv'
<1>1. BufKept /\ \A t \in touched : Within(t)
  BY DEF BInv
<1>2. CASE UNCHANGED buffersVars
  BY <1>1, <1>2, BufStands DEF buffersVars
<1>3. CASE Buf!Return
  <2>1. mem' = mem /\ pool' = pool /\ bufs' = bufs /\ touched' = {}
    BY <1>3 DEF Buf!Return
  <2> QED
    BY <1>1, <2>1, BufStands
<1>4. CASE touched = {} /\ Buf!Call
  <2>1. ASSUME NEW b \in Bufs, NEW n \in Lengths, NEW short \in {0, 1}, n >= short,
               Buf!NewBuffer(b, n, n - short, TRUE)
        PROVE  BInv'
    <3>1. n \in 0..(U32 - 1) /\ n - short \in 0..n
      BY <2>1, BuffersAssumption
    <3> QED
      BY <1>1, <2>1, <3>1, NewBufferBInv
  <2>2. ASSUME NEW b \in Bufs, NEW n \in Lengths, Buf!NewBuffer(b, n, n, FALSE)
        PROVE  BInv'
    <3>1. n \in 0..(U32 - 1) /\ n \in 0..n
      BY BuffersAssumption
    <3> QED
      BY <1>1, <2>2, <3>1, NewBufferBInv
  <2>3. ASSUME NEW b \in Bufs, NEW n \in Lengths, Buf!NewExternal(b, n)
        PROVE  BInv'
    <3>1. n \in 0..(U32 - 1)
      BY BuffersAssumption
    <3> QED
      BY <1>1, <1>4, <2>3, <3>1, NewExternalBInv
  <2>4. ASSUME NEW b \in Bufs, NEW s \in Bufs, Buf!NewBufferOf(b, s) PROVE BInv'
    BY <1>1, <2>4, NewBufferOfBInv
  <2>5. ASSUME NEW b \in Bufs, NEW s \in Bufs, NEW i \in Buf!Ints, NEW j \in Buf!Ints, Buf!Slice(b, s, i, j)
        PROVE  BInv'
    <3>1. i \in Int /\ j \in Int
      BY BuffersAssumption DEF Buf!Ints
    <3> QED
      BY <1>1, <1>4, <2>5, <3>1, SliceBInv
  <2>6. ASSUME NEW b \in Bufs, NEW i \in Buf!Ints, NEW j \in Buf!Ints, NEW n \in Args, Buf!Use(b, i, j, n)
        PROVE  BInv'
    <3>1. i \in Int /\ j \in Int /\ n \in Nat
      BY BuffersAssumption DEF Buf!Ints
    <3> QED
      BY <1>1, <2>6, <3>1, UseBInv
  <2>7. ASSUME NEW b \in Bufs, NEW i \in Buf!Ints, NEW j \in Buf!Ints, NEW n \in Args, Buf!UseSlow(b, i, j, n)
        PROVE  BInv'
    BY <1>1, <2>7, UseSlowBInv
  <2>8. ASSUME NEW b \in Bufs, Buf!Drop(b) PROVE BInv'
    BY <1>1, <1>4, <2>8, DropBInv
  <2>9. ASSUME NEW k \in Blocks, Buf!CollectBlock(k) PROVE BInv'
    BY <1>1, <1>4, <2>9, CollectBInv
  <2> QED
    BY <1>4, <2>1, <2>2, <2>3, <2>4, <2>5, <2>6, <2>7, <2>8, <2>9, Zenon DEF Buf!Call
<1> QED
  BY <1>2, <1>3, <1>4 DEF Buf!Next

LEMMA ViewsKeptApart == BInv => Buf!ViewsApart
<1> SUFFICES ASSUME BInv PROVE Buf!ViewsApart
  OBVIOUS
<1>1. BufKept /\ \A t \in touched : Within(t)
  BY DEF BInv
<1>2. ASSUME NEW b \in Buf!Held, NEW c \in Buf!Held, bufs[b].kin # bufs[c].kin
      PROVE  \/ bufs[b].parent # bufs[c].parent
             \/ bufs[b].off + bufs[b].len <= bufs[c].off
             \/ bufs[c].off + bufs[c].len <= bufs[b].off
  <2>1. /\ bufs[b] \in Views /\ ViewKept(bufs[b]) /\ bufs[c] \in Views /\ ViewKept(bufs[c])
    BY <1>1, HeldKept
  <2>2. CutBefore(bufs[b], bufs[c]) /\ CutBefore(bufs[c], bufs[b])
    BY <1>1 DEF BufKept, ViewsKept
  <2>3. /\ bufs[b].kin \in Blocks \X Nat /\ bufs[c].kin \in Blocks \X Nat
        /\ bufs[b].off \in Nat /\ bufs[b].len \in Nat /\ bufs[c].off \in Nat /\ bufs[c].len \in Nat
    BY <2>1 DEF Views
  <2>4. bufs[b].kin[1] # bufs[c].kin[1] \/ bufs[b].kin[2] # bufs[c].kin[2]
    BY <1>2, <2>3
  <2>5. bufs[b].kin[2] \in Nat /\ bufs[c].kin[2] \in Nat
    BY <2>3
  <2> QED
    BY <2>1, <2>2, <2>3, <2>4, <2>5 DEF ViewKept, CutBefore
<1>3. \A b \in Buf!Held : Buf!Inside(bufs[b])
  BY <1>1, HeldKept DEF ViewKept
<1> QED
  BY <1>1, <1>2, <1>3 DEF Buf!ViewsApart, Within
=============================================================================
