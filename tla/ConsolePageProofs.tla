------------------------- MODULE ConsolePageProofs -------------------------
(***************************************************************************)
(* Proofs about ConsolePage for any descriptors of pages, any number of    *)
(* rows and of requests under way: PageInv is inductive, and a draft is    *)
(* stored again only after a doubt; with it ListInv is inductive, and a    *)
(* list at rest shows what the user was told is done.                      *)
(***************************************************************************)
EXTENDS ConsolePage, FiniteSetTheorems, WellFoundedInduction, TLAPS

USE PageAssumption

(* The first free slot is a free slot.                                     *)
LEMMA SlotIsIn ==
  ASSUME NEW S \in SUBSET Nat, S # {}
  PROVE  Slot(S) \in S
<1>1. \E i \in S : \A j \in S : ~(<<j, i>> \in OpToRel(<, Nat))
  BY NatLessThanWellFounded, WFMin
<1>2. \E i \in S : \A j \in S : i <= j
  <2>1. OpToRel(<, Nat) = {p \in Nat \X Nat : p[1] < p[2]}
    BY DEF OpToRel
  <2>2. PICK i \in S : \A j \in S : ~(<<j, i>> \in OpToRel(<, Nat))
    BY <1>1
  <2>3. ASSUME NEW j \in S PROVE i <= j
    <3>1. <<j, i>> \in Nat \X Nat /\ <<j, i>>[1] = j /\ <<j, i>>[2] = i
      OBVIOUS
    <3>2. ~(<<j, i>>[1] < <<j, i>>[2])
      BY <2>1, <2>2, <3>1
    <3>3. i \in Nat /\ j \in Nat
      OBVIOUS
    <3> QED
      BY <3>1, <3>2, <3>3
  <2> QED
    BY <2>3
<1> QED
  BY <1>2 DEF Slot

(* The descriptor of the page is one.                                      *)
LEMMA PageDescribed ==
  ASSUME page \in DOMAIN Page
  PROVE  /\ None \notin Op
         /\ \A o \in Op : Does(o) \in HandlerType /\ Offers(o) \in ControlType
         /\ LoadOf \in LoadType
         /\ \A o, p \in Creating : o = p
         /\ Creating = {o \in Op : Does(o).effect \in {"create", "save"}}
<1>1. IsPage(Page[page])
  BY DEF PageAssumption
<1>2. Creating = {o \in Op : Does(o).effect \in {"create", "save"}}
  BY DEF Creating, Creates, Op, Does
<1> QED
  BY <1>1, <1>2 DEF IsPage, Op, Does, Offers, LoadOf, Creating

LEMMA InFinite ==
  /\ IsFiniteSet(Loads) /\ IsFiniteSet(Calls)
  /\ \A S \in SUBSET Loads : IsFiniteSet(S) /\ Cardinality(S) \in Nat
  /\ \A S \in SUBSET Calls : IsFiniteSet(S) /\ Cardinality(S) \in Nat
<1>1. IsFiniteSet(Loads) /\ IsFiniteSet(Calls)
  BY FS_Interval DEF Loads, Calls
<1> QED
  BY <1>1, FS_Subset, FS_CardinalityType

LEMMA Bounds ==
  /\ IdleLoads \in SUBSET Loads /\ Waiting \in SUBSET Calls
  /\ IsFiniteSet(IdleLoads) /\ Cardinality(IdleLoads) \in Nat
  /\ IsFiniteSet(Waiting) /\ Cardinality(Waiting) \in Nat
  /\ IsFiniteSet(IdleLoads') /\ Cardinality(IdleLoads') \in Nat
  /\ IsFiniteSet(Waiting') /\ Cardinality(Waiting') \in Nat
<1>1. /\ IdleLoads \in SUBSET Loads /\ Waiting \in SUBSET Calls
      /\ IdleLoads' \in SUBSET Loads /\ Waiting' \in SUBSET Calls
  BY DEF IdleLoads, Waiting, Loads, Calls
<1> QED
  BY <1>1, InFinite

(* Where there is room for n loads there are n free slots at least.        *)
LEMMA RoomIsFree ==
  ASSUME NEW n \in Nat \ {0}, Room(n)
  PROVE  IdleLoads # {}
<1>1. Cardinality(IdleLoads) >= 1
  BY Bounds DEF Room
<1> QED
  BY <1>1, FS_EmptySet
-----------------------------------------------------------------------------
(* The loads                                                               *)

LoadsSound == /\ load \in [Loads -> LoadState] /\ view \in ViewState
              /\ \A l \in Loads : load[l] = NoLoad \/ load[l].may # {}

LEMMA LoadTypes ==
  ASSUME PageInv
  PROVE  /\ LoadsSound /\ Top \in Query /\ Blank \in [Row -> Nat]
         /\ NoLoad \in LoadState /\ IdleLoads \subseteq Nat
         /\ \A q \in Query, o \in Op \cup {None} :
              Asked(q, o) \in LoadState /\ Asked(q, o) # NoLoad
<1>1. Top \in Query /\ Blank \in [Row -> Nat]
  BY DEF Top, Query, Blank
<1>2. NoLoad \in LoadState
  BY <1>1 DEF NoLoad, LoadState
<1>3. ASSUME NEW q \in Query, NEW o \in Op \cup {None}
      PROVE  Asked(q, o) \in LoadState /\ Asked(q, o) # NoLoad
  <2>1. {stamp} \in SUBSET [Row -> Nat]
    BY DEF PageInv, PageTypeOK
  <2> QED
    BY <2>1 DEF Asked, LoadState, NoLoad
<1>4. LoadsSound
  BY DEF PageInv, PageTypeOK, LoadsSound
<1>5. IdleLoads \subseteq Nat
  BY DEF IdleLoads, Loads
<1> QED
  BY <1>1, <1>2, <1>3, <1>4, <1>5

(* A free slot is taken by the new load of that owner.                     *)
LEMMA Started ==
  ASSUME PageInv, NEW q \in Query, NEW o \in Op \cup {None},
         StartLoad(q, o), IdleLoads # {}, UNCHANGED page
  PROVE  \E l \in IdleLoads :
           /\ LoadsSound' /\ IdleLoads' = IdleLoads \ {l}
           /\ load'[l] = Asked(q, o) /\ load'[l].owner = o
           /\ \A k \in Loads \ {l} : load'[k] = load[k]
<1> DEFINE l == Slot(IdleLoads)
<1>1. l \in IdleLoads /\ l \in Loads
  BY SlotIsIn, LoadTypes DEF IdleLoads
<1>2. load' = [load EXCEPT ![l] = Asked(q, o)]
  BY DEF StartLoad
<1> HIDE DEF l
<1>3. /\ load' \in [Loads -> LoadState] /\ load'[l] = Asked(q, o)
      /\ \A k \in Loads \ {l} : load'[k] = load[k]
      /\ \A k \in Loads : load'[k] = NoLoad \/ load'[k].may # {}
  <2>1. load' \in [Loads -> LoadState] /\ load'[l] = Asked(q, o)
    BY <1>1, <1>2, LoadTypes DEF LoadsSound
  <2>2. \A k \in Loads \ {l} : load'[k] = load[k]
    BY <1>2, LoadTypes DEF LoadsSound
  <2>3. Asked(q, o).may # {}
    BY DEF Asked
  <2> QED
    BY <2>1, <2>2, <2>3, LoadTypes DEF LoadsSound
<1>4. view' \in ViewState
  <2>1. view' = [view EXCEPT !.error = @ /\ ~LoadOf.clears,
                             !.shows = IF LoadOf.blanks THEN Blank ELSE @]
    BY DEF StartLoad
  <2>2. (view.error /\ ~LoadOf.clears) \in BOOLEAN
    OBVIOUS
  <2>3. (IF LoadOf.blanks THEN Blank ELSE view.shows) \in [Row -> Nat]
    BY LoadTypes DEF LoadsSound, ViewState
  <2> QED
    BY <2>1, <2>2, <2>3, LoadTypes DEF LoadsSound, ViewState
<1>5. IdleLoads' = IdleLoads \ {l}
  BY <1>3, LoadTypes DEF IdleLoads
<1>6. load'[l].owner = o
  BY <1>3 DEF Asked
<1>7. LoadsSound'
  BY <1>3, <1>4 DEF LoadsSound, LoadState, ViewState, Query, Op, NoLoad, Top
<1> QED
  BY <1>1, <1>3, <1>5, <1>6, <1>7

(* A load ends.                                                            *)
LEMMA Ended ==
  ASSUME PageInv, NEW l \in Loads, load' = [load EXCEPT ![l] = NoLoad],
         view' \in ViewState, UNCHANGED page
  PROVE  /\ LoadsSound' /\ IdleLoads' = IdleLoads \cup {l} /\ load'[l] = NoLoad
         /\ \A k \in Loads \ {l} : load'[k] = load[k]
<1>1. /\ load' \in [Loads -> LoadState] /\ load'[l] = NoLoad
      /\ \A k \in Loads \ {l} : load'[k] = load[k]
  BY LoadTypes DEF LoadsSound
<1>2. LoadsSound'
  BY <1>1, LoadTypes DEF LoadsSound, LoadState, ViewState, Query, Op, NoLoad, Top
<1> QED
  BY <1>1, <1>2 DEF IdleLoads

(* What a write adds to the answers to come leaves the rest of the loads.  *)
LEMMA Widened ==
  ASSUME PageInv, Seen, stamp' \in [Row -> Nat], UNCHANGED <<page, view>>
  PROVE  /\ LoadsSound' /\ IdleLoads' = IdleLoads
         /\ \A l \in Loads : load'[l].owner = load[l].owner
<1>1. ASSUME NEW l \in IdleLoads PROVE load'[l] = NoLoad /\ load[l] = NoLoad
  BY DEF Seen, IdleLoads
<1>2. ASSUME NEW l \in Loads \ IdleLoads
      PROVE  /\ load'[l] \in LoadState /\ load'[l].owner = load[l].owner
             /\ load'[l].may # {}
  <2>1. load[l] \in LoadState
    BY LoadTypes DEF LoadsSound
  <2>2. load'[l] = [load[l] EXCEPT !.may = @ \cup {stamp'}]
    BY DEF Seen
  <2> QED
    BY <2>1, <2>2 DEF LoadState
<1>3. load' \in [Loads -> LoadState]
  <2>1. \A l \in Loads : load'[l] \in LoadState
    BY <1>1, <1>2, LoadTypes
  <2> QED
    BY <2>1 DEF Seen
<1>4. LoadsSound'
  BY <1>1, <1>2, <1>3, LoadTypes
  DEF LoadsSound, LoadState, ViewState, Query, Op, NoLoad, Top
<1>5. NoLoad.may = {}
  BY DEF NoLoad
<1>6. IdleLoads' = IdleLoads
  BY <1>1, <1>2, <1>5 DEF IdleLoads, NoLoad, Top
<1> QED
  BY <1>1, <1>2, <1>4, <1>6

LEMMA LoadsKept ==
  ASSUME PageInv, UNCHANGED <<page, load>>, view' \in ViewState
  PROVE  LoadsSound' /\ IdleLoads' = IdleLoads
BY LoadTypes DEF LoadsSound, LoadState, ViewState, Query, Op, NoLoad, Top, IdleLoads
-----------------------------------------------------------------------------
(* The other requests                                                      *)

CallsSound == call \in [Calls -> CallState] /\ \A c \in Calls : CallSound(c)

(* What of a request matters: all but whether its form is still open.      *)
Alike(d) ==
  /\ call'[d] \in CallState
  /\ call'[d].step = call[d].step /\ call'[d].op = call[d].op
  /\ call'[d].row = call[d].row /\ call'[d].stamp = call[d].stamp
  /\ call'[d].new = call[d].new /\ call'[d].waits = call[d].waits
  /\ call[d] = NoCall => call'[d] = NoCall

LEMMA CallTyped ==
  ASSUME PageInv
  PROVE  /\ call \in [Calls -> CallState] /\ NoCall \in CallState
         /\ \A c \in Calls : call[c] \in CallState
         /\ \A c \in Calls : CallSound(c)
<1>1. NoCall \in CallState
  BY LoadTypes DEF NoCall, CallState
<1>2. call \in [Calls -> CallState] /\ \A c \in Calls : CallSound(c)
  BY DEF PageInv, PageTypeOK
<1> QED
  BY <1>1, <1>2

LEMMA CallFacts ==
  ASSUME PageInv, NEW c \in Calls
  PROVE  /\ call[c].waits => call[c].op \in Op /\ call[c].row \in Row
         /\ call[c].step = "idle" <=> call[c] = NoCall
         /\ call[c].step # "idle" => call[c].op \in Op /\ call[c].row \in Row
<1>1. NoCall.step = "idle" /\ NoCall.waits = FALSE
  BY DEF NoCall
<1> QED
  BY <1>1, CallTyped DEF CallSound

LEMMA AlikeSound ==
  ASSUME PageInv, UNCHANGED page, NEW d \in Calls, Alike(d)
  PROVE  call'[d] \in CallState /\ CallSound(d)' /\ call'[d] \in CallState'
<1>1. CallState' = CallState
  BY DEF CallState, Op, Query
<1>2. CallSound(d)
  BY CallTyped
<1>3. Op' = Op /\ Creating' = Creating /\ NoCall' = NoCall
  BY DEF Op, Creating, NoCall, Top
<1>4. Does(call[d].op)' = Page[page].does[call'[d].op]
  BY DEF Does
<1>5. CallSound(d)'
  BY <1>2, <1>3, <1>4 DEF Alike, CallSound, Does
<1> QED
  BY <1>1, <1>5 DEF Alike

(* A form that is closed orphans flags and nothing else.                   *)
LEMMA OrphanedAlike ==
  ASSUME PageInv, NEW o, NEW d \in Calls
  PROVE  /\ Orphaned(o)[d] \in CallState
         /\ Orphaned(o)[d].step = call[d].step /\ Orphaned(o)[d].op = call[d].op
         /\ Orphaned(o)[d].row = call[d].row /\ Orphaned(o)[d].stamp = call[d].stamp
         /\ Orphaned(o)[d].new = call[d].new /\ Orphaned(o)[d].waits = call[d].waits
         /\ call[d] = NoCall => Orphaned(o)[d] = NoCall
<1>1. Orphaned(o)[d] = [call[d] EXCEPT !.form = @ /\ call[d].op # o]
  BY DEF Orphaned
<1>2. call[d] \in CallState
  BY CallTyped
<1>3. (call[d].form /\ call[d].op # o) \in BOOLEAN
  OBVIOUS
<1>4. Orphaned(o)[d] \in CallState
  BY <1>1, <1>2, <1>3 DEF CallState
<1>5. /\ Orphaned(o)[d].step = call[d].step /\ Orphaned(o)[d].op = call[d].op
      /\ Orphaned(o)[d].row = call[d].row /\ Orphaned(o)[d].stamp = call[d].stamp
      /\ Orphaned(o)[d].new = call[d].new /\ Orphaned(o)[d].waits = call[d].waits
  BY <1>1, <1>2 DEF CallState
<1>6. call[d] = NoCall => Orphaned(o)[d] = NoCall
  <2> SUFFICES ASSUME call[d] = NoCall PROVE Orphaned(o)[d] = NoCall
    OBVIOUS
  <2>1. call[d].form = FALSE
    BY DEF NoCall
  <2>2. (call[d].form /\ call[d].op # o) = FALSE
    BY <2>1
  <2> QED
    BY <1>1, <1>2, <2>1, <2>2 DEF CallState
<1> QED
  BY <1>4, <1>5, <1>6

(* When one request changes and the others stay alike, so does what is     *)
(* counted of them.                                                        *)
LEMMA OthersAlike ==
  ASSUME PageInv, UNCHANGED page, NEW c \in Calls,
         \A d \in Calls \ {c} : Alike(d)
  PROVE  /\ Waiting' \ {c} = Waiting \ {c}
         /\ \A o : CallsFor(o)' \ {c} = CallsFor(o) \ {c}
         /\ \A r : Storing(r)' \ {c} = Storing(r) \ {c}
<1>1. Waiting' \ {c} = Waiting \ {c}
  BY DEF Waiting, Alike
<1>2. ASSUME NEW o PROVE CallsFor(o)' \ {c} = CallsFor(o) \ {c}
  BY DEF CallsFor, Waiting, Alike
<1>3. ASSUME NEW r PROVE Storing(r)' \ {c} = Storing(r) \ {c}
  BY DEF Storing, Alike
<1> QED
  BY <1>1, <1>2, <1>3

LEMMA AllAlike ==
  ASSUME PageInv, UNCHANGED page, \A d \in Calls : Alike(d),
         call' \in [Calls -> CallState]
  PROVE  /\ CallsSound' /\ Waiting' = Waiting
         /\ \A o : CallsFor(o)' = CallsFor(o)
         /\ \A r : Storing(r)' = Storing(r) /\ (AwaitsNew(r)' <=> AwaitsNew(r))
<1>1. CallsSound'
  BY AlikeSound DEF CallsSound, CallState, Op, Query
<1>2. Waiting' = Waiting
  BY DEF Waiting, Alike
<1>3. ASSUME NEW o PROVE CallsFor(o)' = CallsFor(o)
  BY DEF CallsFor, Waiting, Alike
<1>4. ASSUME NEW r PROVE Storing(r)' = Storing(r)
  BY DEF Storing, Alike
<1>5. ASSUME NEW r PROVE AwaitsNew(r)' <=> AwaitsNew(r)
  BY DEF AwaitsNew, Waiting, Alike
<1> QED
  BY <1>1, <1>2, <1>3, <1>4, <1>5

(* One request ends or is sent; the others stay alike.                     *)
LEMMA OneCallSound ==
  ASSUME PageInv, UNCHANGED page, NEW c \in Calls,
         call' \in [Calls -> CallState], \A d \in Calls \ {c} : Alike(d),
         CallSound(c)'
  PROVE  CallsSound'
<1>1. \A d \in Calls \ {c} : CallSound(d)'
  BY AlikeSound
<1> QED
  BY <1>1 DEF CallsSound, CallState, Op, Query

LEMMA NoCallSound ==
  ASSUME NEW c \in Calls, call'[c] = NoCall
  PROVE  /\ CallSound(c)' /\ c \notin Waiting'
         /\ \A o : c \notin CallsFor(o)'
         /\ \A r : c \notin Storing(r)'
BY DEF CallSound, NoCall, Waiting, CallsFor, Storing
-----------------------------------------------------------------------------
(* The invariant by parts                                                  *)

Rest ==
  /\ page \in DOMAIN Page
  /\ stamp \in [Row -> Nat] /\ clock \in Nat
  /\ made \in [Row -> Nat] /\ told \in [Row -> Nat] /\ query \in Query
  /\ open \in [op: Op \cup {None}, row: Row \cup {None}]
  /\ busy \in [Op -> Row \cup {None}]
  /\ crossed \in BOOLEAN /\ doubts \in [Row -> Nat]
  /\ events \in 0..MaxEvents
RoomLeft == Cardinality(Waiting) <= Cardinality(IdleLoads)
Flags    == \A o \in Op : Guarded(o) => FlagAgrees(o)
Doubts   == (\A o \in Creating : Guarded(o)) => \A r \in Row : SentOnceADoubt(r)

LEMMA ByParts ==
  /\ PageInv <=> Rest /\ LoadsSound /\ CallsSound /\ RoomLeft /\ Flags /\ Doubts
  /\ (PageInv <=> Rest /\ LoadsSound /\ CallsSound /\ RoomLeft /\ Flags /\ Doubts)'
<1>1. PageInv <=> Rest /\ LoadsSound /\ CallsSound /\ RoomLeft /\ Flags /\ Doubts
  BY DEF PageInv, PageTypeOK, Rest, LoadsSound, CallsSound, RoomLeft, Flags, Doubts
<1>2. (PageInv <=> Rest /\ LoadsSound /\ CallsSound /\ RoomLeft /\ Flags /\ Doubts)'
  BY DEF PageInv, PageTypeOK, Rest, LoadsSound, CallsSound, RoomLeft, Flags, Doubts
<1> QED
  BY <1>1, <1>2

LEMMA FlagKept ==
  ASSUME NEW o, FlagAgrees(o), busy'[o] = busy[o],
         CallsFor(o)' = CallsFor(o), LoadsFor(o)' = LoadsFor(o)
  PROVE  FlagAgrees(o)'
BY DEF FlagAgrees

LEMMA SamePage ==
  ASSUME UNCHANGED page
  PROVE  /\ Op' = Op /\ Creating' = Creating /\ \A o : Guarded(o)' <=> Guarded(o)
         /\ \A o : Does(o)' = Does(o)
BY DEF Op, Creating, Guarded, Does, Offers

LEMMA DoubtsKept ==
  ASSUME PageInv, UNCHANGED <<page, made, told, doubts>>,
         \A r \in Row : Storing(r)' = Storing(r) /\ (AwaitsNew(r) => AwaitsNew(r)')
  PROVE  Doubts'
<1> SUFFICES ASSUME Doubts, NEW r \in Row, SentOnceADoubt(r)
             PROVE  SentOnceADoubt(r)'
  BY ByParts, SamePage DEF Doubts
<1>1. /\ made[r] \in Nat /\ doubts[r] \in Nat
      /\ Cardinality(Storing(r)) \in Nat
  BY ByParts, InFinite DEF Rest, Storing
<1> QED
  BY <1>1 DEF SentOnceADoubt

(* A load that starts: for the effect (None) or for an operation.          *)
LEMMA StartedFor ==
  ASSUME PageInv, NEW q \in Query, NEW o \in Op \cup {None},
         StartLoad(q, o), IdleLoads # {}, UNCHANGED page
  PROVE  /\ LoadsSound'
         /\ Cardinality(IdleLoads') = Cardinality(IdleLoads) - 1
         /\ \A p \in Op : p # o => LoadsFor(p)' = LoadsFor(p)
         /\ o # None => \E l \in Loads : LoadsFor(o)' = LoadsFor(o) \cup {l}
<1>1. PICK l \in IdleLoads :
        /\ LoadsSound' /\ IdleLoads' = IdleLoads \ {l} /\ load'[l].owner = o
        /\ \A k \in Loads \ {l} : load'[k] = load[k]
  BY Started
<1>2. l \in Loads /\ load[l].owner = None
  BY DEF IdleLoads, NoLoad
<1>3. Cardinality(IdleLoads') = Cardinality(IdleLoads) - 1
  BY <1>1, Bounds, FS_RemoveElement
<1>4. None \notin Op
  BY PageDescribed DEF PageInv, PageTypeOK
<1>5. ASSUME NEW p \in Op, p # o PROVE LoadsFor(p)' = LoadsFor(p)
  BY <1>1, <1>2, <1>4, <1>5 DEF LoadsFor
<1>6. o # None => LoadsFor(o)' = LoadsFor(o) \cup {l}
  BY <1>1, <1>2 DEF LoadsFor
<1> QED
  BY <1>1, <1>2, <1>3, <1>5, <1>6

LEMMA EndedFor ==
  ASSUME PageInv, NEW l \in Loads \ IdleLoads, load' = [load EXCEPT ![l] = NoLoad],
         view' \in ViewState, UNCHANGED page
  PROVE  /\ LoadsSound'
         /\ Cardinality(IdleLoads') = Cardinality(IdleLoads) + 1
         /\ \A p \in Op : LoadsFor(p)' = LoadsFor(p) \ {l}
<1>1. /\ LoadsSound' /\ IdleLoads' = IdleLoads \cup {l} /\ load'[l] = NoLoad
      /\ \A k \in Loads \ {l} : load'[k] = load[k]
  BY Ended
<1>2. Cardinality(IdleLoads') = Cardinality(IdleLoads) + 1
  BY <1>1, Bounds, FS_AddElement
<1>3. None \notin Op /\ NoLoad.owner = None
  BY PageDescribed DEF PageInv, PageTypeOK, NoLoad
<1>4. ASSUME NEW p \in Op PROVE LoadsFor(p)' = LoadsFor(p) \ {l}
  BY <1>1, <1>3 DEF LoadsFor
<1> QED
  BY <1>1, <1>2, <1>4

-----------------------------------------------------------------------------
(* Loads that start and end                                                *)

SameCalls == UNCHANGED <<page, stamp, clock, made, told, call, open, busy, doubts>>

LEMMA CallsKept ==
  ASSUME PageInv, UNCHANGED <<page, call>>
  PROVE  /\ CallsSound' /\ Waiting' = Waiting
         /\ \A o : CallsFor(o)' = CallsFor(o)
         /\ \A r : Storing(r)' = Storing(r) /\ (AwaitsNew(r)' <=> AwaitsNew(r))
<1>1. \A d \in Calls : Alike(d)
  BY CallTyped DEF Alike
<1> QED
  BY <1>1, AllAlike, CallTyped

LEMMA EventTyped ==
  ASSUME PageInv, Event
  PROVE  events' \in 0..MaxEvents
BY DEF Event, PageInv, PageTypeOK

LEMMA EffectLoads ==
  ASSUME PageInv, SameCalls, Room(1), NEW q \in Query, StartLoad(q, None),
         query' \in Query, crossed' \in BOOLEAN, events' \in 0..MaxEvents
  PROVE  PageInv'
<1>1. IdleLoads # {}
  BY RoomIsFree
<1>2. /\ LoadsSound' /\ Cardinality(IdleLoads') = Cardinality(IdleLoads) - 1
      /\ \A p \in Op : LoadsFor(p)' = LoadsFor(p)
  BY <1>1, StartedFor, PageDescribed DEF SameCalls, PageInv, PageTypeOK
<1>3. /\ CallsSound' /\ Waiting' = Waiting
      /\ \A o : CallsFor(o)' = CallsFor(o)
      /\ \A r : Storing(r)' = Storing(r) /\ (AwaitsNew(r)' <=> AwaitsNew(r))
  BY CallsKept DEF SameCalls
<1>4. RoomLeft'
  BY <1>2, <1>3, Bounds DEF RoomLeft, Room
<1>5. Flags'
  BY <1>2, <1>3, ByParts, FlagKept, SamePage DEF Flags, SameCalls
<1>6. Doubts'
  BY <1>3, DoubtsKept DEF SameCalls
<1>7. Rest'
  BY ByParts, SamePage DEF Rest, SameCalls, Query
<1> QED
  BY <1>2, <1>3, <1>4, <1>5, <1>6, <1>7, ByParts

LEMMA TurnStep ==
  ASSUME PageInv, NEW n \in 1..2, TurnPage(n) \/ Refilter(n) \/ Renew
  PROVE  PageInv'
<1>1. SameCalls /\ Room(1) /\ StartLoad(query', None)
  BY DEF TurnPage, Refilter, Renew, SameCalls, server
<1>2. query' \in Query
  BY ByParts DEF TurnPage, Refilter, Renew, Rest, Query
<1>3. (crossed \/ ~Quiet) \in BOOLEAN /\ (crossed \/ IdleLoads # Loads) \in BOOLEAN
  OBVIOUS
<1>4. crossed' \in BOOLEAN
  BY <1>3 DEF TurnPage, Refilter, Renew
<1>5. events' \in 0..MaxEvents
  BY EventTyped DEF TurnPage, Refilter, Renew
<1>6. PICK q : q = query'
  OBVIOUS
<1> QED
  BY <1>1, <1>2, <1>4, <1>5, <1>6, EffectLoads

(* The new filter is loaded twice: two free slots are taken.               *)
LEMMA TwoLoads ==
  ASSUME PageInv, NEW f \in 1..2, RefilterTwice(f)
  PROVE  /\ LoadsSound'
         /\ Cardinality(IdleLoads') = Cardinality(IdleLoads) - 2
         /\ \A p \in Op : LoadsFor(p)' = LoadsFor(p)
<1> DEFINE l == Slot(IdleLoads)
           k == Slot(IdleLoads \ {l})
           q == [query EXCEPT !.filter = f]
<1>1. IdleLoads # {} /\ Cardinality(IdleLoads) >= 2
  BY RoomIsFree, Bounds DEF RefilterTwice, Room
<1>2. l \in IdleLoads
  BY <1>1, SlotIsIn, LoadTypes
<1>3. Cardinality(IdleLoads \ {l}) = Cardinality(IdleLoads) - 1
  BY <1>2, Bounds, FS_RemoveElement
<1>4. k \in IdleLoads \ {l}
  <2>1. Cardinality(IdleLoads \ {l}) # 0
    BY <1>1, <1>3, Bounds
  <2>2. IdleLoads \ {l} # {}
    BY <2>1, FS_EmptySet
  <2> QED
    BY <2>2, SlotIsIn, LoadTypes
<1>6. load' = [load EXCEPT ![l] = Asked(q, None), ![k] = Asked(query', None)]
  BY DEF RefilterTwice
<1>7. q \in Query /\ query' \in Query
  BY DEF RefilterTwice, PageInv, PageTypeOK, Query
<1> HIDE DEF l, k, q
<1>5. Cardinality((IdleLoads \ {l}) \ {k}) = Cardinality(IdleLoads) - 2
  <2>1. IsFiniteSet(IdleLoads \ {l})
    BY Bounds, FS_Subset
  <2>2. Cardinality((IdleLoads \ {l}) \ {k}) = Cardinality(IdleLoads \ {l}) - 1
    BY <1>4, <2>1, FS_RemoveElement
  <2> QED
    BY <1>3, <2>2, Bounds
<1>8. l \in Loads /\ k \in Loads /\ l # k
  BY <1>2, <1>4 DEF IdleLoads
<1>9. PICK b \in Query : b = query'
  BY <1>7
<1>10. Asked(q, None) \in LoadState /\ Asked(b, None) \in LoadState
  BY <1>7, LoadTypes
<1>11. /\ load' \in [Loads -> LoadState]
       /\ load'[l] = Asked(q, None) /\ load'[k] = Asked(b, None)
       /\ \A i \in Loads : i # l /\ i # k => load'[i] = load[i]
  BY <1>6, <1>8, <1>9, <1>10, LoadTypes DEF LoadsSound
<1>12. /\ Asked(q, None).may # {} /\ Asked(b, None).may # {}
       /\ Asked(q, None).owner = None /\ Asked(b, None).owner = None
       /\ Asked(q, None) # NoLoad /\ Asked(b, None) # NoLoad
  BY DEF Asked, NoLoad
<1>13. view' \in ViewState
  <2>1. view' = [view EXCEPT !.error = @ /\ ~LoadOf.clears,
                             !.shows = IF LoadOf.blanks THEN Blank ELSE @]
    BY DEF RefilterTwice
  <2>2. (view.error /\ ~LoadOf.clears) \in BOOLEAN
    OBVIOUS
  <2>3. (IF LoadOf.blanks THEN Blank ELSE view.shows) \in [Row -> Nat]
    BY LoadTypes DEF LoadsSound, ViewState
  <2> QED
    BY <2>1, <2>2, <2>3, LoadTypes DEF LoadsSound, ViewState
<1>14. page' = page
  BY DEF RefilterTwice
<1>15. LoadsSound'
  <2>1. \A i \in Loads : load'[i] = NoLoad \/ load'[i].may # {}
    BY <1>8, <1>11, <1>12, LoadTypes DEF LoadsSound
  <2> QED
    BY <2>1, <1>11, <1>13, <1>14
    DEF LoadsSound, LoadState, ViewState, Query, Op, NoLoad, Top
<1>16. IdleLoads' = (IdleLoads \ {l}) \ {k}
  <2>1. NoLoad' = NoLoad /\ Loads' = Loads
    BY DEF NoLoad, Top, Loads
  <2> QED
    BY <2>1, <1>8, <1>11, <1>12 DEF IdleLoads
<1>17. None \notin Op
  BY PageDescribed DEF PageInv, PageTypeOK
<1>18. ASSUME NEW p \in Op PROVE LoadsFor(p)' = LoadsFor(p)
  <2>1. load[l].owner = None /\ load[k].owner = None
    BY <1>2, <1>4 DEF IdleLoads, NoLoad
  <2> QED
    BY <2>1, <1>8, <1>11, <1>12, <1>17 DEF LoadsFor, Loads
<1> QED
  BY <1>5, <1>15, <1>16, <1>18

LEMMA RefilterStep ==
  ASSUME PageInv, NEW n \in 1..2, RefilterTwice(n)
  PROVE  PageInv'
<1>1. SameCalls /\ Room(2)
  BY DEF RefilterTwice, SameCalls, server
<1>2. /\ LoadsSound' /\ Cardinality(IdleLoads') = Cardinality(IdleLoads) - 2
      /\ \A p \in Op : LoadsFor(p)' = LoadsFor(p)
  BY TwoLoads
<1>3. /\ CallsSound' /\ Waiting' = Waiting
      /\ \A o : CallsFor(o)' = CallsFor(o)
      /\ \A r : Storing(r)' = Storing(r) /\ (AwaitsNew(r)' <=> AwaitsNew(r))
  BY <1>1, CallsKept DEF SameCalls
<1>4. RoomLeft'
  BY <1>1, <1>2, <1>3, Bounds DEF RoomLeft, Room
<1>5. Flags'
  BY <1>1, <1>2, <1>3, ByParts, FlagKept, SamePage DEF Flags, SameCalls
<1>6. Doubts'
  BY <1>1, <1>3, DoubtsKept DEF SameCalls
<1>7. query' \in Query /\ crossed' \in BOOLEAN /\ events' \in 0..MaxEvents
  BY EventTyped DEF RefilterTwice, Query
<1>8. Rest'
  BY <1>1, <1>7, ByParts, SamePage DEF Rest, SameCalls, Query
<1> QED
  BY <1>2, <1>3, <1>4, <1>5, <1>6, <1>8, ByParts

(* A handler goes on to its finally: its flag is down.                     *)
LEMMA FlagTyped ==
  ASSUME PageInv, UNCHANGED page, NEW o, Finish(o)
  PROVE  /\ busy' \in [Op -> Row \cup {None}]
         /\ \A p \in Op : busy'[p] = IF p = o THEN None ELSE busy[p]
BY ByParts DEF Finish, Rest

LEMMA LoadEndsStep ==
  ASSUME PageInv, NEW l \in Loads, LoadEnds(l)
  PROVE  PageInv'
<1>1. /\ load' = [load EXCEPT ![l] = NoLoad] /\ Finish(load[l].owner)
      /\ UNCHANGED <<page, stamp, clock, made, told, query, call, open,
                     crossed, doubts, events>>
  BY DEF LoadEnds, LoadAnswered, LoadFails, server
<1>2. load[l] \in LoadState
  BY LoadTypes DEF LoadsSound
<1>3. l \notin IdleLoads
  <2>1. NoLoad.may = {}
    BY DEF NoLoad
  <2> QED
    BY <2>1 DEF LoadEnds, LoadAnswered, LoadFails, IdleLoads
<1>4. view' \in ViewState
  <2>1. view \in ViewState
    BY LoadTypes DEF LoadsSound
  <2>2. CASE LoadAnswered(l)
    BY <2>1, <2>2, <1>2 DEF LoadAnswered, ViewState, LoadState
  <2>3. CASE LoadFails(l)
    <3>1. view' = [view EXCEPT !.last = "failed",
                     !.error = @ \/ LoadOf.fails \in {"error", "notice"},
                     !.shows = IF LoadOf.fails = "empty" THEN Blank ELSE @]
      BY <2>3 DEF LoadFails
    <3>2. (view.error \/ LoadOf.fails \in {"error", "notice"}) \in BOOLEAN
      OBVIOUS
    <3>3. (IF LoadOf.fails = "empty" THEN Blank ELSE view.shows) \in [Row -> Nat]
      BY <2>1, LoadTypes DEF ViewState
    <3> QED
      BY <2>1, <3>1, <3>2, <3>3 DEF ViewState
  <2> QED
    BY <2>2, <2>3 DEF LoadEnds
<1>5. /\ LoadsSound' /\ Cardinality(IdleLoads') = Cardinality(IdleLoads) + 1
      /\ \A p \in Op : LoadsFor(p)' = LoadsFor(p) \ {l}
  BY <1>1, <1>3, <1>4, EndedFor
<1>6. /\ CallsSound' /\ Waiting' = Waiting
      /\ \A o : CallsFor(o)' = CallsFor(o)
      /\ \A r : Storing(r)' = Storing(r) /\ (AwaitsNew(r)' <=> AwaitsNew(r))
  BY <1>1, CallsKept
<1>7. /\ busy' \in [Op -> Row \cup {None}]
      /\ \A p \in Op : busy'[p] = IF p = load[l].owner THEN None ELSE busy[p]
  <2>1. PICK o : o = load[l].owner
    OBVIOUS
  <2> QED
    BY <1>1, <2>1, FlagTyped
<1>8. RoomLeft'
  BY <1>5, <1>6, Bounds, ByParts DEF RoomLeft
<1>9. Flags'
  <2> SUFFICES ASSUME NEW p \in Op, Guarded(p), FlagAgrees(p)
               PROVE  FlagAgrees(p)'
    BY <1>1, ByParts, SamePage DEF Flags
  <2>1. CASE p = load[l].owner
    <3>1. l \in LoadsFor(p)
      BY <2>1 DEF LoadsFor
    <3>2. LoadsFor(p)' = {} /\ CallsFor(p)' = {} /\ busy'[p] = None
      BY <2>1, <3>1, <1>5, <1>6, <1>7 DEF FlagAgrees
    <3> QED
      BY <3>2 DEF FlagAgrees
  <2>2. CASE p # load[l].owner
    <3>1. LoadsFor(p)' = LoadsFor(p) /\ busy'[p] = busy[p]
      BY <2>2, <1>5, <1>7 DEF LoadsFor
    <3> QED
      BY <3>1, <1>6, FlagKept
  <2> QED
    BY <2>1, <2>2
<1>10. Doubts'
  BY <1>1, <1>6, DoubtsKept
<1>11. Rest'
  BY <1>1, <1>7, ByParts, SamePage DEF Rest, Query
<1> QED
  BY <1>5, <1>6, <1>8, <1>9, <1>10, <1>11, ByParts

-----------------------------------------------------------------------------
(* Forms and requests                                                      *)

LEMMA OpenStep ==
  ASSUME PageInv, NEW o \in Op, NEW r \in Row, Open(o, r)
  PROVE  PageInv'
<1>1. UNCHANGED <<page, stamp, clock, made, told, query, view, load, call,
                  busy, crossed, doubts, events>>
  BY DEF Open, Keep, server
<1>2. LoadsSound' /\ IdleLoads' = IdleLoads
  BY <1>1, LoadsKept, LoadTypes DEF LoadsSound
<1>3. /\ CallsSound' /\ Waiting' = Waiting
      /\ \A p : CallsFor(p)' = CallsFor(p)
      /\ \A s : Storing(s)' = Storing(s) /\ (AwaitsNew(s)' <=> AwaitsNew(s))
  BY <1>1, CallsKept
<1>4. \A p : LoadsFor(p)' = LoadsFor(p)
  BY <1>1 DEF LoadsFor
<1>5. RoomLeft' /\ Doubts'
  BY <1>1, <1>2, <1>3, ByParts, DoubtsKept DEF RoomLeft
<1>6. Flags'
  BY <1>1, <1>3, <1>4, ByParts, FlagKept, SamePage DEF Flags
<1>7. Rest'
  BY <1>1, ByParts, SamePage DEF Rest, Open, Query
<1> QED
  BY <1>2, <1>3, <1>5, <1>6, <1>7, ByParts

LEMMA FormTyped ==
  ASSUME PageInv
  PROVE  /\ NoForm \in [op: Op \cup {None}, row: Row \cup {None}]
         /\ open \in [op: Op \cup {None}, row: Row \cup {None}]
BY ByParts DEF NoForm, Rest

LEMMA DismissStep ==
  ASSUME PageInv, Dismiss
  PROVE  PageInv'
<1>1. /\ call' = Orphaned(open.op) /\ open' = NoForm
      /\ UNCHANGED <<page, stamp, clock, made, told, query, view, load,
                     busy, crossed, doubts, events>>
  BY DEF Dismiss, Keep, server
<1>2. LoadsSound' /\ IdleLoads' = IdleLoads
  BY <1>1, LoadsKept, LoadTypes DEF LoadsSound
<1>3. PICK o : o = open.op
  OBVIOUS
<1>4. \A d \in Calls : Alike(d)
  <2> SUFFICES ASSUME NEW d \in Calls PROVE Alike(d)
    OBVIOUS
  <2>1. call'[d] = Orphaned(o)[d]
    BY <1>1, <1>3
  <2>2. NoCall' = NoCall /\ CallState' = CallState
    BY <1>1 DEF NoCall, Top, CallState, Op, Query
  <2> QED
    BY <2>1, <2>2, OrphanedAlike DEF Alike
<1>5. call' \in [Calls -> CallState]
  <2>1. call' = [d \in Calls |-> [call[d] EXCEPT !.form = @ /\ call[d].op # o]]
    BY <1>1, <1>3 DEF Orphaned
  <2>2. \A d \in Calls : call'[d] \in CallState
    BY <1>4 DEF Alike
  <2> QED
    BY <2>1, <2>2
<1>6. /\ CallsSound' /\ Waiting' = Waiting
      /\ \A p : CallsFor(p)' = CallsFor(p)
      /\ \A s : Storing(s)' = Storing(s) /\ (AwaitsNew(s)' <=> AwaitsNew(s))
  BY <1>1, <1>4, <1>5, AllAlike
<1>7. \A p : LoadsFor(p)' = LoadsFor(p)
  BY <1>1 DEF LoadsFor
<1>8. RoomLeft' /\ Doubts'
  BY <1>1, <1>2, <1>6, ByParts, DoubtsKept DEF RoomLeft
<1>9. Flags'
  BY <1>1, <1>6, <1>7, ByParts, FlagKept, SamePage DEF Flags
<1>10. Rest'
  BY <1>1, ByParts, SamePage, FormTyped DEF Rest, Query
<1> QED
  BY <1>2, <1>6, <1>8, <1>9, <1>10, ByParts

(* A request is sent from a free place; it is waited for.                  *)
LEMMA Sent ==
  ASSUME PageInv, NEW o \in Op, NEW r \in Row, Submit(o, r)
  PROVE  \E c \in Calls :
           /\ call[c] = NoCall
           /\ call'[c] = [step |-> "sent", op |-> o, row |-> r, stamp |-> 0,
                          query |-> query, new |-> o \in Creating /\ New(r),
                          form |-> Does(o).busy = "form", waits |-> TRUE]
           /\ CallsSound' /\ \A d \in Calls \ {c} : Alike(d)
<1> DEFINE c == Slot(IdleCalls)
           n == [step |-> "sent", op |-> o, row |-> r, stamp |-> 0,
                 query |-> query, new |-> o \in Creating /\ New(r),
                 form |-> Does(o).busy = "form", waits |-> TRUE]
<1>1. c \in IdleCalls
  <2>1. IdleCalls \subseteq Nat /\ IdleCalls # {}
    BY DEF Submit, IdleCalls, Calls
  <2> QED
    BY <2>1, SlotIsIn
<1>2. call' = [call EXCEPT ![c] = n] /\ page' = page
  BY DEF Submit
<1>3. n \in CallState
  <2>1. (o \in Creating /\ New(r)) \in BOOLEAN /\ (Does(o).busy = "form") \in BOOLEAN
    OBVIOUS
  <2>2. query \in Query
    BY ByParts DEF Rest
  <2> QED
    BY <2>1, <2>2 DEF CallState
<1>4. n.new => o \in Creating
  OBVIOUS
<1>5. n.step = "sent" /\ n.op = o /\ n.row = r
  OBVIOUS
<1> HIDE DEF c, n
<1>6. PICK i : i = c
  OBVIOUS
<1>7. i \in Calls /\ call[i] = NoCall
  BY <1>1, <1>6, CallFacts DEF IdleCalls
<1>8. /\ call' \in [Calls -> CallState] /\ call'[i] = n
      /\ \A d \in Calls \ {i} : call'[d] = call[d]
  BY <1>2, <1>3, <1>6, <1>7, CallTyped
<1>9. \A d \in Calls \ {i} : Alike(d)
  BY <1>8, CallTyped DEF Alike
<1>10. CallSound(i)'
  <2>1. Op' = Op /\ Creating' = Creating
    BY <1>2, SamePage
  <2>2. call'[i].step = "sent" /\ call'[i].op = o /\ call'[i].row = r
    BY <1>5, <1>8
  <2>3. call'[i].new => call'[i].op \in Creating
    BY <1>4, <1>5, <1>8
  <2> QED
    BY <2>1, <2>2, <2>3 DEF CallSound
<1>11. CallsSound'
  BY <1>2, <1>7, <1>8, <1>9, <1>10, OneCallSound
<1> QED
  BY <1>7, <1>8, <1>9, <1>11 DEF n

LEMMA SubmitStep ==
  ASSUME PageInv, NEW o \in Op, NEW r \in Row, Submit(o, r)
  PROVE  PageInv'
<1>1. /\ UNCHANGED <<page, stamp, clock, made, told, query, load, open,
                     crossed, doubts>>
      /\ Enabled(o, r) /\ Room(1) /\ Event
  BY DEF Submit, server
<1>2. PICK c \in Calls :
        /\ call[c] = NoCall
        /\ call'[c] = [step |-> "sent", op |-> o, row |-> r, stamp |-> 0,
                       query |-> query, new |-> o \in Creating /\ New(r),
                       form |-> Does(o).busy = "form", waits |-> TRUE]
        /\ CallsSound' /\ \A d \in Calls \ {c} : Alike(d)
  BY Sent
<1>3. view' \in ViewState
  <2>1. (view.error /\ Does(o).tells # "fresh") \in BOOLEAN
    OBVIOUS
  <2>2. view' = [view EXCEPT !.error = @ /\ Does(o).tells # "fresh"]
    BY DEF Submit
  <2> QED
    BY <2>1, <2>2, LoadTypes DEF LoadsSound, ViewState
<1>4. LoadsSound' /\ IdleLoads' = IdleLoads
  BY <1>1, <1>3, LoadsKept
<1>5. /\ Waiting' \ {c} = Waiting \ {c}
      /\ \A p : CallsFor(p)' \ {c} = CallsFor(p) \ {c}
      /\ \A s : Storing(s)' \ {c} = Storing(s) \ {c}
  BY <1>1, <1>2, OthersAlike
<1>6. /\ c \notin Waiting /\ \A p : c \notin CallsFor(p)
      /\ \A s : c \notin Storing(s)
  BY <1>2 DEF NoCall, Waiting, CallsFor, Storing
<1>7. c \in Waiting' /\ c \in CallsFor(o)' /\ \A p : p # o => c \notin CallsFor(p)'
  BY <1>2 DEF Waiting, CallsFor
<1>8. RoomLeft'
  <2>1. Waiting' = Waiting \cup {c}
    BY <1>5, <1>6, <1>7
  <2>2. Cardinality(Waiting') = Cardinality(Waiting) + 1
    BY <2>1, <1>6, Bounds, FS_AddElement
  <2> QED
    BY <2>2, <1>1, <1>4, Bounds DEF RoomLeft, Room
<1>9. /\ busy' \in [Op -> Row \cup {None}]
      /\ \A p \in Op : p # o => busy'[p] = busy[p]
      /\ Guarded(o) => busy'[o] = r
  <2>1. busy \in [Op -> Row \cup {None}]
    BY ByParts DEF Rest
  <2>2. busy' = IF Does(o).busy \in {"flag", "slot"} THEN [busy EXCEPT ![o] = r]
                ELSE busy
    BY DEF Submit
  <2> QED
    BY <2>1, <2>2 DEF Guarded
<1>10. ASSUME Guarded(o), FlagAgrees(o)
       PROVE  CallsFor(o) = {} /\ LoadsFor(o) = {}
  <2>1. busy[o] = None
    BY <1>1, <1>10 DEF Enabled, Guarded
  <2> QED
    BY <2>1, <1>10 DEF FlagAgrees
<1>11. \A p : LoadsFor(p)' = LoadsFor(p)
  BY <1>1 DEF LoadsFor
<1>12. Flags'
  <2> SUFFICES ASSUME NEW p \in Op, Guarded(p), FlagAgrees(p)
               PROVE  FlagAgrees(p)'
    BY <1>1, ByParts, SamePage DEF Flags
  <2>1. CASE p = o
    <3>1. CallsFor(p)' = {c} /\ LoadsFor(p)' = {}
      BY <2>1, <1>5, <1>6, <1>7, <1>10, <1>11
    <3>2. busy'[p] # None
      BY <2>1, <1>9 DEF PageAssumption
    <3> QED
      BY <3>1, <3>2 DEF FlagAgrees
  <2>2. CASE p # o
    <3>1. CallsFor(p)' = CallsFor(p)
      BY <2>2, <1>5, <1>6, <1>7
    <3> QED
      BY <2>2, <3>1, <1>9, <1>11, FlagKept
  <2> QED
    BY <2>1, <2>2
<1>13. Doubts'
  <2> SUFFICES ASSUME \A p \in Creating : Guarded(p), NEW s \in Row, SentOnceADoubt(s)
               PROVE  SentOnceADoubt(s)'
    BY <1>1, ByParts, SamePage DEF Doubts
  <2>1. AwaitsNew(s) => AwaitsNew(s)'
    <3> SUFFICES ASSUME AwaitsNew(s) PROVE AwaitsNew(s)'
      OBVIOUS
    <3>1. PICK d \in Waiting : call[d].new /\ call[d].row = s
      BY DEF AwaitsNew
    <3>2. d \in Calls \ {c} /\ d \in Waiting'
      BY <3>1, <1>5, <1>6 DEF Waiting
    <3> QED
      BY <3>1, <3>2, <1>2 DEF AwaitsNew, Alike
  <2>2. /\ made[s] \in Nat /\ doubts[s] \in Nat
        /\ Cardinality(Storing(s)) \in Nat /\ IsFiniteSet(Storing(s))
    BY ByParts, InFinite DEF Rest, Storing
  <2>3. CASE c \notin Storing(s)'
    <3>1. Storing(s)' = Storing(s)
      BY <2>3, <1>5, <1>6
    <3> QED
      BY <3>1, <2>1, <2>2, <1>1 DEF SentOnceADoubt
  <2>4. CASE c \in Storing(s)'
    <3>1. o \in Creating /\ New(s) /\ s = r
      <4>1. call'[c].new /\ call'[c].row = s
        BY <2>4 DEF Storing
      <4>2. call'[c].row = r /\ call'[c].new = (o \in Creating /\ New(r))
        BY <1>2
      <4> QED
        BY <4>1, <4>2
    <3>2. CallsFor(o) = {}
      BY <3>1, <1>10, ByParts DEF Flags
    <3>3. told[s] = 0
      BY <3>1 DEF New
    <3>4. ~AwaitsNew(s)
      <4> SUFFICES ASSUME NEW d \in Waiting, call[d].new PROVE FALSE
        BY DEF AwaitsNew
      <4>1. d \in Calls /\ call[d].op \in Creating
        BY CallTyped DEF Waiting, CallSound
      <4>2. call[d].op = o
        BY <3>1, <4>1, PageDescribed DEF PageInv, PageTypeOK
      <4> QED
        BY <3>2, <4>1, <4>2 DEF CallsFor
    <3>5. Cardinality(Storing(s)') = Cardinality(Storing(s)) + 1
      <4>1. Storing(s)' = Storing(s) \cup {c}
        BY <2>4, <1>5, <1>6
      <4> QED
        BY <4>1, <1>6, <2>2, FS_AddElement
    <3>6. AwaitsNew(s)'
      BY <2>4, <1>7 DEF AwaitsNew, Storing
    <3> QED
      BY <3>3, <3>4, <3>5, <3>6, <2>2, <1>1 DEF SentOnceADoubt
  <2> QED
    BY <2>3, <2>4
<1>14. Rest'
  BY <1>1, <1>9, EventTyped, ByParts, SamePage DEF Rest, Query
<1> QED
  BY <1>2, <1>4, <1>8, <1>12, <1>13, <1>14, ByParts

-----------------------------------------------------------------------------
(* Requests served, lost and failed                                        *)

LEMMA CallReplaced ==
  ASSUME PageInv, UNCHANGED page, NEW c \in Calls, NEW x \in CallState,
         call' = [call EXCEPT ![c] = x]
  PROVE  /\ call' \in [Calls -> CallState] /\ call'[c] = x
         /\ \A d \in Calls \ {c} : call'[d] = call[d] /\ Alike(d)
<1>1. /\ call' \in [Calls -> CallState] /\ call'[c] = x
      /\ \A d \in Calls \ {c} : call'[d] = call[d]
  BY CallTyped
<1> QED
  BY <1>1, CallTyped DEF Alike

LEMMA FewerWait ==
  ASSUME PageInv, Waiting' \subseteq Waiting, IdleLoads' = IdleLoads
  PROVE  RoomLeft'
<1>1. Cardinality(Waiting') <= Cardinality(Waiting)
  BY Bounds, FS_Subset
<1> QED
  BY <1>1, Bounds, ByParts DEF RoomLeft

LEMMA AwaitsKept ==
  ASSUME PageInv, NEW c \in Calls, \A d \in Calls \ {c} : Alike(d),
         NEW r, AwaitsNew(r), ~(call[c].new /\ call[c].row = r)
  PROVE  AwaitsNew(r)'
<1>1. PICK d \in Waiting : call[d].new /\ call[d].row = r
  BY DEF AwaitsNew
<1>2. d \in Calls \ {c}
  BY <1>1 DEF Waiting
<1>3. d \in Waiting'
  BY <1>1, <1>2 DEF Waiting, Alike
<1> QED
  BY <1>1, <1>2, <1>3 DEF AwaitsNew, Alike

LEMMA StoringFinite ==
  \A r : IsFiniteSet(Storing(r)) /\ Cardinality(Storing(r)) \in Nat
BY InFinite DEF Storing

(* Served: what was on its way to store a draft has stored it.             *)
LEMMA Served ==
  ASSUME PageInv, NEW c \in Calls, ServeCall(c)
  PROVE  /\ CallsSound' /\ Waiting' = Waiting
         /\ \A o : CallsFor(o)' = CallsFor(o)
         /\ \A r : AwaitsNew(r) => AwaitsNew(r)'
         /\ \A r : Storing(r)' = Storing(r) \ {c}
<1>1. call[c].step = "sent" /\ page' = page
  BY DEF ServeCall
<1>2. PICK x : x = Carried(c)
  OBVIOUS
<1>3. call[c] \in CallState /\ CallSound(c)
  BY CallTyped
<1>4. clock \in Nat /\ clock' \in Nat
      /\ (Does(call[c].op).effect # "send" => clock' > 0)
  BY ByParts DEF ServeCall, Rest
<1>5. /\ x \in CallState /\ x.waits = call[c].waits /\ x.step # "sent"
      /\ call[c].waits => /\ x.op = call[c].op /\ x.row = call[c].row
                          /\ x.new = call[c].new /\ x.step = "done"
                          /\ x.stamp = clock'
      /\ ~call[c].waits => x = NoCall
  <2>1. CASE call[c].waits
    <3>1. x = [call[c] EXCEPT !.step = "done", !.stamp = clock']
      BY <1>2, <2>1 DEF Carried
    <3>2. call[c].waits \in BOOLEAN
      BY <1>3 DEF CallState
    <3> QED
      BY <1>3, <1>4, <2>1, <3>1 DEF CallState
  <2>2. CASE ~call[c].waits
    <3>1. x = NoCall
      BY <1>2, <2>2 DEF Carried
    <3>2. call[c].waits = FALSE
      BY <1>3, <2>2 DEF CallState
    <3> QED
      BY <2>2, <3>1, <3>2, CallTyped DEF NoCall
  <2> QED
    BY <2>1, <2>2
<1>6. call' = [call EXCEPT ![c] = x]
  BY <1>2 DEF ServeCall
<1>7. /\ call' \in [Calls -> CallState] /\ call'[c] = x
      /\ \A d \in Calls \ {c} : call'[d] = call[d] /\ Alike(d)
  BY <1>1, <1>5, <1>6, CallReplaced
<1>8. CallSound(c)'
  <2>1. CASE call[c].waits
    <3>1. /\ call'[c].op \in Op /\ call'[c].row \in Row
          /\ call'[c].op = call[c].op
      BY <2>1, <1>5, <1>7, CallFacts
    <3>2. call'[c].new => call'[c].op \in Creating
      BY <2>1, <1>3, <1>5, <1>7 DEF CallSound
    <3>3. Op' = Op /\ Creating' = Creating
          /\ Does(call[c].op)' = Page[page].does[call'[c].op]
      BY <1>1, <3>1, SamePage DEF Does
    <3>4. call'[c].waits /\ call'[c].step = "done" /\ call'[c].stamp = clock'
      BY <2>1, <1>5, <1>7
    <3>5. Page'[page'].does[call'[c].op].effect # "send" => call'[c].stamp > 0
      BY <1>1, <1>4, <3>1, <3>4 DEF Does
    <3> QED
      BY <3>1, <3>2, <3>3, <3>4, <3>5 DEF CallSound, Does
  <2>2. CASE ~call[c].waits
    BY <2>2, <1>5, <1>7, NoCallSound
  <2> QED
    BY <2>1, <2>2
<1>9. CallsSound'
  BY <1>1, <1>7, <1>8, OneCallSound
<1>10. /\ Waiting' \ {c} = Waiting \ {c}
       /\ \A p : CallsFor(p)' \ {c} = CallsFor(p) \ {c}
       /\ \A s : Storing(s)' \ {c} = Storing(s) \ {c}
  BY <1>1, <1>7, OthersAlike
<1>11. Waiting' = Waiting
  <2>1. c \in Waiting' <=> c \in Waiting
    BY <1>5, <1>7 DEF Waiting
  <2> QED
    BY <2>1, <1>10
<1>12. ASSUME NEW o PROVE CallsFor(o)' = CallsFor(o)
  <2>1. c \in CallsFor(o)' <=> c \in CallsFor(o)
    BY <1>5, <1>7, <1>11 DEF CallsFor, Waiting
  <2> QED
    BY <2>1, <1>10
<1>13. ASSUME NEW r, AwaitsNew(r) PROVE AwaitsNew(r)'
  <2>1. PICK d \in Waiting : call[d].new /\ call[d].row = r
    BY <1>13 DEF AwaitsNew
  <2>2. call'[d].new /\ call'[d].row = r
    BY <2>1, <1>5, <1>7 DEF Alike, Waiting
  <2> QED
    BY <2>1, <2>2, <1>11 DEF AwaitsNew
<1>14. ASSUME NEW r PROVE Storing(r)' = Storing(r) \ {c}
  <2>1. c \notin Storing(r)'
    BY <1>5, <1>7 DEF Storing
  <2> QED
    BY <2>1, <1>10
<1> QED
  BY <1>9, <1>11, <1>12, <1>13, <1>14

LEMMA ServeStep ==
  ASSUME PageInv, NEW c \in Calls, ServeCall(c)
  PROVE  PageInv'
<1>1. /\ UNCHANGED <<page, told, query, view, open, busy, doubts, events>>
      /\ call[c].step = "sent" /\ Seen
  BY DEF ServeCall
<1>2. call[c].op \in Op /\ call[c].row \in Row
  BY <1>1, CallFacts
<1>3. clock' \in Nat /\ stamp' \in [Row -> Nat]
  <2>1. clock \in Nat /\ stamp \in [Row -> Nat]
    BY ByParts DEF Rest
  <2>2. clock' \in Nat
    BY <2>1 DEF ServeCall
  <2>3. CASE Does(call[c].op).effect = "send"
    BY <2>1, <2>3 DEF ServeCall
  <2>4. CASE Does(call[c].op).effect = "remove"
    <3>1. stamp' = [stamp EXCEPT ![call[c].row] = 0]
      BY <2>4 DEF ServeCall
    <3> QED
      BY <2>1, <2>2, <3>1
  <2>5. CASE Does(call[c].op).effect \notin {"send", "remove"}
    <3>1. stamp' = [stamp EXCEPT ![call[c].row] = clock']
      BY <2>5 DEF ServeCall
    <3> QED
      BY <2>1, <2>2, <3>1
  <2> QED
    BY <2>2, <2>3, <2>4, <2>5
<1>4. made' = IF call[c].new THEN [made EXCEPT ![call[c].row] = @ + 1] ELSE made
  BY DEF ServeCall
<1>5. made \in [Row -> Nat] /\ made' \in [Row -> Nat]
  BY <1>2, <1>4, ByParts DEF Rest
<1>6. /\ LoadsSound' /\ IdleLoads' = IdleLoads
      /\ \A l \in Loads : load'[l].owner = load[l].owner
  BY <1>1, <1>3, Widened
<1>7. \A p : LoadsFor(p)' = LoadsFor(p)
  BY <1>6 DEF LoadsFor, Loads
<1>8. /\ CallsSound' /\ Waiting' = Waiting
      /\ \A o : CallsFor(o)' = CallsFor(o)
      /\ \A r : AwaitsNew(r) => AwaitsNew(r)'
      /\ \A r : Storing(r)' = Storing(r) \ {c}
  BY Served
<1>9. RoomLeft'
  BY <1>6, <1>8, ByParts DEF RoomLeft
<1>10. Flags'
  BY <1>1, <1>7, <1>8, ByParts, FlagKept, SamePage DEF Flags
<1>11. Doubts'
  <2> SUFFICES ASSUME NEW r \in Row, SentOnceADoubt(r) PROVE SentOnceADoubt(r)'
    BY <1>1, ByParts, SamePage DEF Doubts
  <2>1. made[r] \in Nat /\ made'[r] \in Nat /\ doubts[r] \in Nat
    BY <1>5, ByParts DEF Rest
  <2>2. made'[r] + Cardinality(Storing(r)') <= made[r] + Cardinality(Storing(r))
    <3>1. CASE c \in Storing(r)
      <4>1. call[c].new /\ call[c].row = r
        BY <3>1 DEF Storing
      <4>2. made'[r] = made[r] + 1
        BY <4>1, <1>4, <1>5
      <4>3. Cardinality(Storing(r)') = Cardinality(Storing(r)) - 1
        BY <3>1, <1>8, StoringFinite, FS_RemoveElement
      <4> QED
        BY <4>2, <4>3, <2>1, StoringFinite
    <3>2. CASE c \notin Storing(r)
      <4>1. ~(call[c].new /\ call[c].row = r)
        BY <3>2, <1>1 DEF Storing
      <4>2. made'[r] = made[r]
        BY <4>1, <1>4, <1>5, <1>2
      <4>3. Storing(r)' = Storing(r)
        BY <3>2, <1>8
      <4> QED
        BY <4>2, <4>3, <2>1, StoringFinite
    <3> QED
      BY <3>1, <3>2
  <2>3. Cardinality(Storing(r)) \in Nat /\ Cardinality(Storing(r)') \in Nat
    <3>1. Storing(r)' \in SUBSET Calls
      BY DEF Storing, Calls
    <3> QED
      BY <3>1, InFinite, StoringFinite
  <2>4. AwaitsNew(r) => AwaitsNew(r)'
    BY <1>8
  <2> QED
    BY <2>1, <2>2, <2>3, <2>4, <1>1 DEF SentOnceADoubt
<1>12. crossed' \in BOOLEAN
  <2>1. (crossed \/ ~call[c].waits) \in BOOLEAN
    OBVIOUS
  <2> QED
    BY <2>1 DEF ServeCall
<1>13. Rest'
  BY <1>1, <1>3, <1>5, <1>12, ByParts, SamePage DEF Rest, Query
<1> QED
  BY <1>6, <1>8, <1>9, <1>10, <1>11, <1>13, ByParts

LEMMA ElsewhereStep ==
  ASSUME PageInv, NEW r \in Row, Elsewhere(r)
  PROVE  PageInv'
<1>1. /\ UNCHANGED <<page, made, told, query, view, call, open, busy,
                     crossed, doubts>>
      /\ Seen /\ Event
  BY DEF Elsewhere
<1>2. clock' \in Nat /\ stamp' \in [Row -> Nat]
  BY ByParts DEF Rest, Elsewhere
<1>3. /\ LoadsSound' /\ IdleLoads' = IdleLoads
      /\ \A l \in Loads : load'[l].owner = load[l].owner
  BY <1>1, <1>2, Widened
<1>4. \A p : LoadsFor(p)' = LoadsFor(p)
  BY <1>3 DEF LoadsFor, Loads
<1>5. /\ CallsSound' /\ Waiting' = Waiting
      /\ \A p : CallsFor(p)' = CallsFor(p)
      /\ \A s : Storing(s)' = Storing(s) /\ (AwaitsNew(s)' <=> AwaitsNew(s))
  BY <1>1, CallsKept
<1>6. RoomLeft' /\ Doubts'
  BY <1>1, <1>3, <1>5, ByParts, DoubtsKept DEF RoomLeft
<1>7. Flags'
  BY <1>1, <1>4, <1>5, ByParts, FlagKept, SamePage DEF Flags
<1>8. Rest'
  BY <1>1, <1>2, EventTyped, ByParts, SamePage DEF Rest, Query
<1> QED
  BY <1>3, <1>5, <1>6, <1>7, <1>8, ByParts

LEMMA LostStep ==
  ASSUME PageInv, NEW c \in Calls, Lost(c)
  PROVE  PageInv'
<1>1. /\ UNCHANGED <<page, stamp, clock, made, told, query, view, load, open,
                     busy, crossed, doubts, events>>
      /\ call' = [call EXCEPT ![c] = NoCall]
  BY DEF Lost, Keep, server
<1>2. /\ call' \in [Calls -> CallState] /\ call'[c] = NoCall
      /\ \A d \in Calls \ {c} : call'[d] = call[d] /\ Alike(d)
  BY <1>1, CallReplaced, CallTyped
<1>3. /\ CallSound(c)' /\ c \notin Waiting' /\ \A o : c \notin CallsFor(o)'
      /\ \A r : c \notin Storing(r)'
  BY <1>2, NoCallSound
<1>4. CallsSound'
  BY <1>1, <1>2, <1>3, OneCallSound
<1>5. c \notin Waiting /\ \A o : c \notin CallsFor(o)
  BY DEF Lost, Waiting, CallsFor
<1>6. /\ Waiting' = Waiting /\ \A o : CallsFor(o)' = CallsFor(o)
      /\ \A r : Storing(r)' = Storing(r) \ {c}
  <2>1. /\ Waiting' \ {c} = Waiting \ {c}
        /\ \A o : CallsFor(o)' \ {c} = CallsFor(o) \ {c}
        /\ \A r : Storing(r)' \ {c} = Storing(r) \ {c}
    BY <1>1, <1>2, OthersAlike
  <2>2. Waiting' = Waiting
    BY <2>1, <1>3, <1>5
  <2>3. ASSUME NEW o PROVE CallsFor(o)' = CallsFor(o)
    BY <2>1, <1>3, <1>5
  <2>4. ASSUME NEW r PROVE Storing(r)' = Storing(r) \ {c}
    BY <2>1, <1>3
  <2> QED
    BY <2>2, <2>3, <2>4
<1>7. LoadsSound' /\ IdleLoads' = IdleLoads
  BY <1>1, LoadsKept, LoadTypes DEF LoadsSound
<1>8. \A p : LoadsFor(p)' = LoadsFor(p)
  BY <1>1 DEF LoadsFor
<1>9. RoomLeft'
  BY <1>6, <1>7, FewerWait
<1>10. Flags'
  BY <1>1, <1>6, <1>8, ByParts, FlagKept, SamePage DEF Flags
<1>11. Doubts'
  <2> SUFFICES ASSUME NEW r \in Row, SentOnceADoubt(r) PROVE SentOnceADoubt(r)'
    BY <1>1, ByParts, SamePage DEF Doubts
  <2>1. Cardinality(Storing(r)') <= Cardinality(Storing(r))
        /\ Cardinality(Storing(r)') \in Nat
    <3>1. Storing(r)' \subseteq Storing(r)
      BY <1>6
    <3> QED
      BY <3>1, StoringFinite, FS_Subset, FS_CardinalityType
  <2>2. AwaitsNew(r) => AwaitsNew(r)'
    <3> SUFFICES ASSUME AwaitsNew(r) PROVE AwaitsNew(r)'
      OBVIOUS
    <3>1. PICK d \in Waiting : call[d].new /\ call[d].row = r
      BY DEF AwaitsNew
    <3>2. d \in Waiting' /\ d \in Calls \ {c}
      BY <3>1, <1>5, <1>6 DEF Waiting
    <3> QED
      BY <3>1, <3>2, <1>2 DEF AwaitsNew
  <2>3. made[r] \in Nat /\ doubts[r] \in Nat
    BY ByParts DEF Rest
  <2> QED
    BY <2>1, <2>2, <2>3, <1>1, StoringFinite DEF SentOnceADoubt
<1>12. Rest'
  BY <1>1, ByParts, SamePage DEF Rest, Query
<1> QED
  BY <1>4, <1>7, <1>9, <1>10, <1>11, <1>12, ByParts

(* The handler that waited is done with its request and its flag is down:  *)
(* nothing else is under way for an operation that runs once at a time.    *)
LEMMA FlagDown ==
  ASSUME PageInv, UNCHANGED page, NEW c \in Waiting, Finish(call[c].op),
         \A p : CallsFor(p)' = CallsFor(p) \ {c},
         \A p \in Op : LoadsFor(p)' = LoadsFor(p)
  PROVE  Flags' /\ busy' \in [Op -> Row \cup {None}]
<1>1. PICK o : o = call[c].op
  OBVIOUS
<1>2. /\ busy' \in [Op -> Row \cup {None}]
      /\ \A p \in Op : busy'[p] = IF p = o THEN None ELSE busy[p]
  BY <1>1, FlagTyped
<1>3. ASSUME NEW p \in Op, FlagAgrees(p) PROVE FlagAgrees(p)'
  <2>1. CASE p = o
    <3>1. c \in CallsFor(p)
      BY <2>1, <1>1 DEF CallsFor
    <3>2. CallsFor(p)' = {} /\ LoadsFor(p)' = {} /\ busy'[p] = None
      BY <2>1, <3>1, <1>2, <1>3 DEF FlagAgrees
    <3> QED
      BY <3>2 DEF FlagAgrees
  <2>2. CASE p # o
    <3>1. CallsFor(p)' = CallsFor(p) /\ busy'[p] = busy[p]
      BY <2>2, <1>1, <1>2 DEF CallsFor
    <3> QED
      BY <3>1, <1>3, FlagKept
  <2> QED
    BY <2>1, <2>2
<1> QED
  BY <1>2, <1>3, ByParts, SamePage DEF Flags

LEMMA FailsTyped ==
  ASSUME PageInv, NEW c \in Calls, Fails(c)
  PROVE  /\ open' \in [op: Op \cup {None}, row: Row \cup {None}]
         /\ view' \in ViewState /\ crossed' \in BOOLEAN
<1>1. open' = IF ~Does(call[c].op).keeps /\ open.op = call[c].op
              THEN NoForm ELSE open
  BY DEF Fails
<1>2. open' \in [op: Op \cup {None}, row: Row \cup {None}]
  BY <1>1, FormTyped
<1>3. view' \in ViewState
  BY LoadTypes DEF Fails, LoadsSound, ViewState
<1>4. crossed' \in BOOLEAN
  <2>1. (crossed \/ IdleLoads # Loads) \in BOOLEAN /\ crossed \in BOOLEAN
    BY ByParts DEF Rest
  <2> QED
    BY <2>1 DEF Fails
<1> QED
  BY <1>2, <1>3, <1>4

(* A handler fails: either its request was surely not served and is gone,  *)
(* or there is one doubt more.                                             *)
LEMMA FailsStep ==
  ASSUME PageInv, NEW c \in Waiting, Fails(c), NEW x \in CallState,
         call' = [call EXCEPT ![c] = x], ~x.waits,
         \/ x = NoCall
         \/ x.step = "sent" /\ call[c].step = "sent" /\ x.op = call[c].op
            /\ x.row = call[c].row /\ x.new = call[c].new,
         \/ x = NoCall /\ call[c].step = "sent" /\ UNCHANGED doubts
         \/ doubts' = [doubts EXCEPT ![call[c].row] = @ + 1],
         events' \in 0..MaxEvents
  PROVE  PageInv'
<1>1. /\ UNCHANGED <<page, stamp, clock, made, told, query, load>>
      /\ Finish(call[c].op)
  BY DEF Fails, server
<1>2. c \in Calls /\ call[c].row \in Row /\ call[c].op \in Op
  BY CallFacts DEF Waiting
<1>3. /\ call' \in [Calls -> CallState] /\ call'[c] = x
      /\ \A d \in Calls \ {c} : call'[d] = call[d] /\ Alike(d)
  BY <1>1, <1>2, CallReplaced
<1>4. CallSound(c)'
  <2>1. CASE x = NoCall
    BY <1>2, <1>3, <2>1, NoCallSound
  <2>2. CASE x # NoCall
    <3>1. /\ call'[c].step = "sent" /\ call'[c].op \in Op /\ call'[c].row \in Row
          /\ (call'[c].new => call'[c].op \in Creating)
      BY <2>2, <1>2, <1>3, CallTyped DEF CallSound
    <3>2. Op' = Op /\ Creating' = Creating
      BY <1>1, SamePage
    <3> QED
      BY <3>1, <3>2 DEF CallSound
  <2> QED
    BY <2>1, <2>2
<1>5. CallsSound'
  BY <1>1, <1>2, <1>3, <1>4, OneCallSound
<1>6. /\ Waiting' = Waiting \ {c}
      /\ \A p : CallsFor(p)' = CallsFor(p) \ {c}
  <2>1. c \notin Waiting' /\ \A p : c \notin CallsFor(p)'
    BY <1>3 DEF Waiting, CallsFor
  <2> QED
    BY <2>1, <1>1, <1>2, <1>3, OthersAlike
<1>7. ASSUME NEW r PROVE Storing(r)' \subseteq Storing(r)
  <2>1. c \in Storing(r)' => c \in Storing(r)
    BY <1>2, <1>3 DEF Storing, NoCall
  <2> QED
    BY <2>1, <1>1, <1>2, <1>3, OthersAlike
<1>8. view' \in ViewState /\ crossed' \in BOOLEAN
      /\ open' \in [op: Op \cup {None}, row: Row \cup {None}]
  BY <1>2, FailsTyped
<1>9. LoadsSound' /\ IdleLoads' = IdleLoads
  BY <1>1, <1>8, LoadsKept
<1>10. RoomLeft'
  BY <1>6, <1>9, FewerWait
<1>11. Flags' /\ busy' \in [Op -> Row \cup {None}]
  <2>1. \A p : LoadsFor(p)' = LoadsFor(p)
    BY <1>1 DEF LoadsFor
  <2> QED
    BY <2>1, <1>1, <1>6, FlagDown
<1>12. doubts \in [Row -> Nat] /\ doubts' \in [Row -> Nat]
       /\ \A r \in Row : doubts'[r] >= doubts[r]
  BY <1>2, ByParts DEF Rest
<1>13. Doubts'
  <2> SUFFICES ASSUME NEW r \in Row, SentOnceADoubt(r) PROVE SentOnceADoubt(r)'
    BY <1>1, ByParts, SamePage DEF Doubts
  <2>1. /\ Cardinality(Storing(r)') <= Cardinality(Storing(r))
        /\ Cardinality(Storing(r)') \in Nat /\ Cardinality(Storing(r)) \in Nat
    BY <1>7, StoringFinite, FS_Subset, FS_CardinalityType
  <2>2. made[r] \in Nat /\ doubts[r] \in Nat /\ doubts'[r] \in Nat
        /\ doubts'[r] >= doubts[r]
    BY <1>12, ByParts DEF Rest
  <2>3. CASE ~(call[c].new /\ call[c].row = r)
    <3>1. AwaitsNew(r) => AwaitsNew(r)'
      BY <2>3, <1>2, <1>3, AwaitsKept
    <3> QED
      BY <3>1, <2>1, <2>2, <1>1 DEF SentOnceADoubt
  <2>4. CASE /\ call[c].new /\ call[c].row = r
             /\ doubts' = [doubts EXCEPT ![call[c].row] = @ + 1]
    <3>1. doubts'[r] = doubts[r] + 1
      BY <2>4, <1>12
    <3> QED
      BY <3>1, <2>1, <2>2, <1>1 DEF SentOnceADoubt
  <2>5. CASE /\ call[c].new /\ call[c].row = r
             /\ x = NoCall /\ call[c].step = "sent"
    <3>1. c \in Storing(r)
      BY <2>5, <1>2 DEF Storing
    <3>2. Storing(r)' \subseteq Storing(r) \ {c}
      BY <2>5, <1>2, <1>3, <1>7, NoCallSound
    <3>3. Cardinality(Storing(r) \ {c}) = Cardinality(Storing(r)) - 1
          /\ IsFiniteSet(Storing(r) \ {c})
      BY <3>1, StoringFinite, FS_RemoveElement
    <3>4. Cardinality(Storing(r)') <= Cardinality(Storing(r)) - 1
      BY <3>2, <3>3, FS_Subset
    <3> QED
      BY <3>4, <2>1, <2>2, <1>1 DEF SentOnceADoubt
  <2> QED
    BY <2>3, <2>4, <2>5
<1>14. Rest'
  BY <1>1, <1>8, <1>11, <1>12, ByParts, SamePage DEF Rest, Query
<1> QED
  BY <1>5, <1>9, <1>10, <1>11, <1>13, <1>14, ByParts

LEMMA RefusalStep ==
  ASSUME PageInv, NEW c \in Calls, CallRefused(c) \/ GivesUp(c) \/ TailFails(c)
  PROVE  PageInv'
<1>1. Fails(c)
  BY DEF CallRefused, GivesUp, TailFails
<1>2. call[c] \in CallState /\ CallSound(c) /\ NoCall \in CallState
      /\ ~NoCall.waits
  BY CallTyped DEF NoCall
<1>3. CASE CallRefused(c)
  <2>1. c \in Waiting /\ call[c].step = "sent"
        /\ call' = [call EXCEPT ![c] = NoCall] /\ UNCHANGED <<doubts, events>>
    BY <1>3 DEF CallRefused, Waiting
  <2>2. events' \in 0..MaxEvents
    BY <2>1, ByParts DEF Rest
  <2> QED
    BY <1>1, <1>2, <2>1, <2>2, FailsStep
<1>4. CASE GivesUp(c)
  <2>1. /\ c \in Waiting /\ doubts' = [doubts EXCEPT ![call[c].row] = @ + 1]
        /\ events' \in 0..MaxEvents
    BY <1>4, EventTyped DEF GivesUp, Doubt, Waiting
  <2>2. PICK x : x = IF call[c].step = "sent"
                     THEN [call[c] EXCEPT !.waits = FALSE, !.form = FALSE]
                     ELSE NoCall
    OBVIOUS
  <2>3. call' = [call EXCEPT ![c] = x]
    BY <1>4, <2>2 DEF GivesUp
  <2>4. /\ x \in CallState /\ ~x.waits
        /\ \/ x = NoCall
           \/ x.step = "sent" /\ call[c].step = "sent" /\ x.op = call[c].op
              /\ x.row = call[c].row /\ x.new = call[c].new
    BY <1>2, <2>2 DEF CallState
  <2> QED
    BY <1>1, <2>1, <2>3, <2>4, FailsStep
<1>5. CASE TailFails(c)
  <2>1. /\ c \in Waiting /\ doubts' = [doubts EXCEPT ![call[c].row] = @ + 1]
        /\ events' \in 0..MaxEvents /\ call' = [call EXCEPT ![c] = NoCall]
    BY <1>2, <1>5, EventTyped DEF TailFails, Doubt, Waiting, CallSound
  <2> QED
    BY <1>1, <1>2, <2>1, FailsStep
<1> QED
  BY <1>3, <1>4, <1>5

-----------------------------------------------------------------------------
(* Requests confirmed                                                      *)

LEMMA ConfirmedParts ==
  ASSUME PageInv, NEW c \in Calls, Confirmed(c)
  PROVE  /\ c \in Waiting /\ call[c].op \in Op /\ call[c].row \in Row
         /\ call[c].query \in Query /\ call[c].stamp \in Nat
         /\ CallsSound' /\ Waiting' = Waiting \ {c}
         /\ \A p : CallsFor(p)' = CallsFor(p) \ {c}
         /\ Doubts' /\ told' \in [Row -> Nat]
         /\ open' \in [op: Op \cup {None}, row: Row \cup {None}]
         /\ UNCHANGED <<page, stamp, clock, made, doubts, events>>
<1>1. /\ call[c].step = "done" /\ call[c].waits
      /\ UNCHANGED <<page, stamp, clock, made, doubts, events>>
  BY DEF Confirmed, server
<1>2. /\ c \in Waiting /\ call[c].op \in Op /\ call[c].row \in Row
      /\ call[c] \in CallState /\ CallSound(c)
  BY <1>1, CallTyped, CallFacts DEF Waiting
<1>3. call[c].query \in Query /\ call[c].stamp \in Nat
  BY <1>2 DEF CallState
<1>4. told' = IF Does(call[c].op).effect = "send" THEN told
              ELSE [told EXCEPT ![call[c].row] = call[c].stamp]
  BY DEF Confirmed
<1>5. told \in [Row -> Nat] /\ told' \in [Row -> Nat]
  BY <1>2, <1>3, <1>4, ByParts DEF Rest
<1>6. open' \in [op: Op \cup {None}, row: Row \cup {None}]
  <2>1. open' = IF Does(call[c].op).closes /\ open.op = call[c].op
                THEN NoForm ELSE open
    BY DEF Confirmed
  <2> QED
    BY <2>1, FormTyped
<1>7. /\ call' \in [Calls -> CallState] /\ call'[c] = NoCall
      /\ \A d \in Calls \ {c} : Alike(d)
  <2>1. PICK o : o = call[c].op
    OBVIOUS
  <2>2. CASE Does(o).closes
    <3>1. call' = [Orphaned(o) EXCEPT ![c] = NoCall]
      BY <2>1, <2>2 DEF Confirmed
    <3>2. Orphaned(o) \in [Calls -> CallState]
      <4>1. \A d \in Calls : Orphaned(o)[d] \in CallState
        BY OrphanedAlike
      <4>2. Orphaned(o) = [d \in Calls |->
                             [call[d] EXCEPT !.form = @ /\ call[d].op # o]]
        BY DEF Orphaned
      <4> QED
        BY <4>1, <4>2
    <3>3. /\ call' \in [Calls -> CallState] /\ call'[c] = NoCall
          /\ \A d \in Calls \ {c} : call'[d] = Orphaned(o)[d]
      BY <3>1, <3>2, CallTyped
    <3>4. \A d \in Calls \ {c} : Alike(d)
      <4> SUFFICES ASSUME NEW d \in Calls \ {c} PROVE Alike(d)
        OBVIOUS
      <4>1. NoCall' = NoCall /\ CallState' = CallState
        BY <1>1 DEF NoCall, Top, CallState, Op, Query
      <4> QED
        BY <3>3, <4>1, OrphanedAlike DEF Alike
    <3> QED
      BY <3>3, <3>4
  <2>3. CASE ~Does(o).closes
    <3>1. call' = [call EXCEPT ![c] = NoCall]
      BY <2>1, <2>3 DEF Confirmed
    <3> QED
      BY <3>1, <1>1, CallTyped, CallReplaced
  <2> QED
    BY <2>2, <2>3
<1>8. /\ CallSound(c)' /\ c \notin Waiting' /\ \A p : c \notin CallsFor(p)'
      /\ \A r : c \notin Storing(r)'
  BY <1>7, NoCallSound
<1>9. CallsSound'
  BY <1>1, <1>7, <1>8, OneCallSound
<1>10. /\ Waiting' \ {c} = Waiting \ {c}
       /\ \A p : CallsFor(p)' \ {c} = CallsFor(p) \ {c}
       /\ \A r : Storing(r)' \ {c} = Storing(r) \ {c}
  BY <1>1, <1>7, OthersAlike
<1>11. Waiting' = Waiting \ {c}
  BY <1>8, <1>10
<1>12. ASSUME NEW p PROVE CallsFor(p)' = CallsFor(p) \ {c}
  BY <1>8, <1>10
<1>13. ASSUME NEW r PROVE Storing(r)' = Storing(r)
  <2>1. c \notin Storing(r)
    BY <1>1 DEF Storing
  <2> QED
    BY <2>1, <1>8, <1>10
<1>14. Doubts'
  <2> SUFFICES ASSUME NEW r \in Row, SentOnceADoubt(r) PROVE SentOnceADoubt(r)'
    BY <1>1, ByParts, SamePage DEF Doubts
  <2>1. made[r] \in Nat /\ doubts[r] \in Nat /\ told[r] \in Nat /\ told'[r] \in Nat
        /\ Cardinality(Storing(r)) \in Nat
    BY <1>5, ByParts, StoringFinite DEF Rest
  <2>2. told[r] # 0 => told'[r] # 0
    <3>1. Does(call[c].op).effect # "send" => call[c].stamp > 0
      BY <1>1, <1>2 DEF CallSound
    <3> QED
      BY <3>1, <1>2, <1>3, <1>4, <1>5
  <2>3. AwaitsNew(r) => told'[r] # 0 \/ AwaitsNew(r)'
    <3>1. CASE call[c].new /\ call[c].row = r
      <4>1. call[c].op \in Creating
        BY <3>1, <1>2 DEF CallSound
      <4>2. Does(call[c].op).effect # "send"
        BY <4>1, PageDescribed DEF PageInv, PageTypeOK
      <4>3. call[c].stamp > 0 /\ told'[r] = call[c].stamp
        BY <3>1, <4>2, <1>1, <1>2, <1>4, <1>5 DEF CallSound
      <4> QED
        BY <4>3, <1>3
    <3>2. CASE ~(call[c].new /\ call[c].row = r)
      BY <3>2, <1>7, AwaitsKept
    <3> QED
      BY <3>1, <3>2
  <2>4. Storing(r)' = Storing(r) /\ made'[r] = made[r] /\ doubts'[r] = doubts[r]
    BY <1>1, <1>13
  <2> QED
    BY <2>1, <2>2, <2>3, <2>4 DEF SentOnceADoubt
<1> QED
  BY <1>1, <1>2, <1>3, <1>5, <1>6, <1>9, <1>11, <1>12, <1>14

(* One waits less, so there is a free slot for the load that may follow.   *)
LEMMA OneWaitsLess ==
  ASSUME PageInv, NEW c \in Waiting, Waiting' = Waiting \ {c}
  PROVE  /\ Cardinality(Waiting') = Cardinality(Waiting) - 1 /\ IdleLoads # {}
         /\ Cardinality(IdleLoads) \in Nat /\ Cardinality(Waiting) \in Nat
         /\ Cardinality(Waiting) <= Cardinality(IdleLoads)
<1>1. Cardinality(Waiting') = Cardinality(Waiting) - 1
  BY Bounds, FS_RemoveElement
<1>2. Cardinality(Waiting') \in Nat
  BY Bounds
<1>3. Cardinality(IdleLoads) # 0
  BY <1>1, <1>2, Bounds, ByParts DEF RoomLeft
<1> QED
  BY <1>1, <1>3, Bounds, ByParts, FS_EmptySet DEF RoomLeft

(* The handler awaits the load after its request: its flag stays up.       *)
LEMMA ReloadStep ==
  ASSUME PageInv, NEW c \in Calls, ThenReload(c)
  PROVE  PageInv'
<1>1. /\ Confirmed(c) /\ StartLoad(call[c].query, call[c].op)
      /\ UNCHANGED <<query, busy>>
  BY DEF ThenReload
<1>2. /\ c \in Waiting /\ call[c].op \in Op /\ call[c].row \in Row
      /\ call[c].query \in Query /\ CallsSound' /\ Waiting' = Waiting \ {c}
      /\ \A p : CallsFor(p)' = CallsFor(p) \ {c}
      /\ Doubts' /\ told' \in [Row -> Nat]
      /\ open' \in [op: Op \cup {None}, row: Row \cup {None}]
      /\ UNCHANGED <<page, stamp, clock, made, doubts, events>>
  BY <1>1, ConfirmedParts
<1>3. /\ Cardinality(Waiting') = Cardinality(Waiting) - 1 /\ IdleLoads # {}
      /\ Cardinality(IdleLoads) \in Nat /\ Cardinality(Waiting) \in Nat
      /\ Cardinality(Waiting) <= Cardinality(IdleLoads)
  BY <1>2, OneWaitsLess
<1>4. PICK o \in Op : o = call[c].op
  BY <1>2
<1>5. PICK q \in Query : q = call[c].query
  BY <1>2
<1>6. o # None
  BY PageDescribed DEF PageInv, PageTypeOK
<1>7. /\ LoadsSound' /\ Cardinality(IdleLoads') = Cardinality(IdleLoads) - 1
      /\ \A p \in Op : p # o => LoadsFor(p)' = LoadsFor(p)
      /\ \E l \in Loads : LoadsFor(o)' = LoadsFor(o) \cup {l}
  BY <1>1, <1>2, <1>3, <1>4, <1>5, <1>6, StartedFor
<1>8. RoomLeft'
  BY <1>3, <1>7 DEF RoomLeft
<1>9. Flags'
  <2> SUFFICES ASSUME NEW p \in Op, FlagAgrees(p) PROVE FlagAgrees(p)'
    BY <1>2, ByParts, SamePage DEF Flags
  <2>1. CASE p = o
    <3>1. c \in CallsFor(p)
      BY <2>1, <1>2, <1>4 DEF CallsFor
    <3>2. CallsFor(p)' = {} /\ LoadsFor(p) = {} /\ busy[p] # None
      BY <3>1, <1>2 DEF FlagAgrees
    <3>3. PICK l \in Loads : LoadsFor(p)' = {l}
      BY <2>1, <3>2, <1>7
    <3> QED
      BY <3>2, <3>3, <1>1 DEF FlagAgrees
  <2>2. CASE p # o
    <3>1. CallsFor(p)' = CallsFor(p) /\ LoadsFor(p)' = LoadsFor(p)
      BY <2>2, <1>2, <1>4, <1>7 DEF CallsFor
    <3> QED
      BY <3>1, <1>1, FlagKept
  <2> QED
    BY <2>1, <2>2
<1>10. crossed' \in BOOLEAN
  <2>1. (crossed \/ IdleLoads # Loads) \in BOOLEAN
    OBVIOUS
  <2> QED
    BY <2>1 DEF ThenReload
<1>11. Rest'
  BY <1>1, <1>2, <1>10, ByParts, SamePage DEF Rest, Query
<1> QED
  BY <1>2, <1>7, <1>8, <1>9, <1>11, ByParts

(* The handler does not wait for a load: its flag is down.                 *)
LEMMA GoesOn ==
  ASSUME PageInv, NEW c \in Calls, Confirmed(c), Finish(call[c].op),
         query' \in Query, crossed' \in BOOLEAN,
         \/ \E q \in Query : StartLoad(q, None)
         \/ load' = load /\ view' \in ViewState
  PROVE  PageInv'
<1>1. /\ c \in Waiting /\ call[c].op \in Op /\ call[c].row \in Row
      /\ CallsSound' /\ Waiting' = Waiting \ {c}
      /\ \A p : CallsFor(p)' = CallsFor(p) \ {c}
      /\ Doubts' /\ told' \in [Row -> Nat]
      /\ open' \in [op: Op \cup {None}, row: Row \cup {None}]
      /\ UNCHANGED <<page, stamp, clock, made, doubts, events>>
  BY ConfirmedParts
<1>2. /\ Cardinality(Waiting') = Cardinality(Waiting) - 1 /\ IdleLoads # {}
      /\ Cardinality(IdleLoads) \in Nat /\ Cardinality(Waiting) \in Nat
      /\ Cardinality(Waiting) <= Cardinality(IdleLoads)
  BY <1>1, OneWaitsLess
<1>3. LoadsSound' /\ RoomLeft' /\ \A p \in Op : LoadsFor(p)' = LoadsFor(p)
  <2>1. CASE \E q \in Query : StartLoad(q, None)
    <3>1. PICK q \in Query : StartLoad(q, None)
      BY <2>1
    <3>2. None \notin Op
      BY PageDescribed DEF PageInv, PageTypeOK
    <3>3. /\ LoadsSound' /\ Cardinality(IdleLoads') = Cardinality(IdleLoads) - 1
          /\ \A p \in Op : LoadsFor(p)' = LoadsFor(p)
      BY <3>1, <3>2, <1>1, <1>2, StartedFor
    <3> QED
      BY <3>3, <1>2 DEF RoomLeft
  <2>2. CASE load' = load /\ view' \in ViewState
    <3>1. LoadsSound' /\ IdleLoads' = IdleLoads
      BY <2>2, <1>1, LoadsKept
    <3>2. \A p : LoadsFor(p)' = LoadsFor(p)
      BY <2>2 DEF LoadsFor
    <3> QED
      BY <3>1, <3>2, <1>1, FewerWait
  <2> QED
    BY <2>1, <2>2
<1>4. Flags' /\ busy' \in [Op -> Row \cup {None}]
  BY <1>1, <1>3, FlagDown
<1>5. Rest'
  BY <1>1, <1>4, ByParts, SamePage DEF Rest, Query
<1> QED
  BY <1>1, <1>3, <1>4, <1>5, ByParts

LEMMA ConfirmedStep ==
  ASSUME PageInv, NEW c \in Calls,
         ThenRefresh(c) \/ ThenFirst(c) \/ ThenPatch(c) \/ ThenNothing(c)
  PROVE  PageInv'
<1>1. Confirmed(c) /\ Finish(call[c].op)
  BY DEF ThenRefresh, ThenFirst, ThenPatch, ThenNothing
<1>2. /\ call[c].op \in Op /\ call[c].row \in Row
      /\ call[c].query \in Query /\ call[c].stamp \in Nat
  BY <1>1, ConfirmedParts
<1>3. query \in Query /\ crossed \in BOOLEAN /\ view \in ViewState
  BY ByParts DEF Rest, LoadsSound
<1>4. /\ (crossed \/ IdleLoads # Loads) \in BOOLEAN
      /\ (crossed \/ query' = query \/ IdleLoads # Loads) \in BOOLEAN
  OBVIOUS
<1>5. query' \in Query /\ crossed' \in BOOLEAN
  <2>1. query' = query \/ query' = [query EXCEPT !.number = 1]
    BY DEF ThenRefresh, ThenFirst, ThenPatch, ThenNothing
  <2>2. query' \in Query
    BY <2>1, <1>3 DEF Query
  <2>3. crossed' \in BOOLEAN
    BY <1>3, <1>4 DEF ThenRefresh, ThenFirst, ThenPatch, ThenNothing
  <2> QED
    BY <2>2, <2>3
<1>6. \/ \E q \in Query : StartLoad(q, None)
      \/ load' = load /\ view' \in ViewState
  <2>1. CASE ThenRefresh(c)
    BY <2>1, <1>2 DEF ThenRefresh
  <2>2. CASE ThenFirst(c)
    <3>1. PICK q \in Query : q = query'
      BY <1>5
    <3>2. CASE query' = query
      BY <2>2, <3>2, <1>3 DEF ThenFirst
    <3>3. CASE query' # query
      <4>1. StartLoad(query', None)
        BY <2>2, <3>3 DEF ThenFirst
      <4> QED
        BY <3>1, <4>1
    <3> QED
      BY <3>2, <3>3
  <2>3. CASE ThenPatch(c)
    <3> DEFINE new == IF \/ Does(call[c].op).effect = "remove"
                         \/ /\ call[c].op \notin Creating
                            /\ view.shows[call[c].row] = 0
                      THEN 0 ELSE call[c].stamp
    <3>1. view' = [view EXCEPT !.shows[call[c].row] = new] /\ load' = load
      BY <2>3 DEF ThenPatch
    <3>2. new \in Nat
      BY <1>2
    <3> HIDE DEF new
    <3>3. [view.shows EXCEPT ![call[c].row] = new] \in [Row -> Nat]
      BY <3>2, <1>2, <1>3 DEF ViewState
    <3>4. view' = [view EXCEPT !.shows = [view.shows EXCEPT ![call[c].row] = new]]
      BY <3>1
    <3> QED
      BY <3>1, <3>3, <3>4, <1>3 DEF ViewState
  <2>4. CASE ThenNothing(c)
    BY <2>4, <1>3 DEF ThenNothing
  <2> QED
    BY <2>1, <2>2, <2>3, <2>4
<1> QED
  BY <1>1, <1>5, <1>6, GoesOn

-----------------------------------------------------------------------------
(* PageInv is inductive                                                    *)

(* Before anything was clicked: no load belongs to a handler, and nothing  *)
(* is stored, awaited or told.                                             *)
LEMMA FreshSound ==
  ASSUME page \in DOMAIN Page, stamp \in [Row -> Nat], clock \in Nat,
         made = Blank, told = Blank, query = Top, view \in ViewState,
         load \in [Loads -> LoadState],
         \A l \in Loads : load[l] = NoLoad \/ load[l].may # {},
         \A l \in Loads : load[l].owner = None,
         call = [c \in Calls |-> NoCall],
         open = NoForm, busy = [o \in Op |-> None], crossed = FALSE,
         doubts = Blank, events = 0
  PROVE  PageInv
<1>1. Rest
  <2>1. Blank \in [Row -> Nat] /\ Top \in Query
    BY DEF Blank, Top, Query
  <2>2. NoForm \in [op: Op \cup {None}, row: Row \cup {None}]
    BY DEF NoForm
  <2>3. busy \in [Op -> Row \cup {None}]
    OBVIOUS
  <2>4. events \in 0..MaxEvents
    BY DEF PageAssumption
  <2> QED
    BY <2>1, <2>2, <2>3, <2>4 DEF Rest
<1>2. LoadsSound
  BY DEF LoadsSound
<1>3. CallsSound
  BY DEF CallsSound, CallSound, NoCall, CallState, Top, Query
<1>4. Waiting = {} /\ (\A o : CallsFor(o) = {}) /\ \A r : Storing(r) = {}
  BY DEF Waiting, CallsFor, Storing, NoCall
<1>5. RoomLeft
  <2>1. Cardinality(Waiting) = 0
    BY <1>4, FS_EmptySet
  <2> QED
    BY <2>1, Bounds DEF RoomLeft
<1>6. Flags
  <2>1. None \notin Op
    BY PageDescribed
  <2>2. \A o \in Op : LoadsFor(o) = {} /\ busy[o] = None
    BY <2>1 DEF LoadsFor
  <2> QED
    BY <1>4, <2>2 DEF Flags, FlagAgrees
<1>7. Doubts
  <2> SUFFICES ASSUME NEW r \in Row PROVE SentOnceADoubt(r)
    BY DEF Doubts
  <2>1. made[r] = 0 /\ doubts[r] = 0 /\ Cardinality(Storing(r)) = 0
    BY <1>4, FS_EmptySet DEF Blank
  <2> QED
    BY <2>1 DEF SentOnceADoubt
<1> QED
  BY <1>1, <1>2, <1>3, <1>5, <1>6, <1>7, ByParts

LEMMA InitPageInv == PageInit => PageInv
<1> SUFFICES ASSUME PageInit PROVE PageInv
  OBVIOUS
<1>1. stamp \in [Row -> Nat] /\ view \in ViewState /\ Top \in Query
  BY DEF PageInit, ViewState, Blank, Top, Query
<1>2. Asked(Top, None) \in LoadState /\ NoLoad \in LoadState
  BY <1>1 DEF Asked, NoLoad, LoadState
<1>3. /\ Asked(Top, None).may # {}
      /\ Asked(Top, None).owner = None /\ NoLoad.owner = None
  BY DEF Asked, NoLoad
<1>4. \A l \in Loads : load[l] = Asked(Top, None) \/ load[l] = NoLoad
  BY DEF PageInit
<1>5. load \in [Loads -> LoadState]
  BY <1>2 DEF PageInit
<1>6. /\ page \in DOMAIN Page /\ clock \in Nat /\ made = Blank /\ told = Blank
      /\ query = Top /\ call = [c \in Calls |-> NoCall] /\ open = NoForm
      /\ busy = [o \in Op |-> None] /\ crossed = FALSE /\ doubts = Blank
      /\ events = 0
  BY DEF PageInit
<1> QED
  BY <1>1, <1>3, <1>4, <1>5, <1>6, FreshSound

LEMMA PageInvKept == PageInv /\ UNCHANGED pageVars => PageInv'
<1> SUFFICES ASSUME PageInv, UNCHANGED pageVars PROVE PageInv'
  OBVIOUS
<1>1. UNCHANGED <<page, stamp, clock, made, told, query, view, load, call,
                  open, busy, crossed, doubts, events>>
  BY DEF pageVars
<1>2. LoadsSound' /\ IdleLoads' = IdleLoads
  BY <1>1, LoadsKept, LoadTypes DEF LoadsSound
<1>3. /\ CallsSound' /\ Waiting' = Waiting
      /\ \A p : CallsFor(p)' = CallsFor(p)
      /\ \A s : Storing(s)' = Storing(s) /\ (AwaitsNew(s)' <=> AwaitsNew(s))
  BY <1>1, CallsKept
<1>4. \A p : LoadsFor(p)' = LoadsFor(p)
  BY <1>1 DEF LoadsFor
<1>5. RoomLeft' /\ Doubts'
  BY <1>1, <1>2, <1>3, ByParts, DoubtsKept DEF RoomLeft
<1>6. Flags'
  BY <1>1, <1>3, <1>4, ByParts, FlagKept, SamePage DEF Flags
<1>7. Rest'
  BY <1>1, ByParts, SamePage DEF Rest, Query
<1> QED
  BY <1>2, <1>3, <1>5, <1>6, <1>7, ByParts

LEMMA NextPageInv == PageInv /\ PageNext => PageInv'
<1> SUFFICES ASSUME PageInv, PageNext PROVE PageInv'
  OBVIOUS
<1>1. CASE Renew
  BY <1>1, TurnStep
<1>2. ASSUME NEW n \in 1..2, TurnPage(n) \/ Refilter(n) \/ RefilterTwice(n)
      PROVE  PageInv'
  BY <1>2, TurnStep, RefilterStep
<1>3. ASSUME NEW l \in Loads, LoadEnds(l) PROVE PageInv'
  BY <1>3, LoadEndsStep
<1>4. ASSUME NEW o \in Op, NEW r \in Row, Open(o, r) \/ Click(o, r) \/ Press(o, r)
      PROVE  PageInv'
  BY <1>4, OpenStep, SubmitStep DEF Click, Press
<1>5. CASE Dismiss
  BY <1>5, DismissStep
<1>6. ASSUME NEW c \in Calls, ServeCall(c) \/ Lost(c) \/ CallEnds(c)
      PROVE  PageInv'
  <2>1. CASE ServeCall(c) \/ Lost(c)
    BY <2>1, ServeStep, LostStep
  <2>2. CASE CallRefused(c) \/ GivesUp(c) \/ TailFails(c)
    BY <2>2, RefusalStep
  <2>3. CASE ThenReload(c)
    BY <2>3, ReloadStep
  <2>4. CASE ThenRefresh(c) \/ ThenFirst(c) \/ ThenPatch(c) \/ ThenNothing(c)
    BY <2>4, ConfirmedStep
  <2> QED
    BY <1>6, <2>1, <2>2, <2>3, <2>4 DEF CallEnds
<1>7. ASSUME NEW r \in Row, Elsewhere(r) PROVE PageInv'
  BY <1>7, ElsewhereStep
<1> QED
  BY <1>1, <1>2, <1>3, <1>4, <1>5, <1>6, <1>7 DEF PageNext

LEMMA PageInvInductive == PageInv /\ [PageNext]_pageVars => PageInv'
BY NextPageInv, PageInvKept

LEMMA DoubtFirst == PageInv => RepeatedOnlyInDoubt
<1> SUFFICES ASSUME PageInv, \A o \in Creating : Guarded(o), NEW r \in Row
             PROVE  made[r] <= 1 + doubts[r]
  BY DEF RepeatedOnlyInDoubt
<1>1. SentOnceADoubt(r)
  BY ByParts DEF Doubts
<1>2. made[r] \in Nat /\ doubts[r] \in Nat /\ Cardinality(Storing(r)) \in Nat
  BY ByParts, StoringFinite DEF Rest
<1> QED
  BY <1>1, <1>2 DEF SentOnceADoubt

(* On every page, whatever its handlers do and in whatever order answers,  *)
(* timeouts and other people's writes come, the flags that disable buttons *)
(* are up exactly while their handler is at work, and what was sent to be  *)
(* stored is accounted for.                                                *)
THEOREM PageConsistent == PageSpec => []PageInv
<1> QED
  BY InitPageInv, PageInvInductive, PTL DEF PageSpec

(* No draft is stored twice by a guarded handler unless an attempt failed  *)
(* that may have been done: one copy more for each such failure.           *)
THEOREM RepeatedIsDoubted == PageSpec => []RepeatedOnlyInDoubt
<1> QED
  BY PageConsistent, DoubtFirst, PTL

-----------------------------------------------------------------------------
(* The stamps: what the list, the answers to come and the user's news say  *)
(* of the rows is what the server did to them.                             *)

RowAgrees(r) == /\ stamp[r] <= clock /\ told[r] <= clock
                /\ stamp[r] = 0 \/ told[r] <= stamp[r]
                /\ stamp[r] > 0 => Stored(r)
NewIsNew(c) == call[c].new => call[c].row \notin Listed
SeenStored(shows) == \A r \in Row : shows[r] > 0 => Stored(r)

LEMMA StampParts ==
  /\ StampsAgree <=>
       /\ \A r \in Row : RowAgrees(r) /\ (Met(r) => Stored(r))
       /\ \A l \in Loads : \A shows \in load[l].may : SeenStored(shows)
       /\ \A c \in Calls : DoneAgrees(c) /\ NewIsNew(c)
  /\ (StampsAgree <=>
       /\ \A r \in Row : RowAgrees(r) /\ (Met(r) => Stored(r))
       /\ \A l \in Loads : \A shows \in load[l].may : SeenStored(shows)
       /\ \A c \in Calls : DoneAgrees(c) /\ NewIsNew(c))'
<1>1. StampsAgree <=>
       /\ \A r \in Row : RowAgrees(r) /\ (Met(r) => Stored(r))
       /\ \A l \in Loads : \A shows \in load[l].may : SeenStored(shows)
       /\ \A c \in Calls : DoneAgrees(c) /\ NewIsNew(c)
  BY DEF StampsAgree, RowAgrees, SeenStored, NewIsNew
<1> QED
  BY <1>1, PTL

LEMMA SameRows ==
  ASSUME UNCHANGED page
  PROVE  /\ Listed' = Listed /\ Creating' = Creating /\ LoadOf' = LoadOf
         /\ \A r : made'[r] = made[r] => (Stored(r)' <=> Stored(r))
BY DEF Listed, Creating, LoadOf, Stored, Op, Does

(* Whatever a step makes of a request, but a new one or one more done      *)
Kept(d) ==
  \/ call'[d] = NoCall
  \/ /\ call'[d].step = call[d].step /\ call'[d].op = call[d].op
     /\ call'[d].row = call[d].row /\ call'[d].stamp = call[d].stamp
     /\ call'[d].new = call[d].new /\ call'[d].query = call[d].query
     /\ call'[d].waits => call[d].waits

LEMMA NoCallFacts ==
  /\ NoCall.step = "idle" /\ NoCall.op = None /\ NoCall.row = None
  /\ NoCall.new = FALSE /\ NoCall.waits = FALSE
BY DEF NoCall

LEMMA NoFormFacts == NoForm.op = None /\ NoForm.row = None /\ None \notin Row
BY DEF NoForm

LEMMA KeptDone ==
  ASSUME StampsAgree, UNCHANGED <<page, stamp, clock, made>>,
         NEW d \in Calls, Kept(d)
  PROVE  DoneAgrees(d)' /\ NewIsNew(d)'
<1>1. DoneAgrees(d) /\ NewIsNew(d)
  BY StampParts
<1>2. CASE call'[d] = NoCall
  BY <1>2, NoCallFacts DEF DoneAgrees, NewIsNew
<1>3. CASE call'[d] # NoCall
  <2>1. /\ call'[d].step = call[d].step /\ call'[d].op = call[d].op
        /\ call'[d].row = call[d].row /\ call'[d].stamp = call[d].stamp
        /\ call'[d].new = call[d].new
    BY <1>3 DEF Kept
  <2>2. NewIsNew(d)'
    BY <1>1, <2>1, SameRows DEF NewIsNew
  <2>3. Listed' = Listed
    BY SameRows
  <2>4. DoneAgrees(d)'
    BY <1>1, <2>1, <2>3 DEF DoneAgrees, Does, Stored
  <2> QED
    BY <2>2, <2>4
<1> QED
  BY <1>2, <1>3

LEMMA KeptWaits ==
  ASSUME UNCHANGED page, NEW d \in Calls, Kept(d), d \in Waiting', Reloads(d)'
  PROVE  d \in Waiting /\ Reloads(d) /\ call'[d].query = call[d].query
<1>1. call'[d].waits
  BY DEF Waiting
<1>2. /\ call'[d].op = call[d].op /\ call'[d].query = call[d].query
      /\ call[d].waits
  BY <1>1, NoCallFacts DEF Kept
<1> QED
  BY <1>2 DEF Waiting, Reloads, Does

(* The user has met no row but through the list, what was told, a form or  *)
(* a request.                                                              *)
LEMMA MetLess ==
  ASSUME PageInv, UNCHANGED page, NEW r \in Row, Met(r)',
         view'.shows[r] = 0 \/ view'.shows[r] = view.shows[r],
         told'[r] = told[r],
         \/ open' = open \/ open' = NoForm
         \/ open'.row = r /\ open'.op \notin Creating => Met(r),
         \A d \in Calls : \/ Kept(d)
                          \/ call'[d].row = call[d].row /\ call'[d].op = call[d].op
                          \/ call'[d].row = r /\ call'[d].op \notin Creating => Met(r)
  PROVE  Met(r)
<1>1. None # r /\ NoForm.row = None
  BY NoFormFacts
<1>2. CASE r \in Listed' \/ view'.shows[r] > 0 \/ told'[r] # 0
  BY <1>2, SameRows DEF Met
<1>3. CASE open'.row = r /\ open'.op \notin Creating'
  BY <1>1, <1>3, SameRows DEF Met
<1>4. ASSUME NEW d \in Calls, call'[d].row = r /\ call'[d].op \notin Creating'
      PROVE  Met(r)
  BY <1>1, <1>4, SameRows, NoCallFacts DEF Met, Kept
<1> QED
  BY <1>2, <1>3, <1>4 DEF Met, Calls

(* Steps the server has no part in                                         *)
Silent == UNCHANGED <<page, stamp, clock, made>>

LEMMA SilentStamps ==
  ASSUME PageInv, StampsAgree, Silent,
         \A r \in Row : /\ told'[r] <= clock
                        /\ stamp[r] = 0 \/ told'[r] <= stamp[r]
                        /\ Met(r)' => Stored(r),
         \A l \in Loads : \A shows \in load'[l].may :
           shows = stamp \/ \E k \in Loads : shows \in load[k].may,
         \A c \in Calls : DoneAgrees(c)' /\ NewIsNew(c)'
  PROVE  StampsAgree'
<1>1. \A r : Stored(r)' <=> Stored(r)
  BY SameRows DEF Silent
<1>2. ASSUME NEW r \in Row PROVE RowAgrees(r)' /\ (Met(r)' => Stored(r)')
  BY <1>1, StampParts DEF Silent, RowAgrees
<1>3. SeenStored(stamp)
  BY StampParts DEF RowAgrees, SeenStored
<1>4. ASSUME NEW l \in Loads', NEW shows \in load'[l].may PROVE SeenStored(shows)'
  <2>1. l \in Loads
    BY DEF Loads
  <2>2. SeenStored(shows)
    BY <1>3, <2>1, StampParts
  <2> QED
    BY <2>2, <1>1 DEF SeenStored
<1>5. \A c \in Calls' : DoneAgrees(c)' /\ NewIsNew(c)'
  BY DEF Calls
<1> QED
  BY <1>2, <1>4, <1>5, StampParts

LEMMA MetStored ==
  ASSUME PageInv, StampsAgree, UNCHANGED page, NEW r \in Row,
         view'.shows[r] > 0 \/ told'[r] # 0 => Stored(r),
         \/ open' = open \/ open' = NoForm
         \/ open'.row = r /\ open'.op \notin Creating => Stored(r),
         \A d \in Calls : \/ Kept(d)
                          \/ call'[d].row = r /\ call'[d].op \notin Creating
                             => Stored(r)
  PROVE  Met(r)' => Stored(r)
<1> SUFFICES ASSUME Met(r)' PROVE Stored(r)
  OBVIOUS
<1>1. None # r /\ NoForm.row = None /\ (Met(r) => Stored(r))
  BY NoFormFacts, StampParts
<1>2. CASE r \in Listed'
  BY <1>2, SameRows DEF Stored
<1>3. CASE open'.row = r /\ open'.op \notin Creating'
  BY <1>1, <1>3, SameRows DEF Met
<1>4. ASSUME NEW d \in Calls, call'[d].row = r /\ call'[d].op \notin Creating'
      PROVE  Stored(r)
  BY <1>1, <1>4, SameRows, NoCallFacts DEF Met, Kept
<1> QED
  BY <1>2, <1>3, <1>4 DEF Met, Calls

-----------------------------------------------------------------------------
(* What the steps make of the requests                                     *)

LEMMA SameKept ==
  ASSUME call' = call
  PROVE  \A d \in Calls : Kept(d)
BY DEF Kept

LEMMA OrphanedKept ==
  ASSUME PageInv, NEW o, NEW d \in Calls, call'[d] = Orphaned(o)[d]
  PROVE  Kept(d)
<1>1. Orphaned(o)[d] = [call[d] EXCEPT !.form = @ /\ call[d].op # o]
  BY DEF Orphaned
<1>2. call[d] \in CallState
  BY CallTyped
<1> QED
  BY <1>1, <1>2 DEF Kept, CallState

LEMMA DismissKept ==
  ASSUME PageInv, Dismiss
  PROVE  \A d \in Calls : Kept(d)
<1>1. PICK o : o = open.op
  OBVIOUS
<1>2. call' = Orphaned(o)
  BY <1>1 DEF Dismiss
<1> QED
  BY <1>2, OrphanedKept

LEMMA ReplacedKept ==
  ASSUME PageInv, NEW c \in Calls, NEW x, call' = [call EXCEPT ![c] = x],
         \/ x = NoCall
         \/ x = [call[c] EXCEPT !.waits = FALSE, !.form = FALSE]
  PROVE  \A d \in Calls : Kept(d)
<1>1. call \in [Calls -> CallState] /\ call[c] \in CallState
  BY CallTyped
<1>2. call'[c] = x /\ \A d \in Calls \ {c} : call'[d] = call[d]
  BY <1>1
<1>3. Kept(c)
  BY <1>1, <1>2 DEF Kept, CallState
<1> QED
  BY <1>2, <1>3 DEF Kept

LEMMA EndedKept ==
  ASSUME PageInv, NEW c \in Calls,
         CallRefused(c) \/ GivesUp(c) \/ TailFails(c) \/ Lost(c)
  PROVE  \A d \in Calls : Kept(d)
<1>1. CASE call' = [call EXCEPT ![c] = NoCall]
  BY <1>1, ReplacedKept
<1>2. CASE GivesUp(c)
  <2>1. PICK x : x = IF call[c].step = "sent"
                     THEN [call[c] EXCEPT !.waits = FALSE, !.form = FALSE]
                     ELSE NoCall
    OBVIOUS
  <2>2. call' = [call EXCEPT ![c] = x]
    BY <1>2, <2>1 DEF GivesUp
  <2> QED
    BY <2>1, <2>2, ReplacedKept
<1> QED
  BY <1>1, <1>2 DEF CallRefused, TailFails, Lost

LEMMA ConfirmedKept ==
  ASSUME PageInv, NEW c \in Calls, Confirmed(c)
  PROVE  \A d \in Calls : Kept(d)
<1>1. PICK o : o = call[c].op
  OBVIOUS
<1>2. CASE Does(o).closes
  <2>1. call' = [Orphaned(o) EXCEPT ![c] = NoCall]
    BY <1>1, <1>2 DEF Confirmed
  <2>2. Orphaned(o) = [d \in Calls |->
                         [call[d] EXCEPT !.form = @ /\ call[d].op # o]]
    BY DEF Orphaned
  <2>3. call'[c] = NoCall /\ \A d \in Calls \ {c} : call'[d] = Orphaned(o)[d]
    BY <2>1, <2>2
  <2> QED
    BY <2>3, OrphanedKept DEF Kept
<1>3. CASE ~Does(o).closes
  <2>1. call' = [call EXCEPT ![c] = NoCall]
    BY <1>1, <1>3 DEF Confirmed
  <2> QED
    BY <2>1, ReplacedKept
<1> QED
  BY <1>2, <1>3

(* What the user is told was done, and the row it was done to is stored.   *)
LEMMA ConfirmedTold ==
  ASSUME PageInv, StampsAgree, NEW c \in Calls, Confirmed(c)
  PROVE  /\ call[c].step = "done" /\ call[c].op \in Op /\ call[c].row \in Row
         /\ Silent /\ (open' = open \/ open' = NoForm)
         /\ Does(call[c].op).effect = "send" => told' = told
         /\ Does(call[c].op).effect # "send" =>
              /\ call[c].stamp > 0 /\ told'[call[c].row] = call[c].stamp
              /\ Stored(call[c].row)
         /\ \A r \in Row : r # call[c].row => told'[r] = told[r]
         /\ \A r \in Row : /\ told'[r] <= clock
                           /\ stamp[r] = 0 \/ told'[r] <= stamp[r]
                           /\ told'[r] # 0 => Stored(r)
<1>1. call[c].step = "done" /\ Silent /\ (open' = open \/ open' = NoForm)
  BY DEF Confirmed, Silent, server
<1>2. call[c].op \in Op /\ call[c].row \in Row /\ CallSound(c)
  BY <1>1, CallTyped, CallFacts
<1>3. told \in [Row -> Nat]
  BY ByParts DEF Rest
<1>4. \A r \in Row : RowAgrees(r) /\ (told[r] # 0 => Stored(r))
  BY StampParts DEF Met
<1>5. CASE Does(call[c].op).effect = "send"
  <2>1. told' = told
    BY <1>5 DEF Confirmed
  <2> QED
    BY <2>1, <1>1, <1>2, <1>4, <1>5 DEF RowAgrees
<1>6. CASE Does(call[c].op).effect # "send"
  <2>1. told' = [told EXCEPT ![call[c].row] = call[c].stamp]
    BY <1>6 DEF Confirmed
  <2>2. told'[call[c].row] = call[c].stamp
        /\ \A r \in Row : r # call[c].row => told'[r] = told[r]
    BY <2>1, <1>2, <1>3
  <2>3. DoneAgrees(c)
    BY StampParts
  <2>4. /\ Stored(call[c].row) /\ call[c].stamp <= clock
        /\ stamp[call[c].row] = 0 \/ call[c].stamp <= stamp[call[c].row]
    BY <2>3, <1>1, <1>6 DEF DoneAgrees
  <2>5. call[c].stamp > 0
    BY <1>1, <1>2, <1>6 DEF CallSound
  <2>6. \A r \in Row : /\ told'[r] <= clock
                       /\ stamp[r] = 0 \/ told'[r] <= stamp[r]
                       /\ told'[r] # 0 => Stored(r)
    BY <2>2, <2>4, <1>4 DEF RowAgrees
  <2> QED
    BY <2>2, <2>4, <2>5, <2>6, <1>1, <1>2, <1>6
<1> QED
  BY <1>5, <1>6

-----------------------------------------------------------------------------
(* What the steps make of the list and of the loads                        *)

(* The list shows what it did, or nothing.                                 *)
ShowsLess == \A r \in Row : view'.shows[r] \in {0, view.shows[r]}

(* Loads end, go on, or start with what the server has.                    *)
MayLess == \A l \in Loads : \A shows \in load'[l].may :
             shows = stamp \/ \E k \in Loads : shows \in load[k].may

LEMMA StartedShows ==
  ASSUME PageInv,
         view' = [view EXCEPT !.error = @ /\ ~LoadOf.clears,
                              !.shows = IF LoadOf.blanks THEN Blank ELSE @]
  PROVE  /\ ShowsLess /\ (LoadOf.clears => ~view'.error)
         /\ view'.query = view.query /\ view'.last = view.last
<1>1. view \in ViewState
  BY ByParts DEF LoadsSound
<1>2. view'.shows = IF LoadOf.blanks THEN Blank ELSE view.shows
  BY <1>1 DEF ViewState
<1>3. ShowsLess
  BY <1>2 DEF ShowsLess, Blank
<1>4. view'.error = (view.error /\ ~LoadOf.clears)
  BY <1>1 DEF ViewState
<1>5. view'.query = view.query /\ view'.last = view.last
  BY <1>1 DEF ViewState
<1> QED
  BY <1>3, <1>4, <1>5

LEMMA StartedMay ==
  ASSUME PageInv, NEW q \in Query, NEW o \in Op \cup {None},
         StartLoad(q, o), IdleLoads # {}, UNCHANGED page
  PROVE  MayLess /\ ShowsLess
<1>1. PICK l \in IdleLoads :
        /\ load'[l] = Asked(q, o)
        /\ \A k \in Loads \ {l} : load'[k] = load[k]
  BY Started
<1>2. Asked(q, o).may = {stamp}
  BY DEF Asked
<1>3. MayLess
  BY <1>1, <1>2 DEF MayLess
<1> QED
  BY <1>3, StartedShows DEF StartLoad

LEMMA TwoLoadsMay ==
  ASSUME PageInv, NEW f \in 1..2, RefilterTwice(f)
  PROVE  MayLess /\ ShowsLess
<1> DEFINE l == Slot(IdleLoads)
           k == Slot(IdleLoads \ {l})
           a == Asked([query EXCEPT !.filter = f], None)
           b == Asked(query', None)
<1>1. load' = [load EXCEPT ![l] = a, ![k] = b]
  BY DEF RefilterTwice
<1>2. a.may = {stamp} /\ b.may = {stamp}
  BY DEF Asked
<1> HIDE DEF l, k, a, b
<1>3. ASSUME NEW i \in Loads
      PROVE  load'[i] = a \/ load'[i] = b \/ load'[i] = load[i]
  BY <1>1, LoadTypes DEF LoadsSound
<1>4. MayLess
  BY <1>2, <1>3 DEF MayLess
<1> QED
  BY <1>4, StartedShows DEF RefilterTwice

LEMMA EndedMay ==
  ASSUME PageInv, NEW l \in Loads, load' = [load EXCEPT ![l] = NoLoad]
  PROVE  MayLess
<1>1. NoLoad.may = {}
  BY DEF NoLoad
<1>2. load'[l] = NoLoad /\ \A k \in Loads \ {l} : load'[k] = load[k]
  BY LoadTypes DEF LoadsSound
<1> QED
  BY <1>1, <1>2 DEF MayLess

LEMMA SameMay ==
  ASSUME load' = load
  PROVE  MayLess
BY DEF MayLess

-----------------------------------------------------------------------------
(* StampsAgree is inductive                                                *)

(* A step of the page alone: nothing new is told, and the list shows less, *)
(* or what a load or a request brought.                                    *)
LEMMA PageStamps ==
  ASSUME PageInv, StampsAgree, Silent, MayLess, told' = told,
         \A r \in Row : view'.shows[r] > 0 => Stored(r),
         \/ open' = open \/ open' = NoForm
         \/ open'.op \notin Creating => open'.row \in Row /\ Stored(open'.row),
         \A d \in Calls :
           \/ Kept(d)
           \/ /\ DoneAgrees(d)' /\ NewIsNew(d)'
              /\ call'[d].op \notin Creating => Stored(call'[d].row)
  PROVE  StampsAgree'
<1>1. \A r \in Row : RowAgrees(r) /\ (told[r] # 0 => Stored(r))
  BY StampParts DEF Met
<1>2. ASSUME NEW r \in Row PROVE Met(r)' => Stored(r)
  <2>1. view'.shows[r] > 0 \/ told'[r] # 0 => Stored(r)
    BY <1>1
  <2> QED
    BY <2>1, MetStored DEF Silent
<1>3. \A d \in Calls : DoneAgrees(d)' /\ NewIsNew(d)'
  BY KeptDone DEF Silent
<1> QED
  BY <1>1, <1>2, <1>3, SilentStamps DEF MayLess, RowAgrees

(* What the list shows is stored.                                          *)
LEMMA ShownStored ==
  ASSUME PageInv, StampsAgree
  PROVE  /\ \A r \in Row : view.shows[r] \in Nat /\ (view.shows[r] > 0 => Stored(r))
         /\ ShowsLess => \A r \in Row : view'.shows[r] > 0 => Stored(r)
<1>1. view \in ViewState
  BY ByParts DEF LoadsSound
<1>2. \A r \in Row : view.shows[r] \in Nat /\ (view.shows[r] > 0 => Stored(r))
  BY <1>1, StampParts DEF Met, ViewState
<1> QED
  BY <1>2 DEF ShowsLess

LEMMA EffectStamps ==
  ASSUME PageInv, StampsAgree, NEW n \in 1..2,
         Renew \/ TurnPage(n) \/ Refilter(n) \/ RefilterTwice(n)
  PROVE  StampsAgree'
<1>1. Silent /\ told' = told /\ open' = open /\ call' = call
  BY DEF Renew, TurnPage, Refilter, RefilterTwice, Silent, server
<1>2. MayLess /\ ShowsLess
  <2>1. CASE RefilterTwice(n)
    BY <2>1, TwoLoadsMay
  <2>2. CASE Renew \/ TurnPage(n) \/ Refilter(n)
    <3>1. Room(1) /\ StartLoad(query', None)
      BY <2>2 DEF TurnPage, Refilter, Renew
    <3>2. query' \in Query
      BY <2>2, ByParts DEF TurnPage, Refilter, Renew, Rest, Query
    <3>3. IdleLoads # {}
      BY <3>1, RoomIsFree
    <3>4. PICK q \in Query : q = query'
      BY <3>2
    <3>5. StartLoad(q, None) /\ page' = page
      BY <1>1, <3>1, <3>4 DEF Silent
    <3> QED
      BY <3>3, <3>5, StartedMay
  <2> QED
    BY <2>1, <2>2
<1> QED
  BY <1>1, <1>2, SameKept, ShownStored, PageStamps

LEMMA LoadEndsStamps ==
  ASSUME PageInv, StampsAgree, NEW l \in Loads, LoadEnds(l)
  PROVE  StampsAgree'
<1>1. /\ Silent /\ told' = told /\ open' = open /\ call' = call
      /\ load' = [load EXCEPT ![l] = NoLoad]
  BY DEF LoadEnds, LoadAnswered, LoadFails, Silent, server
<1>2. \A r \in Row : view'.shows[r] > 0 => Stored(r)
  <2>1. view \in ViewState
    BY ByParts DEF LoadsSound
  <2>2. CASE LoadAnswered(l)
    <3>1. PICK shows \in load[l].may :
            view' = [view EXCEPT !.shows = shows, !.query = load[l].query,
                                 !.last = "ok"]
      BY <2>2 DEF LoadAnswered
    <3>2. view'.shows = shows
      BY <3>1, <2>1 DEF ViewState
    <3>3. SeenStored(shows)
      BY <3>1, StampParts
    <3> QED
      BY <3>2, <3>3 DEF SeenStored
  <2>3. CASE LoadFails(l)
    <3>1. view' = [view EXCEPT !.last = "failed",
                     !.error = @ \/ LoadOf.fails \in {"error", "notice"},
                     !.shows = IF LoadOf.fails = "empty" THEN Blank ELSE @]
      BY <2>3 DEF LoadFails
    <3>2. view'.shows = IF LoadOf.fails = "empty" THEN Blank ELSE view.shows
      BY <3>1, <2>1 DEF ViewState
    <3>3. ShowsLess
      BY <3>2 DEF ShowsLess, Blank
    <3> QED
      BY <3>3, ShownStored
  <2> QED
    BY <2>2, <2>3 DEF LoadEnds
<1> QED
  BY <1>1, <1>2, EndedMay, SameKept, PageStamps

(* What is opened, pressed or clicked for a row that is not new, the user  *)
(* has met.                                                                *)
LEMMA TargetMet ==
  ASSUME PageInv, NEW o \in Op \ Creating, NEW r \in Target(o)
  PROVE  r \in Row /\ Met(r)
BY DEF Target, Met

LEMMA SubmittedMet ==
  ASSUME PageInv, NEW o \in Op, NEW r \in Row, Click(o, r) \/ Press(o, r),
         o \notin Creating
  PROVE  Met(r)
<1>1. CASE Click(o, r)
  <2>1. open.op = o /\ open.row = r
    BY <1>1 DEF Click
  <2> QED
    BY <2>1 DEF Met
<1>2. CASE Press(o, r)
  BY <1>2, TargetMet DEF Press
<1> QED
  BY <1>1, <1>2

LEMMA OpenStamps ==
  ASSUME PageInv, StampsAgree, NEW o \in Op, NEW r \in Row, Open(o, r)
  PROVE  StampsAgree'
<1>1. /\ Silent /\ told' = told /\ call' = call /\ load' = load /\ view' = view
      /\ open' = [op |-> o, row |-> r] /\ r \in Target(o)
  BY DEF Open, Keep, Silent, server
<1>2. o \notin Creating => Stored(r)
  BY <1>1, TargetMet, StampParts
<1> QED
  BY <1>1, <1>2, SameKept, SameMay, ShownStored, PageStamps

LEMMA DismissStamps ==
  ASSUME PageInv, StampsAgree, Dismiss
  PROVE  StampsAgree'
<1>1. /\ Silent /\ told' = told /\ load' = load /\ view' = view
      /\ open' = NoForm
  BY DEF Dismiss, Keep, Silent, server
<1> QED
  BY <1>1, DismissKept, SameMay, ShownStored, PageStamps

(* The one request that is new                                             *)
LEMMA SubmittedCalls ==
  ASSUME PageInv, NEW o \in Op, NEW r \in Row, Submit(o, r)
  PROVE  \E c \in Calls :
           /\ call'[c].step = "sent" /\ call'[c].op = o /\ call'[c].row = r
           /\ call'[c].query = query
           /\ call'[c].new => r \notin Listed
           /\ \A d \in Calls \ {c} : Kept(d)
<1> DEFINE c == Slot(IdleCalls)
           n == [step |-> "sent", op |-> o, row |-> r, stamp |-> 0,
                 query |-> query, new |-> o \in Creating /\ New(r),
                 form |-> Does(o).busy = "form", waits |-> TRUE]
<1>1. c \in IdleCalls
  <2>1. IdleCalls \subseteq Nat /\ IdleCalls # {}
    BY DEF Submit, IdleCalls, Calls
  <2> QED
    BY <2>1, SlotIsIn
<1>2. call' = [call EXCEPT ![c] = n]
  BY DEF Submit
<1>3. /\ n.step = "sent" /\ n.op = o /\ n.row = r /\ n.query = query
      /\ n.new => r \notin Listed
  BY DEF New
<1> HIDE DEF c, n
<1>4. PICK i \in Calls : i = c
  BY <1>1 DEF IdleCalls
<1>5. call'[i] = n /\ \A d \in Calls \ {i} : call'[d] = call[d]
  BY <1>2, <1>4, CallTyped
<1> QED
  BY <1>3, <1>5 DEF Kept

LEMMA SubmitView ==
  ASSUME PageInv, NEW o, NEW r, Submit(o, r)
  PROVE  /\ view'.shows = view.shows /\ view'.query = view.query
         /\ view'.last = view.last /\ (view'.error => view.error)
<1>1. view \in ViewState /\ view' = [view EXCEPT !.error = @ /\ Does(o).tells # "fresh"]
  BY ByParts DEF Submit, LoadsSound
<1> QED
  BY <1>1 DEF ViewState

LEMMA SubmitStamps ==
  ASSUME PageInv, StampsAgree, NEW o \in Op, NEW r \in Row,
         Click(o, r) \/ Press(o, r)
  PROVE  StampsAgree'
<1>1. Submit(o, r)
  BY DEF Click, Press
<1>2. /\ Silent /\ told' = told /\ open' = open /\ load' = load
  BY <1>1 DEF Submit, Silent, server
<1>3. PICK c \in Calls :
        /\ call'[c].step = "sent" /\ call'[c].op = o /\ call'[c].row = r
        /\ call'[c].new => r \notin Listed
        /\ \A d \in Calls \ {c} : Kept(d)
  BY <1>1, SubmittedCalls
<1>4. DoneAgrees(c)' /\ NewIsNew(c)'
  <2>1. NewIsNew(c)'
    BY <1>2, <1>3, SameRows DEF NewIsNew, Silent
  <2> QED
    BY <2>1, <1>3 DEF DoneAgrees
<1>5. call'[c].op \notin Creating => Stored(call'[c].row)
  BY <1>3, SubmittedMet, StampParts
<1>6. \A s \in Row : view'.shows[s] > 0 => Stored(s)
  BY <1>1, SubmitView, ShownStored
<1> QED
  BY <1>2, <1>3, <1>4, <1>5, <1>6, SameMay, PageStamps

LEMMA FailsView ==
  ASSUME PageInv, NEW c, Fails(c)
  PROVE  /\ view'.shows = view.shows /\ view'.query = view.query
         /\ \/ view' = view /\ crossed' = crossed
            \/ view'.last = "failed" /\ crossed' = (crossed \/ IdleLoads # Loads)
         /\ open' = open \/ open' = NoForm
<1>1. view \in ViewState
  BY ByParts DEF LoadsSound
<1>2. CASE view' = view /\ crossed' = crossed
  BY <1>2 DEF Fails
<1>3. CASE /\ view' = [view EXCEPT !.error = TRUE, !.last = "failed"]
           /\ crossed' = (crossed \/ IdleLoads # Loads)
  BY <1>1, <1>3 DEF Fails, ViewState
<1> QED
  BY <1>2, <1>3 DEF Fails

LEMMA FailsStamps ==
  ASSUME PageInv, StampsAgree, NEW c \in Calls,
         CallRefused(c) \/ GivesUp(c) \/ TailFails(c)
  PROVE  StampsAgree'
<1>1. Fails(c)
  BY DEF CallRefused, GivesUp, TailFails
<1>2. Silent /\ told' = told /\ load' = load
  BY <1>1 DEF Fails, Silent, server
<1>3. \A r \in Row : view'.shows[r] > 0 => Stored(r)
  BY <1>1, FailsView, ShownStored
<1> QED
  BY <1>1, <1>2, <1>3, FailsView, EndedKept, SameMay, PageStamps

LEMMA LostStamps ==
  ASSUME PageInv, StampsAgree, NEW c \in Calls, Lost(c)
  PROVE  StampsAgree'
<1>1. /\ Silent /\ told' = told /\ load' = load /\ view' = view /\ open' = open
  BY DEF Lost, Keep, Silent, server
<1> QED
  BY <1>1, EndedKept, SameMay, ShownStored, PageStamps

CallThen(c) == \/ ThenReload(c) \/ ThenRefresh(c) \/ ThenFirst(c)
               \/ ThenPatch(c) \/ ThenNothing(c)

(* The load that a handler starts, and the one the effect starts for it    *)
LEMMA ThenLoads ==
  ASSUME PageInv, NEW c \in Calls,
         ThenReload(c) \/ ThenRefresh(c) \/ ThenFirst(c)
  PROVE  /\ Confirmed(c) /\ IdleLoads # {} /\ page' = page
         /\ call[c].query \in Query /\ call[c].op \in Op \cup {None}
         /\ query' \in Query
         /\ \/ ThenReload(c) /\ StartLoad(call[c].query, call[c].op)
            \/ ThenRefresh(c) /\ StartLoad(call[c].query, None)
            \/ ThenFirst(c) /\ query' # query /\ StartLoad(query', None)
            \/ ThenFirst(c) /\ query' = query /\ load' = load /\ view' = view
<1>1. Confirmed(c)
  BY DEF ThenReload, ThenRefresh, ThenFirst
<1>2. /\ c \in Waiting /\ Waiting' = Waiting \ {c} /\ page' = page
      /\ call[c].op \in Op /\ call[c].query \in Query
  BY <1>1, ConfirmedParts
<1>3. IdleLoads # {}
  BY <1>2, OneWaitsLess
<1>4. query' \in Query
  BY ByParts DEF ThenReload, ThenRefresh, ThenFirst, Rest, Query
<1>5. CASE ThenReload(c)
  BY <1>5, <1>1, <1>2, <1>3, <1>4 DEF ThenReload
<1>6. CASE ThenRefresh(c)
  BY <1>6, <1>1, <1>2, <1>3, <1>4 DEF ThenRefresh
<1>7. CASE ThenFirst(c)
  BY <1>7, <1>1, <1>2, <1>3, <1>4 DEF ThenFirst
<1> QED
  BY <1>5, <1>6, <1>7

(* The row of an answer, in the list                                       *)
LEMMA PatchView ==
  ASSUME PageInv, NEW c \in Calls, ThenPatch(c)
  PROVE  /\ Confirmed(c) /\ load' = load /\ query' = query
         /\ view'.query = view.query /\ view'.error = view.error
         /\ view'.last = view.last
         /\ \A r \in Row : r # call[c].row => view'.shows[r] = view.shows[r]
         /\ view'.shows[call[c].row] =
              IF \/ Does(call[c].op).effect = "remove"
                 \/ call[c].op \notin Creating /\ view.shows[call[c].row] = 0
              THEN 0 ELSE call[c].stamp
<1> DEFINE new == IF \/ Does(call[c].op).effect = "remove"
                     \/ /\ call[c].op \notin Creating
                        /\ view.shows[call[c].row] = 0
                  THEN 0 ELSE call[c].stamp
<1>1. /\ Confirmed(c) /\ load' = load /\ query' = query
      /\ view' = [view EXCEPT !.shows[call[c].row] = new]
  BY DEF ThenPatch
<1>2. view \in ViewState /\ call[c].row \in Row
  BY <1>1, ByParts, ConfirmedParts DEF LoadsSound
<1>3. new = IF \/ Does(call[c].op).effect = "remove"
               \/ call[c].op \notin Creating /\ view.shows[call[c].row] = 0
            THEN 0 ELSE call[c].stamp
  OBVIOUS
<1> HIDE DEF new
<1>4. view' = [view EXCEPT !.shows = [view.shows EXCEPT ![call[c].row] = new]]
  BY <1>1
<1>5. /\ view'.shows = [view.shows EXCEPT ![call[c].row] = new]
      /\ view'.query = view.query /\ view'.error = view.error
      /\ view'.last = view.last
  BY <1>2, <1>4 DEF ViewState
<1>6. view.shows \in [Row -> Nat]
  BY <1>2 DEF ViewState
<1>7. /\ \A r \in Row : r # call[c].row => view'.shows[r] = view.shows[r]
      /\ view'.shows[call[c].row] = new
  BY <1>2, <1>5, <1>6
<1> QED
  BY <1>1, <1>3, <1>5, <1>7

LEMMA PageRefreshes ==
  ASSUME PageInv, NEW o \in Op
  PROVE  /\ Does(o).then = "nothing" => Does(o).effect = "send"
         /\ Does(o).then = "patch" => Does(o).effect # "send"
         /\ Does(o).then = "first" => \A q \in Op : Does(q).then \notin {"reload", "refresh"}
<1>1. page \in DOMAIN Page
  BY ByParts DEF Rest
<1>2. Refreshes(Page[page])
  BY <1>1 DEF IsPage
<1> QED
  BY <1>2 DEF Refreshes, Op, Does

LEMMA ConfirmedStamps ==
  ASSUME PageInv, StampsAgree, NEW c \in Calls, CallThen(c)
  PROVE  StampsAgree'
<1>1. Confirmed(c)
  BY DEF CallThen, ThenReload, ThenRefresh, ThenFirst, ThenPatch, ThenNothing
<1>2. /\ Silent /\ (open' = open \/ open' = NoForm)
      /\ \A r \in Row : /\ told'[r] <= clock
                        /\ stamp[r] = 0 \/ told'[r] <= stamp[r]
                        /\ told'[r] # 0 => Stored(r)
  BY <1>1, ConfirmedTold
<1>3. MayLess /\ \A r \in Row : view'.shows[r] > 0 => Stored(r)
  <2>1. CASE ThenReload(c) \/ ThenRefresh(c) \/ ThenFirst(c)
    <3>1. CASE load' = load /\ view' = view
      BY <3>1, SameMay, ShownStored
    <3>2. CASE ~(load' = load /\ view' = view)
      <4>1. PICK q \in Query, o \in Op \cup {None} : StartLoad(q, o)
        <5>1. PICK q \in Query : q = query'
          BY <2>1, ThenLoads
        <5> QED
          BY <2>1, <3>2, <5>1, ThenLoads
      <4>2. MayLess /\ ShowsLess
        BY <2>1, <4>1, ThenLoads, StartedMay
      <4> QED
        BY <4>2, ShownStored
    <3> QED
      BY <3>1, <3>2
  <2>2. CASE ThenPatch(c)
    <3>1. MayLess
      BY <2>2, SameMay, PatchView
    <3>2. Does(call[c].op).then = "patch"
      BY <2>2 DEF ThenPatch
    <3>3. Stored(call[c].row)
      BY <1>1, <3>2, ConfirmedTold, PageRefreshes
    <3>4. ASSUME NEW r \in Row, view'.shows[r] > 0 PROVE Stored(r)
      BY <2>2, <3>3, <3>4, PatchView, ShownStored
    <3> QED
      BY <3>1, <3>4
  <2>3. CASE ThenNothing(c)
    BY <2>3, SameMay, ShownStored DEF ThenNothing
  <2> QED
    BY <2>1, <2>2, <2>3 DEF CallThen
<1>4. \A d \in Calls : Kept(d)
  BY <1>1, ConfirmedKept
<1>5. \A d \in Calls : DoneAgrees(d)' /\ NewIsNew(d)'
  BY <1>2, <1>4, KeptDone DEF Silent
<1>6. \A r \in Row : Met(r)' => Stored(r)
  BY <1>2, <1>3, <1>4, MetStored DEF Silent
<1> QED
  BY <1>2, <1>3, <1>5, <1>6, SilentStamps DEF MayLess

(* What a write does to the rows: what was removed comes back only if it   *)
(* is stored a second time.                                                *)
Written ==
  /\ UNCHANGED <<page, told, query, view, open>>
  /\ clock \in Nat /\ clock' \in Nat /\ clock <= clock' /\ Seen
  /\ \A r \in Row :
       /\ stamp[r] \in Nat /\ stamp'[r] \in Nat
       /\ made[r] \in Nat /\ made'[r] \in Nat /\ told[r] \in Nat
       /\ stamp'[r] \in {stamp[r], 0, clock'}
       /\ made[r] <= made'[r] /\ (Stored(r) => Stored(r)')
       /\ stamp'[r] > 0 => Stored(r)'
       /\ stamp[r] = 0 /\ stamp'[r] # 0 /\ Stored(r) => made'[r] > 1

LEMMA ServeWrites ==
  ASSUME PageInv, StampsAgree, NEW c \in Calls, ServeCall(c)
  PROVE  Written
<1>1. /\ UNCHANGED <<page, told, query, view, open>> /\ Seen
      /\ call[c].step = "sent" /\ Accepts(c)
  BY DEF ServeCall
<1>2. call[c].op \in Op /\ call[c].row \in Row
  BY <1>1, CallFacts
<1>3. /\ stamp \in [Row -> Nat] /\ made \in [Row -> Nat] /\ told \in [Row -> Nat]
      /\ clock \in Nat
  BY ByParts DEF Rest
<1>4. clock' = IF Does(call[c].op).effect = "send" THEN clock ELSE clock + 1
  BY DEF ServeCall
<1>5. clock' \in Nat /\ clock <= clock'
  BY <1>3, <1>4
<1>6. stamp' = CASE Does(call[c].op).effect = "send"   -> stamp
                 [] Does(call[c].op).effect = "remove" -> [stamp EXCEPT ![call[c].row] = 0]
                 [] OTHER -> [stamp EXCEPT ![call[c].row] = clock']
  BY DEF ServeCall
<1>7. made' = IF call[c].new THEN [made EXCEPT ![call[c].row] = @ + 1] ELSE made
  BY DEF ServeCall
<1>8. /\ \A r \in Row : r # call[c].row => made'[r] = made[r]
      /\ made'[call[c].row] = IF call[c].new THEN made[call[c].row] + 1
                              ELSE made[call[c].row]
  BY <1>2, <1>3, <1>7
<1>9. /\ \A r \in Row : r # call[c].row => stamp'[r] = stamp[r]
      /\ stamp'[call[c].row] \in {stamp[call[c].row], 0, clock'}
      /\ Does(call[c].op).effect = "send" => stamp' = stamp
  <2>1. CASE Does(call[c].op).effect = "send"
    BY <1>2, <1>3, <1>6, <2>1
  <2>2. CASE Does(call[c].op).effect = "remove"
    <3>1. stamp' = [stamp EXCEPT ![call[c].row] = 0]
      BY <1>6, <2>2
    <3> QED
      BY <1>2, <1>3, <2>2, <3>1
  <2>3. CASE Does(call[c].op).effect \notin {"send", "remove"}
    <3>1. stamp' = [stamp EXCEPT ![call[c].row] = clock']
      BY <1>6, <2>3
    <3> QED
      BY <1>2, <1>3, <2>3, <3>1
  <2> QED
    BY <2>1, <2>2, <2>3
<1>10. call[c].new => call[c].row \notin Listed
  BY StampParts DEF NewIsNew
<1>11. call[c].new \/ Does(call[c].op).effect = "send" \/ stamp[call[c].row] > 0
  BY <1>1 DEF Accepts
<1>12. ASSUME NEW r \in Row
       PROVE  /\ stamp[r] \in Nat /\ stamp'[r] \in Nat
              /\ made[r] \in Nat /\ made'[r] \in Nat /\ told[r] \in Nat
              /\ stamp'[r] \in {stamp[r], 0, clock'} /\ made[r] <= made'[r]
  <2>1. stamp[r] \in Nat /\ made[r] \in Nat /\ told[r] \in Nat
    BY <1>3
  <2>2. stamp'[r] \in {stamp[r], 0, clock'}
    BY <1>9
  <2>3. made'[r] \in Nat /\ made[r] <= made'[r]
    BY <1>8, <2>1
  <2> QED
    BY <1>5, <2>1, <2>2, <2>3
<1>13. Listed' = Listed
  BY <1>1, SameRows
<1>14. ASSUME NEW r \in Row PROVE Stored(r) => Stored(r)'
  BY <1>12, <1>13 DEF Stored
<1>15. ASSUME NEW r \in Row, stamp'[r] > 0 PROVE Stored(r)'
  <2>1. CASE stamp[r] > 0
    BY <1>14, <2>1, StampParts DEF RowAgrees
  <2>2. CASE ~(stamp[r] > 0)
    <3>1. stamp'[r] # stamp[r]
      BY <1>15, <2>2
    <3>2. r = call[c].row /\ Does(call[c].op).effect # "send"
      BY <3>1, <1>9
    <3>3. call[c].new
      BY <2>2, <3>2, <1>11
    <3>4. made'[r] > 0
      BY <3>2, <3>3, <1>8, <1>12
    <3> QED
      BY <3>4 DEF Stored
  <2> QED
    BY <2>1, <2>2
<1>16. ASSUME NEW r \in Row, stamp[r] = 0, stamp'[r] # 0, Stored(r)
       PROVE  made'[r] > 1
  <2>1. r = call[c].row /\ Does(call[c].op).effect # "send"
    BY <1>9, <1>16
  <2>2. call[c].new
    BY <2>1, <1>11, <1>16
  <2>3. made[r] > 0
    BY <2>1, <2>2, <1>10, <1>16 DEF Stored
  <2> QED
    BY <2>1, <2>2, <2>3, <1>8, <1>12
<1> QED
  BY <1>1, <1>3, <1>5, <1>12, <1>14, <1>15, <1>16 DEF Written

LEMMA ElsewhereWrites ==
  ASSUME PageInv, StampsAgree, NEW e \in Row, Elsewhere(e)
  PROVE  Written
<1>1. /\ UNCHANGED <<page, told, query, view, open, made>> /\ Seen
      /\ stamp[e] > 0 /\ clock' = clock + 1 /\ stamp' = [stamp EXCEPT ![e] = clock']
  BY DEF Elsewhere
<1>2. /\ stamp \in [Row -> Nat] /\ made \in [Row -> Nat] /\ told \in [Row -> Nat]
      /\ clock \in Nat
  BY ByParts DEF Rest
<1>3. clock' \in Nat /\ clock <= clock'
  BY <1>1, <1>2
<1>4. stamp'[e] = clock' /\ \A r \in Row : r # e => stamp'[r] = stamp[r]
  BY <1>1, <1>2
<1>5. \A r \in Row : Stored(r)' <=> Stored(r)
  BY <1>1, SameRows
<1>6. \A r \in Row : stamp[r] > 0 => Stored(r)
  BY StampParts DEF RowAgrees
<1>7. ASSUME NEW r \in Row
       PROVE  /\ stamp[r] \in Nat /\ stamp'[r] \in Nat
              /\ made[r] \in Nat /\ made'[r] = made[r] /\ told[r] \in Nat
              /\ stamp'[r] \in {stamp[r], clock'}
              /\ (stamp'[r] > 0 => stamp[r] > 0)
  BY <1>1, <1>2, <1>3, <1>4
<1> QED
  BY <1>1, <1>2, <1>3, <1>5, <1>6, <1>7 DEF Written

LEMMA SeenMay ==
  ASSUME PageInv, Seen
  PROVE  /\ \A l \in IdleLoads : load'[l] = NoLoad
         /\ \A l \in Loads \ IdleLoads :
              /\ load'[l].query = load[l].query
              /\ load'[l].may = load[l].may \cup {stamp'}
         /\ IdleLoads' = IdleLoads
<1>1. ASSUME NEW l \in IdleLoads PROVE load'[l] = NoLoad
  BY DEF Seen, IdleLoads
<1>2. ASSUME NEW l \in Loads \ IdleLoads
      PROVE  /\ load'[l].query = load[l].query
             /\ load'[l].may = load[l].may \cup {stamp'}
  <2>1. load[l] \in LoadState
    BY LoadTypes DEF LoadsSound
  <2>2. load'[l] = [load[l] EXCEPT !.may = @ \cup {stamp'}]
    BY DEF Seen
  <2> QED
    BY <2>1, <2>2 DEF LoadState
<1>3. NoLoad.may = {} /\ NoLoad' = NoLoad /\ Loads' = Loads
  BY DEF NoLoad, Top, Loads
<1>4. \A l \in Loads \ IdleLoads : load'[l] # NoLoad
  BY <1>2, <1>3
<1>5. IdleLoads' = IdleLoads
  BY <1>1, <1>3, <1>4 DEF IdleLoads
<1> QED
  BY <1>1, <1>2, <1>5

LEMMA WrittenStamps ==
  ASSUME PageInv, StampsAgree, Written,
         \A d \in Calls : \/ call'[d] = call[d]
                          \/ /\ DoneAgrees(d)' /\ NewIsNew(d)'
                             /\ \/ call'[d] = NoCall
                                \/ call'[d].op \notin Creating
                                   => Stored(call'[d].row)
  PROVE  StampsAgree'
<1>1. UNCHANGED <<page, told, query, view, open>> /\ Seen
  BY DEF Written
<1>2. ASSUME NEW r \in Row PROVE RowAgrees(r)' /\ (Met(r)' => Stored(r)')
  <2>1. RowAgrees(r)
    BY StampParts
  <2>2. RowAgrees(r)'
    BY <2>1 DEF Written, RowAgrees
  <2>3. view'.shows[r] > 0 \/ told'[r] # 0 => Stored(r)
    BY <1>1, StampParts DEF Met
  <2>4. \A d \in Calls : \/ Kept(d)
                         \/ call'[d].row = r /\ call'[d].op \notin Creating
                            => Stored(r)
    BY DEF Kept
  <2>5. Met(r)' => Stored(r)
    BY <1>1, <2>3, <2>4, MetStored
  <2> QED
    BY <2>2, <2>5 DEF Written
<1>3. ASSUME NEW l \in Loads', NEW shows \in load'[l].may PROVE SeenStored(shows)'
  <2>1. l \in Loads /\ NoLoad.may = {}
    BY DEF Loads, NoLoad
  <2>2. shows \in load[l].may \/ shows = stamp'
    BY <1>1, <2>1, SeenMay
  <2>3. CASE shows \in load[l].may
    BY <2>1, <2>3, StampParts DEF SeenStored, Written
  <2>4. CASE shows = stamp'
    BY <2>4 DEF SeenStored, Written
  <2> QED
    BY <2>2, <2>3, <2>4
<1>4. ASSUME NEW d \in Calls', call'[d] = call[d]
      PROVE  DoneAgrees(d)' /\ NewIsNew(d)'
  <2>1. DoneAgrees(d) /\ NewIsNew(d)
    BY StampParts DEF Calls
  <2>2. NewIsNew(d)'
    BY <1>1, <1>4, <2>1, SameRows DEF NewIsNew
  <2>3. PICK r : r = call[d].row
    OBVIOUS
  <2>4. PICK s : s = call[d].stamp
    OBVIOUS
  <2>5. SUFFICES ASSUME call[d].step = "done", Does(call[d].op).effect # "send"
                 PROVE  /\ Stored(r)' /\ s <= clock'
                        /\ stamp'[r] = 0 \/ s <= stamp'[r]
                        /\ Does(call[d].op).effect = "remove" /\ made'[r] <= 1
                             => stamp'[r] = 0
    BY <1>1, <1>4, <2>2, <2>3, <2>4 DEF DoneAgrees, Does, Stored
  <2>6. /\ Stored(r) /\ s <= clock /\ (stamp[r] = 0 \/ s <= stamp[r])
        /\ Does(call[d].op).effect = "remove" /\ made[r] <= 1 => stamp[r] = 0
    BY <2>1, <2>3, <2>4, <2>5 DEF DoneAgrees
  <2>7. r \in Row /\ s \in Nat
    <3>1. d \in Calls
      BY <1>4 DEF Calls
    <3> QED
      BY <3>1, <2>3, <2>4, <2>5, CallFacts, CallTyped DEF CallState
  <2>8. /\ stamp[r] \in Nat /\ stamp'[r] \in Nat /\ clock \in Nat /\ clock' \in Nat
        /\ made[r] \in Nat /\ made'[r] \in Nat /\ made[r] <= made'[r]
        /\ clock <= clock' /\ stamp'[r] \in {stamp[r], 0, clock'}
        /\ Stored(r)' /\ (stamp[r] = 0 /\ stamp'[r] # 0 => made'[r] > 1)
    BY <2>6, <2>7 DEF Written
  <2> QED
    BY <2>6, <2>7, <2>8
<1>5. \A d \in Calls' : DoneAgrees(d)' /\ NewIsNew(d)'
  BY <1>4 DEF Calls
<1> QED
  BY <1>2, <1>3, <1>5, StampParts

(* The request that is served                                              *)
LEMMA ServedCall ==
  ASSUME PageInv, NEW c \in Calls, ServeCall(c)
  PROVE  /\ \A d \in Calls \ {c} : call'[d] = call[d]
         /\ \/ call'[c] = NoCall /\ crossed'
            \/ /\ call'[c].step = "done" /\ call'[c].op = call[c].op
               /\ call'[c].row = call[c].row /\ call'[c].stamp = clock'
               /\ call'[c].new = call[c].new /\ call'[c].query = call[c].query
               /\ call'[c].waits /\ call[c].waits
<1>1. call' = [call EXCEPT ![c] = Carried(c)] /\ crossed' = (crossed \/ ~call[c].waits)
  BY DEF ServeCall
<1>2. call'[c] = Carried(c) /\ \A d \in Calls \ {c} : call'[d] = call[d]
  BY <1>1, CallTyped
<1>3. call[c] \in CallState
  BY CallTyped
<1>4. CASE call[c].waits
  <2>1. Carried(c) = [call[c] EXCEPT !.step = "done", !.stamp = clock']
    BY <1>4 DEF Carried
  <2> QED
    BY <1>2, <1>3, <1>4, <2>1 DEF CallState
<1>5. CASE ~call[c].waits
  BY <1>1, <1>2, <1>5 DEF Carried
<1> QED
  BY <1>2, <1>4, <1>5

LEMMA ServeStamps ==
  ASSUME PageInv, StampsAgree, NEW c \in Calls, ServeCall(c)
  PROVE  StampsAgree'
<1>1. Written
  BY ServeWrites
<1>2. CASE call'[c] = NoCall
  <2>1. DoneAgrees(c)' /\ NewIsNew(c)'
    BY <1>2, NoCallFacts DEF DoneAgrees, NewIsNew
  <2> QED
    BY <1>1, <1>2, <2>1, ServedCall, WrittenStamps
<1>3. CASE call'[c] # NoCall
  <2>1. call[c].op \in Op /\ call[c].row \in Row /\ call[c].step = "sent"
    BY CallFacts DEF ServeCall
  <2>2. /\ call'[c].step = "done" /\ call'[c].op = call[c].op
        /\ call'[c].row = call[c].row /\ call'[c].stamp = clock'
        /\ call'[c].new = call[c].new
    BY <1>3, ServedCall
  <2>3. Listed' = Listed /\ page' = page
    BY <1>1, SameRows DEF Written
  <2>4. NewIsNew(c)'
    <3>1. NewIsNew(c)
      BY StampParts
    <3> QED
      BY <2>2, <2>3, <3>1 DEF NewIsNew
  <2>5. call'[c].op \notin Creating => Stored(call'[c].row)
    <3>1. call[c].op \notin Creating => Met(call[c].row)
      BY DEF Met
    <3> QED
      BY <2>1, <2>2, <3>1, StampParts
  <2>6. DoneAgrees(c)'
    <3>1. PICK r \in Row : r = call[c].row
      BY <2>1
    <3>2. ASSUME Does(call[c].op).effect # "send"
          PROVE  /\ Stored(r)' /\ (stamp'[r] = 0 \/ stamp'[r] = clock')
                 /\ Does(call[c].op).effect = "remove" => stamp'[r] = 0
      <4>1. stamp \in [Row -> Nat] /\ made \in [Row -> Nat] /\ clock \in Nat
        BY ByParts DEF Rest
      <4>2. /\ stamp'[r] = 0 \/ stamp'[r] = clock'
            /\ Does(call[c].op).effect = "remove" => stamp'[r] = 0
        <5>1. CASE Does(call[c].op).effect = "remove"
          BY <5>1, <3>1, <4>1 DEF ServeCall
        <5>2. CASE Does(call[c].op).effect # "remove"
          <6>1. stamp' = [stamp EXCEPT ![r] = clock']
            BY <5>2, <3>1, <3>2 DEF ServeCall
          <6> QED
            BY <5>2, <6>1, <4>1
        <5> QED
          BY <5>1, <5>2
      <4>3. Stored(r)'
        <5>1. CASE call[c].new
          <6>1. made' = [made EXCEPT ![r] = @ + 1]
            BY <3>1, <5>1 DEF ServeCall
          <6>2. made'[r] > 0
            BY <6>1, <4>1
          <6> QED
            BY <6>2 DEF Stored
        <5>2. CASE ~call[c].new
          <6>1. stamp[r] > 0
            BY <3>1, <3>2, <5>2 DEF ServeCall, Accepts
          <6>2. Stored(r)
            BY <6>1, StampParts DEF RowAgrees
          <6> QED
            BY <1>1, <6>2 DEF Written
        <5> QED
          BY <5>1, <5>2
      <4> QED
        BY <4>2, <4>3
    <3>3. clock' <= clock'
      BY <1>1 DEF Written
    <3> QED
      BY <2>2, <2>3, <3>1, <3>2, <3>3 DEF DoneAgrees, Does, Stored
  <2> QED
    BY <1>1, <2>4, <2>5, <2>6, ServedCall, WrittenStamps
<1> QED
  BY <1>2, <1>3

LEMMA ElsewhereStamps ==
  ASSUME PageInv, StampsAgree, NEW r \in Row, Elsewhere(r)
  PROVE  StampsAgree'
BY ElsewhereWrites, WrittenStamps DEF Elsewhere

LEMMA StampsInductive ==
  ASSUME PageInv, StampsAgree, [PageNext]_pageVars
  PROVE  StampsAgree'
<1>1. CASE UNCHANGED pageVars
  <2>1. /\ Silent /\ told' = told /\ load' = load /\ view' = view
        /\ open' = open /\ call' = call
    BY <1>1 DEF pageVars, Silent
  <2> QED
    BY <2>1, SameKept, SameMay, ShownStored, PageStamps
<1>2. CASE Renew
  BY <1>2, EffectStamps
<1>3. ASSUME NEW n \in 1..2, TurnPage(n) \/ Refilter(n) \/ RefilterTwice(n)
      PROVE  StampsAgree'
  BY <1>3, EffectStamps
<1>4. ASSUME NEW l \in Loads, LoadEnds(l) PROVE StampsAgree'
  BY <1>4, LoadEndsStamps
<1>5. ASSUME NEW o \in Op, NEW r \in Row, Open(o, r) \/ Click(o, r) \/ Press(o, r)
      PROVE  StampsAgree'
  BY <1>5, OpenStamps, SubmitStamps
<1>6. CASE Dismiss
  BY <1>6, DismissStamps
<1>7. ASSUME NEW c \in Calls, ServeCall(c) \/ Lost(c) \/ CallEnds(c)
      PROVE  StampsAgree'
  <2>1. CASE ServeCall(c) \/ Lost(c)
    BY <2>1, ServeStamps, LostStamps
  <2>2. CASE CallRefused(c) \/ GivesUp(c) \/ TailFails(c)
    BY <2>2, FailsStamps
  <2>3. CASE CallThen(c)
    BY <2>3, ConfirmedStamps
  <2> QED
    BY <1>7, <2>1, <2>2, <2>3 DEF CallEnds, CallThen
<1>8. ASSUME NEW r \in Row, Elsewhere(r) PROVE StampsAgree'
  BY <1>8, ElsewhereStamps
<1> QED
  BY <1>1, <1>2, <1>3, <1>4, <1>5, <1>6, <1>7, <1>8 DEF PageNext

-----------------------------------------------------------------------------
(* ListAgrees is inductive as long as no requests crossed                  *)

(* The parts of ListAgrees: of the loads under way, of the list at rest,   *)
(* of the handlers that will load.                                         *)
OneLoad == \A l, k \in Loads \ IdleLoads : l = k
Brings(l) == /\ load[l].query = query /\ Cleared
             /\ \A shows \in load[l].may : UpToDate(shows)
AtRest == IdleLoads = Loads /\ view.last = "ok" =>
            view.query = query /\ Cleared /\ UpToDate(view.shows)
WillLoad == \A c \in Calls : c \in Waiting /\ Reloads(c) => call[c].query = query

LEMMA ListParts ==
  /\ ListAgrees <=> /\ OneLoad /\ AtRest /\ WillLoad
                    /\ \A l \in Loads \ IdleLoads : Brings(l)
  /\ (ListAgrees <=> /\ OneLoad /\ AtRest /\ WillLoad
                     /\ \A l \in Loads \ IdleLoads : Brings(l))'
<1>1. ListAgrees <=> /\ OneLoad /\ AtRest /\ WillLoad
                     /\ \A l \in Loads \ IdleLoads : Brings(l)
  <2>1. WillLoad <=> \A c \in Waiting : Reloads(c) => call[c].query = query
    BY DEF WillLoad, Waiting
  <2> QED
    BY <2>1 DEF ListAgrees, OneLoad, AtRest, Brings
<1> QED
  BY <1>1, PTL

(* Handlers that will load what is selected still will.                    *)
LEMMA WillLoadKept ==
  ASSUME PageInv, WillLoad, page' = page, query' = query,
         \A d \in Calls : Kept(d) \/ call'[d].query = query
  PROVE  WillLoad'
<1>1. ASSUME NEW d \in Calls, d \in Waiting', Reloads(d)'
      PROVE  call'[d].query = query
  BY <1>1, KeptWaits DEF WillLoad
<1> QED
  BY <1>1 DEF WillLoad, Calls

LEMMA UpToDateKept ==
  ASSUME NEW shows, UpToDate(shows),
         \A r \in Row : /\ told'[r] = told[r] /\ stamp'[r] = stamp[r]
                        /\ made'[r] = made[r]
                        /\ shows[r] = 0 => (Met(r)' => Met(r))
  PROVE  UpToDate(shows)'
BY DEF UpToDate

LEMMA ServerUpToDate ==
  ASSUME StampsAgree', Silent, NEW shows, shows = stamp
  PROVE  UpToDate(shows)'
<1>1. \A r \in Row : stamp[r] = 0 \/ told'[r] <= stamp[r]
  BY StampParts DEF RowAgrees, Silent
<1> QED
  BY <1>1 DEF UpToDate, Silent

LEMMA SameClears ==
  ASSUME page' = page, Cleared, view'.error => view.error
  PROVE  Cleared'
BY SameRows DEF Cleared

LEMMA IdleSame ==
  ASSUME load' = load
  PROVE  IdleLoads' = IdleLoads /\ Loads' = Loads
BY DEF IdleLoads, NoLoad, Top, Loads

(* A load starts when no other is under way.                               *)
LEMMA StartsList ==
  ASSUME PageInv, StampsAgree', Silent, IdleLoads = Loads,
         NEW q \in Query, NEW o \in Op \cup {None}, StartLoad(q, o),
         query' = q, WillLoad'
  PROVE  ListAgrees'
<1>1. IdleLoads # {} /\ page' = page
  <2>1. 1 \in Loads
    BY DEF Loads
  <2> QED
    BY <2>1 DEF Silent
<1>2. PICK l \in IdleLoads :
        /\ IdleLoads' = IdleLoads \ {l} /\ load'[l] = Asked(q, o)
  BY <1>1, Started
<1>3. Loads' = Loads /\ Loads' \ IdleLoads' = {l}
  BY <1>2 DEF Loads
<1>4. load'[l].query = q /\ load'[l].may = {stamp}
  BY <1>2 DEF Asked
<1>5. Cleared'
  <2>1. LoadOf.clears => ~view'.error
    BY StartedShows DEF StartLoad
  <2> QED
    BY <1>1, <2>1, SameRows DEF Cleared
<1>6. \A shows \in load'[l].may : UpToDate(shows)'
  BY <1>4, ServerUpToDate
<1>7. Brings(l)'
  BY <1>4, <1>5, <1>6 DEF Brings
<1>8. AtRest'
  BY <1>3 DEF AtRest
<1> QED
  BY <1>3, <1>7, <1>8, ListParts DEF OneLoad

(* Steps that leave list and loads alone, but for an error                 *)
LEMMA ListKept ==
  ASSUME PageInv, ListAgrees, Silent,
         told' = told, query' = query, load' = load,
         view'.shows = view.shows, view'.query = view.query,
         \/ view'.last = view.last /\ (view'.error => view.error)
         \/ view'.last = "failed" /\ IdleLoads = Loads,
         \A r \in Row :
           /\ \/ open' = open \/ open' = NoForm
              \/ open'.row = r /\ open'.op \notin Creating => Met(r)
           /\ \A d \in Calls :
                \/ Kept(d)
                \/ call'[d].row = r /\ call'[d].op \notin Creating => Met(r),
         WillLoad'
  PROVE  ListAgrees'
<1>1. page' = page /\ IdleLoads' = IdleLoads /\ Loads' = Loads
  BY IdleSame DEF Silent
<1>2. ASSUME NEW r \in Row, Met(r)' PROVE Met(r)
  BY <1>1, <1>2, MetLess
<1>3. ASSUME NEW shows, UpToDate(shows) PROVE UpToDate(shows)'
  BY <1>2, <1>3, UpToDateKept DEF Silent
<1>4. OneLoad'
  BY <1>1, ListParts DEF OneLoad
<1>5. CASE view'.last = view.last /\ (view'.error => view.error)
  <2>1. ASSUME NEW l \in Loads \ IdleLoads PROVE Brings(l)'
    <3>1. Brings(l)
      BY ListParts
    <3> QED
      BY <1>1, <1>3, <1>5, <3>1, SameClears DEF Brings
  <2>2. AtRest'
    BY <1>1, <1>3, <1>5, ListParts, SameClears DEF AtRest
  <2> QED
    BY <1>1, <1>4, <2>1, <2>2, ListParts
<1>6. CASE view'.last = "failed" /\ IdleLoads = Loads
  <2>1. AtRest' /\ Loads' \ IdleLoads' = {}
    BY <1>1, <1>6 DEF AtRest
  <2> QED
    BY <1>4, <2>1, ListParts
<1> QED
  BY <1>5, <1>6

LEMMA EffectList ==
  ASSUME PageInv, StampsAgree', ListAgrees, ~crossed', NEW n \in 1..2,
         Renew \/ TurnPage(n) \/ Refilter(n) \/ RefilterTwice(n)
  PROVE  ListAgrees'
<1>1. ~RefilterTwice(n)
  BY DEF RefilterTwice
<1>2. Silent /\ call' = call /\ IdleLoads = Loads /\ StartLoad(query', None)
  BY <1>1 DEF Renew, TurnPage, Refilter, Silent, server, Quiet
<1>3. query' \in Query
  BY <1>1, ByParts DEF TurnPage, Refilter, Renew, Rest, Query
<1>4. WillLoad'
  <2>1. CASE Renew
    BY <2>1, <1>2, SameKept, ListParts, WillLoadKept DEF Renew, Silent
  <2>2. CASE TurnPage(n) \/ Refilter(n)
    <3>1. Waiting = {}
      BY <2>2 DEF TurnPage, Refilter, Quiet
    <3>2. Waiting' = {}
      BY <1>2, <3>1 DEF Waiting, Calls
    <3> QED
      BY <3>2 DEF WillLoad
  <2> QED
    BY <1>1, <2>1, <2>2
<1>5. PICK q \in Query : q = query'
  BY <1>3
<1>6. StartLoad(q, None)
  BY <1>2, <1>5
<1> QED
  BY <1>2, <1>4, <1>5, <1>6, StartsList

LEMMA LoadEndsList ==
  ASSUME PageInv, ListAgrees, NEW l \in Loads, LoadEnds(l)
  PROVE  ListAgrees'
<1>1. /\ Silent /\ told' = told /\ open' = open /\ call' = call
      /\ query' = query /\ load' = [load EXCEPT ![l] = NoLoad]
  BY DEF LoadEnds, LoadAnswered, LoadFails, Silent, server
<1>2. l \notin IdleLoads
  <2>1. NoLoad.may = {}
    BY DEF NoLoad
  <2> QED
    BY <2>1 DEF LoadEnds, LoadAnswered, LoadFails, IdleLoads
<1>3. view \in ViewState /\ view' \in ViewState
  <2>1. PageInv'
    BY LoadEndsStep
  <2> QED
    BY <2>1, ByParts DEF LoadsSound, ViewState
<1>4. IdleLoads' = Loads /\ Loads' = Loads
  <2>1. IdleLoads' = IdleLoads \cup {l}
    BY <1>1, <1>3, Ended DEF Silent
  <2> QED
    BY <1>2, <2>1, ListParts DEF OneLoad, IdleLoads, Loads
<1>5. WillLoad'
  BY <1>1, SameKept, ListParts, WillLoadKept DEF Silent
<1>6. AtRest'
  <2>1. CASE LoadFails(l)
    <3>1. view' = [view EXCEPT !.last = "failed",
                     !.error = @ \/ LoadOf.fails \in {"error", "notice"},
                     !.shows = IF LoadOf.fails = "empty" THEN Blank ELSE @]
      BY <2>1 DEF LoadFails
    <3>2. view'.last = "failed"
      BY <1>3, <3>1 DEF ViewState
    <3> QED
      BY <3>2 DEF AtRest
  <2>2. CASE LoadAnswered(l)
    <3>1. PICK shows \in load[l].may :
            view' = [view EXCEPT !.shows = shows, !.query = load[l].query,
                                 !.last = "ok"]
      BY <2>2 DEF LoadAnswered
    <3>2. /\ view'.shows = shows /\ view'.query = load[l].query
          /\ view'.error = view.error
      BY <3>1, <1>3 DEF ViewState
    <3>3. Brings(l)
      BY <1>2, ListParts
    <3>4. Cleared' /\ view'.query = query
      BY <1>1, <3>2, <3>3, SameClears DEF Brings, Silent
    <3>5. ASSUME NEW r \in Row, shows[r] = 0, Met(r)' PROVE Met(r)
      BY <1>1, <3>2, <3>5, SameKept, MetLess DEF Silent
    <3>6. UpToDate(shows)'
      BY <1>1, <3>1, <3>3, <3>5, UpToDateKept DEF Brings, Silent
    <3> QED
      BY <1>1, <3>2, <3>4, <3>6 DEF AtRest
  <2> QED
    BY <2>1, <2>2 DEF LoadEnds
<1> QED
  BY <1>4, <1>5, <1>6, ListParts DEF OneLoad

LEMMA FormsList ==
  ASSUME PageInv, ListAgrees,
         \/ \E o \in Op, r \in Row : Open(o, r)
         \/ Dismiss \/ UNCHANGED pageVars
  PROVE  ListAgrees'
<1>1. /\ Silent /\ told' = told /\ query' = query /\ load' = load /\ view' = view
  BY DEF Open, Dismiss, Keep, pageVars, Silent, server
<1>2. \A d \in Calls : Kept(d)
  BY SameKept, DismissKept DEF Open, pageVars
<1>3. ASSUME NEW r \in Row
      PROVE  \/ open' = open \/ open' = NoForm
             \/ open'.row = r /\ open'.op \notin Creating => Met(r)
  <2>1. CASE \E o \in Op, s \in Row : Open(o, s)
    <3>1. PICK o \in Op, s \in Row : Open(o, s)
      BY <2>1
    <3>2. open' = [op |-> o, row |-> s] /\ s \in Target(o)
      BY <3>1 DEF Open
    <3> QED
      BY <3>2, TargetMet
  <2>2. CASE Dismiss \/ UNCHANGED pageVars
    BY <2>2 DEF Dismiss, pageVars
  <2> QED
    BY <2>1, <2>2
<1>4. WillLoad'
  BY <1>1, <1>2, ListParts, WillLoadKept DEF Silent
<1> QED
  BY <1>1, <1>2, <1>3, <1>4, ListKept

LEMMA SubmitList ==
  ASSUME PageInv, ListAgrees, NEW o \in Op, NEW r \in Row,
         Click(o, r) \/ Press(o, r)
  PROVE  ListAgrees'
<1>1. Submit(o, r)
  BY DEF Click, Press
<1>2. /\ Silent /\ told' = told /\ open' = open /\ load' = load /\ query' = query
  BY <1>1 DEF Submit, Silent, server
<1>3. PICK c \in Calls :
        /\ call'[c].op = o /\ call'[c].row = r /\ call'[c].query = query
        /\ \A d \in Calls \ {c} : Kept(d)
  BY <1>1, SubmittedCalls
<1>4. WillLoad'
  BY <1>2, <1>3, ListParts, WillLoadKept DEF Silent
<1>5. o \notin Creating => Met(r)
  BY SubmittedMet
<1>6. /\ view'.shows = view.shows /\ view'.query = view.query
      /\ view'.last = view.last /\ (view'.error => view.error)
  BY <1>1, SubmitView
<1>7. \A s \in Row : \A d \in Calls :
        Kept(d) \/ (call'[d].row = s /\ call'[d].op \notin Creating => Met(s))
  BY <1>3, <1>5
<1> QED
  BY <1>2, <1>4, <1>6, <1>7, ListKept

LEMMA FailsList ==
  ASSUME PageInv, ListAgrees, ~crossed', NEW c \in Calls,
         CallRefused(c) \/ GivesUp(c) \/ TailFails(c)
  PROVE  ListAgrees'
<1>1. Fails(c)
  BY DEF CallRefused, GivesUp, TailFails
<1>2. Silent /\ told' = told /\ load' = load /\ query' = query
  BY <1>1 DEF Fails, Silent, server
<1>3. /\ view'.shows = view.shows /\ view'.query = view.query
      /\ view' = view \/ (view'.last = "failed" /\ IdleLoads = Loads)
      /\ open' = open \/ open' = NoForm
  BY <1>1, FailsView
<1>4. \A d \in Calls : Kept(d)
  BY EndedKept
<1>5. WillLoad'
  BY <1>2, <1>4, ListParts, WillLoadKept DEF Silent
<1> QED
  BY <1>2, <1>3, <1>4, <1>5, ListKept

LEMMA LostList ==
  ASSUME PageInv, ListAgrees, NEW c \in Calls, Lost(c)
  PROVE  ListAgrees'
<1>1. /\ Silent /\ told' = told /\ load' = load /\ view' = view /\ open' = open
      /\ query' = query
  BY DEF Lost, Keep, Silent, server
<1>2. \A d \in Calls : Kept(d)
  BY EndedKept
<1>3. WillLoad'
  BY <1>1, <1>2, ListParts, WillLoadKept DEF Silent
<1> QED
  BY <1>1, <1>2, <1>3, ListKept

(* A write reaches the loads under way, and what it makes of the rows the  *)
(* list may miss leaves them gone.                                         *)
LEMMA WrittenList ==
  ASSUME PageInv, StampsAgree, StampsAgree', ListAgrees, Written,
         \A d \in Calls :
           \/ call'[d] = call[d] \/ call'[d] = NoCall
           \/ /\ call'[d].op = call[d].op /\ call'[d].row = call[d].row
              /\ call'[d].query = call[d].query /\ call[d].waits
  PROVE  ListAgrees'
<1>1. UNCHANGED <<page, told, query, view, open>> /\ Seen
  BY DEF Written
<1>2. /\ IdleLoads' = IdleLoads /\ Loads' = Loads
      /\ \A l \in Loads \ IdleLoads :
           /\ load'[l].query = load[l].query
           /\ load'[l].may = load[l].may \cup {stamp'}
  BY <1>1, SeenMay DEF Loads
<1>3. ASSUME NEW r \in Row, Met(r)' PROVE Met(r)
  <2>1. \A d \in Calls : \/ Kept(d)
                         \/ call'[d].row = call[d].row /\ call'[d].op = call[d].op
    BY DEF Kept
  <2> QED
    BY <1>1, <1>3, <2>1, MetLess
<1>4. ASSUME NEW shows, UpToDate(shows) PROVE UpToDate(shows)'
  <2> SUFFICES ASSUME NEW r \in Row
               PROVE  IF shows[r] = 0 THEN Met(r)' /\ made'[r] <= 1 => stamp'[r] = 0
                      ELSE shows[r] >= told'[r]
    BY DEF UpToDate
  <2>1. CASE shows[r] # 0
    BY <1>1, <1>4, <2>1 DEF UpToDate
  <2>2. CASE shows[r] = 0
    <3> SUFFICES ASSUME Met(r)', made'[r] <= 1 PROVE stamp'[r] = 0
      BY <2>2
    <3>1. Met(r) /\ Stored(r)
      BY <1>3, StampParts
    <3>2. made[r] <= 1
      BY DEF Written
    <3>3. stamp[r] = 0
      BY <1>4, <2>2, <3>1, <3>2 DEF UpToDate
    <3> QED
      BY <3>1, <3>3 DEF Written
  <2> QED
    BY <2>1, <2>2
<1>5. ASSUME NEW shows, shows = stamp' PROVE UpToDate(shows)'
  <2>1. \A r \in Row : stamp'[r] = 0 \/ told'[r] <= stamp'[r]
    BY StampParts DEF RowAgrees
  <2> QED
    BY <1>5, <2>1 DEF UpToDate
<1>6. Cleared => Cleared'
  BY <1>1, SameClears
<1>7. ASSUME NEW l \in Loads \ IdleLoads PROVE Brings(l)'
  <2>1. Brings(l)
    BY ListParts
  <2>2. ASSUME NEW shows \in load'[l].may PROVE UpToDate(shows)'
    <3>1. shows \in load[l].may \/ shows = stamp'
      BY <1>2
    <3>2. CASE shows \in load[l].may
      BY <2>1, <3>2, <1>4 DEF Brings
    <3>3. CASE shows = stamp'
      BY <3>3, <1>5
    <3> QED
      BY <3>1, <3>2, <3>3
  <2> QED
    BY <1>1, <1>2, <1>6, <2>1, <2>2 DEF Brings
<1>8. OneLoad' /\ AtRest'
  BY <1>1, <1>2, <1>4, <1>6, ListParts DEF OneLoad, AtRest
<1>9. WillLoad'
  <2>1. ASSUME NEW d \in Calls, d \in Waiting', Reloads(d)'
        PROVE  call'[d].query = query
    <3>1. call'[d].waits
      BY <2>1 DEF Waiting
    <3>2. /\ call'[d].op = call[d].op /\ call'[d].query = call[d].query
          /\ call[d].waits
      BY <3>1, NoCallFacts
    <3>3. d \in Waiting /\ Reloads(d)
      BY <1>1, <2>1, <3>2 DEF Waiting, Reloads, Does
    <3> QED
      BY <3>2, <3>3, ListParts DEF WillLoad
  <2> QED
    BY <1>1, <2>1 DEF WillLoad, Calls
<1> QED
  BY <1>2, <1>7, <1>8, <1>9, ListParts

(* A handler that goes on to a load: what it loads is selected.            *)
LEMMA ThenLoadsList ==
  ASSUME PageInv, StampsAgree', ListAgrees, ~crossed', NEW c \in Calls,
         ThenReload(c) \/ ThenRefresh(c) \/ ThenFirst(c)
  PROVE  ListAgrees'
<1>1. /\ Confirmed(c) /\ call[c].query \in Query /\ call[c].op \in Op \cup {None}
      /\ query' \in Query
      /\ \/ ThenReload(c) /\ StartLoad(call[c].query, call[c].op)
         \/ ThenRefresh(c) /\ StartLoad(call[c].query, None)
         \/ ThenFirst(c) /\ query' # query /\ StartLoad(query', None)
  BY ThenLoads DEF ThenFirst
<1>2. Silent /\ IdleLoads = Loads
  BY <1>1 DEF Confirmed, Silent, server, ThenReload, ThenRefresh, ThenFirst
<1>3. c \in Waiting /\ \A d \in Calls : Kept(d)
  BY <1>1, ConfirmedKept DEF Confirmed, Waiting
<1>4. CASE ThenReload(c) \/ ThenRefresh(c)
  <2>1. query' = query /\ Reloads(c)
    BY <1>4 DEF ThenReload, ThenRefresh, Reloads
  <2>2. call[c].query = query
    BY <1>3, <2>1, ListParts DEF WillLoad
  <2>3. WillLoad'
    BY <1>2, <1>3, <2>1, ListParts, WillLoadKept DEF Silent
  <2>4. PICK q \in Query : q = query
    BY <1>1, <2>2
  <2>5. PICK o \in Op \cup {None} : StartLoad(q, o)
    <3>1. CASE ThenReload(c)
      <4>1. PICK o \in Op \cup {None} : o = call[c].op
        BY <1>1
      <4>2. StartLoad(call[c].query, call[c].op)
        BY <3>1 DEF ThenReload
      <4> QED
        BY <2>2, <2>4, <4>1, <4>2
    <3>2. CASE ThenRefresh(c)
      <4>1. StartLoad(call[c].query, None)
        BY <3>2 DEF ThenRefresh
      <4> QED
        BY <2>2, <2>4, <4>1
    <3> QED
      BY <1>4, <3>1, <3>2
  <2> QED
    BY <1>2, <2>1, <2>3, <2>4, <2>5, StartsList
<1>5. CASE ThenFirst(c)
  <2>1. /\ Does(call[c].op).then = "first" /\ query' = [query EXCEPT !.number = 1]
        /\ query' # query
    BY <1>5 DEF ThenFirst
  <2>2. query \in Query
    BY ByParts DEF Rest
  <2>3. query.number # 1 /\ StartLoad(query', None)
    BY <2>1, <2>2, <1>5 DEF Query, ThenFirst
  <2>4. call[c].op \in Op
    BY <1>1, ConfirmedTold, CallFacts DEF Confirmed
  <2>5. ASSUME NEW d \in Calls, d \in Waiting', Reloads(d)' PROVE FALSE
    <3>1. d \in Waiting /\ Reloads(d)
      BY <1>2, <1>3, <2>5, KeptWaits DEF Silent
    <3>2. call[d].query = query /\ call[d].op \in Op
      BY <3>1, ListParts, CallFacts DEF WillLoad, Waiting
    <3>3. Does(call[d].op).then \notin {"reload", "refresh"}
      BY <2>1, <2>4, <3>2, PageRefreshes
    <3> QED
      BY <2>3, <3>1, <3>2, <3>3 DEF Reloads
  <2>6. WillLoad'
    BY <2>5 DEF WillLoad, Calls
  <2>7. PICK q \in Query : q = query'
    BY <1>1
  <2>8. StartLoad(q, None)
    BY <2>3, <2>7
  <2> QED
    BY <1>2, <2>6, <2>7, <2>8, StartsList
<1> QED
  BY <1>4, <1>5

(* A handler that patches the list leaves it up to date.                   *)
LEMMA PatchList ==
  ASSUME PageInv, StampsAgree, ListAgrees, ~crossed', NEW c \in Calls, ThenPatch(c)
  PROVE  ListAgrees'
<1>1. /\ Confirmed(c) /\ load' = load /\ query' = query
      /\ view'.query = view.query /\ view'.error = view.error
      /\ view'.last = view.last
      /\ \A r \in Row : r # call[c].row => view'.shows[r] = view.shows[r]
      /\ view'.shows[call[c].row] =
           IF \/ Does(call[c].op).effect = "remove"
              \/ call[c].op \notin Creating /\ view.shows[call[c].row] = 0
           THEN 0 ELSE call[c].stamp
  BY PatchView
<1>2. /\ call[c].step = "done" /\ call[c].op \in Op /\ call[c].row \in Row
      /\ Silent /\ (open' = open \/ open' = NoForm)
      /\ \A r \in Row : r # call[c].row => told'[r] = told[r]
  BY <1>1, ConfirmedTold
<1>3. Does(call[c].op).effect # "send"
  BY <1>2, PageRefreshes DEF ThenPatch
<1>4. told'[call[c].row] = call[c].stamp /\ call[c].stamp > 0
  BY <1>1, <1>3, ConfirmedTold
<1>5. IdleLoads = Loads /\ IdleLoads' = Loads' /\ page' = page
  BY <1>1, <1>2, IdleSame DEF ThenPatch, Silent
<1>6. \A d \in Calls : Kept(d)
  BY <1>1, ConfirmedKept
<1>7. WillLoad'
  BY <1>1, <1>5, <1>6, ListParts, WillLoadKept
<1>8. ASSUME view.last = "ok" PROVE UpToDate(view.shows)'
  <2>1. UpToDate(view.shows)
    BY <1>5, <1>8, ListParts DEF AtRest
  <2>2. PICK shows : shows = view'.shows
    OBVIOUS
  <2>3. ASSUME NEW r \in Row, r # call[c].row
        PROVE  IF shows[r] = 0 THEN Met(r)' /\ made'[r] <= 1 => stamp'[r] = 0
               ELSE shows[r] >= told'[r]
    <3>1. shows[r] = view.shows[r] /\ told'[r] = told[r]
      BY <1>1, <1>2, <2>2, <2>3
    <3>2. Met(r)' => Met(r)
      BY <1>2, <1>5, <1>6, <2>2, <3>1, MetLess
    <3> QED
      BY <1>2, <2>1, <3>1, <3>2 DEF UpToDate, Silent
  <2>4. PICK r \in Row : r = call[c].row
    BY <1>2
  <2>5. IF shows[r] = 0 THEN Met(r)' /\ made'[r] <= 1 => stamp'[r] = 0
        ELSE shows[r] >= told'[r]
    <3>1. CASE Does(call[c].op).effect = "remove"
      <4>1. DoneAgrees(c)
        BY StampParts
      <4>2. made[r] <= 1 => stamp[r] = 0
        BY <1>2, <1>3, <2>4, <3>1, <4>1 DEF DoneAgrees
      <4> QED
        BY <1>1, <1>2, <2>2, <2>4, <3>1, <4>2 DEF Silent
    <3>2. CASE call[c].op \notin Creating /\ view.shows[r] = 0
      <4>1. Met(r)
        BY <2>4, <3>2 DEF Met
      <4>2. made[r] <= 1 => stamp[r] = 0
        BY <2>1, <3>2, <4>1 DEF UpToDate
      <4> QED
        BY <1>1, <1>2, <2>2, <2>4, <3>2, <4>2 DEF Silent
    <3>3. CASE ~(\/ Does(call[c].op).effect = "remove"
                 \/ call[c].op \notin Creating /\ view.shows[r] = 0)
      <4>1. shows[r] = call[c].stamp /\ told'[r] = call[c].stamp
        BY <1>1, <1>4, <2>2, <2>4, <3>3
      <4>2. call[c].stamp \in Nat
        BY <1>1, ConfirmedParts
      <4> QED
        BY <1>4, <4>1, <4>2
    <3> QED
      BY <3>1, <3>2, <3>3
  <2>6. UpToDate(shows)'
    BY <2>3, <2>4, <2>5 DEF UpToDate
  <2> QED
    BY <2>2, <2>6 DEF UpToDate
<1>9. AtRest'
  <2> SUFFICES ASSUME view'.last = "ok"
               PROVE  view'.query = query' /\ Cleared' /\ UpToDate(view.shows)'
    BY DEF AtRest
  <2>1. view.last = "ok" /\ view.query = query /\ Cleared
    BY <1>1, <1>5, ListParts DEF AtRest
  <2>2. Cleared'
    BY <1>1, <1>5, <2>1, SameClears
  <2> QED
    BY <1>1, <1>8, <2>1, <2>2
<1> QED
  BY <1>5, <1>7, <1>9, ListParts DEF OneLoad

(* A handler that changes nothing in the list                              *)
LEMMA NothingList ==
  ASSUME PageInv, StampsAgree, ListAgrees, NEW c \in Calls, ThenNothing(c)
  PROVE  ListAgrees'
<1>1. /\ Confirmed(c) /\ Does(call[c].op).then = "nothing"
      /\ query' = query /\ view' = view /\ load' = load
  BY DEF ThenNothing
<1>2. call[c].op \in Op /\ Silent /\ (open' = open \/ open' = NoForm)
  BY <1>1, ConfirmedTold
<1>3. told' = told
  BY <1>1, <1>2, PageRefreshes, ConfirmedTold
<1>4. \A d \in Calls : Kept(d)
  BY <1>1, ConfirmedKept
<1>5. WillLoad'
  BY <1>1, <1>2, <1>4, ListParts, WillLoadKept DEF Silent
<1> QED
  BY <1>1, <1>2, <1>3, <1>4, <1>5, ListKept

-----------------------------------------------------------------------------
(* ListInv is inductive                                                    *)

LEMMA CrossedStays ==
  ASSUME [PageNext]_pageVars, crossed
  PROVE  crossed'
<1>1. CASE UNCHANGED pageVars
  BY <1>1 DEF pageVars
<1>2. CASE Renew
  BY <1>2 DEF Renew
<1>3. ASSUME NEW n \in 1..2, TurnPage(n) \/ Refilter(n) \/ RefilterTwice(n)
      PROVE  crossed'
  BY <1>3 DEF TurnPage, Refilter, RefilterTwice
<1>4. ASSUME NEW l \in Loads, LoadEnds(l) PROVE crossed'
  BY <1>4 DEF LoadEnds, LoadAnswered, LoadFails
<1>5. ASSUME NEW o \in Op, NEW r \in Row, Open(o, r) \/ Click(o, r) \/ Press(o, r)
      PROVE  crossed'
  BY <1>5 DEF Open, Keep, Click, Press, Submit
<1>6. CASE Dismiss
  BY <1>6 DEF Dismiss, Keep
<1>7. ASSUME NEW c \in Calls, ServeCall(c) \/ Lost(c) \/ CallEnds(c)
      PROVE  crossed'
  <2>1. CASE ServeCall(c) \/ Lost(c)
    BY <2>1 DEF ServeCall, Lost, Keep
  <2>2. CASE CallRefused(c) \/ GivesUp(c) \/ TailFails(c)
    BY <2>2 DEF CallRefused, GivesUp, TailFails, Fails
  <2>3. CASE CallThen(c)
    BY <2>3 DEF CallThen, ThenReload, ThenRefresh, ThenFirst, ThenPatch, ThenNothing
  <2> QED
    BY <1>7, <2>1, <2>2, <2>3 DEF CallEnds, CallThen
<1>8. ASSUME NEW r \in Row, Elsewhere(r) PROVE crossed'
  BY <1>8 DEF Elsewhere
<1> QED
  BY <1>1, <1>2, <1>3, <1>4, <1>5, <1>6, <1>7, <1>8 DEF PageNext

LEMMA ListInductive ==
  ASSUME PageInv, StampsAgree, StampsAgree', ListAgrees, ~crossed',
         [PageNext]_pageVars
  PROVE  ListAgrees'
<1>1. CASE UNCHANGED pageVars \/ Dismiss
  BY <1>1, FormsList
<1>2. CASE Renew
  BY <1>2, EffectList
<1>3. ASSUME NEW n \in 1..2, TurnPage(n) \/ Refilter(n) \/ RefilterTwice(n)
      PROVE  ListAgrees'
  BY <1>3, EffectList
<1>4. ASSUME NEW l \in Loads, LoadEnds(l) PROVE ListAgrees'
  BY <1>4, LoadEndsList
<1>5. ASSUME NEW o \in Op, NEW r \in Row, Open(o, r) \/ Click(o, r) \/ Press(o, r)
      PROVE  ListAgrees'
  BY <1>5, FormsList, SubmitList
<1>6. ASSUME NEW c \in Calls, ServeCall(c) PROVE ListAgrees'
  BY <1>6, ServeWrites, ServedCall, WrittenList
<1>7. ASSUME NEW c \in Calls, Lost(c) PROVE ListAgrees'
  BY <1>7, LostList
<1>8. ASSUME NEW c \in Calls, CallEnds(c) PROVE ListAgrees'
  <2>1. CASE CallRefused(c) \/ GivesUp(c) \/ TailFails(c)
    BY <2>1, FailsList
  <2>2. CASE ThenReload(c) \/ ThenRefresh(c) \/ ThenFirst(c)
    BY <2>2, ThenLoadsList
  <2>3. CASE ThenPatch(c) \/ ThenNothing(c)
    BY <2>3, PatchList, NothingList
  <2> QED
    BY <1>8, <2>1, <2>2, <2>3 DEF CallEnds
<1>9. ASSUME NEW r \in Row, Elsewhere(r) PROVE ListAgrees'
  BY <1>9, ElsewhereWrites, WrittenList DEF Elsewhere
<1> QED
  BY <1>1, <1>2, <1>3, <1>4, <1>5, <1>6, <1>7, <1>8, <1>9 DEF PageNext

LEMMA ListInvInductive == PageInv /\ ListInv /\ [PageNext]_pageVars => ListInv'
<1> SUFFICES ASSUME PageInv, ListInv, [PageNext]_pageVars PROVE ListInv'
  OBVIOUS
<1>1. StampsAgree'
  BY StampsInductive DEF ListInv
<1>2. ASSUME ~crossed' PROVE ListAgrees'
  BY <1>1, <1>2, CrossedStays, ListInductive DEF ListInv
<1> QED
  BY <1>1, <1>2 DEF ListInv

(* Nothing is told, asked for or shown yet, and the first load is under    *)
(* way, if the page is mounted at all.                                     *)
LEMMA FreshListInv ==
  ASSUME PageInv,
         \/ /\ stamp = [r \in Row |-> IF r \in Listed THEN 1 ELSE 0]
            /\ clock = 1
         \/ stamp = Blank,
         made = Blank, told = Blank, query = Top,
         view = [shows |-> Blank, query |-> Top, error |-> FALSE, last |-> "none"],
         \/ load = [l \in Loads |-> IF l = 1 THEN Asked(Top, None) ELSE NoLoad]
         \/ load = [l \in Loads |-> NoLoad],
         call = [c \in Calls |-> NoCall], open = NoForm
  PROVE  ListInv
<1>1. \A r \in Row : Blank[r] = 0
  BY DEF Blank
<1>2. /\ view.shows = Blank /\ view.query = Top /\ ~view.error
      /\ view.last # "ok"
  OBVIOUS
<1>3. \A c \in Calls : call[c] = NoCall
  OBVIOUS
<1>4. \A l \in Loads : load[l] = NoLoad \/ (l = 1 /\ load[l] = Asked(Top, None))
  OBVIOUS
<1>5. /\ NoLoad.may = {} /\ Asked(Top, None).may = {stamp}
      /\ Asked(Top, None).query = Top
  BY DEF NoLoad, Asked
<1>6. ASSUME NEW r \in Row
      PROVE  /\ stamp[r] \in Nat /\ stamp[r] <= clock /\ clock \in Nat
             /\ told[r] = 0 /\ made[r] = 0 /\ (stamp[r] > 0 => r \in Listed)
             /\ (Met(r) => r \in Listed)
  <2>1. stamp[r] \in Nat /\ clock \in Nat
    BY ByParts DEF Rest
  <2>2. stamp[r] <= clock /\ (stamp[r] > 0 => r \in Listed)
    BY <1>1, <2>1
  <2>3. Met(r) => r \in Listed
    BY <1>1, <1>2, <1>3, NoCallFacts, NoFormFacts DEF Met
  <2> QED
    BY <1>1, <2>1, <2>2, <2>3
<1>7. StampsAgree
  <2>1. \A r \in Row : RowAgrees(r) /\ (Met(r) => Stored(r))
    BY <1>6 DEF RowAgrees, Stored
  <2>2. \A l \in Loads : \A shows \in load[l].may : SeenStored(shows)
    BY <1>4, <1>5, <1>6 DEF SeenStored, Stored
  <2>3. \A c \in Calls : DoneAgrees(c) /\ NewIsNew(c)
    BY <1>3, NoCallFacts DEF DoneAgrees, NewIsNew
  <2> QED
    BY <2>1, <2>2, <2>3, StampParts
<1>8. ListAgrees
  <2>1. \A l \in Loads \ IdleLoads : l = 1 /\ load[l] = Asked(Top, None)
    BY <1>4 DEF IdleLoads
  <2>2. UpToDate(stamp)
    BY <1>6 DEF UpToDate
  <2>3. \A l \in Loads \ IdleLoads : Brings(l)
    BY <1>2, <1>5, <2>1, <2>2 DEF Brings, Cleared
  <2>4. AtRest /\ OneLoad /\ WillLoad
    BY <1>2, <1>3, <2>1, NoCallFacts DEF AtRest, OneLoad, WillLoad, Waiting
  <2> QED
    BY <2>3, <2>4, ListParts
<1> QED
  BY <1>7, <1>8 DEF ListInv

LEMMA InitListInv == PageInit => ListInv
<1> SUFFICES ASSUME PageInit PROVE ListInv
  OBVIOUS
<1>1. PageInv
  BY InitPageInv
<1> QED
  BY <1>1, FreshListInv DEF PageInit

LEMMA ListReads == PageInv /\ ListInv => ReadsOwnWrites
<1> SUFFICES ASSUME PageInv, ListInv, Quiet, ~crossed, view.last = "ok"
             PROVE  /\ \A r \in Row : \/ view.shows[r] >= told[r]
                                      \/ view.shows[r] = stamp[r]
                                      \/ made[r] > 1
                    /\ view.query = query /\ Cleared
  BY DEF ReadsOwnWrites
<1>1. view.query = query /\ Cleared /\ UpToDate(view.shows)
  BY ListParts DEF ListInv, AtRest, Quiet
<1>2. ASSUME NEW r \in Row, view.shows[r] = 0, told[r] # 0, made[r] <= 1
      PROVE  stamp[r] = 0
  BY <1>1, <1>2 DEF UpToDate, Met
<1>3. \A r \in Row : told[r] \in Nat /\ made[r] \in Nat
  BY ByParts DEF Rest
<1> QED
  BY <1>1, <1>2, <1>3 DEF UpToDate

(* On every page the busy flags tell what is under way, and as long as no  *)
(* requests crossed, at most one load is, for what is selected, and        *)
(* nothing it can bring is older than what the user was told.              *)
THEOREM ListConsistent == PageSpec => []PageListInv
<1> QED
  BY InitPageInv, PageInvInductive, InitListInv, ListInvInductive,
     PTL DEF PageSpec, PageListInv

(* At rest the list shows what the user was told is done, on the page and  *)
(* for the filter selected.                                                *)
THEOREM OwnWritesAreRead == PageSpec => []ReadsOwnWrites
<1> QED
  BY ListConsistent, ListReads, PTL DEF PageListInv
=============================================================================
