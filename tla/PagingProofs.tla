----------------------------- MODULE PagingProofs -----------------------------
(***************************************************************************)
(* Proofs about Paging where memory is mapped as EmptyMap says, for any    *)
(* spans, any sets of free frames, anything left in them, and any calls.   *)
(*                                                                         *)
(* Up to the first table that it needs, a call goes one way.  Stage says   *)
(* what there is on each part of it: nothing; the entries of tempmap, one  *)
(* more at each level; and the new table, whose own address the processor  *)
(* cannot translate, so that the kernel stops.                             *)
(***************************************************************************)
EXTENDS EmptyMap, Induction

Given == (UNION FreeSets) \ free

Throughs == {PML4, Interim(0), Interim(1), Interim(2)}

Calls == [paddr : Pages, vaddr : Pages, size : Nat, done : {0}, level : {3, 4},
          table : Pages, fresh : Pages \cup {Nowhere}, temp : 0 .. 4,
          through : Throughs]

Untouched == DOMAIN mem = DOMAIN before

(* The tables in which tempmap has made an entry when temp is t.            *)
Staged(t) == {a \in Throughs :
                /\ a = PML4 => t < 4
                /\ \A i \in 0 .. 2 : a = Interim(i) => t < 3 - i}

AddedIn(S) == \A x \in DOMAIN mem : x \in DOMAIN before \/ x[1] \in S

(* Before the first table that is missing.                                  *)
Starting ==
  /\ call \in Calls /\ call.level = 4 /\ call.temp = 0 /\ call.fresh = Nowhere
  /\ Untouched

Way(f, S) == << PML4, Index(4, f) >> \in DOMAIN mem /\ mem[<< PML4, Index(4, f) >>] \in S

(* In tempmap, or just after it.                                            *)
Mapping ==
  /\ call \in Calls /\ call.level = 4 /\ call.size # 0 /\ call.fresh \in Given
  /\ call.temp = 4 => call.through = PML4
  /\ \A i \in 0 .. 2 : call.temp = 3 - i => call.through = Interim(i)
  /\ call.temp < 4 => Way(call.fresh, {Table(Interim(0))})
  /\ AddedIn(Staged(call.temp))

(* The new table is in the PML4, and has to be written.                     *)
Entering ==
  /\ call \in Calls /\ call.level = 3 /\ call.size # 0 /\ call.temp = 0 /\ call.fresh = Nowhere
  /\ call.table \in Given
  /\ Way(call.table, {Table(call.table), Table(Interim(0))})
  /\ AddedIn(Staged(0))

Stage == (call = NoCall /\ Untouched) \/ Starting \/ Mapping \/ Entering

Types ==
  /\ free \subseteq UNION FreeSets
  /\ starved \in BOOLEAN
  /\ DOMAIN before \subseteq DOMAIN mem

Empty ==
  ~starved /\ ~ByLeftover =>
    /\ \A x \in DOMAIN before : x[1] \in UNION FreeSets
    /\ last # NoCall => last.size = 0
    /\ Stage

IInv == Types /\ Empty

-------------------------------------------------------------------------------
LEMMA Constants ==
  /\ PageCount \in Nat \ {0} /\ PML4 \in Pages
  /\ UNION FreeSets \subseteq Pages \ {0, PML4}
  /\ \A n \in Pages : n \in Nat /\ n < PageCount
  /\ \A i \in 0 .. 2 : Interim(i) > PageCount /\ Interim(i) \notin Pages /\ Interim(i) # Nowhere
  /\ Nowhere \notin Pages /\ Nowhere = PageCount
<1>1. PageCount \in Nat \ {0}
  <2>1. 5 \in 1 .. 5
    OBVIOUS
  <2> QED
    BY <2>1, SpanAssumption
<1>2. PML4 \in Pages /\ UNION FreeSets \subseteq Pages \ {0, PML4}
  BY PageAssumption
<1> QED
  BY <1>1, <1>2 DEF Pages, Interim, Nowhere

(* A call as AllocTable, TempMap and InstallTable change it.                 *)
LEMMA Allocated ==
  ASSUME NEW c \in Calls, NEW f \in Pages
  PROVE  [c EXCEPT !.fresh = f, !.temp = 4, !.through = PML4]
           \in {d \in Calls : /\ d.fresh = f /\ d.temp = 4 /\ d.through = PML4
                              /\ d.level = c.level /\ d.size = c.size}
<1>1. PML4 \in Throughs /\ 4 \in 0 .. 4
  BY DEF Throughs
<1> QED
  BY <1>1 DEF Calls

LEMMA Mapped ==
  ASSUME NEW c \in Calls
  PROVE  [c EXCEPT !.temp = 0]
           \in {d \in Calls : /\ d.temp = 0
                              /\ d.fresh = c.fresh /\ d.level = c.level /\ d.size = c.size}
BY DEF Calls

LEMMA Installed ==
  ASSUME NEW c \in Calls, NEW f \in Pages
  PROVE  [c EXCEPT !.fresh = Nowhere, !.level = 3, !.table = f]
           \in {d \in Calls : /\ d.fresh = Nowhere /\ d.level = 3 /\ d.table = f
                              /\ d.temp = c.temp /\ d.size = c.size}
BY DEF Calls

LEMMA NotNoCall == \A c \in Calls : c # NoCall
<1> SUFFICES ASSUME NEW c \in Calls, c = NoCall PROVE FALSE
  OBVIOUS
<1>1. "size" \in DOMAIN c
  BY DEF Calls
<1>2. DOMAIN NoCall = {"vaddr"}
  BY DEF NoCall
<1> QED
  BY <1>1, <1>2

(* What palloc gives is the lowest page that is free.                       *)
LEMMA PallocIs ==
  ASSUME Types, free # {}
  PROVE  Palloc \in free /\ Palloc \in Pages \ {0, PML4}
<1>1. free \in SUBSET Nat
  BY Constants DEF Types
<1>2. \E n \in free : \A m \in free : n <= m
  BY <1>1, Least
<1>3. Palloc \in free
  BY <1>2 DEF Palloc, Min
<1> QED
  BY <1>3, Constants DEF Types

(* A page is nowhere that is to be reached through itself or through an     *)
(* interim table, and that has no entry at the index of its own address.    *)
LEMMA OwnTable ==
  ASSUME NEW f \in Pages, Way(f, {Table(f), Table(Interim(0))}),
         << f, Index(3, f) >> \notin DOMAIN mem
  PROVE  Walk(mem, f) = Nowhere
<1> DEFINE pdpt == Through(mem, PML4, Index(4, f))
           pdt == Through(mem, pdpt, Index(3, f))
           pt == Through(mem, pdt, Index(2, f))
<1>1. pdpt \in {f, Interim(0)} /\ ~mem[<< PML4, Index(4, f) >>].huge
  BY Constants DEF Through, Present, Way, Table
<1>2. Interim(0) \notin Pages /\ Nowhere \notin Pages
  BY Constants
<1>3. pdpt \in Pages => ~Present(mem, pdpt, Index(3, f))
  BY <1>1, <1>2 DEF Present
<1>4. pdt = Nowhere
  BY <1>3 DEF Through
<1>5. pt = Nowhere
  BY <1>2, <1>4 DEF Through
<1>6. TablesOf(mem, f) = << pt, pdt, pdpt, PML4 >>
  BY DEF TablesOf
<1> HIDE DEF pdpt, pdt, pt
<1>7. \A k \in Levels : ~Ends(mem, f, k)
  <2> SUFFICES ASSUME NEW k \in Levels PROVE ~Ends(mem, f, k)
    OBVIOUS
  <2>1. k = 1 \/ k = 2 \/ k = 3 \/ k = 4
    BY DEF Levels
  <2> QED
    BY <2>1, <1>1, <1>2, <1>3, <1>4, <1>5, <1>6 DEF Ends
<1> QED
  BY <1>7 DEF Walk

LEMMA PutIs ==
  ASSUME NEW t, NEW i, NEW e, Put(t, i, e)
  PROVE  /\ DOMAIN mem' = DOMAIN mem \cup {<< t, i >>}
         /\ mem'[<< t, i >>] = e
         /\ \A x \in DOMAIN mem : x # << t, i >> => mem'[x] = mem[x]
BY DEF Put

LEMMA InitInv == Init => IInv
<1> SUFFICES ASSUME Init PROVE IInv
  OBVIOUS
<1>1. Untouched /\ call = NoCall /\ last = NoCall /\ ~starved
  BY DEF Init, Untouched
<1>2. \A x \in DOMAIN before : x[1] \in UNION FreeSets
  BY EmptyAssumption DEF Init
<1>3. Types
  BY DEF Init, Types
<1> QED
  BY <1>1, <1>2, <1>3 DEF IInv, Empty, Stage

(* Pages are given out and entries made for good.                           *)
Grows ==
  /\ free' \subseteq free
  /\ starved' \in BOOLEAN /\ (starved => starved')
  /\ DOMAIN before \subseteq DOMAIN before' /\ DOMAIN before' \subseteq DOMAIN mem'

LEMMA BeginGrows ==
  ASSUME Types, NEW r, Begin(r), free' \subseteq free
  PROVE  Grows
BY DEF Begin, Types, Grows

LEMMA PutGrows ==
  ASSUME Types, NEW t, NEW i, NEW e, Put(t, i, e), UNCHANGED << free, before, starved >>
  PROVE  Grows
BY PutIs DEF Types, Grows

LEMMA NextGrows ==
  ASSUME Types, Next
  PROVE  Grows
<1>1. ASSUME NEW r \in Requests, CallMmap(r) PROVE Grows
  BY <1>1, BeginGrows DEF CallMmap
<1>2. CASE Refill
  <2>1. free' \subseteq free
    BY <1>2 DEF Refill
  <2> QED
    BY <1>2, <2>1, BeginGrows DEF Refill
<1>3. ASSUME NEW k \in Levels, Descend(k) PROVE Grows
  BY <1>3 DEF Descend, Types, Grows
<1>4. ASSUME NEW k \in Levels, AllocTable(k) PROVE Grows
  BY <1>4 DEF AllocTable, Types, Grows
<1>5. ASSUME NEW k \in Levels, TempDescend(k) PROVE Grows
  <2>1. UNCHANGED << free, before, starved >>
    BY <1>5 DEF TempDescend
  <2>2. mem' = mem \/ \E i, e : Put(Here, i, e)
    BY <1>5 DEF TempDescend
  <2> QED
    BY <2>1, <2>2, PutGrows DEF Types, Grows
<1>6. ASSUME NEW k \in Levels, InstallTable(k) PROVE Grows
  BY <1>6, PutGrows DEF InstallTable
<1>7. ASSUME NEW k \in Levels, MapEntry(k) PROVE Grows
  BY <1>7, PutGrows DEF MapEntry
<1>8. CASE TempMap
  BY <1>8, PutGrows DEF TempMap
<1>9. CASE Return
  BY <1>9 DEF Return, Types, Grows
<1>10. CASE PageFault
  BY <1>10 DEF PageFault, Types, Grows
<1> QED
  BY <1>1, <1>2, <1>3, <1>4, <1>5, <1>6, <1>7, <1>8, <1>9, <1>10 DEF Next, Step

LEMMA GrowthKeeps ==
  ASSUME Types, Grows
  PROVE  /\ Types'
         /\ ~starved' => ~starved
         /\ ~ByLeftover' => ~ByLeftover
<1>1. Types'
  BY DEF Types, Grows
<1>2. Given \subseteq Given'
  BY DEF Given, Grows
<1>3. ByLeftover => ByLeftover'
  BY <1>2 DEF ByLeftover, Given, Present, Grows
<1> QED
  BY <1>1, <1>3 DEF Grows

-------------------------------------------------------------------------------
(* The stages, step by step.                                                *)
Stages ==
  /\ ~starved /\ ~ByLeftover
  /\ \A x \in DOMAIN before : x[1] \in UNION FreeSets
  /\ last # NoCall => last.size = 0
  /\ Stage

LEMMA BeginStep ==
  ASSUME Types, Stages, NEW r \in [paddr : Pages, vaddr : Pages, size : Nat], Begin(r)
  PROVE  Starting' /\ (\A x \in DOMAIN before' : x[1] \in UNION FreeSets) /\ last' = last
<1>1. Untouched
  <2>1. call = NoCall
    BY DEF Begin, Idle
  <2> QED
    BY <2>1, NotNoCall DEF Stages, Stage, Starting, Mapping, Entering
<1>2. call' \in Calls
  BY Constants DEF Begin, Calls, Throughs, Nowhere
<1>3. call'.level = 4 /\ call'.temp = 0 /\ call'.fresh = Nowhere
  BY DEF Begin
<1>4. Untouched'
  BY DEF Begin, Untouched
<1>5. \A x \in DOMAIN before' : x[1] \in UNION FreeSets
  BY <1>1 DEF Begin, Untouched, Stages
<1> QED
  BY <1>2, <1>3, <1>4, <1>5 DEF Starting, Begin

(* A call that has begun finds the PML4 without entries: it returns if it   *)
(* is for no page, and asks for a table otherwise.                          *)
LEMMA StartingStep ==
  ASSUME Types, Stages, Starting, Step, ~starved'
  PROVE  /\ \/ Starting' /\ last' = last
            \/ Mapping' /\ last' = last
            \/ call' = NoCall /\ Untouched' /\ last'.size = 0
         /\ before' = before
<1>1. Here = PML4 /\ ~Present(mem, PML4, Slot)
  <2>1. \A x \in DOMAIN before : x[1] # PML4
    BY Constants DEF Stages
  <2> QED
    BY <2>1 DEF Starting, Here, Present, Untouched
<1>2. ASSUME NEW k \in Levels, Descend(k) PROVE FALSE
  BY <1>1, <1>2 DEF Descend
<1>3. ASSUME NEW k \in Levels, AllocTable(k) PROVE Mapping' /\ last' = last /\ before' = before
  <2>1. free # {}
    BY <1>3 DEF AllocTable
  <2>2. Palloc \in free /\ Palloc \in Pages \ {0, PML4}
    BY <2>1, PallocIs
  <2>3. call' = [call EXCEPT !.fresh = Palloc, !.temp = 4, !.through = PML4]
        /\ free' = free \ {Palloc} /\ UNCHANGED << mem, last, before >>
    BY <1>3 DEF AllocTable
  <2>4. call.size # 0 /\ call \in Calls /\ call.level = 4
    BY <1>3 DEF AllocTable, AtLevel, Starting, Calls
  <2>5. PICK f : f = Palloc
    OBVIOUS
  <2>6. call' \in Calls /\ call'.level = 4 /\ call'.size # 0 /\ call'.fresh \in Given'
        /\ call'.temp = 4 /\ call'.through = PML4
    <3>1. f \in Given'
      BY <2>2, <2>3, <2>5 DEF Given, Types
    <3>2. f \in Pages 
      BY <2>2, <2>5
    <3>3. call' = [call EXCEPT !.fresh = f, !.temp = 4, !.through = PML4]
      BY <2>3, <2>5
    <3>4. call' \in {d \in Calls : /\ d.fresh = f /\ d.temp = 4 /\ d.through = PML4
                                   /\ d.level = call.level /\ d.size = call.size}
      BY <2>4, <3>2, <3>3, Allocated
    <3> QED
      BY <2>4, <3>1, <3>4
  <2>7. AddedIn(Staged(call.temp))'
    BY <2>3 DEF AddedIn, Starting, Untouched
  <2> QED
    BY <2>3, <2>6, <2>7 DEF Mapping
<1>4. ASSUME NEW k \in Levels, TempDescend(k) PROVE FALSE
  BY <1>4 DEF TempDescend, AtTempLevel, Starting, Levels
<1>5. ASSUME NEW k \in Levels, InstallTable(k) PROVE FALSE
  BY <1>5 DEF InstallTable, Starting
<1>6. ASSUME NEW k \in Levels, MapEntry(k) PROVE FALSE
  BY <1>6 DEF MapEntry, AtLevel, Huge, Starting
<1>7. CASE TempMap
  BY <1>7 DEF TempMap, AtTempLevel, Starting
<1>8. CASE Return
  <2>1. call.size = 0
    BY <1>8 DEF Return, Starting, Calls
  <2> QED
    BY <1>8, <2>1 DEF Return, Starting, Untouched
<1>9. CASE PageFault
  BY <1>9 DEF PageFault, Starting, Untouched
<1> QED
  BY <1>2, <1>3, <1>4, <1>5, <1>6, <1>7, <1>8, <1>9 DEF Step

LEMMA StagedIs ==
  /\ Staged(4) = {} /\ Staged(3) = {PML4} /\ Staged(2) = {PML4, Interim(0)}
  /\ Staged(1) = {PML4, Interim(0), Interim(1)}
  /\ Staged(0) = {PML4, Interim(0), Interim(1), Interim(2)}
<1>1. /\ PML4 # Interim(0) /\ PML4 # Interim(1) /\ PML4 # Interim(2)
      /\ Interim(0) # Interim(1) /\ Interim(0) # Interim(2) /\ Interim(1) # Interim(2)
  BY Constants DEF Interim
<1>2. \A a \in Throughs, t \in 0 .. 4 :
        a \in Staged(t) <=> /\ a = PML4 => t < 4
                            /\ a = Interim(0) => t < 3
                            /\ a = Interim(1) => t < 2
                            /\ a = Interim(2) => t < 1
  <2>1. \A t \in 0 .. 4 : t < 3 - 0 <=> t < 3
    OBVIOUS
  <2>2. \A i \in 0 .. 2 : i = 0 \/ i = 1 \/ i = 2
    OBVIOUS
  <2>3. 0 \in 0 .. 2 /\ 1 \in 0 .. 2 /\ 2 \in 0 .. 2 /\ 3 - 0 = 3 /\ 3 - 1 = 2 /\ 3 - 2 = 1
    OBVIOUS
  <2> QED
    BY <2>2, <2>3 DEF Staged
<1>3. \A t : Staged(t) \subseteq Throughs
  BY DEF Staged
<1> QED
  BY <1>1, <1>2, <1>3 DEF Throughs

(* The table at hand in tempmap has no entry yet.                           *)
LEMMA NothingHere ==
  ASSUME Stages, Mapping, NEW t, t \in Throughs, t \notin Staged(call.temp)
  PROVE  \A i : ~Present(mem, t, i)
<1>1. \A x \in DOMAIN before : x[1] # t
  BY Constants DEF Stages, Throughs
<1> QED
  BY <1>1 DEF Mapping, AddedIn, Present

LEMMA TempDescendStep ==
  ASSUME Types, Stages, Mapping, NEW k \in Levels, TempDescend(k)
  PROVE  Mapping'
<1>1. call \in Calls /\ call.level = 4 /\ call.size # 0 /\ call.fresh \in Given /\ call.temp = k
  BY DEF Mapping, TempDescend, AtTempLevel
<1>2. k = 4 \/ k = 3 \/ k = 2
  BY DEF TempDescend, Levels
<1>3. /\ k = 4 => Here = PML4
      /\ k = 3 => Here = Interim(0)
      /\ k = 2 => Here = Interim(1)
  <2>1. \A i \in 0 .. 2 : Access(mem, Interim(i)) = Interim(i)
    BY Constants DEF Access
  <2>2. /\ k = 3 => call.through = Interim(0)
        /\ k = 2 => call.through = Interim(1)
    <3>1. k = 3 => k = 3 - 0
      OBVIOUS
    <3>2. k = 2 => k = 3 - 1
      OBVIOUS
    <3> QED
      BY <1>1, <3>1, <3>2 DEF Mapping
  <2> QED
    BY <1>1, <1>2, <2>1, <2>2 DEF Here
<1>4. Here \in Throughs /\ Here \notin Staged(k) /\ Here \in Staged(k - 1) /\ Staged(k) \subseteq Staged(k - 1)
  <2>1. /\ PML4 # Interim(0) /\ PML4 # Interim(1) /\ Interim(0) # Interim(1)
    BY Constants DEF Interim
  <2>2. /\ k = 4 => k - 1 = 3
        /\ k = 3 => k - 1 = 2
        /\ k = 2 => k - 1 = 1
    OBVIOUS
  <2> QED
    BY <1>2, <1>3, <2>1, <2>2, StagedIs DEF Throughs
<1>5. ~Present(mem, Here, TempProbe(k))
  BY <1>1, <1>4, NothingHere
<1>6. /\ Put(Here, Index(k, call.fresh), Table(Interim(4 - k)))
      /\ call' = [call EXCEPT !.temp = k - 1, !.through = Interim(4 - k)]
      /\ UNCHANGED << free, before >>
  BY <1>5 DEF TempDescend
<1>7. k - 1 \in 0 .. 4 /\ Interim(4 - k) \in Throughs
  BY <1>2 DEF Throughs
<1>8. call' \in {d \in Calls : /\ d.temp = k - 1 /\ d.through = Interim(4 - k)
                              /\ d.fresh = call.fresh /\ d.level = call.level /\ d.size = call.size}
  <2> DEFINE t == k - 1
             b == Interim(4 - k)
  <2>1. t \in 0 .. 4 /\ b \in Throughs /\ call \in Calls /\ call' = [call EXCEPT !.temp = t, !.through = b]
    BY <1>1, <1>6, <1>7
  <2> HIDE DEF t, b
  <2>2. [call EXCEPT !.temp = t, !.through = b]
          \in {d \in Calls : /\ d.temp = t /\ d.through = b
                             /\ d.fresh = call.fresh /\ d.level = call.level /\ d.size = call.size}
    BY <2>1 DEF Calls
  <2> QED
    BY <2>1, <2>2 DEF t, b
<1>9. Way(call.fresh, {Table(Interim(0))})'
  <2> DEFINE x == << PML4, Index(4, call.fresh) >>
             y == << Here, Index(k, call.fresh) >>
  <2>1. /\ DOMAIN mem' = DOMAIN mem \cup {y} /\ mem'[y] = Table(Interim(4 - k))
        /\ \A z \in DOMAIN mem : z # y => mem'[z] = mem[z]
    BY <1>6, PutIs
  <2>2. call'.fresh = call.fresh
    BY <1>8
  <2>3. x \in DOMAIN mem' /\ mem'[x] = Table(Interim(0))
    <3>1. CASE k = 4
      <4>1. Here = PML4 /\ 4 - k = 0
        BY <1>3, <3>1
      <4>2. x = y
        BY <4>1, <3>1
      <4> QED
        BY <2>1, <4>1, <4>2
    <3>2. CASE k # 4
      <4>1. x \in DOMAIN mem /\ mem[x] = Table(Interim(0))
        BY <1>1, <1>2, <3>2 DEF Mapping, Way
      <4>2. Here # PML4
        BY <1>2, <1>3, <3>2, Constants
      <4> QED
        BY <2>1, <4>1, <4>2
    <3> QED
      BY <3>1, <3>2
  <2> QED
    BY <2>2, <2>3 DEF Way
<1>10. AddedIn(Staged(call.temp))'
  <2>1. \A x \in DOMAIN mem : x \in DOMAIN before \/ x[1] \in Staged(k)
    BY <1>1 DEF Mapping, AddedIn
  <2>2. DOMAIN mem' = DOMAIN mem \cup {<< Here, Index(k, call.fresh) >>}
    BY <1>6, PutIs
  <2>3. \A x \in DOMAIN mem' : x \in DOMAIN before' \/ x[1] \in Staged(k - 1)
    BY <1>4, <1>6, <2>1, <2>2
  <2> QED
    BY <1>8, <2>3 DEF AddedIn, Staged
<1>11. Given' = Given
  BY <1>6 DEF Given
<1>12. \A i \in 0 .. 2 : k - 1 = 3 - i => Interim(4 - k) = Interim(i)
  <2>1. \A i \in 0 .. 2 : k - 1 = 3 - i => 4 - k = i
    BY <1>2
  <2> QED
    BY <2>1
<1>13. call'.temp # 4
  BY <1>2, <1>8
<1> QED
  BY <1>1, <1>8, <1>9, <1>10, <1>11, <1>12, <1>13 DEF Mapping

LEMMA TempMapStep ==
  ASSUME Types, Stages, Mapping, TempMap
  PROVE  Mapping'
<1>1. call \in Calls /\ call.level = 4 /\ call.size # 0 /\ call.fresh \in Given /\ call.temp = 1
  BY DEF Mapping, TempMap, AtTempLevel
<1>2. Here = Interim(2)
  <2>1. call.through = Interim(2)
    <3>1. 1 = 3 - 2 /\ 2 \in 0 .. 2
      OBVIOUS
    <3> QED
      BY <1>1, <3>1 DEF Mapping
  <2> QED
    BY <1>1, <2>1, Constants DEF Here, Access
<1>3. Put(Here, Index(1, call.fresh), Table(call.fresh))
      /\ call' = [call EXCEPT !.temp = 0] /\ UNCHANGED << free, before >>
  BY DEF TempMap
<1>4. call' \in {d \in Calls : /\ d.temp = 0
                              /\ d.fresh = call.fresh /\ d.level = call.level /\ d.size = call.size}
  BY <1>1, <1>3, Mapped
<1>5. DOMAIN mem' = DOMAIN mem \cup {<< Here, Index(1, call.fresh) >>}
      /\ \A z \in DOMAIN mem : z # << Here, Index(1, call.fresh) >> => mem'[z] = mem[z]
  BY <1>3 DEF Put
<1>6. Way(call.fresh, {Table(Interim(0))})'
  <2>1. << PML4, Index(4, call.fresh) >> \in DOMAIN mem
        /\ mem[<< PML4, Index(4, call.fresh) >>] = Table(Interim(0))
    BY <1>1 DEF Mapping, Way
  <2>2. Here # PML4
    BY <1>2, Constants
  <2>3. call'.fresh = call.fresh
    BY <1>4
  <2> QED
    BY <1>5, <2>1, <2>2, <2>3 DEF Way
<1>7. AddedIn(Staged(call.temp))'
  <2>1. \A x \in DOMAIN mem : x \in DOMAIN before \/ x[1] \in Staged(1)
    BY <1>1 DEF Mapping, AddedIn
  <2>2. \A x \in DOMAIN mem' : x \in DOMAIN before' \/ x[1] \in Staged(0)
    BY <1>2, <1>3, <1>5, <2>1, StagedIs
  <2> QED
    BY <1>4, <2>2 DEF AddedIn, Staged
<1>8. Given' = Given
  BY <1>3 DEF Given
<1>9. \A i \in 0 .. 2 : 0 # 3 - i
  OBVIOUS
<1> QED
  BY <1>1, <1>4, <1>6, <1>7, <1>8, <1>9 DEF Mapping

LEMMA InstallTableStep ==
  ASSUME Types, Stages, Mapping, NEW k \in Levels, InstallTable(k)
  PROVE  Entering'
<1>1. call \in Calls /\ call.level = 4 /\ call.size # 0 /\ call.fresh \in Given /\ call.temp = 0
  BY DEF Mapping, InstallTable, AtLevel
<1>2. k = 4 /\ Here = PML4
  BY <1>1 DEF InstallTable, AtLevel, Here
<1>3. PICK f : f = call.fresh
  OBVIOUS
<1>4. f \in Pages /\ f \in Given
  BY <1>1, <1>3, Constants DEF Given
<1>5. Put(PML4, Slot, Table(f))
      /\ call' = [call EXCEPT !.fresh = Nowhere, !.level = 3, !.table = f]
      /\ UNCHANGED << free, before >>
  BY <1>2, <1>3 DEF InstallTable
<1>6. call' \in {d \in Calls : /\ d.fresh = Nowhere /\ d.level = 3 /\ d.table = f
                              /\ d.temp = call.temp /\ d.size = call.size}
  BY <1>1, <1>4, <1>5, Installed
<1>7. DOMAIN mem' = DOMAIN mem \cup {<< PML4, Slot >>} /\ mem'[<< PML4, Slot >>] = Table(f)
      /\ \A z \in DOMAIN mem : z # << PML4, Slot >> => mem'[z] = mem[z]
  BY <1>5, PutIs
<1>8. Way(call.table, {Table(call.table), Table(Interim(0))})'
  <2>1. << PML4, Index(4, f) >> \in DOMAIN mem
        /\ mem[<< PML4, Index(4, f) >>] = Table(Interim(0))
    BY <1>1, <1>3 DEF Mapping, Way
  <2>2. << PML4, Index(4, f) >> \in DOMAIN mem'
        /\ mem'[<< PML4, Index(4, f) >>] \in {Table(f), Table(Interim(0))}
    BY <1>7, <2>1
  <2>3. call'.table = f
    BY <1>6
  <2> QED
    BY <2>2, <2>3 DEF Way
<1>9. AddedIn(Staged(0))'
  <2>1. \A x \in DOMAIN mem : x \in DOMAIN before \/ x[1] \in Staged(0)
    BY <1>1 DEF Mapping, AddedIn
  <2>2. \A x \in DOMAIN mem' : x \in DOMAIN before' \/ x[1] \in Staged(0)
    BY <1>5, <1>7, <2>1, StagedIs
  <2> QED
    BY <2>2 DEF AddedIn, Staged
<1>10. Given' = Given
  BY <1>5 DEF Given
<1> QED
  BY <1>1, <1>4, <1>6, <1>8, <1>9, <1>10 DEF Entering

LEMMA MappingStep ==
  ASSUME Types, Stages, Mapping, Step
  PROVE  (Mapping' \/ Entering') /\ last' = last /\ before' = before
<1>1. call \in Calls /\ call.level = 4 /\ call.size # 0 /\ call.fresh # Nowhere /\ call.done = 0
  BY Constants DEF Mapping, Calls, Given
<1>2. ASSUME NEW k \in Levels, Descend(k) \/ AllocTable(k) PROVE FALSE
  BY <1>1, <1>2 DEF Descend, AllocTable
<1>3. ASSUME NEW k \in Levels, TempDescend(k) PROVE Mapping' /\ last' = last /\ before' = before
  BY <1>3, TempDescendStep DEF TempDescend
<1>4. ASSUME NEW k \in Levels, InstallTable(k) PROVE Entering' /\ last' = last /\ before' = before
  BY <1>4, InstallTableStep DEF InstallTable
<1>5. ASSUME NEW k \in Levels, MapEntry(k) PROVE FALSE
  BY <1>1, <1>5 DEF MapEntry, AtLevel, Huge
<1>6. CASE TempMap
  BY <1>6, TempMapStep DEF TempMap
<1>7. CASE Return
  BY <1>1, <1>7 DEF Return, Calls
<1>8. CASE PageFault
  <2>1. UNCHANGED << mem, free, call, last, before >>
    BY <1>8 DEF PageFault
  <2> QED
    BY <2>1 DEF Mapping, Way, AddedIn, Staged, Given
<1> QED
  BY <1>2, <1>3, <1>4, <1>5, <1>6, <1>7, <1>8 DEF Step

(* The new table cannot be written: the processor stops at it.              *)
LEMMA EnteringStep ==
  ASSUME Types, Stages, Entering, Step
  PROVE  Entering' /\ last' = last /\ before' = before
<1>1. call \in Calls /\ call.level = 3 /\ call.size # 0 /\ call.temp = 0 /\ call.done = 0
  BY DEF Entering, Calls
<1>2. PICK f : f = call.table
  OBVIOUS
<1>3. f \in Given /\ f \in Pages /\ f # PML4 /\ f \in Nat /\ ~(f > PageCount)
  <2>1. f \in Given
    BY <1>2 DEF Entering
  <2>2. f \in Pages /\ f # PML4
    BY <2>1, Constants DEF Given
  <2> QED
    BY <2>1, <2>2, Constants
<1>4. << f, Index(3, f) >> \notin DOMAIN mem
  <2>1. << f, Index(3, f) >> \notin DOMAIN before
    BY <1>3 DEF Stages, ByLeftover, Given, Present
  <2>2. f \notin Staged(0)
    BY <1>3, Constants, StagedIs
  <2>3. \A x \in DOMAIN mem : x \in DOMAIN before \/ x[1] \in Staged(0)
    BY DEF Entering, AddedIn
  <2> QED
    BY <2>1, <2>2, <2>3
<1>5. Walk(mem, f) = Nowhere
  BY <1>2, <1>3, <1>4, OwnTable DEF Entering
<1>6. Here = Nowhere
  BY <1>1, <1>2, <1>3, <1>5 DEF Here, Access
<1>7. ASSUME NEW k \in Levels,
             Descend(k) \/ AllocTable(k) \/ TempDescend(k) \/ InstallTable(k) \/ MapEntry(k)
      PROVE  FALSE
  BY <1>1, <1>6, <1>7
     DEF Descend, AllocTable, TempDescend, InstallTable, MapEntry, AtLevel, AtTempLevel, Levels
<1>8. CASE TempMap
  BY <1>1, <1>8 DEF TempMap, AtTempLevel
<1>9. CASE Return
  BY <1>1, <1>9 DEF Return, Calls
<1>10. CASE PageFault
  <2>1. UNCHANGED << mem, free, call, last, before >>
    BY <1>10 DEF PageFault
  <2> QED
    BY <2>1 DEF Entering, Way, AddedIn, Staged, Given
<1> QED
  BY <1>7, <1>8, <1>9, <1>10 DEF Step

LEMMA NextInv ==
  ASSUME IInv, [Next]_vars
  PROVE  IInv'
<1>1. CASE UNCHANGED vars
  BY <1>1 DEF vars, IInv, Types, Empty, ByLeftover, Stage, Untouched, Starting, Mapping, Entering,
              Way, AddedIn, Staged, Given
<1>2. CASE Next
  <2>1. Types' /\ (~starved' => ~starved) /\ (~ByLeftover' => ~ByLeftover)
    BY <1>2, NextGrows, GrowthKeeps DEF IInv
  <2>2. SUFFICES ASSUME ~starved', ~ByLeftover'
                 PROVE  /\ \A x \in DOMAIN before' : x[1] \in UNION FreeSets
                        /\ last' # NoCall => last'.size = 0
                        /\ Stage'
    BY <2>1 DEF IInv, Empty, NoCall
  <2>3. Types /\ Stages
    BY <2>1, <2>2 DEF IInv, Empty, Stages
  <2>4. ASSUME NEW r \in [paddr : Pages, vaddr : Pages, size : Nat], Begin(r)
        PROVE  /\ \A x \in DOMAIN before' : x[1] \in UNION FreeSets
               /\ last' # NoCall => last'.size = 0
               /\ Stage'
    BY <2>3, <2>4, BeginStep DEF Stages, Stage
  <2>5. ASSUME NEW r \in Requests, CallMmap(r)
        PROVE  \E q \in [paddr : Pages, vaddr : Pages, size : Nat] : Begin(q)
    <3>1. r \in [paddr : Pages, vaddr : Pages, size : Nat]
      <4>1. Pages \subseteq Nat
        BY Constants
      <4> QED
        BY <4>1, PageAssumption
    <3> QED
      BY <2>5, <3>1 DEF CallMmap
  <2>6. CASE Refill
    <3>1. PICK f : f = Palloc
      OBVIOUS
    <3>2. f \in Pages
      BY <2>3, <2>6, <3>1, PallocIs DEF Refill
    <3>3. Begin([paddr |-> f, vaddr |-> f, size |-> 1])
      BY <2>6, <3>1 DEF Refill
    <3>4. [paddr |-> f, vaddr |-> f, size |-> 1] \in [paddr : Pages, vaddr : Pages, size : Nat]
      BY <3>2
    <3> QED
      BY <2>4, <3>3, <3>4
  <2>7. CASE Step
    <3>1. call # NoCall
      BY <2>7 DEF Step, Descend, AllocTable, TempDescend, InstallTable, MapEntry, TempMap, Return,
                  PageFault, AtLevel, AtTempLevel, Busy
    <3>2. Starting \/ Mapping \/ Entering
      BY <2>3, <3>1 DEF Stages, Stage
    <3>3. before' = before /\ \/ Stage' /\ last' = last
                              \/ Stage' /\ last'.size = 0
      BY <2>2, <2>3, <2>7, <3>2, StartingStep, MappingStep, EnteringStep DEF Stage, NoCall
    <3> QED
      BY <2>3, <3>3 DEF Stages
  <2> QED
    BY <1>2, <2>4, <2>5, <2>6, <2>7 DEF Next
<1> QED
  BY <1>1, <1>2

LEMMA InvSuffices == IInv => NothingMapped
<1> SUFFICES ASSUME IInv, ~starved, ~ByLeftover
             PROVE  /\ last # NoCall => last.size = 0
                    /\ \A x \in DOMAIN mem : x \in DOMAIN before \/ x[1] = PML4 \/ x[1] > PageCount
  BY DEF NothingMapped
<1>1. Stage /\ (last # NoCall => last.size = 0)
  BY DEF IInv, Empty
<1>2. \A t : \A a \in Staged(t) : a = PML4 \/ a > PageCount
  BY Constants DEF Staged, Throughs
<1>3. \A x \in DOMAIN mem : x \in DOMAIN before \/ x[1] = PML4 \/ x[1] > PageCount
  BY <1>1, <1>2 DEF Stage, Untouched, Starting, Mapping, Entering, AddedIn
<1> QED
  BY <1>1, <1>3

(* The invariant holds in every behaviour of mmap on an empty lower half.   *)
THEOREM InductiveInvariant == Spec => []IInv
<1>1. Init => IInv
  BY InitInv
<1>2. IInv /\ [Next]_vars => IInv'
  BY NextInv
<1> QED
  BY <1>1, <1>2, PTL DEF Spec

(* In the address space that the kernel is entered with, no call of mmap    *)
(* that was asked for a page returns, and none makes an entry but in the    *)
(* PML4 and in the interim tables, unless palloc is out of pages or has     *)
(* given one that happens to hold the entry needed.                         *)
THEOREM NothingIsMapped == Spec => []NothingMapped
<1>1. Spec => []IInv
  BY InductiveInvariant
<1>2. IInv => NothingMapped
  BY InvSuffices
<1> QED
  BY <1>1, <1>2, PTL
===============================================================================
