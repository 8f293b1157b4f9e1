--------------------------- MODULE BuddyAllocProofs ---------------------------
(***************************************************************************)
(* What BuddyAlloc guarantees for every memory map, pool and stack depth.  *)
(* The parts about ba_init and the memory map and about the trace stack    *)
(* are at the end.                                                         *)
(*                                                                         *)
(* The inductive invariant is about two things.  The blocks are laminar:   *)
(* two of them are apart, or one lies below the other.  And each call of   *)
(* palloc in progress has a sound view of them: whatever it passed is not  *)
(* worth returning to, and a block that it is splitting is still free.     *)
(***************************************************************************)
EXTENDS BuddyAlloc, SequenceTheorems, TLAPS

Below(c, b) == tree[b].split /\ (Inside(c, Left(b)) \/ Inside(c, Right(b)))

Laminar == \A b, c \in Live : b = c \/ Disjoint(b, c) \/ Below(b, c) \/ Below(c, b)

ChildrenLinked ==
  \A b \in Live : tree[b].split =>
    /\ b.order > MinOrder
    /\ Left(b) \in Live /\ tree[Left(b)].parent = b
    /\ Right(b) \in Live /\ tree[Right(b)].parent = b

ParentsLinked ==
  \A b \in Live :
    \/ tree[b].parent = NoBlock /\ \E i \in 1 .. Len(toplevel) : b = toplevel[i]
    \/ /\ tree[b].parent \in Live /\ tree[tree[b].parent].split
       /\ b = Left(tree[b].parent) \/ b = Right(tree[b].parent)

UsedAreLeaves == \A b \in Used : ~tree[b].split

ToplevelSorted ==
  /\ \A i \in 1 .. Len(toplevel) : toplevel[i] \in Live
  /\ \A i, j \in 1 .. Len(toplevel) : i < j => End(toplevel[i]) <= toplevel[j].start

Rooted == \A b \in Live : \E i \in 1 .. Len(toplevel) : Inside(b, toplevel[i])

(* The part of the map that is still to come lies beyond all blocks.       *)
RangesAhead ==
  /\ \A i, j \in 1 .. Len(ranges) :
       i < j /\ ranges[i].usable /\ ranges[j].usable => ranges[i].end <= ranges[j].base
  /\ \A i \in 1 .. Len(ranges) : ranges[i].usable =>
       /\ \A b \in Live : End(b) <= ranges[i].base
       /\ \E j \in 1 .. Len(MemMap) :
            /\ MemMap[j].usable
            /\ MemMap[j].base <= ranges[i].base /\ ranges[i].end <= MemMap[j].end

(* The free leaves that are large enough for c lie ahead of it.            *)
Ahead(c) ==
  \A f \in FreeLeaves : Fits(f, c.size) =>
    CASE c.pc \in {"visit", "left", "right"} -> c.at.start <= f.start
      [] c.pc = "fail"     -> End(c.at) <= f.start
      [] c.pc = "none"     -> FALSE
      [] c.pc = "toplevel" -> TRUE

Searching(c) == c.pc \in {"visit", "fail", "left", "right"}
Splitting(c) == c.pc \in {"left", "right"}

(* c is as the k-th call of palloc may be.                                 *)
CallOK(c, k) ==
  /\ Searching(c) => /\ c.at \in Live /\ c.top \in 1 .. Len(toplevel)
                     /\ Inside(c.at, toplevel[c.top])
  /\ Splitting(c) => c.at \in FreeLeaves /\ c.at.order > MinOrder
  /\ c.pc = "toplevel" => /\ k = 1 /\ ranges # << >> /\ ranges[1].usable
                          /\ c.at \in Block /\ c.at.start = ranges[1].base
                          /\ End(c.at) <= ranges[1].end
  /\ c.grow # "no" => pool = 0 /\ (Splitting(c) \/ c.pc = "toplevel")
  /\ c.grow = "map" => c.page \in Live
  /\ k > 1 => c.size = Size[MinOrder] /\ pool = 0 /\ c.grow # "map"
  /\ Ahead(c)

(* c waits for the call above it, in ba_alloc_new_blockpage or in mmap.    *)
Waiting(c) == c.grow # "no" /\ (c.grow = "map" => c.missing > 0)

CallsOK ==
  \A k \in 1 .. Len(calls) : \A c \in Call :
    c = calls[k] => CallOK(c, k) /\ (k < Len(calls) => Waiting(c))

TreeInv ==
  /\ Laminar /\ ChildrenLinked /\ ParentsLinked /\ UsedAreLeaves
  /\ UnavailableSound /\ BlocksUsable

IInv ==
  /\ TypeOK /\ TreeInv
  /\ ToplevelSorted /\ Rooted /\ RangesAhead
  /\ CallsOK

-------------------------------------------------------------------------------
(* Sizes, blocks and their halves.                                         *)

(* Sizes are positive, and those of adjacent orders differ by a factor 2.  *)
LEMMA SizeFacts ==
  /\ MinOrder \in Nat \ {0} /\ MaxOrder \in Nat /\ MinOrder <= MaxOrder
  /\ \A o \in Orders : /\ Size[o] \in Nat \ {0} /\ Size[o - 1] \in Nat \ {0}
                       /\ Size[o] = 2 * Size[o - 1]
  /\ \A o, p \in Orders : o < p => Size[o] < Size[p]
  /\ \A o, p \in Orders : Size[o] <= Size[p] => o <= p
<1>1. MinOrder \in Nat \ {0} /\ MaxOrder \in Nat /\ MinOrder <= MaxOrder
  BY OrderAssumption
<1>2. ASSUME NEW o \in Orders
      PROVE  /\ Size[o] \in Nat \ {0} /\ Size[o - 1] \in Nat \ {0}
             /\ Size[o] = 2 * Size[o - 1]
  <2>1. o \in MinOrder - 1 .. MaxOrder /\ o - 1 \in MinOrder - 1 .. MaxOrder
    BY <1>1 DEF Orders
  <2>. QED
    BY <2>1, SizeAssumption
<1>3. ASSUME NEW o \in Orders, NEW p \in Orders, o < p
      PROVE  Size[o] < Size[p]
  <2>1. o \in MinOrder - 1 .. MaxOrder /\ p \in MinOrder - 1 .. MaxOrder
    BY <1>1 DEF Orders
  <2>. QED
    BY <2>1, <1>3, SizeAssumption
<1>4. ASSUME NEW o \in Orders, NEW p \in Orders, Size[o] <= Size[p]
      PROVE  o <= p
  <2>1. o \in Nat /\ p \in Nat
    BY <1>1 DEF Orders
  <2>2. p < o => Size[p] < Size[o]
    BY <1>3
  <2>. QED
    BY <1>2, <1>4, <2>1, <2>2
<1>. QED
  BY <1>1, <1>2, <1>3, <1>4

(* No block is smaller than those of the smallest order.                   *)
LEMMA MinSize ==
  ASSUME NEW o \in Orders
  PROVE  Size[MinOrder] \in Nat /\ Size[MinOrder] <= Size[o]
<1>1. MinOrder \in Orders /\ o \in Nat /\ (o = MinOrder \/ MinOrder < o)
  BY SizeFacts DEF Orders
<1>2. Size[MinOrder] \in Nat /\ Size[o] \in Nat
  BY <1>1, SizeFacts
<1>3. CASE o = MinOrder
  BY <1>2, <1>3
<1>4. CASE MinOrder < o
  <2>1. Size[MinOrder] < Size[o]
    BY <1>1, <1>4, SizeFacts
  <2>. QED
    BY <1>2, <2>1
<1>. QED
  BY <1>1, <1>2, <1>3, <1>4

(* A block covers at least one address, and NoBlock is not a block.        *)
LEMMA BlockFacts ==
  /\ NoBlock \notin Block
  /\ \A b \in Block : /\ b.start \in Nat /\ b.order \in Orders /\ b.order \in Nat
                      /\ Size[b.order] \in Nat \ {0}
                      /\ End(b) = b.start + Size[b.order] /\ End(b) \in Nat
                      /\ b.start < End(b)
  /\ \A b, c \in Block : b.start = c.start /\ b.order = c.order => b = c
BY SizeFacts DEF Block, NoBlock, End, Orders

(* The two halves of a block are blocks, adjoin and make up the block.     *)
LEMMA HalfFacts ==
  ASSUME NEW b \in Block, b.order > MinOrder
  PROVE  /\ Left(b) \in Block /\ Right(b) \in Block
         /\ Left(b).start = b.start /\ End(Left(b)) = Right(b).start
         /\ End(Right(b)) = End(b)
         /\ Left(b).order = b.order - 1 /\ Right(b).order = b.order - 1
         /\ b.start < Right(b).start /\ Right(b).start < End(b)
         /\ Left(b) # b /\ Right(b) # b /\ Left(b) # Right(b)
<1>1. /\ b.start \in Nat /\ b.order \in Orders /\ b.order - 1 \in Orders
      /\ Size[b.order] = 2 * Size[b.order - 1]
      /\ Size[b.order - 1] \in Nat \ {0}
  BY SizeFacts DEF Block, Orders
<1>. QED
  BY <1>1 DEF Left, Right, Block, End, Orders

(* A block is not larger than one that it lies in.                         *)
LEMMA InsideOrder ==
  ASSUME NEW b \in Block, NEW c \in Block, Inside(b, c)
  PROVE  Size[b.order] <= Size[c.order] /\ c.order - b.order \in Nat
<1>1. /\ b.order \in Orders /\ c.order \in Orders /\ b.order \in Nat /\ c.order \in Nat
      /\ b.start \in Nat /\ c.start \in Nat
      /\ Size[b.order] \in Nat /\ Size[c.order] \in Nat
      /\ c.start <= b.start /\ b.start + Size[b.order] <= c.start + Size[c.order]
  BY BlockFacts DEF Inside
<1>2. Size[b.order] <= Size[c.order]
  BY <1>1
<1>3. b.order <= c.order
  BY <1>1, <1>2, SizeFacts
<1>. QED
  BY <1>1, <1>2, <1>3

(* A fresh node is a node.                                                 *)
LEMMA NewNodeType ==
  ASSUME NEW p \in Block \cup {NoBlock}
  PROVE  NewNode(p) \in Node
<1>1. {} \in SUBSET Flags
  OBVIOUS
<1>. QED
  BY <1>1 DEF NewNode, Node

(* Two blocks without children that overlap are the same.                  *)
LEMMA LeafOverlap ==
  ASSUME Laminar, NEW b \in Live, NEW c \in Live,
         ~tree[b].split, ~tree[c].split, ~Disjoint(b, c)
  PROVE  b = c
BY DEF Laminar, Below

(* The search ahead of c and the leaf it has reached.                      *)
LEMMA FreeLeafFacts ==
  ASSUME TypeOK, NEW f \in FreeLeaves
  PROVE  /\ f \in Live /\ f \in Block /\ ~tree[f].split
         /\ "USED" \notin tree[f].flags /\ "UNAVAILABLE" \notin tree[f].flags
BY DEF FreeLeaves, CanAllocate, CanAllocateIn, TypeOK

(* The bounds of an entry of the memory map are addresses.                 *)
LEMMA MemMapTypes ==
  \A j \in 1 .. Len(MemMap) : MemMap[j].base \in Nat /\ MemMap[j].end \in Nat
<1>1. ASSUME NEW j \in 1 .. Len(MemMap) PROVE MemMap[j] \in MapEntry
  BY MemMapAssumption, ElementOfSeq
<1>. QED
  BY <1>1 DEF MapEntry

-------------------------------------------------------------------------------
(* Steps that change the calls only.                                       *)

(* The fields of a call.                                                   *)
LEMMA CallFields ==
  ASSUME NEW c \in Call
  PROVE  /\ c.size \in Nat /\ c.depth \in Nat /\ c.top \in Nat
         /\ c.at \in Block \cup {NoBlock}
         /\ c.pc \in {"visit", "fail", "none", "left", "right", "toplevel"}
         /\ c.grow \in {"no", "page", "map"}
         /\ c.page \in Block \cup {NoBlock} /\ c.missing \in Nat
BY DEF Call

(* SetNow replaces the innermost call and leaves the others alone.         *)
LEMMA SetNowFacts ==
  ASSUME TypeOK, calls # << >>, NEW c \in Call
  PROVE  /\ Len(calls) \in Nat /\ Len(calls) >= 1
         /\ Now = calls[Len(calls)] /\ Now \in Call
         /\ SetNow(c) \in Seq(Call) /\ Len(SetNow(c)) = Len(calls)
         /\ SetNow(c)[Len(calls)] = c
         /\ \A k \in 1 .. Len(calls) : k # Len(calls) => SetNow(c)[k] = calls[k]
<1>1. calls \in Seq(Call) /\ Len(calls) \in Nat /\ Len(calls) >= 1
  BY EmptySeq, LenProperties DEF TypeOK
<1>2. Len(calls) \in 1 .. Len(calls) /\ DOMAIN calls = 1 .. Len(calls)
  BY <1>1, LenProperties
<1>3. Now \in Call
  BY <1>1, <1>2, ElementOfSeq DEF Now
<1>4. SetNow(c) \in Seq(Call) /\ Len(SetNow(c)) = Len(calls)
  BY <1>1, <1>2, ExceptSeq DEF SetNow
<1>. QED
  BY <1>1, <1>2, <1>3, <1>4 DEF SetNow, Now

(* Whether a call is as it may be depends on the blocks, on what is left   *)
(* of the map and, when it is nested or growing the pool, on the pool.     *)
LEMMA CallOKStable ==
  ASSUME NEW c, NEW k, CallOK(c, k),
         UNCHANGED << ranges, toplevel, tree >>,
         pool' = pool \/ (k = 1 /\ c.grow = "no")
  PROVE  CallOK(c, k)'
<1>1. Live' = Live /\ FreeLeaves' = FreeLeaves
  BY DEF FreeLeaves, CanAllocate, CanAllocateIn, Live
<1>2. Ahead(c)'
  BY <1>1 DEF CallOK, Ahead
<1>. QED
  BY <1>1, <1>2 DEF CallOK, Searching, Splitting

(* A step that leaves the blocks and the map alone preserves the invariant *)
(* if the calls are as they may be after it.                               *)
LEMMA CallsOnly ==
  ASSUME IInv, TypeOK', CallsOK', UNCHANGED << ranges, toplevel, tree >>
  PROVE  IInv'
BY DEF IInv, TreeInv, ToplevelSorted, Rooted, RangesAhead, Laminar, ChildrenLinked,
       ParentsLinked, UsedAreLeaves, UnavailableSound, BlocksUsable, Below, Used,
       FreeLeaves, CanAllocate, CanAllocateIn, Live

(* So does a step that moves the innermost call, if that call is as it may *)
(* be after it, and that changes the pool only when no other call is in    *)
(* progress.                                                               *)
LEMMA LocalStep ==
  ASSUME IInv, calls # << >>, NEW c \in Call, calls' = SetNow(c),
         CallOK(c, Len(calls)),
         UNCHANGED << ranges, toplevel, tree, ret, status >>,
         pool' \in Nat, pool' = pool \/ (Len(calls) = 1 /\ c.grow = "no"),
         pages' \subseteq Live, overwritten' \subseteq Live
  PROVE  IInv'
<1>1. /\ Len(calls) \in Nat /\ Len(calls) >= 1
      /\ calls' \in Seq(Call) /\ Len(calls') = Len(calls)
      /\ calls'[Len(calls)] = c
      /\ \A k \in 1 .. Len(calls) : k # Len(calls) => calls'[k] = calls[k]
  BY SetNowFacts DEF IInv
<1>2. TypeOK'
  BY <1>1 DEF IInv, TypeOK, Live
<1>3. ASSUME NEW k \in 1 .. Len(calls'), NEW d \in Call, d = calls'[k]
      PROVE  CallOK(d, k)' /\ (k < Len(calls') => Waiting(d))
  <2>1. CASE k = Len(calls)
    BY <1>1, <1>3, <2>1, CallOKStable
  <2>2. CASE k # Len(calls)
    <3>1. /\ CallOK(d, k) /\ (k < Len(calls) => Waiting(d))
          /\ pool' = pool
      BY <1>1, <1>3, <2>2 DEF IInv, CallsOK
    <3>. QED
      BY <1>1, <3>1, CallOKStable
  <2>. QED
    BY <2>1, <2>2
<1>. QED
  BY <1>2, <1>3, CallsOnly DEF CallsOK

-------------------------------------------------------------------------------
(* The search.                                                             *)

(* A call made from within ba_new_block asks for one page, and while it is *)
(* in progress the pool is empty.                                          *)
LEMMA NestedCall ==
  ASSUME NEW c, NEW k, CallOK(c, k), k > 1
  PROVE  c.size = Size[MinOrder] /\ pool = 0 /\ c.grow # "map" /\ c.pc # "toplevel"
BY DEF CallOK

(* The innermost call is as it may be.                                     *)
LEMMA NowFacts ==
  ASSUME IInv, calls # << >>
  PROVE  /\ Now \in Call /\ CallOK(Now, Len(calls))
         /\ Len(calls) \in Nat /\ Len(calls) >= 1
         /\ Searching(Now) => Now.at \in Live /\ Now.at \in Block
         /\ Len(calls) = 1 \/ (Now.size = Size[MinOrder] /\ pool = 0 /\ Now.grow # "map")
<1>1. /\ Now = calls[Len(calls)] /\ Now \in Call
      /\ Len(calls) \in Nat /\ Len(calls) >= 1
  <2>1. TypeOK
    BY DEF IInv
  <2>2. calls \in Seq(Call) /\ Len(calls) \in Nat /\ Len(calls) >= 1
    BY <2>1, EmptySeq, LenProperties DEF TypeOK
  <2>. QED
    BY <2>2, ElementOfSeq DEF Now
<1>2. CallOK(Now, Len(calls))
  BY <1>1 DEF IInv, CallsOK
<1>3. Len(calls) > 1 => Now.size = Size[MinOrder] /\ pool = 0 /\ Now.grow # "map"
  BY <1>2, NestedCall
<1>4. Len(calls) = 1 \/ Len(calls) > 1
  BY <1>1
<1>5. Searching(Now) => Now.at \in Live /\ Now.at \in Block
  BY <1>2 DEF CallOK, IInv, TypeOK
<1>. QED
  BY <1>1, <1>2, <1>3, <1>4, <1>5

(* A free leaf that begins in b is b or lies inside it, b being split.     *)
LEMMA LeafInside ==
  ASSUME TypeOK, Laminar, ChildrenLinked, NEW b \in Live, NEW f \in FreeLeaves,
         b.start <= f.start, f.start < End(b)
  PROVE  f = b \/ (tree[b].split /\ Inside(f, b) /\ Size[f.order] < Size[b.order])
<1>1. /\ f \in Live /\ f \in Block /\ b \in Block /\ ~tree[f].split
  BY FreeLeafFacts DEF TypeOK
<1>2. ~Disjoint(b, f)
  BY <1>1, BlockFacts DEF Disjoint
<1>3. f = b \/ Below(f, b)
  BY <1>1, <1>2 DEF Laminar, Below
<1>4. CASE Below(f, b)
  <2>1. tree[b].split /\ b.order > MinOrder
    BY <1>4 DEF Below, ChildrenLinked
  <2>2. /\ Inside(f, b)
        /\ b.start < f.start \/ End(f) < End(b)
    BY <1>1, <1>4, <2>1, HalfFacts, BlockFacts DEF Below, Inside
  <2>. QED
    BY <1>1, <2>1, <2>2, BlockFacts DEF Inside
<1>. QED
  BY <1>3, <1>4

(* Refuse: there is nothing for the call in the block it backs out of.     *)
LEMMA RefuseStep == IInv /\ Refuse => IInv'
<1>. SUFFICES ASSUME IInv, Refuse PROVE IInv'
  OBVIOUS
<1>. DEFINE c == [Now EXCEPT !.pc = "fail"]
<1>1. /\ calls # << >> /\ Now.pc = "visit" /\ calls' = SetNow(c)
      /\ ~CanAllocateIn(Now.at) \/ ~Fits(Now.at, Now.size)
      /\ UNCHANGED << ranges, toplevel, tree, pool, pages, overwritten, ret, status >>
  BY DEF Refuse, Visiting, Running
<1>2. /\ Now \in Call /\ CallOK(Now, Len(calls))
      /\ Now.at \in Live /\ Now.at \in Block
  BY <1>1, NowFacts DEF Searching
<1>3. /\ c \in Call /\ c.pc = "fail" /\ c.at = Now.at /\ c.size = Now.size
      /\ c.top = Now.top /\ c.grow = Now.grow /\ c.page = Now.page
  BY <1>2 DEF Call
<1>4. Ahead(c)
  <2>. SUFFICES ASSUME NEW f \in FreeLeaves, Fits(f, Now.size)
                PROVE  End(Now.at) <= f.start
    BY <1>3 DEF Ahead
  <2>1. /\ Now.at.start <= f.start /\ f \in Block /\ f \in Live
    BY <1>1, <1>2, FreeLeafFacts DEF CallOK, Ahead, IInv
  <2>2. SUFFICES ASSUME f.start < End(Now.at) PROVE FALSE
    BY <1>2, <2>1, BlockFacts
  <2>3. \/ f = Now.at
        \/ tree[Now.at].split /\ Inside(f, Now.at) /\ Size[f.order] < Size[Now.at.order]
    BY <1>2, <2>1, <2>2, LeafInside DEF IInv, TreeInv
  <2>4. ASSUME ~Fits(Now.at, Now.size) PROVE FALSE
    BY <1>2, <2>1, <2>3, <2>4, BlockFacts, CallFields DEF Fits
  <2>5. ASSUME ~CanAllocateIn(Now.at) PROVE FALSE
    BY <1>2, <2>3, <2>5 DEF CanAllocateIn, CanAllocate, FreeLeaves, IInv, TreeInv,
       UsedAreLeaves, Used, UnavailableSound
  <2>. QED
    BY <1>1, <2>4, <2>5
<1>5. CallOK(c, Len(calls))
  BY <1>1, <1>2, <1>3, <1>4 DEF CallOK, Searching, Splitting
<1>. QED
  BY <1>1, <1>3, <1>5, LocalStep DEF IInv, TypeOK

(* Descend: the left half begins where the whole does.                     *)
LEMMA DescendStep == IInv /\ Descend => IInv'
<1>. SUFFICES ASSUME IInv, Descend PROVE IInv'
  OBVIOUS
<1>. DEFINE c == [Now EXCEPT !.at = Left(Now.at)]
<1>1. /\ calls # << >> /\ Now.pc = "visit" /\ calls' = SetNow(c)
      /\ tree[Now.at].split
      /\ UNCHANGED << ranges, toplevel, tree, pool, pages, overwritten, ret, status >>
  BY DEF Descend, Visiting, Running
<1>2. /\ Now \in Call /\ CallOK(Now, Len(calls))
      /\ Now.at \in Live /\ Now.at \in Block
  BY <1>1, NowFacts DEF Searching
<1>3. /\ Left(Now.at) \in Live /\ Left(Now.at) \in Block
      /\ Left(Now.at).start = Now.at.start /\ End(Left(Now.at)) <= End(Now.at)
  BY <1>1, <1>2, HalfFacts, BlockFacts DEF IInv, TreeInv, ChildrenLinked
<1>4. /\ c \in Call /\ c.pc = "visit" /\ c.at = Left(Now.at) /\ c.size = Now.size
      /\ c.top = Now.top /\ c.grow = Now.grow /\ c.page = Now.page
  BY <1>1, <1>2, <1>3 DEF Call
<1>5. Ahead(c)
  BY <1>1, <1>2, <1>3, <1>4 DEF CallOK, Ahead
<1>6. c.top \in 1 .. Len(toplevel) /\ Inside(c.at, toplevel[c.top])
  <2>1. Now.top \in 1 .. Len(toplevel) /\ Inside(Now.at, toplevel[Now.top])
    BY <1>1, <1>2 DEF CallOK, Searching
  <2>2. toplevel[Now.top] \in Block
    BY <2>1, ElementOfSeq DEF IInv, TypeOK
  <2>. QED
    BY <1>2, <1>3, <1>4, <2>1, <2>2, BlockFacts DEF Inside
<1>7. CallOK(c, Len(calls))
  BY <1>1, <1>2, <1>3, <1>4, <1>5, <1>6 DEF CallOK, Searching, Splitting
<1>. QED
  BY <1>1, <1>4, <1>7, LocalStep DEF IInv, TypeOK

(* BeginSplit: the block is a free leaf and not of the smallest order.     *)
LEMMA BeginSplitStep == IInv /\ BeginSplit => IInv'
<1>. SUFFICES ASSUME IInv, BeginSplit PROVE IInv'
  OBVIOUS
<1>. DEFINE c == [Now EXCEPT !.pc = "left"]
<1>1. /\ calls # << >> /\ Now.pc = "visit" /\ calls' = SetNow(c)
      /\ CanAllocate(Now.at) /\ ~Snug(Now.at.order, Now.size)
      /\ UNCHANGED << ranges, toplevel, tree, pool, pages, overwritten, ret, status >>
  BY DEF BeginSplit, Visiting, Running
<1>2. /\ Now \in Call /\ CallOK(Now, Len(calls))
      /\ Now.at \in Live /\ Now.at \in Block
  BY <1>1, NowFacts DEF Searching
<1>3. /\ c \in Call /\ c.pc = "left" /\ c.at = Now.at /\ c.size = Now.size
      /\ c.top = Now.top /\ c.grow = Now.grow /\ c.page = Now.page
  BY <1>2 DEF Call
<1>4. Now.at \in FreeLeaves /\ Now.at.order > MinOrder
  BY <1>1, <1>2, BlockFacts, SizeFacts DEF FreeLeaves, Snug, Orders
<1>5. Ahead(c)
  BY <1>1, <1>2, <1>3 DEF CallOK, Ahead
<1>6. CallOK(c, Len(calls))
  BY <1>1, <1>2, <1>3, <1>4, <1>5 DEF CallOK, Searching, Splitting
<1>. QED
  BY <1>1, <1>3, <1>6, LocalStep DEF IInv, TypeOK

(* The toplevel blocks are live blocks and a block lies in one of them.    *)
LEMMA ToplevelFacts ==
  ASSUME IInv
  PROVE  /\ Len(toplevel) \in Nat
         /\ \A i \in 1 .. Len(toplevel) : toplevel[i] \in Block /\ toplevel[i] \in Live
         /\ \A i, j \in 1 .. Len(toplevel) : \A b \in Live :
              Inside(b, toplevel[i]) /\ Inside(b, toplevel[j]) => i = j
<1>1. Len(toplevel) \in Nat
  BY LenProperties DEF IInv, TypeOK
<1>2. \A i \in 1 .. Len(toplevel) : toplevel[i] \in Block /\ toplevel[i] \in Live
  BY DEF IInv, TypeOK, ToplevelSorted
<1>3. ASSUME NEW i \in 1 .. Len(toplevel), NEW j \in 1 .. Len(toplevel), NEW b \in Live,
             Inside(b, toplevel[i]), Inside(b, toplevel[j])
      PROVE  i = j
  <2>1. b \in Block /\ toplevel[i] \in Block /\ toplevel[j] \in Block
    BY <1>2 DEF IInv, TypeOK
  <2>2. ~(End(toplevel[i]) <= toplevel[j].start) /\ ~(End(toplevel[j]) <= toplevel[i].start)
    BY <1>3, <2>1, BlockFacts DEF Inside
  <2>. QED
    BY <1>1, <2>2 DEF IInv, ToplevelSorted
<1>. QED
  BY <1>1, <1>2, <1>3

(* A block that has a parent is one of its two halves, and lies in the     *)
(* same toplevel block.                                                    *)
LEMMA ParentFacts ==
  ASSUME IInv, NEW b \in Live, tree[b].parent # NoBlock
  PROVE  LET p == tree[b].parent IN
         /\ p \in Live /\ p \in Block /\ tree[p].split /\ p.order > MinOrder
         /\ Left(p) \in Live /\ Right(p) \in Live
         /\ b = Left(p) \/ b = Right(p)
         /\ IsLeftChild(b) <=> b = Left(p)
         /\ \A i \in 1 .. Len(toplevel) :
              Inside(b, toplevel[i]) => Inside(p, toplevel[i]) /\ Inside(Right(p), toplevel[i])
<1>. DEFINE p == tree[b].parent
<1>1. /\ p \in Live /\ p \in Block /\ tree[p].split
      /\ b = Left(p) \/ b = Right(p)
  BY DEF IInv, TreeInv, ParentsLinked, TypeOK
<1>2. p.order > MinOrder /\ Left(p) \in Live /\ Right(p) \in Live
  BY <1>1 DEF IInv, TreeInv, ChildrenLinked
<1>3. IsLeftChild(b) <=> b = Left(p)
  BY <1>1, <1>2, HalfFacts, BlockFacts DEF IsLeftChild
<1>4. ASSUME NEW i \in 1 .. Len(toplevel), Inside(b, toplevel[i])
      PROVE  Inside(p, toplevel[i]) /\ Inside(Right(p), toplevel[i])
  <2>1. PICK j \in 1 .. Len(toplevel) : Inside(p, toplevel[j])
    BY <1>1 DEF IInv, Rooted
  <2>2. /\ toplevel[j] \in Block
        /\ Left(p) \in Block /\ Right(p) \in Block
        /\ p.start <= Left(p).start /\ End(Left(p)) <= End(p)
        /\ p.start <= Right(p).start /\ End(Right(p)) <= End(p)
    BY <1>1, <1>2, HalfFacts, BlockFacts, ToplevelFacts
  <2>3. Inside(b, toplevel[j]) /\ Inside(Right(p), toplevel[j])
    <3>1. /\ p.start \in Nat /\ End(p) \in Nat
          /\ toplevel[j].start \in Nat /\ End(toplevel[j]) \in Nat
          /\ Left(p).start \in Nat /\ End(Left(p)) \in Nat
          /\ Right(p).start \in Nat /\ End(Right(p)) \in Nat
      BY <1>1, <2>2, BlockFacts
    <3>2. toplevel[j].start <= p.start /\ End(p) <= End(toplevel[j])
      BY <2>1 DEF Inside
    <3>. HIDE DEF p
    <3>3. Inside(Left(p), toplevel[j]) /\ Inside(Right(p), toplevel[j])
      BY <2>2, <3>1, <3>2 DEF Inside
    <3>. QED
      BY <1>1, <3>3 DEF p
  <2>4. i = j
    BY <1>4, <2>3, ToplevelFacts
  <2>. QED
    BY <2>1, <2>3, <2>4
<1>. QED
  BY <1>1, <1>2, <1>3, <1>4

(* TryRight: the right half begins where the left one ends.                *)
LEMMA TryRightStep == IInv /\ TryRight => IInv'
<1>. SUFFICES ASSUME IInv, TryRight PROVE IInv'
  OBVIOUS
<1>. DEFINE p == tree[Now.at].parent
            c == [Now EXCEPT !.at = Right(p), !.pc = "visit"]
<1>1. /\ calls # << >> /\ Now.pc = "fail" /\ calls' = SetNow(c)
      /\ IsLeftChild(Now.at)
      /\ UNCHANGED << ranges, toplevel, tree, pool, pages, overwritten, ret, status >>
  BY DEF TryRight, Failing, Running
<1>2. /\ Now \in Call /\ CallOK(Now, Len(calls))
      /\ Now.at \in Live /\ Now.at \in Block
  BY <1>1, NowFacts DEF Searching
<1>3. /\ Now.top \in 1 .. Len(toplevel) /\ Inside(Now.at, toplevel[Now.top])
  BY <1>1, <1>2 DEF CallOK, Searching
<1>4. /\ p \in Block /\ p.order > MinOrder /\ Now.at = Left(p) /\ Right(p) \in Live
      /\ Inside(Right(p), toplevel[Now.top])
  BY <1>1, <1>2, <1>3, ParentFacts DEF IsLeftChild
<1>5. Right(p) \in Block /\ Right(p).start = End(Now.at)
  BY <1>4, HalfFacts
<1>6. /\ c \in Call /\ c.pc = "visit" /\ c.at = Right(p) /\ c.size = Now.size
      /\ c.top = Now.top /\ c.grow = Now.grow /\ c.page = Now.page
  BY <1>2, <1>5 DEF Call
<1>7. Ahead(c)
  BY <1>1, <1>2, <1>5, <1>6 DEF CallOK, Ahead
<1>8. CallOK(c, Len(calls))
  BY <1>1, <1>2, <1>3, <1>4, <1>6, <1>7 DEF CallOK, Searching, Splitting
<1>. QED
  BY <1>1, <1>6, <1>8, LocalStep DEF IInv, TypeOK

(* FailUp: the right half ends where the whole does.                       *)
LEMMA FailUpStep == IInv /\ FailUp => IInv'
<1>. SUFFICES ASSUME IInv, FailUp PROVE IInv'
  OBVIOUS
<1>. DEFINE p == tree[Now.at].parent
            c == [Now EXCEPT !.at = p]
<1>1. /\ calls # << >> /\ Now.pc = "fail" /\ calls' = SetNow(c)
      /\ p # NoBlock /\ ~IsLeftChild(Now.at)
      /\ UNCHANGED << ranges, toplevel, tree, pool, pages, overwritten, ret, status >>
  BY DEF FailUp, Failing, Running
<1>2. /\ Now \in Call /\ CallOK(Now, Len(calls))
      /\ Now.at \in Live /\ Now.at \in Block
  BY <1>1, NowFacts DEF Searching
<1>3. /\ Now.top \in 1 .. Len(toplevel) /\ Inside(Now.at, toplevel[Now.top])
  BY <1>1, <1>2 DEF CallOK, Searching
<1>4. /\ p \in Block /\ p \in Live /\ p.order > MinOrder /\ Now.at = Right(p)
      /\ Inside(p, toplevel[Now.top])
  BY <1>1, <1>2, <1>3, ParentFacts
<1>5. End(p) = End(Now.at)
  BY <1>4, HalfFacts
<1>6. /\ c \in Call /\ c.pc = "fail" /\ c.at = p /\ c.size = Now.size
      /\ c.top = Now.top /\ c.grow = Now.grow /\ c.page = Now.page
  BY <1>1, <1>2, <1>4 DEF Call
<1>7. Ahead(c)
  BY <1>1, <1>2, <1>5, <1>6 DEF CallOK, Ahead
<1>8. CallOK(c, Len(calls))
  BY <1>1, <1>2, <1>3, <1>4, <1>6, <1>7 DEF CallOK, Searching, Splitting
<1>. QED
  BY <1>1, <1>6, <1>8, LocalStep DEF IInv, TypeOK

(* The loop over the toplevel blocks reaches the i-th of them, with all    *)
(* that could serve the call still ahead.                                  *)
LEMMA ReachOK ==
  ASSUME IInv, NEW c \in Call, NEW k, NEW i \in Nat \ {0},
         c.grow = "no",
         k > 1 => c.size = Size[MinOrder] /\ pool = 0,
         \A j \in 1 .. Len(toplevel) : \A f \in FreeLeaves :
           j < i /\ Fits(f, c.size) => ~Inside(f, toplevel[j])
  PROVE  Reach(c, i) \in Call /\ CallOK(Reach(c, i), k)
<1>. DEFINE d == Reach(c, i)
<1>1. ASSUME NEW f \in FreeLeaves, Fits(f, c.size)
      PROVE  /\ i \in 1 .. Len(toplevel)
             /\ toplevel[i].start <= f.start
  <2>1. f \in Live /\ f \in Block
    BY FreeLeafFacts DEF IInv
  <2>2. PICK j \in 1 .. Len(toplevel) : Inside(f, toplevel[j])
    BY <2>1 DEF IInv, Rooted
  <2>3. i <= j
    BY <1>1, <2>2, ToplevelFacts
  <2>4. i \in 1 .. Len(toplevel)
    BY <2>2, <2>3, ToplevelFacts
  <2>5. toplevel[i].start <= toplevel[j].start
    BY <2>2, <2>3, <2>4, ToplevelFacts, BlockFacts DEF IInv, ToplevelSorted
  <2>. QED
    BY <2>1, <2>2, <2>4, <2>5, ToplevelFacts, BlockFacts DEF Inside
<1>2. CASE i \in 1 .. Len(toplevel)
  <2>1. toplevel[i] \in Block /\ toplevel[i] \in Live
    BY <1>2, ToplevelFacts
  <2>2. /\ d \in Call /\ d.top = i /\ d.at = toplevel[i] /\ d.pc = "visit"
        /\ d.size = c.size /\ d.grow = "no" /\ d.page = c.page
    BY <1>2, <2>1 DEF Reach, Call
  <2>3. Inside(d.at, toplevel[d.top])
    BY <2>1, <2>2, BlockFacts DEF Inside
  <2>4. Ahead(d)
    BY <1>1, <2>2 DEF Ahead
  <2>. QED
    BY <1>2, <2>1, <2>2, <2>3, <2>4 DEF CallOK, Searching, Splitting
<1>3. CASE i \notin 1 .. Len(toplevel)
  <2>1. /\ d \in Call /\ d.pc = "none" /\ d.size = c.size /\ d.grow = "no"
    BY <1>3 DEF Reach, Call
  <2>2. Ahead(d)
    BY <1>1, <1>3, <2>1 DEF Ahead
  <2>. QED
    BY <2>1, <2>2 DEF CallOK, Searching, Splitting
<1>. QED
  BY <1>2, <1>3

(* NextToplevel: nothing that would do is left in the blocks before.       *)
LEMMA NextToplevelStep == IInv /\ NextToplevel => IInv'
<1>. SUFFICES ASSUME IInv, NextToplevel PROVE IInv'
  OBVIOUS
<1>. DEFINE c == Reach(Now, Now.top + 1)
<1>1. /\ calls # << >> /\ Now.pc = "fail" /\ calls' = SetNow(c)
      /\ tree[Now.at].parent = NoBlock
      /\ UNCHANGED << ranges, toplevel, tree, pool, pages, overwritten, ret, status >>
  BY DEF NextToplevel, Failing, Running
<1>2. /\ Now \in Call /\ CallOK(Now, Len(calls))
      /\ Now.at \in Live /\ Now.at \in Block
  BY <1>1, NowFacts DEF Searching
<1>3. /\ Now.top \in 1 .. Len(toplevel) /\ Inside(Now.at, toplevel[Now.top])
      /\ Now.grow = "no"
  BY <1>1, <1>2, CallFields DEF CallOK, Searching, Splitting
<1>4. Now.at = toplevel[Now.top]
  <2>1. PICK i \in 1 .. Len(toplevel) : Now.at = toplevel[i]
    BY <1>1, <1>2, BlockFacts DEF IInv, TreeInv, ParentsLinked, TypeOK
  <2>2. Inside(Now.at, toplevel[i])
    BY <1>2, <2>1, BlockFacts DEF Inside
  <2>. QED
    BY <1>2, <1>3, <2>1, <2>2, ToplevelFacts
<1>5. ASSUME NEW j \in 1 .. Len(toplevel), NEW f \in FreeLeaves,
             j < Now.top + 1, Fits(f, Now.size), Inside(f, toplevel[j])
      PROVE  FALSE
  <2>1. End(toplevel[Now.top]) <= f.start
    BY <1>1, <1>2, <1>4, <1>5 DEF CallOK, Ahead
  <2>2. End(toplevel[j]) <= End(toplevel[Now.top])
    BY <1>3, <1>5, ToplevelFacts, BlockFacts DEF IInv, ToplevelSorted
  <2>3. f \in Block /\ toplevel[j] \in Block /\ toplevel[Now.top] \in Block
    BY <1>3, FreeLeafFacts, ToplevelFacts DEF IInv
  <2>. QED
    BY <1>5, <2>1, <2>2, <2>3, BlockFacts DEF Inside
<1>6. Now.top + 1 \in Nat \ {0}
  BY <1>2, CallFields
<1>7. c \in Call /\ CallOK(c, Len(calls))
  BY <1>2, <1>3, <1>5, <1>6, ReachOK DEF CallOK
<1>. QED
  BY <1>1, <1>7, LocalStep DEF IInv, TypeOK

-------------------------------------------------------------------------------
(* Calls that begin.                                                       *)

(* A step that puts a new call on top of the others.                       *)
LEMMA PushStep ==
  ASSUME IInv, calls # << >>, NEW c \in Call, NEW d \in Call,
         calls' = Append(SetNow(c), d),
         CallOK(c, Len(calls)), Waiting(c), CallOK(d, Len(calls) + 1),
         UNCHANGED << ranges, toplevel, tree, pool, pages, overwritten, ret, status >>
  PROVE  IInv'
<1>. DEFINE s == SetNow(c)
<1>1. /\ Len(calls) \in Nat /\ Len(calls) >= 1
      /\ s \in Seq(Call) /\ Len(s) = Len(calls) /\ s[Len(calls)] = c
      /\ \A k \in 1 .. Len(calls) : k # Len(calls) => s[k] = calls[k]
  BY SetNowFacts DEF IInv
<1>. HIDE DEF s
<1>2. /\ calls' \in Seq(Call) /\ Len(calls') = Len(calls) + 1
      /\ calls'[Len(calls) + 1] = d /\ calls'[Len(calls)] = c
      /\ \A k \in 1 .. Len(calls) : k # Len(calls) => calls'[k] = calls[k]
  <2>1. calls' = Append(s, d)
    BY DEF s
  <2>. QED
    BY <1>1, <2>1, AppendProperties
<1>3. TypeOK'
  BY <1>2 DEF IInv, TypeOK, Live
<1>4. ASSUME NEW k \in 1 .. Len(calls'), NEW e \in Call, e = calls'[k]
      PROVE  CallOK(e, k)' /\ (k < Len(calls') => Waiting(e))
  <2>1. CASE k = Len(calls) + 1
    BY <1>1, <1>2, <1>4, <2>1, CallOKStable
  <2>2. CASE k = Len(calls)
    BY <1>1, <1>2, <1>4, <2>2, CallOKStable
  <2>3. CASE k # Len(calls) /\ k # Len(calls) + 1
    <3>1. CallOK(e, k) /\ Waiting(e)
      BY <1>1, <1>2, <1>4, <2>3 DEF IInv, CallsOK
    <3>. QED
      BY <3>1, CallOKStable
  <2>. QED
    BY <2>1, <2>2, <2>3
<1>. QED
  BY <1>3, <1>4, CallsOnly DEF CallsOK

(* A step that begins the only call.                                       *)
LEMMA FirstCall ==
  ASSUME IInv, NEW c \in Call, calls' = << c >>, CallOK(c, 1),
         UNCHANGED << ranges, toplevel, tree, pool, pages, overwritten, ret, status >>
  PROVE  IInv'
<1>1. calls' \in Seq(Call) /\ Len(calls') = 1 /\ calls'[1] = c
  OBVIOUS
<1>2. TypeOK'
  BY <1>1 DEF IInv, TypeOK, Live
<1>3. CallOK(c, 1)'
  BY CallOKStable
<1>. QED
  BY <1>1, <1>2, <1>3, CallsOnly DEF CallsOK

(* palloc begins at the first toplevel block: everything lies ahead.       *)
LEMMA PallocOK ==
  ASSUME IInv, NEW size \in Nat, NEW depth \in Nat, NEW k,
         k > 1 => size = Size[MinOrder] /\ pool = 0
  PROVE  Palloc(size, depth) \in Call /\ CallOK(Palloc(size, depth), k)
<1>. DEFINE c == [size |-> size, depth |-> depth, top |-> 0, at |-> NoBlock, pc |-> "none",
                  grow |-> "no", page |-> NoBlock, missing |-> 0]
<1>1. c \in Call /\ c.grow = "no" /\ c.size = size
  BY DEF Call
<1>2. Palloc(size, depth) = Reach(c, 1)
  BY DEF Palloc
<1>. HIDE DEF c
<1>3. \A j \in 1 .. Len(toplevel) : ~(j < 1)
  BY ToplevelFacts
<1>. QED
  BY <1>1, <1>2, <1>3, ReachOK

(* The kernel, which is doing nothing else, calls palloc or pvalloc.       *)
LEMMA CallPallocStep ==
  ASSUME IInv, NEW size \in Requests, CallPalloc(size)
  PROVE  IInv'
<1>1. PICK depth \in {0, 1} : calls' = << Palloc(size, depth) >>
  BY DEF CallPalloc
<1>2. size \in Nat /\ depth \in Nat
  BY LimitAssumption
<1>3. Palloc(size, depth) \in Call /\ CallOK(Palloc(size, depth), 1)
  BY <1>2, PallocOK
<1>. QED
  BY <1>1, <1>3, FirstCall DEF CallPalloc

(* The trace depth is a natural number: a block is not larger than the     *)
(* toplevel block it is in.                                                *)
LEMMA DepthNat ==
  ASSUME IInv, calls # << >>
  PROVE  Depth(Now) \in Nat
<1>1. Now \in Call /\ CallOK(Now, Len(calls)) /\ Now.depth \in Nat
  BY NowFacts, CallFields
<1>2. ASSUME Searching(Now)
      PROVE  toplevel[Now.top].order - Now.at.order \in Nat
  <2>1. /\ Now.at \in Block /\ Now.top \in 1 .. Len(toplevel)
        /\ Inside(Now.at, toplevel[Now.top]) /\ toplevel[Now.top] \in Block
    BY <1>1, <1>2, NowFacts, ToplevelFacts DEF CallOK
  <2>. QED
    BY <2>1, InsideOrder
<1>3. Now.pc \in {"visit", "fail", "none", "left", "right", "toplevel"}
  BY <1>1, CallFields
<1>. QED
  BY <1>1, <1>2, <1>3 DEF Depth, Searching

(* Grow: the pool is empty, so nothing below the new call finds nodes.     *)
LEMMA GrowStep == IInv /\ Grow => IInv'
<1>. SUFFICES ASSUME IInv, Grow PROVE IInv'
  OBVIOUS
<1>. DEFINE c == [Now EXCEPT !.grow = "page"]
            d == Palloc(Size[MinOrder], Depth(Now) + 1)
<1>1. /\ calls # << >> /\ Now.pc \in {"left", "right", "toplevel"} /\ Now.grow = "no"
      /\ pool = 0 /\ calls' = Append(SetNow(c), d)
      /\ UNCHANGED << ranges, toplevel, tree, pool, pages, overwritten, ret, status >>
  BY DEF Grow, Running
<1>2. Now \in Call /\ CallOK(Now, Len(calls))
  BY <1>1, NowFacts
<1>3. /\ c \in Call /\ c.pc = Now.pc /\ c.at = Now.at /\ c.size = Now.size
      /\ c.top = Now.top /\ c.grow = "page" /\ c.page = Now.page
  BY <1>2 DEF Call
<1>4. Ahead(c)
  BY <1>2, <1>3 DEF CallOK, Ahead
<1>5. CallOK(c, Len(calls))
  BY <1>1, <1>2, <1>3, <1>4 DEF CallOK, Searching, Splitting
<1>6. Size[MinOrder] \in Nat /\ Depth(Now) + 1 \in Nat
  BY <1>1, DepthNat, SizeFacts DEF Orders
<1>7. d \in Call /\ CallOK(d, Len(calls) + 1)
  BY <1>1, <1>6, PallocOK
<1>8. Waiting(c)
  BY <1>3 DEF Waiting
<1>. HIDE DEF c, d
<1>. QED
  BY <1>1, <1>3, <1>5, <1>7, <1>8, PushStep

(* AllocPageTable: only the outermost call gets as far as mmap.            *)
LEMMA AllocPageTableStep == IInv /\ AllocPageTable => IInv'
<1>. SUFFICES ASSUME IInv, AllocPageTable PROVE IInv'
  OBVIOUS
<1>. DEFINE d == Palloc(Size[MinOrder], Depth(Now) + 2)
<1>1. /\ calls # << >> /\ Waiting(Now) /\ Now.grow = "map" /\ calls' = Append(calls, d)
      /\ UNCHANGED << ranges, toplevel, tree, pool, pages, overwritten, ret, status >>
  BY DEF AllocPageTable, Running, Waiting
<1>2. Now \in Call /\ CallOK(Now, Len(calls)) /\ Len(calls) \in Nat /\ Len(calls) >= 1
  BY <1>1, NowFacts
<1>3. pool = 0
  BY <1>1, <1>2 DEF CallOK
<1>4. Size[MinOrder] \in Nat /\ Depth(Now) + 2 \in Nat
  BY <1>1, DepthNat, SizeFacts DEF Orders
<1>5. d \in Call /\ CallOK(d, Len(calls) + 1)
  BY <1>3, <1>4, PallocOK
<1>6. calls = SetNow(Now)
  <2>1. calls \in Seq(Call) /\ DOMAIN calls = 1 .. Len(calls)
    BY LenProperties DEF IInv, TypeOK
  <2>2. /\ SetNow(Now) \in Seq(Call) /\ Len(SetNow(Now)) = Len(calls)
        /\ \A k \in 1 .. Len(calls) : SetNow(Now)[k] = calls[k]
    BY <1>1, <1>2, SetNowFacts DEF IInv
  <2>3. \A s, t \in Seq(Call) :
          Len(s) = Len(t) /\ (\A k \in 1 .. Len(s) : s[k] = t[k]) => s = t
    BY SeqEqual
  <2>. QED
    BY <2>1, <2>2, <2>3
<1>. HIDE DEF d
<1>. QED
  BY <1>1, <1>2, <1>5, <1>6, PushStep

-------------------------------------------------------------------------------
(* The pool.                                                               *)

(* SplitLeft: a call with a node to take is the only one.                  *)
LEMMA SplitLeftStep == IInv /\ SplitLeft => IInv'
<1>. SUFFICES ASSUME IInv, SplitLeft PROVE IInv'
  OBVIOUS
<1>. DEFINE c == [Now EXCEPT !.pc = "right"]
<1>1. /\ calls # << >> /\ Now.pc = "left" /\ Now.grow = "no" /\ pool > 0
      /\ pool' = pool - 1 /\ calls' = SetNow(c)
      /\ UNCHANGED << ranges, toplevel, tree, pages, overwritten, ret, status >>
  BY DEF SplitLeft, Running
<1>2. /\ Now \in Call /\ CallOK(Now, Len(calls)) /\ Len(calls) \in Nat /\ Len(calls) >= 1
  BY <1>1, NowFacts
<1>3. pool \in Nat /\ Len(calls) = 1
  <2>1. pool \in Nat
    BY DEF IInv, TypeOK
  <2>. QED
    BY <1>1, <2>1, NowFacts
<1>4. /\ c \in Call /\ c.pc = "right" /\ c.at = Now.at /\ c.size = Now.size
      /\ c.top = Now.top /\ c.grow = "no" /\ c.page = Now.page
  BY <1>1, <1>2 DEF Call
<1>5. Ahead(c)
  BY <1>1, <1>2, <1>4 DEF CallOK, Ahead
<1>6. CallOK(c, Len(calls))
  BY <1>1, <1>2, <1>4, <1>5 DEF CallOK, Searching, Splitting
<1>7. pages' \subseteq Live /\ overwritten' \subseteq Live
  BY <1>1 DEF IInv, TypeOK
<1>8. pool' \in Nat
  BY <1>1, <1>3
<1>. HIDE DEF c
<1>. QED
  BY <1>1, <1>3, <1>4, <1>6, <1>7, <1>8, LocalStep

(* SetUpPage: only the outermost call gets to fill the pool.               *)
LEMMA SetUpPageStep == IInv /\ SetUpPage => IInv'
<1>. SUFFICES ASSUME IInv, SetUpPage PROVE IInv'
  OBVIOUS
<1>. DEFINE c == [Now EXCEPT !.grow = "no"]
<1>1. /\ calls # << >> /\ Now.grow = "map" /\ calls' = SetNow(c)
      /\ pool' = pool + NodesPerPage
      /\ pages' = pages \cup {Now.page}
      /\ overwritten' = overwritten \cup InReach(Now.page, MemsetSize)
      /\ UNCHANGED << ranges, toplevel, tree, ret, status >>
  BY DEF SetUpPage, Running
<1>2. /\ Now \in Call /\ CallOK(Now, Len(calls)) /\ Len(calls) \in Nat /\ Len(calls) >= 1
  BY <1>1, NowFacts
<1>3. Len(calls) = 1 /\ Now.page \in Live
  <2>1. Now.page \in Live
    BY <1>1, <1>2 DEF CallOK
  <2>. QED
    BY <1>1, <2>1, NowFacts
<1>4. /\ c \in Call /\ c.pc = Now.pc /\ c.at = Now.at /\ c.size = Now.size
      /\ c.top = Now.top /\ c.grow = "no" /\ c.page = Now.page
  BY <1>2 DEF Call
<1>5. Ahead(c)
  BY <1>2, <1>4 DEF CallOK, Ahead
<1>6. CallOK(c, Len(calls))
  BY <1>1, <1>2, <1>3, <1>4, <1>5 DEF CallOK, Searching, Splitting
<1>7. pool' \in Nat
  BY <1>1, LimitAssumption DEF IInv, TypeOK
<1>8. pages' \subseteq Live /\ overwritten' \subseteq Live
  BY <1>1, <1>3 DEF IInv, TypeOK, InReach
<1>. HIDE DEF c
<1>. QED
  BY <1>1, <1>3, <1>4, <1>6, <1>7, <1>8, LocalStep

(* The kernel stops: no call and no block is touched.                      *)
LEMMA StopStep == IInv /\ (GrowFault \/ StackProt) => IInv'
<1>. SUFFICES ASSUME IInv, GrowFault \/ StackProt PROVE IInv'
  OBVIOUS
<1>1. /\ status' \in {"running", "fault", "overflow"}
      /\ UNCHANGED << ranges, toplevel, tree, pool, pages, overwritten, calls, ret >>
  BY DEF GrowFault, StackProt
<1>2. TypeOK'
  BY <1>1 DEF IInv, TypeOK, Live
<1>3. CallsOK'
  <2>1. ASSUME NEW k \in 1 .. Len(calls), NEW c \in Call, c = calls[k]
        PROVE  CallOK(c, k)'
    BY <1>1, <2>1, CallOKStable DEF IInv, CallsOK
  <2>. QED
    BY <1>1, <2>1 DEF IInv, CallsOK
<1>. QED
  BY <1>1, <1>2, <1>3, CallsOnly

-------------------------------------------------------------------------------
(* The memory map.                                                         *)

(* No call is in progress when the kernel is idle.                         *)
LEMMA NoCalls ==
  ASSUME calls' = << >>
  PROVE  CallsOK' /\ calls' \in Seq(Call)
BY DEF CallsOK

(* SkipRange: what follows the head of the map is still ahead.             *)
LEMMA SkipRangeStep == IInv /\ SkipRange => IInv'
<1>. SUFFICES ASSUME IInv, SkipRange PROVE IInv'
  OBVIOUS
<1>1. /\ ranges # << >> /\ ranges' = Tail(ranges) /\ calls = << >>
      /\ UNCHANGED << toplevel, tree, pool, pages, overwritten, calls, ret, status >>
  BY DEF SkipRange, Idle
<1>2. /\ ranges' \in Seq(MapEntry) /\ Len(ranges) \in Nat /\ Len(ranges') = Len(ranges) - 1
      /\ \A i \in 1 .. Len(ranges') : ranges'[i] = ranges[i + 1] /\ i + 1 \in 1 .. Len(ranges)
  BY <1>1, HeadTailProperties, LenProperties DEF IInv, TypeOK
<1>3. TypeOK'
  BY <1>1, <1>2 DEF IInv, TypeOK, Live
<1>4. CallsOK'
  BY <1>1, NoCalls
<1>5. RangesAhead'
  <2>1. Live' = Live
    BY <1>1 DEF Live
  <2>2. \A i, j \in 1 .. Len(ranges') :
          i < j => i + 1 < j + 1 /\ i + 1 \in 1 .. Len(ranges) /\ j + 1 \in 1 .. Len(ranges)
    BY <1>2
  <2>. QED
    BY <1>2, <2>1, <2>2 DEF IInv, RangesAhead
<1>6. TreeInv' /\ ToplevelSorted' /\ Rooted'
  BY <1>1 DEF IInv, TreeInv, ToplevelSorted, Rooted, Laminar, ChildrenLinked,
     ParentsLinked, UsedAreLeaves, UnavailableSound, BlocksUsable, Below, Used,
     FreeLeaves, CanAllocate, CanAllocateIn, Live
<1>. QED
  BY <1>3, <1>4, <1>5, <1>6 DEF IInv

(* InitToplevel: the best fit for what is left of an entry lies in it.     *)
LEMMA InitToplevelStep == IInv /\ InitToplevel => IInv'
<1>. SUFFICES ASSUME IInv, InitToplevel PROVE IInv'
  OBVIOUS
<1>1. PICK o \in Orders :
        /\ ranges # << >> /\ Convertible(Head(ranges))
        /\ BestFit(o, Head(ranges).end - Head(ranges).base)
        /\ calls' = << [size |-> 0, depth |-> 3, top |-> 0,
                        at |-> [start |-> Head(ranges).base, order |-> o], pc |-> "toplevel",
                        grow |-> "no", page |-> NoBlock, missing |-> 0] >>
        /\ UNCHANGED << ranges, toplevel, tree, pool, pages, overwritten, ret, status >>
  BY DEF InitToplevel
<1>. DEFINE b == [start |-> Head(ranges).base, order |-> o]
            c == [size |-> 0, depth |-> 3, top |-> 0, at |-> b, pc |-> "toplevel",
                  grow |-> "no", page |-> NoBlock, missing |-> 0]
<1>2. /\ Head(ranges) = ranges[1] /\ ranges[1] \in MapEntry
      /\ ranges[1].base \in Nat /\ ranges[1].end \in Nat
  <2>1. ranges \in Seq(MapEntry) /\ Head(ranges) = ranges[1] /\ Head(ranges) \in MapEntry
    BY <1>1, HeadTailProperties DEF IInv, TypeOK
  <2>. QED
    BY <2>1 DEF MapEntry
<1>3. /\ b \in Block /\ b.start = ranges[1].base /\ End(b) <= ranges[1].end
      /\ ranges[1].usable
  BY <1>1, <1>2, SizeFacts DEF Block, End, BestFit, Convertible
<1>4. c \in Call
  BY <1>3 DEF Call
<1>5. CallOK(c, 1)
  BY <1>1, <1>3 DEF CallOK, Ahead, Searching, Splitting
<1>6. calls' = << c >>
  BY <1>1
<1>. HIDE DEF c
<1>. QED
  BY <1>1, <1>4, <1>5, <1>6, FirstCall

(* What AppendToplevel does to the blocks: a new one, beyond all others.    *)
LEMMA AppendFacts ==
  ASSUME IInv, AppendToplevel, NEW b, b = Now.at
  PROVE  /\ Len(calls) = 1 /\ Now = calls[1] /\ Now.pc = "toplevel"
         /\ ranges # << >> /\ ranges[1].usable /\ b \in Block
         /\ b.start = ranges[1].base /\ End(b) <= ranges[1].end
         /\ b.start \in Nat /\ End(b) \in Nat /\ b.start < End(b) /\ b # NoBlock
         /\ \A c \in Live : /\ c \in Block /\ c.start \in Nat /\ End(c) \in Nat /\ c.start < End(c)
                         /\ End(c) <= b.start
         /\ b \notin Live
         /\ Live' = Live \cup {b}
         /\ \A c \in Live : tree'[c] = tree[c]
         /\ tree'[b] = [parent |-> NoBlock, split |-> FALSE, flags |-> {}]
         /\ toplevel' \in Seq(Block) /\ Len(toplevel) \in Nat /\ Len(toplevel') = Len(toplevel) + 1
         /\ toplevel'[Len(toplevel) + 1] = b
         /\ \A i \in 1 .. Len(toplevel) : toplevel'[i] = toplevel[i]
<1>1. /\ calls # << >> /\ Now.pc = "toplevel"
      /\ toplevel' = Append(toplevel, Now.at) /\ tree' = AddToplevel(Now.at)
  BY DEF AppendToplevel, Running
<1>2. /\ ranges # << >> /\ ranges[1].usable /\ b \in Block
      /\ b.start = ranges[1].base /\ End(b) <= ranges[1].end
      /\ Len(calls) = 1 /\ Now = calls[1]
  BY <1>1, NowFacts DEF CallOK, Now
<1>3. /\ Len(ranges) \in Nat /\ 1 \in 1 .. Len(ranges) /\ ranges[1].base \in Nat
  <2>1. ranges \in Seq(MapEntry) /\ Len(ranges) \in Nat /\ 1 \in 1 .. Len(ranges)
    BY <1>2, EmptySeq, LenProperties DEF IInv, TypeOK
  <2>2. ranges[1] \in MapEntry
    BY <2>1, ElementOfSeq
  <2>. QED
    BY <2>1, <2>2 DEF MapEntry
<1>4. /\ b.start \in Nat /\ End(b) \in Nat /\ b.start < End(b) /\ b # NoBlock
  BY <1>2, BlockFacts
<1>5. \A c \in Live : /\ c \in Block /\ c.start \in Nat /\ End(c) \in Nat /\ c.start < End(c)
                      /\ End(c) <= b.start
  BY <1>2, <1>3, BlockFacts DEF IInv, TypeOK, RangesAhead
<1>6. b \notin Live
  BY <1>4, <1>5
<1>7. /\ Live' = Live \cup {b}
      /\ \A c \in Live : tree'[c] = tree[c]
      /\ tree'[b] = [parent |-> NoBlock, split |-> FALSE, flags |-> {}]
  BY <1>1, <1>6 DEF AddToplevel, NewNode, Live
<1>8. /\ toplevel' \in Seq(Block) /\ Len(toplevel) \in Nat /\ Len(toplevel') = Len(toplevel) + 1
      /\ toplevel'[Len(toplevel) + 1] = b
      /\ \A i \in 1 .. Len(toplevel) : toplevel'[i] = toplevel[i]
  BY <1>1, <1>2, AppendProperties, LenProperties DEF IInv, TypeOK
<1>. QED
  BY <1>1, <1>2, <1>4, <1>5, <1>6, <1>7, <1>8

(* AppendToplevel: the new block lies beyond all others.                   *)
LEMMA AppendToplevelStep == IInv /\ AppendToplevel => IInv'
<1>. SUFFICES ASSUME IInv, AppendToplevel PROVE IInv'
  OBVIOUS
<1>1. /\ calls # << >> /\ Now.pc = "toplevel" /\ pool > 0 /\ pool' = pool - 1
      /\ toplevel' = Append(toplevel, Now.at) /\ tree' = AddToplevel(Now.at)
      /\ ranges' = [ranges EXCEPT ![1].base = @ + Size[Now.at.order]]
      /\ calls' = << >>
      /\ UNCHANGED << pages, overwritten, ret, status >>
  BY DEF AppendToplevel, Running
<1>. DEFINE b == Now.at
<1>2. /\ ranges # << >> /\ ranges[1].usable /\ b \in Block
      /\ b.start = ranges[1].base /\ End(b) <= ranges[1].end
  BY <1>1, NowFacts DEF CallOK
<1>3. /\ ranges \in Seq(MapEntry) /\ Len(ranges) \in Nat /\ 1 \in 1 .. Len(ranges)
      /\ \A i \in 1 .. Len(ranges) : /\ ranges[i] \in MapEntry
                                     /\ ranges[i].base \in Nat /\ ranges[i].end \in Nat
  <2>1. ranges \in Seq(MapEntry) /\ Len(ranges) \in Nat /\ 1 \in 1 .. Len(ranges)
    BY <1>2, EmptySeq, LenProperties DEF IInv, TypeOK
  <2>2. ASSUME NEW i \in 1 .. Len(ranges) PROVE ranges[i] \in MapEntry
    BY <2>1, ElementOfSeq
  <2>. QED
    BY <2>1, <2>2 DEF MapEntry
<1>4. /\ ranges' \in Seq(MapEntry) /\ Len(ranges') = Len(ranges)
      /\ ranges'[1].base = End(b) /\ ranges'[1].end = ranges[1].end
      /\ ranges'[1].usable = ranges[1].usable
      /\ \A i \in 1 .. Len(ranges) : i # 1 => ranges'[i] = ranges[i]
  <2>. DEFINE r == [ranges[1] EXCEPT !.base = @ + Size[b.order]]
  <2>1. /\ r \in MapEntry /\ r.base = End(b) /\ r.end = ranges[1].end
        /\ r.usable = ranges[1].usable
    <3>1. ranges[1] \in MapEntry
      BY <1>3
    <3>2. Size[b.order] \in Nat /\ End(b) = b.start + Size[b.order]
      BY <1>2, BlockFacts
    <3>. HIDE DEF b
    <3>3. /\ r.base = ranges[1].base + Size[b.order]
          /\ r.end = ranges[1].end /\ r.usable = ranges[1].usable
      BY <3>1 DEF MapEntry
    <3>4. r \in MapEntry
      BY <3>1, <3>2 DEF MapEntry
    <3>. QED
      BY <1>2, <3>2, <3>3, <3>4 DEF b
  <2>2. ranges' = [ranges EXCEPT ![1] = r]
    BY <1>1
  <2>. HIDE DEF r
  <2>. QED
    BY <1>3, <2>1, <2>2, ExceptSeq
<1>5. /\ b.start \in Nat /\ End(b) \in Nat /\ b.start < End(b) /\ b # NoBlock
  BY AppendFacts
<1>6. \A c \in Live : /\ c \in Block /\ c.start \in Nat /\ End(c) \in Nat /\ c.start < End(c)
                      /\ End(c) <= b.start
  BY AppendFacts
<1>. HIDE DEF b
<1>7. b \notin Live
  BY AppendFacts DEF b
<1>8. /\ Live' = Live \cup {b}
      /\ \A c \in Live : tree'[c] = tree[c]
      /\ tree'[b] = [parent |-> NoBlock, split |-> FALSE, flags |-> {}]
  BY AppendFacts DEF b
<1>9. /\ toplevel' \in Seq(Block) /\ Len(toplevel) \in Nat /\ Len(toplevel') = Len(toplevel) + 1
      /\ toplevel'[Len(toplevel) + 1] = b
      /\ \A i \in 1 .. Len(toplevel) : toplevel'[i] = toplevel[i]
  BY AppendFacts DEF b
<1>10. TypeOK'
  <2>1. Live' \subseteq Block
    BY <1>2, <1>6, <1>8 DEF b
  <2>2. tree' \in [Live' -> Node]
    <3>1. tree' = [c \in DOMAIN tree' |-> tree'[c]]
      BY <1>1 DEF AddToplevel
    <3>2. \A c \in Live' : tree'[c] \in Node
      <4>1. \A c \in Live : tree[c] \in Node
        BY DEF IInv, TypeOK
      <4>2. NewNode(NoBlock) \in Node /\ tree'[b] = NewNode(NoBlock)
        BY <1>8, NewNodeType DEF NewNode
      <4>. QED
        BY <1>8, <4>1, <4>2
    <3>. QED
      BY <3>1, <3>2 DEF Live
  <2>3. pool' \in Nat
    BY <1>1 DEF IInv, TypeOK
  <2>4. pages' \subseteq Live' /\ overwritten' \subseteq Live'
    BY <1>1, <1>8 DEF IInv, TypeOK
  <2>5. calls' \in Seq(Call)
    BY <1>1, NoCalls
  <2>. QED
    BY <1>1, <1>4, <1>9, <2>1, <2>2, <2>3, <2>4, <2>5 DEF IInv, TypeOK
<1>11. Laminar'
  <2>1. \A c \in Live : Disjoint(c, b) /\ Disjoint(b, c)
    BY <1>6 DEF Disjoint
  <2>. QED
    BY <1>8, <2>1 DEF IInv, TreeInv, Laminar, Below
<1>12. ChildrenLinked'
  BY <1>8 DEF IInv, TreeInv, ChildrenLinked
<1>13. ParentsLinked'
  <2>1. ASSUME NEW c \in Live
        PROVE  \/ tree'[c].parent = NoBlock /\ \E i \in 1 .. Len(toplevel') : c = toplevel'[i]
               \/ /\ tree'[c].parent \in Live' /\ tree'[tree'[c].parent].split
                  /\ c = Left(tree'[c].parent) \/ c = Right(tree'[c].parent)
    <3>1. CASE tree[c].parent = NoBlock
      <4>1. PICK i \in 1 .. Len(toplevel) : c = toplevel[i]
        BY <3>1, BlockFacts DEF IInv, TreeInv, ParentsLinked, TypeOK
      <4>. QED
        BY <1>8, <1>9, <3>1, <4>1
    <3>2. CASE tree[c].parent # NoBlock
      BY <1>8, <3>2, ParentFacts
    <3>. QED
      BY <3>1, <3>2
  <2>2. Len(toplevel) + 1 \in 1 .. Len(toplevel')
    BY <1>9
  <2>. QED
    BY <1>8, <1>9, <2>1, <2>2 DEF ParentsLinked
<1>14. UsedAreLeaves'
  BY <1>8 DEF IInv, TreeInv, UsedAreLeaves, Used
<1>15. UnavailableSound'
  <2>1. FreeLeaves' \subseteq FreeLeaves \cup {b}
    BY <1>8 DEF FreeLeaves, CanAllocate, CanAllocateIn
  <2>2. \A c \in Live : ~Inside(b, c)
    BY <1>5, <1>6 DEF Inside
  <2>. QED
    BY <1>8, <2>1, <2>2 DEF IInv, TreeInv, UnavailableSound
<1>16. BlocksUsable'
  <2>1. PICK j \in 1 .. Len(MemMap) :
          /\ MemMap[j].usable
          /\ MemMap[j].base <= ranges[1].base /\ ranges[1].end <= MemMap[j].end
    BY <1>2, <1>3 DEF IInv, RangesAhead
  <2>2. MemMap[j].base \in Nat /\ MemMap[j].end \in Nat
    BY MemMapTypes
  <2>3. MemMap[j].base <= b.start /\ End(b) <= MemMap[j].end
    BY <1>2, <1>3, <1>5, <2>1, <2>2 DEF b
  <2>. QED
    BY <1>8, <2>1, <2>3 DEF IInv, TreeInv, BlocksUsable
<1>17. ToplevelSorted'
  <2>1. ASSUME NEW i \in 1 .. Len(toplevel'), NEW j \in 1 .. Len(toplevel'), i < j
        PROVE  End(toplevel'[i]) <= toplevel'[j].start
    <3>1. i \in 1 .. Len(toplevel)
      BY <1>9, <2>1
    <3>2. CASE j = Len(toplevel) + 1
      BY <1>6, <1>9, <3>1, <3>2, ToplevelFacts
    <3>3. CASE j \in 1 .. Len(toplevel)
      BY <1>9, <2>1, <3>1, <3>3 DEF IInv, ToplevelSorted
    <3>. QED
      BY <1>9, <3>2, <3>3
  <2>2. \A i \in 1 .. Len(toplevel') : toplevel'[i] \in Live'
    <3>1. \A i \in 1 .. Len(toplevel') : i \in 1 .. Len(toplevel) \/ i = Len(toplevel) + 1
      BY <1>9
    <3>. QED
      BY <1>8, <1>9, <3>1, ToplevelFacts
  <2>. QED
    BY <2>1, <2>2 DEF ToplevelSorted
<1>18. Rooted'
  <2>1. Inside(b, b) /\ Len(toplevel) + 1 \in 1 .. Len(toplevel')
    BY <1>5, <1>9 DEF Inside
  <2>2. ASSUME NEW c \in Live
        PROVE  \E i \in 1 .. Len(toplevel') : Inside(c, toplevel'[i])
    <3>1. PICK i \in 1 .. Len(toplevel) : Inside(c, toplevel[i])
      BY DEF IInv, Rooted
    <3>. QED
      BY <1>9, <3>1
  <2>. QED
    BY <1>8, <1>9, <2>1, <2>2 DEF Rooted
<1>19. RangesAhead'
  <2>1. ASSUME NEW i \in 1 .. Len(ranges'), ranges'[i].usable, NEW c \in Live'
        PROVE  End(c) <= ranges'[i].base
    <3>1. CASE i = 1
      <4>1. End(c) <= End(b)
        BY <1>5, <1>6, <1>8
      <4>. QED
        BY <1>4, <3>1, <4>1
    <3>2. CASE i # 1
      <4>1. /\ i \in 1 .. Len(ranges) /\ 1 < i /\ ranges'[i] = ranges[i]
            /\ ranges[1].end <= ranges[i].base
        BY <1>2, <1>3, <1>4, <2>1, <3>2 DEF IInv, RangesAhead
      <4>2. CASE c \in Live
        BY <2>1, <4>1, <4>2 DEF IInv, RangesAhead
      <4>3. CASE c = b
        <5>1. End(b) <= ranges[1].end
          BY <1>2 DEF b
        <5>. QED
          BY <1>3, <1>5, <4>1, <4>3, <5>1
      <4>. QED
        BY <1>8, <4>2, <4>3
    <3>. QED
      BY <3>1, <3>2
  <2>2. ASSUME NEW i \in 1 .. Len(ranges'), ranges'[i].usable
        PROVE  \E j \in 1 .. Len(MemMap) :
                 /\ MemMap[j].usable
                 /\ MemMap[j].base <= ranges'[i].base /\ ranges'[i].end <= MemMap[j].end
    <3>1. i \in 1 .. Len(ranges) /\ ranges[i].usable
      BY <1>2, <1>4, <2>2
    <3>2. PICK j \in 1 .. Len(MemMap) :
            /\ MemMap[j].usable
            /\ MemMap[j].base <= ranges[i].base /\ ranges[i].end <= MemMap[j].end
      BY <3>1 DEF IInv, RangesAhead
    <3>3. MemMap[j].base \in Nat
      BY MemMapTypes
    <3>4. ranges[1].base <= End(b)
      BY <1>2, <1>5 DEF b
    <3>5. /\ MemMap[j].base <= ranges'[i].base /\ ranges'[i].end = ranges[i].end
      BY <1>3, <1>4, <1>5, <3>1, <3>2, <3>3, <3>4
    <3>. QED
      BY <3>2, <3>5
  <2>3. \A i, j \in 1 .. Len(ranges') :
          i < j /\ ranges'[i].usable /\ ranges'[j].usable => ranges'[i].end <= ranges'[j].base
    BY <1>3, <1>4 DEF IInv, RangesAhead
  <2>. QED
    BY <2>1, <2>2, <2>3 DEF RangesAhead
<1>20. CallsOK'
  BY <1>1, NoCalls
<1>. QED
  BY <1>10, <1>11, <1>12, <1>13, <1>14, <1>15, <1>16, <1>17, <1>18, <1>19, <1>20
  DEF IInv, TreeInv

-------------------------------------------------------------------------------
(* The split.                                                              *)

(* The halves of a leaf are not there yet, and another block is apart from *)
(* the leaf or has it in one of its own halves.                            *)
LEMMA HalvesAreNew ==
  ASSUME TypeOK, Laminar, ChildrenLinked,
         NEW b \in Live, ~tree[b].split, b.order > MinOrder
  PROVE  /\ \A c \in Live : c # b => Disjoint(c, b) \/ Below(b, c)
         /\ Left(b) \notin Live /\ Right(b) \notin Live
<1>1. \A c \in Live : c # b => Disjoint(c, b) \/ Below(b, c)
  BY DEF Laminar, Below, Disjoint
<1>2. b \in Block /\ Left(b) \in Block /\ Right(b) \in Block
  BY HalfFacts DEF TypeOK
<1>3. ASSUME NEW c \in Live, c = Left(b) \/ c = Right(b)
      PROVE  FALSE
  <2>1. /\ c # b /\ c \in Block
        /\ b.start <= c.start /\ c.start < End(b) /\ End(c) <= End(b)
        /\ b.start < c.start \/ End(c) < End(b)
    BY <1>2, <1>3, HalfFacts, BlockFacts
  <2>2. ~Disjoint(c, b)
    BY <1>2, <2>1, BlockFacts DEF Disjoint
  <2>3. Below(b, c)
    BY <1>1, <2>1, <2>2
  <2>4. c.order > MinOrder
    BY <2>3 DEF ChildrenLinked, Below
  <2>5. c.start <= b.start /\ End(b) <= End(c)
    BY <1>2, <2>1, <2>3, <2>4, HalfFacts, BlockFacts DEF Below, Inside
  <2>. QED
    BY <1>2, <2>1, <2>5, BlockFacts
<1>. QED
  BY <1>1, <1>3

(* What SplitRight does to the blocks: b, the leaf that is split, is still  *)
(* the free one that ba_split was given.                                   *)
LEMMA SplitFacts ==
  ASSUME IInv, SplitRight, NEW b, b = Now.at
  PROVE  LET L == Left(b)
             R == Right(b)
         IN
         /\ Now \in Call /\ CallOK(Now, Len(calls)) /\ pool \in Nat /\ Len(calls) = 1
         /\ b \in FreeLeaves /\ b \in Live /\ b \in Block /\ b.order > MinOrder
         /\ ~tree[b].split
         /\ "USED" \notin tree[b].flags /\ "UNAVAILABLE" \notin tree[b].flags
         /\ Now.top \in 1 .. Len(toplevel) /\ Inside(b, toplevel[Now.top])
         /\ L \in Block /\ R \in Block /\ L.start = b.start /\ End(L) = R.start
         /\ End(R) = End(b) /\ b.start < R.start /\ R.start < End(b)
         /\ L # R /\ L # b /\ R # b
         /\ b.start \in Nat /\ End(b) \in Nat /\ R.start \in Nat
         /\ \A d \in Live : d # b => Disjoint(d, b) \/ Below(b, d)
         /\ L \notin Live /\ R \notin Live
         /\ Live' = Live \cup {L, R}
         /\ tree'[L] = NewNode(b) /\ tree'[R] = NewNode(b)
         /\ tree'[b].parent = tree[b].parent /\ tree'[b].split
         /\ tree'[b].flags = tree[b].flags
         /\ \A d \in Live : d # b => tree'[d] = tree[d]
         /\ \A d \in Live' : tree'[d] \in Node
<1>. DEFINE L == Left(b)
            R == Right(b)
<1>1. /\ calls # << >> /\ Now.pc = "right" /\ pool > 0 /\ tree' = Split(b)
  BY DEF SplitRight, Running
<1>2. /\ Now \in Call /\ CallOK(Now, Len(calls)) /\ pool \in Nat /\ Len(calls) = 1
  <2>1. pool \in Nat
    BY DEF IInv, TypeOK
  <2>. QED
    BY <1>1, <2>1, NowFacts
<1>3. /\ b \in FreeLeaves /\ b \in Live /\ b \in Block /\ b.order > MinOrder
      /\ ~tree[b].split
      /\ "USED" \notin tree[b].flags /\ "UNAVAILABLE" \notin tree[b].flags
      /\ Now.top \in 1 .. Len(toplevel) /\ Inside(b, toplevel[Now.top])
  <2>1. b \in FreeLeaves /\ b.order > MinOrder
    BY <1>1, <1>2 DEF CallOK, Splitting
  <2>2. Now.top \in 1 .. Len(toplevel) /\ Inside(b, toplevel[Now.top])
    BY <1>1, <1>2 DEF CallOK, Searching
  <2>. QED
    BY <2>1, <2>2, FreeLeafFacts DEF IInv
<1>4. /\ L \in Block /\ R \in Block /\ L.start = b.start /\ End(L) = R.start
      /\ End(R) = End(b) /\ b.start < R.start /\ R.start < End(b)
      /\ L # R /\ L # b /\ R # b
      /\ b.start \in Nat /\ End(b) \in Nat /\ R.start \in Nat
  BY <1>3, HalfFacts, BlockFacts
<1>5. /\ \A d \in Live : d # b => Disjoint(d, b) \/ Below(b, d)
      /\ L \notin Live /\ R \notin Live
  BY <1>3, HalvesAreNew DEF IInv, TreeInv
<1>6. /\ Live' = Live \cup {L, R}
      /\ tree'[L] = NewNode(b) /\ tree'[R] = NewNode(b)
      /\ tree'[b].parent = tree[b].parent /\ tree'[b].split /\ tree'[b].flags = tree[b].flags
      /\ \A d \in Live : d # b => tree'[d] = tree[d]
      /\ \A d \in Live' : tree'[d] \in Node
  <2>1. tree' = [d \in Live \cup {L, R} |->
                   IF d \in {L, R} THEN NewNode(b)
                   ELSE IF d = b THEN [tree[d] EXCEPT !.split = TRUE]
                   ELSE tree[d]]
    BY <1>1 DEF Split
  <2>2. Live' = Live \cup {L, R}
    BY <2>1 DEF Live
  <2>3. \A d \in Live : tree[d] \in Node
    BY DEF IInv, TypeOK
  <2>4. tree'[b] = [tree[b] EXCEPT !.split = TRUE]
    BY <1>3, <1>4, <2>1
  <2>5. /\ tree'[b] \in Node /\ tree'[b].parent = tree[b].parent
        /\ tree'[b].split /\ tree'[b].flags = tree[b].flags
    BY <1>3, <2>3, <2>4 DEF Node
  <2>6. tree'[L] = NewNode(b) /\ tree'[R] = NewNode(b)
    BY <2>1
  <2>7. \A d \in Live : d # b => tree'[d] = tree[d]
    BY <1>5, <2>1
  <2>8. NewNode(b) \in Node
    BY <1>3, NewNodeType
  <2>. QED
    BY <2>2, <2>3, <2>5, <2>6, <2>7, <2>8
<1>. QED
  BY <1>2, <1>3, <1>4, <1>5, <1>6

(* SplitRight: the leaf that is split is still the one ba_split was given. *)
LEMMA SplitRightStep == IInv /\ SplitRight => IInv'
<1>. SUFFICES ASSUME IInv, SplitRight PROVE IInv'
  OBVIOUS
<1>. DEFINE b == Now.at
            L == Left(b)
            R == Right(b)
            c == [Now EXCEPT !.at = L, !.pc = "visit"]
<1>1. /\ calls # << >> /\ Now.pc = "right" /\ Now.grow = "no" /\ pool > 0
      /\ pool' = pool - 1 /\ tree' = Split(b) /\ calls' = SetNow(c)
      /\ UNCHANGED << ranges, toplevel, pages, overwritten, ret, status >>
  BY DEF SplitRight, Running
<1>2. /\ Now \in Call /\ CallOK(Now, Len(calls)) /\ pool \in Nat /\ Len(calls) = 1
  BY SplitFacts
<1>3. /\ b \in FreeLeaves /\ b \in Live /\ b \in Block /\ b.order > MinOrder
      /\ ~tree[b].split
      /\ "USED" \notin tree[b].flags /\ "UNAVAILABLE" \notin tree[b].flags
      /\ Now.top \in 1 .. Len(toplevel) /\ Inside(b, toplevel[Now.top])
  BY SplitFacts
<1>4. /\ L \in Block /\ R \in Block /\ L.start = b.start /\ End(L) = R.start
      /\ End(R) = End(b) /\ b.start < R.start /\ R.start < End(b)
      /\ L # R /\ L # b /\ R # b
      /\ b.start \in Nat /\ End(b) \in Nat /\ R.start \in Nat
  BY SplitFacts
<1>5. /\ \A d \in Live : d # b => Disjoint(d, b) \/ Below(b, d)
      /\ L \notin Live /\ R \notin Live
  BY SplitFacts
<1>6. /\ Live' = Live \cup {L, R}
      /\ tree'[L] = NewNode(b) /\ tree'[R] = NewNode(b)
      /\ tree'[b].parent = tree[b].parent /\ tree'[b].split /\ tree'[b].flags = tree[b].flags
      /\ \A d \in Live : d # b => tree'[d] = tree[d]
      /\ \A d \in Live' : tree'[d] \in Node
  BY SplitFacts
<1>7. c \in Call /\ c.pc = "visit" /\ c.at = L /\ c.size = Now.size
      /\ c.top = Now.top /\ c.grow = "no"
  BY <1>1, <1>2, <1>4 DEF Call
<1>8. /\ calls' \in Seq(Call) /\ Len(calls') = 1 /\ calls'[1] = c
  BY <1>1, <1>2, <1>7, SetNowFacts DEF IInv
<1>9. \A d \in Live : d \in Block /\ d.start \in Nat /\ End(d) \in Nat
  BY BlockFacts DEF IInv, TypeOK
<1>10. tree' \in [Live' -> Node]
  <2>1. tree' = [d \in DOMAIN tree' |-> tree'[d]]
    BY <1>1 DEF Split
  <2>. QED
    BY <1>6, <2>1 DEF Live
<1>11. NewNode(b).parent = b /\ ~NewNode(b).split /\ NewNode(b).flags = {}
  BY DEF NewNode
<1>. HIDE DEF b, L, R, c
<1>12. TypeOK'
  <2>1. pool' \in Nat
    BY <1>1, <1>2
  <2>2. Live' \subseteq Block
    BY <1>4, <1>6, <1>9
  <2>3. pages' \subseteq Live' /\ overwritten' \subseteq Live'
    BY <1>1, <1>6 DEF IInv, TypeOK
  <2>. QED
    BY <1>1, <1>8, <1>10, <2>1, <2>2, <2>3 DEF IInv, TypeOK
<1>13. FreeLeaves' = (FreeLeaves \ {b}) \cup {L, R}
  BY <1>3, <1>5, <1>6, <1>11 DEF FreeLeaves, CanAllocate, CanAllocateIn
<1>14. ASSUME NEW h \in {L, R}, NEW d \in Live, d # b
       PROVE  \/ Disjoint(h, d) /\ Disjoint(d, h)
              \/ Below(b, d) /\ (Inside(h, Left(d)) \/ Inside(h, Right(d)))
  <2>1. h \in Block /\ b.start <= h.start /\ End(h) <= End(b) /\ h.start \in Nat /\ End(h) \in Nat
    BY <1>4, BlockFacts
  <2>2. CASE Disjoint(d, b)
    BY <1>4, <1>9, <2>1, <2>2 DEF Disjoint
  <2>3. CASE Below(b, d)
    <3>1. Left(d) \in Block /\ Right(d) \in Block
      BY <1>9, <2>3, HalfFacts DEF IInv, TreeInv, ChildrenLinked, Below
    <3>. QED
      BY <1>4, <2>1, <2>3, <3>1, BlockFacts DEF Below, Inside
  <2>. QED
    BY <1>5, <1>14, <2>2, <2>3
<1>15. Laminar'
  <2>1. \A d \in Live : tree[d].split => tree'[d].split
    BY <1>6
  <2>2. \A h \in {L, R} : Inside(h, Left(b)) \/ Inside(h, Right(b))
    BY <1>4, BlockFacts DEF Inside, L, R
  <2>3. \A h \in {L, R}, d \in Live : (Disjoint(h, d) /\ Disjoint(d, h)) \/ Below(h, d)'
    BY <1>6, <1>14, <2>1, <2>2 DEF Below
  <2>4. Disjoint(L, R) /\ Disjoint(R, L)
    BY <1>4 DEF Disjoint
  <2>5. \A d, e \in Live : d = e \/ Disjoint(d, e) \/ Below(d, e)' \/ Below(e, d)'
    BY <2>1 DEF IInv, TreeInv, Laminar, Below
  <2>. QED
    BY <1>6, <2>3, <2>4, <2>5 DEF Laminar
<1>16. ChildrenLinked'
  <2>1. ASSUME NEW d \in Live, d # b, tree[d].split
        PROVE  /\ d.order > MinOrder
               /\ Left(d) \in Live' /\ tree'[Left(d)].parent = d
               /\ Right(d) \in Live' /\ tree'[Right(d)].parent = d
    BY <1>6, <2>1 DEF IInv, TreeInv, ChildrenLinked
  <2>2. ASSUME NEW d \in Live', tree'[d].split, d # b
        PROVE  d \in Live /\ tree[d].split
    BY <1>6, <1>11, <2>2
  <2>3. /\ Left(b) \in Live' /\ tree'[Left(b)].parent = b
        /\ Right(b) \in Live' /\ tree'[Right(b)].parent = b
    BY <1>6, <1>11 DEF L, R
  <2>. QED
    BY <1>3, <2>1, <2>2, <2>3 DEF ChildrenLinked
<1>17. ParentsLinked'
  <2>1. ASSUME NEW d \in Live
        PROVE  \/ tree'[d].parent = NoBlock /\ \E i \in 1 .. Len(toplevel') : d = toplevel'[i]
               \/ /\ tree'[d].parent \in Live' /\ tree'[tree'[d].parent].split
                  /\ d = Left(tree'[d].parent) \/ d = Right(tree'[d].parent)
    <3>1. tree'[d].parent = tree[d].parent
      BY <1>6
    <3>2. \/ tree[d].parent = NoBlock /\ \E i \in 1 .. Len(toplevel) : d = toplevel[i]
          \/ /\ tree[d].parent \in Live /\ tree[tree[d].parent].split
             /\ d = Left(tree[d].parent) \/ d = Right(tree[d].parent)
      BY DEF IInv, TreeInv, ParentsLinked
    <3>. QED
      BY <1>1, <1>6, <3>1, <3>2
  <2>2. ASSUME NEW h \in {L, R}
        PROVE  /\ tree'[h].parent \in Live' /\ tree'[tree'[h].parent].split
               /\ h = Left(tree'[h].parent) \/ h = Right(tree'[h].parent)
    BY <1>3, <1>6, <1>11 DEF L, R
  <2>. QED
    BY <1>6, <2>1, <2>2 DEF ParentsLinked
<1>18. UsedAreLeaves'
  BY <1>3, <1>6, <1>11 DEF IInv, TreeInv, UsedAreLeaves, Used
<1>19. UnavailableSound'
  <2>. SUFFICES ASSUME NEW d \in Live', "UNAVAILABLE" \in tree'[d].flags,
                       NEW f \in FreeLeaves', Inside(f, d)
                PROVE  FALSE
    BY DEF UnavailableSound
  <2>1. d \in Live /\ d # b /\ "UNAVAILABLE" \in tree[d].flags
    BY <1>3, <1>6, <1>11
  <2>2. CASE f \in FreeLeaves
    BY <2>1, <2>2 DEF IInv, TreeInv, UnavailableSound
  <2>3. CASE f \in {L, R}
    <3>1. ~Disjoint(f, d)
      BY <1>4, <1>9, <2>1, <2>3, BlockFacts DEF Disjoint, Inside
    <3>2. Below(b, d)
      BY <1>14, <2>1, <2>3, <3>1
    <3>3. Inside(b, d)
      BY <1>3, <1>9, <2>1, <3>2, HalfFacts, BlockFacts
      DEF Below, Inside, IInv, TreeInv, ChildrenLinked
    <3>. QED
      BY <1>3, <2>1, <3>3 DEF IInv, TreeInv, UnavailableSound
  <2>. QED
    BY <1>13, <2>2, <2>3
<1>20. ASSUME NEW h \in {L, R}
       PROVE  b.start <= h.start /\ End(h) <= End(b) /\ h.start \in Nat /\ End(h) \in Nat
  BY <1>4, BlockFacts
<1>21. BlocksUsable'
  <2>1. PICK j \in 1 .. Len(MemMap) :
          /\ MemMap[j].usable
          /\ MemMap[j].base <= b.start /\ End(b) <= MemMap[j].end
    BY <1>3 DEF IInv, TreeInv, BlocksUsable
  <2>2. \A h \in {L, R} : MemMap[j].base <= h.start /\ End(h) <= MemMap[j].end
    BY <1>4, <1>20, <2>1, MemMapTypes
  <2>. QED
    BY <1>6, <2>1, <2>2 DEF IInv, TreeInv, BlocksUsable
<1>22. ToplevelSorted'
  BY <1>1, <1>6 DEF IInv, ToplevelSorted
<1>23. \A h \in {L, R}, i \in 1 .. Len(toplevel) :
         Inside(b, toplevel[i]) => Inside(h, toplevel[i])
  BY <1>4, <1>20, ToplevelFacts, BlockFacts DEF Inside
<1>24. Rooted'
  BY <1>1, <1>3, <1>6, <1>23 DEF IInv, Rooted
<1>25. RangesAhead'
  <2>1. \A i \in 1 .. Len(ranges) : ranges[i].usable => End(b) <= ranges[i].base
    BY <1>3 DEF IInv, RangesAhead
  <2>2. ASSUME NEW i \in 1 .. Len(ranges), ranges[i].usable, NEW h \in {L, R}
        PROVE  End(h) <= ranges[i].base
    <3>1. ranges[i] \in MapEntry
      BY ElementOfSeq DEF IInv, TypeOK
    <3>2. ranges[i].base \in Nat
      BY <3>1 DEF MapEntry
    <3>. QED
      BY <1>4, <1>20, <2>1, <2>2, <3>2
  <2>. QED
    BY <1>1, <1>6, <2>2 DEF IInv, RangesAhead
<1>26. CallsOK'
  <2>1. PICK d \in Call : d = c
    BY <1>7
  <2>2. /\ d.pc = "visit" /\ d.at = L /\ d.size = Now.size
        /\ d.top = Now.top /\ d.grow = "no"
    BY <1>7, <2>1
  <2>3. Ahead(d)'
    <3>. SUFFICES ASSUME NEW f \in FreeLeaves', Fits(f, d.size)
                  PROVE  d.at.start <= f.start
      BY <2>2 DEF Ahead, Fits
    <3>1. CASE f \in FreeLeaves
      BY <1>1, <1>2, <1>4, <2>2, <3>1 DEF CallOK, Ahead, b
    <3>2. CASE f \in {L, R}
      BY <1>4, <1>20, <2>2, <3>2
    <3>. QED
      BY <1>13, <3>1, <3>2
  <2>4. CallOK(d, 1)'
    BY <1>1, <1>3, <1>6, <1>23, <2>2, <2>3 DEF CallOK, Searching, Splitting
  <2>. QED
    BY <1>8, <2>1, <2>4 DEF CallsOK
<1>. QED
  BY <1>12, <1>15, <1>16, <1>17, <1>18, <1>19, <1>21, <1>22, <1>24, <1>25, <1>26
  DEF IInv, TreeInv

-------------------------------------------------------------------------------
(* The return.                                                             *)

(* ba_mark_used changes flags only, and takes b alone off the free leaves. *)
LEMMA MarkUsedFacts ==
  ASSUME TypeOK, ParentsLinked, NEW b \in FreeLeaves, tree' = MarkUsed(b)
  PROVE  /\ Live' = Live /\ tree' \in [Live -> Node]
         /\ \A c \in Live : tree'[c].parent = tree[c].parent /\ tree'[c].split = tree[c].split
         /\ \A c \in Live : c # b => ("USED" \in tree'[c].flags <=> "USED" \in tree[c].flags)
         /\ "USED" \in tree'[b].flags
         /\ \A c \in Live : "UNAVAILABLE" \in tree'[c].flags =>
              \/ "UNAVAILABLE" \in tree[c].flags
              \/ c = tree[b].parent /\ FillsParent(b)
         /\ FreeLeaves' = FreeLeaves \ {b}
<1>1. /\ b \in Live /\ ~tree[b].split
      /\ "USED" \notin tree[b].flags /\ "UNAVAILABLE" \notin tree[b].flags
  BY FreeLeafFacts
<1>2. Live' = Live
  BY DEF MarkUsed, Live
<1>3. \A c \in Live :
        tree'[c] = IF c = b THEN [tree[c] EXCEPT !.flags = @ \cup {"USED"}]
                   ELSE IF c = tree[b].parent /\ FillsParent(b)
                     THEN [tree[c] EXCEPT !.flags = @ \cup {"UNAVAILABLE"}]
                   ELSE tree[c]
  BY DEF MarkUsed
<1>4. \A c \in Live : /\ tree[c] \in Node /\ tree[c].flags \in SUBSET Flags
                      /\ tree[c].split \in BOOLEAN
                      /\ tree[c].parent \in Block \cup {NoBlock}
  BY DEF TypeOK, Node
<1>5. ASSUME NEW c \in Live
      PROVE  /\ tree'[c] \in Node
             /\ tree'[c].parent = tree[c].parent /\ tree'[c].split = tree[c].split
             /\ tree'[c].flags =
                  IF c = b THEN tree[c].flags \cup {"USED"}
                  ELSE IF c = tree[b].parent /\ FillsParent(b)
                    THEN tree[c].flags \cup {"UNAVAILABLE"}
                  ELSE tree[c].flags
  <2>1. /\ tree[c].flags \cup {"USED"} \in SUBSET Flags
        /\ tree[c].flags \cup {"UNAVAILABLE"} \in SUBSET Flags
    BY <1>4 DEF Flags
  <2>2. \A f \in SUBSET Flags :
          /\ [tree[c] EXCEPT !.flags = f] \in Node
          /\ [tree[c] EXCEPT !.flags = f].parent = tree[c].parent
          /\ [tree[c] EXCEPT !.flags = f].split = tree[c].split
          /\ [tree[c] EXCEPT !.flags = f].flags = f
    BY <1>4 DEF Node
  <2>3. CASE c = b
    <3>1. tree'[c] = [tree[c] EXCEPT !.flags = tree[c].flags \cup {"USED"}]
      BY <1>3, <2>3
    <3>. QED
      BY <2>1, <2>2, <2>3, <3>1
  <2>4. CASE c # b /\ c = tree[b].parent /\ FillsParent(b)
    <3>1. tree'[c] = [tree[c] EXCEPT !.flags = tree[c].flags \cup {"UNAVAILABLE"}]
      BY <1>3, <2>4
    <3>. QED
      BY <2>1, <2>2, <2>4, <3>1
  <2>5. CASE c # b /\ ~(c = tree[b].parent /\ FillsParent(b))
    BY <1>3, <1>4, <2>5
  <2>. QED
    BY <2>3, <2>4, <2>5
<1>6. tree' \in [Live -> Node]
  <2>1. tree' = [c \in DOMAIN tree' |-> tree'[c]]
    BY DEF MarkUsed
  <2>. QED
    BY <1>2, <1>5, <2>1 DEF Live
<1>7. FreeLeaves' = FreeLeaves \ {b}
  <2>1. \A c \in Live : c = tree[b].parent => tree[c].split
    BY <1>1, BlockFacts DEF ParentsLinked, TypeOK
  <2>2. \A c \in FreeLeaves : c # b => tree'[c].flags = tree[c].flags
    BY <1>5, <2>1, FreeLeafFacts
  <2>3. \A c \in Live : tree[c].flags \subseteq tree'[c].flags
    BY <1>5
  <2>4. ASSUME NEW c \in Live, c # b PROVE CanAllocate(c)' <=> CanAllocate(c)
    BY <1>5, <2>2, <2>3, <2>4 DEF FreeLeaves, CanAllocate, CanAllocateIn
  <2>5. ~CanAllocate(b)'
    BY <1>1, <1>5 DEF CanAllocate, CanAllocateIn
  <2>. QED
    BY <1>2, <2>4, <2>5 DEF FreeLeaves
<1>8. ASSUME NEW c \in Live
      PROVE  /\ c # b => ("USED" \in tree'[c].flags <=> "USED" \in tree[c].flags)
             /\ c = b => "USED" \in tree'[c].flags
             /\ "UNAVAILABLE" \in tree'[c].flags =>
                  \/ "UNAVAILABLE" \in tree[c].flags
                  \/ c = tree[b].parent /\ FillsParent(b)
  <2>1. ASSUME c = b
        PROVE  tree'[c].flags = tree[c].flags \cup {"USED"}
    BY <1>5, <2>1
  <2>2. ASSUME c # b, c = tree[b].parent, FillsParent(b)
        PROVE  tree'[c].flags = tree[c].flags \cup {"UNAVAILABLE"}
    BY <1>5, <2>2
  <2>3. ASSUME c # b, ~(c = tree[b].parent /\ FillsParent(b))
        PROVE  tree'[c].flags = tree[c].flags
    BY <1>5, <2>3
  <2>. QED
    BY <2>1, <2>2, <2>3
<1>. QED
  BY <1>1, <1>2, <1>5, <1>6, <1>7, <1>8

(* A parent becomes UNAVAILABLE only when nothing is left in either half.  *)
LEMMA MarkUsedUnavailable ==
  ASSUME IInv, NEW b \in FreeLeaves, tree' = MarkUsed(b)
  PROVE  UnavailableSound'
<1>. DEFINE p == tree[b].parent
            s == Sibling(b)
<1>1. b \in Live /\ ~tree[b].split
  BY FreeLeafFacts DEF IInv
<1>2. ASSUME FillsParent(b), NEW f \in FreeLeaves, f # b, Inside(f, p)
      PROVE  FALSE
  <2>1. /\ p \in Live /\ p \in Block /\ tree[p].split /\ p.order > MinOrder
        /\ Left(p) \in Live /\ Right(p) \in Live
        /\ b = Left(p) \/ b = Right(p)
    BY <1>1, <1>2, ParentFacts DEF FillsParent
  <2>2. /\ s \in Live /\ {b, s} = {Left(p), Right(p)}
        /\ "USED" \in tree[s].flags \/ "UNAVAILABLE" \in tree[s].flags
    BY <1>2, <2>1 DEF Sibling, FillsParent, CanAllocateIn
  <2>3. /\ f \in Live /\ f \in Block /\ ~tree[f].split
        /\ "USED" \notin tree[f].flags /\ "UNAVAILABLE" \notin tree[f].flags
    BY FreeLeafFacts DEF IInv
  <2>4. f # p /\ ~Disjoint(f, p)
    BY <1>2, <2>1, <2>3, BlockFacts DEF Disjoint, Inside
  <2>5. Inside(f, b) \/ Inside(f, s)
    BY <2>1, <2>2, <2>3, <2>4 DEF IInv, TreeInv, Laminar, Below, Disjoint
  <2>6. ASSUME NEW h \in Live, Inside(f, h)
        PROVE  f = h \/ tree[h].split
    <3>1. h \in Block
      BY DEF IInv, TypeOK
    <3>2. h.start <= f.start /\ f.start < End(h)
      BY <2>3, <2>6, <3>1, BlockFacts DEF Inside
    <3>. QED
      BY <2>6, <3>2, LeafInside DEF IInv, TreeInv
  <2>7. ~Inside(f, b)
    BY <1>1, <1>2, <2>6
  <2>. QED
    BY <2>2, <2>3, <2>5, <2>6, <2>7 DEF IInv, TreeInv, UsedAreLeaves, Used, UnavailableSound
<1>3. /\ Live' = Live /\ FreeLeaves' = FreeLeaves \ {b}
      /\ \A c \in Live : "UNAVAILABLE" \in tree'[c].flags =>
           "UNAVAILABLE" \in tree[c].flags \/ (c = p /\ FillsParent(b))
  BY MarkUsedFacts DEF IInv, TreeInv
<1>. QED
  BY <1>2, <1>3 DEF IInv, TreeInv, UnavailableSound

(* Once a call nested in palloc has begun to split a block it is stuck:    *)
(* there is no free page before that block, so a call nested in it comes   *)
(* to the same block and has no page to return either.                     *)
LEMMA NoPageForNestedSplit ==
  ASSUME IInv, Len(calls) > 2, Now.pc = "visit", Now.at \in FreeLeaves,
         Now.at.order = MinOrder
  PROVE  FALSE
<1>1. /\ calls \in Seq(Call) /\ Len(calls) \in Nat /\ calls # << >>
  BY EmptySeq, LenProperties DEF IInv, TypeOK
<1>. DEFINE n == Len(calls) - 1
            c == calls[n]
<1>2. n \in 1 .. Len(calls) /\ n < Len(calls) /\ n > 1
  BY <1>1
<1>3. c \in Call
  BY <1>1, <1>2, ElementOfSeq
<1>4. CallOK(c, n) /\ Waiting(c)
  BY <1>2, <1>3 DEF IInv, CallsOK
<1>. HIDE DEF n, c
<1>5. c.size = Size[MinOrder] /\ c.grow # "no" /\ Splitting(c)
  <2>1. c.size = Size[MinOrder] /\ c.pc # "toplevel"
    BY <1>2, <1>4, NestedCall
  <2>. QED
    BY <1>4, <2>1 DEF CallOK, Waiting
<1>6. c.at \in FreeLeaves /\ c.at.order > MinOrder
  BY <1>4, <1>5 DEF CallOK
<1>7. /\ Now \in Call /\ CallOK(Now, Len(calls)) /\ Now.size = Size[MinOrder]
  <2>1. \A i \in Nat : i > 2 => i # 1
    OBVIOUS
  <2>2. Len(calls) # 1
    BY <1>1, <2>1
  <2>. QED
    BY <1>1, <2>2, NowFacts
<1>8. /\ c.at \in Live /\ c.at \in Block /\ ~tree[c.at].split
      /\ Now.at \in Live /\ Now.at \in Block /\ ~tree[Now.at].split
  BY <1>6, FreeLeafFacts DEF IInv
<1>9. Fits(c.at, Size[MinOrder]) /\ Fits(Now.at, Size[MinOrder])
  <2>1. \A b \in Block : Fits(b, Size[MinOrder])
    BY BlockFacts, MinSize DEF Fits
  <2>. QED
    BY <1>8, <2>1
<1>10. c.at.start <= Now.at.start
  BY <1>4, <1>5, <1>9 DEF CallOK, Ahead, Splitting
<1>11. Now.at.start <= c.at.start
  BY <1>6, <1>7, <1>9 DEF CallOK, Ahead
<1>12. ~Disjoint(c.at, Now.at)
  BY <1>8, <1>10, <1>11, BlockFacts DEF Disjoint
<1>13. c.at = Now.at
  BY <1>8, <1>12, LeafOverlap DEF IInv, TreeInv
<1>. QED
  BY <1>6, <1>13, SizeFacts

(* A call that is not splitting b is as it may be after b is marked used.  *)
LEMMA CallOKMarkUsed ==
  ASSUME IInv, NEW b \in FreeLeaves, tree' = MarkUsed(b),
         UNCHANGED << ranges, toplevel, pool >>,
         NEW c, NEW k, CallOK(c, k), Splitting(c) => c.at # b
  PROVE  CallOK(c, k)'
<1>1. Live' = Live /\ FreeLeaves' = FreeLeaves \ {b}
  BY MarkUsedFacts DEF IInv, TreeInv
<1>2. Ahead(c)'
  BY <1>1 DEF CallOK, Ahead, Fits
<1>. QED
  BY <1>1, <1>2 DEF CallOK, Searching, Splitting

(* The blocks after b is marked used.                                      *)
LEMMA TreeMarkUsed ==
  ASSUME IInv, NEW b \in FreeLeaves, tree' = MarkUsed(b), UNCHANGED << ranges, toplevel >>
  PROVE  TreeInv' /\ ToplevelSorted' /\ Rooted' /\ RangesAhead'
<1>1. /\ Live' = Live
      /\ \A c \in Live : tree'[c].parent = tree[c].parent /\ tree'[c].split = tree[c].split
      /\ \A c \in Live : c # b => ("USED" \in tree'[c].flags <=> "USED" \in tree[c].flags)
  BY MarkUsedFacts DEF IInv, TreeInv
<1>2. b \in Live /\ ~tree[b].split
  BY FreeLeafFacts DEF IInv
<1>3. Laminar'
  BY <1>1 DEF IInv, TreeInv, Laminar, Below
<1>4. ChildrenLinked'
  BY <1>1 DEF IInv, TreeInv, ChildrenLinked
<1>5. ParentsLinked'
  BY <1>1 DEF IInv, TreeInv, ParentsLinked
<1>6. UsedAreLeaves'
  BY <1>1, <1>2 DEF IInv, TreeInv, UsedAreLeaves, Used
<1>7. UnavailableSound'
  BY MarkUsedUnavailable
<1>8. BlocksUsable'
  BY <1>1 DEF IInv, TreeInv, BlocksUsable
<1>9. ToplevelSorted' /\ Rooted' /\ RangesAhead'
  BY <1>1 DEF IInv, ToplevelSorted, Rooted, RangesAhead
<1>. QED
  BY <1>3, <1>4, <1>5, <1>6, <1>7, <1>8, <1>9 DEF TreeInv

-------------------------------------------------------------------------------
(* The return.                                                             *)

(* A call that goes on growing the pool is as it may be after the step.    *)
LEMMA ResumedCall ==
  ASSUME NEW c, NEW d, CallOK(c, 1)', c.grow # "no", d.grow = "map", d.page \in Live',
         d.pc = c.pc, d.at = c.at, d.size = c.size, d.top = c.top
  PROVE  CallOK(d, 1)'
<1>1. Ahead(d)'
  BY DEF CallOK, Ahead
<1>. QED
  BY <1>1 DEF CallOK, Searching, Splitting

(* A fact about sequences that two proofs need.                            *)
LEMMA AppendToEmpty ==
  ASSUME NEW x
  PROVE  Append(<< >>, x) = << x >>
OBVIOUS

(* palloc returns to the kernel, stops it, or goes on in the call that was *)
(* growing the pool, which is the outermost one.                           *)
LEMMA ReturnStep ==
  ASSUME IInv, calls # << >>, NEW b \in Block \cup {NoBlock}, Return(b),
         UNCHANGED << ranges, toplevel, pool, pages, overwritten >>,
         Live' = Live, tree' \in [Live -> Node],
         TreeInv', ToplevelSorted', Rooted', RangesAhead',
         Addr(b) # 0 => b \in Live /\ Len(calls) <= 2,
         Len(calls) > 1 =>
           \A k \in 1 .. Len(calls) : \A c \in Call : c = calls[k] => CallOK(c, k)'
  PROVE  IInv'
<1>1. /\ Now \in Call /\ Len(calls) \in Nat /\ Len(calls) >= 1 /\ calls \in Seq(Call)
  BY NowFacts DEF IInv, TypeOK
<1>2. ret' \in [size : Nat, block : Block \cup {NoBlock}]
  BY <1>1 DEF Return, Call
<1>3. ASSUME calls' \in Seq(Call), status' \in {"running", "fault", "overflow"}, CallsOK'
      PROVE  IInv'
  <2>1. TypeOK'
    BY <1>2, <1>3 DEF IInv, TypeOK, Live
  <2>. QED
    BY <1>3, <2>1 DEF IInv
<1>4. CASE Len(calls) = 1
  <2>1. calls' = << >> /\ status' = status
    BY <1>4 DEF Return
  <2>. QED
    BY <1>3, <2>1, NoCalls DEF IInv, TypeOK
<1>5. CASE Len(calls) > 1 /\ Addr(b) = 0
  <2>1. calls' = calls /\ status' = "fault"
    BY <1>5 DEF Return
  <2>2. ASSUME NEW k \in 1 .. Len(calls'), NEW c \in Call, c = calls'[k]
        PROVE  CallOK(c, k)' /\ (k < Len(calls') => Waiting(c))
    BY <1>5, <2>1, <2>2 DEF IInv, CallsOK
  <2>. QED
    BY <1>1, <1>3, <2>1, <2>2 DEF CallsOK
<1>6. CASE Len(calls) > 1 /\ Addr(b) # 0
  <2>0. \A i \in Nat : i > 1 /\ i <= 2 => i = 2
    OBVIOUS
  <2>1. b \in Live /\ Len(calls) = 2
    BY <1>1, <1>6, <2>0
  <2>2. calls[1] \in Call
    BY <1>1, <2>1, ElementOfSeq
  <2>3. PICK c \in Call : c = calls[1]
    BY <2>2
  <2>4. Waiting(c) /\ CallOK(c, 1) /\ CallOK(c, 1)'
    BY <1>1, <2>1, <2>3 DEF IInv, CallsOK
  <2>5. \/ \E m \in 0 .. PageTableLevels :
            calls' = Append(SubSeq(calls, 1, 0),
                            [c EXCEPT !.grow = "map", !.page = b, !.missing = m])
        \/ /\ c.grow = "map"
           /\ calls' = Append(SubSeq(calls, 1, 0), [c EXCEPT !.missing = @ - 1])
    <3>1. /\ Len(calls) # 1 /\ Len(calls) > 1 /\ Addr(b) # 0
          /\ Len(calls) - 1 = 1 /\ Len(calls) - 2 = 0
      BY <1>6, <2>1
    <3>. QED
      BY <2>3, <3>1 DEF Return
  <2>6. SubSeq(calls, 1, 0) = << >>
    BY <1>1, SubSeqProperties, EmptySeq, LenProperties
  <2>7. status' = status
    BY <1>6, <2>1 DEF Return
  <2>8. ASSUME NEW d \in Call, calls' = << d >>, d.grow = "map", d.page \in Live,
               d.pc = c.pc, d.at = c.at, d.size = c.size, d.top = c.top
        PROVE  IInv'
    <3>1. CallOK(d, 1)'
      BY <2>4, <2>8, ResumedCall DEF Waiting
    <3>2. calls' \in Seq(Call) /\ Len(calls') = 1 /\ calls'[1] = d
      BY <2>8
    <3>3. CallsOK'
      BY <3>1, <3>2 DEF CallsOK
    <3>. QED
      BY <1>3, <2>7, <3>2, <3>3 DEF IInv, TypeOK
  <2>9. ASSUME NEW m \in 0 .. PageTableLevels,
               calls' = Append(SubSeq(calls, 1, 0),
                               [c EXCEPT !.grow = "map", !.page = b, !.missing = m])
        PROVE  IInv'
    <3>. DEFINE d == [c EXCEPT !.grow = "map", !.page = b, !.missing = m]
    <3>1. m \in Nat
      BY LimitAssumption
    <3>2. /\ d \in Call /\ d.grow = "map" /\ d.page = b
          /\ d.pc = c.pc /\ d.at = c.at /\ d.size = c.size /\ d.top = c.top
      BY <3>1 DEF Call
    <3>3. calls' = << d >>
      BY <2>6, <2>9, AppendToEmpty
    <3>. HIDE DEF d
    <3>4. ASSUME NEW e, e = d PROVE IInv'
      BY <2>1, <2>8, <3>2, <3>3, <3>4
    <3>. QED
      BY <3>4
  <2>10. ASSUME c.grow = "map",
                calls' = Append(SubSeq(calls, 1, 0), [c EXCEPT !.missing = @ - 1])
         PROVE  IInv'
    <3>. DEFINE d == [c EXCEPT !.missing = @ - 1]
    <3>1. c.missing - 1 \in Nat
      BY <2>4, <2>10 DEF Call, Waiting
    <3>2. /\ d \in Call /\ d.grow = "map" /\ d.page = c.page
          /\ d.pc = c.pc /\ d.at = c.at /\ d.size = c.size /\ d.top = c.top
      BY <2>10, <3>1 DEF Call
    <3>3. calls' = << d >>
      BY <2>6, <2>10, AppendToEmpty
    <3>4. d.page \in Live
      BY <2>4, <2>10, <3>2 DEF CallOK
    <3>. HIDE DEF d
    <3>. QED
      BY <2>8, <3>2, <3>3, <3>4
  <2>. QED
    BY <2>5, <2>9, <2>10
<1>7. \A i \in Nat : i >= 1 => i = 1 \/ i > 1
  OBVIOUS
<1>8. Len(calls) = 1 \/ Len(calls) > 1
  BY <1>1, <1>7
<1>. QED
  BY <1>4, <1>5, <1>6, <1>8

(* palloc finds nothing, and its caller gets a null.                       *)
LEMMA ReturnNullStep == IInv /\ ReturnNull => IInv'
<1>. SUFFICES ASSUME IInv, ReturnNull PROVE IInv'
  OBVIOUS
<1>1. /\ calls # << >> /\ Return(NoBlock)
      /\ UNCHANGED << ranges, toplevel, tree, pool, pages, overwritten >>
  BY DEF ReturnNull, Running
<1>2. Addr(NoBlock) = 0
  BY DEF Addr, NoBlock
<1>3. Live' = Live /\ tree' \in [Live -> Node]
  BY <1>1 DEF IInv, TypeOK, Live
<1>4. TreeInv' /\ ToplevelSorted' /\ Rooted' /\ RangesAhead'
  BY <1>1 DEF IInv, TreeInv, ToplevelSorted, Rooted, RangesAhead, Laminar, ChildrenLinked,
     ParentsLinked, UsedAreLeaves, UnavailableSound, BlocksUsable, Below, Used,
     FreeLeaves, CanAllocate, CanAllocateIn, Live
<1>5. ASSUME NEW k \in 1 .. Len(calls), NEW c \in Call, c = calls[k]
      PROVE  CallOK(c, k)'
  <2>1. CallOK(c, k)
    BY <1>5 DEF IInv, CallsOK
  <2>. QED
    BY <1>1, <2>1, CallOKStable
<1>. QED
  BY <1>1, <1>2, <1>3, <1>4, <1>5, ReturnStep

(* A nested call takes a smallest block, and only if it was called by the  *)
(* outermost one.                                                          *)
LEMMA TakeFacts ==
  ASSUME IInv, Take
  PROVE  /\ calls # << >> /\ Now.pc = "visit" /\ Now.at \in FreeLeaves
         /\ Len(calls) > 1 => Now.at.order = MinOrder
         /\ Len(calls) <= 2
<1>1. /\ calls # << >> /\ Now.pc = "visit" /\ CanAllocate(Now.at)
      /\ Snug(Now.at.order, Now.size)
  BY DEF Take, Visiting, Running
<1>2. /\ Now.at \in Live /\ Now.at \in Block
      /\ Len(calls) \in Nat /\ Len(calls) >= 1
      /\ Len(calls) = 1 \/ Now.size = Size[MinOrder]
  BY <1>1, NowFacts DEF Searching
<1>3. Now.at \in FreeLeaves
  BY <1>1, <1>2 DEF FreeLeaves
<1>4. Len(calls) > 1 => Now.at.order = MinOrder
  <2>1. ASSUME NEW o \in Orders, Size[o - 1] < Size[MinOrder], o # MinOrder
        PROVE  FALSE
    <3>1. o - 1 \in Orders
      BY <2>1, SizeFacts DEF Orders
    <3>. QED
      BY <2>1, <3>1, MinSize, SizeFacts
  <2>2. Len(calls) > 1 => Snug(Now.at.order, Size[MinOrder])
    <3>1. \A i \in Nat : i > 1 => i # 1
      OBVIOUS
    <3>. QED
      BY <1>1, <1>2, <3>1
  <2>3. Now.at.order \in Orders
    BY <1>2 DEF Block
  <2>. QED
    BY <2>1, <2>2, <2>3 DEF Snug
<1>5. ~(Len(calls) > 2)
  BY <1>1, <1>2, <1>3, <1>4, NoPageForNestedSplit
<1>. QED
  BY <1>1, <1>2, <1>3, <1>4, <1>5

(* Take: no split in progress is of the block that is handed out, for that *)
(* block is larger than what the pool asks for.                            *)
LEMMA TakeStep == IInv /\ Take => IInv'
<1>. SUFFICES ASSUME IInv, Take PROVE IInv'
  OBVIOUS
<1>1. /\ tree' = MarkUsed(Now.at) /\ Return(Now.at)
      /\ UNCHANGED << ranges, toplevel, pool, pages, overwritten >>
  BY DEF Take
<1>2. /\ calls # << >> /\ Now.pc = "visit" /\ Now.at \in FreeLeaves
      /\ Len(calls) > 1 => Now.at.order = MinOrder
      /\ Len(calls) <= 2
  BY TakeFacts
<1>3. PICK b \in FreeLeaves : b = Now.at
  BY <1>2
<1>4. b \in Live /\ b \in Block /\ tree' = MarkUsed(b) /\ Return(b)
  BY <1>1, <1>2, <1>3, NowFacts DEF Searching
<1>5. Live' = Live /\ tree' \in [Live -> Node]
  BY <1>4, MarkUsedFacts DEF IInv, TreeInv
<1>6. TreeInv' /\ ToplevelSorted' /\ Rooted' /\ RangesAhead'
  BY <1>1, <1>4, TreeMarkUsed
<1>7. ASSUME Len(calls) > 1, NEW k \in 1 .. Len(calls), NEW c \in Call, c = calls[k]
      PROVE  CallOK(c, k)'
  <2>1. CallOK(c, k)
    BY <1>7 DEF IInv, CallsOK
  <2>2. Splitting(c) => c.at # b
    <3>1. Splitting(c) => c.at.order > MinOrder
      BY <2>1 DEF CallOK
    <3>. QED
      BY <1>2, <1>3, <1>7, <3>1, SizeFacts
  <2>. QED
    BY <1>1, <1>4, <2>1, <2>2, CallOKMarkUsed
<1>. QED
  BY <1>1, <1>2, <1>3, <1>4, <1>5, <1>6, <1>7, ReturnStep

-------------------------------------------------------------------------------
(* The invariant.                                                          *)

(* Before ba_init there is no block and no call, and all the map is ahead. *)
LEMMA InitInv == Init => IInv
<1>. SUFFICES ASSUME Init PROVE IInv
  OBVIOUS
<1>1. /\ ranges = MemMap /\ toplevel = << >> /\ tree = << >> /\ pool = NumStatic
      /\ pages = {} /\ overwritten = {} /\ calls = << >>
      /\ ret = [size |-> 0, block |-> NoBlock] /\ status = "running"
  BY DEF Init
<1>2. Live = {} /\ Len(toplevel) = 0 /\ Len(calls) = 0
  BY <1>1 DEF Live
<1>3. TypeOK
  <2>1. ranges \in Seq(MapEntry) /\ pool \in Nat
    BY <1>1, MemMapAssumption, LimitAssumption
  <2>2. tree \in [Live -> Node]
    BY <1>1, <1>2
  <2>3. toplevel \in Seq(Block) /\ calls \in Seq(Call)
    BY <1>1
  <2>4. ret \in [size : Nat, block : Block \cup {NoBlock}]
    BY <1>1
  <2>. QED
    BY <1>1, <1>2, <2>1, <2>2, <2>3, <2>4 DEF TypeOK
<1>4. TreeInv
  BY <1>2 DEF TreeInv, Laminar, ChildrenLinked, ParentsLinked, UsedAreLeaves,
     UnavailableSound, BlocksUsable, Used
<1>5. ToplevelSorted /\ Rooted
  BY <1>2 DEF ToplevelSorted, Rooted
<1>6. RangesAhead
  <2>1. \A i \in 1 .. Len(ranges) : ranges[i].base <= ranges[i].base /\ ranges[i].end <= ranges[i].end
    BY <1>1, MemMapTypes
  <2>. QED
    BY <1>1, <1>2, <2>1, MemMapAssumption DEF RangesAhead
<1>7. CallsOK
  BY <1>2 DEF CallsOK
<1>. QED
  BY <1>3, <1>4, <1>5, <1>6, <1>7 DEF IInv

(* Every step of the allocator preserves the invariant.                    *)
LEMMA NextInv == IInv /\ [Next]_vars => IInv'
<1>. SUFFICES ASSUME IInv, [Next]_vars PROVE IInv'
  OBVIOUS
<1>1. CASE \E size \in Requests : CallPalloc(size)
  BY <1>1, CallPallocStep
<1>2. CASE Step
  BY <1>2, SkipRangeStep, InitToplevelStep, AppendToplevelStep, RefuseStep, DescendStep,
     BeginSplitStep, SplitLeftStep, SplitRightStep, TryRightStep, FailUpStep,
     NextToplevelStep, TakeStep, ReturnNullStep, GrowStep, AllocPageTableStep,
     SetUpPageStep, StopStep DEF Step
<1>3. CASE UNCHANGED vars
  <2>1. UNCHANGED << ranges, toplevel, tree, pool, pages, overwritten, calls, ret, status >>
    BY <1>3 DEF vars
  <2>2. TypeOK'
    BY <2>1 DEF IInv, TypeOK, Live
  <2>3. ASSUME NEW k \in 1 .. Len(calls'), NEW c \in Call, c = calls'[k]
        PROVE  CallOK(c, k)' /\ (k < Len(calls') => Waiting(c))
    <3>1. CallOK(c, k) /\ (k < Len(calls) => Waiting(c))
      BY <2>1, <2>3 DEF IInv, CallsOK
    <3>. QED
      BY <2>1, <3>1, CallOKStable
  <2>. QED
    BY <2>1, <2>2, <2>3, CallsOnly DEF CallsOK
<1>. QED
  BY <1>1, <1>2, <1>3 DEF Next

(* What the steps of the allocator rely on, from ba_init on.               *)
THEOREM Invariant == Spec => []IInv
<1>. QED
  BY InitInv, NextInv, PTL DEF Spec

-------------------------------------------------------------------------------
(* What follows from it.                                                   *)

(* The variables keep their types.                                         *)
THEOREM TypeCorrect == Spec => []TypeOK
<1>1. IInv => TypeOK
  BY DEF IInv
<1>. QED
  BY <1>1, Invariant, PTL

(* palloc never hands out memory that is already in use, although it calls *)
(* itself in the middle of ba_split and of ba_init_toplevel_block.         *)
THEOREM NoDoubleGrant == Spec => []GrantsDisjoint
<1>1. IInv => GrantsDisjoint
  <2>. SUFFICES ASSUME IInv, NEW b \in Used, NEW c \in Used
                PROVE  b = c \/ Disjoint(b, c)
    BY DEF GrantsDisjoint
  <2>. QED
    BY DEF IInv, TreeInv, Laminar, UsedAreLeaves, Used, Below
<1>. QED
  BY <1>1, Invariant, PTL

(* Reserved memory is never turned into blocks or handed out.              *)
THEOREM OnlyUsableMemory == Spec => []BlocksUsable
<1>1. IInv => BlocksUsable
  BY DEF IInv, TreeInv
<1>. QED
  BY <1>1, Invariant, PTL

(* A block marked UNAVAILABLE has nothing left: the search that turns away *)
(* from it misses nothing.                                                 *)
THEOREM UnavailableIsFull == Spec => []UnavailableSound
<1>1. IInv => UnavailableSound
  BY DEF IInv, TreeInv
<1>. QED
  BY <1>1, Invariant, PTL

(* Each call in progress is as CallOK says.                                *)
LEMMA CallsInProgress ==
  ASSUME IInv, NEW k \in 1 .. Len(calls)
  PROVE  calls[k] \in Call /\ CallOK(calls[k], k)
<1>1. calls[k] \in Call
  BY ElementOfSeq DEF IInv, TypeOK
<1>. QED
  BY <1>1 DEF IInv, CallsOK

(* The requirement of ba_split, phys.c:218, still holds when the call of   *)
(* ba_new_block in it has allocated and mapped a page.                     *)
THEOREM SplitsStayLegal == Spec => []SplitTargetsIntact
<1>1. IInv => SplitTargetsIntact
  BY CallsInProgress DEF SplitTargetsIntact, CallOK, Splitting
<1>. QED
  BY <1>1, Invariant, PTL

(* A search in progress has nothing of use behind it.                      *)
THEOREM SearchIsExhaustive == Spec => []NothingSkipped
<1>1. IInv => NothingSkipped
  BY CallsInProgress DEF NothingSkipped, CallOK, Ahead
<1>. QED
  BY <1>1, Invariant, PTL

(* A refill of the pool is never interrupted by another one.               *)
THEOREM OneRefillAtATime == Spec => []NestedGrowthIsDoomed
<1>1. IInv => NestedGrowthIsDoomed
  BY CallsInProgress DEF NestedGrowthIsDoomed, CallOK
<1>. QED
  BY <1>1, Invariant, PTL

(* Only Take makes a block used, and it is the one that the call looks at. *)
LEMMA NewGrants ==
  ASSUME IInv, Next
  PROVE  \/ Used' \subseteq Used
         \/ /\ Take /\ Now.pc = "visit" /\ calls # << >>
            /\ Used' \subseteq Used \cup {Now.at} /\ ret'.size = Now.size
<1>1. CASE UNCHANGED tree
  BY <1>1 DEF Used, Live
<1>2. CASE Take
  <2>1. /\ Now.pc = "visit" /\ calls # << >> /\ CanAllocate(Now.at)
        /\ tree' = MarkUsed(Now.at) /\ ret' = [size |-> Now.size, block |-> Now.at]
    BY <1>2 DEF Take, Visiting, Running, Return
  <2>2. Now.at \in FreeLeaves
    BY <2>1, NowFacts DEF FreeLeaves, Searching
  <2>3. PICK b \in FreeLeaves : b = Now.at
    BY <2>2
  <2>4. /\ Live' = Live
        /\ \A c \in Live : c # b => ("USED" \in tree'[c].flags <=> "USED" \in tree[c].flags)
    BY <2>1, <2>3, MarkUsedFacts DEF IInv, TreeInv
  <2>5. Used' \subseteq Used \cup {b}
    BY <2>4 DEF Used
  <2>. QED
    BY <1>2, <2>1, <2>3, <2>5
<1>3. CASE AppendToplevel
  <2>1. tree' = AddToplevel(Now.at)
    BY <1>3 DEF AppendToplevel
  <2>2. \A c \in Live' : tree'[c] = NewNode(NoBlock) \/ (c \in Live /\ tree'[c] = tree[c])
    BY <2>1 DEF AddToplevel, Live
  <2>. QED
    BY <2>2 DEF Used, NewNode
<1>4. CASE SplitRight
  <2>1. tree' = Split(Now.at)
    BY <1>4 DEF SplitRight
  <2>2. ASSUME NEW c \in Live'
        PROVE  tree'[c].flags = {} \/ (c \in Live /\ tree'[c].flags = tree[c].flags)
    <3>1. CASE c \in {Left(Now.at), Right(Now.at)}
      BY <2>1, <3>1 DEF Split, Live, NewNode
    <3>2. CASE c \notin {Left(Now.at), Right(Now.at)}
      <4>1. /\ c \in Live /\ tree[c] \in Node
            /\ tree'[c] = IF c = Now.at THEN [tree[c] EXCEPT !.split = TRUE] ELSE tree[c]
        BY <2>1, <3>2 DEF Split, Live, IInv, TypeOK
      <4>. QED
        BY <4>1 DEF Node
    <3>. QED
      BY <3>1, <3>2
  <2>. QED
    BY <2>2 DEF Used
<1>. QED
  BY <1>1, <1>2, <1>3, <1>4
     DEF Next, Step, CallPalloc, SkipRange, InitToplevel, Refuse, Descend, BeginSplit,
         SplitLeft, TryRight, FailUp, NextToplevel, ReturnNull, Grow, AllocPageTable,
         SetUpPage, GrowFault, StackProt

(* Every grant is the lowest free block that can hold the request, also    *)
(* when it is made in the middle of another search.                        *)
THEOREM GrantsAreLowest == Spec => LowestFirst
<1>1. ASSUME IInv, Next, NEW b \in Used' \ Used, NEW f \in FreeLeaves, Fits(f, ret'.size)
      PROVE  b.start <= f.start
  <2>1. /\ Now.pc = "visit" /\ calls # << >> /\ b = Now.at /\ ret'.size = Now.size
    BY <1>1, NewGrants
  <2>2. Ahead(Now)
    BY <1>1, <2>1, NowFacts DEF CallOK
  <2>. QED
    BY <1>1, <2>1, <2>2 DEF Ahead
<1>2. IInv /\ [Next]_vars => [ \A b \in Used' \ Used :
        \A f \in FreeLeaves : Fits(f, ret'.size) => b.start <= f.start ]_vars
  BY <1>1
<1>. QED
  BY <1>2, Invariant, PTL DEF Spec, LowestFirst

-------------------------------------------------------------------------------
(* The memory map: ba_init leaves no page of it out, and covers none twice. *)

(* The number of entries that ba_init is done with.                        *)
Past == Len(MemMap) - Len(ranges)

(* What is left is the rest of the map, but that blocks may already have   *)
(* been made of the beginning of its first entry.                          *)
RestOfMap ==
  /\ Past \in 0 .. Len(MemMap)
  /\ \A j \in 2 .. Len(ranges) : ranges[j] = MemMap[Past + j]
  /\ ranges # << >> => /\ ranges[1].usable = MemMap[Past + 1].usable
                       /\ ranges[1].end = MemMap[Past + 1].end
                       /\ MemMap[Past + 1].base <= ranges[1].base

(* Less than a page, at most, is not covered at the end of an entry.       *)
TiledEntry(e) ==
  \A a \in e.base .. e.end - 1 :
    Covered(a) \/ \A x \in a .. e.end - 1 : ~Covered(x) /\ e.end - a < Size[MinOrder]

MapTells ==
  /\ RestOfMap
  /\ \A i \in 1 .. Past : MemMap[i].usable => TiledEntry(MemMap[i])
  /\ ranges # << >> /\ ranges[1].usable =>
       \A a \in MemMap[Past + 1].base .. ranges[1].base - 1 : Covered(a)

-------------------------------------------------------------------------------

(* The bounds of entries and blocks are numbers.                           *)
LEMMA MapFacts ==
  ASSUME IInv
  PROVE  /\ ranges \in Seq(MapEntry) /\ Len(ranges) \in Nat /\ Len(MemMap) \in Nat
         /\ ranges # << >> <=> Len(ranges) >= 1
         /\ \A j \in 1 .. Len(ranges) : ranges[j].base \in Nat /\ ranges[j].end \in Nat
         /\ \A i \in 1 .. Len(MemMap) : MemMap[i].base \in Nat /\ MemMap[i].end \in Nat
<1>1. ranges \in Seq(MapEntry) /\ MemMap \in Seq(MapEntry)
  BY MemMapAssumption DEF IInv, TypeOK
<1>2. \A j \in 1 .. Len(ranges) : ranges[j] \in MapEntry
  BY <1>1, ElementOfSeq
<1>3. \A j \in 1 .. Len(ranges) : ranges[j].base \in Nat /\ ranges[j].end \in Nat
  BY <1>2 DEF MapEntry
<1>4. Len(ranges) \in Nat /\ Len(MemMap) \in Nat /\ (ranges # << >> <=> Len(ranges) >= 1)
  BY <1>1, LenProperties, EmptySeq
<1>. QED
  BY <1>1, <1>3, <1>4, MemMapTypes

(* Steps after ba_init, and between its blocks.                            *)
LEMMA OthersKeepMap ==
  ASSUME MapTells, UNCHANGED << ranges, toplevel >>
  PROVE  MapTells'
BY DEF MapTells, RestOfMap, Past, TiledEntry, Covered

(* Of what is left of the entry that ba_init gives up no page can be made, *)
(* and the blocks end where that begins.                                   *)
LEMMA SkipRangeTells ==
  ASSUME IInv, MapTells, SkipRange
  PROVE  MapTells'
<1>. DEFINE p == Past + 1
<1>1. /\ ranges # << >> /\ ranges' = Tail(ranges) /\ toplevel' = toplevel
      /\ ~Convertible(ranges[1])
  BY DEF SkipRange
<1>2. /\ Len(ranges) \in Nat /\ Len(ranges) >= 1 /\ Len(MemMap) \in Nat
      /\ Past \in Nat /\ Past < Len(MemMap) /\ p \in 1 .. Len(MemMap)
  BY <1>1, MapFacts DEF MapTells, RestOfMap, Past
<1>3. /\ Len(ranges') = Len(ranges) - 1
      /\ \A j \in 1 .. Len(ranges') : ranges'[j] = ranges[j + 1]
  BY <1>1, MapFacts, HeadTailProperties
<1>4. Past' = p
  BY <1>2, <1>3 DEF Past
<1>5. RestOfMap'
  <2>1. \A j \in 1 .. Len(ranges') : ranges'[j] = MemMap[p + j]
    <3>1. ASSUME NEW j \in 1 .. Len(ranges') PROVE ranges'[j] = MemMap[p + j]
      <4>1. j + 1 \in 2 .. Len(ranges) /\ Past + (j + 1) = p + j
        <5>1. \A m, n \in Nat : \A i \in 1 .. m - 1 : i + 1 \in 2 .. m /\ n + (i + 1) = (n + 1) + i
          OBVIOUS
        <5>. QED
          BY <1>2, <1>3, <5>1
      <4>. QED
        BY <1>3, <4>1 DEF MapTells, RestOfMap
    <3>. QED
      BY <3>1
  <2>2. ranges' # << >> => 1 \in 1 .. Len(ranges')
    BY <1>1, <1>2, <1>3, MapFacts, HeadTailProperties, EmptySeq
  <2>3. \A j \in 2 .. Len(ranges') : j \in 1 .. Len(ranges')
    BY <1>2, <1>3
  <2>4. ranges' # << >> => ranges'[1] = MemMap[p + 1] /\ MemMap[p + 1].base \in Nat
    <3>1. 1 \in 1 .. Len(ranges') => p + 1 \in 1 .. Len(MemMap)
      BY <1>2, <1>3 DEF Past
    <3>. QED
      BY <2>1, <2>2, <3>1, MapFacts
  <2>5. p \in 0 .. Len(MemMap)
    BY <1>2
  <2>. HIDE DEF p
  <2>6. ranges' # << >> => /\ ranges'[1].usable = MemMap[p + 1].usable
                           /\ ranges'[1].end = MemMap[p + 1].end
                           /\ MemMap[p + 1].base <= ranges'[1].base
    BY <2>4
  <2>. QED
    BY <1>4, <2>1, <2>3, <2>5, <2>6 DEF RestOfMap
<1>6. ranges' # << >> => ranges'[1].base = MemMap[p + 1].base /\ MemMap[p + 1].base \in Nat
  <2>1. ASSUME ranges' # << >>
        PROVE  ranges'[1].base = MemMap[p + 1].base /\ MemMap[p + 1].base \in Nat
    <3>1. Len(ranges) >= 2
      <4>1. ranges' \in Seq(MapEntry)
        BY <1>1, MapFacts, HeadTailProperties
      <4>2. Len(ranges') # 0
        BY <2>1, <4>1, EmptySeq
      <4>. QED
        BY <1>2, <1>3, <4>2
    <3>2. 1 \in 1 .. Len(ranges') /\ 2 \in 2 .. Len(ranges) /\ Past + 2 = p + 1
          /\ p + 1 \in 1 .. Len(MemMap)
      BY <1>2, <1>3, <3>1 DEF Past
    <3>3. ranges'[1] = MemMap[p + 1]
      BY <1>3, <3>2 DEF MapTells, RestOfMap
    <3>. QED
      BY <3>2, <3>3, MapFacts
  <2>. QED
    BY <2>1
<1>7. MemMap[p].usable => TiledEntry(MemMap[p])
  <2>. SUFFICES ASSUME MemMap[p].usable, NEW a \in MemMap[p].base .. MemMap[p].end - 1, ~Covered(a),
                       NEW x \in a .. MemMap[p].end - 1
                PROVE  ~Covered(x) /\ MemMap[p].end - a < Size[MinOrder]
    BY DEF TiledEntry
  <2>1. /\ ranges[1].usable /\ ranges[1].end = MemMap[p].end /\ MemMap[p].base <= ranges[1].base
        /\ ranges[1].base \in Nat /\ ranges[1].end \in Nat /\ MemMap[p].base \in Nat
    <3>1. 1 \in 1 .. Len(ranges)
      BY <1>2
    <3>. QED
      BY <1>1, <1>2, <3>1, MapFacts DEF MapTells, RestOfMap
  <2>2. a \in Int /\ x \in Int /\ a <= x /\ x < ranges[1].end /\ a < ranges[1].end
    BY <2>1
  <2>3. ranges[1].base <= a
    <3>1. a < ranges[1].base => a \in MemMap[p].base .. ranges[1].base - 1
      BY <2>1
    <3>2. ~(a < ranges[1].base)
      BY <1>1, <2>1, <3>1 DEF MapTells
    <3>. QED
      BY <2>1, <2>2, <3>2
  <2>4. ~Covered(x)
    <3>1. ASSUME NEW i \in 1 .. Len(toplevel) PROVE End(toplevel[i]) <= x
      <4>1. toplevel[i] \in Block /\ toplevel[i] \in Live
        BY ToplevelFacts DEF IInv, ToplevelSorted
      <4>2. End(toplevel[i]) <= ranges[1].base
        BY <1>2, <2>1, <4>1 DEF IInv, RangesAhead
      <4>. QED
        BY <2>1, <2>2, <2>3, <4>1, <4>2, BlockFacts
    <3>2. ASSUME NEW i \in 1 .. Len(toplevel) PROVE ~(x < End(toplevel[i]))
      BY <2>2, <3>1, ToplevelFacts, BlockFacts
    <3>. QED
      BY <3>2 DEF Covered
  <2>5. ~(ranges[1].base + Size[MinOrder] <= ranges[1].end) /\ Size[MinOrder] \in Nat
    BY <1>1, <2>1, SizeFacts DEF Convertible, Orders
  <2>. QED
    BY <2>1, <2>2, <2>3, <2>4, <2>5
<1>8. \A i \in 1 .. p : i \in 1 .. Past \/ i = p
  BY <1>2
<1>. HIDE DEF p
<1>9. \A i \in 1 .. p : MemMap[i].usable => TiledEntry(MemMap[i])'
  BY <1>1, <1>7, <1>8 DEF MapTells, TiledEntry, Covered
<1>10. ranges' # << >> => \A a : a \notin MemMap[p + 1].base .. ranges'[1].base - 1
  BY <1>6
<1>. QED
  BY <1>4, <1>5, <1>9, <1>10 DEF MapTells

(* A block is made of the beginning of what is left of an entry, beyond    *)
(* the entries that ba_init is done with.                                  *)
LEMMA AppendToplevelTells ==
  ASSUME IInv, MapTells, AppendToplevel
  PROVE  MapTells'
<1>. DEFINE p == Past + 1
            n == Len(toplevel) + 1
<1>1. PICK b : b = Now.at
  OBVIOUS
<1>2. /\ ranges # << >> /\ ranges[1].usable /\ b.start = ranges[1].base
      /\ b.start \in Nat /\ End(b) \in Nat /\ b.start < End(b)
      /\ toplevel' \in Seq(Block) /\ Len(toplevel) \in Nat /\ Len(toplevel') = n
      /\ toplevel'[n] = b
      /\ \A i \in 1 .. Len(toplevel) : toplevel'[i] = toplevel[i]
      /\ b \in Block
  BY <1>1, AppendFacts
<1>3. /\ Len(ranges) \in Nat /\ Len(ranges) >= 1 /\ ranges \in Seq(MapEntry)
      /\ Past \in Nat /\ p \in 1 .. Len(MemMap)
  BY <1>2, MapFacts DEF MapTells, RestOfMap, Past
<1>4. /\ Len(ranges') = Len(ranges) /\ ranges'[1].base = End(b)
      /\ ranges'[1].usable = ranges[1].usable /\ ranges'[1].end = ranges[1].end
      /\ \A j \in 2 .. Len(ranges) : ranges'[j] = ranges[j]
  <2>1. ranges' = [ranges EXCEPT ![1].base = @ + Size[b.order]]
    BY <1>1 DEF AppendToplevel
  <2>2. ranges[1] \in MapEntry /\ DOMAIN ranges = 1 .. Len(ranges) /\ 1 \in 1 .. Len(ranges)
    BY <1>3, ElementOfSeq, LenProperties
  <2>3. PICK e : e = [ranges[1] EXCEPT !.base = @ + Size[b.order]]
    OBVIOUS
  <2>4. ranges' = [ranges EXCEPT ![1] = e]
    BY <2>1, <2>3
  <2>5. e \in MapEntry /\ e.base = End(b) /\ e.usable = ranges[1].usable /\ e.end = ranges[1].end
    BY <1>2, <2>2, <2>3, BlockFacts DEF MapEntry, End
  <2>6. Len(ranges') = Len(ranges) /\ ranges'[1] = e
    BY <1>3, <2>2, <2>4, <2>5, ExceptSeq
  <2>7. \A j \in 2 .. Len(ranges) : j \in 1 .. Len(ranges) /\ j # 1
    BY <1>3
  <2>. QED
    BY <2>2, <2>4, <2>5, <2>6, <2>7
<1>5. Past' = Past /\ ranges' # << >>
  <2>1. Past' = Past
    BY <1>4 DEF Past
  <2>2. ranges' # << >>
    BY <1>3, <1>4
  <2>. QED
    BY <2>1, <2>2
<1>6. RestOfMap'
  <2>1. MemMap[p].base <= End(b)
    BY <1>2, <1>3, MapFacts DEF MapTells, RestOfMap
  <2>. HIDE DEF p
  <2>. QED
    BY <1>2, <1>4, <1>5, <2>1 DEF MapTells, RestOfMap, p
<1>7. \A x \in Int : Covered(x)' <=> Covered(x) \/ (b.start <= x /\ x < End(b))
  <2>1. /\ \A i \in 1 .. n : i = n \/ i \in 1 .. Len(toplevel)
        /\ \A i \in 1 .. Len(toplevel) : i \in 1 .. n
        /\ n \in 1 .. n
    BY <1>2
  <2>2. \A i \in 1 .. Len(toplevel) : toplevel'[i].start = toplevel[i].start
                                     /\ End(toplevel'[i]) = End(toplevel[i])
    BY <1>2 DEF End
  <2>. HIDE DEF n
  <2>3. \A x \in Int : Covered(x)' <=>
          \E i \in 1 .. n : toplevel'[i].start <= x /\ x < End(toplevel'[i])
    BY <1>2 DEF Covered, End
  <2>. QED
    BY <1>2, <2>1, <2>2, <2>3 DEF Covered
<1>8. ASSUME NEW i \in 1 .. Past, MemMap[i].usable PROVE TiledEntry(MemMap[i])'
  <2>1. MemMap[i].end <= b.start /\ MemMap[i].base \in Nat /\ MemMap[i].end \in Nat
    <3>1. i \in 1 .. Len(MemMap) /\ i < p /\ MemMap[p].usable
      <4>1. MemMap[p].usable
        BY <1>2 DEF MapTells, RestOfMap
      <4>2. i \in 1 .. Len(MemMap) /\ i < p
        BY <1>3, MapFacts
      <4>. QED
        BY <4>1, <4>2
    <3>2. MemMap[i].end <= MemMap[p].base
      BY <1>3, <1>8, <3>1, MemMapAssumption
    <3>3. MemMap[p].base <= b.start
      BY <1>2 DEF MapTells, RestOfMap
    <3>. QED
      BY <1>2, <1>3, <3>1, <3>2, <3>3, MapFacts
  <2>2. \A x \in Int : x < MemMap[i].end => (Covered(x)' <=> Covered(x))
    BY <1>2, <1>7, <2>1
  <2>3. TiledEntry(MemMap[i])
    BY <1>8 DEF MapTells
  <2>4. /\ \A a \in MemMap[i].base .. MemMap[i].end - 1 : a \in Int /\ a < MemMap[i].end
        /\ \A a \in Int : \A x \in a .. MemMap[i].end - 1 : x \in Int /\ x < MemMap[i].end
    BY <2>1
  <2>. QED
    BY <2>2, <2>3, <2>4 DEF TiledEntry
<1>9. ASSUME NEW a \in MemMap[p].base .. ranges'[1].base - 1 PROVE Covered(a)'
  <2>1. /\ a \in Int /\ a < End(b)
        /\ a < b.start => a \in MemMap[p].base .. ranges[1].base - 1
    BY <1>2, <1>3, <1>4, MapFacts
  <2>2. a < b.start => Covered(a)
    BY <1>2, <2>1 DEF MapTells
  <2>. QED
    BY <1>2, <1>7, <2>1, <2>2
<1>. QED
  BY <1>5, <1>6, <1>8, <1>9 DEF MapTells

LEMMA InitMap == Init => MapTells
<1>. SUFFICES ASSUME Init PROVE MapTells
  OBVIOUS
<1>1. ranges = MemMap
  BY DEF Init
<1>2. MemMap \in Seq(MapEntry) /\ Len(MemMap) \in Nat /\ (MemMap # << >> => Len(MemMap) >= 1)
  BY MemMapAssumption, LenProperties, EmptySeq
<1>3. Past = 0
  BY <1>1, <1>2 DEF Past
<1>4. MemMap # << >> => MemMap[1].base \in Nat
  BY <1>2, MemMapTypes
<1>5. RestOfMap
  BY <1>1, <1>2, <1>3, <1>4 DEF RestOfMap
<1>. QED
  BY <1>1, <1>3, <1>4, <1>5 DEF MapTells

LEMMA NextMap == IInv /\ MapTells /\ [Next]_vars => MapTells'
<1>. SUFFICES ASSUME IInv, MapTells, [Next]_vars PROVE MapTells'
  OBVIOUS
<1>1. SkipRange \/ AppendToplevel \/ UNCHANGED << ranges, toplevel >>
  BY DEF Next, Step, InitToplevel, Refuse, Descend, BeginSplit, SplitLeft, SplitRight,
         TryRight, FailUp, NextToplevel, Take, ReturnNull, Grow, AllocPageTable, SetUpPage,
         GrowFault, StackProt, CallPalloc, vars
<1>. QED
  BY <1>1, SkipRangeTells, AppendToplevelTells, OthersKeepMap

(* ba_init covers all the usable memory of the map once, but for less than *)
(* a page at the end of an entry, whatever it has to do for its nodes.     *)
THEOREM NoPageLeftOut == Spec => []UsableTiled
<1>1. IInv /\ MapTells => UsableTiled
  <2>. SUFFICES ASSUME IInv, MapTells PROVE UsableTiled
    OBVIOUS
  <2>1. ranges = << >> => Past = Len(MemMap)
    BY MapFacts DEF Past
  <2>2. ranges = << >> => \A i \in 1 .. Len(MemMap) :
          MemMap[i].usable => TiledEntry(MemMap[i])
    BY <2>1 DEF MapTells
  <2>. QED
    BY <2>2 DEF UsableTiled, TiledEntry, IInv, ToplevelSorted
<1>. QED
  BY <1>1, InitMap, NextMap, Invariant, PTL DEF Spec

-------------------------------------------------------------------------------
(* When the trace stack of trace.c is deep enough for the search of an     *)
(* allocation, whatever the memory map and the requests.                   *)

(* At what trace depth the kernel makes a call. *)
Shallow(c) == IF c.pc = "toplevel" THEN c.depth = 3 ELSE c.depth <= 1

FirstIsShallow == calls # << >> => Shallow(calls[1])

(* A call that moves stays at the depth at which it was made.              *)
LEMMA SameDepth ==
  ASSUME NEW c, NEW d, Shallow(c), d.depth = c.depth, d.pc = "toplevel" <=> c.pc = "toplevel"
  PROVE  Shallow(d)
BY DEF Shallow

(* The latest call moves, without returning or calling.                    *)
LEMMA MovedCall ==
  ASSUME IInv, FirstIsShallow, calls # << >>, NEW c, calls' = SetNow(c),
         c.depth = Now.depth, c.pc = "toplevel" <=> Now.pc = "toplevel"
  PROVE  FirstIsShallow'
<1>1. Len(calls) \in Nat /\ Len(calls) >= 1 /\ Now = calls[Len(calls)]
  BY NowFacts DEF Now
<1>2. DOMAIN calls = 1 .. Len(calls)
  BY LenProperties DEF IInv, TypeOK
<1>3. 1 \in 1 .. Len(calls) /\ Len(calls) \in 1 .. Len(calls)
  BY <1>1
<1>4. CASE Len(calls) = 1
  <2>1. calls'[1] = c
    BY <1>2, <1>3, <1>4 DEF SetNow
  <2>. QED
    BY <1>1, <1>4, <2>1, SameDepth DEF FirstIsShallow, Shallow
<1>5. CASE Len(calls) # 1
  <2>1. calls'[1] = calls[1]
    BY <1>2, <1>3, <1>5 DEF SetNow
  <2>. QED
    BY <2>1 DEF FirstIsShallow
<1>. QED
  BY <1>4, <1>5

(* The latest call moves and calls palloc.                                 *)
LEMMA PushedCall ==
  ASSUME IInv, FirstIsShallow, calls # << >>, NEW c \in Call, NEW d \in Call,
         calls' = Append(SetNow(c), d),
         c.depth = Now.depth, c.pc = "toplevel" <=> Now.pc = "toplevel"
  PROVE  FirstIsShallow'
<1>. DEFINE s == SetNow(c)
<1>1. /\ Len(calls) \in Nat /\ Len(calls) >= 1 /\ Now = calls[Len(calls)]
      /\ s \in Seq(Call) /\ Len(s) = Len(calls) /\ s[Len(calls)] = c
      /\ \A k \in 1 .. Len(calls) : k # Len(calls) => s[k] = calls[k]
  BY SetNowFacts DEF IInv
<1>. HIDE DEF s
<1>2. calls' = Append(s, d)
  BY DEF s
<1>3. calls'[1] = s[1] /\ 1 \in 1 .. Len(calls)
  <2>1. 1 \in 1 .. Len(s)
    BY <1>1
  <2>. QED
    BY <1>1, <1>2, <2>1, AppendProperties
<1>4. CASE Len(calls) = 1
  BY <1>1, <1>3, <1>4, SameDepth DEF FirstIsShallow, Shallow
<1>5. CASE Len(calls) # 1
  BY <1>1, <1>3, <1>5 DEF FirstIsShallow
<1>. QED
  BY <1>4, <1>5

(* When palloc returns, the call that goes on is the one that was there.   *)
LEMMA ReturnedCall ==
  ASSUME IInv, FirstIsShallow, calls # << >>, NEW b, Return(b), Len(calls) <= 2 \/ Addr(b) = 0
  PROVE  FirstIsShallow'
<1>1. Len(calls) \in Nat /\ Len(calls) >= 1 /\ calls \in Seq(Call)
  BY NowFacts DEF IInv, TypeOK
<1>2. CASE calls' = << >> \/ calls' = calls
  BY <1>2 DEF FirstIsShallow
<1>3. CASE Len(calls) > 1 /\ Addr(b) # 0
  <2>0. \A i \in Nat : i > 1 /\ i <= 2 => i = 2
    OBVIOUS
  <2>1. Len(calls) = 2
    BY <1>1, <1>3, <2>0
  <2>2. calls[1] \in Call
    BY <1>1, <2>1, ElementOfSeq
  <2>3. PICK c \in Call : c = calls[1]
    BY <2>2
  <2>4. \/ \E m \in 0 .. PageTableLevels :
            calls' = Append(SubSeq(calls, 1, 0),
                            [c EXCEPT !.grow = "map", !.page = b, !.missing = m])
        \/ calls' = Append(SubSeq(calls, 1, 0), [c EXCEPT !.missing = @ - 1])
    <3>1. /\ Len(calls) # 1 /\ Len(calls) > 1 /\ Addr(b) # 0
          /\ Len(calls) - 1 = 1 /\ Len(calls) - 2 = 0
      BY <1>3, <2>1
    <3>. QED
      BY <2>3, <3>1 DEF Return
  <2>5. SubSeq(calls, 1, 0) = << >>
    BY <1>1, SubSeqProperties, EmptySeq, LenProperties
  <2>6. Shallow(c)
    BY <2>3 DEF FirstIsShallow
  <2>7. ASSUME NEW d, calls' = Append(<< >>, d), d.depth = c.depth, d.pc = c.pc
        PROVE  FirstIsShallow'
    <3>1. calls'[1] = d
      BY <2>7, AppendToEmpty
    <3>2. Shallow(d)
      BY <2>6, <2>7, SameDepth
    <3>. QED
      BY <3>1, <3>2 DEF FirstIsShallow
  <2>8. ASSUME NEW m \in 0 .. PageTableLevels,
               calls' = Append(SubSeq(calls, 1, 0),
                               [c EXCEPT !.grow = "map", !.page = b, !.missing = m])
        PROVE  FirstIsShallow'
    <3>. DEFINE d == [c EXCEPT !.grow = "map", !.page = b, !.missing = m]
    <3>1. calls' = Append(<< >>, d) /\ d.depth = c.depth /\ d.pc = c.pc
      BY <2>5, <2>8 DEF Call
    <3>. HIDE DEF d
    <3>2. ASSUME NEW e, e = d PROVE FirstIsShallow'
      BY <2>7, <3>1, <3>2
    <3>. QED
      BY <3>2
  <2>9. ASSUME calls' = Append(SubSeq(calls, 1, 0), [c EXCEPT !.missing = @ - 1])
        PROVE  FirstIsShallow'
    <3>. DEFINE d == [c EXCEPT !.missing = @ - 1]
    <3>1. calls' = Append(<< >>, d) /\ d.depth = c.depth /\ d.pc = c.pc
      BY <2>5, <2>9 DEF Call
    <3>. HIDE DEF d
    <3>. QED
      BY <2>7, <3>1
  <2>. QED
    BY <2>4, <2>8, <2>9
<1>4. calls' = << >> \/ calls' = calls \/ (Len(calls) > 1 /\ Addr(b) # 0)
  BY DEF Return
<1>. QED
  BY <1>2, <1>3, <1>4

(* A call of palloc starts at the depth of its caller.                     *)
LEMMA PallocDepth ==
  ASSUME NEW size, NEW depth
  PROVE  Palloc(size, depth).depth = depth /\ Palloc(size, depth).pc # "toplevel"
BY DEF Palloc, Reach

(* Every step leaves the first call at a depth at which the kernel calls.  *)
LEMMA ShallowStep == IInv /\ FirstIsShallow /\ [Next]_vars => FirstIsShallow'
<1>. SUFFICES ASSUME IInv, FirstIsShallow, [Next]_vars PROVE FirstIsShallow'
  OBVIOUS
<1>1. CASE calls' = calls \/ calls' = << >>
  BY <1>1 DEF FirstIsShallow
<1>2. CASE \E size \in Requests : CallPalloc(size)
  <2>1. PICK size \in Requests, depth \in {0, 1} : calls' = << Palloc(size, depth) >>
    BY <1>2 DEF CallPalloc
  <2>2. calls'[1] = Palloc(size, depth) /\ depth <= 1
    BY <2>1
  <2>. QED
    BY <2>2, PallocDepth DEF FirstIsShallow, Shallow
<1>3. CASE InitToplevel
  <2>1. calls'[1].depth = 3 /\ calls'[1].pc = "toplevel"
    BY <1>3 DEF InitToplevel
  <2>. QED
    BY <2>1 DEF FirstIsShallow, Shallow
<1>4. calls # << >> => Now \in Call
  BY NowFacts
<1>5. CASE Refuse \/ Descend \/ BeginSplit
  <2>1. /\ calls # << >> /\ Now.pc = "visit"
        /\ \/ calls' = SetNow([Now EXCEPT !.pc = "fail"])
           \/ calls' = SetNow([Now EXCEPT !.at = Left(Now.at)])
           \/ calls' = SetNow([Now EXCEPT !.pc = "left"])
    BY <1>5 DEF Refuse, Descend, BeginSplit, Visiting, Running
  <2>. QED
    BY <1>4, <2>1, MovedCall DEF Call
<1>6. CASE SplitLeft \/ SplitRight
  <2>1. /\ calls # << >> /\ Now.pc \in {"left", "right"}
        /\ \/ calls' = SetNow([Now EXCEPT !.pc = "right"])
           \/ calls' = SetNow([Now EXCEPT !.at = Left(Now.at), !.pc = "visit"])
    BY <1>6 DEF SplitLeft, SplitRight, Running
  <2>. QED
    BY <1>4, <2>1, MovedCall DEF Call
<1>7. CASE TryRight \/ FailUp \/ NextToplevel
  <2>1. /\ calls # << >> /\ Now.pc = "fail"
        /\ \/ calls' = SetNow([Now EXCEPT !.at = Right(tree[Now.at].parent), !.pc = "visit"])
           \/ calls' = SetNow([Now EXCEPT !.at = tree[Now.at].parent])
           \/ calls' = SetNow(Reach(Now, Now.top + 1))
    BY <1>7 DEF TryRight, FailUp, NextToplevel, Failing, Running
  <2>2. /\ Reach(Now, Now.top + 1).depth = Now.depth
        /\ Reach(Now, Now.top + 1).pc # "toplevel"
    BY <1>4, <2>1 DEF Reach, Call
  <2>. QED
    BY <1>4, <2>1, <2>2, MovedCall DEF Call
<1>8. CASE SetUpPage
  <2>1. calls # << >> /\ calls' = SetNow([Now EXCEPT !.grow = "no"])
    BY <1>8 DEF SetUpPage, Running
  <2>. QED
    BY <1>4, <2>1, MovedCall DEF Call
<1>9. CASE Take
  <2>1. calls # << >> /\ Len(calls) <= 2 /\ Return(Now.at)
    BY <1>9, TakeFacts DEF Take
  <2>. QED
    BY <2>1, ReturnedCall
<1>10. CASE ReturnNull
  <2>1. calls # << >> /\ Return(NoBlock) /\ Addr(NoBlock) = 0
    BY <1>10 DEF ReturnNull, Running, Addr, NoBlock
  <2>. QED
    BY <2>1, ReturnedCall
<1>11. CASE Grow
  <2>. DEFINE c == [Now EXCEPT !.grow = "page"]
              d == Palloc(Size[MinOrder], Depth(Now) + 1)
  <2>1. calls # << >> /\ calls' = Append(SetNow(c), d)
    BY <1>11 DEF Grow, Running
  <2>2. c \in Call /\ c.depth = Now.depth /\ c.pc = Now.pc
    BY <1>4, <2>1 DEF Call
  <2>3. pool = 0 /\ Size[MinOrder] \in Nat /\ Depth(Now) + 1 \in Nat
    BY <1>11, <2>1, DepthNat, SizeFacts DEF Grow, Orders
  <2>4. d \in Call
    BY <2>3, PallocOK
  <2>. HIDE DEF c, d
  <2>. QED
    BY <2>1, <2>2, <2>4, PushedCall
<1>12. CASE AllocPageTable
  <2>. DEFINE d == Palloc(Size[MinOrder], Depth(Now) + 2)
  <2>1. calls # << >> /\ calls' = Append(calls, d)
    BY <1>12 DEF AllocPageTable, Running
  <2>2. /\ calls \in Seq(Call) /\ Len(calls) \in Nat /\ Len(calls) >= 1
    BY <2>1, NowFacts DEF IInv, TypeOK
  <2>3. 1 \in 1 .. Len(calls)
    BY <2>2
  <2>. HIDE DEF d
  <2>4. calls'[1] = calls[1]
    BY <2>1, <2>2, <2>3, AppendProperties
  <2>. QED
    BY <2>1, <2>4 DEF FirstIsShallow
<1>13. CASE SkipRange \/ AppendToplevel \/ GrowFault \/ StackProt \/ UNCHANGED vars
  BY <1>1, <1>13 DEF SkipRange, AppendToplevel, GrowFault, StackProt, vars
<1>. QED
  BY <1>2, <1>3, <1>5, <1>6, <1>7, <1>8, <1>9, <1>10, <1>11, <1>12, <1>13 DEF Next, Step

(* With nodes in the pool there is a single call, and it is not too deep.  *)
LEMMA DeepEnough ==
  ASSUME IInv, FirstIsShallow, MaxStackDepth >= MaxOrder - MinOrder + 5,
         calls # << >>, pool # 0
  PROVE  Depth(Now) <= MaxStackDepth
<1>1. /\ Now \in Call /\ CallOK(Now, Len(calls)) /\ Len(calls) = 1
  BY NowFacts
<1>2. Now = calls[1] /\ Shallow(Now)
  BY <1>1 DEF FirstIsShallow, Now
<1>3. /\ Now.depth \in Nat
      /\ Now.pc \in {"visit", "fail", "none", "left", "right", "toplevel"}
  BY <1>1, CallFields
<1>4. MaxOrder \in Nat /\ MinOrder \in Nat /\ MinOrder <= MaxOrder /\ MaxStackDepth \in Nat
  BY SizeFacts, LimitAssumption
<1>5. ASSUME Searching(Now)
      PROVE  /\ Now.at.order \in Nat /\ toplevel[Now.top].order \in Nat
             /\ MinOrder <= Now.at.order /\ toplevel[Now.top].order <= MaxOrder
             /\ Splitting(Now) => Now.at.order > MinOrder
  <2>1. /\ Now.at \in Block /\ toplevel[Now.top] \in Block
        /\ Splitting(Now) => Now.at.order > MinOrder
    BY <1>1, <1>5, NowFacts, ToplevelFacts DEF CallOK
  <2>. QED
    BY <1>4, <2>1 DEF Block, Orders
<1>6. CASE Now.pc \in {"toplevel", "none"}
  <2>1. Depth(Now) = Now.depth + 2 /\ Now.depth <= 3
    BY <1>2, <1>3, <1>6 DEF Depth, Shallow
  <2>. QED
    BY <1>3, <1>4, <2>1
<1>7. CASE Now.pc \in {"visit", "fail"}
  <2>1. /\ Depth(Now) = Now.depth + 3 + toplevel[Now.top].order - Now.at.order
        /\ Now.depth <= 1
    BY <1>2, <1>7 DEF Depth, Shallow
  <2>2. /\ Now.at.order \in Nat /\ toplevel[Now.top].order \in Nat
        /\ MinOrder <= Now.at.order /\ toplevel[Now.top].order <= MaxOrder
    BY <1>5, <1>7 DEF Searching
  <2>3. \A d, t, o \in Nat : d <= 1 /\ t <= MaxOrder /\ MinOrder <= o
                              => d + 3 + t - o <= MaxStackDepth
    BY <1>4
  <2>. QED
    BY <1>3, <2>1, <2>2, <2>3
<1>8. CASE Now.pc \in {"left", "right"}
  <2>1. /\ Depth(Now) = Now.depth + 5 + toplevel[Now.top].order - Now.at.order
        /\ Now.depth <= 1
    BY <1>2, <1>8 DEF Depth, Shallow
  <2>2. /\ Now.at.order \in Nat /\ toplevel[Now.top].order \in Nat
        /\ MinOrder <= Now.at.order /\ toplevel[Now.top].order <= MaxOrder
        /\ Now.at.order > MinOrder
    BY <1>5, <1>8 DEF Searching, Splitting
  <2>3. \A d, t, o \in Nat : d <= 1 /\ t <= MaxOrder /\ MinOrder < o
                              => d + 5 + t - o <= MaxStackDepth
    BY <1>4
  <2>. QED
    BY <1>3, <2>1, <2>2, <2>3
<1>. QED
  BY <1>3, <1>6, <1>7, <1>8

(* With the 32 levels of trace.h for orders 12 to 34, as with any stack    *)
(* that is 5 levels deeper than there are orders, _stackprot never stops   *)
(* palloc, or ba_init, as long as ba_new_block finds nodes in the pool.    *)
THEOREM StackIsDeepEnough ==
  ASSUME MaxStackDepth >= MaxOrder - MinOrder + 5
  PROVE  Spec => []OverflowNeedsEmptyPool
<1>1. Init => FirstIsShallow /\ OverflowNeedsEmptyPool
  BY DEF Init, FirstIsShallow, OverflowNeedsEmptyPool
<1>2. IInv /\ FirstIsShallow /\ OverflowNeedsEmptyPool /\ [Next]_vars
        => OverflowNeedsEmptyPool'
  <2>. SUFFICES ASSUME IInv, FirstIsShallow, OverflowNeedsEmptyPool, [Next]_vars,
                       status' = "overflow"
                PROVE  pool' = 0
    BY DEF OverflowNeedsEmptyPool
  <2>1. CASE StackProt
    <3>1. /\ calls # << >> /\ Depth(Now) > MaxStackDepth /\ pool' = pool
      BY <2>1 DEF StackProt
    <3>2. Depth(Now) \in Nat /\ MaxStackDepth \in Nat
      BY <3>1, DepthNat, LimitAssumption
    <3>. QED
      BY <3>1, <3>2, DeepEnough
  <2>2. CASE UNCHANGED vars
    BY <2>2 DEF vars, OverflowNeedsEmptyPool
  <2>3. CASE Next /\ ~StackProt
    BY <2>3 DEF Next, Step, CallPalloc, SkipRange, InitToplevel, AppendToplevel, Refuse,
       Descend, BeginSplit, SplitLeft, SplitRight, TryRight, FailUp, NextToplevel, Take,
       ReturnNull, Return, Grow, AllocPageTable, SetUpPage, GrowFault, Visiting, Failing,
       Running, Idle
  <2>. QED
    BY <2>1, <2>2, <2>3
<1>. QED
  BY <1>1, <1>2, Invariant, ShallowStep, PTL DEF Spec
===============================================================================
