---------------------- MODULE BuddyAllocRefinementProofs ----------------------
(***************************************************************************)
(* palloc does what FrameAllocator promises, for every memory map, request *)
(* and stack depth: what it hands out is a piece of a toplevel block that  *)
(* nothing else has, and when it returns null no such piece is large       *)
(* enough.                                                                 *)
(*                                                                         *)
(* The tree of a toplevel block knows only some of its pieces.  The        *)
(* invariant says that this is no loss: a piece that is not a node of the  *)
(* tree lies in a leaf, which is free if the piece is, and one that is     *)
(* split has something in use inside it, or a search in progress has just  *)
(* split it and is about to take what it is looking at.                    *)
(*                                                                         *)
(* The last part is about the nodes of the pool, of which there is one for *)
(* each piece.                                                             *)
(***************************************************************************)
EXTENDS BuddyAllocProofs, Induction

-------------------------------------------------------------------------------
(* Numbers.                                                                *)

(* Multiples of s are in the order of their factors.                       *)
LEMMA Multiples ==
  ASSUME NEW a \in Nat, NEW b \in Nat, NEW s \in Nat \ {0}
  PROVE  /\ a * s \in Nat /\ (a + 1) * s = a * s + s
         /\ a < b => (a + 1) * s <= b * s
         /\ a * s < b * s => a < b
<1>1. ASSUME NEW i \in Nat, NEW j \in Nat, i <= j PROVE i * s <= j * s
  <2>1. PICK d \in Nat : j = i + d
    BY <1>1, j - i \in Nat
  <2>2. d * s \in Nat
    OBVIOUS
  <2>. QED
    BY <2>1, <2>2
<1>. QED
  BY <1>1

(* How often s goes into a multiple of it, and into what is less.          *)
LEMMA Quotients ==
  ASSUME NEW m \in Nat, NEW s \in Nat \ {0}
  PROVE  (m * s) \div s = m /\ (m < s => m \div s = 0)
OBVIOUS

(* A size divides those of all larger orders.                              *)
LEMMA SizesDivide ==
  ASSUME NEW o \in Orders, NEW p \in Orders, o <= p
  PROVE  \E m \in Nat : Size[p] = m * Size[o]
<1>. DEFINE Divides(q) == \E m \in Nat : Size[q] = m * Size[o]
            T == { q \in Nat : q \in Orders /\ o <= q /\ ~Divides(q) }
<1>. SUFFICES ASSUME p \in T PROVE FALSE
  BY SizeFacts DEF Orders
<1>1. PICK q \in T : \A r \in T : q <= r
  <2>. HIDE DEF T
  <2>1. T \subseteq Nat
    BY DEF T
  <2>. QED
    BY <2>1, Least
<1>2. o \in Nat /\ Size[o] \in Nat
  BY SizeFacts DEF Orders
<1>3. q # o
  BY <1>2, Size[o] = 1 * Size[o]
<1>4. /\ q - 1 \in Nat /\ q - 1 \in Orders /\ o <= q - 1 /\ q - 1 \notin T
      /\ Size[q] = 2 * Size[q - 1]
  BY <1>1, <1>2, <1>3, SizeFacts DEF Orders
<1>5. PICK m \in Nat : Size[q - 1] = m * Size[o]
  BY <1>4
<1>6. Size[q] = (2 * m) * Size[o] /\ 2 * m \in Nat
  BY <1>2, <1>4, <1>5
<1>. QED
  BY <1>6

-------------------------------------------------------------------------------
(* Pieces of a zone.                                                       *)

(* A piece begins at a multiple of its size and lies in the zone.          *)
LEMMA PieceFacts ==
  ASSUME NEW z \in Block, NEW o \in Orders, NEW p \in Promise!Pieces(z, o)
  PROVE  /\ p \in Block /\ p.order = o /\ o <= z.order /\ Inside(p, z)
         /\ \E n \in Nat : p.start = z.start + n * Size[o]
<1>1. /\ z.start \in Nat /\ z.order \in Orders /\ z.order \in Nat
      /\ o \in Nat /\ Size[o] \in Nat \ {0} /\ Size[z.order] \in Nat \ {0}
      /\ End(z) = z.start + Size[z.order]
  BY BlockFacts, SizeFacts DEF Orders
<1>2. PICK n \in 0 .. (Size[z.order] \div Size[o]) - 1 :
        p = [start |-> z.start + n * Size[o], order |-> o]
  BY DEF Promise!Pieces
<1>3. o <= z.order
  <2>. SUFFICES ASSUME z.order < o PROVE FALSE
    BY <1>1
  <2>1. Size[z.order] < Size[o]
    BY <1>1, SizeFacts
  <2>2. Size[z.order] \div Size[o] = 0
    BY <1>1, <2>1, Quotients
  <2>. QED
    BY <1>2, <2>2
<1>4. PICK m \in Nat : Size[z.order] = m * Size[o]
  BY <1>1, <1>3, SizesDivide
<1>5. n \in Nat /\ n < m
  <2>1. Size[z.order] \div Size[o] = m
    BY <1>1, <1>4, Quotients
  <2>. QED
    BY <1>2, <2>1
<1>6. n * Size[o] \in Nat /\ n * Size[o] + Size[o] <= Size[z.order]
  BY <1>1, <1>4, <1>5, Multiples
<1>7. /\ p.start = z.start + n * Size[o] /\ p.order = o /\ p \in Block
  BY <1>1, <1>2, <1>6 DEF Block
<1>8. End(p) = p.start + Size[o]
  BY <1>7 DEF End
<1>9. Inside(p, z)
  BY <1>1, <1>6, <1>7, <1>8 DEF Inside
<1>. QED
  BY <1>3, <1>5, <1>7, <1>9

(* ... and every block of which that is true is a piece.                   *)
LEMMA PieceFrom ==
  ASSUME NEW z \in Block, NEW p \in Block, Inside(p, z),
         NEW n \in Nat, p.start = z.start + n * Size[p.order]
  PROVE  p \in Promise!Pieces(z, p.order)
<1>. DEFINE s == Size[p.order]
<1>1. /\ z.start \in Nat /\ z.order \in Orders /\ z.order \in Nat
      /\ p.order \in Orders /\ p.order \in Nat /\ p.start \in Nat
      /\ s \in Nat \ {0} /\ Size[z.order] \in Nat \ {0}
      /\ End(z) = z.start + Size[z.order] /\ End(p) = p.start + s
  BY BlockFacts
<1>2. p.order <= z.order
  BY <1>1, InsideOrder
<1>3. PICK m \in Nat : Size[z.order] = m * s
  BY <1>1, <1>2, SizesDivide
<1>4. Size[z.order] \div s = m
  BY <1>1, <1>3, Quotients
<1>5. n < m
  <2>1. n * s \in Nat /\ m * s \in Nat
    BY <1>1, Multiples
  <2>2. n * s < m * s
    BY <1>1, <1>3, <2>1 DEF Inside
  <2>. QED
    BY <1>1, <2>2, Multiples
<1>6. n \in 0 .. (Size[z.order] \div s) - 1
  BY <1>4, <1>5
<1>7. p = [start |-> z.start + n * s, order |-> p.order]
  BY DEF Block
<1>. QED
  BY <1>6, <1>7 DEF Promise!Pieces

(* A zone is a piece of itself.                                            *)
LEMMA WholePiece ==
  ASSUME NEW z \in Block
  PROVE  z \in Promise!Pieces(z, z.order)
<1>1. Inside(z, z) /\ z.start = z.start + 0 * Size[z.order]
  BY BlockFacts DEF Inside
<1>. QED
  BY <1>1, PieceFrom

(* The halves of a piece are pieces.                                       *)
LEMMA HalvesArePieces ==
  ASSUME NEW z \in Block, NEW b \in Block, b.order > MinOrder,
         b \in Promise!Pieces(z, b.order)
  PROVE  /\ Left(b) \in Promise!Pieces(z, Left(b).order)
         /\ Right(b) \in Promise!Pieces(z, Right(b).order)
<1>. DEFINE h == Size[b.order - 1]
<1>1. /\ b.order \in Orders /\ z.start \in Nat /\ b.start \in Nat
      /\ h \in Nat \ {0} /\ Size[b.order] = 2 * h
  BY BlockFacts, SizeFacts
<1>2. PICK n \in Nat : b.start = z.start + n * Size[b.order]
  BY <1>1, PieceFacts
<1>3. /\ b.start = z.start + (2 * n) * h
      /\ b.start + h = z.start + (2 * n + 1) * h
  BY <1>1, <1>2
<1>4. /\ Left(b) \in Block /\ Right(b) \in Block
      /\ Left(b).order = b.order - 1 /\ Right(b).order = b.order - 1
      /\ Left(b).start = b.start /\ Right(b).start = b.start + h
      /\ Inside(Left(b), b) /\ Inside(Right(b), b)
  <2>1. Right(b).start = b.start + h
    BY DEF Right
  <2>. QED
    BY <2>1, HalfFacts, BlockFacts DEF Inside
<1>5. Inside(Left(b), z) /\ Inside(Right(b), z)
  <2>1. Inside(b, z)
    BY <1>1, PieceFacts
  <2>. QED
    BY <1>4, <2>1, BlockFacts DEF Inside
<1>6. 2 * n \in Nat /\ 2 * n + 1 \in Nat
  OBVIOUS
<1>. QED
  BY <1>3, <1>4, <1>5, <1>6, PieceFrom

(* A smaller piece inside another is inside one of its halves.             *)
LEMMA PieceInHalf ==
  ASSUME NEW z \in Block, NEW b \in Block, NEW p \in Block, b.order > MinOrder,
         b \in Promise!Pieces(z, b.order), p \in Promise!Pieces(z, p.order),
         Inside(p, b), p # b
  PROVE  Inside(p, Left(b)) \/ Inside(p, Right(b))
<1>. DEFINE h == Size[b.order - 1]
            s == Size[p.order]
<1>1. /\ b.order \in Orders /\ b.order \in Nat /\ z.start \in Nat /\ b.start \in Nat
      /\ p.order \in Orders /\ p.order \in Nat /\ p.start \in Nat
      /\ h \in Nat \ {0} /\ s \in Nat \ {0} /\ Size[b.order] = 2 * h
      /\ End(p) = p.start + s /\ End(b) = b.start + 2 * h
      /\ b.start <= p.start /\ End(p) <= End(b)
  BY BlockFacts, SizeFacts DEF Inside
<1>2. p.order <= b.order - 1 /\ b.order - 1 \in Orders
  <2>1. p.order <= b.order
    BY <1>1, InsideOrder
  <2>2. p.order # b.order
    <3>1. ASSUME p.order = b.order PROVE p.start = b.start
      BY <1>1, <3>1
    <3>. QED
      BY <3>1, BlockFacts
  <2>3. MinOrder \in Nat /\ MaxOrder \in Nat
    BY SizeFacts
  <2>. HIDE DEF h, s
  <2>. QED
    BY <1>1, <2>1, <2>2, <2>3 DEF Orders
<1>3. PICK k \in Nat : h = k * s
  BY <1>1, <1>2, SizesDivide
<1>4. PICK n \in Nat : b.start = z.start + n * Size[b.order]
  BY <1>1, PieceFacts
<1>5. PICK i \in Nat : p.start = z.start + i * s
  BY <1>1, PieceFacts
<1>. DEFINE x == (2 * n + 1) * k
<1>6. x \in Nat /\ b.start + h = z.start + x * s
  <2>1. n * (2 * h) + h = (2 * n + 1) * h
    BY <1>1
  <2>2. (2 * n + 1) * (k * s) = ((2 * n + 1) * k) * s
    BY <1>1
  <2>. QED
    BY <1>1, <1>3, <1>4, <2>1, <2>2
<1>7. /\ Left(b).start = b.start /\ Right(b).start = b.start + h
      /\ End(Left(b)) = b.start + h /\ End(Right(b)) = End(b)
  <2>1. Right(b).start = b.start + h
    BY DEF Right
  <2>. QED
    BY <2>1, HalfFacts
<1>. HIDE DEF x, h, s
<1>8. i * s \in Nat /\ x * s \in Nat /\ (i < x => i * s + s <= x * s)
      /\ (i * s < x * s => i < x)
  BY <1>1, <1>6, Multiples
<1>9. CASE i * s < x * s
  <2>1. i * s + s <= x * s
    BY <1>8, <1>9
  <2>2. End(p) <= b.start + h
    BY <1>1, <1>5, <1>6, <1>8, <2>1
  <2>. QED
    BY <1>1, <1>7, <2>2 DEF Inside
<1>10. CASE x * s <= i * s
  <2>1. b.start + h <= p.start
    BY <1>1, <1>5, <1>6, <1>8, <1>10
  <2>. QED
    BY <1>1, <1>7, <2>1 DEF Inside
<1>. QED
  BY <1>8, <1>9, <1>10

-------------------------------------------------------------------------------
(* The invariant.                                                          *)

(* Every block is a piece of a toplevel block.                             *)
InPieces ==
  \A b \in Live : \E i \in 1 .. Len(toplevel) : b \in Promise!Pieces(toplevel[i], b.order)

(* Every piece of a toplevel block is a block or lies in a leaf.           *)
Tiled ==
  \A i \in 1 .. Len(toplevel) : \A o \in Orders : \A p \in Promise!Pieces(toplevel[i], o) :
    \E b \in Live : Inside(p, b) /\ (p = b \/ ~tree[b].split)

FullAreSplit == \A b \in Live : "UNAVAILABLE" \in tree[b].flags => tree[b].split

(* c is at a free leaf that is large enough: it will end inside that leaf. *)
Sought(c) ==
  c.pc \in {"visit", "left", "right"} /\ c.at \in FreeLeaves /\ Fits(c.at, c.size)

Targets == { calls[k].at : k \in { k \in 1 .. Len(calls) : Sought(calls[k]) } }

(* No block is split for nothing.                                          *)
SplitsInUse ==
  \A b \in Live : tree[b].split => \E c \in Used \cup Targets : Inside(c, b)

(* c is a request that is made of palloc, and splits no more than it must. *)
Asked(c) ==
  /\ c.pc # "toplevel" => c.size \in Requests \cup {Size[MinOrder]}
  /\ Splitting(c) => Size[c.at.order - 1] >= c.size

AllAsked == \A k \in 1 .. Len(calls) : Asked(calls[k])

TreesTell == InPieces /\ Tiled /\ FullAreSplit /\ SplitsInUse /\ AllAsked

-------------------------------------------------------------------------------
(* Steps that leave the blocks alone.                                      *)

(* They preserve the invariant when no call gives up what it has found.    *)
LEMMA KeptTargets ==
  ASSUME TreesTell, UNCHANGED << toplevel, tree >>, AllAsked',
         \A k \in 1 .. Len(calls) : Sought(calls[k]) =>
           k \in 1 .. Len(calls') /\ calls'[k].at = calls[k].at /\ Sought(calls'[k])
  PROVE  TreesTell'
<1>1. Live' = Live /\ Used' = Used /\ FreeLeaves' = FreeLeaves
  BY DEF Live, Used, FreeLeaves, CanAllocate, CanAllocateIn
<1>2. Targets \subseteq Targets'
  <2>1. ASSUME NEW k \in 1 .. Len(calls), Sought(calls[k])
        PROVE  calls[k].at \in Targets'
    BY <1>1, <2>1 DEF Targets, Sought
  <2>. QED
    BY <2>1 DEF Targets
<1>3. SplitsInUse'
  BY <1>1, <1>2 DEF TreesTell, SplitsInUse
<1>4. InPieces' /\ Tiled' /\ FullAreSplit'
  BY <1>1 DEF TreesTell, InPieces, Tiled, FullAreSplit
<1>. QED
  BY <1>3, <1>4 DEF TreesTell

(* The latest call moves.                                                  *)
LEMMA MoveTells ==
  ASSUME IInv, TreesTell, calls # << >>, UNCHANGED << toplevel, tree >>,
         NEW c \in Call, calls' = SetNow(c), Asked(c),
         Sought(Now) => Sought(c) /\ c.at = Now.at
  PROVE  TreesTell'
<1>1. /\ Len(calls) \in Nat /\ Len(calls) >= 1 /\ Now = calls[Len(calls)]
      /\ Len(calls') = Len(calls) /\ calls'[Len(calls)] = c
      /\ \A k \in 1 .. Len(calls) : k # Len(calls) => calls'[k] = calls[k]
  BY SetNowFacts DEF IInv
<1>2. AllAsked'
  BY <1>1 DEF TreesTell, AllAsked, Asked, Splitting
<1>. QED
  BY <1>1, <1>2, KeptTargets

(* The latest call moves and makes another.                                *)
LEMMA CallTells ==
  ASSUME IInv, TreesTell, calls # << >>, UNCHANGED << toplevel, tree >>,
         NEW c \in Call, NEW d \in Call, calls' = Append(SetNow(c), d), Asked(c), Asked(d),
         Sought(Now) => Sought(c) /\ c.at = Now.at
  PROVE  TreesTell'
<1>. DEFINE s == SetNow(c)
<1>1. /\ Len(calls) \in Nat /\ Len(calls) >= 1 /\ Now = calls[Len(calls)]
      /\ s \in Seq(Call) /\ Len(s) = Len(calls) /\ s[Len(calls)] = c
      /\ \A k \in 1 .. Len(calls) : k # Len(calls) => s[k] = calls[k]
  BY SetNowFacts DEF IInv
<1>. HIDE DEF s
<1>2. calls' = Append(s, d)
  BY DEF s
<1>3. /\ Len(calls') = Len(calls) + 1 /\ calls'[Len(calls) + 1] = d
      /\ \A k \in 1 .. Len(calls) : calls'[k] = s[k]
  BY <1>1, <1>2, AppendProperties
<1>4. AllAsked'
  <2>1. \A k \in 1 .. Len(calls) : Asked(calls'[k])
    BY <1>1, <1>3 DEF TreesTell, AllAsked
  <2>2. Asked(calls'[Len(calls) + 1])
    BY <1>3
  <2>3. \A k \in 1 .. Len(calls') : k \in 1 .. Len(calls) \/ k = Len(calls) + 1
    BY <1>1, <1>3
  <2>. QED
    BY <2>1, <2>2, <2>3 DEF AllAsked, Asked, Splitting
<1>5. \A k \in 1 .. Len(calls) : k \in 1 .. Len(calls')
  BY <1>1, <1>3
<1>. QED
  BY <1>1, <1>3, <1>4, <1>5, KeptTargets

(* A new call of palloc.                                                   *)
LEMMA PallocAsks ==
  ASSUME NEW size \in Requests \cup {Size[MinOrder]}, NEW depth
  PROVE  Asked(Palloc(size, depth))
BY DEF Asked, Splitting, Palloc, Reach

(* The latest call is a request like the others.                           *)
LEMMA NowAsked ==
  ASSUME IInv, TreesTell, calls # << >>
  PROVE  /\ Now \in Call /\ Asked(Now)
         /\ Now.pc # "toplevel" => Now.size \in Requests \cup {Size[MinOrder]}
<1>1. Now \in Call /\ Len(calls) \in 1 .. Len(calls)
  BY NowFacts
<1>. QED
  BY <1>1 DEF TreesTell, AllAsked, Asked, Now

(* The search gives up only what is of no use to it.                       *)
LEMMA SearchTells ==
  ASSUME IInv, TreesTell, Refuse \/ Descend \/ BeginSplit \/ TryRight \/ FailUp \/ NextToplevel
  PROVE  TreesTell'
<1>1. calls # << >> /\ UNCHANGED << toplevel, tree >>
  BY DEF Refuse, Descend, BeginSplit, TryRight, FailUp, NextToplevel, Visiting, Failing, Running
<1>2. Now \in Call /\ Asked(Now) /\ CallOK(Now, Len(calls))
  BY <1>1, NowAsked, NowFacts
<1>3. CASE Refuse
  <2>1. calls' = SetNow([Now EXCEPT !.pc = "fail"]) /\ Now.pc = "visit" /\ ~Sought(Now)
    BY <1>3 DEF Refuse, Visiting, Sought, FreeLeaves, CanAllocate
  <2>2. [Now EXCEPT !.pc = "fail"] \in Call /\ Asked([Now EXCEPT !.pc = "fail"])
    BY <1>2, <2>1 DEF Call, Asked, Splitting
  <2>. QED
    BY <1>1, <2>1, <2>2, MoveTells
<1>4. CASE Descend
  <2>. DEFINE c == [Now EXCEPT !.at = Left(Now.at)]
  <2>1. calls' = SetNow(c) /\ Now.pc = "visit" /\ tree[Now.at].split
    BY <1>4 DEF Descend, Visiting
  <2>2. ~Sought(Now)
    BY <2>1 DEF Sought, FreeLeaves, CanAllocate
  <2>3. Now.at \in Block /\ Now.at.order > MinOrder
    BY <1>2, <2>1 DEF CallOK, Searching, IInv, TypeOK, TreeInv, ChildrenLinked
  <2>4. c \in Call
    BY <1>2, <2>3, HalfFacts DEF Call
  <2>5. Asked(c)
    BY <1>2, <2>1 DEF Call, Asked, Splitting
  <2>. HIDE DEF c
  <2>. QED
    BY <1>1, <2>1, <2>2, <2>4, <2>5, MoveTells
<1>5. CASE BeginSplit
  <2>. DEFINE c == [Now EXCEPT !.pc = "left"]
  <2>1. calls' = SetNow(c) /\ Now.pc = "visit" /\ ~Snug(Now.at.order, Now.size)
    BY <1>5 DEF BeginSplit, Visiting
  <2>2. c \in Call /\ c.pc = "left" /\ c.at = Now.at /\ c.size = Now.size
    BY <1>2 DEF Call
  <2>3. Size[Now.at.order - 1] >= Now.size
    <3>1. Now.at \in Block /\ Now.size \in Nat
      BY <1>2, <2>1 DEF CallOK, Searching, IInv, TypeOK, Call
    <3>2. Size[Now.at.order - 1] \in Nat
      BY <3>1, BlockFacts, SizeFacts
    <3>. QED
      BY <2>1, <3>1, <3>2 DEF Snug
  <2>4. Asked(c)
    BY <1>2, <2>1, <2>2, <2>3 DEF Asked
  <2>5. Sought(Now) => Sought(c) /\ c.at = Now.at
    BY <2>2 DEF Sought
  <2>. HIDE DEF c
  <2>. QED
    BY <1>1, <2>1, <2>2, <2>4, <2>5, MoveTells
<1>6. CASE TryRight \/ FailUp \/ NextToplevel
  <2>1. Now.pc = "fail" /\ ~Sought(Now)
    BY <1>6 DEF TryRight, FailUp, NextToplevel, Failing, Sought
  <2>2. ASSUME NEW c \in Call, calls' = SetNow(c), c.pc \in {"visit", "fail", "none"},
               c.size = Now.size
        PROVE  TreesTell'
    <3>1. Asked(c)
      BY <1>2, <2>1, <2>2 DEF Asked, Splitting
    <3>. QED
      BY <1>1, <2>1, <2>2, <3>1, MoveTells
  <2>3. CASE NextToplevel
    <3>. DEFINE c == Reach(Now, Now.top + 1)
    <3>1. c \in Call
      <4>1. Now.top + 1 \in Nat
        BY <1>2 DEF Call
      <4>. QED
        BY <1>2, <4>1, ToplevelFacts DEF Reach, Call
    <3>2. calls' = SetNow(c) /\ c.pc \in {"visit", "none"} /\ c.size = Now.size
      BY <1>2, <2>3 DEF NextToplevel, Reach, Call
    <3>. HIDE DEF c
    <3>. QED
      BY <2>2, <3>1, <3>2
  <2>4. CASE TryRight
    <3>. DEFINE c == [Now EXCEPT !.at = Right(tree[Now.at].parent), !.pc = "visit"]
    <3>1. Right(tree[Now.at].parent) \in Block
      BY <1>2, <2>1, <2>4, ParentFacts
         DEF TryRight, Failing, IsLeftChild, CallOK, Searching, IInv, TypeOK
    <3>2. calls' = SetNow(c) /\ c \in Call /\ c.pc = "visit" /\ c.size = Now.size
      BY <1>2, <2>4, <3>1 DEF TryRight, Call
    <3>. HIDE DEF c
    <3>. QED
      BY <2>2, <3>2
  <2>5. CASE FailUp
    <3>. DEFINE c == [Now EXCEPT !.at = tree[Now.at].parent]
    <3>1. tree[Now.at].parent \in Block
      BY <1>2, <2>1, <2>5, ParentFacts DEF FailUp, Failing, CallOK, Searching
    <3>2. calls' = SetNow(c) /\ c \in Call /\ c.pc = "fail" /\ c.size = Now.size
      BY <1>2, <2>1, <2>5, <3>1 DEF FailUp, Call
    <3>. HIDE DEF c
    <3>. QED
      BY <2>2, <3>2
  <2>. QED
    BY <1>6, <2>3, <2>4, <2>5
<1>. QED
  BY <1>3, <1>4, <1>5, <1>6

(* Growing the pool leaves a split in progress where it is.                *)
LEMMA GrowthTells ==
  ASSUME IInv, TreesTell, SplitLeft \/ Grow \/ AllocPageTable \/ SetUpPage
  PROVE  TreesTell'
<1>1. calls # << >> /\ UNCHANGED << toplevel, tree >>
  BY DEF SplitLeft, Grow, AllocPageTable, SetUpPage, Running
<1>2. /\ Now \in Call /\ Asked(Now) /\ CallOK(Now, Len(calls)) /\ Depth(Now) \in Nat
      /\ Size[MinOrder] \in Nat /\ calls \in Seq(Call)
  BY <1>1, NowAsked, NowFacts, DepthNat, SizeFacts DEF Orders, IInv, TypeOK
<1>3. CASE SplitLeft
  <2>. DEFINE c == [Now EXCEPT !.pc = "right"]
  <2>1. calls' = SetNow(c) /\ Now.pc = "left"
    BY <1>3 DEF SplitLeft
  <2>2. c \in Call /\ Asked(c) /\ (Sought(Now) => Sought(c) /\ c.at = Now.at)
    BY <1>2, <2>1 DEF Call, Asked, Splitting, Sought
  <2>. HIDE DEF c
  <2>. QED
    BY <1>1, <2>1, <2>2, MoveTells
<1>4. CASE SetUpPage
  <2>. DEFINE c == [Now EXCEPT !.grow = "no"]
  <2>1. calls' = SetNow(c)
    BY <1>4 DEF SetUpPage
  <2>2. c \in Call /\ Asked(c) /\ (Sought(Now) => Sought(c) /\ c.at = Now.at)
    BY <1>2 DEF Call, Asked, Splitting, Sought
  <2>. HIDE DEF c
  <2>. QED
    BY <1>1, <2>1, <2>2, MoveTells
<1>5. CASE Grow
  <2>. DEFINE c == [Now EXCEPT !.grow = "page"]
              d == Palloc(Size[MinOrder], Depth(Now) + 1)
  <2>1. calls' = Append(SetNow(c), d) /\ pool = 0
    BY <1>5 DEF Grow
  <2>2. c \in Call /\ Asked(c) /\ (Sought(Now) => Sought(c) /\ c.at = Now.at)
    BY <1>2 DEF Call, Asked, Splitting, Sought
  <2>3. Asked(d)
    BY PallocAsks
  <2>4. d \in Call
    <3>1. Depth(Now) + 1 \in Nat
      BY <1>2
    <3>2. \A k : k > 1 => Size[MinOrder] = Size[MinOrder] /\ pool = 0
      BY <2>1
    <3>. QED
      BY <1>2, <3>1, <3>2, PallocOK
  <2>. HIDE DEF c, d
  <2>. QED
    BY <1>1, <2>1, <2>2, <2>3, <2>4, CallTells
<1>6. CASE AllocPageTable
  <2>. DEFINE d == Palloc(Size[MinOrder], Depth(Now) + 2)
  <2>1. calls' = Append(calls, d) /\ pool = 0
    BY <1>2, <1>6 DEF AllocPageTable, CallOK
  <2>2. Asked(d)
    BY PallocAsks
  <2>3. d \in Call
    <3>1. Depth(Now) + 2 \in Nat
      BY <1>2
    <3>2. \A k : k > 1 => Size[MinOrder] = Size[MinOrder] /\ pool = 0
      BY <2>1
    <3>. QED
      BY <1>2, <3>1, <3>2, PallocOK
  <2>4. SetNow(Now) = calls
    BY <1>2 DEF SetNow, Now
  <2>. HIDE DEF d
  <2>. QED
    BY <1>1, <1>2, <2>1, <2>2, <2>3, <2>4, CallTells
<1>. QED
  BY <1>3, <1>4, <1>5, <1>6

(* A step by which no call is changed but to begin the only one.           *)
LEMMA KernelTells ==
  ASSUME IInv, TreesTell,
         \/ SkipRange \/ InitToplevel \/ GrowFault \/ StackProt \/ UNCHANGED vars
         \/ \E size \in Requests : CallPalloc(size)
  PROVE  TreesTell'
<1>1. UNCHANGED << toplevel, tree >>
  BY DEF SkipRange, InitToplevel, GrowFault, StackProt, CallPalloc, vars
<1>2. CASE calls' = calls
  <2>1. Live' = Live /\ FreeLeaves' = FreeLeaves
    BY <1>1 DEF Live, FreeLeaves, CanAllocate, CanAllocateIn
  <2>2. AllAsked'
    BY <1>2 DEF TreesTell, AllAsked, Asked, Splitting
  <2>. QED
    BY <1>1, <1>2, <2>2, KeptTargets
<1>3. ASSUME NEW c, calls = << >>, calls' = << c >>, Asked(c)
      PROVE  TreesTell'
  <2>1. Len(calls) = 0 /\ Len(calls') = 1 /\ calls'[1] = c
    BY <1>3
  <2>2. AllAsked'
    BY <1>3, <2>1 DEF AllAsked, Asked, Splitting
  <2>. QED
    BY <1>1, <2>1, <2>2, KeptTargets
<1>4. CASE InitToplevel
  <2>1. calls = << >>
    BY <1>4 DEF InitToplevel, Idle
  <2>2. PICK o \in Orders :
          calls' = << [size |-> 0, depth |-> 3, top |-> 0,
                       at |-> [start |-> Head(ranges).base, order |-> o], pc |-> "toplevel",
                       grow |-> "no", page |-> NoBlock, missing |-> 0] >>
    BY <1>4 DEF InitToplevel
  <2>. QED
    BY <1>3, <2>1, <2>2 DEF Asked, Splitting
<1>5. CASE \E size \in Requests : CallPalloc(size)
  <2>1. PICK size \in Requests, depth \in {0, 1} :
          calls = << >> /\ calls' = << Palloc(size, depth) >>
    BY <1>5 DEF CallPalloc, Idle
  <2>2. Asked(Palloc(size, depth))
    BY PallocAsks
  <2>. QED
    BY <1>3, <2>1, <2>2
<1>6. SkipRange \/ GrowFault \/ StackProt \/ UNCHANGED vars => calls' = calls
  BY DEF SkipRange, GrowFault, StackProt, vars
<1>. QED
  BY <1>2, <1>4, <1>5, <1>6

-------------------------------------------------------------------------------
(* Steps that change the blocks.                                           *)

(* A new toplevel block is in one piece.                                   *)
LEMMA AppendTells ==
  ASSUME IInv, TreesTell, AppendToplevel
  PROVE  TreesTell'
<1>. DEFINE n == Len(toplevel) + 1
<1>1. PICK b : b = Now.at
  OBVIOUS
<1>2. /\ b \in Block /\ b \notin Live /\ Live' = Live \cup {b}
      /\ \A c \in Live : tree'[c] = tree[c]
      /\ tree'[b] = [parent |-> NoBlock, split |-> FALSE, flags |-> {}]
      /\ n \in 1 .. Len(toplevel') /\ toplevel'[n] = b
      /\ \A i \in 1 .. Len(toplevel) : i \in 1 .. Len(toplevel') /\ toplevel'[i] = toplevel[i]
      /\ \A i \in 1 .. Len(toplevel') : i = n \/ i \in 1 .. Len(toplevel)
      /\ Len(calls) = 1 /\ Now = calls[1] /\ Now.pc = "toplevel"
  <2>1. /\ Len(toplevel) \in Nat /\ Len(toplevel') = Len(toplevel) + 1
        /\ toplevel'[Len(toplevel) + 1] = b
        /\ \A i \in 1 .. Len(toplevel) : toplevel'[i] = toplevel[i]
    BY <1>1, AppendFacts
  <2>2. /\ b \in Block /\ b \notin Live /\ Live' = Live \cup {b}
        /\ \A c \in Live : tree'[c] = tree[c]
        /\ tree'[b] = [parent |-> NoBlock, split |-> FALSE, flags |-> {}]
        /\ Len(calls) = 1 /\ Now = calls[1] /\ Now.pc = "toplevel"
    BY <1>1, AppendFacts
  <2>. QED
    BY <2>1, <2>2
<1>. HIDE DEF n
<1>3. InPieces'
  <2>1. b \in Promise!Pieces(toplevel'[n], b.order)
    BY <1>2, WholePiece
  <2>2. ASSUME NEW c \in Live
        PROVE  \E i \in 1 .. Len(toplevel') : c \in Promise!Pieces(toplevel'[i], c.order)
    <3>1. PICK i \in 1 .. Len(toplevel) : c \in Promise!Pieces(toplevel[i], c.order)
      BY DEF TreesTell, InPieces
    <3>. QED
      BY <1>2, <3>1
  <2>. QED
    BY <1>2, <2>1, <2>2 DEF InPieces
<1>4. Tiled'
  <2>. SUFFICES ASSUME NEW i \in 1 .. Len(toplevel'), NEW o \in Orders,
                       NEW p \in Promise!Pieces(toplevel'[i], o)
                PROVE  \E c \in Live' : Inside(p, c) /\ (p = c \/ ~tree'[c].split)
    BY DEF Tiled
  <2>1. CASE i = n
    BY <1>2, <2>1, PieceFacts
  <2>2. CASE i \in 1 .. Len(toplevel)
    <3>1. PICK c \in Live : Inside(p, c) /\ (p = c \/ ~tree[c].split)
      BY <1>2, <2>2 DEF TreesTell, Tiled
    <3>. QED
      BY <1>2, <3>1
  <2>. QED
    BY <1>2, <2>1, <2>2
<1>5. FullAreSplit'
  BY <1>2 DEF TreesTell, FullAreSplit
<1>6. SplitsInUse'
  <2>1. Targets = {}
    <3>1. \A k \in 1 .. Len(calls) : ~Sought(calls[k])
      BY <1>2 DEF Sought
    <3>. QED
      BY <3>1 DEF Targets
  <2>2. Used \subseteq Used'
    BY <1>2 DEF Used
  <2>. QED
    BY <1>2, <2>1, <2>2 DEF TreesTell, SplitsInUse
<1>7. AllAsked'
  BY DEF AppendToplevel, AllAsked
<1>. QED
  BY <1>3, <1>4, <1>5, <1>6, <1>7 DEF TreesTell

(* Toplevel blocks do not overlap.                                         *)
LEMMA OneToplevel ==
  ASSUME IInv, NEW p \in Block, NEW i \in 1 .. Len(toplevel), NEW j \in 1 .. Len(toplevel),
         Inside(p, toplevel[i]), Inside(p, toplevel[j])
  PROVE  i = j
<1>1. toplevel[i] \in Block /\ toplevel[j] \in Block
  BY ToplevelFacts
<1>2. ~(End(toplevel[i]) <= toplevel[j].start) /\ ~(End(toplevel[j]) <= toplevel[i].start)
  BY <1>1, BlockFacts DEF Inside
<1>. QED
  BY <1>2 DEF IInv, ToplevelSorted

(* A piece in the block that is split is that block or lies in a half, and *)
(* the search goes on in the left one.                                     *)
LEMMA SplitTells ==
  ASSUME IInv, TreesTell, SplitRight
  PROVE  TreesTell'
<1>1. PICK b : b = Now.at
  OBVIOUS
<1>. DEFINE L == Left(b)
            R == Right(b)
<1>2. /\ calls # << >> /\ Now.pc = "right" /\ toplevel' = toplevel
      /\ calls' = SetNow([Now EXCEPT !.at = L, !.pc = "visit"])
  BY <1>1 DEF SplitRight, Running
<1>3. /\ Now \in Call /\ Len(calls) = 1 /\ Asked(Now)
      /\ b \in FreeLeaves /\ b \in Live /\ b \in Block /\ b.order > MinOrder /\ ~tree[b].split
      /\ L \in Block /\ R \in Block
  BY <1>1, <1>2, SplitFacts, NowAsked
<1>4. /\ Live' = Live \cup {L, R} /\ L \notin Live /\ R \notin Live
      /\ tree'[L] = NewNode(b) /\ tree'[R] = NewNode(b)
      /\ tree'[b].split /\ tree'[b].flags = tree[b].flags
      /\ \A d \in Live : d # b => tree'[d] = tree[d]
  BY <1>1, SplitFacts
<1>5. /\ ~tree'[L].split /\ ~tree'[R].split /\ tree'[L].flags = {} /\ tree'[R].flags = {}
  BY <1>4 DEF NewNode
<1>6. /\ Inside(L, b) /\ Inside(b, b) /\ b.start \in Nat /\ End(b) \in Nat
      /\ L.start = b.start /\ L.order = b.order - 1 /\ End(L) <= End(b) /\ End(L) \in Nat
  BY <1>3, HalfFacts, BlockFacts DEF Inside
<1>7. PICK c \in Call : /\ c.pc = "visit" /\ c.at = L /\ c.size = Now.size
                       /\ calls' = SetNow(c)
  BY <1>2, <1>3 DEF Call
<1>8. calls[1] = Now /\ Len(calls') = 1 /\ calls'[1] = c
  BY <1>2, <1>3, <1>7, SetNowFacts DEF IInv
<1>. HIDE DEF L, R
<1>9. InPieces'
  <2>1. PICK i \in 1 .. Len(toplevel) : b \in Promise!Pieces(toplevel[i], b.order)
    BY <1>3 DEF TreesTell, InPieces
  <2>2. /\ L \in Promise!Pieces(toplevel[i], L.order)
        /\ R \in Promise!Pieces(toplevel[i], R.order)
    BY <1>3, <2>1, ToplevelFacts, HalvesArePieces DEF L, R
  <2>. QED
    BY <1>2, <1>4, <2>2 DEF TreesTell, InPieces
<1>10. Tiled'
  <2>. SUFFICES ASSUME NEW i \in 1 .. Len(toplevel), NEW o \in Orders,
                       NEW p \in Promise!Pieces(toplevel[i], o)
                PROVE  \E d \in Live' : Inside(p, d) /\ (p = d \/ ~tree'[d].split)
    BY <1>2 DEF Tiled
  <2>1. PICK d \in Live : Inside(p, d) /\ (p = d \/ ~tree[d].split)
    BY DEF TreesTell, Tiled
  <2>2. CASE d # b \/ p = b
    BY <1>4, <2>1, <2>2
  <2>3. CASE d = b /\ p # b
    <3>1. PICK j \in 1 .. Len(toplevel) : b \in Promise!Pieces(toplevel[j], b.order)
      BY <1>3 DEF TreesTell, InPieces
    <3>2. toplevel[i] \in Block /\ toplevel[j] \in Block
      BY ToplevelFacts
    <3>3. p \in Block /\ p.order = o /\ Inside(p, toplevel[i])
      BY <3>2, PieceFacts
    <3>4. Inside(b, toplevel[j])
      BY <1>3, <3>1, <3>2, BlockFacts, PieceFacts
    <3>5. Inside(p, toplevel[j])
      <4>1. /\ p.start \in Nat /\ End(p) \in Nat /\ b.start \in Nat /\ End(b) \in Nat
            /\ toplevel[j].start \in Nat /\ End(toplevel[j]) \in Nat
        BY <1>3, <3>2, <3>3, BlockFacts
      <4>. QED
        BY <2>1, <2>3, <3>4, <4>1 DEF Inside
    <3>6. i = j
      BY <3>3, <3>5, OneToplevel
    <3>7. Inside(p, L) \/ Inside(p, R)
      BY <1>3, <2>1, <2>3, <3>1, <3>2, <3>3, <3>6, PieceInHalf DEF L, R
    <3>. QED
      BY <1>4, <1>5, <3>7
  <2>. QED
    BY <2>2, <2>3
<1>11. FullAreSplit'
  BY <1>4, <1>5 DEF TreesTell, FullAreSplit
<1>12. SplitsInUse'
  <2>1. L \in Targets'
    <3>1. L \in FreeLeaves'
      BY <1>4, <1>5 DEF FreeLeaves, CanAllocate, CanAllocateIn
    <3>2. Fits(L, c.size)
      <4>1. Size[b.order - 1] >= Now.size
        BY <1>1, <1>2, <1>3 DEF Asked, Splitting
      <4>. QED
        BY <1>6, <1>7, <4>1 DEF Fits
    <3>3. Sought(c)'
      BY <1>7, <3>1, <3>2 DEF Sought, Fits
    <3>. QED
      BY <1>7, <1>8, <3>3 DEF Targets
  <2>2. Used \subseteq Used'
    BY <1>4 DEF Used
  <2>3. Targets \subseteq {b}
    BY <1>1, <1>3, <1>8 DEF Targets
  <2>4. ASSUME NEW d \in Live, Inside(b, d)
        PROVE  Inside(L, d)
    <3>1. d \in Block
      BY DEF IInv, TypeOK
    <3>. QED
      BY <1>6, <2>4, <3>1, BlockFacts DEF Inside
  <2>5. ASSUME NEW d \in Live', tree'[d].split
        PROVE  \E x \in Used' \cup Targets' : Inside(x, d)
    <3>1. CASE d = b
      BY <1>6, <2>1, <3>1
    <3>2. CASE d # b
      <4>1. d \in Live /\ tree[d].split
        BY <1>4, <1>5, <2>5, <3>2
      <4>2. PICK x \in Used \cup Targets : Inside(x, d)
        BY <4>1 DEF TreesTell, SplitsInUse
      <4>. QED
        BY <2>1, <2>2, <2>3, <2>4, <4>1, <4>2
    <3>. QED
      BY <3>1, <3>2
  <2>. QED
    BY <2>5 DEF SplitsInUse
<1>13. AllAsked'
  <2>1. Asked(c)
    BY <1>2, <1>3, <1>7 DEF Asked, Splitting
  <2>. QED
    BY <1>8, <2>1 DEF AllAsked, Asked, Splitting
<1>. QED
  BY <1>9, <1>10, <1>11, <1>12, <1>13 DEF TreesTell

(* A second call of palloc returns to the first, which has got the page    *)
(* for its nodes or one of the page tables for it.                         *)
LEMMA ResumeFacts ==
  ASSUME IInv, Len(calls) = 2, NEW b, Return(b), Addr(b) # 0
  PROVE  \E d :
           /\ calls' = << d >>
           /\ d.pc = calls[1].pc /\ d.at = calls[1].at /\ d.size = calls[1].size
           /\ d.grow = "map"
           /\ \/ calls[1].grow = "page" /\ d.page = b
              \/ calls[1].grow = "map" /\ d.page = calls[1].page
<1>1. calls \in Seq(Call)
  BY DEF IInv, TypeOK
<1>2. PICK c \in Call : c = calls[1]
  <2>1. 1 \in 1 .. Len(calls)
    OBVIOUS
  <2>. QED
    BY <1>1, <2>1, ElementOfSeq
<1>3. \/ /\ c.grow = "page"
         /\ \E m \in 0 .. PageTableLevels :
              calls' = Append(SubSeq(calls, 1, 0),
                              [c EXCEPT !.grow = "map", !.page = b, !.missing = m])
      \/ /\ c.grow = "map"
         /\ calls' = Append(SubSeq(calls, 1, 0), [c EXCEPT !.missing = @ - 1])
  <2>1. /\ Len(calls) # 1 /\ Len(calls) > 1 /\ Addr(b) # 0
        /\ Len(calls) - 1 = 1 /\ Len(calls) - 2 = 0
    OBVIOUS
  <2>. QED
    BY <1>2, <2>1 DEF Return
<1>4. PICK d :
        /\ calls' = Append(SubSeq(calls, 1, 0), d)
        /\ d.pc = c.pc /\ d.at = c.at /\ d.size = c.size /\ d.grow = "map"
        /\ \/ c.grow = "page" /\ d.page = b
           \/ c.grow = "map" /\ d.page = c.page
  <2>1. \A m : LET d == [c EXCEPT !.grow = "map", !.page = b, !.missing = m]
               IN  /\ d.pc = c.pc /\ d.at = c.at /\ d.size = c.size
                   /\ d.grow = "map" /\ d.page = b
    BY DEF Call
  <2>2. LET d == [c EXCEPT !.missing = @ - 1]
        IN  /\ d.pc = c.pc /\ d.at = c.at /\ d.size = c.size
            /\ d.grow = c.grow /\ d.page = c.page
    BY DEF Call
  <2>3. CASE c.grow = "page"
    <3>1. PICK m : calls' = Append(SubSeq(calls, 1, 0),
                                   [c EXCEPT !.grow = "map", !.page = b, !.missing = m])
      BY <1>3, <2>3
    <3>. QED
      BY <2>1, <2>3, <3>1
  <2>4. CASE c.grow = "map"
    BY <1>3, <2>2, <2>4
  <2>. QED
    BY <1>3, <2>3, <2>4
<1>5. calls' = << d >>
  <2>1. SubSeq(calls, 1, 0) = << >>
    BY <1>1, SubSeqProperties, EmptySeq, LenProperties
  <2>. QED
    BY <1>4, <2>1, AppendToEmpty
<1>. QED
  BY <1>2, <1>4, <1>5

(* When palloc returns, the calls below it go on with what they look for.  *)
LEMMA ReturnKeeps ==
  ASSUME IInv, TreesTell, calls # << >>, NEW b, Return(b), Len(calls) <= 2 \/ Addr(b) = 0
  PROVE  /\ \A k \in 1 .. Len(calls') : Asked(calls'[k])
         /\ \A k \in 1 .. Len(calls) : k # Len(calls) =>
              /\ k \in 1 .. Len(calls')
              /\ calls'[k].pc = calls[k].pc /\ calls'[k].at = calls[k].at
              /\ calls'[k].size = calls[k].size
<1>1. /\ Len(calls) \in Nat /\ Len(calls) >= 1 /\ calls \in Seq(Call)
      /\ \A k \in 1 .. Len(calls) : Asked(calls[k])
  BY NowFacts DEF IInv, TypeOK, TreesTell, AllAsked
<1>2. CASE Len(calls) = 1
  <2>1. calls' = << >> /\ Len(calls') = 0
    BY <1>2 DEF Return
  <2>2. \A k \in 1 .. Len(calls) : k = Len(calls)
    BY <1>2
  <2>. QED
    BY <2>1, <2>2
<1>3. CASE calls' = calls
  BY <1>1, <1>3
<1>4. CASE Len(calls) > 1 /\ Addr(b) # 0
  <2>0. \A i \in Nat : i > 1 /\ i <= 2 => i = 2
    OBVIOUS
  <2>1. Len(calls) = 2
    BY <1>1, <1>4, <2>0
  <2>2. PICK d : /\ calls' = << d >>
                 /\ d.pc = calls[1].pc /\ d.at = calls[1].at /\ d.size = calls[1].size
    BY <1>4, <2>1, ResumeFacts
  <2>3. Len(calls') = 1 /\ calls'[1] = d
    BY <2>2
  <2>4. Asked(calls[1])
    BY <1>1, <2>1
  <2>5. Asked(d)
    BY <2>2, <2>4 DEF Asked, Splitting
  <2>6. \A k \in 1 .. Len(calls) : k # Len(calls) => k = 1
    BY <2>1
  <2>. QED
    BY <2>2, <2>3, <2>5, <2>6
<1>5. Len(calls) = 1 \/ calls' = calls \/ (Len(calls) > 1 /\ Addr(b) # 0)
  BY DEF Return
<1>. QED
  BY <1>2, <1>3, <1>4, <1>5

(* palloc finds nothing, and was looking at nothing.                       *)
LEMMA NullTells ==
  ASSUME IInv, TreesTell, ReturnNull
  PROVE  TreesTell'
<1>1. /\ calls # << >> /\ Now.pc = "none" /\ Return(NoBlock) /\ UNCHANGED << toplevel, tree >>
      /\ Addr(NoBlock) = 0
  BY DEF ReturnNull, Running, Addr, NoBlock
<1>2. /\ \A k \in 1 .. Len(calls') : Asked(calls'[k])
      /\ \A k \in 1 .. Len(calls) : k # Len(calls) =>
           /\ k \in 1 .. Len(calls')
           /\ calls'[k].pc = calls[k].pc /\ calls'[k].at = calls[k].at
           /\ calls'[k].size = calls[k].size
  BY <1>1, ReturnKeeps
<1>3. ~Sought(calls[Len(calls)])
  BY <1>1 DEF Now, Sought
<1>4. AllAsked'
  BY <1>2 DEF AllAsked, Asked, Splitting
<1>. QED
  BY <1>1, <1>2, <1>3, <1>4, KeptTargets DEF Sought

(* What was sought is now in use.                                          *)
LEMMA TakeTells ==
  ASSUME IInv, TreesTell, Take
  PROVE  TreesTell'
<1>1. /\ calls # << >> /\ Now.at \in FreeLeaves /\ Len(calls) <= 2
      /\ tree' = MarkUsed(Now.at) /\ Return(Now.at) /\ toplevel' = toplevel
  BY TakeFacts DEF Take
<1>2. PICK b \in FreeLeaves : b = Now.at
  BY <1>1
<1>3. tree' = MarkUsed(b)
  BY <1>1, <1>2
<1>4. /\ Live' = Live /\ FreeLeaves' = FreeLeaves \ {b} /\ b \in Live
      /\ \A c \in Live : tree'[c].split = tree[c].split
      /\ \A c \in Live : c # b => ("USED" \in tree'[c].flags <=> "USED" \in tree[c].flags)
      /\ "USED" \in tree'[b].flags
      /\ \A c \in Live : "UNAVAILABLE" \in tree'[c].flags =>
           "UNAVAILABLE" \in tree[c].flags \/ (c = tree[b].parent /\ FillsParent(b))
  BY <1>3, MarkUsedFacts, FreeLeafFacts DEF IInv, TreeInv
<1>5. /\ \A k \in 1 .. Len(calls') : Asked(calls'[k])
      /\ \A k \in 1 .. Len(calls) : k # Len(calls) =>
           /\ k \in 1 .. Len(calls')
           /\ calls'[k].pc = calls[k].pc /\ calls'[k].at = calls[k].at
           /\ calls'[k].size = calls[k].size
  BY <1>1, ReturnKeeps
<1>6. InPieces' /\ Tiled'
  BY <1>1, <1>4 DEF TreesTell, InPieces, Tiled
<1>7. FullAreSplit'
  <2>1. FillsParent(b) => tree[tree[b].parent].split
    BY <1>4, ParentFacts DEF FillsParent
  <2>. QED
    BY <1>4, <2>1 DEF TreesTell, FullAreSplit
<1>8. SplitsInUse'
  <2>1. Used' = Used \cup {b}
    BY <1>4 DEF Used
  <2>2. ASSUME NEW k \in 1 .. Len(calls), Sought(calls[k]), calls[k].at # b
        PROVE  calls[k].at \in Targets'
    <3>1. k # Len(calls)
      BY <1>2, <2>2 DEF Now
    <3>2. /\ k \in 1 .. Len(calls') /\ calls'[k].at = calls[k].at
          /\ calls'[k].pc = calls[k].pc /\ calls'[k].size = calls[k].size
      BY <1>5, <3>1
    <3>3. Sought(calls[k])'
      BY <1>4, <2>2, <3>2 DEF Sought, Fits
    <3>. QED
      BY <3>2, <3>3 DEF Targets
  <2>3. Targets \subseteq Targets' \cup {b}
    BY <2>2 DEF Targets
  <2>. QED
    BY <1>4, <2>1, <2>3 DEF TreesTell, SplitsInUse
<1>9. AllAsked'
  BY <1>5 DEF AllAsked, Asked, Splitting
<1>. QED
  BY <1>6, <1>7, <1>8, <1>9 DEF TreesTell

-------------------------------------------------------------------------------
(* What follows from it.                                                   *)

LEMMA InitTells == Init => TreesTell
<1>1. Init => Live = {} /\ Len(toplevel) = 0 /\ Len(calls) = 0
  BY DEF Init, Live
<1>. QED
  BY <1>1 DEF TreesTell, InPieces, Tiled, FullAreSplit, SplitsInUse, AllAsked

LEMMA NextTells == IInv /\ TreesTell /\ [Next]_vars => TreesTell'
<1>1. CASE \E size \in Requests : CallPalloc(size)
  BY <1>1, KernelTells
<1>2. CASE Step
  BY <1>2, KernelTells, AppendTells, SearchTells, GrowthTells, SplitTells, TakeTells, NullTells
     DEF Step
<1>3. CASE UNCHANGED vars
  BY <1>3, KernelTells
<1>. QED
  BY <1>1, <1>2, <1>3 DEF Next

(* What the trees tell of the memory they stand for, from ba_init on.      *)
THEOREM TreeInvariant == Spec => []TreesTell
<1>. QED
  BY InitTells, NextTells, Invariant, PTL DEF Spec

(* Between two requests there is something in use inside every block that  *)
(* is split: ba_split is never called in vain, although it may call palloc *)
(* and leave the split to a call that fails.                               *)
THEOREM NoSplitInVain == Spec => []NoIdleSplit
<1>1. TreesTell => NoIdleSplit
  <2>. SUFFICES ASSUME TreesTell, Idle
                PROVE  \A b \in Live : tree[b].split => \E c \in Used : Inside(c, b)
    BY DEF NoIdleSplit
  <2>1. Targets = {}
    BY DEF Targets, Idle
  <2>. QED
    BY <2>1 DEF TreesTell, SplitsInUse
<1>. QED
  BY <1>1, TreeInvariant, PTL

-------------------------------------------------------------------------------
(* The promise.                                                            *)

(* When no free leaf is large enough and no search has found one, no piece *)
(* of a toplevel block is.                                                 *)
LEMMA NoRoom ==
  ASSUME IInv, TreesTell, NEW size \in Nat,
         \A f \in FreeLeaves : ~Fits(f, size), Targets = {}
  PROVE  Promise!Room(size) = {}
<1>. SUFFICES ASSUME NEW i \in 1 .. Len(toplevel), NEW o \in Orders,
                     NEW p \in Promise!Pieces(toplevel[i], o), Size[p.order] >= size,
                     \A c \in Used : Promise!Disjoint(p, c)
              PROVE  FALSE
  BY DEF Promise!Room, Promise!Orders, Orders
<1>1. p \in Block
  BY ToplevelFacts, PieceFacts
<1>2. \A c \in Used : c \in Block /\ Disjoint(p, c)
  BY DEF Used, IInv, TypeOK, Promise!Disjoint, Promise!End, Disjoint, End
<1>3. PICK b \in Live : Inside(p, b) /\ (p = b \/ ~tree[b].split)
  BY DEF TreesTell, Tiled
<1>4. b \in Block
  BY DEF IInv, TypeOK
<1>5. CASE tree[b].split
  <2>1. PICK c \in Used : Inside(c, b)
    BY <1>5 DEF TreesTell, SplitsInUse
  <2>2. c \in Block /\ Disjoint(b, c)
    BY <1>2, <1>3, <1>5
  <2>. QED
    BY <1>4, <2>1, <2>2, BlockFacts DEF Inside, Disjoint
<1>6. CASE ~tree[b].split
  <2>1. "UNAVAILABLE" \notin tree[b].flags
    BY <1>6 DEF TreesTell, FullAreSplit
  <2>2. b \notin Used
    <3>1. ~Disjoint(p, b)
      BY <1>1, <1>3, <1>4, BlockFacts DEF Inside, Disjoint
    <3>. QED
      BY <1>2, <3>1
  <2>3. b \in FreeLeaves
    BY <1>6, <2>1, <2>2 DEF FreeLeaves, CanAllocate, CanAllocateIn, Used
  <2>4. Size[p.order] <= Size[b.order]
    BY <1>1, <1>3, <1>4, InsideOrder
  <2>5. Fits(b, size)
    BY <1>1, <1>4, <2>4, BlockFacts DEF Fits
  <2>. QED
    BY <2>3, <2>5
<1>. QED
  BY <1>5, <1>6

(* palloc returns null only when there is no room.                         *)
LEMMA NullIsPromised ==
  ASSUME IInv, TreesTell, ReturnNull
  PROVE  Promise!Next
<1>1. /\ calls # << >> /\ Now.pc = "none" /\ UNCHANGED << toplevel, tree >>
      /\ ret' = [size |-> Now.size, block |-> NoBlock]
  BY DEF ReturnNull, Running, Return
<1>2. /\ Now \in Call /\ CallOK(Now, Len(calls)) /\ Len(calls) \in Nat /\ Len(calls) >= 1
      /\ Len(calls) = 1 \/ Now.size = Size[MinOrder]
      /\ Now.size \in Requests \cup {Size[MinOrder]} /\ Now.size \in Nat
  BY <1>1, NowFacts, NowAsked, CallFields
<1>3. \A f \in FreeLeaves : ~Fits(f, Now.size)
  BY <1>1, <1>2 DEF CallOK, Ahead
<1>4. Targets = {}
  <2>1. ASSUME NEW k \in 1 .. Len(calls), Sought(calls[k])
        PROVE  FALSE
    <3>1. CASE k = Len(calls)
      BY <1>1, <2>1, <3>1 DEF Sought, Now
    <3>2. CASE k # Len(calls)
      <4>1. Now.size = Size[MinOrder]
        <5>1. \A n \in Nat : n >= 1 /\ k \in 1 .. n /\ k # n => n # 1
          OBVIOUS
        <5>. QED
          BY <1>2, <3>2, <5>1
      <4>2. calls[k].at \in FreeLeaves /\ calls[k].at \in Block
        BY <2>1, FreeLeafFacts DEF Sought, IInv
      <4>3. Fits(calls[k].at, Now.size)
        BY <4>1, <4>2, BlockFacts, MinSize DEF Fits
      <4>. QED
        BY <1>3, <4>2, <4>3
    <3>. QED
      BY <3>1, <3>2
  <2>. QED
    BY <2>1 DEF Targets
<1>5. Promise!Room(Now.size) = {}
  BY <1>2, <1>3, <1>4, NoRoom
<1>6. Used' = Used
  BY <1>1 DEF Used, Live
<1>7. Promise!Fail(Now.size)
  BY <1>1, <1>5, <1>6 DEF Promise!Fail, Promise!NoBlock, NoBlock
<1>. QED
  BY <1>2, <1>7 DEF Promise!Next

(* palloc hands out a piece that is free and large enough.                 *)
LEMMA TakeIsPromised ==
  ASSUME IInv, TreesTell, Take
  PROVE  Promise!Next
<1>1. /\ calls # << >> /\ Now.pc = "visit" /\ Now.at \in FreeLeaves /\ Fits(Now.at, Now.size)
      /\ tree' = MarkUsed(Now.at) /\ toplevel' = toplevel
      /\ ret' = [size |-> Now.size, block |-> Now.at]
  BY TakeFacts DEF Take, Return
<1>2. PICK b \in FreeLeaves : b = Now.at
  BY <1>1
<1>3. /\ b \in Live /\ b \in Block /\ ~tree[b].split /\ "USED" \notin tree[b].flags
  BY FreeLeafFacts DEF IInv
<1>4. Used' = Used \cup {b}
  <2>1. tree' = MarkUsed(b)
    BY <1>1, <1>2
  <2>2. /\ Live' = Live /\ "USED" \in tree'[b].flags
        /\ \A c \in Live : c # b => ("USED" \in tree'[c].flags <=> "USED" \in tree[c].flags)
    BY <2>1, MarkUsedFacts DEF IInv, TreeInv
  <2>. QED
    BY <1>3, <2>2 DEF Used
<1>5. \A c \in Used : Promise!Disjoint(b, c)
  <2>1. \A c \in Used : c \in Live /\ ~tree[c].split /\ c # b
    BY <1>3 DEF Used, IInv, TreeInv, UsedAreLeaves
  <2>2. \A c \in Used : Disjoint(b, c)
    BY <1>3, <2>1, LeafOverlap DEF IInv, TreeInv
  <2>. QED
    BY <2>2 DEF Promise!Disjoint, Promise!End, Disjoint, End
<1>6. b \in Promise!Room(Now.size)
  <2>1. PICK i \in 1 .. Len(toplevel) : b \in Promise!Pieces(toplevel[i], b.order)
    BY <1>3 DEF TreesTell, InPieces
  <2>2. b.order \in Promise!Orders
    BY <1>3 DEF Block, Orders, Promise!Orders
  <2>. QED
    BY <1>1, <1>2, <1>5, <2>1, <2>2 DEF Promise!Room, Fits
<1>7. Promise!Alloc(Now.size)
  BY <1>1, <1>2, <1>4, <1>6 DEF Promise!Alloc
<1>8. Now.size \in Requests \cup {Size[MinOrder]}
  BY <1>1, NowAsked
<1>. QED
  BY <1>7, <1>8 DEF Promise!Next

(* A toplevel block is a new zone.                                         *)
LEMMA ToplevelIsPromised ==
  ASSUME IInv, AppendToplevel
  PROVE  Promise!Next
<1>1. PICK b : b = Now.at
  OBVIOUS
<1>2. /\ b \in Block /\ b \notin Live /\ Live' = Live \cup {b}
      /\ \A c \in Live : tree'[c] = tree[c]
      /\ tree'[b] = [parent |-> NoBlock, split |-> FALSE, flags |-> {}]
  BY <1>1, AppendFacts
<1>3. /\ Len(toplevel) \in Nat /\ Len(toplevel') = Len(toplevel) + 1
      /\ toplevel'[Len(toplevel) + 1] = b
      /\ \A i \in 1 .. Len(toplevel) : toplevel'[i] = toplevel[i]
  BY <1>1, AppendFacts
<1>4. \A c \in Live : Promise!Disjoint(c, b)
  <2>1. \A c \in Live : End(c) <= b.start
    BY <1>1, AppendFacts
  <2>. QED
    BY <2>1 DEF Promise!Disjoint, Promise!End, End
<1>5. { toplevel'[i] : i \in 1 .. Len(toplevel') } = { toplevel[i] : i \in 1 .. Len(toplevel) } \cup {b}
  <2>1. \A i \in 1 .. Len(toplevel') : i \in 1 .. Len(toplevel) \/ i = Len(toplevel) + 1
    BY <1>3
  <2>2. /\ Len(toplevel) + 1 \in 1 .. Len(toplevel')
        /\ \A i \in 1 .. Len(toplevel) : i \in 1 .. Len(toplevel')
    BY <1>3
  <2>. QED
    BY <1>3, <2>1, <2>2
<1>6. Used' = Used
  BY <1>2 DEF Used
<1>7. b \in Promise!Block
  <2>1. PICK j \in 1 .. Len(MemMap) : MemMap[j].base <= b.start /\ End(b) <= MemMap[j].end
    BY <1>2, AppendToplevelStep DEF IInv, TreeInv, BlocksUsable
  <2>2. b.start \in MemMap[j].base .. MemMap[j].end - 1
    BY <1>2, <2>1, MemMapTypes, BlockFacts
  <2>. QED
    BY <1>2, <2>2 DEF Block, Orders, Promise!Block, Promise!Orders
<1>8. \A y \in { toplevel[i] : i \in 1 .. Len(toplevel) } : Promise!Disjoint(y, b)
  BY <1>4, ToplevelFacts
<1>9. ret' = ret
  BY DEF AppendToplevel
<1>10. Promise!AddZone
  BY <1>5, <1>6, <1>7, <1>8, <1>9 DEF Promise!AddZone
<1>. QED
  BY <1>10 DEF Promise!Next

(* Every other step leaves what is promised as it is.                      *)
LEMMA OthersPromiseNothing ==
  ASSUME IInv, [Next]_vars, ~Take, ~ReturnNull, ~AppendToplevel
  PROVE  UNCHANGED Promise!vars
<1>1. UNCHANGED << toplevel, ret >>
  BY DEF Next, Step, CallPalloc, SkipRange, InitToplevel, Refuse, Descend, BeginSplit,
     SplitLeft, SplitRight, TryRight, FailUp, NextToplevel, Grow, AllocPageTable, SetUpPage,
     GrowFault, StackProt, vars
<1>2. Used' = Used
  <2>1. CASE SplitRight
    <3>1. PICK b : b = Now.at
      OBVIOUS
    <3>2. /\ Live' = Live \cup {Left(b), Right(b)}
          /\ Left(b) \notin Live /\ Right(b) \notin Live
          /\ tree'[Left(b)] = NewNode(b) /\ tree'[Right(b)] = NewNode(b)
          /\ b \in Live /\ tree'[b].flags = tree[b].flags
          /\ \A d \in Live : d # b => tree'[d] = tree[d]
      BY <2>1, <3>1, SplitFacts
    <3>3. /\ \A d \in Live : tree'[d].flags = tree[d].flags
          /\ tree'[Left(b)].flags = {} /\ tree'[Right(b)].flags = {}
      BY <3>2 DEF NewNode
    <3>. QED
      BY <3>2, <3>3 DEF Used
  <2>2. CASE ~SplitRight
    <3>1. tree' = tree
      BY <2>2 DEF Next, Step, CallPalloc, SkipRange, InitToplevel, Refuse, Descend,
         BeginSplit, SplitLeft, TryRight, FailUp, NextToplevel, Grow, AllocPageTable,
         SetUpPage, GrowFault, StackProt, vars
    <3>. QED
      BY <3>1 DEF Used, Live
  <2>. QED
    BY <2>1, <2>2
<1>. QED
  BY <1>1, <1>2 DEF Promise!vars

(* The allocator with its trees, flags and calls within calls implements   *)
(* the one of FrameAllocator: palloc hands out free pieces of the memory   *)
(* that are large enough, and null only when there are none, also when it  *)
(* is called in the middle of a split.                                     *)
THEOREM KeepsItsPromise == Spec => KeepsPromise
<1>1. Init => Promise!Init
  <2>. SUFFICES ASSUME Init PROVE Promise!Init
    OBVIOUS
  <2>1. Used = {} /\ Len(toplevel) = 0
    BY DEF Init, Used, Live
  <2>. QED
    BY <2>1 DEF Init, Promise!Init, Promise!NoBlock, NoBlock
<1>2. IInv /\ TreesTell /\ [Next]_vars => [Promise!Next]_(Promise!vars)
  BY NullIsPromised, TakeIsPromised, ToplevelIsPromised, OthersPromiseNothing
<1>. QED
  BY <1>1, <1>2, Invariant, TreeInvariant, PTL DEF Spec, KeepsPromise, Promise!Spec

-------------------------------------------------------------------------------
(* The nodes: none is lost or counted twice, and the memset of a new page  *)
(* of nodes does not run over the nodes of an earlier one.  The latter is  *)
(* because the allocator takes the lowest free page, and what it splits or *)
(* adds later lies beyond: the pages of nodes come in the order of their   *)
(* addresses.                                                              *)

(* The calls whose ba_split has got the node for the left half.            *)
Holding == { k \in 1 .. Len(calls) : calls[k].pc = "right" }

Counted == IsFiniteSet(Live) /\ IsFiniteSet(pages) /\ PoolBalance

(* The page that is about to become nodes.                                 *)
Added == { calls[k].page : k \in { k \in 1 .. Len(calls) : calls[k].grow = "map" } }

(* All that is free lies beyond the pages, and a new page beyond the old.  *)
PagesInOrder ==
  /\ pages \cup Added \subseteq Used
  /\ \A p \in pages \cup Added : \A f \in FreeLeaves : End(p) <= f.start
  /\ \A p \in pages : \A q \in Added : End(p) <= q.start
  /\ overwritten \subseteq Used /\ overwritten \cap (pages \cup Added) = {}

PoolTells == Counted /\ PagesInOrder

-------------------------------------------------------------------------------
(* Steps that leave the nodes where they are.                              *)

(* The latest call moves, and the others stay as they are.                 *)
LEMMA MovedCalls ==
  ASSUME IInv, IInv', calls # << >>, NEW c, calls' = SetNow(c)
  PROVE  /\ Now \in Call /\ Now = calls[Len(calls)] /\ Len(calls) \in Nat \ {0}
         /\ Len(calls') = Len(calls) /\ calls'[Len(calls)] = c
         /\ \A k \in 1 .. Len(calls) : k # Len(calls) => calls'[k] = calls[k]
<1>1. calls \in Seq(Call) /\ calls' \in Seq(Call) /\ Now \in Call
      /\ Len(calls) \in Nat \ {0} /\ Now = calls[Len(calls)]
  BY NowFacts DEF IInv, TypeOK, Now
<1>2. DOMAIN calls = 1 .. Len(calls) /\ Len(calls) \in 1 .. Len(calls)
  BY <1>1, LenProperties
<1>3. calls' = [calls EXCEPT ![Len(calls)] = c]
  BY DEF SetNow
<1>4. DOMAIN calls' = 1 .. Len(calls) /\ DOMAIN calls' = 1 .. Len(calls')
      /\ Len(calls') \in Nat
  BY <1>1, <1>2, <1>3, LenProperties
<1>5. Len(calls') = Len(calls)
  BY <1>1, <1>4
<1>. QED
  BY <1>1, <1>2, <1>3, <1>5

(* How that changes what the latest call has in its hands.                 *)
LEMMA MovedSets ==
  ASSUME IInv, IInv', calls # << >>, NEW c, calls' = SetNow(c),
         c.grow = "map" => Now.grow = "map" /\ c.page = Now.page
  PROVE  /\ Added' \subseteq Added
         /\ Holding' = (IF c.pc = "right" THEN Holding \cup {Len(calls)}
                                          ELSE Holding \ {Len(calls)})
         /\ Len(calls) \in Holding <=> Now.pc = "right"
<1>1. /\ Now = calls[Len(calls)] /\ Len(calls) \in 1 .. Len(calls)
      /\ Len(calls') = Len(calls) /\ calls'[Len(calls)] = c
      /\ \A k \in 1 .. Len(calls) : k # Len(calls) => calls'[k] = calls[k]
  BY MovedCalls
<1>2. \A k \in 1 .. Len(calls) : calls'[k].grow = "map" =>
        calls[k].grow = "map" /\ calls'[k].page = calls[k].page
  BY <1>1
<1>3. Added' \subseteq Added
  BY <1>1, <1>2 DEF Added
<1>. QED
  BY <1>1, <1>3 DEF Holding

(* No block and no page changes hands.                                     *)
LEMMA KeptPages ==
  ASSUME PagesInOrder, UNCHANGED << tree, pages, overwritten >>, Added' \subseteq Added
  PROVE  PagesInOrder'
<1>1. Used' = Used /\ FreeLeaves' = FreeLeaves
  BY DEF Live, Used, FreeLeaves, CanAllocate, CanAllocateIn
<1>. QED
  BY <1>1 DEF PagesInOrder

(* ... nor any node.                                                       *)
LEMMA KeptNodes ==
  ASSUME PoolTells, UNCHANGED << tree, pool, pages, overwritten >>,
         Holding' = Holding, Added' \subseteq Added
  PROVE  PoolTells'
<1>1. Counted'
  BY DEF PoolTells, Counted, PoolBalance, Holding, Live
<1>2. PagesInOrder'
  BY KeptPages DEF PoolTells
<1>. QED
  BY <1>1, <1>2 DEF PoolTells

(* The search moves, or the first node of a split is not yet asked for.    *)
LEMMA SearchKeepsNodes ==
  ASSUME IInv, IInv', PoolTells,
         Refuse \/ Descend \/ BeginSplit \/ TryRight \/ FailUp \/ NextToplevel
  PROVE  PoolTells'
<1>1. /\ calls # << >> /\ Now.pc # "right"
      /\ UNCHANGED << tree, pool, pages, overwritten >>
  BY DEF Refuse, Descend, BeginSplit, TryRight, FailUp, NextToplevel, Visiting, Failing, Running
<1>2. Now \in Call
  BY <1>1, NowFacts
<1>3. PICK c : /\ calls' = SetNow(c) /\ c.pc # "right"
               /\ c.grow = Now.grow /\ c.page = Now.page
  <2>1. CASE Refuse
    BY <1>2, <2>1 DEF Refuse, Call
  <2>2. CASE Descend
    BY <1>1, <1>2, <2>2 DEF Descend, Call
  <2>3. CASE BeginSplit
    BY <1>2, <2>3 DEF BeginSplit, Call
  <2>4. CASE TryRight
    <3>. DEFINE c == [Now EXCEPT !.at = Right(tree[Now.at].parent), !.pc = "visit"]
    <3>1. c.pc = "visit" /\ c.grow = Now.grow /\ c.page = Now.page
      BY <1>2 DEF Call
    <3>2. calls' = SetNow(c)
      BY <2>4 DEF TryRight
    <3>. QED
      BY <3>1, <3>2
  <2>5. CASE FailUp
    BY <1>1, <1>2, <2>5 DEF FailUp, Call
  <2>6. CASE NextToplevel
    <3>. DEFINE c == Reach(Now, Now.top + 1)
    <3>1. c.pc \in {"visit", "none"} /\ c.grow = Now.grow /\ c.page = Now.page
      BY <1>2 DEF Reach, Call
    <3>2. calls' = SetNow(c)
      BY <2>6 DEF NextToplevel
    <3>. HIDE DEF c
    <3>. QED
      BY <3>1, <3>2
  <2>. QED
    BY <2>1, <2>2, <2>3, <2>4, <2>5, <2>6
<1>4. Added' \subseteq Added /\ Holding' = Holding
  BY <1>1, <1>3, MovedSets
<1>. QED
  BY <1>1, <1>4, KeptNodes

(* The kernel takes a step, or nothing happens.                            *)
LEMMA KernelKeepsNodes ==
  ASSUME PoolTells,
         \/ SkipRange \/ InitToplevel \/ GrowFault \/ StackProt \/ UNCHANGED vars
         \/ \E size \in Requests : CallPalloc(size)
  PROVE  PoolTells'
<1>1. UNCHANGED << tree, pool, pages, overwritten >>
  BY DEF SkipRange, InitToplevel, GrowFault, StackProt, CallPalloc, vars
<1>2. \/ calls' = calls
      \/ calls = << >> /\ \E c : calls' = << c >> /\ c.pc # "right" /\ c.grow = "no"
  <2>1. CASE SkipRange \/ GrowFault \/ StackProt \/ UNCHANGED vars
    BY <2>1 DEF SkipRange, GrowFault, StackProt, vars
  <2>2. CASE InitToplevel
    BY <2>2 DEF InitToplevel, Idle
  <2>3. CASE \E size \in Requests : CallPalloc(size)
    <3>1. PICK size \in Requests, depth \in {0, 1} :
            calls = << >> /\ calls' = << Palloc(size, depth) >>
      BY <2>3 DEF CallPalloc, Idle
    <3>2. Palloc(size, depth).pc # "right" /\ Palloc(size, depth).grow = "no"
      BY DEF Palloc, Reach
    <3>. QED
      BY <3>1, <3>2
  <2>. QED
    BY <2>1, <2>2, <2>3
<1>3. CASE calls' = calls
  BY <1>1, <1>3, KeptNodes DEF Holding, Added
<1>4. CASE calls = << >> /\ \E c : calls' = << c >> /\ c.pc # "right" /\ c.grow = "no"
  <2>1. PICK c : calls' = << c >> /\ c.pc # "right" /\ c.grow = "no"
    BY <1>4
  <2>2. Len(calls) = 0 /\ Len(calls') = 1 /\ calls'[1] = c
    BY <1>4, <2>1
  <2>3. Holding = {} /\ Holding' = {} /\ Added' = {}
    BY <2>1, <2>2 DEF Holding, Added
  <2>. QED
    BY <1>1, <2>3, KeptNodes
<1>. QED
  BY <1>2, <1>3, <1>4

(* A call is made for a page.                                              *)
LEMMA GrowKeepsNodes ==
  ASSUME IInv, PoolTells, Grow \/ AllocPageTable
  PROVE  PoolTells'
<1>1. calls # << >> /\ UNCHANGED << tree, pool, pages, overwritten >>
  BY DEF Grow, AllocPageTable, Running
<1>2. /\ Now \in Call /\ Now = calls[Len(calls)] /\ Len(calls) \in 1 .. Len(calls)
      /\ calls \in Seq(Call)
  BY <1>1, NowFacts DEF Now, IInv, TypeOK
<1>3. PICK c, d :
        /\ c \in Call /\ calls' = Append(SetNow(c), d)
        /\ c.pc = Now.pc /\ (c.grow = "map" => Now.grow = "map") /\ c.page = Now.page
        /\ d.pc # "right" /\ d.grow = "no"
  <2>1. \A depth : LET d == Palloc(Size[MinOrder], depth) IN d.pc # "right" /\ d.grow = "no"
    BY DEF Palloc, Reach
  <2>2. CASE Grow
    <3>. DEFINE c == [Now EXCEPT !.grow = "page"]
    <3>1. c \in Call /\ c.pc = Now.pc /\ c.grow = "page" /\ c.page = Now.page
      BY <1>2 DEF Call
    <3>2. calls' = Append(SetNow(c), Palloc(Size[MinOrder], Depth(Now) + 1))
      BY <2>2 DEF Grow
    <3>. HIDE DEF c
    <3>. QED
      BY <2>1, <3>1, <3>2
  <2>3. CASE AllocPageTable
    <3>1. SetNow(Now) = calls
      BY <1>2 DEF SetNow
    <3>2. calls' = Append(SetNow(Now), Palloc(Size[MinOrder], Depth(Now) + 2))
      BY <2>3, <3>1 DEF AllocPageTable
    <3>. QED
      BY <1>2, <2>1, <3>2
  <2>. QED
    BY <2>2, <2>3
<1>4. /\ SetNow(c) \in Seq(Call) /\ Len(SetNow(c)) = Len(calls) /\ SetNow(c)[Len(calls)] = c
      /\ \A k \in 1 .. Len(calls) : k # Len(calls) => SetNow(c)[k] = calls[k]
  BY <1>1, <1>3, SetNowFacts DEF IInv
<1>5. PICK s \in Seq(Call) : s = SetNow(c)
  BY <1>4
<1>6. /\ Len(calls') = Len(calls) + 1 /\ calls'[Len(calls) + 1] = d
      /\ \A k \in 1 .. Len(calls) : calls'[k] = s[k]
  <2>1. calls' = Append(s, d) /\ Len(s) = Len(calls)
    BY <1>3, <1>4, <1>5
  <2>. QED
    BY <2>1
<1>7. \A k \in 1 .. Len(calls) :
        /\ calls'[k].pc = calls[k].pc /\ calls'[k].page = calls[k].page
        /\ calls'[k].grow = "map" => calls[k].grow = "map"
  BY <1>2, <1>3, <1>4, <1>5, <1>6
<1>8. /\ \A k \in 1 .. Len(calls') : k \in 1 .. Len(calls) \/ k = Len(calls) + 1
      /\ \A k \in 1 .. Len(calls) : k \in 1 .. Len(calls')
  BY <1>2, <1>6
<1>9. Holding' = Holding
  <2>1. calls'[Len(calls) + 1].pc # "right"
    BY <1>3, <1>6
  <2>2. \A k \in 1 .. Len(calls') : calls'[k].pc = "right" =>
          k \in 1 .. Len(calls) /\ calls[k].pc = "right"
    BY <1>7, <1>8, <2>1
  <2>3. \A k \in 1 .. Len(calls) : calls[k].pc = "right" =>
          k \in 1 .. Len(calls') /\ calls'[k].pc = "right"
    BY <1>7, <1>8
  <2>. QED
    BY <2>2, <2>3 DEF Holding
<1>10. Added' \subseteq Added
  <2>1. ASSUME NEW k \in 1 .. Len(calls'), calls'[k].grow = "map"
        PROVE  calls'[k].page \in Added
    <3>1. calls'[Len(calls) + 1].grow # "map"
      BY <1>3, <1>6
    <3>2. k \in 1 .. Len(calls) /\ calls[k].grow = "map" /\ calls'[k].page = calls[k].page
      BY <1>7, <1>8, <2>1, <3>1
    <3>. QED
      BY <3>2 DEF Added
  <2>. QED
    BY <2>1 DEF Added
<1>. QED
  BY <1>1, <1>9, <1>10, KeptNodes

-------------------------------------------------------------------------------
(* Counting.                                                               *)

(* The sets whose elements are counted.                                    *)
LEMMA CountedSets ==
  ASSUME IInv, Counted
  PROVE  /\ IsFiniteSet(Holding) /\ pool \in Nat /\ NodesPerPage \in Nat /\ NumStatic \in Nat
         /\ Cardinality(Live) \in Nat /\ Cardinality(Holding) \in Nat
         /\ Cardinality(pages) \in Nat
         /\ pool + Cardinality(Live) + Cardinality(Holding)
              = NumStatic + NodesPerPage * Cardinality(pages)
<1>1. IsFiniteSet(Holding)
  <2>1. Len(calls) \in Int
    BY LenProperties DEF IInv, TypeOK
  <2>2. IsFiniteSet(1 .. Len(calls)) /\ Holding \subseteq 1 .. Len(calls)
    BY <2>1, FS_Interval DEF Holding
  <2>. QED
    BY <2>2, FS_Subset
<1>2. IsFiniteSet(Live) /\ IsFiniteSet(pages)
  BY DEF Counted
<1>3. /\ Cardinality(Live) \in Nat /\ Cardinality(Holding) \in Nat
      /\ Cardinality(pages) \in Nat
  BY <1>1, <1>2, FS_CardinalityType
<1>. QED
  BY <1>1, <1>3, LimitAssumption DEF Counted, PoolBalance, Holding, IInv, TypeOK

(* A node leaves the pool, for the left half of a block.                   *)
LEMMA SplitLeftCounts ==
  ASSUME IInv, IInv', Counted, SplitLeft
  PROVE  Counted'
<1>. DEFINE n == Len(calls)
<1>1. /\ calls # << >> /\ Now.pc = "left" /\ pool > 0 /\ pool' = pool - 1
      /\ calls' = SetNow([Now EXCEPT !.pc = "right"]) /\ tree' = tree /\ pages' = pages
  BY DEF SplitLeft, Running
<1>2. PICK c : /\ calls' = SetNow(c) /\ c.pc = "right"
               /\ c.grow = Now.grow /\ c.page = Now.page
  BY <1>1, NowFacts DEF Call
<1>3. Holding' = Holding \cup {n} /\ n \notin Holding
  BY <1>1, <1>2, MovedSets
<1>. HIDE DEF n
<1>4. Cardinality(Holding') = Cardinality(Holding) + 1
  BY <1>3, CountedSets, FS_AddElement
<1>5. Live' = Live
  BY <1>1 DEF Live
<1>6. PoolBalance'
  <2>1. pool' + Cardinality(Live) + Cardinality(Holding')
          = NumStatic + NodesPerPage * Cardinality(pages)
    BY <1>1, <1>4, CountedSets
  <2>. QED
    BY <1>1, <1>5, <2>1 DEF PoolBalance, Holding
<1>. QED
  BY <1>1, <1>5, <1>6 DEF Counted

(* ... and another one for the right half, and both are in the tree.       *)
LEMMA SplitRightCounts ==
  ASSUME IInv, IInv', Counted, SplitRight
  PROVE  Counted'
<1>. DEFINE n == Len(calls)
            L == Left(Now.at)
            R == Right(Now.at)
<1>1. /\ calls # << >> /\ Now.pc = "right" /\ pool > 0 /\ pool' = pool - 1
      /\ calls' = SetNow([Now EXCEPT !.at = L, !.pc = "visit"]) /\ pages' = pages
  BY DEF SplitRight, Running
<1>2. Live' = Live \cup {L, R} /\ L \notin Live /\ R \notin Live /\ L # R
  BY SplitFacts
<1>3. PICK c : /\ calls' = SetNow(c) /\ c.pc = "visit"
               /\ c.grow = Now.grow /\ c.page = Now.page
  <2>. DEFINE c == [Now EXCEPT !.at = L, !.pc = "visit"]
  <2>1. Now \in Call
    BY <1>1, NowFacts
  <2>2. c.pc = "visit" /\ c.grow = Now.grow /\ c.page = Now.page
    BY <2>1 DEF Call
  <2>. QED
    BY <1>1, <2>2
<1>4. Holding' = Holding \ {n} /\ n \in Holding
  BY <1>1, <1>3, MovedSets
<1>. HIDE DEF n, L, R
<1>5. Cardinality(Holding') = Cardinality(Holding) - 1
  BY <1>4, CountedSets, FS_RemoveElement
<1>6. IsFiniteSet(Live') /\ Cardinality(Live') = Cardinality(Live) + 2
  <2>1. IsFiniteSet(Live \cup {L}) /\ Cardinality(Live \cup {L}) = Cardinality(Live) + 1
    BY <1>2, FS_AddElement DEF Counted
  <2>2. /\ IsFiniteSet((Live \cup {L}) \cup {R})
        /\ Cardinality((Live \cup {L}) \cup {R}) = Cardinality(Live \cup {L}) + 1
    BY <1>2, <2>1, FS_AddElement
  <2>3. (Live \cup {L}) \cup {R} = Live'
    BY <1>2
  <2>4. Cardinality(Live) \in Nat
    BY CountedSets
  <2>5. Cardinality(Live') = (Cardinality(Live) + 1) + 1
    BY <2>1, <2>2, <2>3
  <2>6. IsFiniteSet(Live')
    BY <2>2, <2>3
  <2>. QED
    BY <2>4, <2>5, <2>6
<1>7. PoolBalance'
  <2>1. pool' + Cardinality(Live') + Cardinality(Holding')
          = NumStatic + NodesPerPage * Cardinality(pages)
    BY <1>1, <1>5, <1>6, CountedSets
  <2>. QED
    BY <1>1, <2>1 DEF PoolBalance, Holding
<1>. QED
  BY <1>1, <1>6, <1>7 DEF Counted

(* A node becomes a toplevel block.                                        *)
LEMMA AppendCounts ==
  ASSUME IInv, Counted, AppendToplevel
  PROVE  Counted'
<1>1. /\ pool > 0 /\ pool' = pool - 1 /\ calls' = << >> /\ pages' = pages
  BY DEF AppendToplevel
<1>2. PICK b : /\ Live' = Live \cup {b} /\ b \notin Live
               /\ Len(calls) = 1 /\ calls[1].pc = "toplevel"
  BY AppendFacts
<1>3. Holding = {} /\ Holding' = {}
  <2>1. Len(calls') = 0
    BY <1>1
  <2>. QED
    BY <1>2, <2>1 DEF Holding
<1>4. IsFiniteSet(Live') /\ Cardinality(Live') = Cardinality(Live) + 1
  BY <1>2, FS_AddElement DEF Counted
<1>5. PoolBalance'
  <2>1. pool' + Cardinality(Live') + Cardinality(Holding')
          = NumStatic + NodesPerPage * Cardinality(pages)
    BY <1>1, <1>3, <1>4, CountedSets
  <2>. QED
    BY <1>1, <2>1 DEF PoolBalance, Holding
<1>. QED
  BY <1>1, <1>4, <1>5 DEF Counted

(* What SetUpPage does: the page of the only call becomes nodes.           *)
LEMMA SetUpFacts ==
  ASSUME IInv, IInv', PoolTells, SetUpPage, NEW p, p = Now.page
  PROVE  /\ p \in Added /\ p \notin pages /\ pages' = pages \cup {p}
         /\ Added = {p} /\ Added' = {} /\ Holding' = Holding
         /\ pool' = pool + NodesPerPage /\ tree' = tree
         /\ overwritten' = overwritten \cup InReach(p, MemsetSize)
<1>1. /\ calls # << >> /\ Now.grow = "map"
      /\ calls' = SetNow([Now EXCEPT !.grow = "no"])
      /\ pages' = pages \cup {p} /\ pool' = pool + NodesPerPage /\ tree' = tree
      /\ overwritten' = overwritten \cup InReach(p, MemsetSize)
  BY DEF SetUpPage, Running
<1>2. Now \in Call /\ Now = calls[1] /\ Len(calls) = 1
  BY <1>1, NowFacts DEF Now
<1>3. PICK c : calls' = SetNow(c) /\ c.pc = Now.pc /\ c.grow = "no"
  BY <1>1, <1>2 DEF Call
<1>4. Len(calls') = 1 /\ calls'[1] = c
  BY <1>1, <1>2, <1>3, MovedCalls
<1>5. Added = {p} /\ Added' = {} /\ Holding' = Holding
  <2>1. \A k \in 1 .. 1 : k = 1
    OBVIOUS
  <2>2. Added = {p}
    BY <1>1, <1>2, <2>1 DEF Added
  <2>3. Added' = {}
    BY <1>3, <1>4, <2>1 DEF Added
  <2>4. calls'[1].pc = calls[1].pc /\ Len(calls') = Len(calls)
    BY <1>2, <1>3, <1>4
  <2>5. Holding' = Holding
    BY <1>2, <2>1, <2>4 DEF Holding
  <2>. QED
    BY <2>2, <2>3, <2>5
<1>6. p \notin pages
  <2>1. p \in Block /\ \A q \in pages : End(q) <= p.start
    BY <1>5 DEF PoolTells, PagesInOrder, IInv, TypeOK, Used
  <2>. QED
    BY <2>1, BlockFacts
<1>. QED
  BY <1>1, <1>5, <1>6

LEMMA SetUpCounts ==
  ASSUME IInv, IInv', PoolTells, SetUpPage
  PROVE  Counted'
<1>1. PICK p : /\ p \notin pages /\ pages' = pages \cup {p} /\ Holding' = Holding
               /\ pool' = pool + NodesPerPage /\ tree' = tree
  BY SetUpFacts
<1>2. IsFiniteSet(pages') /\ Cardinality(pages') = Cardinality(pages) + 1
  BY <1>1, FS_AddElement DEF PoolTells, Counted
<1>3. Live' = Live
  BY <1>1 DEF Live
<1>4. PoolBalance'
  <2>1. \A m, n \in Nat : m * (n + 1) = m * n + m
    OBVIOUS
  <2>2. NodesPerPage * Cardinality(pages') = NodesPerPage * Cardinality(pages) + NodesPerPage
    BY <1>2, <2>1, CountedSets DEF PoolTells
  <2>3. pool' + Cardinality(Live) + Cardinality(Holding)
          = NumStatic + NodesPerPage * Cardinality(pages')
    <3>1. PICK x \in Nat : x = NodesPerPage * Cardinality(pages)
      BY CountedSets DEF PoolTells
    <3>2. pool + Cardinality(Live) + Cardinality(Holding) = NumStatic + x
      BY <3>1, CountedSets DEF PoolTells
    <3>3. NodesPerPage * Cardinality(pages') = x + NodesPerPage
      BY <2>2, <3>1
    <3>4. /\ pool \in Nat /\ NodesPerPage \in Nat /\ NumStatic \in Nat
          /\ Cardinality(Live) \in Nat /\ Cardinality(Holding) \in Nat
      BY CountedSets DEF PoolTells
    <3>. QED
      BY <1>1, <3>2, <3>3, <3>4
  <2>. QED
    BY <1>1, <1>3, <2>3 DEF PoolBalance, Holding
<1>. QED
  BY <1>2, <1>3, <1>4 DEF PoolTells, Counted

-------------------------------------------------------------------------------
(* The order of the pages.                                                 *)

(* Pages are blocks.                                                       *)
LEMMA PagesAreBlocks ==
  ASSUME IInv, PagesInOrder
  PROVE  /\ \A p \in pages \cup Added : p \in Used /\ p \in Live /\ p \in Block
         /\ \A p \in pages \cup Added : p.start \in Nat /\ End(p) \in Nat /\ p.start < End(p)
<1>1. \A p \in pages \cup Added : p \in Used /\ p \in Live /\ p \in Block
  BY DEF PagesInOrder, Used, IInv, TypeOK
<1>. QED
  BY <1>1, BlockFacts

(* The memset of the new page leaves the older ones alone.                 *)
LEMMA SetUpOrder ==
  ASSUME IInv, IInv', PoolTells, SetUpPage
  PROVE  PagesInOrder'
<1>1. PICK p : p = Now.page
  OBVIOUS
<1>2. /\ Added = {p} /\ Added' = {} /\ pages' = pages \cup {p} /\ tree' = tree
      /\ overwritten' = overwritten \cup InReach(p, MemsetSize)
  BY <1>1, SetUpFacts
<1>3. Used' = Used /\ FreeLeaves' = FreeLeaves
  BY <1>2 DEF Live, Used, FreeLeaves, CanAllocate, CanAllocateIn
<1>4. InReach(p, MemsetSize) \subseteq Used
  BY DEF InReach, Used
<1>5. InReach(p, MemsetSize) \cap (pages \cup {p}) = {}
  <2>1. ASSUME NEW q \in pages PROVE ~(p.start < End(q))
    BY <1>2, PagesAreBlocks DEF PoolTells, PagesInOrder
  <2>. QED
    BY <2>1 DEF InReach
<1>. QED
  BY <1>2, <1>3, <1>4, <1>5 DEF PoolTells, PagesInOrder

(* A half of a free leaf lies where the leaf does.                         *)
LEMMA SplitOrder ==
  ASSUME IInv, IInv', PagesInOrder, SplitRight
  PROVE  PagesInOrder'
<1>1. PICK b : b = Now.at
  OBVIOUS
<1>. DEFINE L == Left(b)
            R == Right(b)
<1>2. /\ b \in FreeLeaves /\ b.start \in Nat /\ R.start \in Nat
      /\ L.start = b.start /\ b.start < R.start
      /\ Live' = Live \cup {L, R} /\ L \notin Live /\ R \notin Live
      /\ tree'[L] = NewNode(b) /\ tree'[R] = NewNode(b)
      /\ b \in Live /\ tree'[b].split /\ tree'[b].flags = tree[b].flags
      /\ \A d \in Live : d # b => tree'[d] = tree[d]
  BY <1>1, SplitFacts
<1>3. /\ calls # << >> /\ pages' = pages /\ overwritten' = overwritten
      /\ calls' = SetNow([Now EXCEPT !.at = L, !.pc = "visit"])
  BY <1>1 DEF SplitRight, Running
<1>4. Added' \subseteq Added
  <2>. DEFINE c == [Now EXCEPT !.at = L, !.pc = "visit"]
  <2>1. Now \in Call
    BY <1>3, NowFacts
  <2>2. c.grow = Now.grow /\ c.page = Now.page
    BY <2>1 DEF Call
  <2>. HIDE DEF c
  <2>. QED
    BY <1>3, <2>2, MovedSets DEF c
<1>. HIDE DEF L, R
<1>5. Used' = Used
  <2>1. tree'[L].flags = {} /\ tree'[R].flags = {}
    BY <1>2 DEF NewNode
  <2>. QED
    BY <1>2, <2>1 DEF Used
<1>6. \A f \in FreeLeaves' : f \in FreeLeaves \/ f = L \/ f = R
  BY <1>2 DEF FreeLeaves, CanAllocate, CanAllocateIn
<1>7. ASSUME NEW p \in pages \cup Added, NEW f \in FreeLeaves'
      PROVE  End(p) <= f.start
  <2>1. End(p) \in Nat /\ End(p) <= b.start
    BY <1>2, PagesAreBlocks DEF PagesInOrder
  <2>. QED
    BY <1>2, <1>6, <2>1 DEF PagesInOrder
<1>. QED
  BY <1>3, <1>4, <1>5, <1>7 DEF PagesInOrder

(* What ba_init has still to add lies beyond all blocks.                   *)
LEMMA AppendOrder ==
  ASSUME IInv, PagesInOrder, AppendToplevel
  PROVE  PagesInOrder'
<1>1. PICK b : b = Now.at
  OBVIOUS
<1>2. /\ \A c \in Live : End(c) <= b.start
      /\ Live' = Live \cup {b} /\ b \notin Live
      /\ \A c \in Live : tree'[c] = tree[c]
      /\ tree'[b] = [parent |-> NoBlock, split |-> FALSE, flags |-> {}]
  BY <1>1, AppendFacts
<1>3. pages' = pages /\ overwritten' = overwritten /\ calls' = << >>
  BY DEF AppendToplevel
<1>4. Added' = {}
  <2>1. Len(calls') = 0
    BY <1>3
  <2>. QED
    BY <2>1 DEF Added
<1>5. Used' = Used
  BY <1>2 DEF Used
<1>6. \A f \in FreeLeaves' : f \in FreeLeaves \/ f = b
  BY <1>2 DEF FreeLeaves, CanAllocate, CanAllocateIn
<1>7. \A p \in pages : \A f \in FreeLeaves' : End(p) <= f.start
  BY <1>2, <1>6, PagesAreBlocks DEF PagesInOrder
<1>. QED
  BY <1>3, <1>4, <1>5, <1>7 DEF PagesInOrder

(* What a return of palloc puts into the hands of the call below.          *)
LEMMA ReturnedSets ==
  ASSUME IInv, calls # << >>, Now.pc # "right", NEW b, Return(b),
         Len(calls) <= 2 \/ Addr(b) = 0
  PROVE  /\ Holding' = Holding
         /\ Added' \subseteq Added \/ (Len(calls) = 2 /\ Addr(b) # 0 /\ Added' = {b})
<1>1. Len(calls) \in Nat /\ Len(calls) >= 1 /\ Now = calls[Len(calls)]
  BY NowFacts DEF Now
<1>2. CASE Len(calls) = 1
  <2>1. calls' = << >> /\ Len(calls') = 0
    BY <1>2 DEF Return
  <2>2. \A k \in 1 .. 1 : k = 1
    OBVIOUS
  <2>3. Holding = {} /\ Holding' = {} /\ Added' = {}
    BY <1>1, <1>2, <2>1, <2>2 DEF Holding, Added
  <2>. QED
    BY <2>3
<1>3. CASE calls' = calls
  BY <1>3 DEF Holding, Added
<1>4. CASE Len(calls) > 1 /\ Addr(b) # 0
  <2>0. \A i \in Nat : i > 1 /\ i <= 2 => i = 2
    OBVIOUS
  <2>1. Len(calls) = 2
    BY <1>1, <1>4, <2>0
  <2>2. PICK d : /\ calls' = << d >> /\ d.pc = calls[1].pc /\ d.grow = "map"
                 /\ \/ d.page = b
                    \/ calls[1].grow = "map" /\ d.page = calls[1].page
    BY <1>4, <2>1, ResumeFacts
  <2>3. Len(calls') = 1 /\ calls'[1] = d
    BY <2>2
  <2>4. /\ \A k \in 1 .. 1 : k = 1
        /\ \A k \in 1 .. 2 : k = 1 \/ k = 2
        /\ 1 \in 1 .. 1 /\ 1 \in 1 .. 2
    OBVIOUS
  <2>5. Holding' = Holding
    BY <1>1, <2>1, <2>2, <2>3, <2>4 DEF Holding
  <2>6. Added' = {d.page}
    BY <2>2, <2>3, <2>4 DEF Added
  <2>7. calls[1].grow = "map" => calls[1].page \in Added
    BY <2>1, <2>4 DEF Added
  <2>. QED
    BY <1>4, <2>1, <2>2, <2>5, <2>6, <2>7
<1>. QED
  BY <1>2, <1>3, <1>4 DEF Return

(* palloc finds nothing.                                                   *)
LEMMA NullKeepsNodes ==
  ASSUME IInv, PoolTells, ReturnNull
  PROVE  PoolTells'
<1>1. /\ calls # << >> /\ Now.pc # "right" /\ Return(NoBlock) /\ Addr(NoBlock) = 0
      /\ UNCHANGED << tree, pool, pages, overwritten >>
  BY DEF ReturnNull, Running, Addr, NoBlock
<1>2. Holding' = Holding /\ Added' \subseteq Added
  BY <1>1, ReturnedSets
<1>. QED
  BY <1>1, <1>2, KeptNodes

(* A page for nodes is the lowest free page, and the search takes it.      *)
LEMMA TakeKeepsNodes ==
  ASSUME IInv, PoolTells, Take
  PROVE  PoolTells'
<1>1. /\ calls # << >> /\ Now.pc = "visit" /\ Now.at \in FreeLeaves /\ Len(calls) <= 2
      /\ tree' = MarkUsed(Now.at) /\ Return(Now.at)
      /\ UNCHANGED << pool, pages, overwritten >>
  BY TakeFacts DEF Take
<1>2. PICK b \in FreeLeaves : b = Now.at
  BY <1>1
<1>3. tree' = MarkUsed(b)
  BY <1>1, <1>2
<1>4. /\ Live' = Live /\ FreeLeaves' = FreeLeaves \ {b} /\ b \in Live
      /\ \A c \in Live : c # b => ("USED" \in tree'[c].flags <=> "USED" \in tree[c].flags)
      /\ "USED" \in tree'[b].flags /\ "USED" \notin tree[b].flags
  BY <1>3, MarkUsedFacts, FreeLeafFacts DEF IInv, TreeInv
<1>5. Used' = Used \cup {b} /\ b \notin Used
  BY <1>4 DEF Used
<1>6. /\ Holding' = Holding
      /\ Added' \subseteq Added \/ (Len(calls) = 2 /\ Added' = {b})
  BY <1>1, <1>2, ReturnedSets
<1>7. ASSUME Len(calls) = 2, NEW f \in FreeLeaves'
      PROVE  End(b) <= f.start
  <2>1. CallOK(Now, Len(calls)) /\ Len(calls) > 1
    BY <1>1, <1>7, NowFacts
  <2>2. /\ f \in FreeLeaves /\ f # b /\ f \in Live /\ f \in Block /\ ~tree[f].split
        /\ b \in Block /\ ~tree[b].split
    BY <1>4, <1>7, FreeLeafFacts DEF IInv
  <2>3. Fits(f, Now.size)
    <3>1. Now.size = Size[MinOrder]
      BY <2>1 DEF CallOK
    <3>. QED
      BY <2>2, <3>1, BlockFacts, MinSize DEF Fits
  <2>4. b.start <= f.start
    BY <1>1, <1>2, <2>1, <2>2, <2>3 DEF CallOK, Ahead
  <2>5. Disjoint(b, f)
    BY <1>4, <2>2, LeafOverlap DEF IInv, TreeInv
  <2>. QED
    BY <2>2, <2>4, <2>5, BlockFacts DEF Disjoint
<1>8. PagesInOrder'
  <2>1. PagesInOrder
    BY DEF PoolTells
  <2>2. CASE Added' \subseteq Added
    BY <1>1, <1>4, <1>5, <2>1, <2>2 DEF PagesInOrder
  <2>3. CASE Len(calls) = 2 /\ Added' = {b}
    <3>1. pages \cup {b} \subseteq Used'
      BY <1>5, <2>1 DEF PagesInOrder
    <3>2. \A p \in pages \cup {b} : \A f \in FreeLeaves' : End(p) <= f.start
      BY <1>4, <1>7, <2>1, <2>3 DEF PagesInOrder
    <3>3. \A p \in pages : End(p) <= b.start
      BY <2>1 DEF PagesInOrder
    <3>4. overwritten \subseteq Used' /\ overwritten \cap (pages \cup {b}) = {}
      BY <1>5, <2>1 DEF PagesInOrder
    <3>. QED
      BY <1>1, <2>3, <3>1, <3>2, <3>3, <3>4 DEF PagesInOrder
  <2>. QED
    BY <1>6, <2>2, <2>3
<1>9. Counted'
  BY <1>1, <1>4, <1>6 DEF PoolTells, Counted, PoolBalance, Holding
<1>. QED
  BY <1>8, <1>9 DEF PoolTells

-------------------------------------------------------------------------------
(* What follows from it.                                                   *)

LEMMA InitPool == Init => PoolTells
<1>. SUFFICES ASSUME Init PROVE PoolTells
  OBVIOUS
<1>1. /\ Live = {} /\ pages = {} /\ overwritten = {} /\ pool = NumStatic
      /\ Len(calls) = 0
  BY DEF Init, Live
<1>2. Holding = {} /\ Added = {}
  BY <1>1 DEF Holding, Added
<1>3. Counted
  <2>1. /\ IsFiniteSet(Live) /\ IsFiniteSet(pages) /\ Cardinality(Live) = 0
        /\ Cardinality(pages) = 0 /\ Cardinality(Holding) = 0
    BY <1>1, <1>2, FS_EmptySet
  <2>2. NumStatic \in Nat /\ NodesPerPage * 0 = 0
    BY LimitAssumption
  <2>. QED
    BY <1>1, <2>1, <2>2 DEF Counted, PoolBalance, Holding
<1>4. PagesInOrder
  BY <1>1, <1>2 DEF PagesInOrder
<1>. QED
  BY <1>3, <1>4 DEF PoolTells

LEMMA NextPool == IInv /\ IInv' /\ PoolTells /\ [Next]_vars => PoolTells'
<1>. SUFFICES ASSUME IInv, IInv', PoolTells, [Next]_vars PROVE PoolTells'
  OBVIOUS
<1>1. CASE \/ SkipRange \/ InitToplevel \/ GrowFault \/ StackProt \/ UNCHANGED vars
           \/ \E size \in Requests : CallPalloc(size)
  BY <1>1, KernelKeepsNodes
<1>2. CASE Refuse \/ Descend \/ BeginSplit \/ TryRight \/ FailUp \/ NextToplevel
  BY <1>2, SearchKeepsNodes
<1>3. CASE Grow \/ AllocPageTable
  BY <1>3, GrowKeepsNodes
<1>4. CASE AppendToplevel
  BY <1>4, AppendCounts, AppendOrder DEF PoolTells
<1>5. CASE SplitLeft
  <2>1. PagesInOrder'
    <3>1. /\ calls # << >> /\ UNCHANGED << tree, pages, overwritten >>
          /\ calls' = SetNow([Now EXCEPT !.pc = "right"])
      BY <1>5 DEF SplitLeft, Running
    <3>2. PICK c : calls' = SetNow(c) /\ c.grow = Now.grow /\ c.page = Now.page
      BY <3>1, NowFacts DEF Call
    <3>. QED
      BY <3>1, <3>2, MovedSets, KeptPages DEF PoolTells
  <2>. QED
    BY <1>5, <2>1, SplitLeftCounts DEF PoolTells
<1>6. CASE SplitRight
  BY <1>6, SplitRightCounts, SplitOrder DEF PoolTells
<1>7. CASE SetUpPage
  BY <1>7, SetUpCounts, SetUpOrder DEF PoolTells
<1>8. CASE Take
  BY <1>8, TakeKeepsNodes
<1>9. CASE ReturnNull
  BY <1>9, NullKeepsNodes
<1>. QED
  BY <1>1, <1>2, <1>3, <1>4, <1>5, <1>6, <1>7, <1>8, <1>9 DEF Next, Step

LEMMA PoolInvariant == Spec => []PoolTells
<1>. QED
  BY InitPool, NextPool, Invariant, PTL DEF Spec

(* No node is lost or counted twice, in splits that are interrupted by     *)
(* refills and in those that never come to an end.                         *)
THEOREM NoNodeLost == Spec => []PoolBalance
<1>. QED
  BY PoolInvariant, PTL DEF PoolTells, Counted

(* The memset in ba_init_blocknode_range, too long as it is, never runs    *)
(* over nodes that are in use, for any number of bytes.                    *)
THEOREM NodesStayIntact == Spec => []NodesIntact
<1>1. PoolTells => NodesIntact
  BY DEF PoolTells, PagesInOrder, NodesIntact
<1>. QED
  BY <1>1, PoolInvariant, PTL
===============================================================================
