------------------------------ MODULE BuddyAlloc ------------------------------
(***************************************************************************)
(* The physical frame allocator of the kernel, src/cpu/mem/phys.c.         *)
(*                                                                         *)
(* palloc walks the binary trees of buddy blocks depth first, splitting    *)
(* free blocks on its way down.  Every new block takes a node from         *)
(* buddyalloc_free_pool, and when that pool is empty ba_new_block calls    *)
(* palloc itself, in the middle of the split or of the initialisation that *)
(* needed the node, and so may the mmap_identity that follows.  The module *)
(* is a small-step machine in which that recursion is explicit: "calls" is *)
(* the stack of palloc calls in progress, and a step is a piece of the     *)
(* code between two points where the recursion descends, backs out or is   *)
(* re-entered.  The kernel has a single thread and its interrupt handlers  *)
(* do not allocate, so nothing else interleaves with these steps.          *)
(*                                                                         *)
(* A block is identified by its address and order; the C call stack of     *)
(* ba_try_alloc_in, being the path of parents of the block it looks at, is *)
(* represented by that block alone.  The two children of a block are       *)
(* always linked together, so "split" stands for both pointers.            *)
(***************************************************************************)
EXTENDS Integers, Sequences, FiniteSets

CONSTANTS
  MinOrder,         \* MIN_BUDDY_BLOCK_SIZE
  MaxOrder,         \* the largest order of a toplevel block
  Size,             \* Size[o] is 1ULL << o
  MemMap,           \* the entries of the bootloader's memory map, as [base, end, usable]
  Requests,         \* the sizes that the kernel passes to palloc
  NumStatic,        \* NUM_STATIC_BLOCK_ALLOC
  NodesPerPage,     \* nodes that fit one page
  MemsetSize,       \* NUM_STATIC_BLOCK_ALLOC * sizeof(buddyalloc_block_node_t)
  PageTableLevels,  \* page tables that mmap may have to allocate for one page
  MaxStackDepth     \* MAXSTACKDEPTH of trace.h

Orders == MinOrder .. MaxOrder

ASSUME OrderAssumption ==
  MinOrder \in Nat \ {0} /\ MaxOrder \in Nat /\ MinOrder <= MaxOrder

ASSUME SizeAssumption ==
  /\ Size \in [MinOrder - 1 .. MaxOrder -> Nat \ {0}]
  /\ \A o \in Orders : Size[o] = 2 * Size[o - 1]
  /\ \A o, p \in MinOrder - 1 .. MaxOrder : o < p => Size[o] < Size[p]

(* The bootloader sorts the map and its usable entries do not overlap. *)
MapEntry == [base : Nat, end : Nat, usable : BOOLEAN]

ASSUME MemMapAssumption ==
  /\ MemMap \in Seq(MapEntry)
  /\ \A i, j \in 1 .. Len(MemMap) :
       i < j /\ MemMap[i].usable /\ MemMap[j].usable => MemMap[i].end <= MemMap[j].base

ASSUME LimitAssumption ==
  /\ Requests \subseteq Nat
  /\ NumStatic \in Nat /\ NodesPerPage \in Nat \ {0} /\ MemsetSize \in Nat
  /\ PageTableLevels \in Nat /\ MaxStackDepth \in Nat

VARIABLES
  ranges,       \* memory map entries that ba_init has still to turn into blocks
  toplevel,     \* buddyalloc_state.toplevel_blocks
  tree,         \* the blocks in the trees: parent, whether split, flags
  pool,         \* number of nodes in buddyalloc_free_pool
  pages,        \* the pages that ba_alloc_new_blockpage turned into nodes
  overwritten,  \* blocks in use that the memset of another page has run over
  calls,        \* the palloc calls in progress, innermost last
  ret,          \* the latest return of palloc: size asked, block or NoBlock
  status        \* "running", or how the kernel stopped

vars == << ranges, toplevel, tree, pool, pages, overwritten, calls, ret, status >>

-------------------------------------------------------------------------------
(* Blocks and the trees they form. *)

Flags == {"USED", "UNAVAILABLE", "NONEMPTY", "NO_2M"}
Block == [start : Nat, order : Orders]
NoBlock == [start |-> 0, order |-> 0]
Node == [parent : Block \cup {NoBlock}, split : BOOLEAN, flags : SUBSET Flags]

Live == DOMAIN tree

End(b) == b.start + Size[b.order]
Inside(b, c) == c.start <= b.start /\ End(b) <= End(c)
Disjoint(b, c) == End(b) <= c.start \/ End(c) <= b.start

Left(b) == [start |-> b.start, order |-> b.order - 1]
Right(b) == [start |-> b.start + Size[b.order - 1], order |-> b.order - 1]

NewNode(p) == [parent |-> p, split |-> FALSE, flags |-> {}]

(* ba_can_allocate_in: nothing rules out allocating somewhere in b. *)
CanAllocateIn(b) == tree[b].flags \cap {"USED", "UNAVAILABLE"} = {}

(* ba_can_allocate: b itself can be handed out. *)
CanAllocate_IgnoresChildren(b) == CanAllocateIn(b)
CanAllocate(b) == ~tree[b].split /\ CanAllocateIn(b)

(* A block of order o is the right one for size bytes: half of it is too   *)
(* small, or it is as small as a block can be.                             *)
Snug(o, size) == o = MinOrder \/ Size[o - 1] < size

Sibling(b) ==
  LET p == tree[b].parent IN IF Left(p) = b THEN Right(p) ELSE Left(p)

(* ba_mark_used: b becomes USED, and its parent UNAVAILABLE if the sibling *)
(* is already USED or UNAVAILABLE.  Nothing further up the tree changes.   *)
FillsParent_Always(b) == tree[b].parent # NoBlock
FillsParent(b) == tree[b].parent # NoBlock /\ ~CanAllocateIn(Sibling(b))

MarkUsed(b) ==
  [c \in Live |->
     IF c = b THEN [tree[c] EXCEPT !.flags = @ \cup {"USED"}]
     ELSE IF c = tree[b].parent /\ FillsParent(b)
       THEN [tree[c] EXCEPT !.flags = @ \cup {"UNAVAILABLE"}]
     ELSE tree[c]]

(* ba_split once it has both nodes: fresh children are linked below b.     *)
Split(b) ==
  [c \in Live \cup {Left(b), Right(b)} |->
     IF c \in {Left(b), Right(b)} THEN NewNode(b)
     ELSE IF c = b THEN [tree[c] EXCEPT !.split = TRUE]
     ELSE tree[c]]

AddToplevel(b) ==
  [c \in Live \cup {b} |-> IF c = b THEN NewNode(NoBlock) ELSE tree[c]]

-------------------------------------------------------------------------------
(* The stack of calls.                                                     *)
(*                                                                         *)
(*   size, depth  the request, and the trace depth at the call             *)
(*   top, at      index of the toplevel block, and the block looked at     *)
(*   pc           "visit"     about to run ba_try_alloc_in(at)             *)
(*                "fail"      ba_try_alloc_in(at) has returned nullptr     *)
(*                "none"      no toplevel block is left                    *)
(*                "left"      in ba_split(at), before the first node       *)
(*                "right"     in ba_split(at), holding the left node       *)
(*                "toplevel"  in ba_init_toplevel_block(at), not in palloc *)
(*   grow         where in ba_alloc_new_blockpage, called for a node:      *)
(*                "no", "page" (getting the page), "map" (in               *)
(*                mmap_identity and what follows it)                       *)
(*   page         the page that is to be turned into nodes                 *)
(*   missing      page tables that mmap has still to allocate              *)

Call ==
  [size : Nat, depth : Nat, top : Nat, at : Block \cup {NoBlock},
   pc : {"visit", "fail", "none", "left", "right", "toplevel"},
   grow : {"no", "page", "map"}, page : Block \cup {NoBlock}, missing : Nat]

Now == calls[Len(calls)]
SetNow(c) == [calls EXCEPT ![Len(calls)] = c]

(* The loop over toplevel_blocks in ba_alloc_block reaches the i-th one.   *)
Reach(c, i) ==
  IF i \in 1 .. Len(toplevel)
    THEN [c EXCEPT !.top = i, !.at = toplevel[i], !.pc = "visit"]
    ELSE [c EXCEPT !.top = i, !.at = NoBlock, !.pc = "none"]

Palloc(size, depth) ==
  Reach([size |-> size, depth |-> depth, top |-> 0, at |-> NoBlock, pc |-> "none",
         grow |-> "no", page |-> NoBlock, missing |-> 0], 1)

(* tracestackdepth while call c runs: one for each function it has entered *)
(* with trace_enter and not left.  ba_new_block counts, and in             *)
(* ba_init_toplevel_block and ba_split it is the function that is running. *)
Depth(c) ==
  CASE c.pc = "toplevel"          -> c.depth + 2
    [] c.pc = "none"              -> c.depth + 2
    [] c.pc \in {"visit", "fail"} -> c.depth + 3 + toplevel[c.top].order - c.at.order
    [] c.pc \in {"left", "right"} -> c.depth + 5 + toplevel[c.top].order - c.at.order

Fits(b, size) == Size[b.order] >= size

(* The kernel runs, and _stackprot has not stopped it.                     *)
Running ==
  /\ status = "running"
  /\ calls # << >>
  /\ Depth(Now) <= MaxStackDepth

Idle == status = "running" /\ calls = << >>

Init ==
  /\ ranges = MemMap
  /\ toplevel = << >>
  /\ tree = << >>
  /\ pool = NumStatic
  /\ pages = {}
  /\ overwritten = {}
  /\ calls = << >>
  /\ ret = [size |-> 0, block |-> NoBlock]
  /\ status = "running"

-------------------------------------------------------------------------------
(* ba_init: the usable ranges become toplevel blocks.                      *)

(* Order o is the best fit for rem bytes: the loop in                      *)
(* ba_create_toplevel_from_range counts down from MaxOrder to it.          *)
BestFit(o, rem) == Size[o] <= rem /\ (o < MaxOrder => rem < Size[o + 1])

Convertible_IgnoresType(r) == r.base + Size[MinOrder] <= r.end
Convertible(r) == r.usable /\ r.base + Size[MinOrder] <= r.end

(* An entry that is not usable, or has less than a page left, is done.     *)
SkipRange ==
  /\ Idle /\ ranges # << >>
  /\ ~Convertible(Head(ranges))
  /\ ranges' = Tail(ranges)
  /\ UNCHANGED << toplevel, tree, pool, pages, overwritten, calls, ret, status >>

(* ba_init_toplevel_block is called, from kmain by way of init_phys,       *)
(* ba_init and ba_create_toplevel_from_range: at trace depth 3.            *)
InitToplevel ==
  /\ Idle /\ ranges # << >>
  /\ LET r == Head(ranges) IN
       /\ Convertible(r)
       /\ \E o \in Orders :
            /\ BestFit(o, r.end - r.base)
            /\ calls' = << [size |-> 0, depth |-> 3, top |-> 0,
                            at |-> [start |-> r.base, order |-> o], pc |-> "toplevel",
                            grow |-> "no", page |-> NoBlock, missing |-> 0] >>
  /\ UNCHANGED << ranges, toplevel, tree, pool, pages, overwritten, ret, status >>

(* ... and, when ba_new_block has a node, appends the block to the list.   *)
AppendToplevel_Prepends ==
  /\ Running /\ Now.pc = "toplevel" /\ Now.grow = "no" /\ pool > 0
  /\ pool' = pool - 1
  /\ toplevel' = << Now.at >> \o toplevel
  /\ tree' = AddToplevel(Now.at)
  /\ ranges' = [ranges EXCEPT ![1].base = @ + Size[Now.at.order]]
  /\ calls' = << >>
  /\ UNCHANGED << pages, overwritten, ret, status >>
AppendToplevel ==
  /\ Running /\ Now.pc = "toplevel" /\ Now.grow = "no" /\ pool > 0
  /\ pool' = pool - 1
  /\ toplevel' = Append(toplevel, Now.at)
  /\ tree' = AddToplevel(Now.at)
  /\ ranges' = [ranges EXCEPT ![1].base = @ + Size[Now.at.order]]
  /\ calls' = << >>
  /\ UNCHANGED << pages, overwritten, ret, status >>

-------------------------------------------------------------------------------
(* palloc: the search.                                                     *)

(* The kernel calls palloc (trace depth 0) or pvalloc (1 inside it).       *)
CallPalloc(size) ==
  /\ Idle /\ ranges = << >>
  /\ \E depth \in {0, 1} : calls' = << Palloc(size, depth) >>
  /\ UNCHANGED << ranges, toplevel, tree, pool, pages, overwritten, ret, status >>

Visiting == Running /\ Now.pc = "visit"

(* The block has no room, or is too small: nullptr.                        *)
Refuse_OffByOne ==
  /\ Visiting
  /\ ~CanAllocateIn(Now.at) \/ Size[Now.at.order] <= Now.size
  /\ calls' = SetNow([Now EXCEPT !.pc = "fail"])
  /\ UNCHANGED << ranges, toplevel, tree, pool, pages, overwritten, ret, status >>
Refuse ==
  /\ Visiting
  /\ ~CanAllocateIn(Now.at) \/ ~Fits(Now.at, Now.size)
  /\ calls' = SetNow([Now EXCEPT !.pc = "fail"])
  /\ UNCHANGED << ranges, toplevel, tree, pool, pages, overwritten, ret, status >>

(* The block is split: look at the left child.                             *)
Descend_RightFirst ==
  /\ Visiting
  /\ CanAllocateIn(Now.at) /\ Fits(Now.at, Now.size) /\ tree[Now.at].split
  /\ calls' = SetNow([Now EXCEPT !.at = Right(Now.at)])
  /\ UNCHANGED << ranges, toplevel, tree, pool, pages, overwritten, ret, status >>
Descend_AnySide ==
  /\ Visiting
  /\ CanAllocateIn(Now.at) /\ Fits(Now.at, Now.size) /\ tree[Now.at].split
  /\ \E b \in {Left(Now.at), Right(Now.at)} : calls' = SetNow([Now EXCEPT !.at = b])
  /\ UNCHANGED << ranges, toplevel, tree, pool, pages, overwritten, ret, status >>
Descend ==
  /\ Visiting
  /\ CanAllocateIn(Now.at) /\ Fits(Now.at, Now.size) /\ tree[Now.at].split
  /\ calls' = SetNow([Now EXCEPT !.at = Left(Now.at)])
  /\ UNCHANGED << ranges, toplevel, tree, pool, pages, overwritten, ret, status >>

(* The block is a free leaf and larger than need be: ba_split.             *)
BeginSplit ==
  /\ Visiting
  /\ CanAllocate(Now.at) /\ Fits(Now.at, Now.size) /\ ~Snug(Now.at.order, Now.size)
  /\ calls' = SetNow([Now EXCEPT !.pc = "left"])
  /\ UNCHANGED << ranges, toplevel, tree, pool, pages, overwritten, ret, status >>

SplitLeft ==
  /\ Running /\ Now.pc = "left" /\ Now.grow = "no" /\ pool > 0
  /\ pool' = pool - 1
  /\ calls' = SetNow([Now EXCEPT !.pc = "right"])
  /\ UNCHANGED << ranges, toplevel, tree, pages, overwritten, ret, status >>

SplitRight ==
  /\ Running /\ Now.pc = "right" /\ Now.grow = "no" /\ pool > 0
  /\ pool' = pool - 1
  /\ tree' = Split(Now.at)
  /\ calls' = SetNow([Now EXCEPT !.at = Left(Now.at), !.pc = "visit"])
  /\ UNCHANGED << ranges, toplevel, pages, overwritten, ret, status >>

Failing == Running /\ Now.pc = "fail"
IsLeftChild(b) == tree[b].parent # NoBlock /\ b.start = tree[b].parent.start

(* After the left child its sibling is tried ...                           *)
TryRight_LeftAgain ==
  /\ Failing /\ IsLeftChild(Now.at)
  /\ calls' = SetNow([Now EXCEPT !.pc = "visit"])
  /\ UNCHANGED << ranges, toplevel, tree, pool, pages, overwritten, ret, status >>
TryRight ==
  /\ Failing /\ IsLeftChild(Now.at)
  /\ calls' = SetNow([Now EXCEPT !.at = Right(tree[Now.at].parent), !.pc = "visit"])
  /\ UNCHANGED << ranges, toplevel, tree, pool, pages, overwritten, ret, status >>

(* ... after the right child the parent returns nullptr ...                *)
FailUp_NoTraceExit ==
  /\ Failing /\ tree[Now.at].parent # NoBlock /\ ~IsLeftChild(Now.at)
  /\ calls' = SetNow([Now EXCEPT !.at = tree[Now.at].parent, !.depth = @ + 1])
  /\ UNCHANGED << ranges, toplevel, tree, pool, pages, overwritten, ret, status >>
FailUp ==
  /\ Failing /\ tree[Now.at].parent # NoBlock /\ ~IsLeftChild(Now.at)
  /\ calls' = SetNow([Now EXCEPT !.at = tree[Now.at].parent])
  /\ UNCHANGED << ranges, toplevel, tree, pool, pages, overwritten, ret, status >>

(* ... and after a toplevel block ba_alloc_block goes on to the next one.  *)
NextToplevel ==
  /\ Failing /\ tree[Now.at].parent = NoBlock
  /\ calls' = SetNow(Reach(Now, Now.top + 1))
  /\ UNCHANGED << ranges, toplevel, tree, pool, pages, overwritten, ret, status >>

-------------------------------------------------------------------------------
(* palloc: the return.                                                     *)

(* The address that palloc returns: 0 for null, and for the block at 0.    *)
Addr(b) == b.start

(* palloc returns block b.  To the kernel, the call is over.  To           *)
(* ba_alloc_new_blockpage, b becomes the page to map, and mmap finds that  *)
(* some of the page tables for it are missing; to mmap, b becomes one of   *)
(* those.  Neither checks for null: mmap_identity ignores the address 0,   *)
(* and writing the nodes or the page table there is a page fault.          *)
Return(b) ==
  LET caller == calls[Len(calls) - 1]
      resume(c) == calls' = Append(SubSeq(calls, 1, Len(calls) - 2), c)
  IN
  /\ ret' = [size |-> Now.size, block |-> b]
  /\ \/ /\ Len(calls) = 1
        /\ calls' = << >>
        /\ UNCHANGED status
     \/ /\ Len(calls) > 1 /\ Addr(b) = 0
        /\ status' = "fault"
        /\ UNCHANGED calls
     \/ /\ Len(calls) > 1 /\ Addr(b) # 0 /\ caller.grow = "page"
        /\ \E m \in 0 .. PageTableLevels :
             resume([caller EXCEPT !.grow = "map", !.page = b, !.missing = m])
        /\ UNCHANGED status
     \/ /\ Len(calls) > 1 /\ Addr(b) # 0 /\ caller.grow = "map"
        /\ resume([caller EXCEPT !.missing = @ - 1])
        /\ UNCHANGED status

(* The block is a free leaf of the right order: it is marked and returned, *)
(* through every ba_try_alloc_in that led to it.                           *)
Take ==
  /\ Visiting
  /\ CanAllocate(Now.at) /\ Fits(Now.at, Now.size) /\ Snug(Now.at.order, Now.size)
  /\ tree' = MarkUsed(Now.at)
  /\ Return(Now.at)
  /\ UNCHANGED << ranges, toplevel, pool, pages, overwritten >>

ReturnNull ==
  /\ Running /\ Now.pc = "none"
  /\ Return(NoBlock)
  /\ UNCHANGED << ranges, toplevel, tree, pool, pages, overwritten >>

-------------------------------------------------------------------------------
(* ba_alloc_new_blockpage: the pool grows by a page.                       *)

(* ba_new_block finds the pool empty, and a page is asked of palloc.       *)
Grow_Early ==
  /\ Running /\ Now.pc \in {"left", "right", "toplevel"} /\ Now.grow = "no"
  /\ pool <= 1
  /\ calls' = Append(SetNow([Now EXCEPT !.grow = "page"]),
                     Palloc(Size[MinOrder], Depth(Now) + 1))
  /\ UNCHANGED << ranges, toplevel, tree, pool, pages, overwritten, ret, status >>
Grow ==
  /\ Running /\ Now.pc \in {"left", "right", "toplevel"} /\ Now.grow = "no"
  /\ pool = 0
  /\ calls' = Append(SetNow([Now EXCEPT !.grow = "page"]),
                     Palloc(Size[MinOrder], Depth(Now) + 1))
  /\ UNCHANGED << ranges, toplevel, tree, pool, pages, overwritten, ret, status >>

(* mmap, two levels deeper, lacks a page table on the way to the page.     *)
AllocPageTable_TwoPages ==
  /\ Running /\ Now.grow = "map" /\ Now.missing > 0
  /\ calls' = Append(calls, Palloc(Size[MinOrder + 1], Depth(Now) + 2))
  /\ UNCHANGED << ranges, toplevel, tree, pool, pages, overwritten, ret, status >>
AllocPageTable ==
  /\ Running /\ Now.grow = "map" /\ Now.missing > 0
  /\ calls' = Append(calls, Palloc(Size[MinOrder], Depth(Now) + 2))
  /\ UNCHANGED << ranges, toplevel, tree, pool, pages, overwritten, ret, status >>

(* The blocks in use, other than page b itself, that n bytes from its      *)
(* start reach.                                                            *)
InReach(b, n) ==
  { c \in Live : /\ "USED" \in tree[c].flags /\ c # b
                 /\ c.start < b.start + n /\ b.start < End(c) }

(* ba_init_blocknode_range: the page becomes a list of nodes in the pool.  *)
(* Its memset clears as many bytes as the static array has, whatever the   *)
(* size of the range.                                                      *)
SetUpPage_CountsStatic ==
  /\ Running /\ Now.grow = "map" /\ Now.missing = 0
  /\ pool' = pool + NumStatic
  /\ pages' = pages \cup {Now.page}
  /\ overwritten' = overwritten \cup InReach(Now.page, MemsetSize)
  /\ calls' = SetNow([Now EXCEPT !.grow = "no"])
  /\ UNCHANGED << ranges, toplevel, tree, ret, status >>
SetUpPage ==
  /\ Running /\ Now.grow = "map" /\ Now.missing = 0
  /\ pool' = pool + NodesPerPage
  /\ pages' = pages \cup {Now.page}
  /\ overwritten' = overwritten \cup InReach(Now.page, MemsetSize)
  /\ calls' = SetNow([Now EXCEPT !.grow = "no"])
  /\ UNCHANGED << ranges, toplevel, tree, ret, status >>

(* mmap reaches page tables through addresses that need not be mapped, and *)
(* the memset may run on past the page that was mapped: a page fault.      *)
GrowFault ==
  /\ Running /\ Now.grow = "map"
  /\ status' = "fault"
  /\ UNCHANGED << ranges, toplevel, tree, pool, pages, overwritten, calls, ret >>

(* _stackprot, called on entry to a traced function, halts the kernel.     *)
StackProt ==
  /\ status = "running" /\ calls # << >> /\ Depth(Now) > MaxStackDepth
  /\ status' = "overflow"
  /\ UNCHANGED << ranges, toplevel, tree, pool, pages, overwritten, calls, ret >>

-------------------------------------------------------------------------------
(* The steps the kernel takes by itself, and with them the requests.       *)
Step ==
  \/ SkipRange \/ InitToplevel \/ AppendToplevel
  \/ Refuse \/ Descend \/ BeginSplit \/ SplitLeft \/ SplitRight
  \/ TryRight \/ FailUp \/ NextToplevel \/ Take \/ ReturnNull
  \/ Grow \/ AllocPageTable \/ SetUpPage \/ GrowFault \/ StackProt

Next == Step \/ \E size \in Requests : CallPalloc(size)

Spec == Init /\ [][Next]_vars

(* A processor that has started a piece of code goes on executing it; when *)
(* the next request comes is up to the rest of the kernel.                 *)
FairSpec == Spec /\ WF_vars(Step)

-------------------------------------------------------------------------------
(* Properties. *)

Used == { b \in Live : "USED" \in tree[b].flags }
FreeLeaves == { b \in Live : CanAllocate(b) }

(* Each variable holds values of its type. *)
TypeOK ==
  /\ ranges \in Seq(MapEntry)
  /\ toplevel \in Seq(Block)
  /\ Live \subseteq Block
  /\ tree \in [Live -> Node]
  /\ pool \in Nat
  /\ pages \subseteq Live
  /\ overwritten \subseteq Live
  /\ calls \in Seq(Call)
  /\ ret \in [size : Nat, block : Block \cup {NoBlock}]
  /\ status \in {"running", "fault", "overflow"}

(* No two blocks that palloc handed out overlap, the pages it handed to    *)
(* itself in the middle of a split included.                               *)
GrantsDisjoint == \A b, c \in Used : b = c \/ Disjoint(b, c)

(* Every block, handed out or not, is memory that the bootloader's map     *)
(* calls usable.                                                           *)
BlocksUsable ==
  \A b \in Live : \E i \in 1 .. Len(MemMap) :
    /\ MemMap[i].usable
    /\ MemMap[i].base <= b.start /\ End(b) <= MemMap[i].end

(* What ba_split requires, phys.c:218, of the block it splits holds when   *)
(* it is called and still holds after ba_new_block has called palloc back: *)
(* the block is a leaf, free, and larger than the smallest.                *)
SplitTargetsIntact ==
  \A k \in 1 .. Len(calls) : calls[k].pc \in {"left", "right"} =>
    /\ calls[k].at \in FreeLeaves
    /\ calls[k].at.order > MinOrder

(* BA_UNAVAILABLE, set one level up and never cleared, is never set on a   *)
(* block in which there is still something to allocate.                    *)
UnavailableSound ==
  \A b \in Live : "UNAVAILABLE" \in tree[b].flags =>
    \A f \in FreeLeaves : ~Inside(f, b)

(* The depth-first search never skips memory: whatever a call has passed   *)
(* is too small for it or in use, also when the tree has changed beneath   *)
(* it because of the calls nested in it.                                   *)
NothingSkipped ==
  \A k \in 1 .. Len(calls) : \A f \in FreeLeaves : Fits(f, calls[k].size) =>
    CASE calls[k].pc \in {"visit", "left", "right"} -> calls[k].at.start <= f.start
      [] calls[k].pc = "fail"     -> End(calls[k].at) <= f.start
      [] calls[k].pc = "none"     -> FALSE
      [] calls[k].pc = "toplevel" -> TRUE

(* The pool is refilled by one call at a time.  When palloc needs nodes    *)
(* for the very page it wants to make nodes of, no call nested in it can   *)
(* find that page: the recursion ends in a halt and never in a second      *)
(* refill, which would split the first caller's block behind its back.     *)
NestedGrowthIsDoomed ==
  \A k \in 1 .. Len(calls) :
    /\ calls[k].grow # "no" => pool = 0
    /\ k > 1 => pool = 0 /\ calls[k].grow # "map"

(* No node is lost or used twice: the nodes in the pool, in the trees and  *)
(* in the hands of a split in progress are those of the static array and   *)
(* of the pages that were added.                                           *)
PoolBalance ==
  pool + Cardinality(Live) + Cardinality({k \in 1 .. Len(calls) : calls[k].pc = "right"})
    = NumStatic + NodesPerPage * Cardinality(pages)

(* The memset of a new page of nodes runs past its end, but never over     *)
(* nodes that are already in use.                                          *)
NodesIntact == overwritten \cap pages = {}

(* A request leaves no block split for nothing: each one that is split     *)
(* has something in use inside it.                                         *)
NoIdleSplit ==
  Idle => \A b \in Live : tree[b].split => \E c \in Used : Inside(c, b)

(* After ba_init the toplevel blocks are, in the order of their addresses, *)
(* all the usable memory but for less than a page at the end of an entry.  *)
Covered(a) == \E i \in 1 .. Len(toplevel) :
                toplevel[i].start <= a /\ a < End(toplevel[i])

UsableTiled ==
  /\ \A i, j \in 1 .. Len(toplevel) : i < j => End(toplevel[i]) <= toplevel[j].start
  /\ Idle /\ ranges = << >> =>
       \A i \in 1 .. Len(MemMap) : MemMap[i].usable =>
         \A a \in MemMap[i].base .. MemMap[i].end - 1 :
           Covered(a) \/ \A x \in a .. MemMap[i].end - 1 :
                           ~Covered(x) /\ MemMap[i].end - a < Size[MinOrder]

(* The stack protection of trace.c stops the kernel in palloc only when    *)
(* the pool of nodes had run out: a search alone is never that deep.       *)
OverflowNeedsEmptyPool == status = "overflow" => pool = 0

(* phys.c:132 says that the page is set up as a list.  The memset that     *)
(* does so reaches into blocks that other owners have been given.          *)
OnlyThePageIsSetUp == overwritten = {}

(* Every grant is, of the free memory, the lowest that can hold it.        *)
LowestFirst ==
  [][ \A b \in Used' \ Used :
        \A f \in FreeLeaves : Fits(f, ret'.size) => b.start <= f.start ]_vars

(* Every call of palloc comes to an end, if only because the kernel stops. *)
PallocReturns == calls # << >> ~> (calls = << >> \/ status # "running")

(* palloc does what FrameAllocator promises.                               *)
Promise == INSTANCE FrameAllocator WITH
  Address <- UNION { MemMap[i].base .. MemMap[i].end - 1 : i \in 1 .. Len(MemMap) },
  Requests <- Requests \cup {Size[MinOrder]},
  zones <- { toplevel[i] : i \in 1 .. Len(toplevel) },
  owned <- Used

KeepsPromise == Promise!Spec
===============================================================================
