---------------------------- MODULE FrameAllocator ----------------------------
(***************************************************************************)
(* What phys.h promises its callers, without trees, flags or recursion:    *)
(* palloc(size) hands out a block of physical memory that is large enough, *)
(* lies in the memory the allocator manages and overlaps nothing it handed *)
(* out before; it returns null only when no such block exists.             *)
(*                                                                         *)
(* A block is [start, order] and covers Size[order] bytes from start.  The *)
(* blocks that may be handed out are those of the binary buddy system: the *)
(* naturally aligned power-of-two pieces of a zone.                        *)
(***************************************************************************)
EXTENDS Integers

CONSTANTS
  MinOrder,   \* order of the smallest block
  MaxOrder,   \* order of the largest zone
  Size,       \* Size[o] is 2^o, the length of a block of order o
  Address,    \* the physical addresses at which memory may be
  Requests    \* the sizes that are asked for

VARIABLES
  zones,      \* the blocks of managed memory
  owned,      \* the blocks handed out
  ret         \* the latest answer: the size asked for, the block or NoBlock

vars == << zones, owned, ret >>

Orders == MinOrder .. MaxOrder
Block == [start : Address, order : Orders]
NoBlock == [start |-> 0, order |-> 0]

End(b) == b.start + Size[b.order]
Disjoint(b, c) == End(b) <= c.start \/ End(c) <= b.start

(* The pieces of order o into which zone z divides. *)
Pieces(z, o) ==
  { [start |-> z.start + i * Size[o], order |-> o] :
      i \in 0 .. (Size[z.order] \div Size[o]) - 1 }

(* The blocks that a request for size bytes could be given. *)
Room(size) ==
  { b \in UNION { Pieces(z, o) : z \in zones, o \in Orders } :
      /\ Size[b.order] >= size
      /\ \A c \in owned : Disjoint(b, c) }

Init ==
  /\ zones = {}
  /\ owned = {}
  /\ ret = [size |-> 0, block |-> NoBlock]

(* Memory is added block by block while the allocator initialises. *)
AddZone ==
  /\ \E z \in Block :
       /\ \A y \in zones : Disjoint(y, z)
       /\ zones' = zones \cup {z}
  /\ UNCHANGED << owned, ret >>

Alloc(size) ==
  /\ \E b \in Room(size) :
       /\ owned' = owned \cup {b}
       /\ ret' = [size |-> size, block |-> b]
  /\ UNCHANGED zones

Fail(size) ==
  /\ Room(size) = {}
  /\ ret' = [size |-> size, block |-> NoBlock]
  /\ UNCHANGED << zones, owned >>

Next ==
  \/ AddZone
  \/ \E size \in Requests : Alloc(size) \/ Fail(size)

Spec == Init /\ [][Next]_vars
===============================================================================
