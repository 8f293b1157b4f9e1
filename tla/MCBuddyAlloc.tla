---------------------------- MODULE MCBuddyAlloc ----------------------------
(***************************************************************************)
(* Instances of BuddyAlloc for TLC.  The unit of memory is half a page, so *)
(* that requests of less than a page exist and MemsetSize, three and a     *)
(* half pages in the code, is a whole number.                              *)
(***************************************************************************)
EXTENDS BuddyAlloc

Powers(max) == [o \in 0 .. max |-> 2 ^ o]
Entry(base, end, usable) == [base |-> base, end |-> end, usable |-> usable]

(* Fragments, a reserved hole, remainders and a large zone: with one static *)
(* node and five to a page the pool runs out twice while ba_init still     *)
(* runs, and again while blocks are split for what is asked for later.     *)
GrowthSize == Powers(4)
GrowthMap ==
  << Entry(2, 4, TRUE), Entry(6, 8, TRUE), Entry(10, 13, TRUE), Entry(13, 16, FALSE),
     Entry(16, 23, TRUE), Entry(24, 26, TRUE), Entry(32, 49, TRUE) >>

(* A smaller map of the same kind.                                         *)
BootSize == Powers(3)
BootMap ==
  << Entry(2, 4, TRUE), Entry(6, 8, TRUE), Entry(10, 13, TRUE), Entry(13, 16, FALSE),
     Entry(16, 23, TRUE), Entry(30, 36, TRUE) >>

(* Entries that do not divide into equal zones, and one that is too small. *)
PlentySize == Powers(3)
PlentyMap ==
  << Entry(0, 1, TRUE), Entry(2, 13, TRUE), Entry(13, 20, FALSE), Entry(20, 30, TRUE) >>
=============================================================================
