------------------------------- MODULE EmptyMap -------------------------------
(***************************************************************************)
(* The setting in which mmap of src/cpu/mem/paging.c runs: boot.c:13 asks  *)
(* for base revision 4, under which the lower half of the address space is *)
(* empty when the kernel is entered, and main.c:94 stops under any other.  *)
(***************************************************************************)
EXTENDS Paging

ASSUME EmptyAssumption == DOMAIN BootTables = {} /\ DOMAIN Leftover \subseteq Pages \X Nat

(* A page that palloc has given out holds, at the index of its own address, *)
(* something that the processor takes for an entry.                         *)
ByLeftover == \E f \in (UNION FreeSets) \ free : Present(before, f, Index(3, f))

(* mmap has to write into a new table through the mapping of it that        *)
(* tempmap has just made (paging.c:257).  That mapping goes through interim *)
(* tables whose addresses are no physical addresses (paging.c:116), or      *)
(* begins at the very entry that mmap replaces (paging.c:238).  So no call  *)
(* returns that was asked for a page, and calls have made no entry but in   *)
(* the PML4 and the interim tables: they have not mapped a single page.     *)
(* The exceptions are a null of palloc, which makes page 0 a table, and a   *)
(* new table, which mmap does not clear, with the entry that is needed.     *)
NothingMapped ==
  ~starved /\ ~ByLeftover =>
    /\ last # NoCall => last.size = 0
    /\ \A x \in DOMAIN mem : x \in DOMAIN before \/ x[1] = PML4 \/ x[1] > PageCount
===============================================================================
