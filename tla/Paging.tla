-------------------------------- MODULE Paging --------------------------------
(***************************************************************************)
(* mmap and tempmap of src/cpu/mem/paging.c.                               *)
(*                                                                         *)
(* Memory is counted in pages.  What matters of it are the entries of page *)
(* tables, which are pages like all others.  The processor and the code    *)
(* both follow them, in different ways: the processor from frame to frame  *)
(* (Walk), the code by using the address in an entry as a pointer, which   *)
(* the processor translates in its turn (Access).  That finds the table    *)
(* only if the table is mapped at its own physical address.  The code      *)
(* reaches the PML4 through the direct map in the upper half and the       *)
(* interim tables in the image of the kernel; of the upper half, which     *)
(* mmap is not asked to change, nothing else is modelled.                  *)
(*                                                                         *)
(* mmap is called by the refill of the allocator's pool and calls palloc,  *)
(* which in the meantime does not complete another refill                  *)
(* (NestedGrowthIsDoomed of BuddyAlloc) and hands out the lowest page that *)
(* is free (LowestFirst).                                                  *)
(***************************************************************************)
EXTENDS Integers, FiniteSetsExt

CONSTANTS
  Span,       \* Span[k]: pages below an entry of a table of level k; 512^(k-1) in the code
  PageCount,  \* pages of the lower half, and of physical memory
  PML4,       \* the frame in cr3
  BootTables, \* entries of page tables before the first call
  Leftover,   \* what memory that is free holds, taken as entries
  FreeSets,   \* the frames that palloc may hand out
  Requests    \* calls of mmap other than those of a refill

Levels == 1 .. 4
Pages == 0 .. PageCount - 1

ASSUME SpanAssumption ==
  /\ Span \in [1 .. 5 -> Nat \ {0}] /\ Span[1] = 1 /\ Span[5] = PageCount
  /\ \A k \in Levels : Span[k] < Span[k + 1] /\ Span[k + 1] % Span[k] = 0

ASSUME PageAssumption ==
  /\ PML4 \in Pages
  /\ \A S \in FreeSets : S \subseteq Pages \ {0, PML4}
  /\ Requests \subseteq [paddr : Pages, vaddr : Pages, size : Pages]

(* An address that leads nowhere, and the addresses of interim_temp_pages. *)
Nowhere == PageCount
Interim(i) == PageCount + 1 + i

VARIABLES
  mem,      \* the entries with PAGE_PRESENT, by frame and index
  free,     \* frames that palloc may still hand out
  call,     \* the mmap in progress
  status,   \* "running", or "fault": in page_fault_handler
  last,     \* history: the call that returned last
  before,   \* history: mem when that call, or the one in progress, was made
  starved   \* history: whether palloc has returned 0 to mmap

vars == << mem, free, call, status, last, before, starved >>

NoCall == [vaddr |-> 0]

Index(k, n) == (n \div Span[k]) % (Span[k + 1] \div Span[k])

Present(m, t, i) == << t, i >> \in DOMAIN m

(* PTFROMENTRY: an entry that is not present is zero.                      *)
Target(m, t, i) == IF Present(m, t, i) THEN m[<< t, i >>].at ELSE 0

Put(t, i, e) ==
  mem' = [x \in DOMAIN mem \cup {<< t, i >>} |-> IF x = << t, i >> THEN e ELSE mem[x]]

Table(a) == [at |-> a, huge |-> FALSE]

(* The tables of each level on the way of the processor to page n.  The    *)
(* address of an interim table is not that of a frame: it has bits set that *)
(* are reserved.                                                            *)
Through(m, t, i) ==
  IF t \in Pages /\ Present(m, t, i) /\ ~m[<< t, i >>].huge THEN m[<< t, i >>].at ELSE Nowhere

TablesOf(m, n) ==
  LET pdpt == Through(m, PML4, Index(4, n))
      pdt == Through(m, pdpt, Index(3, n))
      pt == Through(m, pdt, Index(2, n))
  IN << pt, pdt, pdpt, PML4 >>

(* The translation of page n by the processor, which ends at a page table   *)
(* or at an entry for a large page.                                         *)
Ends(m, n, k) ==
  LET t == TablesOf(m, n)[k]
  IN /\ t \in Pages /\ Present(m, t, Index(k, n))
     /\ k = 1 \/ m[<< t, Index(k, n) >>].huge
Walk(m, n) ==
  LET leaves == {Target(m, TablesOf(m, n)[k], Index(k, n)) + (n % Span[k]) :
                   k \in {j \in Levels : Ends(m, n, j)}}
  IN IF leaves = {} THEN Nowhere ELSE Min(leaves)

(* The frame that the code reads and writes at an address.                 *)
Access(m, a) == IF a > PageCount THEN a ELSE Walk(m, a)

(* translate_virt_to_phys, while every table is within reach: 0 stands for *)
(* an address that is not mapped.                                          *)
TablesAccessed(m, n) ==
  LET pdpt == Access(m, Target(m, PML4, Index(4, n)))
      pdt == Access(m, Target(m, pdpt, Index(3, n)))
      pt == Access(m, Target(m, pdt, Index(2, n)))
  IN << pt, pdt, pdpt, PML4 >>
translate_NoLarge(m, n) ==
  LET table == TablesAccessed(m, n)
      Found(k) == Present(m, table[k], Index(k, n))
      end == Max({k \in Levels : ~Found(k) \/ k = 1})
  IN IF Found(end) THEN Target(m, table[end], Index(end, n)) + (n % Span[end]) ELSE 0
translate(m, n) ==
  LET table == TablesAccessed(m, n)
      Found(k) == Present(m, table[k], Index(k, n))
      Large(k) == k \in {2, 3} /\ m[<< table[k], Index(k, n) >>].huge
      end == Max({k \in Levels : ~Found(k) \/ k = 1 \/ Large(k)})
  IN IF Found(end) THEN Target(m, table[end], Index(end, n)) + (n % Span[end]) ELSE 0

Init ==
  /\ free \in FreeSets
  /\ mem = [x \in DOMAIN BootTables \cup {y \in DOMAIN Leftover : y[1] \in free} |->
               IF x \in DOMAIN BootTables THEN BootTables[x] ELSE Leftover[x]]
  /\ call = NoCall /\ last = NoCall
  /\ status = "running"
  /\ before = mem
  /\ starved = FALSE

-------------------------------------------------------------------------------
Idle == status = "running" /\ call = NoCall
Busy == status = "running" /\ call # NoCall

Begin(r) ==
  /\ Idle
  /\ call' = [paddr |-> r.paddr, vaddr |-> r.vaddr, size |-> r.size,
              done |-> 0, level |-> 4, table |-> PML4,
              fresh |-> Nowhere, temp |-> 0, through |-> PML4]
  /\ before' = mem
  /\ UNCHANGED << mem, status, last, starved >>

(* Addresses of 0 are refused at once, and nothing changes.                *)
CallMmap(r) ==
  /\ r.paddr # 0 /\ r.vaddr # 0
  /\ Begin(r)
  /\ UNCHANGED free

(* palloc returns 0 when there is nothing left. *)
Palloc == IF free = {} THEN 0 ELSE Min(free)

(* ba_alloc_new_blockpage: mmap_identity of a page.                        *)
Refill ==
  /\ free # {}
  /\ Begin([paddr |-> Palloc, vaddr |-> Palloc, size |-> 1])
  /\ free' = free \ {Palloc}

(* The frame of the table that mmap, or tempmap, accesses next.            *)
Here == IF call.temp = 0
          THEN IF call.level = 4 THEN PML4 ELSE Access(mem, call.table)
          ELSE IF call.temp = 4 THEN PML4 ELSE Access(mem, call.through)

AtLevel(k) ==
  /\ Busy /\ call.temp = 0 /\ call.level = k
  /\ call.done < call.size
  /\ Here # Nowhere

(* The loop computes its indexes from vaddr, and not from vcursor.         *)
Slot_OfPaddr == Index(call.level, call.paddr)
Slot == Index(call.level, call.vaddr)

Huge == /\ call.level \in {2, 3}
        /\ call.vaddr % Span[call.level] = 0 /\ call.paddr % Span[call.level] = 0
        /\ call.size >= Span[call.level]

Descend(k) ==
  /\ AtLevel(k) /\ k > 1 /\ ~Huge /\ call.fresh = Nowhere
  /\ Present(mem, Here, Slot)
  /\ call' = [call EXCEPT !.level = k - 1, !.table = Target(mem, Here, Slot)]
  /\ UNCHANGED << mem, free, status, last, before, starved >>

(* A table is missing: palloc, and tempmap of the page at its own address. *)
AllocTable_Always(k) ==
  /\ AtLevel(k) /\ k > 1 /\ ~Huge /\ call.fresh = Nowhere
  /\ call' = [call EXCEPT !.fresh = Palloc, !.temp = 4, !.through = PML4]
  /\ free' = free \ {Palloc} /\ starved' = (starved \/ free = {})
  /\ UNCHANGED << mem, status, last, before >>
AllocTable_KeepsFree(k) ==
  /\ AtLevel(k) /\ k > 1 /\ ~Huge /\ call.fresh = Nowhere
  /\ ~Present(mem, Here, Slot)
  /\ call' = [call EXCEPT !.fresh = Palloc, !.temp = 4, !.through = PML4]
  /\ starved' = (starved \/ free = {})
  /\ UNCHANGED << mem, free, status, last, before >>
AllocTable(k) ==
  /\ AtLevel(k) /\ k > 1 /\ ~Huge /\ call.fresh = Nowhere
  /\ ~Present(mem, Here, Slot)
  /\ call' = [call EXCEPT !.fresh = Palloc, !.temp = 4, !.through = PML4]
  /\ free' = free \ {Palloc} /\ starved' = (starved \/ free = {})
  /\ UNCHANGED << mem, status, last, before >>

AtTempLevel(k) == Busy /\ call.temp = k /\ Here # Nowhere

(* The entry that tempmap looks at: on level 2 it takes the index of level *)
(* 3 to see whether there is a table.                                      *)
TempProbe(k) == Index(IF k = 2 THEN 3 ELSE k, call.fresh)

TempDescend(k) ==
  /\ AtTempLevel(k) /\ k > 1
  /\ LET i == Index(k, call.fresh)
         missing == ~Present(mem, Here, TempProbe(k))
         next == IF missing THEN Interim(4 - k) ELSE Target(mem, Here, i)
     IN /\ IF missing THEN Put(Here, i, Table(next)) ELSE UNCHANGED mem
        /\ call' = [call EXCEPT !.temp = k - 1, !.through = next]
  /\ UNCHANGED << free, status, last, before, starved >>

TempMap_AtVaddr ==
  /\ AtTempLevel(1)
  /\ Put(Here, Index(1, call.vaddr), Table(call.fresh))
  /\ call' = [call EXCEPT !.temp = 0]
  /\ UNCHANGED << free, status, last, before, starved >>
TempMap ==
  /\ AtTempLevel(1)
  /\ Put(Here, Index(1, call.fresh), Table(call.fresh))
  /\ call' = [call EXCEPT !.temp = 0]
  /\ UNCHANGED << free, status, last, before, starved >>

(* After tempmap has returned.  The new table is not cleared.              *)
InstallTable(k) ==
  /\ AtLevel(k) /\ call.fresh # Nowhere
  /\ Put(Here, Slot, Table(call.fresh))
  /\ call' = [call EXCEPT !.fresh = Nowhere, !.level = k - 1, !.table = call.fresh]
  /\ UNCHANGED << free, status, last, before, starved >>

(* An entry is written for the page, or the range below one entry of a     *)
(* higher level, and the loop starts over.                                 *)
MapEntry(k) ==
  /\ AtLevel(k) /\ (k = 1 \/ Huge)
  /\ Put(Here, Slot, [at |-> call.paddr, huge |-> k > 1])
  /\ call' = [call EXCEPT !.done = @ + Span[k], !.level = 4, !.table = PML4]
  /\ UNCHANGED << free, status, last, before, starved >>

Return_OffByOne ==
  /\ Busy /\ call.done + 1 >= call.size
  /\ call' = NoCall
  /\ last' = call
  /\ UNCHANGED << mem, free, status, before, starved >>
Return ==
  /\ Busy /\ call.done >= call.size
  /\ call' = NoCall
  /\ last' = call
  /\ UNCHANGED << mem, free, status, before, starved >>

PageFault ==
  /\ Busy /\ call.done < call.size /\ Here = Nowhere
  /\ status' = "fault"
  /\ UNCHANGED << mem, free, call, last, before, starved >>

Step ==
  \/ \E k \in Levels :
       Descend(k) \/ AllocTable(k) \/ TempDescend(k) \/ InstallTable(k) \/ MapEntry(k)
  \/ TempMap
  \/ Return
  \/ PageFault

Next == (\E r \in Requests : CallMmap(r)) \/ Refill \/ Step

Spec == Init /\ [][Next]_vars

-------------------------------------------------------------------------------
(* When palloc returns 0, mmap installs it as a table all the same.  From  *)
(* then on page 0 may be a table in several places.                        *)
Returned == Idle /\ last # NoCall /\ ~starved
Asked == last.vaddr .. last.vaddr + last.size - 1

(* mmap is described as "Map memory" (paging.c:206): a call that returns   *)
(* has mapped the first page that it was given.                            *)
FirstPageMapped == Returned /\ last.size > 0 => Walk(mem, last.vaddr) = last.paddr

(* The same, of all pages.                                                 *)
WholeRangeMapped ==
  Returned => \A n \in Asked : Walk(mem, n) = last.paddr + (n - last.vaddr)

(* It has left alone what was mapped elsewhere, and has mapped nothing     *)
(* else but, for good, its new tables at their own addresses (tempmap).    *)
OthersUnchanged ==
  Returned => \A n \in Pages \ Asked :
                \/ Walk(mem, n) = Walk(before, n)
                \/ Walk(before, n) = Nowhere /\ Walk(mem, n) = n

(* The translation in software is that of the processor.                   *)
TranslateRight ==
  Idle /\ ~starved => \A n \in Pages :
    translate(mem, n) = IF Walk(mem, n) = Nowhere THEN 0 ELSE Walk(mem, n)

(* No frame is a table in two places, or a table and free.                 *)
TablesApart ==
  LET Below(S) == {mem[x].at : x \in {y \in DOMAIN mem : y[1] \in S /\ ~mem[y].huge}}
      upper == {PML4} \cup Below({PML4}) \cup Below(Below({PML4}))
      links == {x \in DOMAIN mem : x[1] \in upper /\ ~mem[x].huge}
  IN ~starved => /\ \A x, y \in links : x # y => mem[x].at # mem[y].at
                 /\ \A x \in links : mem[x].at \notin free

(* Where memory is mapped, mmap stops the kernel only when tempmap has      *)
(* replaced a table by an interim one (paging.c:139).                       *)
FaultsOnlyByInterim ==
  status = "fault" /\ ~starved => \E x \in DOMAIN mem : mem[x].at > PageCount

(* mmap maps memory, and does not stop the kernel.                         *)
NoFault == status # "fault"
===============================================================================
