# Formal model of the oslimine kernel

oslimine is a small x86-64 kernel that the Limine bootloader starts. This
directory holds TLA+ modules that model it, the TLC configurations that check
them on small instances, and proofs, checked by TLAPS, of what holds of the
frame allocator, the lists, paging, the serial driver, the walk over the ACPI
tables, the C runtime and `kmain` for every value of the constants. Paths below are relative to the root
of the repository; the C code is in `src/`.

## The system

There is one processor, one thread and no preemption: `kmain` (`src/main.c`)
initialises the parts in order, makes its two allocations and halts. No handler
of an exception allocates, maps or returns anything to the code it interrupts.
Three things do run beside the kernel: the serial device, at a pace of its own,
an NMI, whose handler takes over the port, and after `sti` an interrupt that nobody has masked. Otherwise what makes the code hard
is not concurrency. It is *re-entrance* (the frame allocator allocates its own
bookkeeping from itself, in the middle of what it is doing), pointers shared
between lists, limits (a pool, a trace stack, page tables that may or may not be
there), unchecked failure of `palloc`, and walks over tables whose lengths come
from elsewhere.

| part | state | operations | interacts with | hard because | what makes it correct |
|---|---|---|---|---|---|
| physical frame allocator, `src/cpu/mem/phys.c` | `toplevel_blocks`, the trees below them, `buddyalloc_free_pool` | `init_phys`, `palloc`, `pvalloc` (there is no free: `ba_mark_free`, `ba_merge` and the lookups have no callers) | calls `mmap_identity` for a new page of nodes; memory map from `boot.c`; trace stack | `ba_new_block` calls `palloc` inside `ba_split` and `ba_init_toplevel_block`; memory may run out there | grants are disjoint, usable, big enough, lowest first; null only if nothing fits; a split never hits a block that has changed; no node lost; every call ends |
| intrusive lists, `src/std/list.c` | head (and tail) pointers, links in the nodes | append, prepend, remove, pop, of forward and double lists | the pool and the toplevel list share nodes, and so `next` pointers | a stale link left in a node joins two lists, or brings a node back | a list holds what was put in and not taken out, in order |
| paging, `src/cpu/mem/paging.c` | the page tables, `interim_temp_pages` | `mmap`, `mmap_identity`, `translate_virt_to_phys` (`tempmap` inside) | calls `palloc` for tables | tables reached through the mappings being changed; loop over pages; huge pages; null from `palloc` | what was mapped translates as asked, nothing else changes |
| trace, `src/trace.c`, `src/trace.h` | `tracestackdepth` | `trace_enter`, `trace_exit`, `_stackprot` | called by everything; writes to the serial port | the depth of a recursion decides whether the kernel halts | enter and exit balance on every path |
| serial driver, `src/drivers/serial.c`, `src/cpu/ports.c` | the UART's registers | `serial_init`, `write_serial*`, `read_serial` | used by trace and the exception handlers | busy waits on the device; a faulty device is reported to nobody; digits are found last first | what is written comes out, in order; nothing before the device has been tested |
| interrupts and exceptions, `src/cpu/interrupts.c`, `exceptions.c` | the IDT | `set_isr`, `init_interrupts`, handlers | serial driver | a handler that returns to a faulting instruction faults again; handlers write to the port that the interrupted code writes to | each vector has a handler of the right kind before the IDT is loaded |
| ACPI, `src/cpu/acpi/` | `rsdp`, `rsdt`, `xsdt`, `fadt_table`, `local_apic_address` | `init_acpi`, `init_from_table`, MADT and FADT readers | tables of the firmware, HHDM offset of `boot.c` | loops driven by lengths in the tables; several ways out | what is kept as FADT and MADT was checked (`rsdt` and `xsdt` themselves are not); walks end, and stay in the table, where the tables are sound |
| GDT, `boot.c`, `main.c` | descriptors; responses of the bootloader | `init_gdt`, the `get_limine_*` functions, `kmain` | all others | responses and allocations that may be null are used without a look | the kernel halts, one way or the other, and what it has said has gone out |
| C runtime, `src/libdef.c` | memory | `memcpy`, `memset`, `memmove`, `memcmp` | called by the compiler too | overlapping ranges, an index that counts down | the destination holds what the source held |

`PROJECT.json` lists the hazards at their lines, with the properties that
would catch them going wrong.

## Modules

* `FrameAllocator.tla`: the abstract specification. Managed memory is a set of
  zones; `Alloc(size)` hands out a power-of-two piece of a zone that is large
  enough and overlaps nothing owned; `Fail(size)` is allowed only if there is no
  such piece. No trees, flags, pool or recursion.
* `BuddyAlloc.tla`: the allocator as the code has it.
* `MCBuddyAlloc.tla` and `MCBuddyAlloc_*.cfg`: its instances for TLC.
* `BuddyAllocProofs.tla`: the inductive invariant and the theorems that follow from it, with those about the
  trace stack and about `ba_init` and the memory map;
  `BuddyAllocRefinementProofs.tla` extends it with the proof that `FrameAllocator` is implemented and
  with the theorems about the nodes of the pool.
* `Induction.tla`: lemmas on induction and recursion over the natural numbers that the proofs share.
* `NodeLists.tla`: the abstract specification of `list.h`: each list is a
  sequence of nodes, a node is in one list at most.
* `ForwardList.tla`, `DoubleList.tla`: the functions of `list.c` on `head`,
  `tail`, `next` and `prev`, which implement `NodeLists`; `Links.tla`: what both find by following links;
  `MCLists.tla` and `MCLists.cfg`: both side by side, and an instance; `ListProofs.tla`.
* `Paging.tla`, `MCPaging.tla` and `MCPaging_*.cfg`: `mmap`, `tempmap` and
  `translate_virt_to_phys` on page tables in memory. `EmptyMap.tla`, `MCEmptyMap.tla`: the setting in which the kernel
  runs, its lower half empty; `PagingProofs.tla`: what is proved of it.
* `Serial.tla`, `MCSerial.tla`, `MCSerial.cfg`: the driver and the UART.
* `AcpiWalk.tla`, `MCAcpiWalk.tla`, `MCAcpiWalk.cfg`: `init_acpi`;
  `AcpiWalkProofs.tla`.
* `CRuntime.tla`, `CRuntime.cfg`: the functions of `libdef.c`;
  `CRuntimeProofs.tla`.
* `Kernel.tla`, `MCKernel.tla`, `MCKernel.cfg`: `kmain`, the descriptor tables and
  the exceptions, composed with `Serial`, which it extends; `KernelProofs.tla`: the proofs about both.

How they hang together: `BuddyAlloc` counts the nodes of the pool where
`ForwardList` has the links, and leaves open how many tables a mapping lacks and whether
it faults, which `Paging` determines. `Paging` in turn takes from `BuddyAlloc` what
is proved there: that `palloc` hands out the lowest free page (`LowestFirst`), and
that no second refill completes within a first (`NestedGrowthIsDoomed`), so that a call of
`mmap` is never re-entered. `Kernel` has of `init_phys`, `palloc` and `init_acpi` the outcomes that `BuddyAlloc` and `AcpiWalk` show: while the static
nodes last, the lowest free page or 0; with a refill, any free page or 0, pages that the pool has taken, a page fault, or the message of
`_stackprot`; an end, an endless loop, or a fault where tables lead. Of `memset` it takes from `CRuntime` what is left behind.

### BuddyAlloc

The state and the code:

| variable | code |
|---|---|
| `ranges` | what is left of the memory map in the loops of `ba_init` and `ba_create_toplevel_from_range` |
| `toplevel` | `buddyalloc_state.toplevel_blocks` |
| `tree` | every block in a tree: `parent`, whether `child_left`/`child_right` are set (`split`), `flags` |
| `pool` | the number of nodes in `buddyalloc_free_pool` |
| `calls` | the C stack: one record for each call of `palloc` (or of `ba_init_toplevel_block`) in progress |
| `ret`, `status` | the latest return of `palloc`; whether the kernel still runs |
| `pages`, `overwritten` | history: the pages that became nodes, and the blocks in use that their `memset` ran over |

A block is identified by address and order. The recursion of `ba_try_alloc_in`
needs no stack in the model: the path of its frames is the path of parents of
the block it looks at (`at`), and whether a frame is about to visit a block or
has just got a null from it is `pc`. What does need a stack is `palloc` calling
itself: `Grow` is `ba_new_block` finding the pool empty, `AllocPageTable` is the
`mmap_identity` that follows lacking a page table. The steps are:

| action | code |
|---|---|
| `SkipRange`, `InitToplevel`, `AppendToplevel` | the loops of `ba_init` and `ba_create_toplevel_from_range`; a block is appended once it has a node |
| `CallPalloc` | the kernel calls `palloc` (trace depth 0) or `pvalloc` (1) |
| `Refuse`, `Descend`, `BeginSplit`, `Take` | the branches of `ba_try_alloc_in` on the way down |
| `SplitLeft`, `SplitRight` | the two calls of `ba_new_block` in `ba_split`; the links are set after the second |
| `TryRight`, `FailUp`, `NextToplevel`, `ReturnNull` | the way a null goes back up, to the right sibling, the parent, the next toplevel block, the caller |
| `Grow`, `AllocPageTable`, `SetUpPage` | `ba_new_block` → `ba_alloc_new_blockpage` → `palloc`, `mmap_identity`, `ba_init_blocknode_range` |
| `GrowFault`, `StackProt` | the kernel stops: a page fault in a refill, or `_stackprot` |

`Return` is shared by `Take` and `ReturnNull`. A null (or the block at address
0, which looks the same) returned to `ba_alloc_new_blockpage` or to `mmap` is
not checked there, and writing the nodes or the table at address 0 faults.

The trace depth is computed (`Depth`) from the levels that `trace_enter`
has counted: palloc, ba_alloc_block, one for each order of the descent,
ba_split, ba_new_block, and those of the calls underneath.

What is abstracted: paging. How many page tables a mapping lacks is chosen
nondeterministically (0 to `PageTableLevels`, three in the code), and the refill
may fault at any point of it (`GrowFault`), since `mmap` reaches page tables
through addresses that need not be mapped; `Paging` has the details. Page 0 is
taken to be unmapped, as Limine leaves it, so that a null pointer faults. If the `memset` of a new page has run over a page table, or over memory of
the kernel, the code may behave arbitrarily afterwards; the model records that
it happened (`overwritten`) and goes on. The size comparisons are on unbounded
numbers: the code's are on 64 bits with orders up to 34 and addresses of physical
memory, where nothing wraps.

### ForwardList, DoubleList and MCLists

The state is the links themselves, and where the owner of a node believes it to
be (`place`, `members`). `SetUpRange` is `ba_init_blocknode_range`, the other actions are
the functions of `list.c` by name. What the callers must respect is a guard: a node that
is inserted is in no list, one that is removed is in that list, a list that is popped is
not empty. All callers in `phys.c` do. No function looks at a node before it
links it, and one `next` pointer serves the pool, `toplevel_blocks` and nodes in trees: that no stale
link is ever left is the invariant `HeldNodesAreLoose`. `KeepsLists` and `KeepsList` say that the sequences found
by following the links change as `NodeLists` says.

The pops of a double list clear one link of the node that they return, and leave the link by which
its neighbour leads back to it. Nothing follows that link while the neighbour is not the last node of the list; when it is, a
pop at the other end or a removal takes the link for one of the list, and brings back a node that has been handed out. `list.h` says
nothing about it. `DoubleList` lets the owner call any function in any order, records which functions have taken nodes out (`used`) and
whether one of them has read a link that leads out of the list (`astray`), and `KeepsList` says exactly when the list stops being one.
`UpTo` is there because the link beyond an end may be stale without harm. Nothing in the kernel uses double lists yet.
A behaviour of `MCLists` is one of `ForwardList` or one of `DoubleList`.

### Paging

| variable | code |
|---|---|
| `mem` | the entries with `PAGE_PRESENT` of all tables, by frame and index; a table is a frame like all others |
| `free` | what `palloc` may still hand out |
| `call` | the `mmap` in progress: its arguments, how far `vcursor` is (`done`), the level and table it is at, and the same of the `tempmap` inside it |
| `status` | whether a page fault has stopped the kernel |
| `last`, `before` | history: the call that returned last, and `mem` when it was made |
| `starved` | history: whether `palloc` has had nothing left for `mmap` |

`Walk` is the processor's way from `cr3` to a frame (`TablesOf` are the tables that it passes). `Access` is the code's way to a table: it uses the
physical address in an entry as a pointer, so the table is found only if it is mapped at its own
address. Each access to a table is a step, whose guard is that there is something there
(`Here`), and `PageFault` otherwise.

| action | code |
|---|---|
| `CallMmap`, `Refill` | a call of `mmap`; the one that `ba_alloc_new_blockpage` makes |
| `Descend` | an entry is present, and followed |
| `AllocTable`, `TempDescend`, `TempMap`, `InstallTable` | a table is missing: `palloc`, the levels of `tempmap`, its last entry, and the entry that `mmap` then writes |
| `MapEntry` | the entry for a page, or a large page; the loop starts over |
| `Return`, `PageFault` | `mmap` returns; `page_fault_handler` halts |

Left out: permission bits, the TLB (no `invlpg` is ever executed: a hazard), and the upper half
of the address space, in which only the direct map (for the PML4) and the kernel's image (for
`interim_temp_pages`) matter.

There are two settings. `EmptyMap` is the one in which the kernel runs: base revision 4 (`boot.c:13`, checked at
`main.c:94`) leaves the lower half empty, and what is in free frames is whatever was left there (`Leftover`). The other, in `MCPaging`
alone, has all memory mapped at its own address by 4K pages, which `PTFROMENTRY` presumes and no boot loader that the kernel accepts provides.

### Serial

| variable | code |
|---|---|
| `kind`, `regs`, `thr`, `rx`, `wire` | the device: whether it sends ("healthy"), does not ("stuck"), or is not there ("absent", read as 0xff); its registers, the byte it is about to send, those it has received; what has gone out |
| `at`, `step`, `todo`, `call` | where the driver is: the next write of `serial_init`, the bytes that the call in progress has still to write, the number that it is taking apart |
| `code` | what `serial_init` has returned |
| `written`, `arrived`, `got` | history: bytes written, received, and returned by `read_serial` |

The device is a process of its own: `Transmit` (to the line or, in loopback, back to itself) and
`Arrive` may come between any two port accesses of the driver.

| action | code |
|---|---|
| `InitOut`, `InitTest`, `InitEnable` | the writes of `serial_init` one by one (`InitWrites`), the test byte read back, the last write |
| `WriteString`; `WriteNumber`, `Recurse` | a call of `write_serial_string`(`_n`); of `write_serial_int` or `write_serial_hex`, and each level of their recursion, whose digit waits for those below it |
| `Poll`, `WriteByte` | `write_serial`: the loop on `is_transmit_empty` is left; the byte is written |
| `CallRead`, `AwaitByte`, `ReadByte` | `read_serial` |

`Out` is `port_out_byte` as the device sees it: what register 0 and 1 are depends on DLAB, and a
write to register 2 clears both FIFOs. The registers start with whatever the bootloader has left, DLAB on or off, and there may be a
byte on its way out and one to be read. Any byte may arrive at any time while loopback is off, 0xae too. What that does to the test is kept in
`past`: DLAB and `ier` at the start, the bytes that arrived between the clearing of the FIFOs and loopback (`early`), and what
`serial_init` has left in the transmitter (`stray`) and to be read (`held`). The properties say what these cost. Left out: the size of the
transmit FIFO (the driver waits for it to be empty each time), speed, and the overrun of the receive buffer. Nothing calls `read_serial` yet.

### AcpiWalk

The firmware is chosen at the start: responses for RSDP and HHDM that are there or not, with signature and checksums
right or wrong, an RSDT whose length agrees with its pointers if its checksum is right and may be
anything otherwise, and tables with a signature, a checksum that is right or wrong, and, for a
MADT, bytes that its records are made of. `index` and `cursor` are the two loop variables,
`statics` is which of `rsdp`, `rsdt` and `xsdt` are set, and `extended`,
`depth` is `tracestackdepth`, `pc` is the function that is being executed; `"wild"` is a
pointer read from beyond the RSDT, after which nothing is known.

| action | code |
|---|---|
| `CheckRsdp` | `init_acpi` as far as the number of tables, with `validate_signature_rsdp` and `validate_checksum`: `rsdp` is kept before it is looked at, `rsdt` or `xsdt` without a look at what it points to |
| `NextTable`, `AllTablesRead` | the loop over the RSDT; `NumEntries` has the unsigned subtraction |
| `Refuse`, `InitFromFadt`, `IgnoreTable`, `BeginMadt` | the branches of `init_from_table` |
| `NextRecord`, `EndMadt` | the loop of `acpi_init_from_apic` |

### CRuntime

`mem` is a small memory, `call` the call in progress with its index `i`, `old` the memory when it was made. Each iteration is
a step: `CopyUp` (`memcpy`, and `memmove` upwards), `CopyDown` (`memmove` downwards), `SetByte`,
`CompareByte`; `Return` is the end of a loop. `Legal` is what callers owe: ranges inside memory and, for `memcpy`, apart
(`restrict`).

### Kernel

`Script` is `kmain` as the sequence of what it does, in 81 steps: the revision check, the five descriptors and
the loading of segments, `serial_init`; the messages that `init_interrupts` traces, each gate, `lidt`, `sti`; the messages of `kmain`,
`log_executable_info`, `log_memmap` and `log_date_at_boot`, each response of the bootloader that is followed, `init_phys`, the two
`pvalloc` and `memset`, `init_acpi`, `hlt`. `kpc` is how far it is, and one action stands for each kind of step. The messages go through
`Serial`, port access by port access. Of what `init_phys`, `pvalloc` and `init_acpi` trace, the script has the first and the last message;
those of the functions that they call are `Trace`, any number up to `MaxTraces`, before the step that is their outcome:

| action | outcome |
|---|---|
| `InitPhys`, `Pvalloc` | `init_phys` ends, `pvalloc` returns: the lowest free page or 0 if the static nodes are enough (`roomy`), and otherwise any, after a refill may have taken pages for the pool |
| `StackProt` | the trace stack overflows: `_stackprot` writes its message and halts, without an exception (`"overflow"`) |
| `GrowFault` | a refill ends in a page fault, in `mmap_identity` or `memset` |
| `InitAcpi` | `init_acpi` ends; or it is held by a MADT record of length 0 (`"looping"`); or the tables lead astray and the processor faults |

An exception is `Trap`: with no IDT, no gate or no proper
code segment the processor gives up (`"crashed"`); a handler with a text drops what the
driver was doing, writes its text and halts (`HandlerHalts`); one without returns, and after a fault that
means that the same instruction faults again. `Nmi` may come at any point, and `Irq`, an interrupt for which there is no gate, once `sti` has let it in: it ends as
a general protection fault. A null response (`UseResponse`, `InitPhys`, `InitAcpi`) and a page that `palloc`
did not have (`Memset`) are page faults. INT_DE, INT_UD and INT_NP are never raised.

The environment that this assumes: Limine never calls page 0 usable nor maps it, so a fill of page 0 faults; the code never programs the interrupt
controllers, so whether they let anything through is open, but none of their vectors is one of the exceptions'; the IDT that the bootloader leaves behind
is unspecified, so that an exception before `lidt` is a crash. A message stands for its characters by one or two, and two are enough for an exception
to come between characters of one message. Which of the numbers is printed, the pixels, and the entries that
`log_memmap` prints are left out; so is what the overlong clear of `phys.c:113` does to the memory it runs over (run `memset`).

## Runs

The unit of memory of `BuddyAlloc` is half a page (`MinOrder` is 1), so that a request of less
than a page exists (size 1) and `MemsetSize`, 14336 bytes = 3.5 pages, is
whole: 7. `NodesPerPage` is 3 or 5 (73 in the code) and the static pool has 1, 3
or 40 nodes (256), so that the pool runs out where it matters.
`CHECK_DEADLOCK FALSE`: the kernel may halt or fault, and then nothing more happens.

| run | instance | shows |
|---|---|---|
| `growth` | 7 entries: fragments of one page, a hole, two that leave a remainder, a zone of 16 units; static pool 1, 5 nodes to a page; requests of 1, 2, 4, 8 units until nothing is left | the pool runs out twice during `ba_init`, where `palloc` serves the refill from the blocks made so far, and in both halves of a split, with calls up to five deep on the stack, null in a refill, overflow of the trace stack: `BlocksUsable`, `UsableTiled`, `GrantsDisjoint`, `SplitTargetsIntact`, `NothingSkipped`, `NestedGrowthIsDoomed`, `PoolBalance`, `NodesIntact`; and `PallocReturns`: every call ends |
| `plenty` | static pool 40, never empty; requests of 0, 2, 3, 8, 9 units; `MaxStackDepth` only just enough for the deepest search | `UnavailableSound`, `NoIdleSplit`, `OverflowNeedsEmptyPool`, `LowestFirst`; and `KeepsPromise`: every behaviour is one of `FrameAllocator` |
| `memset` | 6 entries, 3 orders; static pool 3 | **violation** of `OnlyThePageIsSetUp`: see findings |
| `lists` | 4 nodes and the lists pool and toplevel with ranges of 2, or 3 nodes and a double list; every function in any order | `HeldNodesAreLoose`, `KeepsLists`, `KeepsList` |
| `paging_boot` | the lower half empty; frames 9 and 12 hold entries, of which those in 9 lead to itself; calls for 0, 1, 8 and 16 pages, with refills; four sets of free frames, one of them empty | `NothingMapped`: no call for a page returns |
| `paging_calls` | 64 pages of addresses, 24 of memory, mapped page by page; pages and large pages of both sizes are mapped and remapped, with refills between; tables from two sets of free frames | `FirstPageMapped`, `OthersUnchanged`, `TranslateRight`, `TablesApart`, `FaultsOnlyByInterim` |
| `paging_range` | a call for two pages | **violation** of `WholeRangeMapped` |
| `paging_limine` | the lower half empty, as at boot | **violation** of `NoFault` |
| `runtime` | 5 addresses, 2 values of a byte, fills 0 and 3; all ranges, all contents, any number of calls | `ResultRight`, `CompareRight` |
| `acpi` | three tables, of which one may be listed twice; every way in which RSDP, RSDT, tables and records may be wrong; the HHDM response there or not | `OnlyChecked`, `ReadsInTables`, `ResultRight`, `TraceBalanced`; and `Ends`: the walk comes to an end, unless it comes upon a record of length 0 or is led astray |
| `serial` | all three kinds of device; DLAB, loopback and interrupts on or off at the start; "", "AB", and 0, 10, 171 in decimal and hexadecimal; 3 bytes written, 3 received that may be 0xae | `SettingsRight`, `QuietUnlessReady`, `NothingLost`, `NumberRight`, `ReadsInOrder`; and `WritesEnd`: a call that writes comes to an end, unless the device is stuck |
| `kernel` | nine firmwares: a good one; an unsupported revision; one usable page; two, with a pool that runs dry; tables of ACPI with a zero record, or that lead astray; no memory map, HHDM or RSDP response; all kinds of device; an NMI, an interrupt and one byte (0xae) received, at any point | `CrashesOnlyEarly`, `LastWords`, `PatternsApart`; and `BootEnds`: unless the device is stuck, the kernel halts or crashes and all that it has written has gone out, or a table of ACPI that is not sound holds it for ever |

The bounds of `BuddyAlloc`. There is nothing to cap: memory is finite, nothing is ever freed, and
so every behaviour ends in a state where requests only fail. The instances are
small in the number of orders (3 or 4 instead of 23), which is what the depth of
the tree is; all that a descent does is repeated from the second level on.
`MaxStackDepth` is scaled with them where it matters: `memset` has the same headroom over
`MaxOrder - MinOrder` (10) as the code (32 over 22), and `plenty` the
smallest with which a search fits. In `growth` it is large enough for four
calls nested in a fifth, so that overflow happens only at the bottom of a recursion.

The bounds of the lists: four nodes make lists of three with one node outside, which is
where the first, a middle and the last node differ, and two ranges of two that are appended to
one another. `lists` is checked for deadlock too: some operation is always possible.

The bounds of `Paging`: a table of the lowest level has 8 entries and the others 2
(`Span`), so that there are two of each in the half of the addresses that memory is in, and two
more in the half where nothing is mapped at first. `paging_calls` starts in the situation that
`PTFROMENTRY` presumes, in which all memory (but page 0) is mapped at its own address by
tables of 4K pages; requests are for addresses where nothing large has been mapped before, free
memory is cleared, no request is for more than what one entry maps, and once `palloc` has failed (`starved`) nothing
is claimed. `paging_limine` and `paging_range` give up the first and the fourth of these conditions; what the others are needed
for is said below. No boot loader that the kernel accepts leaves things in that situation. What
the run shows is that `mmap` is right where its own assumption holds, and not more. `paging_boot` starts as the kernel does, with the same
calls and one of size 0, which returns at once. Frame 9 holds what makes it a table that maps itself: a call that is given it can get through, which is the
exception that `NothingMapped` makes (`ByLeftover`), and without which TLC finds it violated; so is `starved`.

The bounds of `CRuntime`: five addresses hold two ranges of two or three bytes that lie
apart, touch, or overlap by one or more bytes either way, and two values of a byte are enough to
tell all bytes apart from one another; that there are more values is covered by the proof. 3 as a fill is
cut down to 1.

The bounds of `AcpiWalk`: sizes are a quarter of the code's, so that a length is less than the header (and wraps round), is
the header's, or allows for one to four pointers, and the 6 bits of `size_t` leave room for
more than that. The bodies of a MADT are those of a
table without records, of records that fill it, with one that states 0, 1 or a length beyond the end, and with one byte left over.

The bounds of `Serial`: the histories `written` and `arrived` are capped in the guards
of the calls and of `Arrive`. What is kept of them by the driver and the device is one byte in
`thr`, and `rx` with two places, which two early bytes fill, so that the test byte is lost; the third is for what comes after. The
numbers are 0, one at which a digit is added in one of the bases and not in the other, and 171 = 0xab, which has
letters. `Inputs` are a byte like others and the test byte 0xae, by which a device that is stuck can pass.

The bounds of `Kernel`: an NMI is not raised twice, since handling one blocks others and its handler
halts. `MaxTraces` is 1: one message more than those of the script is traced, in any of the calls of `init_phys`, `pvalloc` and `init_acpi`; the proofs have any number. The calls of `read_serial` and of numbers are `Serial`'s own and do not occur.

Fairness. `FairSpec` has `WF` of the steps of the code: a processor that is executing a
piece of code goes on. Calls (`CallPalloc`, `Calls`) are outside: nothing forces the kernel to ask.
`Serial` and `Kernel` have `WF` of `Transmit` too, which is not enabled on a device that is stuck
or absent: a healthy device sends what it has been given in time. Nothing is assumed of `Arrive`, `Nmi` and `Irq`.

## Findings

* `memset`: `ba_init_blocknode_range` clears the size of the *static* array
  (14336 bytes) also when it sets up a page from `palloc` (4096 bytes). The run
  reaches a state where blocks that belong to others are cleared. `NodesIntact`
  shows that at least the nodes that are already in use are never among them in
  the instance that is checked, because pages are handed out lowest first.
* `paging_range`: the loop of `mmap` advances `vcursor` and uses `vaddr`, so only the first page
  of a range is mapped.
* `paging_limine`: the kernel asks for base revision 4 (`boot.c:13`), for which Limine leaves the lower
  half empty. No table below the PML4 is then within reach of `mmap`, and `tempmap` enters the virtual
  addresses of `interim_temp_pages` as if they were physical: the first refill of the pool ends in a page
  fault. Until then, that is for 256 blocks, nothing calls `mmap`. `paging_boot` shows, and `PagingProofs` proves, that the same
  becomes of every other call.

Observed, without a run:

* Lists: after `dlist_pop_front` of the list a, b, `dlist_pop_end` returns b and makes a, which
  has been handed out, the only node of the list (`list.c:114`). `KeepsList` has this as `astray`.
* Paging: `mmap` of a page inside a large page takes the entry with `PAGE_PS` for a table
  (`paging.c:270`); the memory of a new table is not cleared, and what is left in it becomes mappings
  (`paging.c:265`); `tempmap` tests `pdt->entries[l3]` where it goes on to set
  `pdt->entries[l2]` (`paging.c:139`), and so may replace a table that is in use. `paging_calls`
  goes through the last (with frame 18): the kernel then always faults before `mmap` returns.
* Allocator: `BA_UNAVAILABLE` is documented for every non-leaf block without space
  (`phys.c:39`), but is propagated one level only; `UnavailableSound`, which is proved, is the half that
  matters. `BA_NONEMPTY` is documented (`phys.c:44-45`) and never set.
* Serial: `serial_init` reads the test byte back without waiting for it, and reads whatever
  is first in the buffer. A device that is healthy but slow, or that receives a byte between the
  clearing of the FIFO and the switch to loopback, gets `ESERIAL_FAULTY` (`serial.c:21`), which `serial.h:26` has for a faulty one;
  it then stays in loopback, `kmain` does not look, and nothing that is written is ever seen
  (`QuietUnlessReady`). If the byte is 0xae a stuck device passes, and the test byte goes out ahead of the first message or is left to be
  read (`NothingLost`, `ReadsInOrder`). With DLAB left on by the firmware both writes to the interrupt register go to the
  divisor and leave interrupts as they were (`SettingsRight`). `write_serial_hex_pad`, which has no callers, writes its digits last first and
  some of them twice.
* ACPI: the checksum of the RSDT is computed and not looked at (`acpi.c:120`), although the length
  in it decides how many pointers are read, after a wraparound if it is less than a header's (`acpi.c:121`).
  Neither the signature of the RSDT or XSDT is looked at nor its checksum, and both statics are kept all the same (`acpi.c:115`, `119`).
  The tables of an XSDT are never read. A MADT record of length 0 is an endless loop (`apic.c:11`).
* `log_memmap` prints "Usable" for `LIMINE_MEMMAP_EXECUTABLE_AND_MODULES` (`main.c:53`).

And `NestedGrowthIsDoomed`: when `palloc` has no nodes left to split
its way down to the page that it needs for nodes, it calls itself until `_stackprot`
halts the kernel. It can never do harm, which the theorem shows, but a kernel that has plenty
of memory stops when the pool runs dry at the wrong moment.

## Proofs

### BuddyAlloc

`BuddyAllocProofs.tla` proves, for every memory map, set of requests, pool size, page
size, number of page tables and stack depth that satisfy the assumptions
(`OrderAssumption`, `SizeAssumption`: sizes double with each order;
`MemMapAssumption`: usable entries are sorted and do not overlap, as Limine
promises; `LimitAssumption`: types), that `Spec` satisfies

* `TypeCorrect`: `TypeOK`;
* `NoDoubleGrant`: `GrantsDisjoint`;
* `OnlyUsableMemory`: `BlocksUsable`;
* `UnavailableIsFull`: `UnavailableSound`;
* `SplitsStayLegal`: `SplitTargetsIntact`;
* `SearchIsExhaustive`: `NothingSkipped`;
* `OneRefillAtATime`: `NestedGrowthIsDoomed`;
* `GrantsAreLowest`: `LowestFirst`;
* `StackIsDeepEnough`: `OverflowNeedsEmptyPool`, if `MaxStackDepth` is at least `MaxOrder - MinOrder + 5`.
  The code has 32 for orders 12 to 34, where 27 are enough.

None of them but `TypeOK` is inductive. The inductive invariant `IInv` adds

* that blocks are *laminar*: two of them are apart, or one is below the other and
  that one is split (`Laminar`), that children and parents are linked both ways, that
  every block lies in a toplevel block, and that those are sorted;
* that what is left of the memory map lies beyond all blocks (`RangesAhead`);
* for each call in progress (`CallOK`): where it is, lies in its toplevel block; if it
  is splitting, its block is a free leaf; all free leaves that are large enough lie
  ahead of it; nested calls ask for a page, with the pool empty; only the outermost call gets
  as far as mapping a page.

The step that carries the argument is `TakeStep`: while a call is splitting a
block, a nested call takes a page. That page is a block of the smallest order and the block
being split is larger, so it is another one, and remains a free leaf. If a call
that is itself nested has begun to split, then no free page lies before its
block, so a call nested in *it* would come to that very block and, having no
nodes, cannot find a page (`NoPageForNestedSplit`): a second refill, which would
leave the first with a stale view, never completes.

`GrantsAreLowest` follows from the free leaves that lie before the block of a search being too
small for it. `StackIsDeepEnough` needs one more invariant, `FirstIsShallow`: the kernel calls `palloc` at depth 0
or 1 and makes toplevel blocks at depth 3, and no step changes at which depth the first call was made. With nodes
in the pool there is only that call, and a search goes no deeper than there are orders.

`BuddyAllocRefinementProofs.tla` proves `KeepsItsPromise`: `Spec` implies `KeepsPromise`, every step being a step of
`FrameAllocator` or one that it does not see. That a block which is handed out is a piece of
its zone needs the alignment of blocks, and that null is only returned when there is no piece
needs the trees to describe all of the memory they stand for. `IInv` says neither. The
invariant `TreesTell` adds

* that every block is a piece of a toplevel block, which begins at a multiple of its size
  there (`InPieces`), and every piece is a block or lies in a leaf (`Tiled`);
* that `ba_refresh_unavailable` marks only blocks that are split (`FullAreSplit`);
* that in every block that is split something is in use, or a call in progress is about to use it
  (`SplitsInUse`): else two free halves could hide a free piece that no leaf shows;
* that no call splits further than its request demands (`AllAsked`).

The last two are disturbed by the calls below the one that returns, which go on with what they
were looking for (`ReturnKeeps`). Without a call in progress `SplitsInUse` is `NoIdleSplit`
(`NoSplitInVain`). That the size of a block divides those of all larger ones is an induction over orders; it goes
by `Least`, the least element of a set of numbers, because the library's induction theorems take an operator.

The same module proves `PoolBalance` (`NoNodeLost`), by counting, and `NodesIntact` (`NodesStayIntact`). The
latter holds although the memset is too long, and by a chance of the search: a nested call takes the
lowest free page, so that from then on all that is free, and each page of nodes that is added later, lies
beyond it (`PagesInOrder`). A search from the top of memory would run over its own nodes.

`BuddyAllocProofs.tla` also proves `UsableTiled` (`NoPageLeftOut`): what is left in `ranges` is the rest of the map but for the
part of its first entry of which blocks have been made (`RestOfMap`), and everything before that is covered
except for less than a page at the end of an entry (`TiledEntry`).

### Serial

`KernelProofs.tla` proves in its first part, for all strings, numbers and inputs, every size of the receive buffer and without
a bound on what is written, that `Spec` satisfies `SerialTypeOK` (`TypeCorrect`), `SettingsRight`
(`SettingsCorrect`), `QuietUnlessReady` (`NothingEscapes`), `NothingLost` (`OutputComplete`) and
`ReadsInOrder` (`InputComplete`). The assumption `SerialAssumption` is types: any registers at the start and any bytes on the line. `IInv` adds, step by
step of `serial_init`, which registers have their final values (`Programmed`), and where the test byte may be (`Testing`): in the transmitter first, then
behind the bytes that arrived early, or lost because these fill the buffer (`Looped`). So if none was early, the byte that is read first is the test
byte, a device that passes is healthy, and nothing is left over; and if one was, it is what has been tested, and the test byte is still in the
transmitter, or last of what is to be read, or gone (`Passed`). What that leaves is the `stray` and the `held` of `NothingLost` and `ReadsInOrder`, on which these rest together with
`Polled`: what a poll has found stays true until the driver acts on it, since only the driver fills `thr` and only
the driver empties `rx`.

`NumbersAreRight` is about the loops that print numbers (`NumberRight`). `Horner(a, s, b)` is the value of the digits `s` after a
number `a`. While the recursion of `write_serial_int` and `write_serial_hex` takes digits off, what is left of the number followed by the
digits taken so far has the value of the number; while they are written, what has been
written followed by what waits does (`NumberInv`). `Horner` is a recursive function over the length of a numeral. That
it exists, and what it is for a numeral with one more digit in front, follows from `Induction`.

### AcpiWalk

`AcpiWalkProofs.tla` proves `TypeOK`, `OnlyChecked` (`TablesChecked`), `ReadsInTables`
(`StaysInTables`), `ResultRight` (`ResultCorrect`) and `TraceBalanced` (`TraceIsBalanced`) for any
number and contents of tables. `IInv` adds that the walk only happens with a valid RSDP of revision
below 2 (`WalkJustified`), which table of the list is being looked at (`Located`), that all
before it were right (`AllSound`) and the last FADT and MADT among them are those that were kept (`TookLast`).
That the walk stays in the RSDT needs the length to undo the multiplication by the size of a pointer
(`EntriesOfSoundRsdt`), for which `SizeAssumption` and `FirmwareAssumption` rule out that an RSDT is larger than
`size_t` can say.

### CRuntime

`CRuntimeProofs.tla` proves `TypeOK`, `SourceIntact` (`ReadsBeforeOverwriting`: no byte that a loop has still to read has been overwritten),
`ResultRight` (`MemoryIsRight`) and `CompareRight` (`ComparesRight`), for memories and bytes of any size. `IInv` adds what the part of the
range that the loop has dealt with (`Done`) holds, that the rest of memory is as it was
(`Progress`), and that what `memcmp` has passed is equal (`Compared`).

### Kernel

In its second part `KernelProofs.tla` proves `CrashesOnlyEarly` (`CrashesEarly`), `LastWords` (`LastWordsComplete`) and `PatternsApart`
(`PatternsStayApart`) for any firmware, any number of usable pages, any refills and any number of messages traced. The invariant `KInv` is the
one of `Serial`, which `Kernel` inherits with the driver, and

* `Progress`: what the two descriptor tables hold when `kmain` has taken so many steps;
* `Trapped`: which exceptions there can have been, that they came after `lidt` unless the processor is lost, and that there has been none if the trace stack has overflowed or a table holds the kernel;
* `Speech`: what has been written and what waits to be written is what `kmain` and its callees have said
  (`said`) or, in a handler, the words of that handler, each begun where the one before was cut off; the last of `said` is Hello at the end of the script, or the message of `_stackprot` after an overflow;
* `Pages`: which page each `pvalloc` has granted, that none of them is the pool's, and what `memset` has left in each page.

`Script` is a sequence of 81 steps. The proofs see of it where the steps that matter are, and that every message in it has its characters.

### ForwardList and DoubleList

`ListProofs.tla` proves, for any finite number of nodes and any lists, that `ForwardList` satisfies `HeldNodesAreLoose`
(`HeldNodesHaveNoLink`) and implements `NodeLists` (`ForwardListsAreSequences`: `KeepsLists`), and that
`DoubleList` keeps its sequence until it is led astray (`DoubleListIsSequence`: `KeepsList`), with no assumption on how its owner uses it. The invariant
`ListInvariant` says that there is for each list a sequence without repetitions, of the nodes whose place is that list, that begins at
`head` and that the links follow, up to a null (`Holds`). It is the link of the last node that has to be null: the functions
never look at it, and a node whose old link survived would splice the list onto another. For a double list the links lead along the sequence and back along it (`DHolds`); those beyond the ends
are null in the direction whose pop has not been used, which is why no function alone can lead astray, and why removals, which look at both, can after a pop. `TrailIs` and `BackTrailIs` show that following links, which
`Trail` does by recursion, then finds that sequence; every function of `list.c` is then an operation
on sequences.

### Paging

`PagingProofs.tla` proves `NothingMapped` (`NothingIsMapped`) for tables with any number of entries on each of the four levels, any
amount of memory, any frames that `palloc` may hand out, any calls, and anything left in those frames, from `EmptyAssumption`: there is no entry in the lower half at
the start. That is the setting in which the kernel runs. The theorem says that there `mmap` has no successful outcome: it is asked for a page and does not return.

The invariant follows the one way that a call can go. `Stage` says what there is on each part of it: nothing yet (`Starting`); a frame for the
missing table, and the entries of `tempmap`, one more at each level, first in the PML4 and then in the interim tables (`Mapping`); the new table in the PML4 (`Entering`). In that
last stage the table has to be written. The way of the processor to its address begins at the very entry that has just been replaced, and so
goes through the new table itself, which has nothing at that index (`~ByLeftover`), or at another entry of the PML4 and so through an interim table, whose address is none that the
processor knows. `Way` is those two cases, and `EnteringStep` shows that nothing but `PageFault` is left.
`Grows` and `Stages` split the step: entries are only added, frames are only taken, and what was left in frames is still as it was when the call was made, which is what `ByLeftover` speaks of.

What the run `paging_calls` checks, in the setting that the code presumes, is not proved.

### Only model-checked

Liveness (`PallocReturns`, `Ends`, `WritesEnd`, `BootEnds`), which is out of the prover's reach, and the invariants of `paging_calls`
(`FirstPageMapped`, `OthersUnchanged`, `TranslateRight`, `TablesApart`, `FaultsOnlyByInterim`). Every other property of a
passing run is proved as well. The type invariants are proved and not run.

## Not modelled

* `ba_release_block`, `ba_mark_free`, `ba_can_merge`, `ba_merge`, `ba_contains`,
  `ba_tlcontaining`, `ba_block_step_contain` and `ba_allocatedblock_containing` (`phys.c`), `tempunmap` and
  `ptsetentry` (`paging.c`), `write_serial_hex_pad` and the word-sized port functions have no callers, so that there
  is no telling in which states they would be called. `BA_NO_2M` is documented but unused.
* Permission bits and the TLB. Nothing executes `invlpg`, which is a hazard (`paging.c:271`); a walk in the model always sees the
  tables as they are.
* The difference between interrupt and trap gates, the pixels, the wording of messages, and what `log_memmap` and
  `log_date_at_boot` compute: output only.
* `limine.h` is vendored; the build files have no behaviour at run time.

## What could follow

A model of the translation lookaside buffer beside `Paging`, with what a processor may go on using after an entry has been
overwritten; `Kernel` with the nodes of the pool counted, so that which of the outcomes of a refill come about depends on the memory map; and a model of
`palloc`'s callers once the kernel has some that free.
