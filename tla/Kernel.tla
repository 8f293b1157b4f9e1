-------------------------------- MODULE Kernel --------------------------------
(***************************************************************************)
(* kmain, from the first instruction to hlt, with the descriptor tables it *)
(* sets up, the exceptions that may end it and, in Serial, the device that *)
(* it writes its messages to.  Until lidt nothing catches an exception.    *)
(* After it a handler that speaks may interrupt a message between any two  *)
(* port accesses, and takes over the port and the rest of the time.        *)
(***************************************************************************)
EXTENDS Serial, FiniteSets

CONSTANTS
  Characters(_),  \* the characters of a message
  Firmwares,      \* what the bootloader may have left: see KernelAssumption
  MaxTraces       \* bound on the messages that the calls of Work trace

VARIABLES
  firmware,    \* what the bootloader has left
  kpc,         \* how many steps of kmain have been taken
  status,      \* "boot", "handler", "overflow" (of the trace stack), "looping"
               \* (in a table of ACPI), "halted" or "crashed" (a triple fault)
  traps,       \* history: the exceptions so far, and how much had been written
  said,        \* history: what kmain and the functions it calls have said
  traced,      \* how many messages the calls of Work have traced
  gdt, idt,    \* the descriptors and gates
  idtr, iflag, \* whether the IDT is loaded, and interrupts are let in
  pool,        \* the pages that palloc has taken for nodes of its own
  granted,     \* what the calls of pvalloc have returned
  mem          \* what pages have been filled with

progress == << kpc, status, traps, said, traced >>
Tables == << gdt, idt, idtr, iflag >>
Memory == << pool, granted, mem >>
kernelVars == << firmware, progress, Tables, Memory >>
vars == << serialVars, kernelVars >>

-------------------------------------------------------------------------------
(* Tables. *)

INT_NMI == 2
INT_GP == 13
INT_PF == 14
GDT_KERNEL_CODE == 8

(* The entries of init_gdt: access and flags. *)
GdtEntries ==
  << << 0, 0 >>, << 154, 10 >>, << 146, 12 >>, << 250, 10 >>, << 242, 12 >> >>

Bit(x, mask) == (x \div mask) % 2 = 1
Ring(e) == (e[1] \div 32) % 4
Descriptor(selector) == gdt[(selector \div 8) + 1]
(* What the processor demands of a code segment in long mode and of a data *)
(* segment for its stack.                                                  *)
LongCode(e) ==
  Bit(e[1], 128) /\ Bit(e[1], 16) /\ Bit(e[1], 8) /\ Bit(e[2], 2) /\ ~Bit(e[2], 4)
WritableData(e) == Bit(e[1], 128) /\ Bit(e[1], 16) /\ ~Bit(e[1], 8) /\ Bit(e[1], 2)

(* The vectors that load_exception_handlers sets, in its order, with the   *)
(* text that the handler writes, if it writes one, and whether it takes an *)
(* error code.  A handler without a text returns.                          *)
Handler_NoPageFault(v) ==
  [vector |-> v,
   says |-> CASE v = 2 -> "NMI Exception!" [] v = 8 -> "Double Fault!"
              [] v = 13 -> "General Protection Fault!" [] OTHER -> "",
   errorCode |-> v \in {8, 10, 11, 12, 13, 14, 17, 21}]
Handler(v) ==
  [vector |-> v,
   says |-> CASE v = 2 -> "NMI Exception!" [] v = 8 -> "Double Fault!"
              [] v = 13 -> "General Protection Fault!" [] v = 14 -> "Page Fault!"
              [] OTHER -> "",
   errorCode |-> v \in {8, 10, 11, 12, 13, 14, 17, 21}]
Vectors == << 0, 1, 2, 3, 4, 5, 6, 7, 8, 10, 11, 12, 13, 14, 16, 17, 18, 19, 20, 21 >>
PushesErrorCode == {8, 10, 11, 12, 13, 14, 17, 21, 29, 30}

-------------------------------------------------------------------------------
(* What kmain does, call by call.  What the calls of Work trace beyond the  *)
(* first message and the last is left to Trace.                            *)

SetIsrs ==
  [i \in 1 .. 2 * Len(Vectors) |->
     IF i % 2 = 1 THEN << "say", "Call set_isr" >> ELSE << "set_isr", Vectors[i \div 2] >>]

InitInterrupts_LidtFirst ==
  << << "say", "Enter init_interrupts" >>, << "lidt", 0 >> >> \o SetIsrs
    \o << << "say", "Exit init_interrupts" >> >>
InitInterrupts ==
  << << "say", "Enter init_interrupts" >> >> \o SetIsrs
    \o << << "lidt", 0 >>, << "sti", 0 >>, << "say", "Exit init_interrupts" >> >>

Setup ==
  << << "verify", 0 >>, << "set_gdt_entry", 1 >>, << "set_gdt_entry", 2 >>,
     << "set_gdt_entry", 3 >>, << "set_gdt_entry", 4 >>, << "set_gdt_entry", 5 >>,
     << "segments", 0 >>, << "serial_init", 0 >> >>
Hello == "Hello, World!"
Overflow == "TRACE STACK OVERFLOW"
Work ==
  << << "say", "Executable Address Info:" >>, << "use", "executable_address" >>,
     << "say", "Virtual Base:" >>,
     << "say", "Enter init_phys" >>, << "init_phys", 0 >>, << "say", "Exit init_phys" >>,
     << "say", "Enter pvalloc" >>, << "palloc", 1 >>, << "use", "hhdm" >>,
     << "say", "Exit pvalloc" >>,
     << "say", "Enter pvalloc" >>, << "palloc", 2 >>, << "use", "hhdm" >>,
     << "say", "Exit pvalloc" >>,
     << "say", "Allocated Addr:" >>, << "say", "Allocated Addr:" >>,
     << "memset", 1 >>, << "memset", 2 >>,
     << "say", "Initializing ACPI:" >>,
     << "say", "Enter init_acpi" >>, << "init_acpi", 0 >>, << "say", "Exit init_acpi" >>,
     << "say", "Memmap entries:" >>,
     << "say", "Date at boot:" >>, << "use", "date_at_boot" >>, << "say", "timestamp" >>,
     << "use", "framebuffer" >>,
     << "say", Hello >>, << "halt", 0 >> >>
Script == Setup \o InitInterrupts \o Work

Messages ==
  {Script[i][2] : i \in {i \in DOMAIN Script : Script[i][1] = "say"}}
    \cup {Overflow, "Trace"}
    \cup {Handler(INT_NMI).says, Handler(8).says, Handler(13).says, Handler(INT_PF).says}

(* A bootloader calls no page usable that is a null pointer.  "roomy": the *)
(* static nodes of phys.c are enough for the memory map and two pages.     *)
(* "acpi": the tables are sound, or so that init_acpi notices; or a MADT   *)
(* has a record of length zero; or they lead astray.                       *)
ASSUME KernelAssumption ==
  /\ \A m \in Messages : Characters(m) \in Seq(Byte)
  /\ Firmwares \subseteq
       [supported : BOOLEAN, usable : SUBSET (Nat \ {0}), roomy : BOOLEAN,
        missing : SUBSET {"executable_address", "memmap", "hhdm", "rsdp",
                          "date_at_boot", "framebuffer"},
        acpi : {"sound", "looping", "astray"}]
  /\ MaxTraces \in Nat

InitKernel ==
  /\ InitSerial
  /\ firmware \in Firmwares
  /\ kpc = 0 /\ status = "boot" /\ traps = << >> /\ said = << >> /\ traced = 0
  /\ gdt = [i \in 1 .. 5 |-> << 0, 0 >>]
  /\ idt = [v \in 0 .. 255 |-> << >>] /\ idtr = FALSE /\ iflag = FALSE
  /\ pool = {} /\ granted = << >> /\ mem = [p \in firmware.usable |-> 0]

-------------------------------------------------------------------------------
(* Exceptions. *)

Raise(v, next) ==
  /\ traps' = Append(traps, [vector |-> v, at |-> Len(written)])
  /\ status' = next

(* A handler that speaks starts over with the port, wherever the code that *)
(* it interrupts has got to, and does not come back.  One that is silent   *)
(* returns at once; a fault is then raised again by the same instruction.  *)
Trap_Continues(v) ==
  IF idtr /\ idt[v] # << >> /\ LongCode(Descriptor(GDT_KERNEL_CODE))
    THEN IF idt[v][1].says # ""
           THEN /\ Raise(v, "handler") /\ at' = "poll"
                /\ todo' = Characters(idt[v][1].says) \o todo
                /\ UNCHANGED << step, code, call, written, got >>
           ELSE UNCHANGED << driver, traps, status >>
    ELSE Raise(v, "crashed") /\ UNCHANGED driver
Trap(v) ==
  IF idtr /\ idt[v] # << >> /\ LongCode(Descriptor(GDT_KERNEL_CODE))
    THEN IF idt[v][1].says # ""
           THEN /\ Raise(v, "handler") /\ Write(Characters(idt[v][1].says))
                /\ UNCHANGED << step, code, call, written, got >>
           ELSE UNCHANGED << driver, traps, status >>
    ELSE Raise(v, "crashed") /\ UNCHANGED driver

(* An NMI comes at any time, but not while one is being handled.           *)
Nmi ==
  /\ status # "crashed"
  /\ \A i \in DOMAIN traps : traps[i].vector # INT_NMI
  /\ Trap(INT_NMI)
  /\ UNCHANGED << device, firmware, kpc, said, traced, Tables, Memory >>

(* An interrupt that the bootloader has not masked finds no gate, which is *)
(* a general protection fault.  The gates of the handlers that speak let   *)
(* no other in.                                                            *)
Irq ==
  /\ iflag /\ traps = << >> /\ status # "crashed"
  /\ Trap(INT_GP)
  /\ UNCHANGED << device, firmware, kpc, said, traced, Tables, Memory >>

(* A handler, or _stackprot, that has said what it has to say. *)
HandlerHalts ==
  /\ status \in {"handler", "overflow"} /\ at = "idle"
  /\ status' = "halted"
  /\ UNCHANGED << serialVars, firmware, kpc, traps, said, traced, Tables, Memory >>

-------------------------------------------------------------------------------
(* The steps of kmain. *)

Now == Script[kpc + 1]
Takes(act) == status = "boot" /\ at \in {"reset", "idle"} /\ Now[1] = act
Advance == kpc' = kpc + 1
Goes == Advance /\ UNCHANGED << driver, status, traps >>
Faults(v) == kpc' = kpc /\ Trap(v)

VerifyRevision ==
  /\ Takes("verify")
  /\ IF firmware.supported
       THEN Advance /\ status' = status
       ELSE kpc' = kpc /\ status' = "halted"
  /\ UNCHANGED << serialVars, firmware, traps, said, traced, Tables, Memory >>

SetGdtEntry ==
  /\ Takes("set_gdt_entry")
  /\ gdt' = [gdt EXCEPT ![Now[2]] = GdtEntries[Now[2]]]
  /\ Advance
  /\ UNCHANGED << serialVars, firmware, status, traps, said, traced, idt, idtr, iflag, Memory >>

(* lgdt, and the loading of the segment registers; a descriptor that does  *)
(* not fit raises an exception, which nothing catches yet.                 *)
LoadSegments ==
  /\ Takes("segments")
  /\ IF /\ LongCode(Descriptor(GDT_KERNEL_CODE)) /\ Ring(Descriptor(GDT_KERNEL_CODE)) = 0
        /\ WritableData(Descriptor(16)) /\ Ring(Descriptor(16)) = 0
       THEN Advance /\ UNCHANGED << status, traps >>
       ELSE kpc' = kpc /\ Raise(INT_GP, "crashed")
  /\ UNCHANGED << serialVars, firmware, said, traced, Tables, Memory >>

(* The steps of serial_init are those of Serial.  Its code is not looked   *)
(* at.                                                                     *)
SerialInitialized ==
  /\ Takes("serial_init") /\ at = "idle"
  /\ Advance
  /\ UNCHANGED << serialVars, firmware, status, traps, said, traced, Tables, Memory >>

Speak(m) == Write(Characters(m)) /\ said' = said \o Characters(m)

Say ==
  /\ Takes("say") /\ at = "idle"
  /\ Speak(Now[2]) /\ Advance
  /\ UNCHANGED << device, step, code, call, written, got >>
  /\ UNCHANGED << firmware, status, traps, traced, Tables, Memory >>

SetIsr ==
  /\ Takes("set_isr")
  /\ idt' = [idt EXCEPT ![Now[2]] = << Handler(Now[2]) >>]
  /\ Advance
  /\ UNCHANGED << serialVars, firmware, status, traps, said, traced, gdt, idtr, iflag, Memory >>

LoadIdt ==
  /\ Takes("lidt")
  /\ idtr' = TRUE
  /\ Advance
  /\ UNCHANGED << serialVars, firmware, status, traps, said, traced, gdt, idt, iflag, Memory >>

Sti ==
  /\ Takes("sti")
  /\ iflag' = TRUE
  /\ Advance
  /\ UNCHANGED << serialVars, firmware, status, traps, said, traced, gdt, idt, idtr, Memory >>

(* A response that the bootloader has left out is a null pointer, and page *)
(* 0 is not mapped.                                                        *)
UseResponse ==
  /\ Takes("use")
  /\ IF Now[2] \in firmware.missing THEN Faults(INT_PF) ELSE Goes
  /\ UNCHANGED << device, firmware, said, traced, Tables, Memory >>

(* init_phys, palloc and init_acpi trace as they go.                       *)
Trace ==
  /\ Takes("init_phys") \/ Takes("palloc") \/ Takes("init_acpi")
  /\ at = "idle" /\ traced < MaxTraces
  /\ Speak("Trace") /\ traced' = traced + 1
  /\ UNCHANGED << device, step, code, call, written, got >>
  /\ UNCHANGED << firmware, kpc, status, traps, Tables, Memory >>

(* A pool that runs dry is refilled from within (BuddyAlloc): that may     *)
(* take pages, fault in mmap_identity or memset, or go too deep for the    *)
(* trace stack, and then _stackprot does not return.                       *)
free == firmware.usable \ (ToSet(granted) \cup pool)
Takings == {t \in SUBSET free : firmware.roomy => t = {}}

StackProt ==
  /\ Takes("init_phys") \/ Takes("palloc")
  /\ at = "idle" /\ ~firmware.roomy
  /\ Speak(Overflow) /\ status' = "overflow"
  /\ UNCHANGED << device, step, code, call, written, got >>
  /\ UNCHANGED << firmware, kpc, traps, traced, Tables, Memory >>

GrowFault ==
  /\ Takes("init_phys") \/ Takes("palloc")
  /\ ~firmware.roomy /\ Faults(INT_PF)
  /\ UNCHANGED << device, firmware, said, traced, Tables, Memory >>

InitPhys ==
  /\ Takes("init_phys")
  /\ IF "memmap" \in firmware.missing
       THEN Faults(INT_PF) /\ pool' = pool
       ELSE Goes /\ \E t \in Takings : pool' = pool \cup t
  /\ UNCHANGED << device, firmware, said, traced, Tables, granted, mem >>

(* palloc hands out the lowest page (or one next to those that a refill    *)
(* took), or returns 0 if there is none left; pvalloc makes an address of  *)
(* that in either case.                                                    *)
Palloc_Forgets(t) ==
  IF firmware.usable \ t = {} THEN {0}
  ELSE {p \in firmware.usable \ t :
          firmware.roomy => \A q \in firmware.usable \ t : p <= q}
Palloc(t) ==
  IF free \ t = {} THEN {0}
  ELSE {p \in free \ t : firmware.roomy => \A q \in free \ t : p <= q}

Pvalloc ==
  /\ Takes("palloc") /\ Goes
  /\ \E t \in Takings : \E p \in Palloc(t) :
       pool' = pool \cup t /\ granted' = Append(granted, p)
  /\ UNCHANGED << device, firmware, said, traced, Tables, mem >>

(* The direct map has the pages that are usable, and never page 0.         *)
Memset ==
  /\ Takes("memset")
  /\ LET page == granted[Now[2]]
         fill == << 250, 236 >>[Now[2]]
     IN IF page \in firmware.usable
          THEN mem' = [mem EXCEPT ![page] = fill] /\ Goes
          ELSE mem' = mem /\ Faults(INT_PF)
  /\ UNCHANGED << device, firmware, said, traced, Tables, pool, granted >>

(* What init_acpi returns is not looked at.  A zero record of a MADT holds *)
(* it for ever, and tables that lead astray are read wherever they point.  *)
InitAcpi ==
  /\ Takes("init_acpi")
  /\ IF "rsdp" \in firmware.missing THEN Faults(INT_PF)
     ELSE \/ firmware.acpi # "looping" /\ Goes
          \/ firmware.acpi = "astray" /\ \E v \in {INT_GP, INT_PF} : Faults(v)
          \/ /\ firmware.acpi # "sound" /\ status' = "looping"
             /\ UNCHANGED << driver, kpc, traps >>
  /\ UNCHANGED << device, firmware, said, traced, Tables, Memory >>

Halt ==
  /\ Takes("halt")
  /\ status' = "halted"
  /\ UNCHANGED << serialVars, firmware, kpc, traps, said, traced, Tables, Memory >>

KernelStep ==
  \/ VerifyRevision \/ SetGdtEntry \/ LoadSegments \/ SerialInitialized \/ Say
  \/ SetIsr \/ LoadIdt \/ Sti \/ UseResponse \/ Trace \/ StackProt \/ GrowFault
  \/ InitPhys \/ Pvalloc \/ Memset \/ InitAcpi \/ Halt \/ HandlerHalts

DriverStep ==
  /\ \/ status \in {"handler", "overflow"}
     \/ status = "boot" /\ (code = -1 => Now[1] = "serial_init")
  /\ Driver
  /\ UNCHANGED kernelVars

DeviceStep ==
  /\ Transmit \/ \E b \in Inputs : Arrive(b)
  /\ UNCHANGED kernelVars
Sends == Transmit /\ UNCHANGED kernelVars

KernelNext == Nmi \/ Irq \/ KernelStep \/ DriverStep \/ DeviceStep

KernelSpec ==
  /\ InitKernel /\ [][KernelNext]_vars
  /\ WF_vars(KernelStep) /\ WF_vars(DriverStep) /\ WF_vars(Sends)

-------------------------------------------------------------------------------
(* exceptions.c:60 and interrupts.c:63-66: only an NMI that comes before   *)
(* lidt can make the processor give up, and no interrupt is let in before. *)
(* From then on each vector has a handler that expects an error code       *)
(* exactly if the processor pushes one.                                    *)
CrashesOnlyEarly ==
  /\ status = "crashed" => ~idtr /\ Last(traps).vector = INT_NMI
  /\ iflag => idtr
  /\ idtr => \A v \in (0 .. 21) \ {9, 15} :
                idt[v] # << >> /\ (idt[v][1].errorCode <=> v \in PushesErrorCode)

(* The part of the output that was written before the first exception      *)
(* (k = 0), or after the k-th, and what the k-th has to say.               *)
Output == IF code = 0 THEN Own ELSE written
Part(k) ==
  SubSeq(Output, IF k = 0 THEN 1 ELSE traps[k].at + 1,
                 IF k = Len(traps) THEN Len(Output) ELSE traps[k + 1].at)
Words(k) == Characters(Handler(traps[k].vector).says)

(* exceptions.c:23 and trace.c:68: what comes out on the line is what      *)
(* kmain and its callees have said, in order and without a gap, and then   *)
(* what the handler of an exception says, no matter between which two port *)
(* accesses it struck.  A kernel that has halted has said all of its last  *)
(* message: the handler's; or, without an exception, Hello, unless palloc  *)
(* has run out of nodes and the overflow is the last it says.              *)
LastWords ==
  /\ IsPrefix(Part(0), said)
  /\ status # "crashed" =>
       \A k \in DOMAIN traps : IsPrefix(Part(k), Words(k))
  /\ status = "halted" =>
       IF traps # << >> THEN Part(Len(traps)) = Words(Len(traps))
       ELSE firmware.supported =>
              /\ Part(0) = said
              /\ \/ IsSuffix(Characters(Hello), said)
                 \/ ~firmware.roomy /\ IsSuffix(Characters(Overflow), said)

(* main.c:117 and phys.c:418, 424: memset fills pages that pvalloc has     *)
(* granted, and that the pool has not taken; when the kernel says Hello    *)
(* the two are apart and hold their own patterns.                          *)
PatternsApart ==
  /\ \A p \in DOMAIN mem : mem[p] # 0 => p \in ToSet(granted) \ pool
  /\ status = "halted" /\ kpc + 1 = Len(Script) /\ traps = << >> =>
       mem[granted[1]] = 250 /\ mem[granted[2]] = 236

(* apic.c:11 and serial.c:37: whatever the bootloader has left out,        *)
(* whatever the memory map, and with no serial device too: unless that is  *)
(* stuck, the kernel comes to a halt, and all that it has written has gone *)
(* out.  Only tables of ACPI that are not sound can hold it for ever.      *)
BootEnds ==
  (status = "boot" /\ kind # "stuck") ~>
    \/ status \in {"halted", "crashed"} /\ (code = 0 => thr = << >>)
    \/ status = "looping" /\ firmware.acpi # "sound"
===============================================================================
