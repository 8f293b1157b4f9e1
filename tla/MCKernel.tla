------------------------------- MODULE MCKernel -------------------------------
(***************************************************************************)
(* Kernel for TLC.  The constants of Serial that bound its own callers are *)
(* of no use here.  A message stands for its characters by one or two that *)
(* no other message has.                                                   *)
(***************************************************************************)
EXTENDS Kernel

MCByte == 0 .. 255
MCTexts == {}
MCSettings == {[ier |-> 1, dll |-> 1, dlm |-> 1, lcr |-> 131, mcr |-> 16]}

Long == << Hello, "Trace", Handler(INT_PF).says >>
Short == << Overflow, Handler(INT_NMI).says, Handler(8).says, Handler(INT_GP).says >>
Table ==
  [m \in Messages |->
     IF \E i \in DOMAIN Long : Long[i] = m
       THEN LET i == CHOOSE i \in DOMAIN Long : Long[i] = m IN << 2 * i, (2 * i) + 1 >>
     ELSE IF \E i \in DOMAIN Short : Short[i] = m
       THEN << 10 + CHOOSE i \in DOMAIN Short : Short[i] = m >>
     ELSE << 20 + CHOOSE i \in DOMAIN Script : Script[i] = << "say", m >> >>]
MCCharacters(m) == Table[m]

(* A bootloader that leaves nothing to be desired, and such as fall short  *)
(* of it.                                                                  *)
Best == [supported |-> TRUE, usable |-> {1, 2, 3}, roomy |-> TRUE, missing |-> {},
         acpi |-> "sound"]
MCFirmwares ==
  {Best, [Best EXCEPT !.supported = FALSE], [Best EXCEPT !.usable = {2}],
   [Best EXCEPT !.roomy = FALSE, !.usable = {1, 2}], [Best EXCEPT !.acpi = "looping"],
   [Best EXCEPT !.acpi = "astray"]}
    \cup {[Best EXCEPT !.missing = {r}] : r \in {"memmap", "hhdm", "rsdp"}}
===============================================================================
