----------------------------- MODULE MCAcpiWalk -----------------------------
(***************************************************************************)
(* AcpiWalk for TLC: three tables, of which one may be listed twice, and   *)
(* every reason for which one may be refused or a walk led astray.  Sizes  *)
(* are a quarter of the code's, and size_t has 6 bits.                     *)
(***************************************************************************)
EXTENDS AcpiWalk

CONSTANTS t1, t2, t3

MCTables == {t1, t2, t3}
MCLists == {<< >>, << t1 >>, << t1, t2, t3 >>, << t1, t2, t1 >>}

Rsdp(there, sign, sum, revision, xsum) ==
  [there |-> there, sign |-> sign, sum |-> sum, revision |-> revision, xsum |-> xsum]
MCRsdps ==
  {Rsdp(FALSE, FALSE, FALSE, 0, FALSE), Rsdp(TRUE, FALSE, TRUE, 0, FALSE),
   Rsdp(TRUE, TRUE, FALSE, 2, TRUE), Rsdp(TRUE, TRUE, TRUE, 0, FALSE),
   Rsdp(TRUE, TRUE, TRUE, 2, FALSE), Rsdp(TRUE, TRUE, TRUE, 2, TRUE)}

(* Lengths of records: 2 and 3, 0, one beyond the end, and none at all.    *)
MCBodies ==
  {<< >>, << 1, 2 >>, << 1, 3, 0, 1, 2 >>, << 1, 0 >>, << 1, 2, 1, 3 >>, << 1, 2, 0 >>}

MCSdts ==
  [signature : {"APIC"}, sum : {TRUE}, body : MCBodies]
    \cup [signature : Signatures, sum : {FALSE}, body : {<< >>}]
    \cup [signature : Signatures, sum : {TRUE}, body : {<< >>}]
=============================================================================
