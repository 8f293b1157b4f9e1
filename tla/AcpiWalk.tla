------------------------------ MODULE AcpiWalk ------------------------------
(***************************************************************************)
(* init_acpi and what it calls: the walk over the tables that the RSDT     *)
(* lists and, in the MADT, over its records.  How far the loops go is      *)
(* decided by lengths that stand in the tables themselves, and a table     *)
(* that is refused ends the walk at whatever level it has reached.         *)
(***************************************************************************)
EXTENDS Integers, Sequences

CONSTANTS
  Tables,        \* the tables in memory
  Null,          \* nullptr
  Rsdps,         \* what the RSDP and its extension may look like
  Lists,         \* what the pointers of the RSDT may be: sequences of tables
  Lengths,       \* what its length field may say
  Sdts,          \* what a table may look like
  Bytes,         \* values of a byte
  HeaderSize,    \* sizeof(acpi_sdt_header_t), 36
  MadtHeader,    \* sizeof(madt_header_t), 44
  EntrySize,     \* of a pointer in the RSDT, 4
  SizeValues     \* of size_t, 2^64

ASSUME SizeAssumption ==
  /\ HeaderSize \in Nat /\ MadtHeader \in Nat /\ EntrySize \in Nat \ {0}
  /\ SizeValues \in Nat \ {0}

(* An RSDP has a signature and checksums (sum, xsum) that are right or     *)
(* not.  The bytes of a table add up to 0 (sum) or not; those that follow  *)
(* its header are looked at if it is a MADT.                               *)
Signatures == {"FACP", "APIC", "other"}

ASSUME FirmwareAssumption ==
  /\ Rsdps \subseteq [there : BOOLEAN, sign : BOOLEAN, sum : BOOLEAN,
                      revision : Nat, xsum : BOOLEAN]
  /\ Bytes \subseteq Nat /\ Sdts \subseteq [signature : Signatures, sum : BOOLEAN, body : Seq(Bytes)]
  /\ Lengths \subseteq Nat
  /\ Lists \subseteq Seq(Tables) /\ Null \notin Tables
  /\ \A list \in Lists : HeaderSize + (EntrySize * Len(list)) < SizeValues

VARIABLES
  firmware,    \* what the bootloader and the firmware have left in memory
  statics,     \* rsdp, rsdt, xsdt: is the pointer set? and extended
  pc,          \* what is to be done next
  index,       \* i of the loop over the RSDT
  table,       \* the table that init_from_table is called with
  cursor,      \* entry, as an offset from the start of the MADT
  fadt_table, local_apic_address,   \* Null, or the table that they are from
  depth,       \* tracestackdepth, from that of the caller on
  ret          \* what init_acpi has returned

vars == << firmware, statics, pc, index, table, cursor,
           fadt_table, local_apic_address, depth, ret >>

EACPI_INVALID_SIGNATURE == 1
EACPI_INVALID_CHECKSUM == 2

Rsdts == [list : Lists, sum : BOOLEAN, length : Nat]

(* An RSDT whose checksum is right says how long it is. *)
Written(rsdt) == rsdt.sum => rsdt.length = HeaderSize + (EntrySize * Len(rsdt.list))

Init ==
  /\ firmware \in [rsdp : Rsdps, hhdm : BOOLEAN,
                   rsdt : {r \in [list : Lists, sum : BOOLEAN, length : Lengths] : Written(r)},
                   sdt : [Tables -> Sdts]]
  /\ statics = [rsdp |-> FALSE, rsdt |-> FALSE, xsdt |-> FALSE, extended |-> FALSE]
  /\ pc = "rsdp" /\ index = 0 /\ table = Null /\ cursor = 0
  /\ fadt_table = Null /\ local_apic_address = Null
  /\ depth = 1 /\ ret = 0

(* trace_enter, trace_exit of the function that returns. *)
Enter == depth' = depth + 1
Exit(n) == depth' = depth - n

Found == UNCHANGED << fadt_table, local_apic_address >>
Walk == UNCHANGED << firmware, statics, index, table, cursor >>

ReturnCode(ec, frames) ==
  /\ pc' = "returned" /\ ret' = ec
  /\ Exit(frames)

(* Signature and checksum of an RSDP; the whole XSDP has a checksum more.  *)
Valid(r) == r.there /\ r.sign /\ r.sum /\ (r.revision >= 2 => r.xsum)

(* The signature, then the checksum of the RSDP, and that of the XSDP.     *)
(* rsdp is kept before it is looked at, and rsdt or xsdt after it has been *)
(* found right, without a look at the table that it points to.  Neither    *)
(* the pointer to the response nor that to the offset of the HHDM is       *)
(* looked at before it is followed.                                        *)
CheckRsdp ==
  /\ pc = "rsdp"
  /\ LET r == firmware.rsdp
         revised == r.revision >= 2
     IN /\ \/ ~r.there /\ pc' = "fault" /\ UNCHANGED << ret, depth >>
           \/ r.there /\ ~r.sign /\ ReturnCode(EACPI_INVALID_SIGNATURE, 1)
           \/ r.there /\ r.sign /\ ~Valid(r) /\ ReturnCode(EACPI_INVALID_CHECKSUM, 1)
           \/ Valid(r) /\ ~firmware.hhdm /\ pc' = "fault" /\ UNCHANGED << ret, depth >>
           \/ Valid(r) /\ firmware.hhdm /\ revised /\ ReturnCode(0, 1)
           \/ Valid(r) /\ firmware.hhdm /\ ~revised /\ pc' = "next" /\ UNCHANGED << ret, depth >>
        /\ statics' = [rsdp |-> r.there, extended |-> Valid(r) /\ revised,
                       rsdt |-> Valid(r) /\ firmware.hhdm /\ ~revised,
                       xsdt |-> Valid(r) /\ firmware.hhdm /\ revised]
  /\ UNCHANGED << firmware, index, table, cursor >> /\ Found

(* The checksum of the RSDT is computed, and then ignored. *)
NumEntries_NoHeader == firmware.rsdt.length \div EntrySize
NumEntries == ((firmware.rsdt.length - HeaderSize) % SizeValues) \div EntrySize

Listed == firmware.rsdt.list

(* The pointer is followed to init_from_table.  What lies beyond the       *)
(* pointers of the RSDT is none.                                           *)
NextTable_Stays ==
  /\ pc = "next" /\ index < NumEntries
  /\ IF index < Len(Listed)
       THEN pc' = "table" /\ table' = Listed[index + 1] /\ Enter
       ELSE pc' = "wild" /\ UNCHANGED << table, depth >>
  /\ UNCHANGED << firmware, statics, index, cursor, ret >> /\ Found
NextTable ==
  /\ pc = "next" /\ index < NumEntries
  /\ IF index < Len(Listed)
       THEN pc' = "table" /\ table' = Listed[index + 1] /\ Enter
       ELSE pc' = "wild" /\ UNCHANGED << table, depth >>
  /\ index' = index + 1
  /\ UNCHANGED << firmware, statics, cursor, ret >> /\ Found

AllTablesRead ==
  /\ pc = "next" /\ index >= NumEntries
  /\ ReturnCode(0, 1)
  /\ Walk /\ Found

Sdt == firmware.sdt[table]

Refuse_NoExit ==
  /\ pc = "table" /\ ~Sdt.sum
  /\ ReturnCode(EACPI_INVALID_CHECKSUM, 1)
  /\ Walk /\ Found
Refuse_GoesOn ==
  /\ pc = "table" /\ ~Sdt.sum
  /\ pc' = "next" /\ Exit(1) /\ UNCHANGED ret
  /\ Walk /\ Found
(* init_from_table gives up, and init_acpi with it. *)
Refuse ==
  /\ pc = "table" /\ ~Sdt.sum
  /\ ReturnCode(EACPI_INVALID_CHECKSUM, 2)
  /\ Walk /\ Found

Accepted_Unchecked(signature) == pc = "table" /\ Sdt.signature = signature
Accepted(signature) == pc = "table" /\ Sdt.sum /\ Sdt.signature = signature

(* acpi_init_from_fadt has a trace_enter and a trace_exit of its own. *)
InitFromFadt ==
  /\ Accepted("FACP")
  /\ fadt_table' = table
  /\ pc' = "next" /\ Exit(1)
  /\ UNCHANGED << local_apic_address, ret >> /\ Walk

IgnoreTable ==
  /\ Accepted("other")
  /\ pc' = "next" /\ Exit(1)
  /\ UNCHANGED ret /\ Found /\ Walk

(* acpi_init_from_apic *)
BeginMadt ==
  /\ Accepted("APIC")
  /\ local_apic_address' = table
  /\ pc' = "madt" /\ cursor' = MadtHeader
  /\ UNCHANGED << firmware, statics, index, table, fadt_table, depth, ret >>

MadtLength == MadtHeader + Len(Sdt.body)

(* record_length is the second byte of a record, and what follows the      *)
(* table if there is only one byte left.                                   *)
LengthAt(offset) == offset - MadtHeader + 2
RecordLengths ==
  IF LengthAt(cursor) \in DOMAIN Sdt.body THEN {Sdt.body[LengthAt(cursor)]} ELSE Bytes

NextRecord ==
  /\ pc = "madt" /\ cursor < MadtLength
  /\ \E record_length \in RecordLengths : cursor' = cursor + record_length
  /\ UNCHANGED << firmware, statics, pc, index, table, depth, ret >> /\ Found

EndMadt ==
  /\ pc = "madt" /\ cursor >= MadtLength
  /\ pc' = "next" /\ Exit(1)
  /\ UNCHANGED ret /\ Walk /\ Found

Next ==
  \/ CheckRsdp \/ NextTable \/ AllTablesRead
  \/ Refuse \/ InitFromFadt \/ IgnoreTable
  \/ BeginMadt \/ NextRecord \/ EndMadt

Spec == Init /\ [][Next]_vars
(* The processor goes on. *)
FairSpec == Spec /\ WF_vars(Next)

-----------------------------------------------------------------------------
TypeOK ==
  /\ firmware \in [rsdp : Rsdps, hhdm : BOOLEAN, rsdt : Rsdts, sdt : [Tables -> Sdts]]
  /\ statics \in [rsdp : BOOLEAN, rsdt : BOOLEAN, xsdt : BOOLEAN, extended : BOOLEAN]
  /\ Written(firmware.rsdt)
  /\ pc \in {"rsdp", "next", "table", "madt", "returned", "fault", "wild"}
  /\ index \in Nat /\ cursor \in Nat /\ depth \in Nat /\ ret \in Nat
  /\ table \in Tables \cup {Null}
  /\ fadt_table \in Tables \cup {Null} /\ local_apic_address \in Tables \cup {Null}

(* How many of the tables have been dealt with. *)
Passed == IF pc \in {"table", "madt", "wild"} \/ ret # 0 THEN index - 1 ELSE index

Checked(found, signature) ==
  found # Null =>
    /\ statics.rsdt /\ \E i \in 1 .. index : found = Listed[i]
    /\ firmware.sdt[found].signature = signature /\ firmware.sdt[found].sum

(* acpi.c:94-119, fadt.c:7, apic.c:7: rsdt or xsdt is set only after the   *)
(* RSDP has been found right, the one that extended says and never both;   *)
(* whether it points to a table that is right, nobody knows (what          *)
(* validate_sdt_checksum says is ignored and the signature not looked at). *)
(* The tables that it leads to are checked: what is kept as the FADT, and  *)
(* where the address of the local APIC is from, has been listed by the     *)
(* RSDT and has the signature and the checksum that it should.             *)
OnlyChecked ==
  /\ statics.rsdt \/ statics.xsdt => Valid(firmware.rsdp)
  /\ statics.rsdt => ~statics.extended /\ ~statics.xsdt
  /\ statics.xsdt => statics.extended
  /\ Checked(fadt_table, "FACP") /\ Checked(local_apic_address, "APIC")

(* acpi.c:121, if the checksum of the RSDT is right although nobody looks: *)
(* no pointer is read from beyond it.  (If it is wrong, the number of      *)
(* pointers may be anything, after a wrap around in particular.)           *)
ReadsInRsdt == firmware.rsdt.sum => pc # "wild" /\ index <= Len(Listed)

(* S are the places where the records of a body begin, and its end. *)
Tiles(S, body) ==
  /\ 0 \in S
  /\ \A o \in S : o # Len(body) =>
       o + 2 <= Len(body) /\ body[o + 2] > 0 /\ o + body[o + 2] \in S

(* apic.c:11: if the records of the MADT fill it then the walk looks at    *)
(* records only, at nothing beyond the table, and ends where it ends.      *)
WalksRecords ==
  pc = "madt" =>
    \A S \in SUBSET (0 .. Len(Sdt.body)) :
      Tiles(S, Sdt.body) => cursor - MadtHeader \in S

(* Neither walk leaves its table. *)
ReadsInTables == ReadsInRsdt /\ WalksRecords

(* acpi.c:124: init_acpi returns 0 only if it has taken the last FADT and  *)
(* the last MADT of the list, and EACPI_INVALID_CHECKSUM only if there is  *)
(* a table that is wrong, before which it has done the same.  None is      *)
(* looked at on a machine with an XSDT.                                    *)
LastOf(signature, last) ==
  /\ \A i \in 1 .. Passed :
       firmware.sdt[Listed[i]].signature = signature =>
         \E j \in i .. Passed : last = Listed[j]
  /\ last # Null => \E j \in 1 .. Passed : last = Listed[j]

ResultRight ==
  pc = "returned" =>
    /\ LastOf("FACP", fadt_table) /\ LastOf("APIC", local_apic_address)
    /\ \A i \in 1 .. Passed : firmware.sdt[Listed[i]].sum
    /\ ret = 0 => Passed = IF firmware.rsdp.revision >= 2 THEN 0 ELSE NumEntries
    /\ ret = EACPI_INVALID_CHECKSUM /\ index > 0 => ~firmware.sdt[Listed[index]].sum

(* Whichever way init_acpi returns, it leaves the trace stack as deep as   *)
(* it has found it; otherwise each boot with another table would come      *)
(* nearer to the TRACE STACK OVERFLOW of _stackprot.                       *)
TraceBalanced ==
  /\ pc = "returned" => depth = 0
  /\ pc \in {"rsdp", "next", "wild"} => depth = 1
  /\ pc \in {"table", "madt"} => depth = 2

(* init_acpi comes to an end, unless it faults, is led astray by an RSDT   *)
(* that is wrong, or comes upon a record of length 0.                      *)
AtZeroRecord == pc = "madt" /\ cursor < MadtLength /\ 0 \in RecordLengths
Ends == (pc = "rsdp") ~> (pc \in {"returned", "fault", "wild"} \/ AtZeroRecord)
=============================================================================
