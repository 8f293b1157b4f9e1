--------------------------- MODULE AcpiWalkProofs ---------------------------
(***************************************************************************)
(* That the walk over the firmware's tables is safe, for tables of any     *)
(* number, kind and contents.                                              *)
(***************************************************************************)
EXTENDS AcpiWalk, TLAPS

USE DEF EACPI_INVALID_SIGNATURE, EACPI_INVALID_CHECKSUM

Walking == {"next", "table", "madt", "wild"}

(* While the walk goes on, the RSDP is valid and nothing has been refused. *)
WalkJustified ==
  /\ pc \in Walking =>
       /\ ret = 0
       /\ Valid(firmware.rsdp) /\ statics.rsdt
       /\ firmware.rsdp.revision < 2
  /\ pc \in {"rsdp", "fault"} => ret = 0 /\ index = 0
  /\ index = 0 => fadt_table = Null /\ local_apic_address = Null

(* Where the walk is in the list, and which table it looks at.             *)
Located ==
  /\ pc \in Walking => index <= NumEntries
  /\ pc # "wild" => index <= Len(Listed)
  /\ pc \in {"table", "madt"} => index >= 1 /\ table = Listed[index]
  /\ pc = "madt" =>
       /\ Sdt.sum /\ Sdt.signature = "APIC"
       /\ cursor >= MadtHeader /\ local_apic_address = table

(* The number of tables that the latest table taken may be among: one more *)
(* than Passed while a MADT is read.                                       *)
Seen == IF pc = "madt" THEN index ELSE Passed

AllSound == \A i \in 1 .. Seen : firmware.sdt[Listed[i]].sum

LastIn(signature, last, k) ==
  /\ \A i \in 1 .. k :
       firmware.sdt[Listed[i]].signature = signature =>
         \E j \in i .. k : last = Listed[j]
  /\ last # Null => \E j \in 1 .. k : last = Listed[j]

TookLast == LastIn("FACP", fadt_table, Seen) /\ LastIn("APIC", local_apic_address, Seen)

(* What each return code means. *)
ReturnMeans ==
  pc = "returned" =>
    /\ ret \in {0, EACPI_INVALID_SIGNATURE, EACPI_INVALID_CHECKSUM}
    /\ ret = 0 => index = IF firmware.rsdp.revision >= 2 THEN 0 ELSE NumEntries
    /\ ret # 0 /\ index > 0 => ret = EACPI_INVALID_CHECKSUM /\ ~firmware.sdt[Listed[index]].sum

IInv ==
  /\ TypeOK /\ WalkJustified /\ OnlyChecked /\ Located /\ ReadsInRsdt
  /\ AllSound /\ TookLast /\ ReturnMeans /\ WalksRecords /\ TraceBalanced

(* Multiplication undone by division. *)
LEMMA DivideBack ==
  ASSUME NEW e \in Nat \ {0}, NEW n \in Nat
  PROVE  (e * n) \div e = n
  BY SMT

(* An RSDT whose checksum is right has as many entries as it lists.        *)
LEMMA EntriesOfSoundRsdt ==
  ASSUME TypeOK, firmware.rsdt.sum
  PROVE  NumEntries = Len(Listed)
<1> DEFINE n == Len(Listed)
<1> DEFINE b == EntrySize * n
<1>1. firmware.rsdt.list \in Lists /\ firmware.rsdt.length = HeaderSize + (EntrySize * Len(firmware.rsdt.list))
  BY DEF TypeOK, Written, Rsdts
<1>2. n \in Nat /\ firmware.rsdt.length = HeaderSize + b
  BY <1>1, FirmwareAssumption DEF Listed
<1>3. HeaderSize + b < SizeValues
  BY <1>1, FirmwareAssumption DEF Listed
<1>4. b \in Nat
  BY <1>2, SizeAssumption, SMT
<1>5. b \div EntrySize = n
  BY <1>2, SizeAssumption, DivideBack
<1> HIDE DEF b
<1>6. firmware.rsdt.length - HeaderSize = b /\ b \in 0 .. SizeValues - 1
  BY <1>2, <1>3, <1>4, SizeAssumption
<1>7. b % SizeValues = b
  BY <1>6, SizeAssumption
<1> QED
  BY <1>5, <1>6, <1>7 DEF NumEntries

(* The number of entries is a natural number, whatever the length.         *)
LEMMA EntriesNatural ==
  ASSUME TypeOK
  PROVE  NumEntries \in Nat
<1> DEFINE a == (firmware.rsdt.length - HeaderSize) % SizeValues
<1>1. firmware.rsdt.length \in Nat
  BY DEF TypeOK, Rsdts
<1>2. a \in Nat
  BY <1>1, SizeAssumption
<1> HIDE DEF a
<1>3. a \div EntrySize \in Nat
  BY <1>2, SizeAssumption
<1> QED
  BY <1>3 DEF NumEntries, a

(* Types of what the firmware has left. *)
LEMMA FirmwareTypes ==
  ASSUME TypeOK
  PROVE  /\ Listed \in Seq(Tables) /\ Len(Listed) \in Nat
         /\ \A i \in 1 .. Len(Listed) : Listed[i] \in Tables /\ Listed[i] # Null
         /\ \A t \in Tables : /\ firmware.sdt[t].signature \in Signatures
                              /\ firmware.sdt[t].sum \in BOOLEAN
                              /\ firmware.sdt[t].body \in Seq(Bytes)
<1>1. firmware.rsdt.list \in Lists /\ \A t \in Tables : firmware.sdt[t] \in Sdts
  BY DEF TypeOK, Rsdts
<1>2. Listed \in Seq(Tables)
  BY <1>1, FirmwareAssumption DEF Listed
<1>3. \A i \in 1 .. Len(Listed) : Listed[i] \in Tables
  BY <1>2
<1> QED
  BY <1>1, <1>2, <1>3, FirmwareAssumption

LEMMA InitIInv == Init => IInv
<1> SUFFICES ASSUME Init PROVE IInv
  OBVIOUS
<1>1. /\ firmware.rsdt \in Rsdts /\ firmware.rsdp \in Rsdps /\ firmware.sdt \in [Tables -> Sdts]
      /\ Written(firmware.rsdt)
  BY FirmwareAssumption DEF Init, Rsdts
<1>2. TypeOK
  BY <1>1 DEF Init, TypeOK, Rsdts
<1>3. Len(Listed) \in Nat
  BY <1>2, FirmwareTypes
<1>4. Seen = 0
  BY DEF Init, Seen, Passed
<1>5. AllSound /\ TookLast
  BY <1>4 DEF Init, AllSound, TookLast, LastIn
<1>6. WalkJustified /\ OnlyChecked /\ Located /\ ReadsInRsdt
  BY <1>3 DEF Init, WalkJustified, Walking, OnlyChecked, Checked, Located, ReadsInRsdt
<1>7. ReturnMeans /\ WalksRecords /\ TraceBalanced
  BY DEF Init, ReturnMeans, WalksRecords, TraceBalanced
<1> QED
  BY <1>2, <1>5, <1>6, <1>7 DEF IInv

(* The rest of the list is searched for a last table of a signature: what  *)
(* is passed by one entry more.                                            *)
LEMMA LastGrows ==
  ASSUME NEW signature, NEW last, NEW k \in Nat, LastIn(signature, last, k),
         firmware.sdt[Listed[k + 1]].signature # signature
  PROVE  LastIn(signature, last, k + 1)
<1>1. ASSUME NEW i \in 1 .. k + 1, firmware.sdt[Listed[i]].signature = signature
      PROVE  \E j \in i .. k + 1 : last = Listed[j]
  <2>1. i \in 1 .. k
    BY <1>1
  <2>2. PICK j \in i .. k : last = Listed[j]
    BY <1>1, <2>1 DEF LastIn
  <2> QED
    BY <2>1, <2>2
<1>2. ASSUME last # Null
      PROVE  \E j \in 1 .. k + 1 : last = Listed[j]
  <2>1. PICK j \in 1 .. k : last = Listed[j]
    BY <1>2 DEF LastIn
  <2> QED
    BY <2>1
<1> QED
  BY <1>1, <1>2 DEF LastIn

LEMMA LastTaken ==
  ASSUME NEW signature, NEW k \in Nat
  PROVE  LastIn(signature, Listed[k + 1], k + 1)
<1>1. ASSUME NEW i \in 1 .. k + 1
      PROVE  \E j \in i .. k + 1 : Listed[k + 1] = Listed[j]
  <2>1. k + 1 \in i .. k + 1
    OBVIOUS
  <2> QED
    BY <2>1
<1>2. 1 \in 1 .. k + 1
  OBVIOUS
<1> QED
  BY <1>1, <1>2 DEF LastIn

-----------------------------------------------------------------------------
(* The steps. *)

LEMMA CheckRsdpStep == ASSUME IInv, CheckRsdp PROVE IInv'
<1> DEFINE r == firmware.rsdp
<1> DEFINE ok == Valid(r)
<1>1. /\ index = 0 /\ fadt_table = Null /\ local_apic_address = Null /\ ret = 0 /\ depth = 1
      /\ index' = 0 /\ fadt_table' = Null /\ local_apic_address' = Null
      /\ firmware' = firmware /\ table' = table /\ cursor' = cursor
  BY DEF IInv, WalkJustified, TraceBalanced, CheckRsdp, Found
<1>2. /\ r.revision \in Nat /\ r.there \in BOOLEAN /\ r.sign \in BOOLEAN
      /\ r.sum \in BOOLEAN /\ r.xsum \in BOOLEAN /\ firmware.hhdm \in BOOLEAN
  BY FirmwareAssumption DEF IInv, TypeOK
<1>3. ok \in BOOLEAN
  BY <1>2 DEF Valid
<1>4. statics' = [rsdp |-> r.there, extended |-> ok /\ r.revision >= 2,
                  rsdt |-> ok /\ firmware.hhdm /\ ~(r.revision >= 2),
                  xsdt |-> ok /\ firmware.hhdm /\ r.revision >= 2]
  BY DEF CheckRsdp
<1>5. \/ pc' = "fault" /\ ret' = 0 /\ depth' = 1
      \/ pc' = "returned" /\ ret' \in {1, 2} /\ depth' = 0
      \/ pc' = "returned" /\ ret' = 0 /\ depth' = 0 /\ r.revision >= 2
      \/ pc' = "next" /\ ret' = 0 /\ depth' = 1 /\ ok /\ firmware.hhdm /\ ~(r.revision >= 2)
  BY <1>1 DEF CheckRsdp, ReturnCode, Exit
<1> HIDE DEF r, ok
<1>6. /\ pc' \in {"fault", "returned", "next"} /\ ret' \in Nat
      /\ depth' = IF pc' = "returned" THEN 0 ELSE 1
  BY <1>5
<1>7. /\ statics' \in [rsdp : BOOLEAN, rsdt : BOOLEAN, xsdt : BOOLEAN, extended : BOOLEAN]
      /\ statics'.rsdt \/ statics'.xsdt => ok
      /\ statics'.rsdt => ~statics'.extended /\ ~statics'.xsdt
      /\ statics'.xsdt => statics'.extended
      /\ ok /\ firmware.hhdm /\ ~(r.revision >= 2) => statics'.rsdt
  BY <1>2, <1>3, <1>4
<1>8. TypeOK'
  BY <1>1, <1>6, <1>7 DEF IInv, TypeOK
<1>9. Seen' <= 0 /\ Seen' \in Int
  BY <1>1, <1>6 DEF Seen, Passed
<1>10. AllSound' /\ TookLast'
  BY <1>1, <1>9 DEF AllSound, TookLast, LastIn
<1>11. pc' = "next" => ret' = 0 /\ Valid(firmware.rsdp) /\ statics'.rsdt /\ firmware.rsdp.revision < 2
  BY <1>2, <1>5, <1>7 DEF r, ok
<1>12. pc' = "fault" => ret' = 0
  BY <1>5
<1>13. Valid(firmware.rsdp)' = Valid(firmware.rsdp)
  BY <1>1
<1>14. WalkJustified'
  BY <1>1, <1>6, <1>11, <1>12, <1>13 DEF WalkJustified, Walking
<1>15. OnlyChecked'
  BY <1>1, <1>7, <1>13 DEF OnlyChecked, Checked, r, ok
<1>16. /\ Len(Listed) \in Nat /\ Listed' = Listed
       /\ NumEntries \in Nat /\ NumEntries' = NumEntries
  BY <1>1, FirmwareTypes, EntriesNatural DEF IInv, Listed, NumEntries
<1>17. Located' /\ ReadsInRsdt'
  BY <1>1, <1>6, <1>16 DEF Located, ReadsInRsdt, Walking
<1>18. WalksRecords' /\ TraceBalanced'
  BY <1>6 DEF WalksRecords, TraceBalanced
<1>19. pc' = "returned" =>
         ret' \in {0, 1, 2} /\ (ret' = 0 => firmware.rsdp.revision >= 2)
  BY <1>5 DEF r
<1>20. ReturnMeans'
  BY <1>1, <1>19 DEF ReturnMeans
<1> QED
  BY <1>8, <1>10, <1>14, <1>15, <1>17, <1>18, <1>20 DEF IInv

LEMMA NextTableStep == ASSUME IInv, NextTable PROVE IInv'
<1>1. /\ firmware' = firmware /\ statics' = statics /\ cursor' = cursor /\ ret' = ret /\ index' = index + 1
      /\ fadt_table' = fadt_table /\ local_apic_address' = local_apic_address
      /\ pc = "next" /\ index < NumEntries /\ index \in Nat /\ depth = 1 /\ ret = 0
  BY DEF IInv, TypeOK, WalkJustified, Walking, TraceBalanced, NextTable, Found
<1>2. /\ Listed' = Listed /\ NumEntries' = NumEntries /\ NumEntries \in Nat
      /\ Len(Listed) \in Nat
  BY <1>1, EntriesNatural, FirmwareTypes DEF IInv, Listed, NumEntries
<1>3. CASE index < Len(Listed)
  <2>1. pc' = "table" /\ table' = Listed[index + 1] /\ depth' = 2
    BY <1>1, <1>3 DEF NextTable, Enter
  <2>2. table' \in Tables
    BY <1>1, <1>2, <1>3, <2>1, FirmwareTypes DEF IInv
  <2>3. TypeOK'
    BY <1>1, <2>1, <2>2 DEF IInv, TypeOK
  <2>4. Seen' = Seen /\ Seen = index
    BY <1>1, <2>1 DEF Seen, Passed
  <2>5. AllSound' /\ TookLast'
    BY <1>1, <1>2, <2>4 DEF IInv, AllSound, TookLast, LastIn
  <2>6. WalkJustified' /\ OnlyChecked'
    BY <1>1, <1>2, <2>1 DEF IInv, WalkJustified, Walking, OnlyChecked, Checked
  <2>7. Located' /\ ReadsInRsdt'
    BY <1>1, <1>2, <1>3, <2>1 DEF Located, ReadsInRsdt, Walking
  <2>8. ReturnMeans' /\ WalksRecords' /\ TraceBalanced'
    BY <2>1 DEF ReturnMeans, WalksRecords, TraceBalanced
  <2> QED
    BY <2>3, <2>5, <2>6, <2>7, <2>8 DEF IInv
<1>4. CASE ~(index < Len(Listed))
  <2>1. pc' = "wild" /\ table' = table /\ depth' = depth
    BY <1>1, <1>4 DEF NextTable
  <2>2. ~firmware.rsdt.sum
    BY <1>1, <1>2, <1>4, EntriesOfSoundRsdt DEF IInv
  <2>3. TypeOK'
    BY <1>1, <2>1 DEF IInv, TypeOK
  <2>4. index = Len(Listed) /\ Seen = index /\ Seen' = index
    BY <1>1, <1>2, <1>4, <2>1 DEF IInv, Located, Seen, Passed
  <2>5. AllSound' /\ TookLast'
    BY <1>1, <1>2, <2>4 DEF IInv, AllSound, TookLast, LastIn
  <2>6. WalkJustified' /\ OnlyChecked'
    BY <1>1, <1>2, <2>1 DEF IInv, WalkJustified, Walking, OnlyChecked, Checked
  <2>7. Located' /\ ReadsInRsdt'
    BY <1>1, <1>2, <2>1, <2>2 DEF Located, ReadsInRsdt, Walking
  <2>8. ReturnMeans' /\ WalksRecords' /\ TraceBalanced'
    BY <1>1, <2>1 DEF ReturnMeans, WalksRecords, TraceBalanced
  <2> QED
    BY <2>3, <2>5, <2>6, <2>7, <2>8 DEF IInv
<1> QED
  BY <1>3, <1>4

LEMMA AllTablesReadStep == ASSUME IInv, AllTablesRead PROVE IInv'
<1>1. /\ UNCHANGED << firmware, statics, index, table, cursor, fadt_table, local_apic_address >>
      /\ pc = "next" /\ index >= NumEntries /\ index \in Nat /\ depth = 1 /\ ret = 0
      /\ pc' = "returned" /\ ret' = 0 /\ depth' = 0
  BY DEF IInv, TypeOK, WalkJustified, Walking, TraceBalanced, AllTablesRead, Found, Walk,
         ReturnCode, Exit
<1>2. /\ Listed' = Listed /\ NumEntries' = NumEntries /\ NumEntries \in Nat
  BY <1>1, EntriesNatural DEF IInv, Listed, NumEntries
<1>3. TypeOK'
  BY <1>1 DEF IInv, TypeOK
<1>4. Seen' = Seen
  BY <1>1 DEF Seen, Passed
<1>5. AllSound' /\ TookLast'
  BY <1>1, <1>2, <1>4 DEF IInv, AllSound, TookLast, LastIn
<1>6. WalkJustified' /\ OnlyChecked' /\ Located' /\ ReadsInRsdt'
  BY <1>1, <1>2 DEF IInv, WalkJustified, Walking, OnlyChecked, Checked, Located, ReadsInRsdt
<1>7. index = NumEntries /\ firmware.rsdp.revision < 2
  BY <1>1, <1>2 DEF IInv, Located, WalkJustified, Walking
<1>8. firmware.rsdp.revision \in Nat
  BY FirmwareAssumption DEF IInv, TypeOK
<1>9. ReturnMeans' /\ WalksRecords' /\ TraceBalanced'
  BY <1>1, <1>2, <1>7, <1>8 DEF ReturnMeans, WalksRecords, TraceBalanced
<1> QED
  BY <1>3, <1>5, <1>6, <1>9 DEF IInv

(* What holds when init_from_table looks at a table. *)
LEMMA AtTable ==
  ASSUME IInv, pc = "table", firmware' = firmware, index' = index, table' = table
  PROVE  /\ index \in Nat /\ index >= 1 /\ index <= Len(Listed) /\ index <= NumEntries
         /\ table = Listed[index] /\ table \in Tables /\ table # Null
         /\ depth = 2 /\ ret = 0 /\ Seen = index - 1 /\ cursor \in Nat
         /\ Len(Listed) \in Nat /\ Listed' = Listed /\ Sdt' = Sdt
         /\ NumEntries' = NumEntries /\ NumEntries \in Nat
         /\ statics.rsdt /\ firmware.rsdp.revision < 2
<1>1. /\ index \in Nat /\ index >= 1 /\ index <= Len(Listed) /\ index <= NumEntries
      /\ table = Listed[index] /\ depth = 2 /\ ret = 0 /\ cursor \in Nat
      /\ statics.rsdt /\ firmware.rsdp.revision < 2
  BY DEF IInv, TypeOK, Located, TraceBalanced, WalkJustified, Walking
<1>2. Listed' = Listed /\ Sdt' = Sdt /\ NumEntries' = NumEntries
  BY DEF Listed, Sdt, NumEntries
<1>3. Len(Listed) \in Nat /\ NumEntries \in Nat
  BY FirmwareTypes, EntriesNatural DEF IInv
<1>4. table \in Tables /\ table # Null
  BY <1>1, <1>3, FirmwareTypes DEF IInv
<1>5. Seen = index - 1
  BY DEF Seen, Passed
<1> QED
  BY <1>1, <1>2, <1>3, <1>4, <1>5

LEMMA RefuseStep == ASSUME IInv, Refuse PROVE IInv'
<1>1. /\ UNCHANGED << firmware, statics, index, table, cursor, fadt_table, local_apic_address >>
      /\ pc = "table" /\ ~Sdt.sum /\ pc' = "returned" /\ ret' = 2 /\ depth' = depth - 2
  BY DEF Refuse, Walk, Found, ReturnCode, Exit
<1>2. /\ index \in Nat /\ index >= 1 /\ index <= Len(Listed) /\ table = Listed[index]
      /\ depth = 2 /\ Seen = index - 1 /\ Listed' = Listed
  BY <1>1, AtTable
<1>3. TypeOK'
  BY <1>1, <1>2 DEF IInv, TypeOK
<1>4. Seen' = Seen
  BY <1>1, <1>2 DEF Seen, Passed
<1>5. AllSound' /\ TookLast'
  BY <1>1, <1>2, <1>4 DEF IInv, AllSound, TookLast, LastIn
<1>6. WalkJustified' /\ OnlyChecked' /\ Located' /\ ReadsInRsdt'
  BY <1>1, <1>2 DEF IInv, WalkJustified, Walking, OnlyChecked, Checked, Located, ReadsInRsdt
<1>7. ReturnMeans' /\ WalksRecords' /\ TraceBalanced'
  BY <1>1, <1>2 DEF ReturnMeans, WalksRecords, TraceBalanced, Sdt
<1> QED
  BY <1>3, <1>5, <1>6, <1>7 DEF IInv

(* One table more has been dealt with, and it is sound. *)
LEMMA SoundGrows ==
  ASSUME IInv, pc = "table", Sdt.sum,
         firmware' = firmware, index' = index, table' = table, Seen' = index
  PROVE  AllSound'
<1>1. /\ index \in Nat /\ table = Listed[index] /\ Seen = index - 1 /\ Listed' = Listed
  BY AtTable
<1>2. ASSUME NEW i \in 1 .. index PROVE firmware.sdt[Listed[i]].sum
  <2>1. CASE i = index
    BY <1>1, <2>1 DEF Sdt
  <2>2. CASE i # index
    BY <1>1, <2>2 DEF IInv, AllSound
  <2> QED
    BY <2>1, <2>2
<1> QED
  BY <1>1, <1>2 DEF AllSound

LEMMA InitFromFadtStep == ASSUME IInv, InitFromFadt PROVE IInv'
<1>1. /\ UNCHANGED << firmware, statics, index, table, cursor, local_apic_address, ret >>
      /\ pc = "table" /\ Sdt.sum /\ Sdt.signature = "FACP" /\ fadt_table' = table
      /\ pc' = "next" /\ depth' = depth - 1
  BY DEF InitFromFadt, Accepted, Walk, Exit
<1>2. /\ index \in Nat /\ index >= 1 /\ index <= Len(Listed) /\ index <= NumEntries
      /\ table = Listed[index] /\ table \in Tables /\ table # Null
      /\ depth = 2 /\ ret = 0 /\ Seen = index - 1 /\ Listed' = Listed
      /\ NumEntries' = NumEntries
      /\ statics.rsdt /\ firmware.rsdp.revision < 2
  BY <1>1, AtTable
<1>3. TypeOK'
  BY <1>1, <1>2 DEF IInv, TypeOK
<1>4. Seen' = index
  BY <1>1, <1>2 DEF Seen, Passed
<1>5. AllSound'
  BY <1>1, <1>4, SoundGrows
<1>6. LastIn("FACP", table, index)
  <2>1. index - 1 \in Nat /\ (index - 1) + 1 = index
    BY <1>2
  <2> QED
    BY <1>2, <2>1, LastTaken
<1>7. LastIn("APIC", local_apic_address, index)
  <2>1. index - 1 \in Nat /\ (index - 1) + 1 = index
    BY <1>2
  <2>2. firmware.sdt[Listed[index]].signature # "APIC"
    BY <1>1, <1>2 DEF Sdt
  <2>3. LastIn("APIC", local_apic_address, index - 1)
    BY <1>2 DEF IInv, TookLast
  <2> QED
    BY <2>1, <2>2, <2>3, LastGrows
<1>8. TookLast'
  BY <1>1, <1>2, <1>4, <1>6, <1>7 DEF TookLast, LastIn
<1>9. WalkJustified' /\ Located' /\ ReadsInRsdt'
  BY <1>1, <1>2 DEF IInv, WalkJustified, Walking, Located, ReadsInRsdt
<1>10. OnlyChecked'
  BY <1>1, <1>2 DEF IInv, OnlyChecked, Checked, Sdt
<1>11. ReturnMeans' /\ WalksRecords' /\ TraceBalanced'
  BY <1>1, <1>2 DEF ReturnMeans, WalksRecords, TraceBalanced
<1> QED
  BY <1>3, <1>5, <1>8, <1>9, <1>10, <1>11 DEF IInv

LEMMA IgnoreTableStep == ASSUME IInv, IgnoreTable PROVE IInv'
<1>1. /\ UNCHANGED << firmware, statics, index, table, cursor, local_apic_address, fadt_table, ret >>
      /\ pc = "table" /\ Sdt.sum /\ Sdt.signature = "other"
      /\ pc' = "next" /\ depth' = depth - 1
  BY DEF IgnoreTable, Accepted, Walk, Found, Exit
<1>2. /\ index \in Nat /\ index >= 1 /\ index <= Len(Listed) /\ index <= NumEntries
      /\ table = Listed[index] /\ table \in Tables /\ table # Null
      /\ depth = 2 /\ ret = 0 /\ Seen = index - 1 /\ Listed' = Listed
      /\ NumEntries' = NumEntries /\ Sdt' = Sdt
      /\ statics.rsdt /\ firmware.rsdp.revision < 2
  BY <1>1, AtTable
<1>3. TypeOK'
  BY <1>1, <1>2 DEF IInv, TypeOK
<1>4. Seen' = index
  BY <1>1, <1>2 DEF Seen, Passed
<1>5. AllSound'
  BY <1>1, <1>4, SoundGrows
<1>6. LastIn("FACP", fadt_table, index)
  <2>1. index - 1 \in Nat /\ (index - 1) + 1 = index
    BY <1>2
  <2>2. firmware.sdt[Listed[index]].signature # "FACP"
    BY <1>1, <1>2 DEF Sdt
  <2>3. LastIn("FACP", fadt_table, index - 1)
    BY <1>2 DEF IInv, TookLast
  <2> QED
    BY <2>1, <2>2, <2>3, LastGrows
<1>7. LastIn("APIC", local_apic_address, index)
  <2>1. index - 1 \in Nat /\ (index - 1) + 1 = index
    BY <1>2
  <2>2. firmware.sdt[Listed[index]].signature # "APIC"
    BY <1>1, <1>2 DEF Sdt
  <2>3. LastIn("APIC", local_apic_address, index - 1)
    BY <1>2 DEF IInv, TookLast
  <2> QED
    BY <2>1, <2>2, <2>3, LastGrows
<1>8. TookLast'
  BY <1>1, <1>2, <1>4, <1>6, <1>7 DEF TookLast, LastIn
<1>9. WalkJustified' /\ OnlyChecked' /\ Located' /\ ReadsInRsdt'
  BY <1>1, <1>2 DEF IInv, WalkJustified, Walking, OnlyChecked, Checked, Located, ReadsInRsdt
<1>10. ReturnMeans' /\ WalksRecords' /\ TraceBalanced'
  BY <1>1, <1>2 DEF ReturnMeans, WalksRecords, TraceBalanced
<1> QED
  BY <1>3, <1>5, <1>8, <1>9, <1>10 DEF IInv

LEMMA BeginMadtStep == ASSUME IInv, BeginMadt PROVE IInv'
<1>1. /\ UNCHANGED << firmware, statics, index, table, fadt_table, depth, ret >>
      /\ pc = "table" /\ Sdt.sum /\ Sdt.signature = "APIC"
      /\ local_apic_address' = table /\ pc' = "madt" /\ cursor' = MadtHeader
  BY DEF BeginMadt, Accepted
<1>2. /\ index \in Nat /\ index >= 1 /\ index <= Len(Listed) /\ index <= NumEntries
      /\ table = Listed[index] /\ table \in Tables /\ table # Null
      /\ depth = 2 /\ ret = 0 /\ Seen = index - 1 /\ Listed' = Listed
      /\ NumEntries' = NumEntries /\ Sdt' = Sdt
      /\ statics.rsdt /\ firmware.rsdp.revision < 2
  BY <1>1, AtTable
<1>3. TypeOK'
  BY <1>1, <1>2, SizeAssumption DEF IInv, TypeOK
<1>4. Seen' = index
  BY <1>1 DEF Seen
<1>5. AllSound'
  BY <1>1, <1>4, SoundGrows
<1>6. LastIn("FACP", fadt_table, index)
  <2>1. index - 1 \in Nat /\ (index - 1) + 1 = index
    BY <1>2
  <2>2. firmware.sdt[Listed[index]].signature # "FACP"
    BY <1>1, <1>2 DEF Sdt
  <2>3. LastIn("FACP", fadt_table, index - 1)
    BY <1>2 DEF IInv, TookLast
  <2> QED
    BY <2>1, <2>2, <2>3, LastGrows
<1>7. LastIn("APIC", table, index)
  <2>1. index - 1 \in Nat /\ (index - 1) + 1 = index
    BY <1>2
  <2> QED
    BY <1>2, <2>1, LastTaken
<1>8. TookLast'
  BY <1>1, <1>2, <1>4, <1>6, <1>7 DEF TookLast, LastIn
<1>9. WalkJustified' /\ Located' /\ ReadsInRsdt'
  BY <1>1, <1>2, SizeAssumption DEF IInv, WalkJustified, Walking, Located, ReadsInRsdt
<1>10. OnlyChecked'
  BY <1>1, <1>2 DEF IInv, OnlyChecked, Checked, Sdt
<1>11. WalksRecords'
  <2>1. cursor' - MadtHeader = 0
    BY <1>1, SizeAssumption
  <2> QED
    BY <2>1 DEF WalksRecords, Tiles
<1>12. ReturnMeans' /\ TraceBalanced'
  BY <1>1, <1>2 DEF ReturnMeans, TraceBalanced
<1> QED
  BY <1>3, <1>5, <1>8, <1>9, <1>10, <1>11, <1>12 DEF IInv

(* What holds in the middle of a MADT. *)
LEMMA AtRecord ==
  ASSUME IInv, pc = "madt", firmware' = firmware, index' = index, table' = table
  PROVE  /\ index \in Nat /\ index >= 1 /\ index <= Len(Listed) /\ index <= NumEntries
         /\ table = Listed[index] /\ table \in Tables /\ Sdt.body \in Seq(Bytes)
         /\ depth = 2 /\ ret = 0 /\ Seen = index /\ cursor \in Nat /\ cursor >= MadtHeader
         /\ Listed' = Listed /\ Sdt' = Sdt /\ NumEntries' = NumEntries
         /\ local_apic_address = table /\ Sdt.sum /\ Sdt.signature = "APIC"
<1>1. /\ index \in Nat /\ index >= 1 /\ index <= Len(Listed) /\ index <= NumEntries
      /\ table = Listed[index] /\ depth = 2 /\ ret = 0 /\ cursor \in Nat
      /\ cursor >= MadtHeader /\ local_apic_address = table /\ Sdt.sum /\ Sdt.signature = "APIC"
  BY DEF IInv, TypeOK, Located, TraceBalanced, WalkJustified, Walking
<1>2. Listed' = Listed /\ Sdt' = Sdt /\ NumEntries' = NumEntries
  BY DEF Listed, Sdt, NumEntries
<1>3. table \in Tables /\ Sdt.body \in Seq(Bytes)
  BY <1>1, FirmwareTypes DEF IInv, Sdt
<1>4. Seen = index
  BY DEF Seen
<1> QED
  BY <1>1, <1>2, <1>3, <1>4

LEMMA NextRecordStep == ASSUME IInv, NextRecord PROVE IInv'
<1>1. /\ UNCHANGED << firmware, statics, pc, index, table, fadt_table, local_apic_address, depth, ret >>
      /\ pc = "madt" /\ cursor < MadtLength
  BY DEF NextRecord, Found
<1>2. PICK record_length \in RecordLengths : cursor' = cursor + record_length
  BY DEF NextRecord
<1>3. /\ index \in Nat /\ Listed' = Listed /\ Sdt' = Sdt /\ NumEntries' = NumEntries
      /\ Sdt.body \in Seq(Bytes) /\ cursor \in Nat /\ cursor >= MadtHeader
  BY <1>1, AtRecord
<1>4. record_length \in Bytes /\ record_length \in Nat
  <2>1. \A k \in DOMAIN Sdt.body : Sdt.body[k] \in Bytes
    BY <1>3
  <2>2. RecordLengths \subseteq Bytes
    BY <2>1, Zenon DEF RecordLengths
  <2> QED
    BY <1>2, <2>2, FirmwareAssumption
<1>5. cursor' \in Nat /\ cursor' >= MadtHeader
  BY <1>2, <1>3, <1>4, SizeAssumption
<1>6. TypeOK'
  BY <1>1, <1>5 DEF IInv, TypeOK
<1>7. Seen' = Seen
  BY <1>1 DEF Seen
<1>8. AllSound' /\ TookLast'
  BY <1>1, <1>3, <1>7 DEF IInv, AllSound, TookLast, LastIn
<1>9. WalkJustified' /\ Located' /\ ReadsInRsdt' /\ OnlyChecked'
  BY <1>1, <1>3, <1>5 DEF IInv, WalkJustified, Walking, Located, ReadsInRsdt, OnlyChecked, Checked
<1>10. ASSUME NEW S \in SUBSET (0 .. Len(Sdt.body)), Tiles(S, Sdt.body)
       PROVE  cursor' - MadtHeader \in S
  <2> DEFINE o == cursor - MadtHeader
  <2>1. o \in S /\ o \in Nat /\ Len(Sdt.body) \in Nat
    BY <1>1, <1>3, <1>10, SizeAssumption DEF IInv, WalksRecords
  <2>2. o # Len(Sdt.body)
    BY <1>1, <1>3, SizeAssumption DEF MadtLength
  <2>3. o + 2 <= Len(Sdt.body) /\ o + Sdt.body[o + 2] \in S
    BY <1>10, <2>1, <2>2 DEF Tiles
  <2>4. LengthAt(cursor) = o + 2 /\ LengthAt(cursor) \in DOMAIN Sdt.body
    BY <1>3, <2>1, <2>3, SizeAssumption DEF LengthAt
  <2>5. record_length = Sdt.body[o + 2]
    BY <1>2, <2>4 DEF RecordLengths
  <2>6. cursor' - MadtHeader = o + record_length
    BY <1>2, <1>3, <1>4, SizeAssumption
  <2> QED
    BY <2>3, <2>5, <2>6
<1>11. WalksRecords'
  BY <1>3, <1>10 DEF WalksRecords
<1>12. ReturnMeans' /\ TraceBalanced'
  BY <1>1 DEF IInv, ReturnMeans, TraceBalanced
<1> QED
  BY <1>6, <1>8, <1>9, <1>11, <1>12 DEF IInv

LEMMA EndMadtStep == ASSUME IInv, EndMadt PROVE IInv'
<1>1. /\ UNCHANGED << firmware, statics, index, table, cursor, fadt_table, local_apic_address, ret >>
      /\ pc = "madt" /\ pc' = "next" /\ depth' = depth - 1
  BY DEF EndMadt, Walk, Found, Exit
<1>2. /\ index \in Nat /\ index >= 1 /\ Listed' = Listed /\ NumEntries' = NumEntries
      /\ Seen = index /\ depth = 2 /\ ret = 0
  BY <1>1, AtRecord
<1>3. TypeOK'
  BY <1>1, <1>2 DEF IInv, TypeOK
<1>4. Seen' = Seen
  BY <1>1, <1>2 DEF Seen, Passed
<1>5. AllSound' /\ TookLast'
  BY <1>1, <1>2, <1>4 DEF IInv, AllSound, TookLast, LastIn
<1>6. WalkJustified' /\ Located' /\ ReadsInRsdt' /\ OnlyChecked'
  BY <1>1, <1>2 DEF IInv, WalkJustified, Walking, Located, ReadsInRsdt, OnlyChecked, Checked
<1>7. ReturnMeans' /\ WalksRecords' /\ TraceBalanced'
  BY <1>1, <1>2 DEF ReturnMeans, WalksRecords, TraceBalanced
<1> QED
  BY <1>3, <1>5, <1>6, <1>7 DEF IInv

LEMMA StutterStep == ASSUME IInv, UNCHANGED vars PROVE IInv'
<1>1. UNCHANGED << firmware, statics, pc, index, table, cursor, fadt_table, local_apic_address, depth, ret >>
  BY DEF vars
<1>2. Listed' = Listed /\ Sdt' = Sdt /\ NumEntries' = NumEntries /\ Seen' = Seen
  BY <1>1 DEF Listed, Sdt, NumEntries, Seen, Passed
<1>3. TypeOK' /\ WalkJustified' /\ OnlyChecked' /\ Located' /\ ReadsInRsdt'
  BY <1>1, <1>2 DEF IInv, TypeOK, WalkJustified, OnlyChecked, Checked, Located, ReadsInRsdt
<1>4. AllSound' /\ TookLast'
  BY <1>1, <1>2 DEF IInv, AllSound, TookLast, LastIn
<1>5. ReturnMeans' /\ WalksRecords' /\ TraceBalanced'
  BY <1>1, <1>2 DEF IInv, ReturnMeans, WalksRecords, TraceBalanced
<1> QED
  BY <1>3, <1>4, <1>5 DEF IInv

LEMMA StepIInv == IInv /\ [Next]_vars => IInv'
  BY CheckRsdpStep, NextTableStep, AllTablesReadStep, RefuseStep, InitFromFadtStep,
     IgnoreTableStep, BeginMadtStep, NextRecordStep, EndMadtStep, StutterStep DEF Next

LEMMA Invariance == Spec => []IInv
  BY InitIInv, StepIInv, PTL DEF Spec

LEMMA ResultFollows == IInv => ResultRight
<1> SUFFICES ASSUME IInv, pc = "returned" PROVE ResultRight
  BY DEF ResultRight
<1>1. /\ index \in Nat /\ NumEntries \in Nat /\ firmware.rsdp.revision \in Nat
      /\ Seen = Passed
  BY EntriesNatural, FirmwareAssumption DEF IInv, TypeOK, Seen
<1>2. /\ ret \in {0, 1, 2}
      /\ ret = 0 => index = IF firmware.rsdp.revision >= 2 THEN 0 ELSE NumEntries
      /\ ret # 0 /\ index > 0 => ~firmware.sdt[Listed[index]].sum
  BY DEF IInv, ReturnMeans
<1>3. LastOf("FACP", fadt_table) /\ LastOf("APIC", local_apic_address)
  BY <1>1 DEF IInv, TookLast, LastIn, LastOf
<1>4. \A i \in 1 .. Passed : firmware.sdt[Listed[i]].sum
  BY <1>1 DEF IInv, AllSound
<1>5. ret = 0 => Passed = IF firmware.rsdp.revision >= 2 THEN 0 ELSE NumEntries
  BY <1>2 DEF Passed
<1> QED
  BY <1>2, <1>3, <1>4, <1>5 DEF ResultRight

(* Every variable keeps its type; the trace depth is never negative.       *)
THEOREM TypeCorrect == Spec => []TypeOK
<1>1. IInv => TypeOK
  BY DEF IInv
<1> QED
  BY <1>1, Invariance, PTL

(* rsdt and xsdt are set only after the RSDP has been found right, never   *)
(* both; what is kept as the FADT or the MADT's address is from a table    *)
(* of the RSDT's list whose signature and checksum are right.  Of the RSDT *)
(* and the XSDT themselves nothing is said: init_acpi checks neither.      *)
THEOREM TablesChecked == Spec => []OnlyChecked
<1>1. IInv => OnlyChecked
  BY DEF IInv
<1> QED
  BY <1>1, Invariance, PTL

(* No pointer is read from beyond an RSDT whose checksum is right, and the *)
(* walk over a MADT that its records fill looks at its records only.       *)
THEOREM StaysInTables == Spec => []ReadsInTables
<1>1. IInv => ReadsInTables
  BY DEF IInv, ReadsInTables
<1> QED
  BY <1>1, Invariance, PTL

(* What init_acpi returns is what has become of the tables.                *)
THEOREM ResultCorrect == Spec => []ResultRight
  BY Invariance, ResultFollows, PTL

(* Every way out of init_acpi and init_from_table has its trace_exit.      *)
THEOREM TraceIsBalanced == Spec => []TraceBalanced
<1>1. IInv => TraceBalanced
  BY DEF IInv
<1> QED
  BY <1>1, Invariance, PTL
=============================================================================
