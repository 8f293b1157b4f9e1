----------------------------- MODULE KernelProofs -----------------------------
(***************************************************************************)
(* Proofs about Serial, for a device of any pace and any buffer, in any    *)
(* state at the start, whatever is written, read or received, and however  *)
(* much of it; and, resting on them, about Kernel, for every memory map,   *)
(* every set of responses that may be missing, whatever the tables of ACPI *)
(* and the pool of nodes do, every text of the messages, and any device.   *)
(***************************************************************************)
EXTENDS Kernel, SequenceTheorems, Induction

(***************************************************************************)
(* The driver of the serial port.                                          *)
(***************************************************************************)

(* Where the driver is says whether serial_init has returned. *)
Control ==
  /\ at \in {"reset", "enable"} <=> code = -1
  /\ at # "reset" => step = 9

(* What the writes of serial_init have done to the registers so far.  The  *)
(* first finds DLAB as the bootloader left it.                             *)
Programmed ==
  /\ step <= 1 => (past.dlab <=> regs.lcr >= 128)
  /\ step \in 2 .. 4 => regs.lcr = 128
  /\ step >= 5 => regs.lcr = 3
  /\ step = 0 => regs.ier = past.ier
  /\ step >= 1 => regs.ier = IF past.dlab THEN past.ier ELSE 0
  /\ step >= 3 => regs.dll = 3
  /\ step >= 4 => regs.dlm = 0
  /\ step >= 8 => regs.mcr = IF code = 0 THEN 15 ELSE 30

(* Where the test byte may be before it is looked for: still in the        *)
(* transmitter, or behind what was early, or lost since what was early     *)
(* filled the buffer.                                                      *)
Looped ==
  \/ thr = << TestByte >> /\ rx = past.early
  \/ thr = << >> /\ rx = Append(past.early, TestByte) /\ kind = "healthy"
  \/ thr = << >> /\ rx = past.early /\ (kind = "absent" \/ past.early # << >>)

(* What t is in the transmitter and r is received when the test is passed. *)
Passed(t, r) ==
  /\ kind # "absent"
  /\ IF past.early = << >>
       THEN kind = "healthy" /\ t = << >> /\ r = << >>
       ELSE /\ past.early[1] = TestByte /\ t \in {<< >>, << TestByte >>}
            /\ \/ r = Tail(past.early)
               \/ r = Append(Tail(past.early), TestByte) /\ t = << >>

Testing ==
  /\ kind = "absent" => thr = << >>
  /\ step < 6 => past.early = << >>
  /\ step \in 6 .. 8 => thr = << >> /\ rx = past.early
  /\ step = 9 /\ at = "reset" => Looped
  /\ at = "enable" => Passed(thr, rx)
  /\ code = 0 => Passed(past.stray, past.held)

(* Nothing has come in or gone out before serial_init returned 0. *)
Silence ==
  /\ code # 0 => wire = << >> /\ arrived = << >>
  /\ code = -1 => written = << >> /\ got = << >>

(* What a poll has found stays true until the driver goes on. *)
Polled ==
  /\ at = "out" /\ code = 0 => thr = << >>
  /\ at = "in" /\ code = 0 => rx # << >>

IInv ==
  /\ SerialTypeOK /\ Control /\ Programmed /\ Testing /\ Silence /\ Polled
  /\ NothingLost /\ ReadsInOrder

-------------------------------------------------------------------------------
(* Sequences of bytes: the facts that the proofs below need of them.       *)
LEMMA LenFacts ==
  ASSUME NEW s \in Seq(Byte)
  PROVE  /\ Len(s) \in Nat /\ DOMAIN s = 1 .. Len(s)
         /\ s # << >> <=> Len(s) >= 1
         /\ \A i \in 1 .. Len(s) : s[i] \in Byte
<1>1. Len(s) \in Nat /\ DOMAIN s = 1 .. Len(s) /\ \A i \in 1 .. Len(s) : s[i] \in Byte
  BY LenProperties, ElementOfSeq
<1>2. s # << >> => Len(s) \in Nat \ {0}
  BY EmptySeq
<1>3. Len(<< >>) = 0
  BY EmptySeq
<1> QED
  BY <1>1, <1>2, <1>3

LEMMA SingleFacts ==
  /\ << >> \in Seq(Byte) /\ Len(<< >>) = 0
  /\ \A e \in Byte : /\ << e >> \in Seq(Byte) /\ Len(<< e >>) = 1
                    /\ << e >>[1] = e /\ << e >> # << >>
<1>1. << >> \in Seq(Byte) /\ Len(<< >>) = 0
  BY EmptySeq
<1>2. ASSUME NEW e \in Byte
      PROVE  /\ << e >> \in Seq(Byte) /\ Len(<< e >>) = 1
             /\ << e >>[1] = e /\ << e >> # << >>
  <2>1. << e >> = Append(<< >>, e)
    OBVIOUS
  <2>2. << e >> \in Seq(Byte) /\ << e >> # << >> /\ Len(<< e >>) = 1 /\ << e >>[1] = e
    BY <1>1, <2>1, AppendProperties
  <2> QED
    BY <2>2
<1> QED
  BY <1>1, <1>2

LEMMA OnlyOne == \A n \in Nat : n >= 1 /\ (n <= 1 \/ 1 \notin 1 .. n - 1) => n = 1
  OBVIOUS

LEMMA SingleByte ==
  ASSUME NEW s \in Seq(Byte), s # << >>, Len(s) <= 1
  PROVE  s = << s[1] >> /\ s[1] \in Byte /\ Len(s) = 1
<1>1. Len(s) = 1 /\ s[1] \in Byte
  <2>1. Len(s) \in Nat /\ Len(s) >= 1
    BY LenFacts
  <2>2. Len(s) = 1
    BY <2>1, OnlyOne
  <2> QED
    BY <2>2, LenFacts
<1>2. << s[1] >> \in Seq(Byte) /\ Len(<< s[1] >>) = 1 /\ << s[1] >>[1] = s[1]
  BY <1>1, SingleFacts
<1>3. \A i \in 1 .. Len(s) : s[i] = << s[1] >>[i]
  BY <1>1, <1>2
<1>4. s = << s[1] >>
  BY <1>1, <1>2, <1>3, SeqEqual
<1> QED
  BY <1>1, <1>4

LEMMA AppendFacts ==
  ASSUME NEW s \in Seq(Byte), NEW e \in Byte
  PROVE  /\ Append(s, e) \in Seq(Byte) /\ Append(s, e) # << >>
         /\ Len(Append(s, e)) = Len(s) + 1
         /\ \A i \in 1 .. Len(s) : Append(s, e)[i] = s[i]
         /\ Append(s, e)[Len(s) + 1] = e
         /\ Append(s, e) = s \o << e >>
  BY AppendProperties, AppendIsConcat

LEMMA ConcatFacts ==
  ASSUME NEW s \in Seq(Byte), NEW t \in Seq(Byte)
  PROVE  /\ s \o t \in Seq(Byte) /\ Len(s \o t) = Len(s) + Len(t)
         /\ s \o << >> = s /\ << >> \o s = s
<1>1. s \o t \in Seq(Byte) /\ Len(s \o t) = Len(s) + Len(t)
  BY ConcatProperties
<1>2. s \o << >> = s /\ << >> \o s = s
  BY ConcatEmptySeq
<1> QED
  BY <1>1, <1>2

LEMMA Associative ==
  ASSUME NEW s \in Seq(Byte), NEW t \in Seq(Byte), NEW u \in Seq(Byte)
  PROVE  (s \o t) \o u = s \o (t \o u)
  OBVIOUS

LEMMA HeadFacts ==
  ASSUME NEW s \in Seq(Byte), s # << >>
  PROVE  /\ Head(s) \in Byte /\ Head(s) = s[1] /\ Tail(s) \in Seq(Byte)
         /\ Len(Tail(s)) = Len(s) - 1
         /\ \A i \in 1 .. Len(Tail(s)) : Tail(s)[i] = s[i + 1]
         /\ << Head(s) >> \o Tail(s) = s
<1>1. /\ Head(s) \in Byte /\ Tail(s) \in Seq(Byte) /\ Len(Tail(s)) = Len(s) - 1
      /\ \A i \in 1 .. Len(Tail(s)) : Tail(s)[i] = s[i + 1]
  BY HeadTailProperties
<1>2. Head(s) = s[1]
  BY DEF Head
<1>3. Len(s) \in Nat /\ Len(s) >= 1
  BY LenFacts
<1>4. << Head(s) >> \in Seq(Byte) /\ Len(<< Head(s) >>) = 1 /\ << Head(s) >>[1] = Head(s)
  BY <1>1, SingleFacts
<1> DEFINE t == << Head(s) >> \o Tail(s)
<1>5. /\ t \in Seq(Byte) /\ Len(t) = Len(s)
      /\ \A i \in 1 .. Len(s) : t[i] = IF i <= 1 THEN Head(s) ELSE Tail(s)[i - 1]
  <2>1. /\ t \in Seq(Byte) /\ Len(t) = 1 + Len(Tail(s))
        /\ \A i \in 1 .. 1 + Len(Tail(s)) :
              t[i] = IF i <= 1 THEN << Head(s) >>[i] ELSE Tail(s)[i - 1]
    BY <1>1, <1>4, ConcatProperties
  <2> HIDE DEF t
  <2> QED
    BY <1>1, <1>3, <1>4, <2>1
<1> HIDE DEF t
<1>6. \A i \in 1 .. Len(s) : t[i] = s[i]
  BY <1>1, <1>2, <1>3, <1>5
<1>7. t = s
  BY <1>5, <1>6, SeqEqual
<1> QED
  BY <1>1, <1>2, <1>7 DEF t

LEMMA TheWrites ==
  /\ Len(InitWrites) = 9
  /\ InitWrites[1] = << 1, 0 >> /\ InitWrites[2] = << 3, 128 >> /\ InitWrites[3] = << 0, 3 >>
  /\ InitWrites[4] = << 1, 0 >> /\ InitWrites[5] = << 3, 3 >> /\ InitWrites[6] = << 2, 199 >>
  /\ InitWrites[7] = << 4, 11 >> /\ InitWrites[8] = << 4, 30 >>
  /\ InitWrites[9] = << 0, TestByte >>
  BY DEF InitWrites

LEMMA TypeFacts ==
  ASSUME SerialTypeOK
  PROVE  /\ step \in 0 .. 9 /\ step \in Int /\ code \in {-1, 0, 1}
         /\ Len(rx) \in Nat /\ DOMAIN rx = 1 .. Len(rx)
         /\ thr # << >> => thr = << thr[1] >> /\ thr[1] \in Byte /\ Len(thr) = 1
<1>1. step \in 0 .. 9 /\ step \in Int /\ code \in {-1, 0, 1}
  BY TheWrites DEF SerialTypeOK
<1>2. Len(rx) \in Nat /\ DOMAIN rx = 1 .. Len(rx)
  BY LenFacts DEF SerialTypeOK
<1>3. thr # << >> => thr = << thr[1] >> /\ thr[1] \in Byte /\ Len(thr) = 1
  BY SingleByte DEF SerialTypeOK
<1> QED
  BY <1>1, <1>2, <1>3

(* DLAB and the loopback bit, for the values that the driver writes. *)
LEMMA TheBits ==
  ASSUME SerialTypeOK, Programmed
  PROVE  /\ step >= 5 => ~DlabOn(regs)
         /\ step >= 8 => (LoopOn(regs) <=> code # 0)
<1>1. 30 \div 16 = 1 /\ 15 \div 16 = 0 /\ 1 % 2 = 1 /\ 0 % 2 = 0
  OBVIOUS
<1>2. step >= 5 => ~DlabOn(regs)
  BY DEF Programmed, DlabOn
<1>3. step >= 8 => (LoopOn(regs) <=> code # 0)
  BY <1>1 DEF Programmed, LoopOn
<1> QED
  BY <1>2, <1>3

LEMMA InitCorrect == InitSerial => IInv
<1> SUFFICES ASSUME InitSerial PROVE IInv
  OBVIOUS
<1>1. SerialTypeOK
  <2>1. kind \in Kinds /\ regs \in [ier : Nat, dll : Nat, dlm : Nat, lcr : Nat, mcr : Nat]
    BY SerialAssumption DEF InitSerial, InitDevice
  <2>2. << >> \in Seq(Byte) /\ Len(<< >>) = 0
    BY EmptySeq
  <2>3. rx \in Seq(Byte) /\ thr \in Seq(Byte) /\ Len(thr) <= 1
    <3>1. \A b \in Byte : << b >> \in Seq(Byte) /\ Len(<< b >>) = 1
      BY SingleFacts
    <3>2. {<< b >> : b \in Inputs} \subseteq {<< b >> : b \in Byte}
      BY SerialAssumption
    <3>3. /\ rx = << >> \/ \E b \in Byte : rx = << b >>
          /\ thr = << >> \/ \E b \in Byte : thr = << b >>
      BY <3>2 DEF InitSerial, InitDevice
    <3>4. ASSUME NEW s, NEW b \in Byte, s = << b >> PROVE s \in Seq(Byte) /\ Len(s) <= 1
      <4>1. << b >> \in Seq(Byte) /\ Len(<< b >>) = 1
        BY <3>1
      <4> QED
        BY <3>4, <4>1
    <3>5. << >> \in Seq(Byte) /\ Len(<< >>) <= 1
      BY <2>2
    <3> QED
      BY <3>3, <3>4, <3>5, Zenon
  <2>4. call \in [base : {0, 10, 16}, n : Nat, rest : Nat, from : Nat] /\ at = "reset"
    BY DEF InitSerial, InitDriver
  <2>5. step \in 0 .. Len(InitWrites) /\ code \in {-1, 0, 1}
    BY TheWrites DEF InitSerial, InitDriver
  <2>6. /\ wire = << >> /\ arrived = << >>
        /\ written = << >> /\ got = << >> /\ todo = << >>
    BY DEF InitSerial, InitDevice, InitDriver
  <2>7. past \in [dlab : BOOLEAN, ier : Nat, early : Seq(Byte), stray : Seq(Byte), held : Seq(Byte)]
    <3>1. regs.ier \in Nat /\ DlabOn(regs) \in BOOLEAN
      BY <2>1 DEF DlabOn
    <3>2. past = [dlab |-> DlabOn(regs), ier |-> regs.ier,
                  early |-> << >>, stray |-> << >>, held |-> << >>]
      BY DEF InitSerial, InitDevice
    <3> QED
      BY <2>2, <3>1, <3>2
  <2> QED
    BY <2>1, <2>2, <2>3, <2>4, <2>5, <2>6, <2>7 DEF SerialTypeOK
<1>2. Control /\ Silence /\ Polled /\ NothingLost /\ ReadsInOrder
  BY DEF InitSerial, InitDevice, InitDriver, Control, Silence, Polled, NothingLost, ReadsInOrder
<1>3. Programmed
  <2>1. regs \in [ier : Nat, dll : Nat, dlm : Nat, lcr : Nat, mcr : Nat]
    BY <1>1 DEF SerialTypeOK
  <2>2. step = 0 /\ code = -1 /\ past.ier = regs.ier /\ (past.dlab <=> regs.lcr >= 128)
    BY DEF InitSerial, InitDevice, InitDriver, DlabOn
  <2> QED
    BY <2>1, <2>2 DEF Programmed
<1>4. Testing
  BY DEF InitSerial, InitDevice, InitDriver, Testing
<1> QED
  BY <1>1, <1>2, <1>3, <1>4 DEF IInv

-------------------------------------------------------------------------------
(* The device. *)

LEMMA TransmitKeeps ==
  ASSUME IInv, Transmit
  PROVE  IInv'
<1>0. /\ SerialTypeOK /\ Control /\ Programmed /\ Testing /\ Silence /\ Polled
      /\ NothingLost /\ ReadsInOrder
  BY DEF IInv
<1>1. /\ kind = "healthy" /\ thr # << >> /\ thr' = << >>
      /\ UNCHANGED << kind, regs, arrived, past, at, step, todo, code, call, written, got >>
  BY DEF Transmit, driver
<1>2. thr = << thr[1] >> /\ thr[1] \in Byte /\ Len(thr) = 1 /\ step \in 0 .. 9
  BY <1>0, TypeFacts, <1>1
<1>3. rx \in Seq(Byte) /\ wire \in Seq(Byte) /\ thr \in Seq(Byte)
  BY <1>0 DEF SerialTypeOK
<1>4. step < 6 \/ step = 9
  BY <1>0, <1>1, <1>2 DEF Testing
<1>5. rx' = rx \/ rx' = Append(rx, thr[1])
  BY DEF Transmit, Receive
<1>6. rx' \in Seq(Byte)
  BY <1>2, <1>3, <1>5, AppendFacts
<1>7. wire' = wire \/ wire' = wire \o thr
  BY DEF Transmit
<1>8. SerialTypeOK'
  <2>1. wire' \in Seq(Byte)
    BY <1>3, <1>7, ConcatFacts
  <2> QED
    BY <1>0, <1>1, <1>6, <2>1, SingleFacts DEF SerialTypeOK
<1>9. Control' /\ Programmed'
  BY <1>0, <1>1 DEF Control, Programmed
<1>10. CASE code # 0
  <2>1. wire' = wire
    <3>1. CASE step < 6
      BY <3>1 DEF Transmit
    <3>2. CASE step = 9
      BY <1>0, <1>10, <3>2, TheBits DEF Transmit
    <3> QED
      BY <1>4, <3>1, <3>2
  <2>2. Silence' /\ Polled' /\ NothingLost' /\ ReadsInOrder'
    BY <1>0, <1>1, <1>10, <2>1 DEF Silence, Polled, NothingLost, ReadsInOrder
  <2>3. Testing'
    <3>1. step < 6 => at = "reset"
      BY <1>0, <1>2 DEF Control
    <3>2. step = 9 /\ at = "reset" => Looped'
      <4> SUFFICES ASSUME step = 9, at = "reset" PROVE Looped'
        OBVIOUS
      <4>1. thr = << TestByte >> /\ rx = past.early /\ TestByte \in Byte
        BY <1>0, <1>1, SerialAssumption DEF Testing, Looped
      <4>2. thr[1] = TestByte
        BY <4>1, SingleFacts
      <4>3. LoopOn(regs)
        BY <1>0, <1>10, TheBits
      <4>4. CASE Len(rx) < RxSize
        <5>1. rx' = Append(past.early, TestByte)
          BY <4>1, <4>2, <4>3, <4>4 DEF Transmit, Receive
        <5> QED
          BY <1>1, <5>1 DEF Looped
      <4>5. CASE ~(Len(rx) < RxSize)
        <5>1. rx' = past.early
          BY <4>1, <4>3, <4>5 DEF Transmit, Receive
        <5>2. past.early # << >>
          BY <4>1, <4>5, SingleFacts, SerialAssumption
        <5> QED
          BY <1>1, <5>1, <5>2 DEF Looped
      <4> QED
        BY <4>4, <4>5
    <3>3. at = "enable" => Passed(thr', rx')
      <4> SUFFICES ASSUME at = "enable" PROVE Passed(thr', rx')
        OBVIOUS
      <4>1. /\ past.early # << >> /\ past.early[1] = TestByte /\ kind # "absent"
            /\ thr = << TestByte >> /\ rx = Tail(past.early) /\ TestByte \in Byte
        BY <1>0, <1>1, SerialAssumption DEF Testing, Passed
      <4>2. thr[1] = TestByte
        BY <4>1, SingleFacts
      <4> QED
        BY <1>1, <1>5, <4>1, <4>2 DEF Passed
    <3>4. at' = "enable" => Passed(thr, rx)'
      BY <1>1, <3>3 DEF Passed
    <3>5. step' < 6 => past'.early = << >>
      BY <1>0, <1>1 DEF Testing
    <3>6. /\ step' \notin 6 .. 8 /\ (kind' = "absent" => thr' = << >>) /\ code' # 0
          /\ (step' = 9 /\ at' = "reset" => Looped')
      BY <1>1, <1>4, <1>10, <3>2
    <3> QED
      BY <3>4, <3>5, <3>6 DEF Testing
  <2> QED
    BY <1>8, <1>9, <2>2, <2>3 DEF IInv
<1>11. CASE code = 0
  <2>1. step = 9
    BY <1>0, <1>11 DEF Control
  <2>2. wire' = wire \o thr /\ rx' = rx
    BY <1>0, <1>11, <2>1, TheBits DEF Transmit
  <2>3. wire' \in Seq(Byte) /\ wire' \o << >> = wire \o thr
    BY <1>3, <2>2, ConcatFacts
  <2>4. Silence' /\ Polled' /\ NothingLost' /\ ReadsInOrder'
    BY <1>0, <1>1, <1>11, <2>2, <2>3 DEF Silence, Polled, NothingLost, ReadsInOrder
  <2>5. at \notin {"reset", "enable"}
    BY <1>0, <1>11 DEF Control
  <2>6. Testing'
    BY <1>0, <1>1, <2>1, <2>5 DEF Testing, Passed
  <2> QED
    BY <1>8, <1>9, <2>4, <2>6 DEF IInv
<1> QED
  BY <1>10, <1>11

LEMMA ArriveKeeps ==
  ASSUME IInv, NEW b \in Inputs, Arrive(b)
  PROVE  IInv'
<1>0. /\ SerialTypeOK /\ Control /\ Programmed /\ Testing /\ Silence /\ Polled
      /\ NothingLost /\ ReadsInOrder
  BY DEF IInv
<1>1. /\ ~LoopOn(regs) /\ kind # "absent"
      /\ rx' = Append(rx, b) /\ b \in Byte
      /\ arrived' = IF code = 0 THEN Append(arrived, b) ELSE arrived
      /\ past' = IF step \in 6 .. 8 THEN [past EXCEPT !.early = rx'] ELSE past
      /\ UNCHANGED << kind, regs, thr, wire, at, step, todo, code, call, written, got >>
  BY SerialAssumption DEF Arrive, driver
<1>2. /\ rx \in Seq(Byte) /\ arrived \in Seq(Byte) /\ got \in Seq(Byte) /\ step \in 0 .. 9
      /\ past \in [dlab : BOOLEAN, ier : Nat, early : Seq(Byte), stray : Seq(Byte), held : Seq(Byte)]
  BY <1>0, TypeFacts DEF SerialTypeOK
<1>3. rx' \in Seq(Byte) /\ rx' # << >> /\ arrived' \in Seq(Byte)
  BY <1>1, <1>2, AppendFacts
<1>4. /\ past' \in [dlab : BOOLEAN, ier : Nat, early : Seq(Byte), stray : Seq(Byte), held : Seq(Byte)]
      /\ past'.dlab = past.dlab /\ past'.ier = past.ier
      /\ step \in 6 .. 8 => past'.early = rx'
  BY <1>1, <1>2, <1>3
<1>5. SerialTypeOK'
  BY <1>0, <1>1, <1>3, <1>4 DEF SerialTypeOK
<1>6. Control' /\ Programmed' /\ Silence'
  BY <1>0, <1>1, <1>4 DEF Control, Programmed, Silence
<1>7. step = 9 => code = 0
  BY <1>0, <1>1, TheBits
<1>8. code = 0 => step = 9 /\ past' = past /\ at \notin {"reset", "enable"}
  BY <1>0, <1>1 DEF Control
<1>9. Polled' /\ NothingLost'
  BY <1>0, <1>1, <1>3, <1>8 DEF Polled, NothingLost
<1>10. ReadsInOrder'
  <2> SUFFICES ASSUME code = 0 PROVE got \o rx' = past.held \o arrived'
    BY <1>0, <1>1, <1>8 DEF ReadsInOrder
  <2> DEFINE e == << b >>
  <2>1. e \in Seq(Byte) /\ rx' = rx \o e /\ arrived' = arrived \o e
    BY <1>1, <1>2, SingleFacts, AppendFacts
  <2> HIDE DEF e
  <2>2. past.held \in Seq(Byte) /\ got \o rx = past.held \o arrived
    BY <1>0, <1>2 DEF ReadsInOrder
  <2>3. (got \o rx) \o e = got \o (rx \o e)
    BY <1>2, <2>1, Associative, Zenon
  <2>4. (past.held \o arrived) \o e = past.held \o (arrived \o e)
    BY <1>2, <2>1, <2>2, Associative, Zenon
  <2> QED
    BY <2>1, <2>2, <2>3, <2>4
<1>11. Testing'
  <2>1. CASE step = 9
    <3>1. code = 0 /\ past' = past
      BY <1>7, <1>8, <2>1
    <3> QED
      BY <1>0, <1>1, <1>8, <2>1, <3>1 DEF Testing, Passed
  <2>2. CASE step \in 6 .. 8
    <3>1. at = "reset" /\ code # 0
      BY <1>0, <2>2 DEF Control
    <3> QED
      BY <1>0, <1>1, <1>4, <2>2, <3>1 DEF Testing
  <2>3. CASE step < 6
    <3>1. at = "reset" /\ code # 0 /\ past' = past
      BY <1>0, <1>1, <2>3 DEF Control
    <3> QED
      BY <1>0, <1>1, <2>3, <3>1 DEF Testing
  <2> QED
    BY <1>2, <2>1, <2>2, <2>3
<1> QED
  BY <1>5, <1>6, <1>9, <1>10, <1>11 DEF IInv

-------------------------------------------------------------------------------
(* The driver. *)

(* What writing to a register does, register by register. *)
LEMMA OutFacts ==
  ASSUME NEW o, NEW data, Out(o, data)
  PROVE  /\ o = 0 /\ DlabOn(regs) => regs' = [regs EXCEPT !.dll = data]
         /\ o = 1 /\ DlabOn(regs) => regs' = [regs EXCEPT !.dlm = data]
         /\ o = 1 /\ ~DlabOn(regs) => regs' = [regs EXCEPT !.ier = data]
         /\ o = 3 => regs' = [regs EXCEPT !.lcr = data]
         /\ o = 4 => regs' = [regs EXCEPT !.mcr = data]
         /\ o = 2 \/ (o = 0 /\ ~DlabOn(regs)) => regs' = regs
         /\ kind = "absent" \/ o = 2 => thr' = << >>
         /\ kind # "absent" /\ o = 0 /\ ~DlabOn(regs) => thr' = << data >>
         /\ thr = << >> /\ (o # 0 \/ DlabOn(regs)) => thr' = << >>
         /\ rx' = IF o = 2 THEN << >> ELSE rx
<1>1. /\ o = 0 /\ DlabOn(regs) => regs' = [regs EXCEPT !.dll = data]
      /\ o = 1 /\ DlabOn(regs) => regs' = [regs EXCEPT !.dlm = data]
      /\ o = 1 /\ ~DlabOn(regs) => regs' = [regs EXCEPT !.ier = data]
  BY DEF Out
<1>2. /\ o = 3 => regs' = [regs EXCEPT !.lcr = data]
      /\ o = 4 => regs' = [regs EXCEPT !.mcr = data]
      /\ o = 2 \/ (o = 0 /\ ~DlabOn(regs)) => regs' = regs
  BY DEF Out
<1>3. /\ kind = "absent" \/ o = 2 => thr' = << >>
      /\ kind # "absent" /\ o = 0 /\ ~DlabOn(regs) => thr' = << data >>
      /\ thr = << >> /\ (o # 0 \/ DlabOn(regs)) => thr' = << >>
      /\ rx' = IF o = 2 THEN << >> ELSE rx
  BY DEF Out
<1> QED
  BY <1>1, <1>2, <1>3

LEMMA InitOutKeeps ==
  ASSUME IInv, InitOut
  PROVE  IInv'
<1>0. /\ SerialTypeOK /\ Control /\ Programmed /\ Testing /\ Silence /\ Polled
      /\ NothingLost /\ ReadsInOrder
  BY DEF IInv
<1>1. /\ at = "reset" /\ code = -1 /\ step \in 0 .. 8 /\ step' = step + 1
      /\ UNCHANGED << kind, wire, arrived, past, at, todo, code, call, written, got >>
  BY <1>0, TypeFacts, TheWrites DEF InitOut, Control
<1>2. /\ step < 6 => past.early = << >>
      /\ step \in 6 .. 8 => thr = << >> /\ rx = past.early
      /\ kind = "absent" => thr = << >>
  BY <1>0, <1>1 DEF Testing
<1>3. Out(InitWrites[step + 1][1], InitWrites[step + 1][2])
  BY DEF InitOut
<1>4. regs \in [ier : Nat, dll : Nat, dlm : Nat, lcr : Nat, mcr : Nat] /\ rx \in Seq(Byte)
  BY <1>0 DEF SerialTypeOK
<1>5. (* the registers *)
      /\ step = 0 /\ ~past.dlab => regs' = [regs EXCEPT !.ier = 0]
      /\ step = 0 /\ past.dlab => regs' = [regs EXCEPT !.dlm = 0]
      /\ step = 1 => regs' = [regs EXCEPT !.lcr = 128]
      /\ step = 2 => regs' = [regs EXCEPT !.dll = 3]
      /\ step = 3 => regs' = [regs EXCEPT !.dlm = 0]
      /\ step = 4 => regs' = [regs EXCEPT !.lcr = 3]
      /\ step = 5 => regs' = regs
      /\ step = 6 => regs' = [regs EXCEPT !.mcr = 11]
      /\ step = 7 => regs' = [regs EXCEPT !.mcr = 30]
      /\ step = 8 => regs' = regs
  <2>1. /\ step = 0 => (past.dlab <=> DlabOn(regs))
        /\ step \in {2, 3} => DlabOn(regs)
        /\ step = 8 => ~DlabOn(regs)
    BY <1>0, <1>4 DEF Programmed, DlabOn
  <2>2. step = 0 => Out(1, 0)
    BY <1>3, TheWrites
  <2>3. step = 1 => Out(3, 128)
    BY <1>3, TheWrites
  <2>4. step = 2 => Out(0, 3)
    BY <1>3, TheWrites
  <2>5. step = 3 => Out(1, 0)
    BY <1>3, TheWrites
  <2>6. step = 4 => Out(3, 3)
    BY <1>3, TheWrites
  <2>7. step = 5 => Out(2, 199)
    BY <1>3, TheWrites
  <2>8. step = 6 => Out(4, 11)
    BY <1>3, TheWrites
  <2>9. step = 7 => Out(4, 30)
    BY <1>3, TheWrites
  <2>10. step = 8 => Out(0, TestByte)
    BY <1>3, TheWrites
  <2> QED
    BY <2>1, <2>2, <2>3, <2>4, <2>5, <2>6, <2>7, <2>8, <2>9, <2>10, OutFacts
<1>6. (* the buffers *)
      /\ step < 5 => thr' = << >> \/ thr' = thr
      /\ step \in 5 .. 7 => thr' = << >>
      /\ step = 8 => thr' = IF kind = "absent" THEN << >> ELSE << TestByte >>
      /\ kind = "absent" => thr' = << >>
      /\ rx' = IF step = 5 THEN << >> ELSE rx
  <2>1. \A i \in 1 .. 9 : InitWrites[i][1] = 0 => i = 3 \/ (i = 9 /\ InitWrites[i][2] = TestByte)
    BY TheWrites
  <2>2. step = 2 => DlabOn(regs)
    BY <1>0 DEF Programmed, DlabOn
  <2>3. step = 8 => ~DlabOn(regs) /\ InitWrites[9][1] = 0
    BY <1>0, TheWrites DEF Programmed, DlabOn
  <2>4. step < 8 => InitWrites[step + 1][1] # 0 \/ DlabOn(regs)
    BY <1>1, <2>1, <2>2
  <2>5. step < 8 => thr' = << >> \/ thr' = thr
    BY <1>3, <2>4 DEF Out
  <2>6. step = 8 => Out(0, TestByte)
    BY <1>3, TheWrites
  <2>7. step = 5 => Out(2, 199)
    BY <1>3, TheWrites
  <2>8. step \in 0 .. 8 /\ step # 5 => InitWrites[step + 1][1] # 2
    BY TheWrites
  <2>9. step = 5 => thr' = << >> /\ rx' = << >>
    BY <2>7, OutFacts
  <2>10. step # 5 => rx' = rx
    BY <1>1, <1>3, <2>8, OutFacts
  <2>11. step \in 6 .. 7 => thr' = << >>
    BY <1>2, <2>5
  <2>12. step = 8 => thr' = IF kind = "absent" THEN << >> ELSE << TestByte >>
    BY <2>3, <2>6, OutFacts
  <2>13. kind = "absent" => thr' = << >>
    BY <1>3, OutFacts
  <2> QED
    BY <1>1, <2>5, <2>9, <2>10, <2>11, <2>12, <2>13

<1>7. SerialTypeOK'
  <2>1. TestByte \in Byte
    BY SerialAssumption
  <2>2. regs' \in [ier : Nat, dll : Nat, dlm : Nat, lcr : Nat, mcr : Nat]
    <3> DEFINE R == [ier : Nat, dll : Nat, dlm : Nat, lcr : Nat, mcr : Nat]
    <3>1. \A n \in Nat : /\ [regs EXCEPT !.ier = n] \in R /\ [regs EXCEPT !.lcr = n] \in R
                         /\ [regs EXCEPT !.dll = n] \in R /\ [regs EXCEPT !.dlm = n] \in R
                         /\ [regs EXCEPT !.mcr = n] \in R
      BY <1>4
    <3>2. regs \in R
      BY <1>4
    <3> HIDE DEF R
    <3> QED
      BY <1>1, <1>5, <3>1, <3>2 DEF R
  <2>3. thr' \in Seq(Byte) /\ Len(thr') <= 1 /\ rx' \in Seq(Byte)
    <3>1. thr' = << >> \/ thr' = thr \/ thr' = << TestByte >>
      BY <1>1, <1>6
    <3>2. Len(<< >>) <= 1 /\ Len(<< TestByte >>) <= 1 /\ << TestByte >> \in Seq(Byte)
      BY <2>1, SingleFacts
    <3>3. thr \in Seq(Byte) /\ Len(thr) <= 1
      BY <1>0 DEF SerialTypeOK
    <3> QED
      BY <1>4, <1>6, <3>1, <3>2, <3>3, SingleFacts
  <2>4. step' \in 0 .. Len(InitWrites)
    BY <1>1, TheWrites
  <2> QED
    BY <1>0, <1>1, <2>2, <2>3, <2>4 DEF SerialTypeOK
<1>8. Programmed'
  <2>1. CASE step = 0
    BY <1>0, <1>1, <1>4, <1>5, <2>1 DEF Programmed
  <2>2. CASE step = 1
    BY <1>0, <1>1, <1>4, <1>5, <2>2 DEF Programmed
  <2>3. CASE step = 2
    BY <1>0, <1>1, <1>4, <1>5, <2>3 DEF Programmed
  <2>4. CASE step = 3
    BY <1>0, <1>1, <1>4, <1>5, <2>4 DEF Programmed
  <2>5. CASE step = 4
    BY <1>0, <1>1, <1>4, <1>5, <2>5 DEF Programmed
  <2>6. CASE step = 5
    BY <1>0, <1>1, <1>4, <1>5, <2>6 DEF Programmed
  <2>7. CASE step = 6
    BY <1>0, <1>1, <1>4, <1>5, <2>7 DEF Programmed
  <2>8. CASE step = 7
    BY <1>0, <1>1, <1>4, <1>5, <2>8 DEF Programmed
  <2>9. CASE step = 8
    BY <1>0, <1>1, <1>4, <1>5, <2>9 DEF Programmed
  <2> QED
    BY <1>1, <2>1, <2>2, <2>3, <2>4, <2>5, <2>6, <2>7, <2>8, <2>9
<1>9. Control' /\ Silence' /\ Polled' /\ NothingLost' /\ ReadsInOrder'
  BY <1>0, <1>1 DEF Control, Silence, Polled, NothingLost, ReadsInOrder
<1>11. Testing'
  <2>1. step' < 6 => past'.early = << >>
    BY <1>1, <1>2
  <2>2. step' \in 6 .. 8 => thr' = << >> /\ rx' = past'.early
    <3>1. step = 5 => past.early = << >>
      BY <1>2
    <3> QED
      BY <1>1, <1>2, <1>6, <3>1
  <2>3. step' = 9 /\ at' = "reset" => Looped'
    <3>1. step = 8 => rx' = past'.early
      BY <1>1, <1>2, <1>6
    <3>2. step = 8 /\ kind = "absent" => thr' = << >>
      BY <1>6
    <3>3. step = 8 /\ kind # "absent" => thr' = << TestByte >>
      BY <1>6
    <3> QED
      BY <1>1, <3>1, <3>2, <3>3 DEF Looped
  <2>4. at' # "enable" /\ code' # 0 /\ (kind' = "absent" => thr' = << >>)
    BY <1>1, <1>6
  <2> QED
    BY <2>1, <2>2, <2>3, <2>4 DEF Testing
<1> QED
  BY <1>7, <1>8, <1>9, <1>11 DEF IInv

(* What reading the first byte of those received leaves.                   *)
LEMMA TailOfAppend ==
  ASSUME NEW s \in Seq(Byte), NEW e \in Byte
  PROVE  /\ s = << >> => Tail(Append(s, e)) = << >> /\ Head(Append(s, e)) = e
         /\ s # << >> => /\ Tail(Append(s, e)) = Append(Tail(s), e)
                         /\ Head(Append(s, e)) = s[1]
<1> DEFINE t == Append(s, e)
<1>1. /\ t \in Seq(Byte) /\ t # << >> /\ Len(t) = Len(s) + 1
      /\ \A i \in 1 .. Len(s) : t[i] = s[i]
      /\ t[Len(s) + 1] = e /\ Len(s) \in Nat
  BY AppendFacts, LenFacts
<1>2. /\ Head(t) = t[1] /\ Tail(t) \in Seq(Byte) /\ Len(Tail(t)) = Len(s)
      /\ \A i \in 1 .. Len(s) : Tail(t)[i] = t[i + 1]
  <2> HIDE DEF t
  <2>1. /\ Head(t) = t[1] /\ Tail(t) \in Seq(Byte) /\ Len(Tail(t)) = Len(t) - 1
        /\ \A i \in 1 .. Len(Tail(t)) : Tail(t)[i] = t[i + 1]
    BY <1>1, HeadFacts
  <2> QED
    BY <1>1, <2>1
<1> HIDE DEF t
<1>3. CASE s = << >>
  BY <1>1, <1>2, <1>3, LenFacts, SingleFacts DEF t
<1>4. CASE s # << >>
  <2> DEFINE u == Append(Tail(s), e)
  <2>1. /\ Tail(s) \in Seq(Byte) /\ Len(Tail(s)) = Len(s) - 1 /\ Len(s) >= 1
        /\ \A i \in 1 .. Len(Tail(s)) : Tail(s)[i] = s[i + 1]
    BY <1>4, HeadFacts, LenFacts
  <2>2. /\ u \in Seq(Byte) /\ Len(u) = Len(s)
        /\ \A i \in 1 .. Len(s) - 1 : u[i] = s[i + 1]
        /\ u[Len(s)] = e
    <3>1. /\ u \in Seq(Byte) /\ Len(u) = Len(Tail(s)) + 1
          /\ \A i \in 1 .. Len(Tail(s)) : u[i] = Tail(s)[i]
          /\ u[Len(Tail(s)) + 1] = e
      BY <2>1, AppendFacts
    <3> HIDE DEF u
    <3> QED
      BY <1>1, <2>1, <3>1
  <2> HIDE DEF u
  <2>3. \A i \in 1 .. Len(s) : u[i] = Tail(t)[i]
    BY <1>1, <1>2, <2>1, <2>2
  <2>4. Tail(t) = u
    BY <1>2, <2>2, <2>3, SeqEqual
  <2>5. Head(t) = s[1]
    BY <1>1, <1>2, <2>1
  <2> QED
    BY <1>4, <2>4, <2>5 DEF t, u
<1> QED
  BY <1>3, <1>4

LEMMA InitTestKeeps ==
  ASSUME IInv, InitTest
  PROVE  IInv'
<1>0. /\ SerialTypeOK /\ Control /\ Programmed /\ Testing /\ Silence /\ Polled
      /\ NothingLost /\ ReadsInOrder
  BY DEF IInv
<1>1. /\ at = "reset" /\ step = 9 /\ code = -1
      /\ UNCHANGED << kind, regs, thr, wire, arrived, past, step, todo, call, written, got >>
      /\ \/ InByte # TestByte /\ at' = "idle" /\ code' = 1
         \/ InByte = TestByte /\ at' = "enable" /\ code' = -1
  BY <1>0, TheWrites DEF InitTest, Control
<1>2. rx \in Seq(Byte) /\ rx' = (IF rx = << >> THEN rx ELSE Tail(rx)) /\ past.early \in Seq(Byte)
  BY <1>0 DEF SerialTypeOK, InitTest, Consume
<1>3. rx' \in Seq(Byte)
  BY <1>2, HeadFacts
<1>4. SerialTypeOK'
  BY <1>0, <1>1, <1>3 DEF SerialTypeOK
<1>5. Control' /\ Programmed' /\ Silence' /\ Polled'
  BY <1>0, <1>1 DEF Control, Programmed, Silence, Polled
<1>6. NothingLost' /\ ReadsInOrder'
  BY <1>1 DEF NothingLost, ReadsInOrder
<1>7. (kind = "absent" => thr = << >>) /\ Looped
  BY <1>0, <1>1 DEF Testing
<1>8. CASE InByte # TestByte
  <2>1. Testing'
    BY <1>1, <1>7, <1>8 DEF Testing
  <2> QED
    BY <1>4, <1>5, <1>6, <2>1 DEF IInv
<1>9. CASE InByte = TestByte
  <2>1. kind # "absent" /\ rx # << >> /\ Head(rx) = TestByte /\ rx' = Tail(rx)
    BY <1>2, <1>9 DEF InByte, TestByte
  <2>2. TestByte \in Byte
    BY SerialAssumption
  <2>3. ASSUME rx = past.early PROVE Passed(thr, rx')
    <3>1. past.early # << >> /\ past.early[1] = TestByte /\ rx' = Tail(past.early)
      BY <1>2, <2>1, <2>3, HeadFacts
    <3>2. thr \in {<< >>, << TestByte >>}
      BY <1>7 DEF Looped
    <3> QED
      BY <2>1, <3>1, <3>2 DEF Passed
  <2>4. ASSUME thr = << >> /\ rx = Append(past.early, TestByte) /\ kind = "healthy"
        PROVE  Passed(thr, rx')
    <3>1. CASE past.early = << >>
      BY <1>2, <2>1, <2>2, <2>4, <3>1, TailOfAppend DEF Passed
    <3>2. CASE past.early # << >>
      BY <1>2, <2>1, <2>2, <2>4, <3>2, TailOfAppend DEF Passed
    <3> QED
      BY <3>1, <3>2
  <2>5. Passed(thr, rx')
    BY <1>7, <2>3, <2>4 DEF Looped
  <2>6. Testing'
    <3>1. Passed(thr, rx)'
      BY <1>1, <2>5 DEF Passed
    <3> QED
      BY <1>1, <1>7, <1>9, <3>1 DEF Testing
  <2> QED
    BY <1>4, <1>5, <1>6, <2>6 DEF IInv
<1> QED
  BY <1>8, <1>9

LEMMA InitEnableKeeps ==
  ASSUME IInv, InitEnable
  PROVE  IInv'
<1>0. /\ SerialTypeOK /\ Control /\ Programmed /\ Testing /\ Silence
  BY DEF IInv
<1>1. /\ at = "enable" /\ at' = "idle" /\ code = -1 /\ code' = 0 /\ step = 9
      /\ Out(4, 15) /\ past' = [past EXCEPT !.stray = thr, !.held = rx]
      /\ UNCHANGED << kind, wire, arrived, step, todo, call, written, got >>
  BY <1>0 DEF InitEnable, Control
<1>2. Passed(thr, rx) /\ kind # "absent"
  BY <1>0, <1>1 DEF Testing, Passed
<1>3. regs' = [regs EXCEPT !.mcr = 15] /\ thr' = thr /\ rx' = rx
  <2>1. thr' = thr
    BY <1>1, <1>2 DEF Out
  <2> QED
    BY <1>1, <2>1, OutFacts
<1>4. wire = << >> /\ arrived = << >> /\ written = << >> /\ got = << >>
  BY <1>0, <1>1 DEF Silence
<1>5. /\ regs \in [ier : Nat, dll : Nat, dlm : Nat, lcr : Nat, mcr : Nat]
      /\ past \in [dlab : BOOLEAN, ier : Nat, early : Seq(Byte), stray : Seq(Byte), held : Seq(Byte)]
      /\ thr \in Seq(Byte) /\ rx \in Seq(Byte)
  BY <1>0 DEF SerialTypeOK
<1>6. /\ regs' \in [ier : Nat, dll : Nat, dlm : Nat, lcr : Nat, mcr : Nat]
      /\ past' \in [dlab : BOOLEAN, ier : Nat, early : Seq(Byte), stray : Seq(Byte), held : Seq(Byte)]
      /\ past'.dlab = past.dlab /\ past'.ier = past.ier /\ past'.early = past.early
      /\ past'.stray = thr /\ past'.held = rx
  BY <1>1, <1>3, <1>5
<1>7. SerialTypeOK'
  BY <1>0, <1>1, <1>3, <1>6 DEF SerialTypeOK
<1>8. Programmed'
  BY <1>0, <1>1, <1>3, <1>5, <1>6 DEF Programmed
<1>9. Control' /\ Silence' /\ Polled'
  BY <1>0, <1>1 DEF Control, Silence, Polled
<1>10. Testing'
  <2>1. Passed(past.stray, past.held)'
    BY <1>1, <1>2, <1>6 DEF Passed
  <2> QED
    BY <1>1, <1>2, <2>1 DEF Testing
<1>11. NothingLost' /\ ReadsInOrder'
  <2>1. << >> \o thr = thr \o << >> /\ << >> \o rx = rx \o << >>
    BY <1>5, ConcatFacts
  <2>2. wire' \o thr' = past'.stray \o written' /\ got' \o rx' = past'.held \o arrived'
    BY <1>1, <1>3, <1>4, <1>6, <2>1
  <2> QED
    BY <1>2, <1>6, <2>2 DEF NothingLost, ReadsInOrder, Passed
<1> QED
  BY <1>7, <1>8, <1>9, <1>10, <1>11 DEF IInv

(* Steps by which the driver only gets to another place.                   *)
LEMMA MovesKeep ==
  ASSUME IInv, UNCHANGED << device, step, code, written, got >>,
         at \notin {"reset", "enable"}, at' \notin {"reset", "enable"},
         SerialTypeOK', Polled'
  PROVE  IInv'
<1>0. /\ Control /\ Programmed /\ Testing /\ Silence /\ NothingLost /\ ReadsInOrder
  BY DEF IInv
<1>1. UNCHANGED << kind, regs, thr, rx, wire, arrived, past, step, code, written, got >>
  BY DEF device
<1>2. Control' /\ Programmed' /\ Silence'
  BY <1>0, <1>1 DEF Control, Programmed, Silence
<1>3. Testing'
  BY <1>0, <1>1 DEF Testing, Passed
<1>4. NothingLost' /\ ReadsInOrder'
  BY <1>0, <1>1 DEF NothingLost, ReadsInOrder
<1> QED
  BY <1>2, <1>3, <1>4 DEF IInv

LEMMA PollKeeps ==
  ASSUME IInv, Poll \/ AwaitByte \/ CallRead
  PROVE  IInv'
<1>0. SerialTypeOK /\ Testing
  BY DEF IInv
<1>1. /\ UNCHANGED << device, step, todo, code, call, written, got >>
      /\ \/ at = "poll" /\ at' = "out" /\ (kind = "absent" \/ thr = << >>)
         \/ at = "wait" /\ at' = "in" /\ (kind = "absent" \/ rx # << >>)
         \/ at = "idle" /\ at' = "wait"
  BY DEF Poll, AwaitByte, CallRead, Empty, Ready
<1>2. UNCHANGED << kind, regs, thr, rx, wire, arrived, past >>
  BY <1>1 DEF device
<1>3. SerialTypeOK'
  BY <1>0, <1>1, <1>2 DEF SerialTypeOK
<1>4. Polled'
  BY <1>0, <1>1, <1>2 DEF Polled, Testing, Passed
<1> QED
  BY <1>1, <1>3, <1>4, MovesKeep

LEMMA WriteStringKeeps ==
  ASSUME IInv, NEW s \in Texts, WriteString(s)
  PROVE  IInv'
<1>0. SerialTypeOK
  BY DEF IInv
<1>1. /\ at = "idle" /\ todo' = s /\ at' = IF s = << >> THEN "idle" ELSE "poll"
      /\ call' = [base |-> 0, n |-> 0, rest |-> 0, from |-> Len(written)]
      /\ UNCHANGED << device, step, code, written, got >>
  BY DEF WriteString, Write
<1>2. s \in Seq(Byte) /\ Len(written) \in Nat
  BY <1>0, SerialAssumption, LenFacts DEF SerialTypeOK
<1>3. UNCHANGED << kind, regs, thr, rx, wire, arrived, past >>
  BY <1>1 DEF device
<1>4. call' \in [base : {0, 10, 16}, n : Nat, rest : Nat, from : Nat]
  BY <1>1, <1>2
<1>5. SerialTypeOK'
  BY <1>0, <1>1, <1>2, <1>3, <1>4 DEF SerialTypeOK
<1>6. Polled'
  BY <1>1 DEF Polled
<1> QED
  BY <1>1, <1>5, <1>6, MovesKeep

LEMMA WriteNumberKeeps ==
  ASSUME IInv, NEW n \in Numbers, NEW b \in {10, 16}, WriteNumber(n, b)
  PROVE  IInv'
<1>0. SerialTypeOK
  BY DEF IInv
<1>1. /\ at = "idle" /\ todo' = << >> /\ at' = "digits"
      /\ call' = [base |-> b, n |-> n, rest |-> n, from |-> Len(written)]
      /\ UNCHANGED << device, step, code, written, got >>
  BY DEF WriteNumber
<1>2. n \in Nat /\ Len(written) \in Nat
  BY <1>0, SerialAssumption, LenFacts DEF SerialTypeOK
<1>3. UNCHANGED << kind, regs, thr, rx, wire, arrived, past >>
  BY <1>1 DEF device
<1>4. call' \in [base : {0, 10, 16}, n : Nat, rest : Nat, from : Nat] /\ call'.base # 0
  BY <1>1, <1>2
<1>5. SerialTypeOK'
  BY <1>0, <1>1, <1>3, <1>4, SingleFacts DEF SerialTypeOK
<1>6. Polled'
  BY <1>1 DEF Polled
<1> QED
  BY <1>1, <1>5, <1>6, MovesKeep

LEMMA RecurseKeeps ==
  ASSUME IInv, Recurse
  PROVE  IInv'
<1>0. SerialTypeOK
  BY DEF IInv
<1>1. /\ at = "digits" /\ todo' = << Char(call.rest % call.base) >> \o todo
      /\ call' = [call EXCEPT !.rest = call.rest \div call.base]
      /\ at' = "digits" \/ at' = "poll"
      /\ UNCHANGED << device, step, code, written, got >>
  BY DEF Recurse
<1>2. /\ call \in [base : {0, 10, 16}, n : Nat, rest : Nat, from : Nat]
      /\ call.rest \in Nat /\ call.base \in {10, 16} /\ todo \in Seq(Byte)
  BY <1>0, <1>1 DEF SerialTypeOK
<1>3. call.rest % call.base \in Nat /\ call.rest \div call.base \in Nat
  <2>1. \A n \in Nat : n % 10 \in Nat /\ n \div 10 \in Nat /\ n % 16 \in Nat /\ n \div 16 \in Nat
    OBVIOUS
  <2> QED
    BY <1>2, <2>1
<1>4. Char(call.rest % call.base) \in Byte
  <2>1. call.rest % call.base \in 0 .. 15
    <3>1. \A n \in Nat : n % 10 \in 0 .. 15 /\ n % 16 \in 0 .. 15
      OBVIOUS
    <3> QED
      BY <1>2, <3>1
  <2> QED
    BY <2>1, SerialAssumption
<1>5. todo' \in Seq(Byte) /\ todo' # << >>
  <2> DEFINE first == << Char(call.rest % call.base) >>
  <2>1. first \in Seq(Byte) /\ Len(first) = 1
    BY <1>4, SingleFacts
  <2> HIDE DEF first
  <2>2. first \o todo \in Seq(Byte) /\ Len(first \o todo) = 1 + Len(todo) /\ Len(todo) \in Nat
    BY <1>2, <2>1, ConcatFacts, LenFacts
  <2>3. first \o todo # << >>
    BY <2>2, SingleFacts
  <2> QED
    BY <1>1, <2>2, <2>3 DEF first
<1>6. call' \in [base : {0, 10, 16}, n : Nat, rest : Nat, from : Nat] /\ call'.base # 0
  <2>1. \A q \in Nat : /\ [call EXCEPT !.rest = q] \in [base : {0, 10, 16}, n : Nat, rest : Nat, from : Nat]
                      /\ [call EXCEPT !.rest = q].base = call.base
    BY <1>2
  <2> DEFINE q == call.rest \div call.base
  <2>2. q \in Nat /\ call' = [call EXCEPT !.rest = q]
    BY <1>1, <1>3
  <2> HIDE DEF q
  <2>3. /\ [call EXCEPT !.rest = q] \in [base : {0, 10, 16}, n : Nat, rest : Nat, from : Nat]
        /\ [call EXCEPT !.rest = q].base = call.base
    BY <2>1, <2>2
  <2> QED
    BY <1>2, <2>2, <2>3
<1>7. UNCHANGED << kind, regs, thr, rx, wire, arrived, past >>
  BY <1>1 DEF device
<1>8. SerialTypeOK'
  BY <1>0, <1>1, <1>5, <1>6, <1>7 DEF SerialTypeOK
<1>9. Polled'
  BY <1>1 DEF Polled
<1> QED
  BY <1>1, <1>8, <1>9, MovesKeep

LEMMA WriteByteKeeps ==
  ASSUME IInv, WriteByte
  PROVE  IInv'
<1>0. /\ SerialTypeOK /\ Control /\ Programmed /\ Testing /\ Silence /\ Polled
      /\ NothingLost /\ ReadsInOrder
  BY DEF IInv
<1>1. /\ at = "out" /\ step = 9 /\ code # -1
      /\ Out(0, Head(todo)) /\ written' = Append(written, Head(todo))
      /\ todo' = Tail(todo) /\ at' = IF Tail(todo) = << >> THEN "idle" ELSE "poll"
      /\ UNCHANGED << kind, wire, arrived, past, step, code, call, got >>
  BY <1>0 DEF WriteByte, Write, Control
<1>2. todo \in Seq(Byte) /\ todo # << >> /\ written \in Seq(Byte) /\ wire \in Seq(Byte)
  BY <1>0, <1>1 DEF SerialTypeOK
<1>3. /\ Head(todo) \in Byte /\ Tail(todo) \in Seq(Byte)
      /\ written' \in Seq(Byte) /\ written' = written \o << Head(todo) >>
  BY <1>1, <1>2, HeadFacts, AppendFacts
<1>4. ~DlabOn(regs)
  BY <1>0, <1>1, TheBits
<1>5. /\ regs' = regs /\ rx' = rx
      /\ thr' = IF kind = "absent" THEN << >> ELSE << Head(todo) >>
  BY <1>1, <1>4, OutFacts
<1>6. thr' \in Seq(Byte) /\ Len(thr') <= 1
  BY <1>3, <1>5, SingleFacts
<1>7. SerialTypeOK'
  BY <1>0, <1>1, <1>3, <1>5, <1>6 DEF SerialTypeOK
<1>8. Control' /\ Programmed' /\ Silence' /\ Polled'
  BY <1>0, <1>1, <1>5 DEF Control, Programmed, Silence, Polled
<1>9. Testing'
  <2>1. kind' = "absent" => thr' = << >>
    BY <1>1, <1>5
  <2> QED
    BY <1>0, <1>1, <2>1 DEF Testing, Passed
<1>10. ReadsInOrder'
  BY <1>0, <1>1, <1>5 DEF ReadsInOrder
<1>11. NothingLost'
  <2> SUFFICES ASSUME code' = 0
               PROVE  /\ wire' \o thr' = past'.stray \o written'
                      /\ past'.stray \in {<< >>, << TestByte >>}
                      /\ past'.stray # << >> => past'.early # << >> /\ past'.early[1] = TestByte
    BY DEF NothingLost
  <2>1. code = 0 /\ kind # "absent" /\ thr = << >>
    BY <1>0, <1>1 DEF Testing, Polled, Passed
  <2>2. past.stray \in Seq(Byte)
    BY <1>0 DEF SerialTypeOK
  <2>3. wire = past.stray \o written
    BY <1>0, <1>2, <2>1, ConcatFacts DEF NothingLost
  <2> DEFINE e == << Head(todo) >>
  <2>4. e \in Seq(Byte) /\ thr' = e /\ written' = written \o e /\ wire' = wire /\ past' = past
    BY <1>1, <1>3, <1>5, <2>1, SingleFacts
  <2> HIDE DEF e
  <2>5. (past.stray \o written) \o e = past.stray \o (written \o e)
    BY <1>2, <2>2, <2>4, Associative, Zenon
  <2>6. wire' \o thr' = past'.stray \o written'
    BY <2>3, <2>4, <2>5
  <2> QED
    BY <1>0, <2>1, <2>4, <2>6 DEF NothingLost
<1> QED
  BY <1>7, <1>8, <1>9, <1>10, <1>11 DEF IInv

LEMMA ReadByteKeeps ==
  ASSUME IInv, ReadByte
  PROVE  IInv'
<1>0. /\ SerialTypeOK /\ Control /\ Programmed /\ Testing /\ Silence /\ Polled
      /\ NothingLost /\ ReadsInOrder
  BY DEF IInv
<1>1. /\ at = "in" /\ at' = "idle" /\ step = 9 /\ code # -1
      /\ rx' = (IF rx = << >> THEN rx ELSE Tail(rx)) /\ got' = Append(got, InByte)
      /\ UNCHANGED << kind, regs, thr, wire, arrived, past, step, todo, code, call, written >>
  BY <1>0 DEF ReadByte, Consume, Control
<1>2. rx \in Seq(Byte) /\ got \in Seq(Byte)
  BY <1>0 DEF SerialTypeOK
<1>3. rx # << >> => Head(rx) \in Byte /\ Tail(rx) \in Seq(Byte)
  BY <1>2, HeadFacts
<1>4. InByte \in Byte /\ rx' \in Seq(Byte)
  BY <1>1, <1>2, <1>3, SerialAssumption DEF InByte
<1>5. got' \in Seq(Byte) /\ got' = got \o << InByte >> /\ << InByte >> \in Seq(Byte)
  BY <1>1, <1>2, <1>4, AppendFacts, SingleFacts
<1>6. SerialTypeOK'
  BY <1>0, <1>1, <1>4, <1>5 DEF SerialTypeOK
<1>7. Control' /\ Programmed' /\ Silence' /\ Polled'
  BY <1>0, <1>1 DEF Control, Programmed, Silence, Polled
<1>8. NothingLost'
  BY <1>0, <1>1 DEF NothingLost
<1>10. Testing'
  BY <1>0, <1>1 DEF Testing, Passed
<1>11. ReadsInOrder'
  <2> SUFFICES ASSUME code' = 0 PROVE got' \o rx' = past.held \o arrived
    BY <1>0, <1>1 DEF ReadsInOrder
  <2>1. code = 0 /\ kind # "absent" /\ rx # << >> /\ got \o rx = past.held \o arrived
    BY <1>0, <1>1 DEF Testing, Passed, Polled, ReadsInOrder
  <2>2. InByte = Head(rx) /\ rx' = Tail(rx)
    BY <1>1, <2>1 DEF InByte
  <2>3. << Head(rx) >> \o Tail(rx) = rx /\ Tail(rx) \in Seq(Byte)
    BY <1>2, <2>1, HeadFacts
  <2>4. (got \o << InByte >>) \o rx' = got \o (<< InByte >> \o rx')
    <3> DEFINE first == << InByte >>
    <3>1. first \in Seq(Byte) /\ rx' \in Seq(Byte) /\ got \in Seq(Byte)
      BY <1>2, <1>4, <1>5
    <3> HIDE DEF first
    <3>2. (got \o first) \o rx' = got \o (first \o rx')
      BY <3>1, Associative, Zenon
    <3> QED
      BY <3>2 DEF first
  <2> QED
    BY <1>1, <1>5, <2>1, <2>2, <2>3, <2>4
<1> QED
  BY <1>6, <1>7, <1>8, <1>10, <1>11 DEF IInv

-------------------------------------------------------------------------------
LEMMA StepKeeps == IInv /\ [Next]_serialVars => IInv'
<1> SUFFICES ASSUME IInv, [Next]_serialVars PROVE IInv'
  OBVIOUS
<1>1. ASSUME Driver PROVE IInv'
  BY <1>1, InitOutKeeps, InitTestKeeps, InitEnableKeeps, RecurseKeeps, PollKeeps,
     WriteByteKeeps, ReadByteKeeps DEF Driver
<1>2. ASSUME Calls PROVE IInv'
  BY <1>2, WriteStringKeeps, WriteNumberKeeps, PollKeeps DEF Calls
<1>3. ASSUME UNCHANGED serialVars PROVE IInv'
  <2>1. UNCHANGED << kind, regs, thr, rx, wire, arrived, past, at, step, todo, code, call, written, got >>
    BY <1>3 DEF serialVars, device, driver
  <2>2. SerialTypeOK' /\ Control' /\ Programmed' /\ Silence' /\ Polled'
    BY <2>1 DEF IInv, SerialTypeOK, Control, Programmed, Silence, Polled
  <2>3. Testing' /\ NothingLost' /\ ReadsInOrder'
    BY <2>1 DEF IInv, Testing, Looped, Passed, NothingLost, ReadsInOrder
  <2> QED
    BY <2>2, <2>3 DEF IInv
<1> QED
  BY <1>1, <1>2, <1>3, TransmitKeeps, ArriveKeeps DEF Next

LEMMA Invariance == Spec => []IInv
  BY InitCorrect, StepKeeps, PTL DEF Spec

(* The variables of the driver and of the device keep their types.         *)
THEOREM TypeCorrect == Spec => []SerialTypeOK
<1>1. IInv => SerialTypeOK
  BY DEF IInv
<1> QED
  BY <1>1, Invariance, PTL

(* Whatever the bootloader has left in the registers, DLAB included:       *)
(* serial_init programs what it is to program, and returns 0 only of a     *)
(* device that works or has received a byte before loopback was on.        *)
THEOREM SettingsCorrect == Spec => []SettingsRight
<1>1. IInv => SettingsRight
  <2> SUFFICES ASSUME IInv, code # -1 PROVE SettingsRight
    BY DEF SettingsRight
  <2>1. SerialTypeOK /\ Control /\ Programmed /\ Testing
    BY DEF IInv
  <2>2. step = 9 /\ code \in {0, 1}
    BY <2>1 DEF Control, SerialTypeOK
  <2>3. /\ regs.lcr = 3 /\ regs.dll = 3 /\ regs.dlm = 0
        /\ regs.ier = IF past.dlab THEN past.ier ELSE 0
    BY <2>1, <2>2 DEF Programmed
  <2>4. LoopOn(regs) <=> code = 1
    BY <2>1, <2>2, TheBits
  <2>5. code = 0 /\ past.early = << >> => kind = "healthy"
    BY <2>1 DEF Testing, Passed
  <2> QED
    BY <2>3, <2>4, <2>5 DEF SettingsRight
<1> QED
  BY <1>1, Invariance, PTL

(* Nothing, the byte of the test included, goes out unless serial_init has *)
(* returned 0.                                                             *)
THEOREM NothingEscapes == Spec => []QuietUnlessReady
<1>1. IInv => QuietUnlessReady
  BY DEF IInv, Silence, QuietUnlessReady
<1> QED
  BY <1>1, Invariance, PTL

(* What is written goes out in order and without a gap, with nothing ahead *)
(* of it but the byte of the test, if another of its kind has stood in.    *)
THEOREM OutputComplete == Spec => []NothingLost
<1>1. IInv => NothingLost
  BY DEF IInv
<1> QED
  BY <1>1, Invariance, PTL

(* What the device has received is read in order, each byte once.          *)
THEOREM InputComplete == Spec => []ReadsInOrder
<1>1. IInv => ReadsInOrder
  BY DEF IInv
<1> QED
  BY <1>1, Invariance, PTL

-------------------------------------------------------------------------------
(* Numbers.                                                                *)

(* The digits, and the value of a numeral s that follows a.                *)
Digits == {Char(d) : d \in 0 .. 15}
IsNumeral(s) == \A i \in 1 .. Len(s) : s[i] \in Digits
Horner(a, s, b) ==
  LET v[i \in 0 .. Len(s)] == IF i = 0 THEN a ELSE (v[i - 1] * b) + Digit(s[i])
  IN v[Len(s)]

(* What the call in progress, or the latest one, has written and has yet   *)
(* to write of its number.                                                 *)
Numeral == SubSeq(written, call.from + 1, Len(written)) \o todo

(* The digits that wait denote, after what is left of the number, the      *)
(* number; and nothing is left of it when the driver starts to write them. *)
NumberInv ==
  /\ code = -1 => call.base = 0
  /\ call.base # 0 /\ at = "digits" =>
       /\ call.from = Len(written) /\ IsNumeral(todo)
       /\ Horner(call.rest, todo, call.base) = call.n
       /\ todo # << >> => call.rest # 0
  /\ call.base # 0 /\ at # "digits" =>
       /\ call.from \in 0 .. Len(written)
       /\ at \notin {"poll", "out"} => todo = << >>
       /\ IsNumeral(Numeral) /\ Numeral # << >>
       /\ Horner(0, Numeral, call.base) = call.n
       /\ Len(Numeral) > 1 => Numeral[1] # Char(0)

LEMMA DigitFacts ==
  /\ \A d \in 0 .. 15 : Digit(Char(d)) = d
  /\ \A c \in Digits : Digit(c) \in 0 .. 15 /\ c \in Byte
  /\ \A d \in 1 .. 15 : Char(d) # Char(0)
<1>1. \A d, e \in 0 .. 15 : Char(d) = Char(e) => d = e
  BY DEF Char
<1>2. \A c \in Digits : \E d \in 0 .. 15 : Char(d) = c
  BY DEF Digits
<1>3. \A c \in Digits : Digit(c) \in 0 .. 15 /\ Char(Digit(c)) = c
  BY <1>2 DEF Digit
<1>4. \A d \in 0 .. 15 : Char(d) \in Digits
  BY DEF Digits
<1>5. \A d \in 0 .. 15 : Digit(Char(d)) = d
  BY <1>1, <1>3, <1>4
<1>6. \A c \in Digits : c \in Byte
  BY SerialAssumption DEF Digits
<1>7. \A d \in 1 .. 15 : Char(d) # Char(0)
  BY DEF Char
<1> QED
  BY <1>3, <1>5, <1>6, <1>7

(* g follows Horner's rule. *)
ByRule(g, a, s, b) ==
  /\ g \in [0 .. Len(s) -> Nat] /\ g[0] = a
  /\ \A k \in 1 .. Len(s) : g[k] = (g[k - 1] * b) + Digit(s[k])

LEMMA HornerRule ==
  ASSUME NEW a \in Nat, NEW b \in Nat, NEW s \in Seq(Byte), IsNumeral(s),
         NEW g, ByRule(g, a, s, b)
  PROVE  Horner(a, s, b) = g[Len(s)]
<1> DEFINE rule(v) == [i \in 0 .. Len(s) |-> IF i = 0 THEN a ELSE (v[i - 1] * b) + Digit(s[i])]
           v == CHOOSE v : v = rule(v)
<1>0. /\ g \in [0 .. Len(s) -> Nat] /\ g[0] = a
      /\ \A k \in 1 .. Len(s) : g[k] = (g[k - 1] * b) + Digit(s[k])
  BY DEF ByRule
<1>1. Len(s) \in Nat
  BY LenFacts
<1>2. g = rule(g)
  <2>1. \A i \in 0 .. Len(s) : g[i] = rule(g)[i]
    <3> TAKE i \in 0 .. Len(s)
    <3>1. i = 0 \/ i \in 1 .. Len(s)
      BY <1>1
    <3> QED
      BY <1>0, <3>1
  <2>2. DOMAIN rule(g) = 0 .. Len(s) /\ DOMAIN g = 0 .. Len(s)
    BY <1>0
  <2> QED
    BY <1>0, <2>1, <2>2
<1>3. v = rule(v)
  <2> HIDE DEF rule
  <2> QED
    BY <1>2, Zenon
<1> HIDE DEF v
<1> DEFINE T == {k \in 0 .. Len(s) : v[k] = g[k]}
<1>4. 0 \in T
  BY <1>0, <1>1, <1>3
<1>5. ASSUME NEW k \in 0 .. Len(s) - 1, k \in T PROVE k + 1 \in T
  <2>1. k + 1 \in 0 .. Len(s) /\ k + 1 \in 1 .. Len(s) /\ k + 1 # 0 /\ (k + 1) - 1 = k
    BY <1>1
  <2>2. v[k + 1] = (v[k] * b) + Digit(s[k + 1])
    BY <1>3, <2>1
  <2>3. g[k + 1] = (g[k] * b) + Digit(s[k + 1])
    BY <1>0, <2>1
  <2> QED
    BY <1>5, <2>1, <2>2, <2>3
<1>6. Len(s) \in T
  <2> HIDE DEF T
  <2>1. 0 .. Len(s) \subseteq T
    BY <1>1, <1>4, <1>5, UpTo
  <2> QED
    BY <1>1, <2>1
<1>7. Horner(a, s, b) = v[Len(s)]
  BY DEF Horner, v
<1> QED
  BY <1>6, <1>7

LEMMA HornerExists ==
  ASSUME NEW a \in Nat, NEW b \in Nat, NEW s \in Seq(Byte), IsNumeral(s)
  PROVE  \E g : ByRule(g, a, s, b)
<1>1. Len(s) \in Nat
  BY LenFacts
<1> DEFINE h == [k \in 1 .. Len(s) |-> [y \in Nat |-> (y * b) + Digit(s[k])]]
<1>2. h \in [1 .. Len(s) -> [Nat -> Nat]]
  <2> SUFFICES ASSUME NEW k \in 1 .. Len(s), NEW y \in Nat
               PROVE  (y * b) + Digit(s[k]) \in Nat
    OBVIOUS
  <2>1. y * b \in Nat
    OBVIOUS
  <2>2. Digit(s[k]) \in Nat
    BY DigitFacts DEF IsNumeral
  <2> QED
    BY <2>1, <2>2
<1>3. \A k \in 1 .. Len(s), y \in Nat : h[k][y] = (y * b) + Digit(s[k])
  OBVIOUS
<1> HIDE DEF h
<1>4. PICK g : Recursive(g, Len(s), Nat, a, h)
  BY <1>1, <1>2, Recursion
<1>5. \A k \in 1 .. Len(s) : g[k - 1] \in Nat
  BY <1>1, <1>4 DEF Recursive
<1>6. \A k \in 1 .. Len(s) : g[k] = (g[k - 1] * b) + Digit(s[k])
  BY <1>3, <1>4, <1>5 DEF Recursive
<1>7. g \in [0 .. Len(s) -> Nat] /\ g[0] = a
  BY <1>4 DEF Recursive
<1> QED
  BY <1>6, <1>7 DEF ByRule

(* A digit that comes before a numeral is worth as much as one that is     *)
(* still a part of the number before it.                                   *)
LEMMA HornerShift ==
  ASSUME NEW a \in Nat, NEW b \in Nat, NEW c \in Digits, NEW t \in Seq(Byte), IsNumeral(t)
  PROVE  /\ << c >> \o t \in Seq(Byte) /\ IsNumeral(<< c >> \o t)
         /\ Len(<< c >> \o t) = Len(t) + 1 /\ (<< c >> \o t)[1] = c
         /\ Horner(a, << c >> \o t, b) = Horner((a * b) + Digit(c), t, b)
<1> DEFINE s == << c >> \o t
<1>0. c \in Byte /\ Digit(c) \in Nat /\ Len(t) \in Nat /\ (a * b) + Digit(c) \in Nat
  <2>1. Digit(c) \in Nat /\ c \in Byte
    BY DigitFacts
  <2>2. a * b \in Nat
    OBVIOUS
  <2> QED
    BY <2>1, <2>2, LenFacts
<1>1. << c >> \in Seq(Byte) /\ Len(<< c >>) = 1 /\ << c >>[1] = c
  BY <1>0, SingleFacts
<1>2. /\ s \in Seq(Byte) /\ Len(s) = Len(t) + 1
      /\ \A i \in 1 .. Len(s) : s[i] = IF i <= 1 THEN << c >>[i] ELSE t[i - 1]
  <2>1. /\ s \in Seq(Byte) /\ Len(s) = 1 + Len(t)
        /\ \A i \in 1 .. 1 + Len(t) : s[i] = IF i <= 1 THEN << c >>[i] ELSE t[i - 1]
    BY <1>1, ConcatProperties
  <2> HIDE DEF s
  <2> QED
    BY <1>0, <2>1
<1> HIDE DEF s
<1>3. s[1] = c /\ \A i \in 1 .. Len(t) : s[i + 1] = t[i]
  BY <1>0, <1>1, <1>2
<1>4. IsNumeral(s)
  <2> SUFFICES ASSUME NEW i \in 1 .. Len(s) PROVE s[i] \in Digits
    BY DEF IsNumeral
  <2>1. i = 1 \/ (i - 1 \in 1 .. Len(t) /\ (i - 1) + 1 = i)
    BY <1>0, <1>2
  <2> QED
    BY <1>3, <2>1 DEF IsNumeral
<1> DEFINE e == (a * b) + Digit(c)
<1> HIDE DEF e
<1>50. PICK g : ByRule(g, e, t, b)
  BY <1>0, HornerExists DEF e
<1>5. /\ g \in [0 .. Len(t) -> Nat] /\ g[0] = (a * b) + Digit(c)
      /\ \A k \in 1 .. Len(t) : g[k] = (g[k - 1] * b) + Digit(t[k])
  BY <1>50 DEF ByRule, e
<1>6. Horner(e, t, b) = g[Len(t)]
  <2>1. e \in Nat
    BY <1>0 DEF e
  <2> QED
    BY <1>50, <2>1, HornerRule
<1> DEFINE f == [k \in 0 .. Len(s) |-> IF k = 0 THEN a ELSE g[k - 1]]
<1>7. f \in [0 .. Len(s) -> Nat] /\ f[0] = a
  <2>1. \A k \in 0 .. Len(s) : k = 0 \/ k - 1 \in 0 .. Len(t)
    BY <1>0, <1>2
  <2>2. 0 \in 0 .. Len(s)
    BY <1>0, <1>2
  <2> QED
    BY <1>0, <1>5, <2>1, <2>2
<1>8. \A k \in 1 .. Len(s) : f[k] = g[k - 1]
  BY <1>0, <1>2
<1>9. ASSUME NEW k \in 1 .. Len(s) PROVE f[k] = (f[k - 1] * b) + Digit(s[k])
  <2>1. CASE k = 1
    <3>1. f[k] = g[0] /\ f[k - 1] = a
      BY <1>7, <1>8, <2>1
    <3> QED
      BY <1>3, <1>5, <2>1, <3>1
  <2>2. CASE k # 1
    <3>1. k - 1 \in 1 .. Len(t) /\ k - 1 \in 1 .. Len(s) /\ (k - 1) + 1 = k
      BY <1>0, <1>2, <2>2
    <3>2. f[k] = g[k - 1] /\ f[k - 1] = g[(k - 1) - 1] /\ s[k] = t[k - 1]
      BY <1>3, <1>8, <3>1
    <3>3. g[k - 1] = (g[(k - 1) - 1] * b) + Digit(t[k - 1])
      BY <1>5, <3>1
    <3> QED
      BY <3>2, <3>3
  <2> QED
    BY <2>1, <2>2
<1> HIDE DEF f
<1>10. Horner(a, s, b) = f[Len(s)]
  <2>1. ByRule(f, a, s, b)
    BY <1>7, <1>9 DEF ByRule
  <2> QED
    BY <1>2, <1>4, <2>1, HornerRule
<1>11. f[Len(s)] = g[Len(t)]
  <2>1. Len(s) \in 1 .. Len(s) /\ Len(s) - 1 = Len(t)
    BY <1>0, <1>2
  <2> QED
    BY <1>8, <2>1
<1> QED
  BY <1>2, <1>3, <1>4, <1>6, <1>10, <1>11 DEF s, e

LEMMA HornerEmpty ==
  ASSUME NEW a \in Nat, NEW b \in Nat
  PROVE  << >> \in Seq(Byte) /\ IsNumeral(<< >>) /\ Horner(a, << >>, b) = a
<1>1. << >> \in Seq(Byte) /\ Len(<< >>) = 0
  BY SingleFacts
<1>2. IsNumeral(<< >>)
  BY <1>1 DEF IsNumeral
<1>3. PICK g : ByRule(g, a, << >>, b)
  BY <1>1, <1>2, HornerExists
<1>4. Horner(a, << >>, b) = g[Len(<< >>)]
  <2>1. PICK e : e = << >>
    OBVIOUS
  <2>2. e \in Seq(Byte)
    BY <1>1, <2>1
  <2>3. IsNumeral(e)
    BY <1>2, <2>1, Zenon
  <2>4. ByRule(g, a, e, b)
    BY <1>3, <2>1, Zenon
  <2>5. Horner(a, e, b) = g[Len(e)]
    BY <2>2, <2>3, <2>4, HornerRule
  <2> QED
    BY <2>1, <2>5, Zenon
<1>5. g[0] = a
  BY <1>3 DEF ByRule
<1> QED
  BY <1>1, <1>2, <1>4, <1>5

LEMMA SubSeqFacts ==
  ASSUME NEW s \in Seq(Byte), NEW k \in 0 .. Len(s)
  PROVE  /\ SubSeq(s, k + 1, Len(s)) \in Seq(Byte)
         /\ Len(SubSeq(s, k + 1, Len(s))) = Len(s) - k
         /\ \A i \in 1 .. Len(s) - k : SubSeq(s, k + 1, Len(s))[i] = s[k + i]
         /\ k = Len(s) => SubSeq(s, k + 1, Len(s)) = << >>
<1> DEFINE t == SubSeq(s, k + 1, Len(s))
<1>1. Len(s) \in Nat /\ DOMAIN s = 1 .. Len(s) /\ \A i \in 1 .. Len(s) : s[i] \in Byte
  BY LenFacts
<1>2. \A i \in k + 1 .. Len(s) : s[i] \in Byte
  BY <1>1
<1>3. /\ t \in Seq(Byte) /\ Len(t) = (IF k + 1 <= Len(s) THEN Len(s) - (k + 1) + 1 ELSE 0)
      /\ \A i \in 1 .. Len(s) - (k + 1) + 1 : t[i] = s[k + 1 + i - 1]
  BY <1>1, <1>2, SubSeqProperties
<1> HIDE DEF t
<1>4. Len(t) = Len(s) - k
  <2>1. k \in Int /\ 0 <= k /\ k <= Len(s) /\ Len(s) \in Int
    BY <1>1
  <2>2. Len(t) = (IF k + 1 <= Len(s) THEN Len(s) - (k + 1) + 1 ELSE 0)
    BY <1>3
  <2>3. CASE k + 1 <= Len(s)
    BY <2>1, <2>2, <2>3
  <2>4. CASE ~(k + 1 <= Len(s))
    BY <2>1, <2>2, <2>4
  <2> QED
    BY <2>3, <2>4
<1>5. \A i \in 1 .. Len(s) - k : t[i] = s[k + i]
  <2> TAKE i \in 1 .. Len(s) - k
  <2>1. i \in 1 .. Len(s) - (k + 1) + 1 /\ k + 1 + i - 1 = k + i
    BY <1>1
  <2> QED
    BY <1>3, <2>1
<1>6. k = Len(s) => t = << >>
  BY <1>1, <1>3, <1>4, LenFacts
<1> QED
  BY <1>3, <1>4, <1>5, <1>6 DEF t

(* A byte that is written was the first of those to write.                 *)
LEMMA WrittenOn ==
  ASSUME NEW s \in Seq(Byte), NEW k \in 0 .. Len(s), NEW t \in Seq(Byte), t # << >>
  PROVE  LET r == Append(s, Head(t))
         IN  /\ k \in 0 .. Len(r)
             /\ SubSeq(r, k + 1, Len(r)) \o Tail(t) = SubSeq(s, k + 1, Len(s)) \o t
<1> DEFINE r == Append(s, Head(t))
           u == SubSeq(s, k + 1, Len(s))
<1>1. Len(s) \in Nat /\ Head(t) \in Byte /\ Tail(t) \in Seq(Byte) /\ << Head(t) >> \o Tail(t) = t
  BY LenFacts, HeadFacts
<1>2. /\ r \in Seq(Byte) /\ Len(r) = Len(s) + 1 /\ r[Len(s) + 1] = Head(t)
      /\ \A i \in 1 .. Len(s) : r[i] = s[i]
  BY <1>1, AppendFacts
<1>3. /\ u \in Seq(Byte) /\ Len(u) = Len(s) - k
      /\ \A i \in 1 .. Len(s) - k : u[i] = s[k + i]
  BY SubSeqFacts
<1> HIDE DEF r, u
<1>4. k \in 0 .. Len(r)
  BY <1>1, <1>2
<1> DEFINE v == SubSeq(r, k + 1, Len(r))
           w == Append(u, Head(t))
<1>5. /\ v \in Seq(Byte) /\ Len(v) = Len(r) - k
      /\ \A i \in 1 .. Len(r) - k : v[i] = r[k + i]
  BY <1>2, <1>4, SubSeqFacts
<1>6. /\ w \in Seq(Byte) /\ Len(w) = Len(u) + 1 /\ w[Len(u) + 1] = Head(t)
      /\ \A i \in 1 .. Len(u) : w[i] = u[i]
      /\ w = u \o << Head(t) >>
  BY <1>1, <1>3, AppendFacts
<1> HIDE DEF v, w
<1>7. Len(v) = Len(w)
  BY <1>1, <1>2, <1>3, <1>5, <1>6
<1>8. ASSUME NEW i \in 1 .. Len(v) PROVE v[i] = w[i]
  <2>1. CASE i = Len(u) + 1
    <3>1. k + i = Len(s) + 1 /\ i \in 1 .. Len(r) - k
      BY <1>1, <1>2, <1>3, <2>1
    <3> QED
      BY <1>2, <1>5, <1>6, <2>1, <3>1
  <2>2. CASE i # Len(u) + 1
    <3>1. /\ i \in 1 .. Len(u) /\ i \in 1 .. Len(s) - k /\ i \in 1 .. Len(r) - k
          /\ k + i \in 1 .. Len(s)
      BY <1>1, <1>2, <1>3, <1>5, <2>2
    <3> QED
      BY <1>2, <1>3, <1>5, <1>6, <3>1
  <2> QED
    BY <2>1, <2>2
<1>9. v = u \o << Head(t) >>
  BY <1>5, <1>6, <1>7, <1>8, SeqEqual
<1>10. (u \o << Head(t) >>) \o Tail(t) = u \o t
  <2> DEFINE h == << Head(t) >>
             e == Tail(t)
  <2>1. h \in Seq(Byte) /\ e \in Seq(Byte) /\ h \o e = t
    BY <1>1, SingleFacts
  <2> HIDE DEF h, e
  <2>2. (u \o h) \o e = u \o (h \o e)
    BY <1>3, <2>1, Associative, Zenon
  <2> QED
    BY <2>1, <2>2 DEF h, e
<1> QED
  BY <1>4, <1>9, <1>10 DEF r, u, v

(* Steps that leave alone what the call writes.                            *)
LEMMA NumberStays ==
  ASSUME IInv, NumberInv, UNCHANGED << call, written >>,
         code' = -1 => code = -1,
         at # "digits", at' # "digits", todo' = todo,
         call.base # 0 => (at' \in {"poll", "out"} <=> at \in {"poll", "out"})
  PROVE  NumberInv'
<1>1. call.base # 0 => Numeral' = Numeral
  BY DEF Numeral
<1> QED
  BY <1>1 DEF NumberInv

LEMMA WriteNumberRight ==
  ASSUME IInv, NumberInv, NEW n \in Numbers, NEW b \in {10, 16}, WriteNumber(n, b)
  PROVE  NumberInv'
<1>1. /\ at = "idle" /\ todo' = << >> /\ at' = "digits"
      /\ call' = [base |-> b, n |-> n, rest |-> n, from |-> Len(written)]
      /\ code' = code /\ written' = written
  BY DEF WriteNumber
<1>2. n \in Nat /\ b \in Nat /\ b # 0
  BY SerialAssumption
<1>3. IsNumeral(<< >>) /\ Horner(n, << >>, b) = n
  BY <1>2, HornerEmpty
<1>4. code # -1
  BY <1>1 DEF IInv, Control
<1> QED
  BY <1>1, <1>3, <1>4 DEF NumberInv

LEMMA RecurseRight ==
  ASSUME IInv, NumberInv, Recurse
  PROVE  NumberInv'
<1> DEFINE r == call.rest  b == call.base  c == Char(r % b)  t == << c >> \o todo
<1>1. /\ at = "digits" /\ todo' = t /\ call' = [call EXCEPT !.rest = r \div b]
      /\ at' = IF r \div b # 0 THEN "digits" ELSE "poll"
      /\ UNCHANGED << device, step, code, written, got >>
  BY DEF Recurse
<1>2. /\ call \in [base : {0, 10, 16}, n : Nat, rest : Nat, from : Nat]
      /\ r \in Nat /\ b \in {10, 16} /\ todo \in Seq(Byte) /\ written \in Seq(Byte)
  BY <1>1 DEF IInv, SerialTypeOK
<1>3. /\ r \div b \in Nat /\ r % b \in 0 .. 15 /\ (r \div b) * b + (r % b) = r
      /\ r \div b = 0 => r % b = r
  <2>1. \A m \in Nat : /\ m \div 10 \in Nat /\ m % 10 \in 0 .. 15 /\ (m \div 10) * 10 + (m % 10) = m
                       /\ m \div 10 = 0 => m % 10 = m
    OBVIOUS
  <2>2. \A m \in Nat : /\ m \div 16 \in Nat /\ m % 16 \in 0 .. 15 /\ (m \div 16) * 16 + (m % 16) = m
                       /\ m \div 16 = 0 => m % 16 = m
    OBVIOUS
  <2> QED
    BY <1>2, <2>1, <2>2
<1>4. /\ call.from = Len(written) /\ IsNumeral(todo)
      /\ Horner(r, todo, b) = call.n /\ (todo # << >> => r # 0) /\ code # -1
  BY <1>1, <1>2 DEF NumberInv
<1>5. /\ call' \in [base : {0, 10, 16}, n : Nat, rest : Nat, from : Nat]
      /\ call'.base = b /\ call'.n = call.n /\ call'.rest = r \div b /\ call'.from = call.from
  BY <1>1, <1>2, <1>3
<1>6. c \in Digits /\ Digit(c) = r % b
  BY <1>3, DigitFacts DEF Digits
<1> HIDE DEF c, r, b
<1>7. b \in Nat /\ b # 0
  BY <1>2
<1>8. /\ t \in Seq(Byte) /\ IsNumeral(t) /\ Len(t) = Len(todo) + 1 /\ t[1] = c
      /\ Horner(r \div b, t, b) = Horner(((r \div b) * b) + Digit(c), todo, b)
  <2> DEFINE q == r \div b
  <2>1. q \in Nat /\ todo \in Seq(Byte) /\ IsNumeral(todo) /\ c \in Digits /\ b \in Nat
    BY <1>2, <1>3, <1>4, <1>6, <1>7
  <2> HIDE DEF q
  <2>2. /\ t \in Seq(Byte) /\ IsNumeral(t) /\ Len(t) = Len(todo) + 1 /\ t[1] = c
        /\ Horner(q, t, b) = Horner((q * b) + Digit(c), todo, b)
    BY <2>1, HornerShift
  <2> QED
    BY <2>2 DEF q
<1>9. Horner(r \div b, t, b) = call.n
  BY <1>3, <1>4, <1>6, <1>8
<1>10. CASE r \div b # 0
  BY <1>1, <1>4, <1>5, <1>8, <1>9, <1>10 DEF NumberInv
<1>11. CASE r \div b = 0
  <2> HIDE DEF t
  <2>1. Len(written) \in Nat /\ Len(written) \in 0 .. Len(written)
    BY <1>2, LenFacts
  <2>2. SubSeq(written, call.from + 1, Len(written)) = << >>
    BY <1>2, <1>4, <2>1, SubSeqFacts
  <2>3. << >> \o t = t
    BY <1>8, ConcatFacts
  <2>4. Numeral' = t
    <3>1. Numeral' = SubSeq(written, call.from + 1, Len(written)) \o t
      BY <1>1, <1>5 DEF Numeral, t
    <3> QED
      BY <2>2, <2>3, <3>1
  <2>5. t # << >> /\ Len(todo) \in Nat
    BY <1>2, <1>8, LenFacts
  <2>6. Len(t) > 1 => t[1] # Char(0)
    <3> SUFFICES ASSUME Len(t) > 1 PROVE t[1] # Char(0)
      OBVIOUS
    <3>1. todo # << >>
      BY <1>2, <1>8, <2>5, LenFacts
    <3>2. r % b = r /\ r \in 1 .. 15
      BY <1>3, <1>4, <1>11, <3>1
    <3>3. c = Char(r)
      BY <3>2 DEF c, r, b
    <3> QED
      BY <1>8, <3>2, <3>3, DigitFacts
  <2>7. at' = "poll"
    BY <1>1, <1>11 DEF r, b
  <2>8. Horner(0, t, b) = call.n
    BY <1>9, <1>11
  <2>9. call'.from \in 0 .. Len(written')
    BY <1>1, <1>4, <1>5, <2>1
  <2> QED
    BY <1>1, <1>4, <1>5, <1>8, <2>4, <2>5, <2>6, <2>7, <2>8, <2>9 DEF NumberInv
<1> QED
  BY <1>10, <1>11

LEMMA WriteByteRight ==
  ASSUME IInv, NumberInv, WriteByte
  PROVE  NumberInv'
<1>1. /\ at = "out" /\ code # -1 /\ code' = code /\ call' = call
      /\ written' = Append(written, Head(todo)) /\ todo' = Tail(todo)
      /\ at' = IF Tail(todo) = << >> THEN "idle" ELSE "poll"
  BY DEF WriteByte, Write, IInv, Control
<1>2. todo \in Seq(Byte) /\ todo # << >> /\ written \in Seq(Byte)
  BY <1>1 DEF IInv, SerialTypeOK
<1>3. CASE call.base # 0
  <2>1. call.from \in 0 .. Len(written)
    BY <1>1, <1>3 DEF NumberInv
  <2>2. /\ call.from \in 0 .. Len(written')
        /\ SubSeq(written', call.from + 1, Len(written')) \o Tail(todo)
           = SubSeq(written, call.from + 1, Len(written)) \o todo
    BY <1>1, <1>2, <2>1, WrittenOn
  <2>3. Numeral' = Numeral
    BY <1>1, <2>2 DEF Numeral
  <2> QED
    BY <1>1, <1>3, <2>2, <2>3 DEF NumberInv
<1>4. CASE call.base = 0
  BY <1>1, <1>4 DEF NumberInv
<1> QED
  BY <1>3, <1>4

LEMMA NumberStep == IInv /\ NumberInv /\ [Next]_serialVars => NumberInv'
<1> SUFFICES ASSUME IInv, NumberInv, [Next]_serialVars PROVE NumberInv'
  OBVIOUS
<1>0. code = -1 => call.base = 0
  BY DEF NumberInv
<1>1. ASSUME InitOut \/ InitTest \/ InitEnable PROVE NumberInv'
  <2>1. /\ UNCHANGED << todo, call, written >> /\ at \in {"reset", "enable"}
    BY <1>1 DEF InitOut, InitTest, InitEnable
  <2>2. call.base = 0
    BY <1>0, <2>1 DEF IInv, Control
  <2> QED
    BY <2>1, <2>2 DEF NumberInv
<1>2. ASSUME Poll \/ AwaitByte \/ ReadByte \/ CallRead PROVE NumberInv'
  BY <1>2, NumberStays DEF Poll, AwaitByte, ReadByte, CallRead
<1>3. ASSUME Transmit \/ (\E b \in Inputs : Arrive(b)) \/ UNCHANGED serialVars PROVE NumberInv'
  <2>1. UNCHANGED << at, todo, code, call, written >>
    BY <1>3 DEF Transmit, Arrive, serialVars, driver
  <2>2. Numeral' = Numeral
    BY <2>1 DEF Numeral
  <2> QED
    BY <2>1, <2>2 DEF NumberInv
<1>4. ASSUME NEW s \in Texts, WriteString(s) PROVE NumberInv'
  <2>1. code # -1
    BY <1>4 DEF WriteString, IInv, Control
  <2> QED
    BY <1>4, <2>1 DEF WriteString, NumberInv
<1> QED
  BY <1>1, <1>2, <1>3, <1>4, WriteNumberRight, RecurseRight, WriteByteRight
     DEF Next, Driver, Calls

LEMMA NumberInit == InitSerial => NumberInv
  BY DEF InitSerial, InitDriver, NumberInv

(* The digits that go out denote the number.                               *)
THEOREM NumbersAreRight == Spec => []NumberRight
<1>1. IInv /\ NumberInv => NumberRight
  <2> SUFFICES ASSUME IInv, NumberInv, at = "idle", call.base # 0
               PROVE  LET s == SubSeq(written, call.from + 1, Len(written)) IN
                        /\ s # << >> /\ Value(s, call.base) = call.n
                        /\ Len(s) > 1 => s[1] # Char(0)
    BY DEF NumberRight
  <2> DEFINE s == SubSeq(written, call.from + 1, Len(written))
  <2>1. /\ call.from \in 0 .. Len(written) /\ todo = << >>
        /\ Numeral # << >> /\ Horner(0, Numeral, call.base) = call.n
        /\ Len(Numeral) > 1 => Numeral[1] # Char(0)
    BY DEF NumberInv
  <2>2. s \in Seq(Byte)
    BY <2>1, SubSeqFacts DEF IInv, SerialTypeOK
  <2>3. Numeral = s
    BY <2>1, <2>2, ConcatFacts DEF Numeral
  <2> HIDE DEF s
  <2>4. Value(s, call.base) = Horner(0, s, call.base)
    BY DEF Value, Horner
  <2> QED
    BY <2>1, <2>3, <2>4 DEF s
<1> QED
  BY <1>1, NumberInit, NumberStep, Invariance, PTL DEF Spec

-------------------------------------------------------------------------------
(***************************************************************************)
(* The kernel.                                                             *)
(***************************************************************************)

(* The script, position by position.                                       *)

LEMMA AnySeq ==
  ASSUME NEW n \in Nat, NEW s, s = [i \in 1 .. n |-> s[i]], NEW S,
         \A i \in 1 .. n : s[i] \in S
  PROVE  s \in Seq(S) /\ Len(s) = n
<1>1. s \in [1 .. n -> S] /\ DOMAIN s = 1 .. n
  OBVIOUS
<1>2. s \in Seq(S)
  BY <1>1, SeqDef
<1>3. Len(s) \in Nat /\ DOMAIN s = 1 .. Len(s)
  BY <1>2, LenProperties
<1> QED
  BY <1>1, <1>2, <1>3

LEMMA Pieces ==
  ASSUME NEW S, NEW s \in Seq(S), NEW t \in Seq(S), NEW u, u = s \o t
  PROVE  /\ u \in Seq(S) /\ Len(u) = Len(s) + Len(t)
         /\ \A i \in 1 .. Len(s) : u[i] = s[i]
         /\ \A i \in 1 .. Len(t) : u[i + Len(s)] = t[i]
<1>1. /\ u \in Seq(S) /\ Len(u) = Len(s) + Len(t)
      /\ \A i \in 1 .. Len(s) + Len(t) : u[i] = IF i <= Len(s) THEN s[i] ELSE t[i - Len(s)]
  BY ConcatProperties
<1>2. Len(s) \in Nat /\ Len(t) \in Nat
  BY LenProperties
<1>3. ASSUME NEW i \in 1 .. Len(s) PROVE u[i] = s[i]
  <2>1. i \in 1 .. Len(s) + Len(t) /\ i <= Len(s)
    BY <1>2
  <2> QED
    BY <1>1, <2>1
<1>4. ASSUME NEW i \in 1 .. Len(t) PROVE u[i + Len(s)] = t[i]
  <2>1. i + Len(s) \in 1 .. Len(s) + Len(t) /\ ~(i + Len(s) <= Len(s)) /\ (i + Len(s)) - Len(s) = i
    BY <1>2
  <2> QED
    BY <1>1, <2>1
<1> QED
  BY <1>1, <1>3, <1>4

LEMMA TheVectors ==
  /\ Len(Vectors) = 20
  /\ \A j \in 1 .. 20 : Vectors[j] \in 0 .. 21
  /\ \A v \in (0 .. 21) \ {9, 15} : \E j \in 1 .. 20 : Vectors[j] = v
  /\ \A i, j \in 1 .. 20 : Vectors[i] = Vectors[j] => i = j
<1>1. /\ Vectors[1] = 0 /\ Vectors[2] = 1 /\ Vectors[3] = 2 /\ Vectors[4] = 3
      /\ Vectors[5] = 4 /\ Vectors[6] = 5 /\ Vectors[7] = 6 /\ Vectors[8] = 7
      /\ Vectors[9] = 8 /\ Vectors[10] = 10 /\ Vectors[11] = 11 /\ Vectors[12] = 12
      /\ Vectors[13] = 13 /\ Vectors[14] = 14 /\ Vectors[15] = 16 /\ Vectors[16] = 17
      /\ Vectors[17] = 18 /\ Vectors[18] = 19 /\ Vectors[19] = 20 /\ Vectors[20] = 21
      /\ Len(Vectors) = 20
  BY DEF Vectors
<1>2. \A j \in 1 .. 20 : Vectors[j] = IF j <= 9 THEN j - 1 ELSE IF j <= 14 THEN j ELSE j + 1
  BY <1>1
<1>3. ASSUME NEW v \in (0 .. 21) \ {9, 15}
      PROVE  \E j \in 1 .. 20 : Vectors[j] = v
  <2>1. CASE v <= 8
    <3>1. v + 1 \in 1 .. 20 /\ Vectors[v + 1] = v
      BY <1>2, <2>1
    <3> QED
      BY <3>1
  <2>2. CASE v \in 10 .. 14
    <3>1. v \in 1 .. 20 /\ Vectors[v] = v
      BY <1>2, <2>2
    <3> QED
      BY <3>1
  <2>3. CASE v >= 16
    <3>1. v - 1 \in 1 .. 20 /\ Vectors[v - 1] = v
      BY <1>2, <2>3
    <3> QED
      BY <3>1
  <2> QED
    BY <2>1, <2>2, <2>3
<1> QED
  BY <1>1, <1>2, <1>3

LEMMA TheSetIsrs ==
  /\ SetIsrs = [i \in 1 .. 40 |-> SetIsrs[i]]
  /\ \A j \in 1 .. 20 : /\ SetIsrs[(2 * j) - 1] = << "say", "Call set_isr" >>
                        /\ SetIsrs[2 * j] = << "set_isr", Vectors[j] >>
<1>1. SetIsrs = [i \in 1 .. 40 |-> IF i % 2 = 1 THEN << "say", "Call set_isr" >>
                                   ELSE << "set_isr", Vectors[i \div 2] >>]
  BY TheVectors DEF SetIsrs
<1>2. ASSUME NEW j \in 1 .. 20
      PROVE  /\ SetIsrs[(2 * j) - 1] = << "say", "Call set_isr" >>
             /\ SetIsrs[2 * j] = << "set_isr", Vectors[j] >>
  <2>1. /\ (2 * j) - 1 \in 1 .. 40 /\ ((2 * j) - 1) % 2 = 1
        /\ 2 * j \in 1 .. 40 /\ (2 * j) % 2 # 1 /\ (2 * j) \div 2 = j
    OBVIOUS
  <2>2. SetIsrs[(2 * j) - 1] = << "say", "Call set_isr" >>
    BY <1>1, <2>1
  <2>3. SetIsrs[2 * j] = << "set_isr", Vectors[(2 * j) \div 2] >>
    BY <1>1, <2>1
  <2> QED
    BY <2>1, <2>2, <2>3
<1>3. SetIsrs = [i \in 1 .. 40 |-> SetIsrs[i]]
  BY <1>1
<1> QED
  BY <1>1, <1>2, <1>3

LEMMA Joined ==
  /\ Len(Script) = 81 /\ DOMAIN Script = 1 .. 81
  /\ \A i \in 1 .. 8 : Script[i] = Setup[i]
  /\ Script[9] = << "say", "Enter init_interrupts" >>
  /\ \A i \in 1 .. 40 : Script[i + 9] = SetIsrs[i]
  /\ Script[50] = << "lidt", 0 >>
  /\ Script[51] = << "sti", 0 >>
  /\ Script[52] = << "say", "Exit init_interrupts" >>
  /\ \A i \in 1 .. 29 : Script[i + 52] = Work[i]
<1> DEFINE first == << << "say", "Enter init_interrupts" >> >>
           last == << << "lidt", 0 >>, << "sti", 0 >>, << "say", "Exit init_interrupts" >> >>
           S == {Setup[i] : i \in 1 .. 8} \cup {Work[i] : i \in 1 .. 29}
                  \cup {SetIsrs[i] : i \in 1 .. 40} \cup {first[1], last[1], last[2], last[3]}
<1>1. Setup \in Seq(S) /\ Len(Setup) = 8
  <2>1. Setup = [i \in 1 .. 8 |-> Setup[i]]
    BY DEF Setup
  <2>2. \A i \in 1 .. 8 : Setup[i] \in S
    OBVIOUS
  <2> HIDE DEF S
  <2> QED
    BY <2>1, <2>2, AnySeq
<1>2. Work \in Seq(S) /\ Len(Work) = 29
  <2>1. Work = [i \in 1 .. 29 |-> Work[i]]
    BY DEF Work
  <2>2. \A i \in 1 .. 29 : Work[i] \in S
    OBVIOUS
  <2> HIDE DEF S
  <2> QED
    BY <2>1, <2>2, AnySeq
<1>3. SetIsrs \in Seq(S) /\ Len(SetIsrs) = 40
  <2>1. \A i \in 1 .. 40 : SetIsrs[i] \in S
    OBVIOUS
  <2> HIDE DEF S
  <2> QED
    BY <2>1, TheSetIsrs, AnySeq
<1>4. first \in Seq(S) /\ Len(first) = 1
  <2>1. first = [i \in 1 .. 1 |-> first[i]]
    OBVIOUS
  <2>2. \A i \in 1 .. 1 : i = 1
    OBVIOUS
  <2>3. first[1] \in S
    OBVIOUS
  <2> HIDE DEF S, first
  <2> QED
    BY <2>1, <2>2, <2>3, AnySeq
<1>5. last \in Seq(S) /\ Len(last) = 3
  <2>1. last = [i \in 1 .. 3 |-> last[i]]
    OBVIOUS
  <2>2. \A i \in 1 .. 3 : i = 1 \/ i = 2 \/ i = 3
    OBVIOUS
  <2>3. last[1] \in S /\ last[2] \in S /\ last[3] \in S
    OBVIOUS
  <2> HIDE DEF S, last
  <2> QED
    BY <2>1, <2>2, <2>3, AnySeq
<1>6. PICK head : head = first \o SetIsrs
  OBVIOUS
<1>7. PICK upto : upto = Setup \o InitInterrupts
  OBVIOUS
<1>8. InitInterrupts = head \o last
  BY <1>6 DEF InitInterrupts
<1>80. Script = upto \o Work
  BY <1>7 DEF Script
<1>9. /\ first[1] = << "say", "Enter init_interrupts" >>
      /\ last[1] = << "lidt", 0 >> /\ last[2] = << "sti", 0 >>
      /\ last[3] = << "say", "Exit init_interrupts" >>
  OBVIOUS
<1> HIDE DEF first, last, S
<1>10. first \in Seq(S) /\ SetIsrs \in Seq(S) /\ last \in Seq(S)
  BY <1>3, <1>4, <1>5
<1>11. Setup \in Seq(S) /\ Work \in Seq(S)
  BY <1>1, <1>2
<1>12. /\ Len(first) = 1 /\ Len(SetIsrs) = 40 /\ Len(last) = 3
       /\ Len(Setup) = 8 /\ Len(Work) = 29
  BY <1>1, <1>2, <1>3, <1>4, <1>5
<1>20. /\ head \in Seq(S) /\ Len(head) = Len(first) + Len(SetIsrs)
       /\ \A i \in 1 .. Len(first) : head[i] = first[i]
       /\ \A i \in 1 .. Len(SetIsrs) : head[i + Len(first)] = SetIsrs[i]
  BY <1>6, <1>10, Pieces
<1>21. /\ InitInterrupts \in Seq(S) /\ Len(InitInterrupts) = Len(head) + Len(last)
       /\ \A i \in 1 .. Len(head) : InitInterrupts[i] = head[i]
       /\ \A i \in 1 .. Len(last) : InitInterrupts[i + Len(head)] = last[i]
  <2>1. head \in Seq(S)
    BY <1>20
  <2> QED
    BY <1>8, <1>10, <2>1, Pieces
<1>22. /\ upto \in Seq(S) /\ Len(upto) = Len(Setup) + Len(InitInterrupts)
       /\ \A i \in 1 .. Len(Setup) : upto[i] = Setup[i]
       /\ \A i \in 1 .. Len(InitInterrupts) : upto[i + Len(Setup)] = InitInterrupts[i]
  <2>1. InitInterrupts \in Seq(S)
    BY <1>21
  <2> QED
    BY <1>7, <1>11, <2>1, Pieces
<1>23. /\ Script \in Seq(S) /\ Len(Script) = Len(upto) + Len(Work)
       /\ \A i \in 1 .. Len(upto) : Script[i] = upto[i]
       /\ \A i \in 1 .. Len(Work) : Script[i + Len(upto)] = Work[i]
  <2>1. upto \in Seq(S)
    BY <1>22
  <2> QED
    BY <1>80, <1>11, <2>1, Pieces
<1>30. Len(head) = 41 /\ Len(InitInterrupts) = 44 /\ Len(upto) = 52 /\ Len(Script) = 81
  <2>1. /\ Len(head) = Len(first) + Len(SetIsrs)
        /\ Len(InitInterrupts) = Len(head) + Len(last)
        /\ Len(upto) = Len(Setup) + Len(InitInterrupts)
        /\ Len(Script) = Len(upto) + Len(Work)
    BY <1>20, <1>21, <1>22, <1>23
  <2> QED
    BY <1>12, <2>1
<1>31. DOMAIN Script = 1 .. 81
  <2>1. DOMAIN Script = 1 .. Len(Script)
    BY <1>23, LenProperties
  <2> QED
    BY <1>30, <2>1
<1>32. /\ head[1] = first[1] /\ \A i \in 1 .. 40 : head[i + 1] = SetIsrs[i]
       /\ \A i \in 1 .. 41 : InitInterrupts[i] = head[i]
       /\ \A i \in 1 .. 3 : InitInterrupts[i + 41] = last[i]
       /\ \A i \in 1 .. 8 : upto[i] = Setup[i]
       /\ \A i \in 1 .. 44 : upto[i + 8] = InitInterrupts[i]
       /\ \A i \in 1 .. 52 : Script[i] = upto[i]
       /\ \A i \in 1 .. 29 : Script[i + 52] = Work[i]
  <2>1. Len(first) = 1 /\ Len(SetIsrs) = 40 /\ 1 \in 1 .. 1
    BY <1>12
  <2>2. \A i \in 1 .. Len(first) : head[i] = first[i]
    BY <1>20
  <2>3. \A i \in 1 .. Len(SetIsrs) : head[i + Len(first)] = SetIsrs[i]
    BY <1>20
  <2>4. head[1] = first[1]
    BY <2>1, <2>2, Zenon
  <2>5. \A i \in 1 .. 40 : head[i + 1] = SetIsrs[i]
    BY <2>1, <2>3, Zenon
  <2>6. Len(head) = 41 /\ Len(last) = 3
    BY <1>12, <1>30
  <2>7. \A i \in 1 .. Len(head) : InitInterrupts[i] = head[i]
    BY <1>21
  <2>8. \A i \in 1 .. Len(last) : InitInterrupts[i + Len(head)] = last[i]
    BY <1>21
  <2>9. \A i \in 1 .. 41 : InitInterrupts[i] = head[i]
    BY <2>6, <2>7, Zenon
  <2>10. \A i \in 1 .. 3 : InitInterrupts[i + 41] = last[i]
    BY <2>6, <2>8, Zenon
  <2>11. Len(Setup) = 8 /\ Len(InitInterrupts) = 44
    BY <1>12, <1>30
  <2>12. \A i \in 1 .. Len(Setup) : upto[i] = Setup[i]
    BY <1>22
  <2>13. \A i \in 1 .. Len(InitInterrupts) : upto[i + Len(Setup)] = InitInterrupts[i]
    BY <1>22
  <2>14. \A i \in 1 .. 8 : upto[i] = Setup[i]
    BY <2>11, <2>12, Zenon
  <2>15. \A i \in 1 .. 44 : upto[i + 8] = InitInterrupts[i]
    BY <2>11, <2>13, Zenon
  <2>16. Len(upto) = 52 /\ Len(Work) = 29
    BY <1>12, <1>30
  <2>17. \A i \in 1 .. Len(upto) : Script[i] = upto[i]
    BY <1>23
  <2>18. \A i \in 1 .. Len(Work) : Script[i + Len(upto)] = Work[i]
    BY <1>23
  <2>19. \A i \in 1 .. 52 : Script[i] = upto[i]
    BY <2>16, <2>17, Zenon
  <2>20. \A i \in 1 .. 29 : Script[i + 52] = Work[i]
    BY <2>16, <2>18, Zenon
  <2> QED
    BY <2>4, <2>5, <2>9, <2>10, <2>14, <2>15, <2>19, <2>20
<1>33. \A i \in 1 .. 8 : Script[i] = Setup[i]
  BY <1>32
<1>34. \A i \in 1 .. 44 : Script[i + 8] = InitInterrupts[i]
  <2> TAKE i \in 1 .. 44
  <2>1. i + 8 \in 1 .. 52
    OBVIOUS
  <2> QED
    BY <1>32, <2>1
<1>35. Script[9] = << "say", "Enter init_interrupts" >>
  <2>1. 1 + 8 = 9 /\ 1 \in 1 .. 44 /\ 1 \in 1 .. 41
    OBVIOUS
  <2> QED
    BY <1>9, <1>32, <1>34, <2>1
<1>36. \A i \in 1 .. 40 : Script[i + 9] = SetIsrs[i]
  <2> TAKE i \in 1 .. 40
  <2>1. i + 1 \in 1 .. 44 /\ i + 1 \in 1 .. 41 /\ (i + 1) + 8 = i + 9
    OBVIOUS
  <2> QED
    BY <1>32, <1>34, <2>1
<1>37. /\ Script[50] = << "lidt", 0 >> /\ Script[51] = << "sti", 0 >>
       /\ Script[52] = << "say", "Exit init_interrupts" >>
  <2>1. /\ 42 + 8 = 50 /\ 43 + 8 = 51 /\ 44 + 8 = 52
        /\ 1 + 41 = 42 /\ 2 + 41 = 43 /\ 3 + 41 = 44
        /\ 42 \in 1 .. 44 /\ 43 \in 1 .. 44 /\ 44 \in 1 .. 44
        /\ 1 \in 1 .. 3 /\ 2 \in 1 .. 3 /\ 3 \in 1 .. 3
    OBVIOUS
  <2>2. InitInterrupts[42] = last[1] /\ InitInterrupts[43] = last[2] /\ InitInterrupts[44] = last[3]
    BY <1>32, <2>1
  <2>3. /\ Script[50] = InitInterrupts[42] /\ Script[51] = InitInterrupts[43]
        /\ Script[52] = InitInterrupts[44]
    BY <1>34, <2>1
  <2> QED
    BY <1>9, <2>2, <2>3
<1> QED
  BY <1>30, <1>31, <1>32, <1>33, <1>35, <1>36, <1>37

LEMMA Fields ==
  ASSUME NEW x, NEW a, NEW b, x = << a, b >>
  PROVE  x[1] = a /\ x[2] = b
  OBVIOUS

LEMMA Middle ==
  /\ Script[9][1] = "say" /\ Script[50][1] = "lidt" /\ Script[51][1] = "sti"
  /\ Script[52][1] = "say"
  /\ \A j \in 1 .. 20 : SetIsrs[(2 * j) - 1][1] = "say"
<1>1. Script[9] = << "say", "Enter init_interrupts" >>
  BY Joined
<1>2. Script[50] = << "lidt", 0 >>
  BY Joined
<1>3. Script[51] = << "sti", 0 >>
  BY Joined
<1>4. Script[52] = << "say", "Exit init_interrupts" >>
  BY Joined
<1>5. ASSUME NEW j \in 1 .. 20 PROVE SetIsrs[(2 * j) - 1][1] = "say"
  <2>1. SetIsrs[(2 * j) - 1] = << "say", "Call set_isr" >>
    BY TheSetIsrs
  <2> QED
    BY <2>1, Fields
<1>6. Script[9][1] = "say"
  BY <1>1, Fields
<1>7. Script[50][1] = "lidt"
  BY <1>2
<1>8. Script[51][1] = "sti"
  BY <1>3
<1>9. Script[52][1] = "say"
  BY <1>4, Fields
<1> QED
  BY <1>5, <1>6, <1>7, <1>8, <1>9

(* The step that follows the first k: which it can be, and on what.  Only  *)
(* the steps at Marked do more than to say something or to look at a       *)
(* response.                                                               *)
Marked == {0, 1, 2, 3, 4, 5, 6, 7, 49, 50, 56, 59, 63, 68, 69, 72, 79, 80}
Scheduled(k, act, arg) ==
  /\ act = "verify" => k = 0
  /\ act = "set_gdt_entry" => k \in 1 .. 5 /\ arg = k
  /\ act = "segments" => k = 6
  /\ act = "serial_init" <=> k = 7
  /\ act = "say" => /\ \/ k \in 8 .. 78 /\ k \notin Marked
                       \/ k = 79 /\ arg = Hello
                    /\ \A j \in 1 .. 20 : k # 8 + (2 * j)
  /\ act = "set_isr" => \E j \in 1 .. 20 : k = 8 + (2 * j) /\ arg = Vectors[j]
  /\ act = "lidt" => k = 49
  /\ act = "sti" => k = 50
  /\ act = "use" => k \in 52 .. 78 /\ k \notin Marked
  /\ act = "init_phys" => k = 56
  /\ act = "palloc" => k \in {59, 63}
  /\ act = "memset" => k \in {68, 69} /\ arg = k - 67
  /\ act = "init_acpi" => k = 72
  /\ act = "halt" <=> k = 80

LEMMA Schedule ==
  ASSUME NEW k \in 0 .. 80
  PROVE  Scheduled(k, Script[k + 1][1], Script[k + 1][2])
<1> DEFINE act == Script[k + 1][1]
           arg == Script[k + 1][2]
<1>1. CASE k \in 0 .. 7
  <2>1. Script[k + 1] = Setup[k + 1]
    <3>1. k + 1 \in 1 .. 8
      BY <1>1
    <3> QED
      BY <3>1, Joined
  <2>2. /\ Setup[1][1] = "verify" /\ Setup[7][1] = "segments" /\ Setup[8][1] = "serial_init"
        /\ \A i \in 2 .. 6 : Setup[i][1] = "set_gdt_entry" /\ Setup[i][2] = i - 1
    BY DEF Setup
  <2>3. /\ k = 0 => act = "verify"
        /\ k = 6 => act = "segments"
        /\ k = 7 => act = "serial_init"
        /\ k \in 1 .. 5 => act = "set_gdt_entry" /\ arg = k
    <3>1. k \in 1 .. 5 => k + 1 \in 2 .. 6 /\ (k + 1) - 1 = k
      OBVIOUS
    <3> QED
      BY <2>1, <2>2, <3>1
  <2> HIDE DEF act, arg
  <2>4. Scheduled(k, act, arg)
    BY <1>1, <2>3 DEF Scheduled
  <2> QED
    BY <2>4 DEF act, arg
<1>2. CASE k \in 8 .. 51
  <2>1. CASE k = 8 \/ k = 51
    <3>1. act = "say"
      <4>1. k + 1 = 9 \/ k + 1 = 52
        BY <2>1
      <4>2. Script[9][1] = "say" /\ Script[52][1] = "say"
        BY Middle
      <4> QED
        BY <4>1, <4>2
    <3> HIDE DEF act, arg
    <3>2. /\ k \in 8 .. 78 /\ k \notin Marked /\ k \notin {7, 80}
          /\ \A i \in 1 .. 20 : k # 8 + (2 * i)
      BY <2>1 DEF Marked
    <3>3. Scheduled(k, act, arg)
      BY <3>1, <3>2 DEF Scheduled
    <3> QED
      BY <3>3 DEF act, arg
  <2>2. CASE k = 49 \/ k = 50
    <3>1. (k = 49 => act = "lidt") /\ (k = 50 => act = "sti")
      <4>1. (k = 49 => k + 1 = 50) /\ (k = 50 => k + 1 = 51)
        OBVIOUS
      <4>2. Script[50][1] = "lidt" /\ Script[51][1] = "sti"
        BY Middle
      <4> QED
        BY <4>1, <4>2
    <3> HIDE DEF act, arg
    <3>2. Scheduled(k, act, arg)
      BY <2>2, <3>1 DEF Scheduled
    <3> QED
      BY <3>2 DEF act, arg
  <2>3. ASSUME NEW j \in 1 .. 20, k = 8 + (2 * j)
        PROVE  Scheduled(k, act, arg)
    <3>1. 2 * j \in 1 .. 40 /\ k + 1 = (2 * j) + 9
      BY <2>3
    <3>2. Script[k + 1] = << "set_isr", Vectors[j] >>
      <4>1. Script[(2 * j) + 9] = SetIsrs[2 * j]
        BY <3>1, Joined
      <4> QED
        BY <3>1, <4>1, TheSetIsrs
    <3>3. act = "set_isr" /\ arg = Vectors[j]
      BY <3>2
    <3> HIDE DEF act, arg
    <3> QED
      BY <2>3, <3>3 DEF Scheduled
  <2>4. ASSUME NEW j \in 1 .. 20, k = 7 + (2 * j)
        PROVE  Scheduled(k, act, arg)
    <3>1. (2 * j) - 1 \in 1 .. 40 /\ k + 1 = ((2 * j) - 1) + 9
      BY <2>4
    <3>2. Script[((2 * j) - 1) + 9] = SetIsrs[(2 * j) - 1]
      BY <3>1, Joined
    <3>3. act = "say"
      BY <3>1, <3>2, Middle
    <3>4. k \in 9 .. 47 /\ \A i \in 1 .. 20 : k # 8 + (2 * i)
      BY <2>4
    <3> HIDE DEF act, arg
    <3>5. /\ k \in 8 .. 78 /\ k \notin {7, 80}
          /\ k \notin Marked
      BY <2>4, <3>4 DEF Marked
    <3> QED
      BY <3>3, <3>4, <3>5 DEF Scheduled
  <2>5. k \in {8, 49, 50, 51} \/ \E j \in 1 .. 20 : k = 8 + (2 * j) \/ k = 7 + (2 * j)
    <3>1. k \in {8, 49, 50, 51} \/ k \in 9 .. 48
      BY <1>2
    <3>2. ASSUME k \in 9 .. 48, k % 2 = 0 PROVE (k - 8) \div 2 \in 1 .. 20 /\ k = 8 + (2 * ((k - 8) \div 2))
      BY <3>2
    <3>3. ASSUME k \in 9 .. 48, k % 2 # 0 PROVE (k - 7) \div 2 \in 1 .. 20 /\ k = 7 + (2 * ((k - 7) \div 2))
      BY <3>3
    <3> QED
      BY <3>1, <3>2, <3>3
  <2> QED
    BY <2>1, <2>2, <2>3, <2>4, <2>5
<1>3. CASE k \in 52 .. 80
  <2>1. Script[k + 1] = Work[k - 51]
    <3>1. k - 51 \in 1 .. 29 /\ (k - 51) + 52 = k + 1
      BY <1>3
    <3> QED
      BY <3>1, Joined
  <2>2. /\ \A i \in {1, 3, 4, 6, 7, 10, 11, 14, 15, 16, 19, 20, 22, 23, 24, 26} : Work[i][1] = "say"
        /\ \A i \in {2, 9, 13, 25, 27} : Work[i][1] = "use"
        /\ Work[5][1] = "init_phys" /\ Work[8][1] = "palloc" /\ Work[12][1] = "palloc"
        /\ Work[17] = << "memset", 1 >> /\ Work[18] = << "memset", 2 >>
        /\ Work[21][1] = "init_acpi" /\ Work[28] = << "say", Hello >> /\ Work[29][1] = "halt"
    BY DEF Work
  <2>3. /\ k = 56 => act = "init_phys"
        /\ k \in {59, 63} => act = "palloc"
        /\ k \in {68, 69} => act = "memset" /\ arg = k - 67
        /\ k = 72 => act = "init_acpi"
        /\ k = 79 => act = "say" /\ arg = Hello
        /\ k = 80 => act = "halt"
        /\ k \notin {56, 59, 63, 68, 69, 72, 79, 80} => act \in {"say", "use"}
    BY <1>3, <2>1, <2>2
  <2> HIDE DEF act, arg
  <2>4. \A j \in 1 .. 20 : k # 8 + (2 * j)
    BY <1>3
  <2>5. CASE k \in {56, 59, 63, 68, 69, 72, 79, 80}
    <3>1. Scheduled(k, act, arg)
      BY <2>3, <2>4, <2>5 DEF Scheduled
    <3> QED
      BY <3>1 DEF act, arg
  <2>6. CASE k \notin {56, 59, 63, 68, 69, 72, 79, 80}
    <3>1. /\ k \in 8 .. 78 /\ k \in 52 .. 78 /\ k \notin {7, 80}
          /\ k \notin Marked
      BY <1>3, <2>6 DEF Marked
    <3>2. act \in {"say", "use"}
      BY <2>3, <2>6
    <3>3. Scheduled(k, act, arg)
      BY <2>4, <3>1, <3>2 DEF Scheduled
    <3> QED
      BY <3>3 DEF act, arg
  <2> QED
    BY <2>5, <2>6
<1> QED
  BY <1>1, <1>2, <1>3

-------------------------------------------------------------------------------
(* What is said.                                                           *)

(* The exceptions that are raised. *)
Caught == {INT_NMI, INT_GP, INT_PF}

LEMMA TheMessages ==
  /\ \A k \in 1 .. 81 : Script[k][1] = "say" => Characters(Script[k][2]) \in Seq(Byte)
  /\ Characters(Overflow) \in Seq(Byte) /\ Characters("Trace") \in Seq(Byte)
  /\ \A v \in Caught : Characters(Handler(v).says) \in Seq(Byte)
<1>1. \A k \in 1 .. 81 : Script[k][1] = "say" => Script[k][2] \in Messages
  BY Joined DEF Messages
<1>2. \A v \in Caught : Handler(v).says \in Messages
  BY DEF Messages, Caught, INT_GP
<1>3. Overflow \in Messages /\ "Trace" \in Messages
  BY DEF Messages
<1> QED
  BY <1>1, <1>2, <1>3, KernelAssumption

LEMMA PrefixFacts ==
  ASSUME NEW s \in Seq(Byte), NEW t \in Seq(Byte)
  PROVE  IsPrefix(s, s \o t)
<1> DEFINE u == s \o t
           v == SubSeq(u, 1, Len(s))
<1>1. u \in Seq(Byte) /\ Len(u) = Len(s) + Len(t) /\ Len(s) \in Nat /\ Len(t) \in Nat
  BY ConcatFacts, LenFacts
<1>2. \A i \in 1 .. Len(s) : u[i] = s[i]
  BY Pieces
<1>3. \A i \in 1 .. Len(s) : s[i] \in Byte
  BY LenFacts
<1> HIDE DEF u
<1>4. /\ v \in Seq(Byte) /\ Len(v) = (IF 1 <= Len(s) THEN Len(s) - 1 + 1 ELSE 0)
      /\ \A i \in 1 .. Len(s) - 1 + 1 : v[i] = u[1 + i - 1]
  <2>1. \A i \in 1 .. Len(s) : u[i] \in Byte
    BY <1>2, <1>3
  <2> QED
    BY <1>1, <2>1, SubSeqProperties
<1> HIDE DEF v
<1>5. Len(v) = Len(s)
  <2>1. Len(v) = (IF 1 <= Len(s) THEN Len(s) - 1 + 1 ELSE 0)
    BY <1>4
  <2> QED
    BY <1>1, <2>1
<1>6. ASSUME NEW i \in 1 .. Len(s) PROVE v[i] = s[i]
  <2>1. i \in 1 .. Len(s) - 1 + 1 /\ 1 + i - 1 = i
    BY <1>1
  <2> QED
    BY <1>2, <1>4, <2>1
<1>7. v = s
  BY <1>4, <1>5, <1>6, SeqEqual
<1>8. SubSeq(s, 1, Len(s)) = s
  BY SubSeqFull
<1>9. Len(s) <= Len(u)
  BY <1>1
<1> QED
  BY <1>7, <1>8, <1>9 DEF IsPrefix, u, v

(* The other way about. *)
LEMMA Reversed ==
  ASSUME NEW s \in Seq(Byte)
  PROVE  /\ Reverse(s) \in Seq(Byte) /\ Len(Reverse(s)) = Len(s)
         /\ \A i \in 1 .. Len(s) : Reverse(s)[i] = s[(Len(s) - i) + 1]
<1> DEFINE n == Len(s)
           r == Reverse(s)
<1>1. n \in Nat /\ \A i \in 1 .. n : s[i] \in Byte
  BY LenFacts
<1>2. r = [i \in 1 .. n |-> s[(n - i) + 1]]
  BY DEF Reverse
<1> HIDE DEF n, r
<1>3. \A i \in 1 .. n : (n - i) + 1 \in 1 .. n
  BY <1>1
<1>4. \A i \in 1 .. n : r[i] = s[(n - i) + 1] /\ r[i] \in Byte
  BY <1>1, <1>2, <1>3
<1>5. r = [i \in 1 .. n |-> r[i]]
  BY <1>2
<1>6. r \in Seq(Byte) /\ Len(r) = n
  BY <1>1, <1>4, <1>5, AnySeq
<1> QED
  BY <1>4, <1>6 DEF n, r

LEMMA SuffixFacts ==
  ASSUME NEW s \in Seq(Byte), NEW t \in Seq(Byte)
  PROVE  IsSuffix(s, t \o s)
<1> DEFINE u == t \o s
           r == Reverse(s)
           x == Reverse(t)
           y == Reverse(u)
<1>1. /\ u \in Seq(Byte) /\ Len(u) = Len(t) + Len(s) /\ Len(s) \in Nat /\ Len(t) \in Nat
      /\ \A i \in 1 .. Len(t) : u[i] = t[i]
      /\ \A i \in 1 .. Len(s) : u[i + Len(t)] = s[i]
  BY LenFacts, ConcatFacts, Pieces
<1> HIDE DEF u
<1>2. /\ r \in Seq(Byte) /\ Len(r) = Len(s) /\ \A i \in 1 .. Len(s) : r[i] = s[(Len(s) - i) + 1]
      /\ x \in Seq(Byte) /\ Len(x) = Len(t) /\ \A i \in 1 .. Len(t) : x[i] = t[(Len(t) - i) + 1]
  BY Reversed
<1>3. y \in Seq(Byte) /\ Len(y) = Len(u) /\ \A i \in 1 .. Len(u) : y[i] = u[(Len(u) - i) + 1]
  BY <1>1, Reversed
<1> HIDE DEF r, x, y
<1>4. /\ r \o x \in Seq(Byte) /\ Len(r \o x) = Len(r) + Len(x)
      /\ \A i \in 1 .. Len(r) : (r \o x)[i] = r[i]
      /\ \A i \in 1 .. Len(x) : (r \o x)[i + Len(r)] = x[i]
  <2>1. r \in Seq(Byte) /\ x \in Seq(Byte)
    BY <1>2
  <2>2. PICK z : z = r \o x
    OBVIOUS
  <2>3. /\ z \in Seq(Byte) /\ Len(z) = Len(r) + Len(x)
        /\ \A i \in 1 .. Len(r) : z[i] = r[i]
        /\ \A i \in 1 .. Len(x) : z[i + Len(r)] = x[i]
    BY <2>1, <2>2, Pieces
  <2> QED
    BY <2>2, <2>3
<1>5. ASSUME NEW i \in 1 .. Len(u) PROVE y[i] = (r \o x)[i]
  <2>1. CASE i <= Len(s)
    <3>1. i \in 1 .. Len(s) /\ (Len(s) - i) + 1 \in 1 .. Len(s)
          /\ (Len(u) - i) + 1 = ((Len(s) - i) + 1) + Len(t)
      BY <1>1, <2>1
    <3>2. y[i] = s[(Len(s) - i) + 1]
      BY <1>1, <1>3, <3>1
    <3> QED
      BY <1>2, <1>4, <3>1, <3>2
  <2>2. CASE ~(i <= Len(s))
    <3> DEFINE j == i - Len(s)
    <3>1. j \in 1 .. Len(t) /\ (Len(t) - j) + 1 \in 1 .. Len(t) /\ i = j + Len(s)
          /\ (Len(u) - i) + 1 = (Len(t) - j) + 1
      BY <1>1, <2>2
    <3> HIDE DEF j
    <3>2. y[i] = t[(Len(t) - j) + 1]
      BY <1>1, <1>3, <3>1
    <3>3. (r \o x)[i] = x[j]
      BY <1>2, <1>4, <3>1
    <3> QED
      BY <1>2, <3>1, <3>2, <3>3
  <2> QED
    BY <2>1, <2>2
<1>6. y = r \o x
  <2>1. Len(y) = Len(r \o x)
    BY <1>1, <1>2, <1>3, <1>4
  <2> QED
    BY <1>3, <1>4, <1>5, <2>1, SeqEqual
<1>7. IsPrefix(r, r \o x)
  BY <1>2, PrefixFacts
<1> QED
  BY <1>6, <1>7 DEF IsSuffix, r, y, u

(* What is left of a sequence behind its first part. *)
LEMMA RestFacts ==
  ASSUME NEW s \in Seq(Byte), NEW t \in Seq(Byte)
  PROVE  SubSeq(s \o t, Len(s) + 1, Len(s \o t)) = t
<1> DEFINE u == s \o t
           w == SubSeq(u, Len(s) + 1, Len(u))
<1>1. /\ u \in Seq(Byte) /\ Len(u) = Len(s) + Len(t) /\ Len(s) \in Nat /\ Len(t) \in Nat
      /\ \A i \in 1 .. Len(t) : u[i + Len(s)] = t[i]
  BY LenFacts, ConcatFacts, Pieces
<1>2. \A i \in 1 .. Len(u) : u[i] \in Byte
  BY <1>1, LenFacts
<1> HIDE DEF u
<1>3. /\ w \in Seq(Byte)
      /\ Len(w) = (IF Len(s) + 1 <= Len(u) THEN Len(u) - (Len(s) + 1) + 1 ELSE 0)
      /\ \A i \in 1 .. Len(u) - (Len(s) + 1) + 1 : w[i] = u[Len(s) + 1 + i - 1]
  <2>1. \A i \in Len(s) + 1 .. Len(u) : u[i] \in Byte
    BY <1>1, <1>2
  <2> QED
    BY <1>1, <2>1, SubSeqProperties
<1> HIDE DEF w
<1>4. Len(w) = Len(t)
  <2>1. Len(w) = (IF Len(s) + 1 <= Len(u) THEN Len(u) - (Len(s) + 1) + 1 ELSE 0)
    BY <1>3
  <2> QED
    BY <1>1, <2>1
<1>5. ASSUME NEW i \in 1 .. Len(t) PROVE w[i] = t[i]
  <2>1. i \in 1 .. Len(u) - (Len(s) + 1) + 1 /\ Len(s) + 1 + i - 1 = i + Len(s)
    BY <1>1
  <2> QED
    BY <1>1, <1>3, <2>1
<1>6. w = t
  BY <1>3, <1>4, <1>5, SeqEqual
<1> QED
  BY <1>6 DEF u, w

(* What has been written stays when more is.                               *)
LEMMA SubSeqStays ==
  ASSUME NEW s \in Seq(Byte), NEW e \in Byte, NEW m \in Nat, NEW n \in 0 .. Len(s)
  PROVE  SubSeq(Append(s, e), m + 1, n) = SubSeq(s, m + 1, n)
<1> DEFINE r == Append(s, e)
           v == SubSeq(r, m + 1, n)
           w == SubSeq(s, m + 1, n)
<1>1. /\ Len(s) \in Nat /\ r \in Seq(Byte) /\ \A i \in 1 .. Len(s) : r[i] = s[i] /\ s[i] \in Byte
  BY AppendFacts, LenFacts
<1> HIDE DEF r
<1>2. \A i \in m + 1 .. n : i \in 1 .. Len(s)
  BY <1>1
<1>3. /\ v \in Seq(Byte) /\ Len(v) = (IF m + 1 <= n THEN n - (m + 1) + 1 ELSE 0)
      /\ \A i \in 1 .. n - (m + 1) + 1 : v[i] = r[m + 1 + i - 1]
  <2>1. \A i \in m + 1 .. n : r[i] \in Byte
    BY <1>1, <1>2
  <2> QED
    BY <1>1, <2>1, SubSeqProperties
<1>4. /\ w \in Seq(Byte) /\ Len(w) = (IF m + 1 <= n THEN n - (m + 1) + 1 ELSE 0)
      /\ \A i \in 1 .. n - (m + 1) + 1 : w[i] = s[m + 1 + i - 1]
  <2>1. \A i \in m + 1 .. n : s[i] \in Byte
    BY <1>1, <1>2
  <2> QED
    BY <1>1, <2>1, SubSeqProperties
<1> HIDE DEF v, w
<1>5. Len(v) = Len(w)
  BY <1>3, <1>4
<1>6. ASSUME NEW i \in 1 .. Len(v) PROVE v[i] = w[i]
  <2>1. i \in 1 .. n - (m + 1) + 1 /\ m + 1 + i - 1 \in 1 .. Len(s)
    <3>1. Len(v) = (IF m + 1 <= n THEN n - (m + 1) + 1 ELSE 0)
      BY <1>3
    <3>2. i >= 1 /\ i <= Len(v) /\ i \in Int
      BY <1>1, <3>1
    <3>3. m + 1 <= n /\ i <= n - (m + 1) + 1
      BY <1>1, <3>1, <3>2
    <3> QED
      BY <1>1, <3>2, <3>3
  <2> QED
    BY <1>1, <1>3, <1>4, <2>1
<1>7. v = w
  BY <1>3, <1>4, <1>5, <1>6, SeqEqual
<1> QED
  BY <1>7 DEF r, v, w

-------------------------------------------------------------------------------
(* The invariant.                                                          *)

(* Where the driver is while only messages are written, and what of.       *)
Plain ==
  /\ at \in {"reset", "enable", "idle", "poll", "out"} /\ call.base = 0
  /\ at \in {"poll", "out"} <=> todo # << >>

(* What kmain has done to the tables when it has taken kpc steps.          *)
Progress ==
  /\ kpc \in 0 .. 80
  /\ firmware \in Firmwares
  /\ kpc >= 1 => firmware.supported
  /\ kpc >= 8 => code # -1
  /\ idtr \in BOOLEAN /\ (idtr <=> kpc >= 50)
  /\ iflag \in BOOLEAN /\ (iflag <=> kpc >= 51)
  /\ gdt = [i \in 1 .. 5 |-> IF kpc >= i + 1 THEN GdtEntries[i] ELSE << 0, 0 >>]
  /\ idt = [v \in 0 .. 255 |-> IF \E j \in 1 .. 20 : Vectors[j] = v /\ kpc >= 9 + (2 * j)
                                 THEN << Handler(v) >> ELSE << >>]

(* Which exceptions there can have been, and where in the output.          *)
Trapped ==
  /\ status \in {"boot", "handler", "overflow", "looping", "halted", "crashed"}
  /\ traps \in Seq([vector : Caught, at : Nat])
  /\ status \in {"boot", "overflow", "looping"} => traps = << >>
  /\ status = "handler" => traps # << >>
  /\ status = "crashed" => ~idtr /\ Len(traps) = 1 /\ traps[1].vector = INT_NMI
  /\ status # "crashed" /\ traps # << >> => idtr
  /\ \A k \in 1 .. Len(traps) : traps[k].at <= Len(written)
  /\ \A k \in 1 .. Len(traps) - 1 : traps[k].at <= traps[k + 1].at

(* What has been written, and waits to be written, of each part.           *)
Before(k) == SubSeq(written, traps[k].at + 1, traps[k + 1].at)
Latest == SubSeq(written, traps[Len(traps)].at + 1, Len(written))
Overflown == ~firmware.roomy /\ IsSuffix(Characters(Overflow), said)
Speech ==
  /\ said \in Seq(Byte)
  /\ traps = << >> => written \o todo = said
  /\ traps # << >> => IsPrefix(SubSeq(written, 1, traps[1].at), said)
  /\ status # "crashed" => \A k \in 1 .. Len(traps) - 1 : IsPrefix(Before(k), Words(k))
  /\ status # "crashed" /\ traps # << >> => Latest \o todo = Words(Len(traps))
  /\ status = "halted" => todo = << >>
  /\ kpc = 80 => IsSuffix(Characters(Hello), said)
  /\ status = "overflow" => Overflown
  /\ status = "halted" /\ firmware.supported /\ traps = << >> => kpc = 80 \/ Overflown

(* What palloc has taken and granted, and memset has filled.               *)
Pages ==
  /\ pool \subseteq firmware.usable
  /\ granted \in Seq(firmware.usable \cup {0})
  /\ Len(granted) = IF kpc < 60 THEN 0 ELSE IF kpc < 64 THEN 1 ELSE 2
  /\ Len(granted) = 2 /\ granted[2] # 0 => granted[1] # granted[2]
  /\ \A i \in 1 .. Len(granted) : granted[i] \notin pool
  /\ mem \in [firmware.usable -> {0, 250, 236}]
  /\ \A p \in firmware.usable : mem[p] # 0 => \E i \in 1 .. Len(granted) : granted[i] = p
  /\ kpc >= 69 => granted[1] \in firmware.usable /\ mem[granted[1]] = 250
  /\ kpc >= 70 => granted[2] \in firmware.usable /\ mem[granted[2]] = 236

KInv == IInv /\ Plain /\ Progress /\ Trapped /\ Speech /\ Pages

LEMMA KernelInit == InitKernel => KInv
<1> SUFFICES ASSUME InitKernel PROVE KInv
  OBVIOUS
<1>1. IInv
  BY InitCorrect DEF InitKernel
<1>2. /\ at = "reset" /\ todo = << >> /\ call.base = 0 /\ written = << >>
  BY DEF InitKernel, InitSerial, InitDriver
<1>3. /\ firmware \in Firmwares
      /\ kpc = 0 /\ status = "boot" /\ traps = << >> /\ said = << >>
      /\ gdt = [i \in 1 .. 5 |-> << 0, 0 >>]
      /\ idt = [v \in 0 .. 255 |-> << >>] /\ idtr = FALSE /\ iflag = FALSE
      /\ pool = {} /\ granted = << >> /\ mem = [p \in firmware.usable |-> 0]
  BY DEF InitKernel
<1>4. Plain
  BY <1>2 DEF Plain
<1>5. Progress
  <2>1. gdt = [i \in 1 .. 5 |-> IF kpc >= i + 1 THEN GdtEntries[i] ELSE << 0, 0 >>]
    BY <1>3
  <2>2. idt = [v \in 0 .. 255 |-> IF \E j \in 1 .. 20 : Vectors[j] = v /\ kpc >= 9 + (2 * j)
                                    THEN << Handler(v) >> ELSE << >>]
    BY <1>3
  <2>3. /\ idtr \in BOOLEAN /\ (idtr <=> kpc >= 50)
        /\ iflag \in BOOLEAN /\ (iflag <=> kpc >= 51)
    <3>1. ~(0 >= 50) /\ ~(0 >= 51)
      OBVIOUS
    <3> QED
      BY <1>3, <3>1, Zenon
  <2> QED
    BY <1>3, <2>1, <2>2, <2>3 DEF Progress
<1>6. Trapped
  <2>1. traps \in Seq([vector : Caught, at : Nat]) /\ Len(traps) = 0
    BY <1>3, EmptySeq
  <2> QED
    BY <1>3, <2>1 DEF Trapped
<1>7. Speech
  <2>1. written \o todo = said /\ said \in Seq(Byte)
    BY <1>2, <1>3, SingleFacts, ConcatFacts
  <2> QED
    BY <1>3, <2>1 DEF Speech
<1>8. Pages
  <2>1. granted \in Seq(firmware.usable \cup {0}) /\ Len(granted) = 0
    BY <1>3, EmptySeq
  <2>2. mem \in [firmware.usable -> {0, 250, 236}] /\ \A p \in firmware.usable : mem[p] = 0
    BY <1>3
  <2> QED
    BY <1>3, <2>1, <2>2 DEF Pages
<1> QED
  BY <1>1, <1>4, <1>5, <1>6, <1>7, <1>8 DEF KInv

-------------------------------------------------------------------------------
(* What leaves the parts of the invariant alone.                           *)

LEMMA PlainStays ==
  ASSUME Plain, UNCHANGED << at, call, todo >>
  PROVE  Plain'
  BY DEF Plain

LEMMA ProgressStays ==
  ASSUME Progress, UNCHANGED << kpc, firmware, gdt, idt, idtr, iflag >>, code' = -1 => code = -1
  PROVE  Progress'
  BY DEF Progress

LEMMA TrappedStays ==
  ASSUME Trapped, UNCHANGED << status, traps, idtr, written >>
  PROVE  Trapped'
  BY DEF Trapped

LEMMA SpeechStays ==
  ASSUME Speech, UNCHANGED << traps, written, todo, said, kpc, status, firmware >>
  PROVE  Speech'
  BY DEF Speech, Before, Latest, Words, Overflown

LEMMA PagesStay ==
  ASSUME Pages, UNCHANGED << pool, granted, firmware, kpc, mem >>
  PROVE  Pages'
  BY DEF Pages

(* A step of kmain that leaves the tables alone.                           *)
LEMMA ProgressMoves ==
  ASSUME Progress, kpc' = kpc + 1, UNCHANGED << firmware, gdt, idt, idtr, iflag, code >>,
         kpc \in 0 .. 79, kpc \notin 1 .. 5, kpc \notin {49, 50},
         \A j \in 1 .. 20 : kpc # 8 + (2 * j),
         kpc = 0 => firmware.supported, kpc = 7 => code # -1
  PROVE  Progress'
<1>1. /\ kpc' \in 0 .. 80 /\ (kpc' >= 1 => firmware.supported) /\ (kpc' >= 8 => code # -1)
  <2>1. (kpc >= 1 => firmware.supported) /\ (kpc >= 8 => code # -1)
    BY DEF Progress
  <2>2. kpc = 0 \/ kpc >= 1
    OBVIOUS
  <2>3. kpc' >= 8 => kpc = 7 \/ kpc >= 8
    OBVIOUS
  <2>4. kpc' \in 0 .. 80
    OBVIOUS
  <2> QED
    BY <2>1, <2>2, <2>3, <2>4
<1>2. \A i \in 1 .. 5 : kpc' >= i + 1 <=> kpc >= i + 1
  OBVIOUS
<1>3. gdt' = [i \in 1 .. 5 |-> IF kpc' >= i + 1 THEN GdtEntries[i] ELSE << 0, 0 >>]
  BY <1>2 DEF Progress
<1>4. \A j \in 1 .. 20 : kpc' >= 9 + (2 * j) <=> kpc >= 9 + (2 * j)
  <2> TAKE j \in 1 .. 20
  <2>1. kpc # 8 + (2 * j)
    OBVIOUS
  <2> QED
    BY <2>1
<1>5. idt' = [v \in 0 .. 255 |-> IF \E j \in 1 .. 20 : Vectors[j] = v /\ kpc' >= 9 + (2 * j)
                                   THEN << Handler(v) >> ELSE << >>]
  BY <1>4 DEF Progress
<1>6. /\ idtr' \in BOOLEAN /\ (idtr' <=> kpc' >= 50)
      /\ iflag' \in BOOLEAN /\ (iflag' <=> kpc' >= 51)
  <2>1. (kpc' >= 50 <=> kpc >= 50) /\ (kpc' >= 51 <=> kpc >= 51)
    OBVIOUS
  <2> QED
    BY <2>1 DEF Progress
<1>7. firmware' \in Firmwares
  BY DEF Progress
<1> QED
  BY <1>1, <1>3, <1>5, <1>6, <1>7 DEF Progress

(* One that says nothing.                                                  *)
LEMMA SpeechMoves ==
  ASSUME Speech, Trapped, status = "boot", kpc \in 0 .. 78, kpc' = kpc + 1,
         UNCHANGED << traps, written, todo, said, status, firmware >>
  PROVE  Speech'
<1>1. traps = << >> /\ written \o todo = said /\ said \in Seq(Byte)
  BY DEF Speech, Trapped
<1>2. traps' = << >> /\ status' = "boot" /\ Len(traps') = 0 /\ kpc' # 80
  BY <1>1, EmptySeq
<1> QED
  BY <1>1, <1>2 DEF Speech

(* One that neither grants nor fills a page.                               *)
LEMMA PagesMove ==
  ASSUME Pages, kpc \in 0 .. 79, kpc \notin {59, 63, 68, 69},
         kpc' = kpc + 1, UNCHANGED << pool, granted, firmware, mem >>
  PROVE  Pages'
<1>1. /\ (kpc' < 60 <=> kpc < 60) /\ (kpc' < 64 <=> kpc < 64)
      /\ (kpc' >= 69 <=> kpc >= 69) /\ (kpc' >= 70 <=> kpc >= 70)
  OBVIOUS
<1> QED
  BY <1>1 DEF Pages

-------------------------------------------------------------------------------
(* The driver and the device.                                              *)

LEMMA TrapFacts ==
  ASSUME Trapped, SerialTypeOK
  PROVE  /\ Len(written) \in Nat /\ Len(traps) \in Nat
         /\ \A k \in 1 .. Len(traps) :
               traps[k].at \in 0 .. Len(written) /\ traps[k].vector \in Caught
         /\ traps # << >> <=> Len(traps) >= 1
<1>1. traps \in Seq([vector : Caught, at : Nat])
  BY DEF Trapped
<1>2. Len(traps) \in Nat /\ (traps # << >> => Len(traps) \in Nat \ {0}) /\ Len(<< >>) = 0
  BY <1>1, LenProperties, EmptySeq
<1>3. \A k \in 1 .. Len(traps) : traps[k] \in [vector : Caught, at : Nat]
  BY <1>1, ElementOfSeq
<1>4. Len(written) \in Nat
  BY LenFacts DEF SerialTypeOK
<1>5. \A k \in 1 .. Len(traps) : traps[k].at <= Len(written)
  BY DEF Trapped
<1>6. \A k \in 1 .. Len(traps) :
         traps[k].at \in 0 .. Len(written) /\ traps[k].vector \in Caught
  BY <1>3, <1>4, <1>5
<1>7. traps # << >> <=> Len(traps) >= 1
  BY <1>2
<1> QED
  BY <1>2, <1>4, <1>6, <1>7

(* What a byte does to what has been written and is to be written.         *)
LEMMA SpeechGoesOn ==
  ASSUME Speech, Trapped, SerialTypeOK, todo # << >>, status \in {"boot", "handler", "overflow"},
         written' = Append(written, Head(todo)), todo' = Tail(todo),
         UNCHANGED << traps, said, kpc, status, firmware, idtr >>
  PROVE  Speech' /\ Trapped'
<1>1. /\ written \in Seq(Byte) /\ todo \in Seq(Byte) /\ Head(todo) \in Byte
      /\ Tail(todo) \in Seq(Byte) /\ << Head(todo) >> \o Tail(todo) = todo
  BY HeadFacts DEF SerialTypeOK
<1>2. Len(written) \in Nat /\ Len(written') = Len(written) + 1
  BY <1>1, AppendFacts, LenFacts
<1>3. /\ Len(traps) \in Nat
      /\ \A k \in 1 .. Len(traps) : traps[k].at \in 0 .. Len(written)
  BY TrapFacts
<1>4. Trapped'
  <2>1. \A k \in 1 .. Len(traps) : traps[k].at <= Len(written')
    BY <1>2, <1>3
  <2> QED
    BY <2>1 DEF Trapped
<1>5. traps = << >> => written' \o todo' = said
  <2> SUFFICES ASSUME traps = << >> PROVE written' \o todo' = said
    OBVIOUS
  <2>1. written \o todo = said
    BY DEF Speech
  <2> DEFINE h == << Head(todo) >>
             t == Tail(todo)
  <2>2. h \in Seq(Byte) /\ t \in Seq(Byte) /\ h \o t = todo
    BY <1>1, SingleFacts
  <2>3. Append(written, Head(todo)) = written \o h
    BY <1>1, AppendFacts
  <2> HIDE DEF h, t
  <2>4. (written \o h) \o t = written \o (h \o t)
    <3>1. written \in Seq(Byte) /\ h \in Seq(Byte) /\ t \in Seq(Byte)
      BY <1>1, <2>2
    <3> QED
      BY <3>1, Associative
  <2>5. written' \o todo' = (written \o h) \o t
    BY <2>3 DEF t
  <2> QED
    BY <2>1, <2>2, <2>4, <2>5
<1>6. traps # << >> => SubSeq(written', 1, traps[1].at) = SubSeq(written, 1, traps[1].at)
  <2> SUFFICES ASSUME traps # << >>
               PROVE  SubSeq(written', 1, traps[1].at) = SubSeq(written, 1, traps[1].at)
    OBVIOUS
  <2>1. 1 \in 1 .. Len(traps)
    BY <1>3, TrapFacts
  <2>2. traps[1].at \in 0 .. Len(written)
    BY <1>3, <2>1
  <2>3. 0 \in Nat /\ 0 + 1 = 1
    OBVIOUS
  <2>4. SubSeq(Append(written, Head(todo)), 0 + 1, traps[1].at) = SubSeq(written, 0 + 1, traps[1].at)
    BY <1>1, <2>2, <2>3, SubSeqStays
  <2> QED
    BY <2>3, <2>4
<1>7. ASSUME NEW k \in 1 .. Len(traps) - 1
      PROVE  SubSeq(written', traps[k].at + 1, traps[k + 1].at)
               = SubSeq(written, traps[k].at + 1, traps[k + 1].at)
  <2>1. k \in 1 .. Len(traps) /\ k + 1 \in 1 .. Len(traps)
    BY <1>3
  <2>2. traps[k].at \in Nat /\ traps[k + 1].at \in 0 .. Len(written)
    BY <1>3, <2>1
  <2> QED
    BY <1>1, <2>2, SubSeqStays
<1>8. traps # << >> => SubSeq(written', traps[Len(traps)].at + 1, Len(written')) \o todo'
                         = SubSeq(written, traps[Len(traps)].at + 1, Len(written)) \o todo
  <2> SUFFICES ASSUME traps # << >>
               PROVE  SubSeq(written', traps[Len(traps)].at + 1, Len(written')) \o todo'
                         = SubSeq(written, traps[Len(traps)].at + 1, Len(written)) \o todo
    OBVIOUS
  <2>1. Len(traps) \in 1 .. Len(traps)
    BY <1>3, TrapFacts
  <2>2. traps[Len(traps)].at \in 0 .. Len(written)
    BY <1>3, <2>1
  <2> QED
    BY <1>1, <2>2, WrittenOn
<1>9. \A k \in 1 .. Len(traps') - 1 : Before(k)' = Before(k) /\ Words(k)' = Words(k)
  BY <1>7 DEF Before, Words
<1>10. traps # << >> => Latest' \o todo' = Latest \o todo
  BY <1>8 DEF Latest
<1>11. Words(Len(traps))' = Words(Len(traps))
  BY DEF Words
<1> QED
  BY <1>4, <1>5, <1>6, <1>9, <1>10, <1>11 DEF Speech, Overflown

LEMMA DriverStepKeeps ==
  ASSUME KInv, DriverStep
  PROVE  KInv'
<1>0. IInv /\ Plain /\ Progress /\ Trapped /\ Speech /\ Pages /\ SerialTypeOK /\ Control
  BY DEF KInv, IInv
<1>1. /\ Driver /\ status \in {"boot", "handler", "overflow"}
      /\ UNCHANGED << firmware, kpc, status, traps, said, gdt, idt, idtr, iflag, pool, granted, mem >>
  BY DEF DriverStep, kernelVars, progress, Tables, Memory
<1>2. IInv'
  BY <1>0, <1>1, StepKeeps DEF Next
<1>3. Pages'
  BY <1>0, <1>1, PagesStay
<1>4. ASSUME UNCHANGED << todo, call, written >>, code' = -1 => code = -1,
             at' \in {"reset", "enable", "idle", "poll", "out"},
             at' \in {"poll", "out"} <=> at \in {"poll", "out"}
      PROVE  KInv'
  <2>1. Plain'
    BY <1>0, <1>4 DEF Plain
  <2>2. Progress'
    BY <1>0, <1>1, <1>4, ProgressStays
  <2>3. Trapped' /\ Speech'
    BY <1>0, <1>1, <1>4, TrappedStays, SpeechStays
  <2> QED
    BY <1>2, <1>3, <2>1, <2>2, <2>3 DEF KInv
<1>5. CASE InitOut \/ InitTest \/ InitEnable \/ Poll
  <2>1. UNCHANGED << todo, call, written >>
    BY <1>5 DEF InitOut, InitTest, InitEnable, Poll
  <2>2. code' = -1 => code = -1
    BY <1>5 DEF InitOut, InitTest, InitEnable, Poll
  <2>3. \/ at = "reset" /\ at' \in {"reset", "idle", "enable"}
        \/ at = "enable" /\ at' = "idle"
        \/ at = "poll" /\ at' = "out"
    BY <1>5 DEF InitOut, InitTest, InitEnable, Poll
  <2> QED
    BY <1>4, <2>1, <2>2, <2>3
<1>6. CASE WriteByte
  <2>1. /\ at = "out" /\ written' = Append(written, Head(todo)) /\ todo' = Tail(todo)
        /\ at' = IF Tail(todo) = << >> THEN "idle" ELSE "poll"
        /\ UNCHANGED << code, call >>
    BY <1>6 DEF WriteByte, Write
  <2>2. todo # << >>
    BY <1>0, <2>1 DEF SerialTypeOK
  <2>3. Speech' /\ Trapped'
    BY <1>0, <1>1, <2>1, <2>2, SpeechGoesOn
  <2>4. Plain'
    BY <1>0, <2>1 DEF Plain
  <2>5. Progress'
    BY <1>0, <1>1, <2>1, ProgressStays
  <2> QED
    BY <1>2, <1>3, <2>3, <2>4, <2>5 DEF KInv
<1>7. CASE Recurse \/ AwaitByte \/ ReadByte
  <2>1. at \in {"digits", "wait", "in"}
    BY <1>7 DEF Recurse, AwaitByte, ReadByte
  <2> QED
    BY <1>0, <2>1 DEF Plain
<1> QED
  BY <1>1, <1>5, <1>6, <1>7 DEF Driver

LEMMA DeviceStepKeeps ==
  ASSUME KInv, DeviceStep
  PROVE  KInv'
<1>0. IInv /\ Plain /\ Progress /\ Trapped /\ Speech /\ Pages
  BY DEF KInv
<1>1. /\ Transmit \/ \E b \in Inputs : Arrive(b)
      /\ UNCHANGED << firmware, kpc, status, traps, said, gdt, idt, idtr, iflag, pool, granted, mem >>
  BY DEF DeviceStep, kernelVars, progress, Tables, Memory
<1>2. IInv'
  BY <1>0, <1>1, StepKeeps DEF Next
<1>3. UNCHANGED << at, step, todo, code, call, written, got >>
  BY <1>1 DEF Transmit, Arrive, driver
<1>4. Plain' /\ Progress' /\ Trapped' /\ Speech' /\ Pages'
  BY <1>0, <1>1, <1>3, PlainStays, ProgressStays, TrappedStays, SpeechStays, PagesStay
<1> QED
  BY <1>2, <1>4 DEF KInv

-------------------------------------------------------------------------------
(* Exceptions.                                                             *)

LEMMA CodeIsLong == LongCode(<< 154, 10 >>) /\ Ring(<< 154, 10 >>) = 0
<1>1. /\ 154 \div 128 = 1 /\ 154 \div 16 = 9 /\ 154 \div 8 = 19 /\ 10 \div 2 = 5
      /\ 10 \div 4 = 2 /\ 154 \div 32 = 4
  OBVIOUS
<1>2. 1 % 2 = 1 /\ 9 % 2 = 1 /\ 19 % 2 = 1 /\ 5 % 2 = 1 /\ 2 % 2 = 0 /\ 4 % 4 = 0
  OBVIOUS
<1> QED
  BY <1>1, <1>2 DEF LongCode, Ring, Bit

LEMMA DataIsWritable == WritableData(<< 146, 12 >>) /\ Ring(<< 146, 12 >>) = 0
<1>1. /\ 146 \div 128 = 1 /\ 146 \div 16 = 9 /\ 146 \div 8 = 18 /\ 146 \div 2 = 73
      /\ 146 \div 32 = 4
  OBVIOUS
<1>2. 1 % 2 = 1 /\ 9 % 2 = 1 /\ 18 % 2 = 0 /\ 73 % 2 = 1 /\ 4 % 4 = 0
  OBVIOUS
<1> QED
  BY <1>1, <1>2 DEF WritableData, Ring, Bit

LEMMA TheDescriptors ==
  ASSUME Progress, kpc >= 6
  PROVE  Descriptor(GDT_KERNEL_CODE) = << 154, 10 >> /\ Descriptor(16) = << 146, 12 >>
<1>1. (8 \div 8) + 1 = 2 /\ (16 \div 8) + 1 = 3
  OBVIOUS
<1>2. gdt[2] = GdtEntries[2] /\ gdt[3] = GdtEntries[3]
  <2>1. gdt = [i \in 1 .. 5 |-> IF kpc >= i + 1 THEN GdtEntries[i] ELSE << 0, 0 >>]
    BY DEF Progress
  <2>2. kpc \in 0 .. 80
    BY DEF Progress
  <2>3. kpc >= 2 + 1 /\ kpc >= 3 + 1
    BY <2>2
  <2>4. 2 \in 1 .. 5 /\ 3 \in 1 .. 5
    OBVIOUS
  <2> QED
    BY <2>1, <2>3, <2>4, Zenon
<1>3. GdtEntries[2] = << 154, 10 >> /\ GdtEntries[3] = << 146, 12 >>
  BY DEF GdtEntries
<1> QED
  BY <1>1, <1>2, <1>3 DEF Descriptor, GDT_KERNEL_CODE

LEMMA TheGates ==
  ASSUME Progress, idtr
  PROVE  \A v \in (0 .. 21) \ {9, 15} : idt[v] = << Handler(v) >>
<1>1. kpc >= 50 /\ kpc \in 0 .. 80
  BY DEF Progress
<1>2. ASSUME NEW v \in (0 .. 21) \ {9, 15}
      PROVE  idt[v] = << Handler(v) >>
  <2>1. PICK j \in 1 .. 20 : Vectors[j] = v
    BY TheVectors
  <2>2. kpc >= 9 + (2 * j) /\ v \in 0 .. 255
    BY <1>1
  <2> QED
    BY <2>1, <2>2 DEF Progress
<1> QED
  BY <1>2

(* With the IDT loaded an exception starts its handler, before it nothing  *)
(* but an NMI can come, which is the end.                                  *)
LEMMA TrapEffect ==
  ASSUME Progress, NEW v \in Caught, Trap(v)
  PROVE  /\ idtr => /\ Raise(v, "handler") /\ Write(Characters(Handler(v).says))
                    /\ UNCHANGED << step, code, call, written, got >>
         /\ ~idtr => Raise(v, "crashed") /\ UNCHANGED driver
<1>1. CASE idtr
  <2>1. v \in (0 .. 21) \ {9, 15}
    BY DEF Caught, INT_NMI, INT_GP, INT_PF
  <2>2. idt[v] = << Handler(v) >>
    BY <1>1, <2>1, TheGates
  <2>3. idt[v] # << >> /\ idt[v][1] = Handler(v)
    BY <2>2
  <2>4. kpc >= 6
    <3>1. kpc \in 0 .. 80 /\ kpc >= 50
      BY <1>1 DEF Progress
    <3> QED
      BY <3>1
  <2>5. LongCode(Descriptor(GDT_KERNEL_CODE))
    BY <2>4, TheDescriptors, CodeIsLong
  <2>6. Handler(v).says # ""
    <3>1. /\ Handler(2).says = "NMI Exception!" /\ Handler(14).says = "Page Fault!"
          /\ Handler(13).says = "General Protection Fault!"
      BY DEF Handler
    <3> QED
      BY <3>1 DEF Caught, INT_NMI, INT_GP, INT_PF
  <2> QED
    BY <1>1, <2>3, <2>5, <2>6 DEF Trap
<1>2. CASE ~idtr
  BY <1>2 DEF Trap
<1> QED
  BY <1>1, <1>2

(* What was written before the first exception has been said.              *)
LEMMA FirstPart ==
  ASSUME Speech, SerialTypeOK, traps = << >>
  PROVE  IsPrefix(SubSeq(written, 1, Len(written)), said)
<1>1. written \in Seq(Byte) /\ todo \in Seq(Byte) /\ written \o todo = said
  BY DEF Speech, SerialTypeOK
<1>2. IsPrefix(written, written \o todo)
  BY <1>1, PrefixFacts
<1>3. SubSeq(written, 1, Len(written)) = written
  BY <1>1, SubSeqFull
<1> QED
  BY <1>1, <1>2, <1>3

LEMMA RaiseFacts ==
  ASSUME Trapped, SerialTypeOK, NEW v \in Caught,
         traps' = Append(traps, [vector |-> v, at |-> Len(written)])
  PROVE  /\ traps' \in Seq([vector : Caught, at : Nat]) /\ traps' # << >>
         /\ Len(traps') = Len(traps) + 1 /\ Len(traps) \in Nat
         /\ \A k \in 1 .. Len(traps) : traps'[k] = traps[k]
         /\ traps'[Len(traps) + 1].vector = v /\ traps'[Len(traps) + 1].at = Len(written)
<1> DEFINE S == [vector : Caught, at : Nat]
           e == [vector |-> v, at |-> Len(written)]
<1>1. traps \in Seq(S) /\ e \in S
  <2>1. Len(written) \in Nat
    BY LenFacts DEF SerialTypeOK
  <2> QED
    BY <2>1 DEF Trapped
<1>2. e.vector = v /\ e.at = Len(written)
  OBVIOUS
<1> HIDE DEF S, e
<1>3. /\ Append(traps, e) \in Seq(S) /\ Append(traps, e) # << >>
      /\ Len(Append(traps, e)) = Len(traps) + 1
      /\ \A i \in 1 .. Len(traps) : Append(traps, e)[i] = traps[i]
      /\ Append(traps, e)[Len(traps) + 1] = e
  BY <1>1, AppendProperties
<1>4. Len(traps) \in Nat
  BY <1>1, LenProperties
<1>5. traps' = Append(traps, e)
  BY DEF e
<1> QED
  BY <1>2, <1>3, <1>4, <1>5 DEF S

LEMMA HandlerStarts ==
  ASSUME KInv, NEW v \in Caught, idtr, status # "crashed",
         Raise(v, "handler"), Write(Characters(Handler(v).says)),
         UNCHANGED << step, code, call, written, got >>,
         UNCHANGED << device, firmware, kpc, said, gdt, idt, idtr, iflag, pool, granted, mem >>
  PROVE  KInv'
<1> DEFINE m == Characters(Handler(v).says)
           n == Len(traps)
<1>0. IInv /\ Plain /\ Progress /\ Trapped /\ Speech /\ Pages /\ SerialTypeOK /\ Control
  BY DEF KInv, IInv
<1>1. m \in Seq(Byte)
  BY TheMessages
<1>2. todo' = m /\ at' = IF m = << >> THEN "idle" ELSE "poll"
  BY DEF Write
<1> HIDE DEF m
<1>3. /\ status' = "handler" /\ traps' = Append(traps, [vector |-> v, at |-> Len(written)])
      /\ UNCHANGED << kind, regs, thr, rx, wire, arrived, past >>
  BY DEF Raise, device
<1>4. /\ traps' \in Seq([vector : Caught, at : Nat]) /\ traps' # << >>
      /\ Len(traps') = n + 1 /\ n \in Nat
      /\ \A k \in 1 .. n : traps'[k] = traps[k]
      /\ traps'[n + 1].vector = v /\ traps'[n + 1].at = Len(written)
  BY <1>0, <1>3, RaiseFacts
<1>5. kpc \in 0 .. 80 /\ code # -1
  <2>1. kpc \in 0 .. 80 /\ kpc >= 50 /\ (kpc >= 8 => code # -1)
    BY <1>0 DEF Progress
  <2>2. kpc >= 8
    BY <2>1
  <2> QED
    BY <2>1, <2>2
<1>6. IInv'
  <2>1. at \notin {"reset", "enable"} /\ at' \notin {"reset", "enable"}
    BY <1>0, <1>2, <1>5 DEF Control
  <2>2. SerialTypeOK'
    BY <1>0, <1>1, <1>2, <1>3 DEF SerialTypeOK
  <2>3. Polled'
    BY <1>2 DEF Polled
  <2> QED
    BY <1>0, <2>1, <2>2, <2>3, MovesKeep
<1>7. Plain'
  BY <1>0, <1>2 DEF Plain
<1>8. Progress' /\ Pages'
  BY <1>0, ProgressStays, PagesStay
<1>9. /\ Len(written) \in Nat
      /\ \A k \in 1 .. n : traps[k].at \in 0 .. Len(written)
      /\ traps # << >> <=> n >= 1
  BY <1>0, TrapFacts
<1> HIDE DEF n
<1>10. Trapped'
  <2>1. ASSUME NEW k \in 1 .. Len(traps') PROVE traps'[k].at <= Len(written')
    <3>1. k \in 1 .. n \/ k = n + 1
      BY <1>4
    <3> QED
      BY <1>4, <1>9, <3>1
  <2>2. ASSUME NEW k \in 1 .. Len(traps') - 1 PROVE traps'[k].at <= traps'[k + 1].at
    <3>1. k \in 1 .. n
      BY <1>4
    <3>2. CASE k = n
      <4>1. traps'[k].at = traps[n].at /\ traps'[k + 1].at = Len(written)
        BY <1>4, <3>1, <3>2
      <4> QED
        BY <1>9, <3>1, <3>2, <4>1
    <3>3. CASE k # n
      <4>1. k + 1 \in 1 .. n /\ k \in 1 .. n - 1
        BY <1>4, <3>1, <3>3
      <4>2. traps'[k] = traps[k] /\ traps'[k + 1] = traps[k + 1]
        BY <1>4, <3>1, <4>1
      <4>3. traps[k].at <= traps[k + 1].at
        BY <1>0, <4>1 DEF Trapped, n
      <4> QED
        BY <4>2, <4>3
    <3> QED
      BY <3>2, <3>3
  <2> QED
    BY <1>3, <1>4, <2>1, <2>2 DEF Trapped
<1>11. IsPrefix(SubSeq(written, 1, traps'[1].at), said)
  <2>1. CASE traps = << >>
    <3>1. n = 0
      BY <1>4, <1>9, <2>1
    <3>2. traps'[1].at = Len(written)
      BY <1>4, <3>1
    <3> QED
      BY <1>0, <2>1, <3>2, FirstPart
  <2>2. CASE traps # << >>
    <3>1. 1 \in 1 .. n
      BY <1>4, <1>9, <2>2
    <3>2. traps'[1] = traps[1]
      BY <1>4, <3>1
    <3> QED
      BY <1>0, <2>2, <3>2 DEF Speech
  <2> QED
    BY <2>1, <2>2
<1>12. ASSUME NEW k \in 1 .. Len(traps') - 1 PROVE IsPrefix(Before(k)', Words(k)')
  <2>1. k \in 1 .. n /\ traps'[k] = traps[k]
    BY <1>4
  <2>2. Words(k)' = Words(k)
    BY <2>1 DEF Words
  <2>3. CASE k = n
    <3>1. traps # << >> /\ traps'[k + 1].at = Len(written)
      BY <1>4, <1>9, <2>1, <2>3
    <3>2. Before(k)' = Latest
      BY <2>1, <2>3, <3>1 DEF Before, Latest, n
    <3>3. Latest \o todo = Words(k)
      BY <1>0, <2>3, <3>1 DEF Speech, n
    <3>4. Latest \in Seq(Byte)
      <4>1. traps[n].at \in 0 .. Len(written) /\ written \in Seq(Byte)
        BY <1>0, <1>9, <2>1, <2>3 DEF SerialTypeOK
      <4> QED
        BY <4>1, SubSeqFacts DEF Latest, n
    <3>5. todo \in Seq(Byte)
      BY <1>0 DEF SerialTypeOK
    <3>6. IsPrefix(Latest, Latest \o todo)
      BY <3>4, <3>5, PrefixFacts
    <3> QED
      BY <2>2, <3>2, <3>3, <3>6
  <2>4. CASE k # n
    <3>1. k + 1 \in 1 .. n /\ k \in 1 .. n - 1
      BY <1>4, <2>1, <2>4
    <3>2. traps'[k + 1] = traps[k + 1]
      BY <1>4, <3>1
    <3>3. Before(k)' = Before(k)
      BY <2>1, <3>2 DEF Before
    <3>4. IsPrefix(Before(k), Words(k))
      BY <1>0, <3>1 DEF Speech, n
    <3> QED
      BY <2>2, <3>3, <3>4
  <2> QED
    BY <2>3, <2>4
<1>13. Latest' \o todo' = Words(Len(traps))'
  <2>1. Len(traps)' = n + 1
    BY <1>4
  <2>2. Latest' = SubSeq(written, Len(written) + 1, Len(written))
    BY <1>4, <2>1 DEF Latest
  <2>3. Latest' = << >>
    BY <1>9, <2>2, SubSeqEmpty
  <2>4. Words(Len(traps))' = m
    BY <1>4, <2>1 DEF Words, m
  <2> QED
    BY <1>1, <1>2, <2>3, <2>4, ConcatFacts
<1>14. Speech'
  BY <1>0, <1>3, <1>4, <1>11, <1>12, <1>13 DEF Speech
<1> QED
  BY <1>6, <1>7, <1>8, <1>10, <1>14 DEF KInv

(* Before lidt an NMI is the end.                                          *)
LEMMA NmiKills ==
  ASSUME KInv, ~idtr, status # "crashed", Raise(INT_NMI, "crashed"), UNCHANGED driver,
         UNCHANGED << device, firmware, kpc, said, gdt, idt, idtr, iflag, pool, granted, mem >>
  PROVE  KInv'
<1>0. IInv /\ Plain /\ Progress /\ Trapped /\ Speech /\ Pages /\ SerialTypeOK
  BY DEF KInv, IInv
<1>1. /\ UNCHANGED << kind, regs, thr, rx, wire, arrived, past >>
      /\ UNCHANGED << at, step, todo, code, call, written, got >>
  BY DEF device, driver
<1>2. IInv'
  <2>1. UNCHANGED serialVars
    BY <1>1 DEF serialVars, device, driver
  <2> QED
    BY <1>0, <2>1, StepKeeps
<1>3. Plain' /\ Progress' /\ Pages'
  BY <1>0, <1>1, PlainStays, ProgressStays, PagesStay
<1>4. traps = << >> /\ Len(traps) = 0
  <2>1. traps = << >>
    BY <1>0 DEF Trapped
  <2> QED
    BY <2>1, EmptySeq
<1>5. status' = "crashed" /\ traps' = Append(traps, [vector |-> INT_NMI, at |-> Len(written)])
  BY DEF Raise
<1>6. /\ traps' \in Seq([vector : Caught, at : Nat]) /\ traps' # << >>
      /\ Len(traps') = 1 /\ traps'[1].vector = INT_NMI /\ traps'[1].at = Len(written)
  <2>1. /\ traps' \in Seq([vector : Caught, at : Nat]) /\ traps' # << >>
        /\ Len(traps') = Len(traps) + 1
        /\ traps'[Len(traps) + 1].vector = INT_NMI /\ traps'[Len(traps) + 1].at = Len(written)
    <3>1. INT_NMI \in Caught
      BY DEF Caught
    <3> QED
      BY <1>0, <1>5, <3>1, RaiseFacts
  <2>2. Len(traps) + 1 = 1
    BY <1>4
  <2> QED
    BY <2>1, <2>2
<1>7. Len(written) \in Nat
  BY <1>0, TrapFacts
<1>8. Trapped'
  <2>1. \A k \in 1 .. Len(traps') : traps'[k].at <= Len(written')
    BY <1>1, <1>6, <1>7
  <2>2. \A k \in 1 .. Len(traps') - 1 : traps'[k].at <= traps'[k + 1].at
    BY <1>6
  <2> QED
    BY <1>5, <1>6, <2>1, <2>2 DEF Trapped
<1>9. IsPrefix(SubSeq(written', 1, traps'[1].at), said)
  <2>1. IsPrefix(SubSeq(written, 1, Len(written)), said)
    BY <1>0, <1>4, FirstPart
  <2> QED
    BY <1>1, <1>6, <2>1
<1>10. Speech'
  BY <1>0, <1>5, <1>6, <1>9 DEF Speech
<1> QED
  BY <1>2, <1>3, <1>8, <1>10 DEF KInv

(* An NMI at any time, another exception only with the IDT loaded.         *)
LEMMA TrapKeeps ==
  ASSUME KInv, NEW v \in Caught, Trap(v), v # INT_NMI => idtr, status # "crashed",
         UNCHANGED << device, firmware, kpc, said, gdt, idt, idtr, iflag, pool, granted, mem >>
  PROVE  KInv'
<1>1. Progress
  BY DEF KInv
<1>2. CASE idtr
  <2>1. /\ Raise(v, "handler") /\ Write(Characters(Handler(v).says))
        /\ UNCHANGED << step, code, call, written, got >>
    BY <1>1, <1>2, TrapEffect
  <2> QED
    BY <1>2, <2>1, HandlerStarts
<1>3. CASE ~idtr
  <2>1. Raise(v, "crashed") /\ UNCHANGED driver
    BY <1>1, <1>3, TrapEffect
  <2>2. v = INT_NMI
    BY <1>3
  <2> QED
    BY <1>3, <2>1, <2>2, NmiKills
<1> QED
  BY <1>2, <1>3

LEMMA NmiKeeps ==
  ASSUME KInv, Nmi
  PROVE  KInv'
<1>1. /\ status # "crashed" /\ Trap(INT_NMI)
      /\ UNCHANGED << device, firmware, kpc, said, gdt, idt, idtr, iflag, pool, granted, mem >>
  BY DEF Nmi, Tables, Memory
<1>2. INT_NMI \in Caught
  BY DEF Caught
<1> QED
  BY <1>1, <1>2, TrapKeeps

LEMMA IrqKeeps ==
  ASSUME KInv, Irq
  PROVE  KInv'
<1>1. /\ iflag /\ status # "crashed" /\ Trap(INT_GP)
      /\ UNCHANGED << device, firmware, kpc, said, gdt, idt, idtr, iflag, pool, granted, mem >>
  BY DEF Irq, Tables, Memory
<1>2. INT_GP \in Caught
  BY DEF Caught
<1>3. idtr
  <2>1. kpc \in 0 .. 80 /\ kpc >= 51 /\ (kpc >= 50 => idtr)
    BY <1>1 DEF KInv, Progress
  <2> QED
    BY <2>1
<1> QED
  BY <1>1, <1>2, <1>3, TrapKeeps

LEMMA HandlerHaltsKeeps ==
  ASSUME KInv, HandlerHalts
  PROVE  KInv'
<1>0. IInv /\ Plain /\ Progress /\ Trapped /\ Speech /\ Pages
  BY DEF KInv
<1>1. /\ status \in {"handler", "overflow"} /\ at = "idle" /\ status' = "halted"
      /\ UNCHANGED serialVars
      /\ UNCHANGED << firmware, kpc, traps, said, gdt, idt, idtr, iflag, pool, granted, mem >>
  BY DEF HandlerHalts, Tables, Memory
<1>2. /\ UNCHANGED << kind, regs, thr, rx, wire, arrived, past >>
      /\ UNCHANGED << at, step, todo, code, call, written, got >>
  BY <1>1 DEF serialVars, device, driver
<1>3. IInv' /\ Plain' /\ Progress' /\ Pages'
  BY <1>0, <1>1, <1>2, StepKeeps, PlainStays, ProgressStays, PagesStay
<1>4. Trapped'
  BY <1>0, <1>1, <1>2 DEF Trapped
<1>5. todo = << >> /\ (traps = << >> => Overflown)
  BY <1>0, <1>1 DEF Plain, Trapped, Speech
<1>6. /\ Latest' = Latest /\ Words(Len(traps))' = Words(Len(traps))
      /\ \A k \in 1 .. Len(traps) - 1 : Before(k)' = Before(k) /\ Words(k)' = Words(k)
      /\ Overflown' = Overflown
  BY <1>1, <1>2 DEF Latest, Words, Before, Overflown
<1>7. Speech'
  BY <1>0, <1>1, <1>2, <1>5, <1>6 DEF Speech
<1> QED
  BY <1>3, <1>4, <1>7 DEF KInv

-------------------------------------------------------------------------------
(* The steps of kmain.                                                     *)

LEMMA NowFacts ==
  ASSUME Progress, NEW act, Takes(act)
  PROVE  /\ status = "boot" /\ at \in {"reset", "idle"} /\ kpc \in 0 .. 80
         /\ Script[kpc + 1][1] = act /\ Now[1] = act /\ Now[2] = Script[kpc + 1][2]
         /\ Scheduled(kpc, act, Now[2])
<1>1. status = "boot" /\ at \in {"reset", "idle"} /\ Script[kpc + 1][1] = act
  BY DEF Takes, Now
<1>2. kpc \in 0 .. 80
  BY DEF Progress
<1>3. Scheduled(kpc, Script[kpc + 1][1], Script[kpc + 1][2])
  BY <1>2, Schedule
<1> QED
  BY <1>1, <1>2, <1>3 DEF Now

(* A call that neither says anything nor raises an exception.              *)
LEMMA SilentStep ==
  ASSUME KInv, status = "boot", kpc \in 0 .. 78, kpc' = kpc + 1,
         UNCHANGED << serialVars, firmware, status, traps, said >>
  PROVE  /\ UNCHANGED << at, step, todo, code, call, written, got >>
         /\ IInv' /\ Plain' /\ Trapped' /\ Speech'
<1>0. IInv /\ Plain /\ Progress /\ Trapped /\ Speech
  BY DEF KInv
<1>1. UNCHANGED << at, step, todo, code, call, written, got >>
  BY DEF serialVars, driver
<1>2. IInv'
  BY <1>0, StepKeeps
<1>3. Plain'
  BY <1>0, <1>1, PlainStays
<1>4. Speech'
  BY <1>0, <1>1, SpeechMoves
<1>5. Trapped'
  <2>1. traps = << >>
    BY <1>0 DEF Trapped
  <2> QED
    BY <1>0, <1>1, <2>1 DEF Trapped
<1> QED
  BY <1>1, <1>2, <1>3, <1>4, <1>5

LEMMA QuietStep ==
  ASSUME KInv, status = "boot", NEW act,
         act \in {"verify", "segments", "serial_init", "use", "init_acpi"},
         Script[kpc + 1][1] = act, Scheduled(kpc, act, Now[2]), kpc' = kpc + 1,
         act = "verify" => firmware.supported, act = "serial_init" => code # -1,
         UNCHANGED << serialVars, firmware, status, traps, said, gdt, idt, idtr, iflag,
                      pool, granted, mem >>
  PROVE  KInv'
<1>0. Progress /\ Pages
  BY DEF KInv
<1>1. /\ kpc \in {0, 6, 7, 72} \/ (kpc \in 52 .. 78 /\ kpc \notin Marked)
      /\ kpc = 0 => act = "verify"
      /\ kpc = 7 => act = "serial_init"
  BY DEF Scheduled, Marked
<1>2. /\ kpc \in 0 .. 78 /\ kpc \in 0 .. 79
      /\ kpc \notin {59, 63, 68, 69} /\ kpc \notin 1 .. 5 /\ kpc \notin {49, 50}
  BY <1>1 DEF Marked
<1>3. \A j \in 1 .. 20 : kpc # 8 + (2 * j)
  <2>1. kpc \in {0, 6, 7} \/ kpc >= 52
    BY <1>1
  <2> QED
    BY <1>2, <2>1
<1>4. /\ UNCHANGED code
      /\ IInv' /\ Plain' /\ Trapped' /\ Speech'
  BY <1>2, SilentStep
<1>5. Progress'
  BY <1>0, <1>1, <1>2, <1>3, <1>4, ProgressMoves
<1>6. Pages'
  BY <1>0, <1>2, PagesMove
<1> QED
  BY <1>4, <1>5, <1>6 DEF KInv

LEMMA VerifyRevisionKeeps ==
  ASSUME KInv, VerifyRevision
  PROVE  KInv'
<1>0. IInv /\ Plain /\ Progress /\ Trapped /\ Speech /\ Pages
  BY DEF KInv
<1>1. /\ status = "boot" /\ at \in {"reset", "idle"} /\ Script[kpc + 1][1] = "verify"
      /\ Scheduled(kpc, "verify", Now[2])
  BY <1>0, NowFacts DEF VerifyRevision
<1>2. UNCHANGED << serialVars, firmware, traps, said, gdt, idt, idtr, iflag, pool, granted, mem >>
  BY DEF VerifyRevision, Tables, Memory
<1>3. CASE firmware.supported
  <2>1. kpc' = kpc + 1 /\ status' = status
    BY <1>3 DEF VerifyRevision, Advance
  <2> QED
    BY <1>1, <1>2, <1>3, <2>1, QuietStep
<1>4. CASE ~firmware.supported
  <2>1. kpc' = kpc /\ status' = "halted"
    BY <1>4 DEF VerifyRevision
  <2>2. UNCHANGED << at, step, todo, code, call, written, got >>
    BY <1>2 DEF serialVars, driver
  <2>3. IInv' /\ Plain' /\ Progress' /\ Pages'
    BY <1>0, <1>2, <2>1, <2>2, StepKeeps, PlainStays, ProgressStays, PagesStay
  <2>4. traps = << >> /\ Len(traps) = 0
    BY <1>0, <1>1, EmptySeq DEF Trapped
  <2>5. Trapped'
    BY <1>0, <1>2, <2>1, <2>2, <2>4 DEF Trapped
  <2>6. todo = << >>
    BY <1>0, <1>1 DEF Plain
  <2>7. Speech'
    <3>1. written' \o todo' = said'
      BY <1>0, <1>2, <2>2, <2>4 DEF Speech
    <3> QED
      BY <1>0, <1>2, <1>4, <2>1, <2>2, <2>4, <2>6, <3>1 DEF Speech
  <2> QED
    BY <2>3, <2>5, <2>7 DEF KInv
<1> QED
  BY <1>3, <1>4

LEMMA SetGdtEntryKeeps ==
  ASSUME KInv, SetGdtEntry
  PROVE  KInv'
<1>0. Progress /\ Pages
  BY DEF KInv
<1>1. /\ status = "boot" /\ Script[kpc + 1][1] = "set_gdt_entry" /\ kpc \in 1 .. 5
      /\ Now[2] = kpc
  BY <1>0, NowFacts DEF SetGdtEntry, Scheduled
<1>2. /\ gdt' = [gdt EXCEPT ![kpc] = GdtEntries[kpc]] /\ kpc' = kpc + 1
      /\ UNCHANGED << serialVars, firmware, status, traps, said, idt, idtr, iflag,
                      pool, granted, mem >>
  BY <1>1 DEF SetGdtEntry, Advance, Memory
<1>3. /\ UNCHANGED code /\ IInv' /\ Plain' /\ Trapped' /\ Speech'
  <2>1. kpc \in 0 .. 78
    BY <1>1
  <2> QED
    BY <1>1, <1>2, <2>1, SilentStep
<1>4. Pages'
  <2>1. kpc \in 0 .. 79 /\ kpc \notin {59, 63, 68, 69}
    BY <1>1
  <2> QED
    BY <1>0, <1>2, <2>1, PagesMove
<1>5. Progress'
  <2>1. gdt = [i \in 1 .. 5 |-> IF kpc >= i + 1 THEN GdtEntries[i] ELSE << 0, 0 >>]
    BY <1>0 DEF Progress
  <2>2. gdt' = [i \in 1 .. 5 |-> IF kpc' >= i + 1 THEN GdtEntries[i] ELSE << 0, 0 >>]
    <3>1. \A i \in 1 .. 5 : kpc' >= i + 1 <=> kpc >= i + 1 \/ i = kpc
      BY <1>1, <1>2
    <3>2. gdt' = [i \in 1 .. 5 |-> IF i = kpc THEN GdtEntries[kpc] ELSE gdt[i]]
      BY <1>2, <2>1
    <3>3. \A i \in 1 .. 5 : gdt[i] = IF kpc >= i + 1 THEN GdtEntries[i] ELSE << 0, 0 >>
      BY <2>1
    <3>4. \A i \in 1 .. 5 : (IF i = kpc THEN GdtEntries[kpc] ELSE gdt[i])
                              = IF kpc' >= i + 1 THEN GdtEntries[i] ELSE << 0, 0 >>
      BY <3>1, <3>3
    <3> QED
      BY <3>2, <3>4
  <2>3. idt' = [v \in 0 .. 255 |-> IF \E j \in 1 .. 20 : Vectors[j] = v /\ kpc' >= 9 + (2 * j)
                                     THEN << Handler(v) >> ELSE << >>]
    <3>1. \A j \in 1 .. 20 : kpc' >= 9 + (2 * j) <=> kpc >= 9 + (2 * j)
      BY <1>1, <1>2
    <3> QED
      BY <1>0, <1>2, <3>1 DEF Progress
  <2>4. /\ kpc' \in 0 .. 80 /\ firmware'.supported /\ ~(kpc' >= 8)
        /\ ~(kpc >= 50) /\ ~(kpc' >= 50) /\ ~(kpc >= 51) /\ ~(kpc' >= 51)
    <3>1. kpc' \in 2 .. 6
      BY <1>1, <1>2
    <3>2. firmware.supported
      <4>1. kpc >= 1 => firmware.supported
        BY <1>0 DEF Progress
      <4> QED
        BY <1>1, <4>1
    <3> QED
      BY <1>1, <1>2, <3>1, <3>2
  <2>5. /\ idtr' \in BOOLEAN /\ (idtr' <=> kpc' >= 50)
        /\ iflag' \in BOOLEAN /\ (iflag' <=> kpc' >= 51)
    BY <1>0, <1>2, <2>4 DEF Progress
  <2> QED
    BY <1>0, <1>2, <2>2, <2>3, <2>4, <2>5 DEF Progress
<1> QED
  BY <1>3, <1>4, <1>5 DEF KInv

LEMMA LoadSegmentsKeeps ==
  ASSUME KInv, LoadSegments
  PROVE  KInv'
<1>0. Progress
  BY DEF KInv
<1>1. /\ status = "boot" /\ Script[kpc + 1][1] = "segments" /\ Scheduled(kpc, "segments", Now[2])
  BY <1>0, NowFacts DEF LoadSegments
<1>2. kpc >= 6
  <2>1. kpc = 6
    BY <1>1 DEF Scheduled
  <2> QED
    BY <2>1
<1>3. /\ LongCode(Descriptor(GDT_KERNEL_CODE)) /\ Ring(Descriptor(GDT_KERNEL_CODE)) = 0
      /\ WritableData(Descriptor(16)) /\ Ring(Descriptor(16)) = 0
  BY <1>0, <1>2, TheDescriptors, CodeIsLong, DataIsWritable
<1>4. /\ kpc' = kpc + 1
      /\ UNCHANGED << serialVars, firmware, status, traps, said, gdt, idt, idtr, iflag,
                      pool, granted, mem >>
  BY <1>3 DEF LoadSegments, Advance, Tables, Memory
<1> QED
  BY <1>1, <1>4, QuietStep

LEMMA SerialInitializedKeeps ==
  ASSUME KInv, SerialInitialized
  PROVE  KInv'
<1>0. Progress /\ Control
  BY DEF KInv, IInv
<1>1. /\ status = "boot" /\ Script[kpc + 1][1] = "serial_init"
      /\ Scheduled(kpc, "serial_init", Now[2])
  BY <1>0, NowFacts DEF SerialInitialized
<1>2. code # -1
  BY <1>0 DEF Control, SerialInitialized
<1>3. /\ kpc' = kpc + 1
      /\ UNCHANGED << serialVars, firmware, status, traps, said, gdt, idt, idtr, iflag,
                      pool, granted, mem >>
  BY DEF SerialInitialized, Advance, Tables, Memory
<1> QED
  BY <1>1, <1>2, <1>3, QuietStep

(* The start of a message.                                                 *)
LEMMA SpeakStarts ==
  ASSUME KInv, status = "boot", at = "idle", NEW m, Characters(m) \in Seq(Byte), Speak(m),
         UNCHANGED << device, step, code, call, written, got, traps >>
  PROVE  /\ IInv' /\ Plain' /\ traps = << >> /\ traps' = << >> /\ Len(traps') = 0
         /\ said' \in Seq(Byte) /\ written' \o todo' = said'
         /\ IsSuffix(Characters(m), said')
<1> DEFINE s == Characters(m)
<1>0. IInv /\ Plain /\ Trapped /\ Speech /\ SerialTypeOK /\ Control
  BY DEF KInv, IInv
<1>1. todo' = s /\ at' = (IF s = << >> THEN "idle" ELSE "poll") /\ said' = said \o s
  BY DEF Speak, Write
<1>2. s \in Seq(Byte)
  OBVIOUS
<1> HIDE DEF s
<1>3. UNCHANGED << kind, regs, thr, rx, wire, arrived, past >>
  BY DEF device
<1>4. IInv'
  <2>1. SerialTypeOK'
    BY <1>0, <1>1, <1>2, <1>3 DEF SerialTypeOK
  <2>2. Polled'
    BY <1>1 DEF Polled
  <2>3. at \notin {"reset", "enable"} /\ at' \notin {"reset", "enable"}
    BY <1>1
  <2> QED
    BY <1>0, <2>1, <2>2, <2>3, MovesKeep
<1>5. Plain'
  BY <1>0, <1>1 DEF Plain
<1>6. traps = << >> /\ traps' = << >> /\ Len(traps') = 0
  BY <1>0, EmptySeq DEF Trapped
<1>7. said \in Seq(Byte) /\ written = said
  <2>1. todo = << >> /\ written \o todo = said /\ said \in Seq(Byte)
    BY <1>0, <1>6 DEF Plain, Speech
  <2>2. written \o << >> = written
    BY <1>0, ConcatFacts DEF SerialTypeOK
  <2> QED
    BY <2>1, <2>2
<1>8. said' \in Seq(Byte) /\ IsSuffix(s, said')
  BY <1>1, <1>2, <1>7, ConcatFacts, SuffixFacts
<1> QED
  BY <1>1, <1>4, <1>5, <1>6, <1>7, <1>8 DEF s

LEMMA SayKeeps ==
  ASSUME KInv, Say
  PROVE  KInv'
<1>0. IInv /\ Plain /\ Progress /\ Trapped /\ Speech /\ Pages
  BY DEF KInv
<1> DEFINE m == Now[2]
<1>1. /\ status = "boot" /\ kpc \in 0 .. 80 /\ Script[kpc + 1][1] = "say"
      /\ m = Script[kpc + 1][2] /\ Scheduled(kpc, "say", m)
  BY <1>0, NowFacts DEF Say
<1>2. /\ kpc \in 8 .. 79 /\ kpc \notin {49, 50} /\ kpc \notin {59, 63, 68, 69}
      /\ kpc = 79 => m = Hello
      /\ \A j \in 1 .. 20 : kpc # 8 + (2 * j)
  <2>1. /\ (kpc \in 8 .. 78 /\ kpc \notin Marked) \/ (kpc = 79 /\ m = Hello)
        /\ \A j \in 1 .. 20 : kpc # 8 + (2 * j)
    BY <1>1 DEF Scheduled
  <2> QED
    BY <2>1 DEF Marked
<1>3. /\ at = "idle" /\ Speak(m) /\ kpc' = kpc + 1
      /\ UNCHANGED << device, step, code, call, written, got >>
      /\ UNCHANGED << firmware, status, traps, gdt, idt, idtr, iflag, pool, granted, mem >>
  BY DEF Say, Advance, Tables, Memory
<1>4. Characters(m) \in Seq(Byte)
  <2>1. kpc + 1 \in 1 .. 81
    BY <1>1
  <2> QED
    BY <1>1, <2>1, TheMessages
<1> HIDE DEF m
<1>5. /\ IInv' /\ Plain' /\ traps = << >> /\ traps' = << >> /\ Len(traps') = 0
      /\ said' \in Seq(Byte) /\ written' \o todo' = said'
      /\ IsSuffix(Characters(m), said')
  BY <1>1, <1>3, <1>4, SpeakStarts
<1>6. kpc \in 0 .. 79 /\ kpc \notin 1 .. 5 /\ kpc # 0 /\ kpc # 7
  BY <1>2
<1>7. Progress'
  BY <1>0, <1>2, <1>3, <1>6, ProgressMoves
<1>8. Pages'
  BY <1>0, <1>2, <1>3, <1>6, PagesMove
<1>9. Trapped'
  BY <1>0, <1>3, TrappedStays
<1>10. kpc' = 80 => IsSuffix(Characters(Hello), said')
  BY <1>2, <1>3, <1>5
<1>11. Speech'
  BY <1>1, <1>3, <1>5, <1>10 DEF Speech
<1> QED
  BY <1>5, <1>7, <1>8, <1>9, <1>11 DEF KInv

LEMMA SetIsrKeeps ==
  ASSUME KInv, SetIsr
  PROVE  KInv'
<1>0. Progress /\ Pages
  BY DEF KInv
<1>1. /\ status = "boot" /\ Script[kpc + 1][1] = "set_isr" /\ kpc \in 0 .. 80
      /\ Scheduled(kpc, "set_isr", Now[2])
  BY <1>0, NowFacts DEF SetIsr
<1>2. PICK n \in 1 .. 20 : kpc = 8 + (2 * n) /\ Now[2] = Vectors[n]
  BY <1>1 DEF Scheduled
<1> DEFINE w == Vectors[n]
<1>3. /\ idt' = [idt EXCEPT ![w] = << Handler(w) >>] /\ kpc' = kpc + 1
      /\ UNCHANGED << serialVars, firmware, status, traps, said, gdt, idtr, iflag,
                      pool, granted, mem >>
  BY <1>2 DEF SetIsr, Advance, Memory
<1>4. w \in 0 .. 255
  <2>1. w \in 0 .. 21
    BY TheVectors
  <2> QED
    BY <2>1
<1> HIDE DEF w
<1>5. /\ kpc \in 0 .. 78 /\ kpc \in 0 .. 79 /\ kpc \notin {59, 63, 68, 69}
      /\ kpc \in 10 .. 48
  BY <1>2
<1>6. /\ UNCHANGED code /\ IInv' /\ Plain' /\ Trapped' /\ Speech'
  BY <1>1, <1>3, <1>5, SilentStep
<1>7. Pages'
  BY <1>0, <1>3, <1>5, PagesMove
<1>8. Progress'
  <2>1. idt = [v \in 0 .. 255 |-> IF \E j \in 1 .. 20 : Vectors[j] = v /\ kpc >= 9 + (2 * j)
                                    THEN << Handler(v) >> ELSE << >>]
    BY <1>0 DEF Progress
  <2>2. \A j \in 1 .. 20 : kpc' >= 9 + (2 * j) <=> kpc >= 9 + (2 * j) \/ j = n
    BY <1>2, <1>3
  <2>3. \A j \in 1 .. 20 : Vectors[j] = w <=> j = n
    BY TheVectors DEF w
  <2>4. ASSUME NEW v \in 0 .. 255
        PROVE  idt'[v] = IF \E j \in 1 .. 20 : Vectors[j] = v /\ kpc' >= 9 + (2 * j)
                           THEN << Handler(v) >> ELSE << >>
    <3>1. CASE v = w
      <4>1. idt'[v] = << Handler(v) >>
        BY <1>3, <1>4, <2>1, <3>1
      <4>2. Vectors[n] = v /\ kpc' >= 9 + (2 * n)
        BY <2>2, <2>3, <3>1
      <4> QED
        BY <4>1, <4>2
    <3>2. CASE v # w
      <4>1. idt'[v] = idt[v]
        BY <1>3, <1>4, <2>1, <3>2
      <4>2. \A j \in 1 .. 20 : Vectors[j] = v => j # n
        BY <2>3, <3>2
      <4>3. (\E j \in 1 .. 20 : Vectors[j] = v /\ kpc' >= 9 + (2 * j))
              <=> \E j \in 1 .. 20 : Vectors[j] = v /\ kpc >= 9 + (2 * j)
        BY <2>2, <4>2
      <4>4. idt[v] = IF \E j \in 1 .. 20 : Vectors[j] = v /\ kpc >= 9 + (2 * j)
                       THEN << Handler(v) >> ELSE << >>
        BY <2>1
      <4> QED
        BY <4>1, <4>3, <4>4, Zenon
    <3> QED
      BY <3>1, <3>2
  <2>5. idt' = [v \in 0 .. 255 |-> idt'[v]]
    BY <1>3, <2>1
  <2>6. idt' = [v \in 0 .. 255 |-> IF \E j \in 1 .. 20 : Vectors[j] = v /\ kpc' >= 9 + (2 * j)
                                     THEN << Handler(v) >> ELSE << >>]
    BY <2>4, <2>5
  <2>7. gdt' = [i \in 1 .. 5 |-> IF kpc' >= i + 1 THEN GdtEntries[i] ELSE << 0, 0 >>]
    <3>1. \A i \in 1 .. 5 : kpc' >= i + 1 <=> kpc >= i + 1
      BY <1>3, <1>5
    <3> QED
      BY <1>0, <1>3, <3>1 DEF Progress
  <2>8. kpc' \in 0 .. 80 /\ kpc >= 1 /\ kpc >= 8
        /\ ~(kpc >= 50) /\ ~(kpc' >= 50) /\ ~(kpc >= 51) /\ ~(kpc' >= 51)
    BY <1>3, <1>5
  <2>9. firmware.supported /\ code # -1
    BY <1>0, <2>8 DEF Progress
  <2>10. /\ idtr' \in BOOLEAN /\ (idtr' <=> kpc' >= 50)
         /\ iflag' \in BOOLEAN /\ (iflag' <=> kpc' >= 51)
    BY <1>0, <1>3, <2>8 DEF Progress
  <2>11. firmware' \in Firmwares
    BY <1>0, <1>3 DEF Progress
  <2> QED
    BY <1>3, <1>6, <2>6, <2>7, <2>8, <2>9, <2>10, <2>11 DEF Progress
<1> QED
  BY <1>6, <1>7, <1>8 DEF KInv

(* The last two steps of init_interrupts. *)
LEMMA TablesKept ==
  ASSUME Progress, kpc \in {49, 50}, kpc' = kpc + 1, UNCHANGED << firmware, gdt, idt, code >>,
         idtr' = TRUE, iflag' \in BOOLEAN, iflag' <=> kpc = 50
  PROVE  Progress'
<1>1. /\ kpc' \in {50, 51} /\ kpc' \in 0 .. 80 /\ kpc >= 1 /\ kpc >= 8 /\ kpc' >= 50
      /\ kpc' >= 51 <=> kpc = 50
  OBVIOUS
<1>2. gdt' = [i \in 1 .. 5 |-> IF kpc' >= i + 1 THEN GdtEntries[i] ELSE << 0, 0 >>]
  <2>1. \A i \in 1 .. 5 : kpc' >= i + 1 <=> kpc >= i + 1
    BY <1>1
  <2> QED
    BY <2>1 DEF Progress
<1>3. idt' = [v \in 0 .. 255 |-> IF \E j \in 1 .. 20 : Vectors[j] = v /\ kpc' >= 9 + (2 * j)
                                   THEN << Handler(v) >> ELSE << >>]
  <2>1. \A j \in 1 .. 20 : kpc' >= 9 + (2 * j) <=> kpc >= 9 + (2 * j)
    BY <1>1
  <2> QED
    BY <2>1 DEF Progress
<1>4. firmware' \in Firmwares /\ firmware'.supported /\ code' # -1
  BY <1>1 DEF Progress
<1>5. idtr' \in BOOLEAN /\ (idtr' <=> kpc' >= 50)
  BY <1>1
<1> QED
  BY <1>1, <1>2, <1>3, <1>4, <1>5 DEF Progress

LEMMA LoadIdtKeeps ==
  ASSUME KInv, LoadIdt
  PROVE  KInv'
<1>0. Progress /\ Pages
  BY DEF KInv
<1>1. status = "boot" /\ kpc = 49
  BY <1>0, NowFacts DEF LoadIdt, Scheduled
<1>2. /\ idtr' = TRUE /\ kpc' = kpc + 1
      /\ UNCHANGED << serialVars, firmware, status, traps, said, gdt, idt, iflag,
                      pool, granted, mem >>
  BY DEF LoadIdt, Advance, Memory
<1>3. kpc \in 0 .. 78 /\ kpc \in 0 .. 79 /\ kpc \notin {59, 63, 68, 69} /\ ~(kpc >= 51)
  BY <1>1
<1>4. /\ UNCHANGED code /\ IInv' /\ Plain' /\ Trapped' /\ Speech'
  BY <1>1, <1>2, <1>3, SilentStep
<1>5. Pages'
  BY <1>0, <1>2, <1>3, PagesMove
<1>6. Progress'
  <2>1. iflag' \in BOOLEAN /\ (iflag' <=> kpc = 50)
    <3>1. iflag \in BOOLEAN /\ (iflag <=> kpc >= 51)
      BY <1>0 DEF Progress
    <3>2. kpc # 50
      BY <1>1
    <3>3. iflag' = iflag
      BY <1>2
    <3> QED
      BY <1>3, <3>1, <3>2, <3>3, Zenon
  <2> QED
    BY <1>0, <1>1, <1>2, <1>4, <2>1, TablesKept
<1> QED
  BY <1>4, <1>5, <1>6 DEF KInv

LEMMA StiKeeps ==
  ASSUME KInv, Sti
  PROVE  KInv'
<1>0. Progress /\ Pages
  BY DEF KInv
<1>1. status = "boot" /\ kpc = 50
  BY <1>0, NowFacts DEF Sti, Scheduled
<1>2. /\ iflag' = TRUE /\ kpc' = kpc + 1
      /\ UNCHANGED << serialVars, firmware, status, traps, said, gdt, idt, idtr,
                      pool, granted, mem >>
  BY DEF Sti, Advance, Memory
<1>3. kpc \in 0 .. 78 /\ kpc \in 0 .. 79 /\ kpc \notin {59, 63, 68, 69} /\ kpc >= 50
  BY <1>1
<1>4. /\ UNCHANGED code /\ IInv' /\ Plain' /\ Trapped' /\ Speech'
  BY <1>1, <1>2, <1>3, SilentStep
<1>5. Pages'
  BY <1>0, <1>2, <1>3, PagesMove
<1>6. Progress'
  <2>1. idtr' = TRUE
    BY <1>0, <1>2, <1>3 DEF Progress
  <2>2. iflag' \in BOOLEAN /\ (iflag' <=> kpc = 50)
    BY <1>1, <1>2
  <2> QED
    BY <1>0, <1>1, <1>2, <1>4, <2>1, <2>2, TablesKept
<1> QED
  BY <1>4, <1>5, <1>6 DEF KInv

(* An exception in Work, with the step of kmain still to be taken.         *)
LEMMA FaultKeeps ==
  ASSUME KInv, status = "boot", kpc \in 50 .. 80, NEW v \in {INT_GP, INT_PF}, Faults(v),
         UNCHANGED << device, firmware, said, gdt, idt, idtr, iflag, pool, granted, mem >>
  PROVE  KInv'
<1>1. idtr
  <2>1. kpc >= 50
    OBVIOUS
  <2> QED
    BY <2>1 DEF KInv, Progress
<1>2. v \in Caught /\ status # "crashed"
  BY DEF Caught
<1>3. kpc' = kpc /\ Trap(v)
  BY DEF Faults
<1> QED
  BY <1>1, <1>2, <1>3, TrapKeeps

LEMMA GoesFacts ==
  ASSUME Goes, UNCHANGED device
  PROVE  kpc' = kpc + 1 /\ UNCHANGED << serialVars, status, traps >>
  BY DEF Goes, Advance, serialVars

LEMMA UseResponseKeeps ==
  ASSUME KInv, UseResponse
  PROVE  KInv'
<1>0. Progress
  BY DEF KInv
<1>1. /\ status = "boot" /\ Script[kpc + 1][1] = "use" /\ Scheduled(kpc, "use", Now[2])
  BY <1>0, NowFacts DEF UseResponse
<1>2. UNCHANGED << device, firmware, said, gdt, idt, idtr, iflag, pool, granted, mem >>
  BY DEF UseResponse, Tables, Memory
<1>3. CASE Now[2] \in firmware.missing
  <2>1. Faults(INT_PF)
    BY <1>3 DEF UseResponse
  <2>2. kpc \in 50 .. 80
    BY <1>1 DEF Scheduled
  <2> QED
    BY <1>1, <1>2, <2>1, <2>2, FaultKeeps
<1>4. CASE Now[2] \notin firmware.missing
  <2>1. kpc' = kpc + 1 /\ UNCHANGED << serialVars, status, traps >>
    BY <1>2, <1>4, GoesFacts DEF UseResponse
  <2> QED
    BY <1>1, <1>2, <2>1, QuietStep
<1> QED
  BY <1>3, <1>4

LEMMA TraceKeeps ==
  ASSUME KInv, Trace
  PROVE  KInv'
<1>0. IInv /\ Plain /\ Progress /\ Trapped /\ Speech /\ Pages
  BY DEF KInv
<1>1. status = "boot" /\ kpc # 80
  BY <1>0, NowFacts DEF Trace, Scheduled
<1>2. /\ at = "idle" /\ Speak("Trace")
      /\ UNCHANGED << device, step, code, call, written, got >>
      /\ UNCHANGED << firmware, kpc, status, traps, gdt, idt, idtr, iflag, pool, granted, mem >>
  BY DEF Trace, Tables, Memory
<1>3. /\ IInv' /\ Plain' /\ traps = << >> /\ traps' = << >> /\ Len(traps') = 0
      /\ said' \in Seq(Byte) /\ written' \o todo' = said'
  BY <1>1, <1>2, TheMessages, SpeakStarts
<1>4. Progress' /\ Trapped' /\ Pages'
  BY <1>0, <1>2, ProgressStays, TrappedStays, PagesStay
<1>5. Speech'
  BY <1>1, <1>2, <1>3 DEF Speech
<1> QED
  BY <1>3, <1>4, <1>5 DEF KInv

LEMMA StackProtKeeps ==
  ASSUME KInv, StackProt
  PROVE  KInv'
<1>0. IInv /\ Plain /\ Progress /\ Trapped /\ Speech /\ Pages
  BY DEF KInv
<1>1. status = "boot" /\ kpc # 80
  BY <1>0, NowFacts DEF StackProt, Scheduled
<1>2. /\ at = "idle" /\ Speak(Overflow) /\ ~firmware.roomy /\ status' = "overflow"
      /\ UNCHANGED << device, step, code, call, written, got >>
      /\ UNCHANGED << firmware, kpc, traps, gdt, idt, idtr, iflag, pool, granted, mem >>
  BY DEF StackProt, Tables, Memory
<1>3. /\ IInv' /\ Plain' /\ traps = << >> /\ traps' = << >> /\ Len(traps') = 0
      /\ said' \in Seq(Byte) /\ written' \o todo' = said'
      /\ IsSuffix(Characters(Overflow), said')
  BY <1>1, <1>2, TheMessages, SpeakStarts
<1>4. Progress' /\ Pages'
  BY <1>0, <1>2, ProgressStays, PagesStay
<1>5. Trapped'
  BY <1>0, <1>2, <1>3 DEF Trapped
<1>6. Overflown'
  BY <1>2, <1>3 DEF Overflown
<1>7. Speech'
  BY <1>1, <1>2, <1>3, <1>6 DEF Speech
<1> QED
  BY <1>3, <1>4, <1>5, <1>7 DEF KInv

LEMMA GrowFaultKeeps ==
  ASSUME KInv, GrowFault
  PROVE  KInv'
<1>1. Progress
  BY DEF KInv
<1>2. status = "boot" /\ kpc \in {56, 59, 63}
  BY <1>1, NowFacts DEF GrowFault, Scheduled
<1>3. /\ Faults(INT_PF)
      /\ UNCHANGED << device, firmware, said, gdt, idt, idtr, iflag, pool, granted, mem >>
  BY DEF GrowFault, Tables, Memory
<1>4. kpc \in 50 .. 80
  BY <1>2
<1> QED
  BY <1>2, <1>3, <1>4, FaultKeeps

(* A step of Work that leaves the tables alone and says nothing. *)
LEMMA WorkStep ==
  ASSUME KInv, status = "boot", kpc \in 52 .. 78, kpc' = kpc + 1,
         UNCHANGED << serialVars, firmware, status, traps, said, gdt, idt, idtr, iflag >>
  PROVE  IInv' /\ Plain' /\ Progress' /\ Trapped' /\ Speech'
<1>1. /\ kpc \in 0 .. 78 /\ kpc \in 0 .. 79 /\ kpc \notin 1 .. 5 /\ kpc \notin {49, 50}
      /\ kpc # 0 /\ kpc # 7 /\ \A j \in 1 .. 20 : kpc # 8 + (2 * j)
  OBVIOUS
<1>2. UNCHANGED code /\ IInv' /\ Plain' /\ Trapped' /\ Speech'
  BY <1>1, SilentStep
<1>3. Progress'
  <2>1. Progress
    BY DEF KInv
  <2> QED
    BY <1>1, <1>2, <2>1, ProgressMoves
<1> QED
  BY <1>2, <1>3

LEMMA InitPhysKeeps ==
  ASSUME KInv, InitPhys
  PROVE  KInv'
<1>0. Progress /\ Pages
  BY DEF KInv
<1>1. status = "boot" /\ kpc = 56
  BY <1>0, NowFacts DEF InitPhys, Scheduled
<1>2. UNCHANGED << device, firmware, said, gdt, idt, idtr, iflag, granted, mem >>
  BY DEF InitPhys, Tables
<1>3. CASE "memmap" \in firmware.missing
  <2>1. Faults(INT_PF) /\ pool' = pool /\ kpc \in 50 .. 80
    BY <1>1, <1>3 DEF InitPhys
  <2> QED
    BY <1>1, <1>2, <2>1, FaultKeeps
<1>4. CASE "memmap" \notin firmware.missing
  <2>1. PICK t \in Takings : pool' = pool \cup t
    BY <1>4 DEF InitPhys
  <2>2. kpc' = kpc + 1 /\ UNCHANGED << serialVars, status, traps >> /\ kpc \in 52 .. 78
    BY <1>1, <1>2, <1>4, GoesFacts DEF InitPhys
  <2>3. pool' \subseteq firmware.usable
    BY <1>0, <2>1 DEF Pages, Takings, free
  <2>4. /\ kpc < 60 /\ kpc' < 60 /\ ~(kpc' >= 69) /\ ~(kpc' >= 70) /\ ~(0 = 2) /\ 1 .. 0 = {}
    BY <1>1, <2>2
  <2>5. Len(granted) = 0
    BY <1>0, <2>4 DEF Pages
  <2>6. Pages'
    BY <1>0, <1>2, <2>3, <2>4, <2>5 DEF Pages
  <2> QED
    BY <1>1, <1>2, <2>2, <2>6, WorkStep DEF KInv
<1> QED
  BY <1>3, <1>4

(* palloc grants a page that is usable and that nobody has yet, or 0.      *)
LEMMA PallocFacts ==
  ASSUME Progress, Pages, NEW t \in Takings, NEW p \in Palloc(t)
  PROVE  /\ p \in firmware.usable \cup {0} /\ p \notin pool \cup t
         /\ t \subseteq firmware.usable
         /\ p # 0 => \A i \in 1 .. Len(granted) : granted[i] # p
         /\ \A i \in 1 .. Len(granted) : granted[i] \notin t
<1>1. 0 \notin firmware.usable
  <2>1. firmware \in Firmwares
    BY DEF Progress
  <2>2. firmware.usable \in SUBSET (Nat \ {0})
    BY <2>1, KernelAssumption
  <2> QED
    BY <2>2
<1>2. pool \subseteq firmware.usable /\ t \subseteq free
  BY DEF Pages, Takings
<1>3. ASSUME NEW i \in 1 .. Len(granted) PROVE granted[i] \in ToSet(granted)
  <2>1. granted \in Seq(firmware.usable \cup {0})
    BY DEF Pages
  <2>2. DOMAIN granted = 1 .. Len(granted)
    BY <2>1, LenProperties
  <2> QED
    BY <2>2 DEF ToSet
<1>4. p = 0 \/ p \in free \ t
  <2>1. CASE free \ t = {}
    BY <2>1 DEF Palloc
  <2>2. CASE free \ t # {}
    BY <2>2 DEF Palloc
  <2> QED
    BY <2>1, <2>2
<1>5. free \subseteq firmware.usable /\ free \cap pool = {}
      /\ \A i \in 1 .. Len(granted) : granted[i] \notin free
  BY <1>3 DEF free
<1> QED
  BY <1>1, <1>2, <1>4, <1>5

LEMMA PvallocKeeps ==
  ASSUME KInv, Pvalloc
  PROVE  KInv'
<1>0. Progress /\ Pages
  BY DEF KInv
<1>1. status = "boot" /\ kpc \in {59, 63}
  BY <1>0, NowFacts DEF Pvalloc, Scheduled
<1>2. UNCHANGED << device, firmware, said, gdt, idt, idtr, iflag, mem >>
  BY DEF Pvalloc, Tables
<1>3. kpc' = kpc + 1 /\ UNCHANGED << serialVars, status, traps >>
  BY <1>2, GoesFacts DEF Pvalloc
<1>40. PICK t \in Takings : \E p \in Palloc(t) :
          pool' = pool \cup t /\ granted' = Append(granted, p)
  BY DEF Pvalloc
<1>4. PICK p \in Palloc(t) : pool' = pool \cup t /\ granted' = Append(granted, p)
  BY <1>40
<1> DEFINE S == firmware.usable \cup {0}
           n == Len(granted)
<1>5. /\ p \in S /\ p \notin pool \cup t /\ t \subseteq firmware.usable
      /\ p # 0 => \A i \in 1 .. n : granted[i] # p
      /\ \A i \in 1 .. n : granted[i] \notin t
  BY <1>0, <1>4, PallocFacts
<1>6. /\ granted \in Seq(S) /\ n = (IF kpc < 60 THEN 0 ELSE IF kpc < 64 THEN 1 ELSE 2)
      /\ pool \subseteq firmware.usable /\ \A i \in 1 .. n : granted[i] \notin pool
      /\ mem \in [firmware.usable -> {0, 250, 236}]
      /\ \A q \in firmware.usable : mem[q] # 0 => \E i \in 1 .. n : granted[i] = q
  BY <1>0 DEF Pages
<1> HIDE DEF S, n
<1>7. n = (IF kpc = 59 THEN 0 ELSE 1) /\ n \in Nat
  BY <1>1, <1>6
<1>8. /\ granted' \in Seq(S) /\ Len(granted') = n + 1
      /\ \A i \in 1 .. n : granted'[i] = granted[i]
      /\ granted'[n + 1] = p
  BY <1>4, <1>5, <1>6, AppendProperties DEF n
<1>9. Len(granted') = IF kpc' < 60 THEN 0 ELSE IF kpc' < 64 THEN 1 ELSE 2
  BY <1>1, <1>3, <1>7, <1>8
<1>10. ~(kpc' >= 69) /\ ~(kpc' >= 70) /\ kpc \in 52 .. 78
  BY <1>1, <1>3
<1>11. Len(granted') = 2 /\ granted'[2] # 0 => granted'[1] # granted'[2]
  <2> SUFFICES ASSUME Len(granted') = 2, granted'[2] # 0 PROVE granted'[1] # granted'[2]
    OBVIOUS
  <2>1. n = 1
    BY <1>7, <1>8
  <2>2. granted'[1] = granted[1] /\ granted'[2] = p /\ 1 \in 1 .. n
    BY <1>8, <2>1
  <2> QED
    BY <1>5, <2>2
<1>12. ASSUME NEW i \in 1 .. Len(granted') PROVE granted'[i] \notin pool'
  <2>1. i \in 1 .. n \/ i = n + 1
    BY <1>7, <1>8
  <2> QED
    BY <1>4, <1>5, <1>6, <1>8, <2>1
<1>13. ASSUME NEW q \in firmware.usable, mem[q] # 0
       PROVE  \E i \in 1 .. Len(granted') : granted'[i] = q
  <2>1. PICK i \in 1 .. n : granted[i] = q
    BY <1>6, <1>13
  <2>2. i \in 1 .. Len(granted') /\ granted'[i] = q
    BY <1>7, <1>8, <2>1
  <2> QED
    BY <2>2
<1>14. pool' \subseteq firmware.usable
  BY <1>4, <1>5, <1>6
<1>15. Pages'
  BY <1>2, <1>6, <1>8, <1>9, <1>10, <1>11, <1>12, <1>13, <1>14 DEF Pages, S
<1> QED
  BY <1>1, <1>2, <1>3, <1>10, <1>15, WorkStep DEF KInv

LEMMA MemsetKeeps ==
  ASSUME KInv, Memset
  PROVE  KInv'
<1>0. Progress /\ Pages
  BY DEF KInv
<1>1. status = "boot" /\ kpc \in {68, 69} /\ Now[2] = kpc - 67
  BY <1>0, NowFacts DEF Memset, Scheduled
<1> DEFINE n == kpc - 67
           page == granted[n]
           fill == << 250, 236 >>[n]
<1>2. UNCHANGED << device, firmware, said, gdt, idt, idtr, iflag, pool, granted >>
  BY DEF Memset, Tables
<1>3. CASE page \notin firmware.usable
  <2>1. mem' = mem /\ Faults(INT_PF) /\ kpc \in 50 .. 80
    BY <1>1, <1>3 DEF Memset
  <2> QED
    BY <1>1, <1>2, <2>1, FaultKeeps
<1>4. CASE page \in firmware.usable
  <2>1. /\ mem' = [mem EXCEPT ![page] = fill] /\ Goes
    BY <1>1, <1>4 DEF Memset
  <2>2. kpc' = kpc + 1 /\ UNCHANGED << serialVars, status, traps >> /\ kpc \in 52 .. 78
    BY <1>1, <1>2, <2>1, GoesFacts
  <2>3. n \in {1, 2} /\ fill \in {250, 236} /\ (n = 1 => fill = 250) /\ (n = 2 => fill = 236)
    BY <1>1
  <2> HIDE DEF fill
  <2>4. page # 0
    <3>1. firmware \in Firmwares
      BY <1>0 DEF Progress
    <3>2. firmware.usable \in SUBSET (Nat \ {0})
      BY <3>1, KernelAssumption
    <3> QED
      BY <1>4, <3>2
  <2>5. Len(granted) = 2
    <3>1. Len(granted) = IF kpc < 60 THEN 0 ELSE IF kpc < 64 THEN 1 ELSE 2
      BY <1>0 DEF Pages
    <3> QED
      BY <1>1, <3>1
  <2>6. IInv' /\ Plain' /\ Progress' /\ Trapped' /\ Speech'
    BY <1>1, <1>2, <2>2, WorkStep
  <2>7. /\ mem \in [firmware.usable -> {0, 250, 236}]
        /\ pool \subseteq firmware.usable /\ granted \in Seq(firmware.usable \cup {0})
        /\ granted[2] # 0 => granted[1] # granted[2]
        /\ \A i \in 1 .. Len(granted) : granted[i] \notin pool
        /\ kpc >= 69 => granted[1] \in firmware.usable /\ mem[granted[1]] = 250
    BY <1>0, <2>5 DEF Pages
  <2>8. mem' \in [firmware.usable -> {0, 250, 236}]
    BY <2>1, <2>3, <2>7
  <2>9. mem'[page] = fill /\ \A q \in firmware.usable : q # page => mem'[q] = mem[q]
    BY <1>4, <2>1, <2>7
  <2>10. ASSUME NEW q \in firmware.usable, mem'[q] # 0
         PROVE  \E i \in 1 .. Len(granted) : granted[i] = q
    <3>1. CASE q = page
      BY <2>3, <2>5, <3>1
    <3>2. CASE q # page
      <4>1. mem[q] # 0
        BY <2>9, <2>10, <3>2
      <4> QED
        BY <1>0, <4>1 DEF Pages
    <3> QED
      BY <3>1, <3>2
  <2>11. ~(kpc' < 60) /\ ~(kpc' < 64) /\ kpc' >= 69 /\ (kpc' >= 70 <=> n = 2) /\ (n = 2 <=> kpc >= 69)
    BY <1>1, <2>2
  <2>12. n = 1 => granted[1] \in firmware.usable /\ mem'[granted[1]] = 250
    BY <1>4, <2>3, <2>9
  <2>13. n = 2 => /\ granted[1] \in firmware.usable /\ mem'[granted[1]] = 250
                  /\ granted[2] \in firmware.usable /\ mem'[granted[2]] = 236
    <3> SUFFICES ASSUME n = 2
                 PROVE  /\ granted[1] \in firmware.usable /\ mem'[granted[1]] = 250
                        /\ granted[2] \in firmware.usable /\ mem'[granted[2]] = 236
      OBVIOUS
    <3>1. page = granted[2]
      OBVIOUS
    <3> HIDE DEF page, n
    <3>2. granted[1] \in firmware.usable /\ mem[granted[1]] = 250 /\ granted[1] # page
      BY <2>4, <2>7, <2>11, <3>1
    <3> QED
      BY <1>4, <2>3, <2>9, <3>1, <3>2
  <2> HIDE DEF page, n
  <2>14. /\ kpc' >= 69 => granted[1] \in firmware.usable /\ mem'[granted[1]] = 250
         /\ kpc' >= 70 => granted[2] \in firmware.usable /\ mem'[granted[2]] = 236
    BY <2>3, <2>11, <2>12, <2>13
  <2>15. Pages'
    BY <1>2, <2>5, <2>7, <2>8, <2>10, <2>11, <2>14 DEF Pages
  <2> QED
    BY <2>6, <2>15 DEF KInv
<1> QED
  BY <1>3, <1>4

LEMMA InitAcpiKeeps ==
  ASSUME KInv, InitAcpi
  PROVE  KInv'
<1>0. IInv /\ Plain /\ Progress /\ Trapped /\ Speech /\ Pages
  BY DEF KInv
<1>1. /\ status = "boot" /\ Script[kpc + 1][1] = "init_acpi"
      /\ Scheduled(kpc, "init_acpi", Now[2]) /\ kpc = 72
  BY <1>0, NowFacts DEF InitAcpi, Scheduled
<1>2. UNCHANGED << device, firmware, said, gdt, idt, idtr, iflag, pool, granted, mem >>
  BY DEF InitAcpi, Tables, Memory
<1>3. \/ \E v \in {INT_GP, INT_PF} : Faults(v)
      \/ Goes
      \/ status' = "looping" /\ UNCHANGED << driver, kpc, traps >>
  BY DEF InitAcpi
<1>4. ASSUME NEW v \in {INT_GP, INT_PF}, Faults(v) PROVE KInv'
  <2>1. kpc \in 50 .. 80
    BY <1>1
  <2> QED
    BY <1>1, <1>2, <1>4, <2>1, FaultKeeps
<1>5. ASSUME Goes PROVE KInv'
  <2>1. kpc' = kpc + 1 /\ UNCHANGED << serialVars, status, traps >>
    BY <1>2, <1>5, GoesFacts
  <2> QED
    BY <1>1, <1>2, <2>1, QuietStep
<1>6. ASSUME status' = "looping", UNCHANGED << driver, kpc, traps >> PROVE KInv'
  <2>1. UNCHANGED serialVars /\ UNCHANGED << at, step, todo, code, call, written, got >>
    BY <1>2, <1>6 DEF serialVars, driver
  <2>2. IInv' /\ Plain' /\ Progress' /\ Pages'
    BY <1>0, <1>2, <1>6, <2>1, StepKeeps, PlainStays, ProgressStays, PagesStay
  <2>3. traps = << >> /\ Len(traps) = 0
    BY <1>0, <1>1, EmptySeq DEF Trapped
  <2>4. Trapped'
    BY <1>0, <1>2, <1>6, <2>1, <2>3 DEF Trapped
  <2>5. written' \o todo' = said' /\ said' \in Seq(Byte)
    BY <1>0, <1>2, <2>1, <2>3 DEF Speech
  <2>6. kpc' # 80
    BY <1>1, <1>6
  <2>7. Speech'
    BY <1>6, <2>3, <2>5, <2>6 DEF Speech
  <2> QED
    BY <2>2, <2>4, <2>7 DEF KInv
<1> QED
  BY <1>3, <1>4, <1>5, <1>6

LEMMA HaltKeeps ==
  ASSUME KInv, Halt
  PROVE  KInv'
<1>0. IInv /\ Plain /\ Progress /\ Trapped /\ Speech /\ Pages
  BY DEF KInv
<1>1. status = "boot" /\ kpc = 80 /\ at \in {"reset", "idle"}
  BY <1>0, NowFacts DEF Halt, Scheduled
<1>2. /\ status' = "halted" /\ UNCHANGED serialVars
      /\ UNCHANGED << firmware, kpc, traps, said, gdt, idt, idtr, iflag, pool, granted, mem >>
  BY DEF Halt, Tables, Memory
<1>3. UNCHANGED << at, step, todo, code, call, written, got >>
  BY <1>2 DEF serialVars, driver
<1>4. IInv' /\ Plain' /\ Progress' /\ Pages'
  BY <1>0, <1>2, <1>3, StepKeeps, PlainStays, ProgressStays, PagesStay
<1>5. traps = << >> /\ Len(traps) = 0 /\ todo = << >>
  BY <1>0, <1>1, EmptySeq DEF Trapped, Plain
<1>6. Trapped'
  BY <1>0, <1>2, <1>3, <1>5 DEF Trapped
<1>7. Speech'
  <2>1. /\ written' \o todo' = said' /\ said' \in Seq(Byte)
        /\ IsSuffix(Characters(Hello), said')
    BY <1>0, <1>1, <1>2, <1>3, <1>5 DEF Speech
  <2> QED
    BY <1>1, <1>2, <1>3, <1>5, <2>1 DEF Speech
<1> QED
  BY <1>4, <1>6, <1>7 DEF KInv

LEMMA KernelStepKeeps ==
  ASSUME KInv, KernelStep
  PROVE  KInv'
  BY VerifyRevisionKeeps, SetGdtEntryKeeps, LoadSegmentsKeeps, SerialInitializedKeeps, SayKeeps,
     SetIsrKeeps, LoadIdtKeeps, StiKeeps, UseResponseKeeps, TraceKeeps, StackProtKeeps,
     GrowFaultKeeps, InitPhysKeeps, PvallocKeeps, MemsetKeeps, InitAcpiKeeps, HaltKeeps,
     HandlerHaltsKeeps DEF KernelStep

LEMMA KernelKeeps == KInv /\ [KernelNext]_vars => KInv'
<1> SUFFICES ASSUME KInv, [KernelNext]_vars PROVE KInv'
  OBVIOUS
<1>1. CASE KernelNext
  BY <1>1, NmiKeeps, IrqKeeps, KernelStepKeeps, DriverStepKeeps, DeviceStepKeeps DEF KernelNext
<1>2. CASE UNCHANGED vars
  <2>0. IInv /\ Plain /\ Progress /\ Trapped /\ Speech /\ Pages
    BY DEF KInv
  <2>1. /\ UNCHANGED serialVars /\ UNCHANGED << at, step, todo, code, call, written, got >>
        /\ UNCHANGED << firmware, kpc, status, traps, said, gdt, idt, idtr, iflag,
                        pool, granted, mem >>
    BY <1>2 DEF vars, kernelVars, progress, Tables, Memory, serialVars, driver
  <2>2. IInv'
    BY <2>0, <2>1, StepKeeps
  <2>3. Plain' /\ Progress' /\ Trapped' /\ Speech' /\ Pages'
    BY <2>0, <2>1, PlainStays, ProgressStays, TrappedStays, SpeechStays, PagesStay
  <2> QED
    BY <2>2, <2>3 DEF KInv
<1> QED
  BY <1>1, <1>2

LEMMA KernelInvariance == KernelSpec => []KInv
  BY KernelInit, KernelKeeps, PTL DEF KernelSpec

-------------------------------------------------------------------------------
(* What the runs check of the kernel.                                      *)

(* Before lidt an NMI, and nothing else, makes the processor give up; from *)
(* then on each vector that kmain has a handler for has it, and it takes   *)
(* an error code if the processor pushes one; no interrupt is let in       *)
(* before.                                                                 *)
THEOREM CrashesEarly == KernelSpec => []CrashesOnlyEarly
<1>1. ASSUME KInv PROVE CrashesOnlyEarly
  <2>0. Progress /\ Trapped
    BY <1>1 DEF KInv
  <2>1. status = "crashed" => ~idtr /\ Last(traps).vector = INT_NMI
    BY <2>0 DEF Trapped, Last
  <2>2. ASSUME idtr, NEW v \in (0 .. 21) \ {9, 15}
        PROVE  idt[v] # << >> /\ (idt[v][1].errorCode <=> v \in PushesErrorCode)
    <3>1. idt[v] = << Handler(v) >>
      BY <2>0, <2>2, TheGates
    <3>2. Handler(v).errorCode <=> v \in {8, 10, 11, 12, 13, 14, 17, 21}
      BY DEF Handler
    <3>3. v \in PushesErrorCode <=> v \in {8, 10, 11, 12, 13, 14, 17, 21}
      BY DEF PushesErrorCode
    <3>4. idt[v] # << >> /\ idt[v][1] = Handler(v)
      BY <3>1
    <3> QED
      BY <3>2, <3>3, <3>4
  <2>3. iflag => idtr
    <3>1. kpc \in 0 .. 80 /\ (iflag => kpc >= 51) /\ (kpc >= 50 => idtr)
      BY <2>0 DEF Progress
    <3> QED
      BY <3>1
  <2> QED
    BY <2>1, <2>2, <2>3 DEF CrashesOnlyEarly
<1> QED
  BY <1>1, KernelInvariance, PTL

(* What comes out is what has been said, as far as kmain has come, and     *)
(* then the words of each exception, whichever two port accesses it struck *)
(* between, and whatever the device.                                       *)
THEOREM LastWordsComplete == KernelSpec => []LastWords
<1>1. ASSUME KInv PROVE LastWords
  <2>0. IInv /\ Plain /\ Progress /\ Trapped /\ Speech /\ SerialTypeOK /\ said \in Seq(Byte)
    BY <1>1 DEF KInv, IInv, Speech
  <2>1. Output = written
    <3>1. CASE code = 0
      <4>1. wire \o thr = past.stray \o written
        BY <2>0, <3>1 DEF IInv, NothingLost
      <4>2. past.stray \in Seq(Byte) /\ written \in Seq(Byte)
        BY <2>0 DEF SerialTypeOK
      <4>3. Own = SubSeq(past.stray \o written, Len(past.stray) + 1, Len(past.stray \o written))
        BY <4>1 DEF Own
      <4>4. Own = written
        BY <4>2, <4>3, RestFacts
      <4> QED
        BY <3>1, <4>4 DEF Output
    <3>2. CASE code # 0
      BY <3>2 DEF Output
    <3> QED
      BY <3>1, <3>2
  <2>2. /\ Len(written) \in Nat /\ Len(traps) \in Nat /\ written \in Seq(Byte)
        /\ traps # << >> <=> Len(traps) >= 1
    BY <2>0, TrapFacts DEF SerialTypeOK
  <2>3. traps = << >> => Part(0) = SubSeq(written, 1, Len(written)) /\ Part(0) = written
    <3> SUFFICES ASSUME traps = << >>
                 PROVE  Part(0) = SubSeq(written, 1, Len(written)) /\ Part(0) = written
      OBVIOUS
    <3>1. Len(traps) = 0
      BY EmptySeq
    <3>2. Part(0) = SubSeq(written, 1, Len(written))
      BY <2>1, <3>1 DEF Part
    <3>3. SubSeq(written, 1, Len(written)) = written
      BY <2>2, SubSeqFull
    <3> QED
      BY <3>2, <3>3
  <2>4. traps # << >> => Part(0) = SubSeq(written, 1, traps[1].at)
    <3>1. traps # << >> => 0 # Len(traps)
      BY <2>2
    <3>2. 0 + 1 = 1
      OBVIOUS
    <3> QED
      BY <2>1, <3>1, <3>2, Zenon DEF Part
  <2>5. ASSUME NEW k \in 1 .. Len(traps) - 1 PROVE Part(k) = Before(k)
    <3>1. k # 0 /\ k # Len(traps)
      BY <2>2
    <3> QED
      BY <2>1, <3>1, Zenon DEF Part, Before
  <2>6. traps # << >> => Part(Len(traps)) = Latest
    <3>1. traps # << >> => Len(traps) # 0
      BY <2>2
    <3> QED
      BY <2>1, <3>1, Zenon DEF Part, Latest
  <2>7. IsPrefix(Part(0), said)
    <3>1. CASE traps = << >>
      BY <2>0, <2>3, <3>1, FirstPart
    <3>2. CASE traps # << >>
      BY <2>0, <2>4, <3>2 DEF Speech
    <3> QED
      BY <3>1, <3>2
  <2>8. traps # << >> => Latest \in Seq(Byte) /\ todo \in Seq(Byte)
    <3> SUFFICES ASSUME traps # << >> PROVE Latest \in Seq(Byte) /\ todo \in Seq(Byte)
      OBVIOUS
    <3>1. traps[Len(traps)].at \in 0 .. Len(written)
      <4>1. Len(traps) \in 1 .. Len(traps)
        BY <2>2
      <4> QED
        BY <2>0, <4>1, TrapFacts
    <3> QED
      BY <2>0, <2>2, <3>1, SubSeqFacts DEF Latest, SerialTypeOK
  <2>9. ASSUME status # "crashed", NEW k \in 1 .. Len(traps) PROVE IsPrefix(Part(k), Words(k))
    <3>1. CASE k = Len(traps)
      <4>1. traps # << >>
        BY <2>2, <3>1
      <4>2. Latest \o todo = Words(k) /\ Part(k) = Latest
        BY <2>0, <2>6, <2>9, <3>1, <4>1 DEF Speech
      <4>3. IsPrefix(Latest, Latest \o todo)
        BY <2>8, <4>1, PrefixFacts
      <4> QED
        BY <4>2, <4>3
    <3>2. CASE k # Len(traps)
      <4>1. k \in 1 .. Len(traps) - 1
        BY <2>2, <3>2
      <4> QED
        BY <2>0, <2>5, <2>9, <4>1 DEF Speech
    <3> QED
      BY <3>1, <3>2
  <2>10. DOMAIN traps = 1 .. Len(traps)
    <3>1. traps \in Seq([vector : Caught, at : Nat])
      BY <2>0 DEF Trapped
    <3> QED
      BY <3>1, LenProperties
  <2>11. status = "halted" /\ traps # << >> => Part(Len(traps)) = Words(Len(traps))
    <3> SUFFICES ASSUME status = "halted", traps # << >>
                 PROVE  Part(Len(traps)) = Words(Len(traps))
      OBVIOUS
    <3>1. Latest \o todo = Words(Len(traps)) /\ todo = << >>
      BY <2>0 DEF Speech
    <3>2. Latest \o << >> = Latest
      BY <2>8, ConcatFacts
    <3> QED
      BY <2>6, <3>1, <3>2
  <2>12. status = "halted" /\ traps = << >> /\ firmware.supported =>
           /\ Part(0) = said
           /\ \/ IsSuffix(Characters(Hello), said)
              \/ ~firmware.roomy /\ IsSuffix(Characters(Overflow), said)
    <3> SUFFICES ASSUME status = "halted", traps = << >>, firmware.supported
                 PROVE  /\ Part(0) = said
                        /\ \/ IsSuffix(Characters(Hello), said)
                           \/ ~firmware.roomy /\ IsSuffix(Characters(Overflow), said)
      OBVIOUS
    <3>1. todo = << >> /\ written \o todo = said
      BY <2>0 DEF Speech
    <3>2. written \o << >> = written
      BY <2>2, ConcatFacts
    <3>3. \/ IsSuffix(Characters(Hello), said)
          \/ ~firmware.roomy /\ IsSuffix(Characters(Overflow), said)
      BY <2>0 DEF Speech, Overflown
    <3> QED
      BY <2>3, <3>1, <3>2, <3>3
  <2>13. status # "crashed" => \A k \in DOMAIN traps : IsPrefix(Part(k), Words(k))
    BY <2>9, <2>10
  <2> QED
    BY <2>7, <2>11, <2>12, <2>13 DEF LastWords
<1> QED
  BY <1>1, KernelInvariance, PTL

(* Only pages that pvalloc has granted, and that the pool has not, are     *)
(* filled, and when kmain has come to its end there are two, with a        *)
(* pattern each.                                                           *)
THEOREM PatternsStayApart == KernelSpec => []PatternsApart
<1>1. ASSUME KInv PROVE PatternsApart
  <2>0. Progress /\ Pages
    BY <1>1 DEF KInv
  <2>1. granted \in Seq(firmware.usable \cup {0}) /\ DOMAIN mem = firmware.usable
    BY <2>0 DEF Pages
  <2>2. DOMAIN granted = 1 .. Len(granted)
    BY <2>1, LenProperties
  <2>3. ASSUME NEW p \in DOMAIN mem, mem[p] # 0
        PROVE  p \in ToSet(granted) \ pool
    <3>1. \E i \in 1 .. Len(granted) : granted[i] = p
      BY <2>0, <2>1, <2>3 DEF Pages
    <3>2. p \notin pool
      BY <2>0, <3>1 DEF Pages
    <3> QED
      BY <2>2, <3>1, <3>2 DEF ToSet
  <2>4. ASSUME kpc + 1 = Len(Script)
        PROVE  mem[granted[1]] = 250 /\ mem[granted[2]] = 236
    <3>1. kpc \in 0 .. 80 /\ kpc + 1 = 81
      BY <2>0, <2>4, Joined DEF Progress
    <3>2. kpc >= 69 /\ kpc >= 70
      BY <3>1
    <3> QED
      BY <2>0, <3>2 DEF Pages
  <2> QED
    BY <2>3, <2>4 DEF PatternsApart
<1> QED
  BY <1>1, KernelInvariance, PTL
===============================================================================
