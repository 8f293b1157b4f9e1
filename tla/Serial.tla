-------------------------------- MODULE Serial --------------------------------
(***************************************************************************)
(* src/drivers/serial.c and the device behind its ports.  The driver polls *)
(* a device that works at a pace of its own: between any two of its port   *)
(* accesses the device may have sent or received a byte, or not.           *)
(***************************************************************************)
EXTENDS Integers, SequencesExt

CONSTANTS
  Byte,         \* what the device sends and receives
  Texts,        \* the strings that are written
  Numbers,      \* the numbers that are written
  Inputs,       \* the bytes that arrive on the line
  Kinds,        \* which devices there may be
  Settings,     \* registers as the bootloader may leave them
  RxSize,       \* bytes that the receive buffer of the device holds
  MaxWritten,   \* bound on the bytes written
  MaxArrived    \* bound on the bytes that arrive early or after serial_init

TestByte == 174   \* 0xae

(* A digit as a character. *)
Char(d) == IF d < 10 THEN 48 + d ELSE 55 + d

(* A "healthy" device sends what it is given; a "stuck" one does not; no   *)
(* device at all ("absent") is read as 0xff.                               *)
ASSUME SerialAssumption ==
  /\ Kinds \subseteq {"healthy", "stuck", "absent"}
  /\ {0, TestByte, 255} \cup {Char(d) : d \in 0 .. 15} \subseteq Byte
  /\ Texts \subseteq Seq(Byte) /\ Numbers \subseteq Nat /\ Inputs \subseteq Byte
  /\ Settings \subseteq [ier : Nat, dll : Nat, dlm : Nat, lcr : Nat, mcr : Nat]
  /\ RxSize \in Nat \ {0} /\ MaxWritten \in Nat /\ MaxArrived \in Nat

VARIABLES
  kind,       \* of the device
  regs,       \* its registers: ier, dll, dlm, lcr, mcr
  thr, rx,    \* the byte it is about to send, if any; the bytes it has received
  wire,       \* what has gone out on the line since the FIFOs were cleared
  at,         \* where the driver is
  step,       \* how many of its writes serial_init has made
  todo,       \* the bytes that the call in progress has still to write
  code,       \* what serial_init has returned, -1 before
  call,       \* the latest call that writes: a number and its base, what is left
              \* of it, and how many bytes had been written before
  written,    \* the bytes written since serial_init
  arrived,    \* those that the device has received since
  past,       \* history: DLAB and ier at the start, the bytes that arrived
              \* early, between the clearing of the FIFOs and loopback, and what
              \* serial_init left in the transmitter (stray) and to be read (held)
  got         \* those that read_serial has returned

device == << kind, regs, thr, rx, wire, arrived, past >>
driver == << at, step, todo, code, call, written, got >>
serialVars == << device, driver >>

(* Bits of the registers: DLAB; loopback; data ready and THR empty.        *)
DlabOn(r) == r.lcr >= 128
LoopOn(r) == (r.mcr \div 16) % 2 = 1
Ready == kind = "absent" \/ rx # << >>
Empty == kind = "absent" \/ thr = << >>

(* port_out_byte to register o of the device. *)
Out(o, data) ==
  /\ regs' = CASE o = 0 /\ DlabOn(regs) -> [regs EXCEPT !.dll = data]
               [] o = 1 /\ DlabOn(regs) -> [regs EXCEPT !.dlm = data]
               [] o = 1 /\ ~DlabOn(regs) -> [regs EXCEPT !.ier = data]
               [] o = 3 -> [regs EXCEPT !.lcr = data]
               [] o = 4 -> [regs EXCEPT !.mcr = data]
               [] OTHER -> regs
  /\ thr' = CASE kind = "absent" -> << >>
              [] kind # "absent" /\ o = 0 /\ ~DlabOn(regs) -> << data >>
              [] kind # "absent" /\ o = 2 -> << >>        \* 0xc7 clears both FIFOs
              [] OTHER -> thr
  /\ rx' = IF o = 2 THEN << >> ELSE rx

(* Whatever the bootloader has left in the device: any registers, a byte   *)
(* on its way out, one that is not yet read.                               *)
InitDevice ==
  /\ kind \in Kinds
  /\ regs \in Settings
  /\ LET one == IF kind = "absent" THEN {} ELSE {<< b >> : b \in Inputs}
     IN thr \in {<< >>} \cup one /\ rx \in {<< >>} \cup one
  /\ wire = << >> /\ arrived = << >>
  /\ past = [dlab |-> DlabOn(regs), ier |-> regs.ier,
             early |-> << >>, stray |-> << >>, held |-> << >>]
InitDriver ==
  /\ at = "reset" /\ step = 0 /\ todo = << >> /\ code = -1
  /\ call = [base |-> 0, n |-> 0, rest |-> 0, from |-> 0]
  /\ written = << >> /\ got = << >>
InitSerial == InitDevice /\ InitDriver

-------------------------------------------------------------------------------
(* The device. *)

Receive(b) ==
  IF Len(rx) < RxSize THEN rx' = Append(rx, b) ELSE rx' = rx

Transmit ==
  /\ kind = "healthy" /\ thr # << >>
  /\ thr' = << >>
  /\ IF LoopOn(regs)
       THEN Receive(thr[1]) /\ wire' = wire
       ELSE wire' = (IF step < 6 THEN wire ELSE wire \o thr) /\ rx' = rx
  /\ UNCHANGED << kind, regs, arrived, past, driver >>

(* A byte arrives on the line, from which loopback cuts the receiver off.  *)
(* One that finds the buffer full might as well not have come.             *)
Arrive(b) ==
  /\ kind # "absent" /\ ~LoopOn(regs) /\ Len(rx) < RxSize
  /\ Len(past.early) + Len(arrived) < MaxArrived
  /\ rx' = Append(rx, b)
  /\ arrived' = IF code = 0 THEN Append(arrived, b) ELSE arrived
  /\ past' = IF step \in 6 .. 8 THEN [past EXCEPT !.early = rx'] ELSE past
  /\ UNCHANGED << kind, regs, thr, wire, driver >>

-------------------------------------------------------------------------------
(* The driver. *)

InitWrites_LoopLast ==
  << << 1, 0 >>, << 3, 128 >>, << 0, 3 >>, << 1, 0 >>, << 3, 3 >>, << 2, 199 >>,
     << 4, 11 >>, << 0, TestByte >>, << 4, 30 >> >>
InitWrites_DlabLate ==
  << << 1, 0 >>, << 0, 3 >>, << 3, 128 >>, << 1, 0 >>, << 3, 3 >>, << 2, 199 >>,
     << 4, 11 >>, << 4, 30 >>, << 0, TestByte >> >>
InitWrites ==
  << << 1, 0 >>, << 3, 128 >>, << 0, 3 >>, << 1, 0 >>, << 3, 3 >>, << 2, 199 >>,
     << 4, 11 >>, << 4, 30 >>, << 0, TestByte >> >>

InitOut ==
  /\ at = "reset" /\ step < Len(InitWrites)
  /\ Out(InitWrites[step + 1][1], InitWrites[step + 1][2])
  /\ step' = step + 1
  /\ UNCHANGED << kind, wire, arrived, past, at, todo, code, call, written, got >>

(* port_in_byte of register 0: the oldest byte received, 0xff without a    *)
(* device, and 0 if there is nothing to read.                              *)
InByte == IF kind = "absent" THEN 255 ELSE IF rx = << >> THEN 0 ELSE Head(rx)
Consume == rx' = IF rx = << >> THEN rx ELSE Tail(rx)

(* A byte is read at once, whether the test byte has come back or not, and *)
(* one that has arrived early is taken for it.                             *)
InitTest ==
  /\ at = "reset" /\ step = Len(InitWrites)
  /\ Consume
  /\ IF InByte # TestByte
       THEN at' = "idle" /\ code' = 1       \* ESERIAL_FAULTY
       ELSE at' = "enable" /\ code' = code
  /\ UNCHANGED << kind, regs, thr, wire, arrived, past, step, todo, call, written, got >>

InitEnable ==
  /\ at = "enable"
  /\ Out(4, 15)
  /\ at' = "idle" /\ code' = 0
  /\ past' = [past EXCEPT !.stray = thr, !.held = rx]
  /\ UNCHANGED << kind, wire, arrived, step, todo, call, written, got >>

(* A call that writes the bytes of s. *)
Write(s) ==
  /\ todo' = s
  /\ at' = IF s = << >> THEN "idle" ELSE "poll"

Room(n) == Len(written) + n <= MaxWritten

WriteString(s) ==
  /\ at = "idle" /\ Room(Len(s)) /\ Write(s)
  /\ call' = [base |-> 0, n |-> 0, rest |-> 0, from |-> Len(written)]
  /\ UNCHANGED << device, step, code, written, got >>

(* write_serial_int and write_serial_hex, for a number that there is room  *)
(* for.                                                                    *)
WriteNumber(n, b) ==
  /\ at = "idle" /\ Room(1) /\ n < b ^ (MaxWritten - Len(written))
  /\ at' = "digits" /\ todo' = << >>
  /\ call' = [base |-> b, n |-> n, rest |-> n, from |-> Len(written)]
  /\ UNCHANGED << device, step, code, written, got >>

(* A level of the recursion.  Its digit waits until the levels below it,   *)
(* which have the digits to the left, have written theirs; the lowest is   *)
(* the first to write.                                                     *)
Recurse_WritesFirst ==
  /\ at = "digits"
  /\ todo' = Append(todo, Char(call.rest % call.base))
  /\ call' = [call EXCEPT !.rest = @ \div call.base]
  /\ at' = IF call.rest \div call.base # 0 THEN "digits" ELSE "poll"
  /\ UNCHANGED << device, step, code, written, got >>
Recurse ==
  /\ at = "digits"
  /\ todo' = << Char(call.rest % call.base) >> \o todo
  /\ call' = [call EXCEPT !.rest = @ \div call.base]
  /\ at' = IF call.rest \div call.base # 0 THEN "digits" ELSE "poll"
  /\ UNCHANGED << device, step, code, written, got >>

(* write_serial waits, however long it takes, and writes. *)
Poll_Once ==
  /\ at = "poll"
  /\ at' = "out"
  /\ UNCHANGED << device, step, todo, code, call, written, got >>
Poll_DataReady ==
  /\ at = "poll" /\ Ready
  /\ at' = "out"
  /\ UNCHANGED << device, step, todo, code, call, written, got >>
Poll ==
  /\ at = "poll" /\ Empty
  /\ at' = "out"
  /\ UNCHANGED << device, step, todo, code, call, written, got >>

WriteByte ==
  /\ at = "out"
  /\ Out(0, Head(todo))
  /\ written' = Append(written, Head(todo))
  /\ Write(Tail(todo))
  /\ UNCHANGED << kind, wire, arrived, past, step, code, call, got >>

CallRead ==
  /\ at = "idle" /\ Len(got) < MaxArrived
  /\ at' = "wait"
  /\ UNCHANGED << device, step, todo, code, call, written, got >>

AwaitByte_No ==
  /\ at = "wait"
  /\ at' = "in"
  /\ UNCHANGED << device, step, todo, code, call, written, got >>
AwaitByte ==
  /\ at = "wait" /\ Ready
  /\ at' = "in"
  /\ UNCHANGED << device, step, todo, code, call, written, got >>

ReadByte ==
  /\ at = "in"
  /\ Consume /\ got' = Append(got, InByte)
  /\ at' = "idle"
  /\ UNCHANGED << kind, regs, thr, wire, arrived, past, step, todo, code, call, written >>

Driver ==
  InitOut \/ InitTest \/ InitEnable \/ Recurse \/ Poll \/ WriteByte \/ AwaitByte \/ ReadByte

Calls ==
  \/ \E s \in Texts : WriteString(s)
  \/ \E n \in Numbers, b \in {10, 16} : WriteNumber(n, b)
  \/ CallRead

Next == Transmit \/ (\E b \in Inputs : Arrive(b)) \/ Driver \/ Calls

Spec == InitSerial /\ [][Next]_serialVars
(* The processor goes on, and a device that sends at all does so in time.  *)
FairSpec == Spec /\ WF_serialVars(Driver) /\ WF_serialVars(Transmit)

-------------------------------------------------------------------------------
SerialTypeOK ==
  /\ kind \in Kinds
  /\ regs \in [ier : Nat, dll : Nat, dlm : Nat, lcr : Nat, mcr : Nat]
  /\ thr \in Seq(Byte) /\ Len(thr) <= 1 /\ rx \in Seq(Byte)
  /\ at \in {"reset", "enable", "idle", "digits", "poll", "out", "wait", "in"}
  /\ step \in 0 .. Len(InitWrites) /\ code \in {-1, 0, 1}
  /\ wire \in Seq(Byte) /\ arrived \in Seq(Byte)
  /\ past \in [dlab : BOOLEAN, ier : Nat, early : Seq(Byte), stray : Seq(Byte), held : Seq(Byte)]
  /\ written \in Seq(Byte) /\ got \in Seq(Byte) /\ todo \in Seq(Byte)
  /\ at \in {"poll", "out"} => todo # << >>
  /\ call \in [base : {0, 10, 16}, n : Nat, rest : Nat, from : Nat]
  /\ at = "digits" => call.base # 0

(* serial.c:12-24, whatever the bootloader has left in the device: 8n1 at  *)
(* 38400 baud (divisor 3) and loopback off exactly if serial_init returns  *)
(* 0.  That shows a device that sends, unless a byte had arrived before    *)
(* loopback was on.  Interrupts are off, unless DLAB was on at the start:  *)
(* then neither write to register 1 reaches ier.                           *)
SettingsRight ==
  code # -1 =>
    /\ regs.lcr = 3 /\ regs.dll = 3 /\ regs.dlm = 0
    /\ regs.ier = IF past.dlab THEN past.ier ELSE 0
    /\ LoopOn(regs) <=> code = 1
    /\ code = 0 /\ past.early = << >> => kind = "healthy"

(* serial.c:21 and 22: nothing, not the byte of the loopback test either,  *)
(* goes out before serial_init has returned 0.  Once it has returned       *)
(* ESERIAL_FAULTY, as it does of a healthy device too if that is slow or   *)
(* has just received a byte, nothing that is written is ever seen.         *)
QuietUnlessReady == code # 0 => wire = << >>

(* What is written to a device that passed the test goes out, in order and *)
(* without a gap, however slow the device is.  The byte of the test goes   *)
(* out ahead of it only if the device has passed by another byte 0xae,     *)
(* one that was first to arrive before loopback was on.                    *)
NothingLost ==
  code = 0 =>
    /\ wire \o thr = past.stray \o written
    /\ past.stray \in {<< >>, << TestByte >>}
    /\ past.stray # << >> => past.early # << >> /\ past.early[1] = TestByte
Own == SubSeq(wire \o thr, Len(past.stray) + 1, Len(wire \o thr))

(* The digits that write_serial_int and write_serial_hex have written      *)
(* denote the number, and do not start with a 0 unless it is 0.            *)
Digit(c) == CHOOSE d \in 0 .. 15 : Char(d) = c
Value(s, b) ==
  LET v[i \in 0 .. Len(s)] == IF i = 0 THEN 0 ELSE (v[i - 1] * b) + Digit(s[i])
  IN v[Len(s)]
NumberRight ==
  at = "idle" /\ call.base # 0 =>
    LET s == SubSeq(written, call.from + 1, Len(written)) IN
      /\ s # << >> /\ Value(s, call.base) = call.n
      /\ Len(s) > 1 => s[1] # Char(0)

(* read_serial returns the bytes that the device has received, each once   *)
(* and in order.  They start with those that had arrived early, but for    *)
(* the one that passed for the test byte; the byte of the test comes after *)
(* them, if the device has sent it before loopback was off again and found *)
(* room.  If none was early the byte of the test is not among them.        *)
ReadsInOrder ==
  code = 0 =>
    /\ got \o rx = past.held \o arrived
    /\ IF past.early = << >>
         THEN past.held = << >>
         ELSE \/ past.held = Tail(past.early)
              \/ past.held = Append(Tail(past.early), TestByte) /\ past.stray = << >>

(* serial.c:37: a call that writes comes to an end, unless the device is   *)
(* stuck: with no device, and with one that failed the test, it writes     *)
(* into nothing.                                                           *)
WritesEnd == (kind # "stuck" /\ at \in {"digits", "poll", "out"}) ~> at = "idle"
===============================================================================
