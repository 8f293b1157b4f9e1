---------------------------- MODULE CRuntimeProofs ----------------------------
(***************************************************************************)
(* Proofs about CRuntime, for every size of memory, every length and every *)
(* way in which two ranges may overlap.                                    *)
(***************************************************************************)
EXTENDS CRuntime, TLAPS

(* The ranges of the call lie in memory, and its index in the range. *)
InBounds ==
  /\ call.dest + call.n <= LastAddr + 1 /\ call.src + call.n <= LastAddr + 1
  /\ call.i <= call.n
  /\ call.fn = "memcpy" => \/ call.dest + call.n <= call.src
                           \/ call.src + call.n <= call.dest

(* What the loop has written is right, and it has written nothing else. *)
Progress ==
  /\ call.fn # "memcmp" => \A k \in Done : mem[call.dest + k] = Wanted(k)
  /\ \A a \in Addrs : mem[a] # old[a] =>
       call.fn # "memcmp" /\ \E k \in Done : a = call.dest + k

(* What memcmp has found so far, and what it has returned. *)
Compared ==
  call.fn = "memcmp" =>
    /\ \A k \in 0 .. call.i - 1 : mem[call.dest + k] = mem[call.src + k]
    /\ status = "idle" =>
         \/ ret = 0 /\ call.i = call.n
         \/ /\ call.i < call.n
            /\ \/ ret = -1 /\ mem[call.dest + call.i] < mem[call.src + call.i]
               \/ ret = 1 /\ mem[call.dest + call.i] > mem[call.src + call.i]

IInv ==
  /\ TypeOK /\ InBounds /\ Progress /\ Compared
  /\ status = "idle" /\ call.fn # "memcmp" => Finished(call)

(* The fields of a call, and the byte that is read or written at index k.  *)
LEMMA CallFacts ==
  ASSUME TypeOK, InBounds
  PROVE  /\ LastAddr \in Nat /\ ByteValues \in Nat \ {0}
         /\ call.fn \in Functions /\ call.dest \in Nat /\ call.src \in Nat
         /\ call.n \in Nat /\ call.i \in Nat /\ call.fill \in Nat
         /\ \A k \in 0 .. call.n - 1 : call.dest + k \in Addrs /\ call.src + k \in Addrs
         /\ \A a \in Addrs : mem[a] \in Bytes /\ mem[a] \in Int
<1>1. /\ LastAddr \in Nat /\ ByteValues \in Nat \ {0} /\ \A f \in Fills : f \in Nat
      /\ \A a \in Addrs : a \in Nat
  BY RuntimeAssumption DEF Addrs
<1>2. /\ call.fn \in Functions /\ call.dest \in Addrs /\ call.src \in Addrs
      /\ call.n \in Nat /\ call.i \in Nat /\ call.fill \in Fills
  BY DEF TypeOK, Calls
<1>3. call.dest \in Nat /\ call.src \in Nat /\ call.fill \in Nat
  BY <1>1, <1>2
<1>4. \A k \in 0 .. call.n - 1 : call.dest + k \in Addrs /\ call.src + k \in Addrs
  BY <1>1, <1>2, <1>3 DEF InBounds, Addrs
<1>5. \A a \in Addrs : mem[a] \in Bytes /\ mem[a] \in Int
  BY <1>1 DEF TypeOK, Bytes
<1>. QED
  BY <1>1, <1>2, <1>3, <1>4, <1>5

(* The int that memset is given becomes a byte. *)
LEMMA CastFacts == \A fill \in Nat : fill % ByteValues \in Bytes
<1>1. \A m \in Nat, n \in Nat \ {0} : m % n \in 0 .. n - 1
  OBVIOUS
<1>2. ByteValues \in Nat \ {0}
  BY RuntimeAssumption
<1>. QED
  BY <1>1, <1>2 DEF Bytes

(* Writing the byte that is wanted at index j, which the loop comes to     *)
(* next, is progress.                                                      *)
LEMMA WriteStep ==
  ASSUME TypeOK, InBounds, Progress, Compared, call.fn # "memcmp",
         status = "running", status' = "running", old' = old, ret' = ret,
         NEW j \in 0 .. call.n - 1,
         mem' = [mem EXCEPT ![call.dest + j] = Wanted(j)], Wanted(j) \in Bytes,
         NEW m \in 0 .. call.n, call' = [call EXCEPT !.i = m],
         Done' = Done \cup {j}
  PROVE  IInv'
<1>1. /\ call'.fn = call.fn /\ call'.dest = call.dest /\ call'.src = call.src
      /\ call'.n = call.n /\ call'.i = m /\ call'.fill = call.fill /\ call' \in Calls
  BY CallFacts DEF TypeOK, Calls
<1>2. TypeOK' /\ InBounds' /\ Compared'
  BY <1>1, CallFacts DEF TypeOK, InBounds, Compared
<1>3. \A k : Wanted(k)' = Wanted(k)
  BY <1>1 DEF Wanted
<1>4. call.dest + j \in Addrs
  BY CallFacts
<1>5. \A k \in Done : k \in Int
  BY CallFacts DEF Done
<1>6. ASSUME NEW k \in Done' PROVE mem'[call'.dest + k] = Wanted(k)'
  <2>1. CASE k = j
    BY <1>1, <1>3, <1>4, <2>1 DEF TypeOK
  <2>2. CASE k # j
    <3>1. k \in Done /\ call.dest + k # call.dest + j
      BY <1>5, <1>6, <2>2, CallFacts
    <3>2. mem[call.dest + k] = Wanted(k)
      BY <3>1 DEF Progress
    <3>. QED
      BY <1>1, <1>3, <3>1, <3>2 DEF TypeOK
  <2>. QED
    BY <2>1, <2>2
<1>7. ASSUME NEW a \in Addrs, mem'[a] # old'[a] PROVE \E k \in Done' : a = call'.dest + k
  <2>1. CASE a = call.dest + j
    BY <1>1, <2>1
  <2>2. CASE a # call.dest + j
    <3>1. mem'[a] = mem[a]
      BY <2>2 DEF TypeOK
    <3>. QED
      BY <1>1, <1>7, <3>1 DEF Progress
  <2>. QED
    BY <2>1, <2>2
<1>. QED
  BY <1>1, <1>2, <1>6, <1>7 DEF IInv, Progress

(* The heart of memmove: what the loop has written so far does not include *)
(* a byte that it has still to read.                                       *)
LEMMA UnreadIntact ==
  ASSUME TypeOK, InBounds, Progress, Moving, NEW j \in (0 .. call.n - 1) \ Done
  PROVE  mem[call.src + j] = old[call.src + j]
<1>1. \A k \in Done : k \in Int /\ call.src + j # call.dest + k
  <2>1. CASE Descends(call)
    BY <2>1, CallFacts DEF Descends, Done
  <2>2. CASE ~Descends(call)
    <3>1. Done = 0 .. call.i - 1 /\ j >= call.i
      BY <2>2, CallFacts DEF Done
    <3>2. CASE call.fn = "memmove"
      BY <2>2, <3>1, <3>2, CallFacts DEF Descends, Moving
    <3>3. CASE call.fn = "memcpy"
      <4>1. /\ call.dest + call.n <= call.src \/ call.src + call.n <= call.dest
            /\ call.i <= call.n /\ j < call.n /\ j \in Nat
            /\ call.i \in Nat /\ call.n \in Nat /\ call.src \in Nat /\ call.dest \in Nat
        BY <3>3, CallFacts DEF InBounds
      <4>2. ASSUME NEW k \in Int, 0 <= k, k < call.i, k < j, k < call.n
            PROVE  call.src + j # call.dest + k
        <5>1. CASE call.dest + call.n <= call.src
          BY <4>1, <4>2, <5>1
        <5>2. CASE call.src + call.n <= call.dest
          BY <4>1, <4>2, <5>2
        <5>. QED
          BY <4>1, <5>1, <5>2
      <4>3. ASSUME NEW k \in Done PROVE k \in Int /\ 0 <= k /\ k < call.i /\ k < j /\ k < call.n
        BY <3>1, <4>1, <4>3
      <4>. QED
        BY <4>2, <4>3
    <3>. QED
      BY <3>2, <3>3 DEF Moving
  <2>. QED
    BY <2>1, <2>2
<1>2. call.src + j \in Addrs
  BY CallFacts
<1>. QED
  BY <1>1, <1>2 DEF Progress

(* The invariant holds when nothing has been called. *)
LEMMA InitStep == Init => IInv
<1>. SUFFICES ASSUME Init PROVE IInv
  OBVIOUS
<1>1. /\ call.fn = "memset" /\ call.dest = 0 /\ call.src = 0 /\ call.n = 0 /\ call.i = 0
      /\ status = "idle" /\ mem = old /\ ret = 0 /\ TypeOK
  BY RuntimeAssumption DEF Init, TypeOK, Calls, Functions, Addrs
<1>2. ~Descends(call) /\ Done = 0 .. -1
  BY <1>1 DEF Descends, Done
<1>3. InBounds /\ Progress /\ Compared
  BY <1>1, <1>2, RuntimeAssumption DEF InBounds, Progress, Compared
<1>. QED
  BY <1>1, <1>2, <1>3 DEF IInv, Finished

(* A call begins with nothing done. *)
LEMMA CallStep ==
  ASSUME IInv, NEW c \in Calls, Call(c)
  PROVE  IInv'
<1>1. /\ status = "idle" /\ status' = "running" /\ old' = mem /\ mem' = mem /\ ret' = ret
      /\ Legal(c) /\ call' = [c EXCEPT !.i = IF Descends(c) THEN c.n ELSE 0]
  BY DEF Call
<1>2. /\ call'.fn = c.fn /\ call'.dest = c.dest /\ call'.src = c.src /\ call'.n = c.n
      /\ call'.fill = c.fill /\ call'.i = (IF Descends(c) THEN c.n ELSE 0)
      /\ call' \in Calls /\ c.n \in Nat
  BY <1>1 DEF Calls
<1>3. TypeOK' /\ InBounds'
  BY <1>1, <1>2 DEF IInv, TypeOK, InBounds, Legal
<1>4. Descends(call)' <=> Descends(c)
  BY <1>2 DEF Descends
<1>5. Done' = {}
  BY <1>2, <1>4 DEF Done
<1>6. Progress'
  BY <1>1, <1>5 DEF Progress
<1>7. Compared'
  <2>1. c.fn = "memcmp" => ~Descends(c)
    BY DEF Descends
  <2>. QED
    BY <1>1, <1>2, <2>1 DEF Compared
<1>. QED
  BY <1>1, <1>3, <1>6, <1>7 DEF IInv

(* One byte upwards. *)
LEMMA CopyUpStep ==
  ASSUME IInv, CopyUp
  PROVE  IInv'
<1>. DEFINE j == call.i
<1>1. /\ status = "running" /\ status' = "running" /\ old' = old /\ ret' = ret
      /\ Ascends(call) /\ call.i < call.n
      /\ mem' = [mem EXCEPT ![call.dest + j] = mem[call.src + j]]
      /\ call' = [call EXCEPT !.i = j + 1]
  BY DEF CopyUp
<1>2. TypeOK /\ InBounds /\ Progress /\ Compared
  BY DEF IInv
<1>3. /\ call.fn \in {"memcpy", "memmove"} /\ ~Descends(call)
      /\ j \in 0 .. call.n - 1 /\ j + 1 \in 0 .. call.n
  BY <1>1, <1>2, CallFacts DEF Ascends, Descends
<1>4. Done = 0 .. j - 1 /\ j \in (0 .. call.n - 1) \ Done
  BY <1>2, <1>3, CallFacts DEF Done
<1>5. mem[call.src + j] = Wanted(j) /\ Wanted(j) \in Bytes
  <2>1. CASE call.src = call.dest
    <3>1. call.fn = "memcpy"
      BY <1>1, <1>2, <2>1, CallFacts DEF Ascends
    <3>2. call.n = 0
      BY <1>2, <2>1, <3>1, CallFacts DEF InBounds
    <3>. QED
      BY <1>3, <3>2
  <2>2. CASE call.src # call.dest
    <3>1. mem[call.src + j] = old[call.src + j]
      BY <1>2, <1>3, <1>4, <2>2, UnreadIntact DEF Moving
    <3>. QED
      BY <1>2, <1>3, <3>1, CallFacts DEF Wanted
  <2>. QED
    BY <2>1, <2>2
<1>6. Done' = Done \cup {j}
  <2>1. /\ call'.fn = call.fn /\ call'.src = call.src /\ call'.dest = call.dest
        /\ call'.i = j + 1
    BY <1>1, <1>2 DEF TypeOK, Calls
  <2>2. Done' = 0 .. j
    BY <1>3, <2>1 DEF Done, Descends
  <2>. QED
    BY <1>3, <1>4, <2>2
<1>. HIDE DEF j
<1>. QED
  BY <1>1, <1>2, <1>3, <1>5, <1>6, WriteStep

(* One byte downwards. *)
LEMMA CopyDownStep ==
  ASSUME IInv, CopyDown
  PROVE  IInv'
<1>. DEFINE j == call.i - 1
<1>1. /\ status = "running" /\ status' = "running" /\ old' = old /\ ret' = ret
      /\ Descends(call) /\ call.i > 0
      /\ mem' = [mem EXCEPT ![call.dest + j] = mem[call.src + j]]
      /\ call' = [call EXCEPT !.i = j]
  BY DEF CopyDown
<1>2. TypeOK /\ InBounds /\ Progress /\ Compared
  BY DEF IInv
<1>3. /\ call.fn = "memmove" /\ call.src # call.dest
      /\ j \in 0 .. call.n - 1 /\ j \in 0 .. call.n /\ call.i = j + 1
  BY <1>1, <1>2, CallFacts DEF Descends, InBounds
<1>4. Done = j + 1 .. call.n - 1 /\ j \in (0 .. call.n - 1) \ Done
  BY <1>1, <1>2, <1>3, CallFacts DEF Done
<1>5. mem[call.src + j] = Wanted(j) /\ Wanted(j) \in Bytes
  <2>1. mem[call.src + j] = old[call.src + j]
    BY <1>2, <1>3, <1>4, UnreadIntact DEF Moving
  <2>. QED
    BY <1>2, <1>3, <2>1, CallFacts DEF Wanted
<1>6. Done' = Done \cup {j}
  <2>1. /\ call'.fn = call.fn /\ call'.src = call.src /\ call'.dest = call.dest
        /\ call'.i = j /\ call'.n = call.n
    BY <1>1, <1>2 DEF TypeOK, Calls
  <2>2. Done' = j .. call.n - 1
    BY <1>1, <2>1 DEF Done, Descends
  <2>3. call.n \in Int /\ j \in Int /\ j <= call.n - 1
    BY <1>2, <1>3, CallFacts
  <2>4. j .. call.n - 1 = (j + 1 .. call.n - 1) \cup {j}
    <3>. HIDE DEF j
    <3>. QED
      BY <2>3
  <2>. QED
    BY <1>4, <2>2, <2>4, Zenon
<1>7. call.fn # "memcmp"
  BY <1>3
<1>. HIDE DEF j
<1>. QED
  BY <1>1, <1>2, <1>3, <1>5, <1>6, <1>7, WriteStep

(* One byte filled. *)
LEMMA SetByteStep ==
  ASSUME IInv, SetByte
  PROVE  IInv'
<1>. DEFINE j == call.i
<1>1. /\ status = "running" /\ status' = "running" /\ old' = old /\ ret' = ret
      /\ call.fn = "memset" /\ call.i < call.n
      /\ mem' = [mem EXCEPT ![call.dest + j] = call.fill % ByteValues]
      /\ call' = [call EXCEPT !.i = j + 1]
  BY DEF SetByte
<1>2. TypeOK /\ InBounds /\ Progress /\ Compared
  BY DEF IInv
<1>3. ~Descends(call) /\ j \in 0 .. call.n - 1 /\ j + 1 \in 0 .. call.n
  BY <1>1, <1>2, CallFacts DEF Descends
<1>4. Wanted(j) = call.fill % ByteValues /\ Wanted(j) \in Bytes
  BY <1>1, <1>2, CallFacts, CastFacts DEF Wanted
<1>5. Done' = Done \cup {j}
  <2>1. /\ call'.fn = call.fn /\ call'.src = call.src /\ call'.dest = call.dest
        /\ call'.i = j + 1
    BY <1>1, <1>2 DEF TypeOK, Calls
  <2>2. Done = 0 .. j - 1 /\ Done' = 0 .. j
    BY <1>2, <1>3, <2>1, CallFacts DEF Done, Descends
  <2>. QED
    BY <1>3, <2>2
<1>6. call.fn # "memcmp"
  BY <1>1
<1>. HIDE DEF j
<1>. QED
  BY <1>1, <1>2, <1>3, <1>4, <1>5, <1>6, WriteStep

(* One byte compared. *)
LEMMA CompareByteStep ==
  ASSUME IInv, CompareByte
  PROVE  IInv'
<1>. DEFINE p1 == mem[call.dest + call.i]
            p2 == mem[call.src + call.i]
<1>1. /\ status = "running" /\ call.fn = "memcmp" /\ call.i < call.n
      /\ mem' = mem /\ old' = old
      /\ IF p1 = p2
           THEN call' = [call EXCEPT !.i = @ + 1] /\ status' = status /\ ret' = ret
           ELSE status' = "idle" /\ ret' = (IF p1 < p2 THEN -1 ELSE 1) /\ call' = call
  BY DEF CompareByte
<1>2. TypeOK /\ InBounds /\ Progress /\ Compared
  BY DEF IInv
<1>3. p1 \in Int /\ p2 \in Int /\ call.i \in 0 .. call.n - 1 /\ call.n \in Nat
  BY <1>1, <1>2, CallFacts
<1>4. CASE p1 = p2
  <2>1. /\ call'.fn = call.fn /\ call'.dest = call.dest /\ call'.src = call.src
        /\ call'.n = call.n /\ call'.i = call.i + 1 /\ call' \in Calls
        /\ status' = "running" /\ ret' = ret
    BY <1>1, <1>2, <1>4, CallFacts DEF TypeOK, Calls
  <2>2. TypeOK' /\ InBounds'
    BY <1>1, <1>2, <1>3, <2>1 DEF TypeOK, InBounds
  <2>3. Progress'
    BY <1>1, <1>2, <2>1 DEF Progress
  <2>4. ASSUME NEW k \in 0 .. call.i PROVE mem[call.dest + k] = mem[call.src + k]
    <3>1. CASE k = call.i
      BY <1>4, <3>1
    <3>2. CASE k # call.i
      BY <1>1, <1>2, <1>3, <3>2 DEF Compared
    <3>. QED
      BY <3>1, <3>2
  <2>5. Compared'
    BY <1>1, <1>3, <2>1, <2>4 DEF Compared
  <2>. QED
    BY <2>1, <2>2, <2>3, <2>5 DEF IInv
<1>5. CASE p1 # p2
  <2>1. /\ status' = "idle" /\ call' = call
        /\ \/ ret' = -1 /\ p1 < p2
           \/ ret' = 1 /\ p1 > p2
    BY <1>1, <1>3, <1>5
  <2>2. TypeOK' /\ InBounds' /\ Progress'
    BY <1>1, <1>2, <2>1 DEF TypeOK, InBounds, Progress, Done, Descends, Wanted
  <2>3. Compared'
    BY <1>1, <1>2, <2>1 DEF Compared
  <2>. QED
    BY <1>1, <2>1, <2>2, <2>3 DEF IInv
<1>. QED
  BY <1>4, <1>5

(* The end of a loop. *)
LEMMA ReturnStep ==
  ASSUME IInv, Return
  PROVE  IInv'
<1>1. /\ Finished(call) /\ status' = "idle" /\ mem' = mem /\ call' = call /\ old' = old
      /\ ret' = IF call.fn = "memcmp" THEN 0 ELSE call.dest
  BY DEF Return
<1>2. TypeOK /\ InBounds /\ Progress /\ Compared
  BY DEF IInv
<1>3. TypeOK' /\ InBounds' /\ Progress'
  BY <1>1, <1>2, CallFacts DEF TypeOK, InBounds, Progress, Done, Descends, Wanted
<1>4. Compared'
  BY <1>1, <1>2 DEF Compared, Finished, Descends
<1>. QED
  BY <1>1, <1>3, <1>4 DEF IInv, Finished, Descends

(* IInv is an invariant. *)
LEMMA Invariant == Spec => []IInv
<1>1. ASSUME IInv, [Next]_vars PROVE IInv'
  <2>1. CASE UNCHANGED vars
    BY <1>1, <2>1 DEF vars, IInv, TypeOK, InBounds, Progress, Compared, Done, Descends,
       Wanted, Finished
  <2>2. CASE Step
    BY <1>1, <2>2, CopyUpStep, CopyDownStep, SetByteStep, CompareByteStep, ReturnStep
       DEF Step
  <2>3. ASSUME NEW fn \in Functions, NEW dest \in Addrs, NEW src \in Addrs,
               NEW fill \in Fills, NEW n \in 0 .. LastAddr + 1,
               Call([fn |-> fn, dest |-> dest, src |-> src, fill |-> fill, n |-> n, i |-> 0])
        PROVE  IInv'
    <3>. DEFINE c == [fn |-> fn, dest |-> dest, src |-> src, fill |-> fill, n |-> n, i |-> 0]
    <3>1. c \in Calls
      BY DEF Calls
    <3>2. Call(c)
      BY <2>3
    <3>. HIDE DEF c
    <3>. QED
      BY <1>1, <3>1, <3>2, CallStep
  <2>. QED
    BY <1>1, <2>1, <2>2, <2>3 DEF Next
<1>. QED
  BY <1>1, InitStep, PTL DEF Spec

(* Memory holds bytes, also after memset with an int that is none. *)
THEOREM TypeCorrect == Spec => []TypeOK
BY Invariant, PTL DEF IInv

(* libdef.c:37 and 41: memmove reads every byte before it overwrites it,   *)
(* whichever way the ranges overlap.                                       *)
THEOREM ReadsBeforeOverwriting == Spec => []SourceIntact
<1>1. IInv => SourceIntact
  BY UnreadIntact DEF IInv, SourceIntact
<1>. QED
  BY <1>1, Invariant, PTL

(* memcpy, memset and memmove leave what the C standard demands, and       *)
(* memcmp leaves everything as it was.                                     *)
THEOREM MemoryIsRight == Spec => []ResultRight
<1>1. ASSUME IInv, status = "idle" PROVE ResultRight
  <2>1. TypeOK /\ InBounds /\ Progress
    BY <1>1 DEF IInv
  <2>2. Done \subseteq 0 .. call.n - 1
    BY <2>1, CallFacts DEF Done, InBounds
  <2>3. ASSUME NEW a \in Addrs, mem[a] # old[a]
        PROVE  call.fn # "memcmp" /\ a \in call.dest .. call.dest + call.n - 1
    <3>1. PICK k \in Done : a = call.dest + k
      BY <2>1, <2>3 DEF Progress
    <3>2. k \in 0 .. call.n - 1
      BY <2>2
    <3>. QED
      BY <2>1, <2>3, <3>1, <3>2, CallFacts DEF Progress
  <2>4. ASSUME call.fn # "memcmp", NEW k \in 0 .. call.n - 1
        PROVE  mem[call.dest + k] = Wanted(k)
    <3>1. Finished(call)
      BY <1>1, <2>4 DEF IInv
    <3>2. CASE call.fn = "memmove" /\ call.src = call.dest
      <4>1. call.dest + k \in Addrs /\ Wanted(k) = old[call.dest + k]
        BY <2>1, <3>2, CallFacts DEF Wanted
      <4>2. CASE k \in Done
        BY <2>1, <2>4, <4>2 DEF Progress
      <4>3. CASE k \notin Done
        <5>1. \A m \in Done : call.dest + m # call.dest + k
          BY <2>1, <2>2, <4>3, CallFacts
        <5>. QED
          BY <2>1, <4>1, <5>1 DEF Progress
      <4>. QED
        BY <4>2, <4>3
    <3>3. CASE ~(call.fn = "memmove" /\ call.src = call.dest)
      <4>1. Done = 0 .. call.n - 1
        BY <3>1, <3>3, <2>1, CallFacts DEF Done, Finished
      <4>. QED
        BY <2>1, <2>4, <4>1 DEF Progress
    <3>. QED
      BY <3>2, <3>3
  <2>. QED
    BY <2>3, <2>4 DEF ResultRight
<1>2. IInv => ResultRight
  BY <1>1 DEF ResultRight
<1>. QED
  BY <1>2, Invariant, PTL

(* memcmp orders two ranges by their first difference. *)
THEOREM ComparesRight == Spec => []CompareRight
<1>1. ASSUME IInv, status = "idle", call.fn = "memcmp" PROVE CompareRight
  <2>1. TypeOK /\ InBounds /\ Compared
    BY <1>1 DEF IInv
  <2>2. /\ call.i \in Nat /\ call.n \in Nat /\ call.i <= call.n
        /\ \A k \in 0 .. call.n - 1 :
             mem[call.dest + k] \in Int /\ mem[call.src + k] \in Int
        /\ \A k \in 0 .. call.i - 1 : mem[call.dest + k] = mem[call.src + k]
    BY <1>1, <2>1, CallFacts DEF InBounds, Compared
  <2>3. CASE ret = 0 /\ call.i = call.n
    BY <2>2, <2>3 DEF CompareRight
  <2>4. CASE /\ call.i < call.n
             /\ \/ ret = -1 /\ mem[call.dest + call.i] < mem[call.src + call.i]
                \/ ret = 1 /\ mem[call.dest + call.i] > mem[call.src + call.i]
    <3>1. call.i \in 0 .. call.n - 1 /\ mem[call.dest + call.i] # mem[call.src + call.i]
      BY <2>2, <2>4
    <3>2. ASSUME NEW k \in 0 .. call.n - 1, mem[call.dest + k] # mem[call.src + k],
                 \A j \in 0 .. k - 1 : mem[call.dest + j] = mem[call.src + j]
          PROVE  k = call.i
      BY <2>2, <3>1, <3>2
    <3>. QED
      BY <2>4, <3>1, <3>2, <2>2 DEF CompareRight
  <2>. QED
    BY <1>1, <2>1, <2>3, <2>4 DEF Compared
<1>2. IInv => CompareRight
  BY <1>1 DEF CompareRight
<1>. QED
  BY <1>2, Invariant, PTL
===============================================================================
