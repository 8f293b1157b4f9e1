------------------------------- MODULE CRuntime -------------------------------
(***************************************************************************)
(* memcpy, memset, memmove and memcmp of src/libdef.c, which the compiler  *)
(* may call on its own account, byte by byte.  memmove reads and writes    *)
(* ranges that may overlap, so the direction of its loop decides whether a *)
(* byte is still there when its turn comes.                                *)
(***************************************************************************)
EXTENDS Integers

CONSTANTS
  LastAddr,     \* memory is the addresses 0 .. LastAddr
  ByteValues,   \* values of a byte, 256
  Fills         \* values that memset is called with, which takes an int

ASSUME RuntimeAssumption ==
  LastAddr \in Nat /\ ByteValues \in Nat \ {0} /\ Fills \subseteq Nat /\ 0 \in Fills

VARIABLES
  mem,     \* the bytes
  status,  \* "running" between a call and its return
  call,    \* the call in progress, or else the latest one
  ret,     \* what it returned
  old      \* mem when it was made

vars == << mem, status, call, ret, old >>

Addrs == 0 .. LastAddr
Bytes == 0 .. ByteValues - 1
Functions == {"memcpy", "memset", "memmove", "memcmp"}
Calls == [fn : Functions, dest : Addrs, src : Addrs, fill : Fills, n : Nat, i : Nat]

TypeOK ==
  /\ mem \in [Addrs -> Bytes] /\ old \in [Addrs -> Bytes]
  /\ status \in {"idle", "running"}
  /\ call \in Calls
  /\ ret \in Int

Init ==
  /\ mem \in [Addrs -> Bytes] /\ old = mem
  /\ status = "idle"
  /\ call = [fn |-> "memset", dest |-> 0, src |-> 0, fill |-> 0, n |-> 0, i |-> 0]
  /\ ret = 0

(* memmove goes down from the end if the source lies before the            *)
(* destination, and does nothing at all if they are the same.              *)
Descends(c) == c.fn = "memmove" /\ c.src < c.dest
Ascends(c) == c.fn = "memcpy" \/ (c.fn = "memmove" /\ c.src # c.dest /\ ~Descends(c))

(* The ranges are those of objects, and a caller of memcpy keeps them      *)
(* apart, as restrict demands.  Only memset has a fill, and it has no      *)
(* source.                                                                 *)
Legal(c) ==
  /\ c.dest + c.n <= LastAddr + 1 /\ c.src + c.n <= LastAddr + 1
  /\ c.fn = "memcpy" => c.dest + c.n <= c.src \/ c.src + c.n <= c.dest
  /\ IF c.fn = "memset" THEN c.src = c.dest ELSE c.fill = 0

Call(c) ==
  /\ status = "idle" /\ Legal(c)
  /\ status' = "running" /\ old' = mem
  /\ call' = [c EXCEPT !.i = IF Descends(c) THEN c.n ELSE 0]
  /\ UNCHANGED << mem, ret >>

CopyUp ==
  /\ status = "running" /\ Ascends(call) /\ call.i < call.n
  /\ mem' = [mem EXCEPT ![call.dest + call.i] = mem[call.src + call.i]]
  /\ call' = [call EXCEPT !.i = @ + 1]
  /\ UNCHANGED << status, ret, old >>

CopyDown ==
  /\ status = "running" /\ Descends(call) /\ call.i > 0
  /\ mem' = [mem EXCEPT ![call.dest + (call.i - 1)] = mem[call.src + (call.i - 1)]]
  /\ call' = [call EXCEPT !.i = @ - 1]
  /\ UNCHANGED << status, ret, old >>

(* The int is cut down to a byte. *)
SetByte ==
  /\ status = "running" /\ call.fn = "memset" /\ call.i < call.n
  /\ mem' = [mem EXCEPT ![call.dest + call.i] = call.fill % ByteValues]
  /\ call' = [call EXCEPT !.i = @ + 1]
  /\ UNCHANGED << status, ret, old >>

(* memcmp goes on while the bytes are the same. *)
CompareByte_Swapped ==
  /\ status = "running" /\ call.fn = "memcmp" /\ call.i < call.n
  /\ LET p1 == mem[call.dest + call.i]
         p2 == mem[call.src + call.i]
     IN IF p1 = p2
          THEN call' = [call EXCEPT !.i = @ + 1] /\ UNCHANGED << status, ret >>
          ELSE status' = "idle" /\ ret' = (IF p1 < p2 THEN 1 ELSE -1) /\ call' = call
  /\ UNCHANGED << mem, old >>
CompareByte ==
  /\ status = "running" /\ call.fn = "memcmp" /\ call.i < call.n
  /\ LET p1 == mem[call.dest + call.i]
         p2 == mem[call.src + call.i]
     IN IF p1 = p2
          THEN call' = [call EXCEPT !.i = @ + 1] /\ UNCHANGED << status, ret >>
          ELSE status' = "idle" /\ ret' = (IF p1 < p2 THEN -1 ELSE 1) /\ call' = call
  /\ UNCHANGED << mem, old >>

(* The loop is over, or memmove has none. *)
Finished_Early(c) ==
  CASE Descends(c) -> c.i <= 1
    [] c.fn = "memmove" /\ c.src = c.dest -> TRUE
    [] OTHER -> c.i = c.n
Finished(c) ==
  CASE Descends(c) -> c.i = 0
    [] c.fn = "memmove" /\ c.src = c.dest -> TRUE
    [] OTHER -> c.i = c.n

Return ==
  /\ status = "running" /\ Finished(call)
  /\ status' = "idle"
  /\ ret' = IF call.fn = "memcmp" THEN 0 ELSE call.dest
  /\ UNCHANGED << mem, call, old >>

Step == CopyUp \/ CopyDown \/ SetByte \/ CompareByte \/ Return

Next ==
  \/ \E fn \in Functions, dest, src \in Addrs, fill \in Fills, n \in 0 .. LastAddr + 1 :
       Call([fn |-> fn, dest |-> dest, src |-> src, fill |-> fill, n |-> n, i |-> 0])
  \/ Step

Spec == Init /\ [][Next]_vars

-------------------------------------------------------------------------------
(* The indexes that a loop has dealt with, and the byte it is to write.    *)
Done == IF Descends(call) THEN call.i .. call.n - 1 ELSE 0 .. call.i - 1
Wanted(k) == IF call.fn = "memset" THEN call.fill % ByteValues ELSE old[call.src + k]
Moving == call.fn \in {"memcpy", "memmove"} /\ call.src # call.dest

(* libdef.c:37 and 41: whichever way the ranges overlap, no byte that      *)
(* memmove or memcpy has still to read has been overwritten by it.         *)
SourceIntact ==
  status = "running" /\ Moving =>
    \A k \in (0 .. call.n - 1) \ Done : mem[call.src + k] = old[call.src + k]

(* What memset, memcpy and memmove leave behind: the destination holds     *)
(* what the source held when the call was made, or the fill byte, and      *)
(* nothing else has changed.  memcmp changes nothing.                      *)
ResultRight ==
  status = "idle" =>
    /\ call.fn # "memcmp" => \A k \in 0 .. call.n - 1 : mem[call.dest + k] = Wanted(k)
    /\ \A a \in Addrs :
         mem[a] # old[a] => call.fn # "memcmp" /\ a \in call.dest .. call.dest + call.n - 1

(* memcmp returns 0 exactly if the ranges are equal, and otherwise orders  *)
(* them by the first byte in which they differ.                            *)
CompareRight ==
  status = "idle" /\ call.fn = "memcmp" =>
    /\ ret = 0 <=> \A k \in 0 .. call.n - 1 : mem[call.dest + k] = mem[call.src + k]
    /\ \A k \in 0 .. call.n - 1 :
         /\ mem[call.dest + k] # mem[call.src + k]
         /\ \A j \in 0 .. k - 1 : mem[call.dest + j] = mem[call.src + j]
         => (ret < 0 <=> mem[call.dest + k] < mem[call.src + k])
===============================================================================
