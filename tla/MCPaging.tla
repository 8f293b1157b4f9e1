------------------------------- MODULE MCPaging -------------------------------
(* Instances of Paging: tables of 8 entries on the lowest level and of 2   *)
(* above it, and 64 pages of addresses.  Memory is pages 0 to 23.          *)
EXTENDS Paging, TLC

MCSpan == << 1, 8, 16, 32, 64 >>

(* All memory but page 0 is mapped where it is, page by page; frames 1 to  *)
(* 7 are the tables that this takes.                                       *)
MCIdentity ==
  [x \in {1, 2, 3} \X {0} |-> Table(x[1] + 1)]
  @@ (<< 3, 1 >> :> Table(5)) @@ (<< 2, 1 >> :> Table(6)) @@ (<< 6, 0 >> :> Table(7))
  @@ [x \in {4} \X (1 .. 7) |-> Table(x[2])]
  @@ [x \in {5} \X (0 .. 7) |-> Table(8 + x[2])]
  @@ [x \in {7} \X (0 .. 7) |-> Table(16 + x[2])]

(* Limine leaves the lower half empty. *)
MCNothing == << >>

MCFree == {{8, 9, 10, 11, 12, 13}, {9, 12, 18, 20}}

Ask(p, v, s) == [paddr |-> p, vaddr |-> v, size |-> s]

MCCalls == {Ask(28, 40, 1), Ask(29, 40, 1), Ask(24, 32, 8), Ask(16, 48, 16), Ask(30, 24, 1)}
MCOnePage == {Ask(28, 40, 1)}
MCTwoPages == {Ask(28, 40, 2)}
===============================================================================
