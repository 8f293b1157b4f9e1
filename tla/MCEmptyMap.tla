------------------------------ MODULE MCEmptyMap ------------------------------
(* EmptyMap on the instance of MCPaging.  What is left in frame 9 would map  *)
(* it at its own address, were it a table of each level, so a call can get   *)
(* through; what is left in frame 12 is not at the index that matters.       *)
EXTENDS MCPaging, EmptyMap

MCLeftover == [x \in {9} \X {0, 1} |-> Table(9)] @@ (<< 12, 1 >> :> Table(18))

MCFreeOrLeft == MCFree \cup {{10, 12, 18}, {11, 20}, {}}

MCCallsOrNone == MCCalls \cup {Ask(28, 40, 0)}
===============================================================================
