-------------------------------- MODULE Links --------------------------------
(***************************************************************************)
(* Following the links of nodes, as the loops of src/std/list.c do.        *)
(***************************************************************************)
EXTENDS Integers, FiniteSets

(* What is found by following link from a first node, for as long as that  *)
(* makes sense: up to a null, and no further than there can be nodes.      *)
Trail(from, link) ==
  LET nth[k \in 0 .. Cardinality(DOMAIN link)] ==
        IF k = 0 THEN from
        ELSE IF nth[k - 1] \in DOMAIN link THEN link[nth[k - 1]] ELSE nth[k - 1]
      found == {k \in 0 .. Cardinality(DOMAIN link) : nth[k] \in DOMAIN link}
  IN [k \in 1 .. Cardinality(found) |-> nth[k - 1]]
===============================================================================
