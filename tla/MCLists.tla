------------------------------- MODULE MCLists -------------------------------
(* One run for both kinds of lists: a behaviour is one of ForwardList or    *)
(* one of DoubleList, as "kind" says, and the other kind stays empty.       *)
EXTENDS ForwardList

CONSTANT DNodes     \* dlist_node_t objects

ASSUME DoubleAssumption == IsFiniteSet(DNodes) /\ Null \notin DNodes

VARIABLES kind, dhead, dtail, dnext, dprev, dmembers, dret, used, astray

dvars == << dhead, dtail, dnext, dprev, dmembers, dret, used, astray >>

D == INSTANCE DoubleList WITH
  Nodes <- DNodes, head <- dhead, tail <- dtail, next <- dnext, prev <- dprev,
  members <- dmembers, ret <- dret

MCInit == kind \in {"forward", "double"} /\ Init /\ D!Init

MCNext ==
  /\ UNCHANGED kind
  /\ \/ kind = "forward" /\ Next /\ UNCHANGED dvars
     \/ kind = "double" /\ D!Next /\ UNCHANGED vars

MCSpec == MCInit /\ [][MCNext]_<< kind, vars, dvars >>

(* What DoubleList promises: the dlist functions change the sequence that   *)
(* the links between the ends stand for as their names say, until one of    *)
(* them is led out of the list, which takes two ways of taking nodes out.   *)
KeepsList == D!KeepsList
===============================================================================
