------------------------------ MODULE DoubleList ------------------------------
(***************************************************************************)
(* The dlist functions of src/std/list.c.  The pops clear one link of the  *)
(* node that they return and leave the link that leads back to it from its *)
(* neighbour; an append or a prepend writes over it, and otherwise it may  *)
(* be taken for a link of the list when the list has shrunk.               *)
(***************************************************************************)
EXTENDS Links, SequencesExt

CONSTANTS
  Nodes,     \* dlist_node_t objects
  Null       \* nullptr

VARIABLES
  head, tail,   \* of the list
  next, prev,   \* of each node
  members,      \* the nodes that the owner has put into the list and not got back
  ret,          \* what the latest call returned, and from which end
  used,         \* the functions by which the owner has taken nodes out
  astray        \* has one of them read a link that leads out of the list?

Nothing == [from |-> "neither", node |-> Null]

vars == << head, tail, next, prev, members, ret, used, astray >>

Init ==
  /\ head = Null /\ tail = Null
  /\ next = [n \in Nodes |-> Null]
  /\ prev = [n \in Nodes |-> Null]
  /\ members = {}
  /\ ret = Nothing
  /\ used = {} /\ astray = FALSE

Insert(n) ==
  /\ n \notin members
  /\ members' = members \cup {n}
  /\ ret' = Nothing
  /\ UNCHANGED << used, astray >>

dlist_append(n) ==
  /\ Insert(n)
  /\ IF tail = Null
       THEN head' = n /\ prev' = [prev EXCEPT ![n] = Null] /\ next' = [next EXCEPT ![n] = Null]
       ELSE /\ prev' = [prev EXCEPT ![n] = tail]
            /\ next' = [next EXCEPT ![tail] = n, ![n] = Null]
            /\ UNCHANGED head
  /\ tail' = n

dlist_prepend(n) ==
  /\ Insert(n)
  /\ IF head = Null
       THEN tail' = n /\ next' = [next EXCEPT ![n] = Null] /\ prev' = [prev EXCEPT ![n] = Null]
       ELSE /\ next' = [next EXCEPT ![n] = head]
            /\ prev' = [prev EXCEPT ![head] = n, ![n] = Null]
            /\ UNCHANGED tail
  /\ head' = n

(* n leaves the list by this function, which reads links beyond the ends   *)
(* of the list or not.                                                     *)
TakeOut(n, function, beyond) ==
  /\ members' = members \ {n}
  /\ used' = used \cup {function}
  /\ astray' = (astray \/ beyond)

BeyondEnds(n) == (n = head /\ prev[n] # Null) \/ (n = tail /\ next[n] # Null)

dlist_remove_Forward(n) ==
  /\ n \in members
  /\ head' = IF n = head THEN next[n] ELSE head
  /\ tail' = IF n = tail THEN prev[n] ELSE tail
  /\ next' = IF prev[n] # Null THEN [next EXCEPT ![prev[n]] = next[n]] ELSE next
  /\ prev' = prev
  /\ ret' = Nothing
  /\ TakeOut(n, "remove", BeyondEnds(n))
dlist_remove(n) ==
  /\ n \in members
  /\ head' = IF n = head THEN next[n] ELSE head
  /\ tail' = IF n = tail THEN prev[n] ELSE tail
  /\ next' = IF prev[n] # Null THEN [next EXCEPT ![prev[n]] = next[n]] ELSE next
  /\ prev' = IF next'[n] # Null THEN [prev EXCEPT ![next'[n]] = prev[n]] ELSE prev
  /\ ret' = Nothing
  /\ TakeOut(n, "remove", BeyondEnds(n))

(* The list is not empty: popping an empty one reads through a null.       *)
dlist_pop_front ==
  /\ head # Null
  /\ head' = next[head]
  /\ tail' = IF head = tail THEN head' ELSE tail
  /\ next' = [next EXCEPT ![head] = Null]
  /\ ret' = [from |-> "front", node |-> head]
  /\ TakeOut(head, "pop_front", head = tail /\ next[head] # Null)
  /\ UNCHANGED prev

dlist_pop_end ==
  /\ tail # Null
  /\ tail' = prev[tail]
  /\ head' = IF tail = head THEN tail' ELSE head
  /\ prev' = [prev EXCEPT ![tail] = Null]
  /\ ret' = [from |-> "end", node |-> tail]
  /\ TakeOut(tail, "pop_end", tail = head /\ prev[tail] # Null)
  /\ UNCHANGED next

Next ==
  \/ \E n \in Nodes : dlist_append(n) \/ dlist_prepend(n) \/ dlist_remove(n)
  \/ dlist_pop_front
  \/ dlist_pop_end

Spec == Init /\ [][Next]_vars

(* Links up to one end of the list, whatever the node there leads to.      *)
UpTo(end, link) == [n \in DOMAIN link |-> IF n = end THEN Null ELSE link[n]]

Forward == Trail(head, UpTo(tail, next))
Backward == Reverse(Trail(tail, UpTo(head, prev)))

Mixed == \E f, g \in used : f # g

(* list.c:21-34, 44-57, 72-89, 99-121: as long as no function has read a   *)
(* link that leads out of the list, the nodes between head and tail are a  *)
(* sequence, the same in both directions, and it changes as the names of   *)
(* the functions say.  A function reads such a link only if the owner has  *)
(* taken nodes out by more than one of them.                               *)
AsSequences == INSTANCE NodeLists WITH
  Names <- {"list"}, contents <- [l \in {"list"} |-> Forward]
KeepsList ==
  /\ AsSequences!Init
  /\ [][~astray' => AsSequences!Next]_(AsSequences!vars)
  /\ [](~astray => Forward = Backward)
  /\ [](astray => Mixed)
===============================================================================
