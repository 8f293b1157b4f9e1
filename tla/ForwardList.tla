----------------------------- MODULE ForwardList -----------------------------
(***************************************************************************)
(* The flist functions of src/std/list.c, and the chain that               *)
(* ba_init_blocknode_range links.  A node has a single next pointer, which *)
(* serves whatever list it is in: buddyalloc_free_pool at first, later     *)
(* toplevel_blocks, or none while the node is part of a tree.  No function *)
(* looks at a node before it links it, so the lists stay apart only if     *)
(* every node that is not in a list has been left without a link.          *)
(***************************************************************************)
EXTENDS Links, SequencesExt

CONSTANTS
  Nodes,       \* flist_node_t objects
  Names,       \* the lists, flist_t objects
  Null,        \* nullptr
  RangeLen     \* nodes in a range that is set up at once

ASSUME ListsAssumption ==
  /\ RangeLen \in Nat \ {0}
  /\ IsFiniteSet(Nodes) /\ Null \notin Nodes
  /\ Names \cap {"raw", "held"} = {}

VARIABLES
  head,        \* head of each list
  next,        \* next of each node
  place,       \* where its owner has put each node: "raw", "held" or a list
  ret          \* what the latest call returned, and from which end

Nothing == [from |-> "neither", node |-> Null]

vars == << head, next, place, ret >>

Raw == {n \in Nodes : place[n] = "raw"}
Held == {n \in Nodes : place[n] = "held"}

(* The nodes of list l, as the links have them. *)
Contents(l) == Trail(head[l], next)

(* All memory is zero before it is set up. *)
Init ==
  /\ head = [l \in Names |-> Null]
  /\ next = [n \in Nodes |-> Null]
  /\ place = [n \in Nodes |-> "raw"]
  /\ ret = Nothing

(* flist_append of node n, given the links of the nodes. *)
Appended(l, n, links) ==
  IF head[l] = Null
    THEN head' = [head EXCEPT ![l] = n] /\ next' = links
    ELSE head' = head /\ next' = [links EXCEPT ![Last(Contents(l))] = n]

(* ba_init_blocknode_range: the nodes of s are chained, and the first of   *)
(* them is appended.  The last keeps the null that memset gave it.         *)
Chained(s) ==
  [n \in Nodes |->
     IF n \in ToSet(s)
       THEN IF n = Last(s) THEN Null
            ELSE s[(CHOOSE i \in DOMAIN s : s[i] = n) + 1]
       ELSE next[n]]

SetUpRange(l, s) ==
  /\ Appended(l, s[1], Chained(s))
  /\ place' = [n \in Nodes |-> IF n \in ToSet(s) THEN l ELSE place[n]]
  /\ ret' = Nothing

flist_append(l, n) ==
  /\ n \in Held
  /\ Appended(l, n, next)
  /\ place' = [place EXCEPT ![n] = l]
  /\ ret' = Nothing

flist_prepend(l, n) ==
  /\ n \in Held
  /\ next' = IF head[l] # Null THEN [next EXCEPT ![n] = head[l]] ELSE next
  /\ head' = [head EXCEPT ![l] = n]
  /\ place' = [place EXCEPT ![n] = l]
  /\ ret' = Nothing

(* The node is in the list: the loop for its predecessor relies on it. *)
flist_remove_ClearsFirst(l, n) ==
  /\ place[n] = l
  /\ IF n = head[l]
       THEN head' = [head EXCEPT ![l] = next[n]] /\ next' = [next EXCEPT ![n] = Null]
       ELSE \E pre \in ToSet(Contents(l)) :
              /\ next[pre] = n
              /\ next' = [next EXCEPT ![pre] = Null, ![n] = Null]
              /\ UNCHANGED head
  /\ place' = [place EXCEPT ![n] = "held"]
  /\ ret' = Nothing
flist_remove(l, n) ==
  /\ place[n] = l
  /\ IF n = head[l]
       THEN head' = [head EXCEPT ![l] = next[n]] /\ next' = [next EXCEPT ![n] = Null]
       ELSE \E pre \in ToSet(Contents(l)) :
              /\ next[pre] = n
              /\ next' = [next EXCEPT ![pre] = next[n], ![n] = Null]
              /\ UNCHANGED head
  /\ place' = [place EXCEPT ![n] = "held"]
  /\ ret' = Nothing

(* The list is not empty: ba_new_block has seen to it. *)
flist_pop_KeepsLink(l) ==
  /\ head[l] # Null
  /\ head' = [head EXCEPT ![l] = next[head[l]]]
  /\ place' = [place EXCEPT ![head[l]] = "held"]
  /\ ret' = [from |-> "front", node |-> head[l]]
  /\ UNCHANGED next
flist_pop(l) ==
  /\ head[l] # Null
  /\ head' = [head EXCEPT ![l] = next[head[l]]]
  /\ next' = [next EXCEPT ![head[l]] = Null]
  /\ place' = [place EXCEPT ![head[l]] = "held"]
  /\ ret' = [from |-> "front", node |-> head[l]]

Next ==
  \E l \in Names :
    \/ \E S \in kSubset(RangeLen, Raw) : SetUpRange(l, SetToSeq(S))
    \/ \E n \in Nodes : flist_append(l, n) \/ flist_prepend(l, n) \/ flist_remove(l, n)
    \/ flist_pop(l)

Spec == Init /\ [][Next]_vars

(* A node that is in no list leads nowhere.  flist_append, which does not  *)
(* write to the node it appends, and flist_prepend, which does not when    *)
(* the list is empty, would otherwise take along whatever follows it.      *)
HeldNodesAreLoose == \A n \in Held : next[n] = Null

(* The links are lists: as sequences, they change as the names of the      *)
(* functions say, although two lists share the nodes.                      *)
AsSequences == INSTANCE NodeLists WITH contents <- [l \in Names |-> Contents(l)]
KeepsLists == AsSequences!Spec
===============================================================================
