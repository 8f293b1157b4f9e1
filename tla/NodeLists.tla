------------------------------ MODULE NodeLists ------------------------------
(***************************************************************************)
(* What list.h promises: lists of nodes as sequences.  A node is in one    *)
(* list at most; its owner puts it at either end of a list, removes it, or *)
(* takes whichever node is at an end.                                      *)
(***************************************************************************)
EXTENDS SequencesExt

CONSTANTS Nodes, Names, Null

VARIABLES
  contents,   \* the nodes in each list, first to last
  ret         \* the end that the latest operation took a node from, and the node

vars == << contents, ret >>

Nothing == [from |-> "neither", node |-> Null]

Loose(n) == \A l \in Names : n \notin ToSet(contents[l])

Init == contents = [l \in Names |-> << >>] /\ ret = Nothing

Join(l, s) ==
  /\ contents' = [contents EXCEPT ![l] = @ \o s]
  /\ ret' = Nothing

Prepend(l, n) ==
  /\ contents' = [contents EXCEPT ![l] = Cons(n, @)]
  /\ ret' = Nothing

Take(l, n) ==
  \E i \in DOMAIN contents[l] :
    /\ contents[l][i] = n
    /\ contents' = [contents EXCEPT ![l] = RemoveAt(@, i)]

Pop(l, end, n) == Take(l, n) /\ ret' = [from |-> end, node |-> n]

Next ==
  \E l \in Names :
    \/ \E S \in SUBSET {n \in Nodes : Loose(n)} : \E s \in SetToSeqs(S) : Join(l, s)
    \/ \E n \in Nodes : Loose(n) /\ Prepend(l, n)
    \/ \E n \in Nodes : Take(l, n) /\ ret' = Nothing
    \/ contents[l] # << >> /\ Pop(l, "front", Head(contents[l]))
    \/ contents[l] # << >> /\ Pop(l, "end", Last(contents[l]))

Spec == Init /\ [][Next]_vars
===============================================================================
