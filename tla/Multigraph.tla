----------------------------- MODULE Multigraph -----------------------------
(***************************************************************************)
(* What BipartiteGraph promises: nodes of two types, numbered without gaps, *)
(* and any number of edges between two nodes of different types.            *)
(***************************************************************************)
EXTENDS Integers

VARIABLES
    nodes1, nodes2,  \* how many nodes of either type
    edges            \* how many edges between n1 and n2

(* The former number of the node that is now node m, when node n has gone.  *)
Former(m, n) == IF m < n THEN m ELSE m + 1

(* There are edges of all pairs of nodes.                                  *)
Counted == edges' \in [(1 .. nodes1') \X (1 .. nodes2') -> Nat]

Init ==
    /\ nodes1 \in Nat /\ nodes2 \in Nat
    /\ edges = [e \in (1 .. nodes1) \X (1 .. nodes2) |-> 0]

(* A new node may come with edges of its own.                              *)
AddNode ==
    /\ \/ nodes1' = nodes1 + 1 /\ nodes2' = nodes2
       \/ nodes1' = nodes1 /\ nodes2' = nodes2 + 1
    /\ Counted
    /\ \A e \in DOMAIN edges : edges'[e] = edges[e]

Elsewhere(n1, n2) == \A e \in DOMAIN edges \ {<<n1, n2>>} : edges'[e] = edges[e]

AddEdge(n1, n2) ==
    /\ UNCHANGED <<nodes1, nodes2>>
    /\ edges'[<<n1, n2>>] = edges[<<n1, n2>>] + 1
    /\ Elsewhere(n1, n2)

EraseNode1(n) ==
    /\ nodes1' = nodes1 - 1 /\ nodes2' = nodes2
    /\ edges' = [e \in (1 .. nodes1') \X (1 .. nodes2') |-> edges[<<Former(e[1], n), e[2]>>]]

EraseNode2(n) ==
    /\ nodes1' = nodes1 /\ nodes2' = nodes2 - 1
    /\ edges' = [e \in (1 .. nodes1') \X (1 .. nodes2') |-> edges[<<e[1], Former(e[2], n)>>]]

EraseEdge(n1, n2) ==
    /\ UNCHANGED <<nodes1, nodes2>>
    /\ edges[<<n1, n2>>] > 0 /\ edges'[<<n1, n2>>] = edges[<<n1, n2>>] - 1
    /\ Elsewhere(n1, n2)

Next ==
    \/ AddNode
    \/ \E n1 \in 1 .. nodes1 : EraseNode1(n1)
    \/ \E n2 \in 1 .. nodes2 : EraseNode2(n2)
    \/ \E n1 \in 1 .. nodes1, n2 \in 1 .. nodes2 : AddEdge(n1, n2) \/ EraseEdge(n1, n2)

Spec == Init /\ [][Next]_<<nodes1, nodes2, edges>>

=============================================================================
