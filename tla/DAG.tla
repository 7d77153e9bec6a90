-------------------------------- MODULE DAG ---------------------------------
(***************************************************************************)
(* libDAI's DAG (include/dai/dag.h, src/dag.cpp): the structure of a        *)
(* Bayesian network.  A node has a list of parents and one of children, and *)
(* an edge is an entry in the children of its tail and one in the parents   *)
(* of its head, dual to each other: these are the lists of NeighborLists    *)
(* with the children on side 1 and the parents on side 2.                  *)
(***************************************************************************)
EXTENDS NeighborLists

CONSTANTS
    MaxDAGNodes,  \* bound: nodes
    MaxDAGEdges   \* bound: edges

VARIABLE dag  \* nb1: _ch, nb2: _pa

ch(n) == NodesOf(dag.nb1[n])

pa(n) == NodesOf(dag.nb2[n])

-----------------------------------------------------------------------------
(* A worklist that starts with one node: the smallest node in it gives way  *)
(* to those after it, which may come back later.  Met are the nodes taken   *)
(* out so far.                                                             *)
Worked(list, after) ==
    LET node == Min(list.todo)
    IN  [todo |-> (list.todo \cup after[node]) \ {node}, met |-> list.met \cup {node}]

(* As many turns as it can take: without cycles no worklist comes twice.     *)
Met(n, after) ==
    LET turns == Cardinality(SUBSET DOMAIN after)
        turn[k \in 0 .. turns] ==
            IF k = 0 THEN [todo |-> {n}, met |-> {}]
            ELSE LET prev == turn[k - 1] IN IF prev.todo = {} THEN prev ELSE Worked(prev, after)
    IN  turn[turns].met

ancestors(n) == Met(n, [m \in DOMAIN dag.nb2 |-> pa(m)]) \ {n}

descendants(n) == Met(n, [m \in DOMAIN dag.nb1 |-> ch(m)]) \ {n}

existsDirectedPath(n1, n2) == n2 \in Met(n1, [m \in DOMAIN dag.nb1 |-> ch(m)])

isConnected ==
    LET component[k \in 0 .. Len(dag.nb1)] ==
            IF k = 0 THEN {1}
            ELSE LET prev == component[k - 1]
                 IN  prev \cup {n \in DOMAIN dag.nb1 : (pa(n) \cup ch(n)) \cap prev # {}}
    IN  dag.nb1 = << >> \/ component[Len(dag.nb1)] = DOMAIN dag.nb1

-----------------------------------------------------------------------------
DAGInit == \E n \in 0 .. MaxDAGNodes : dag = Unlinked(n, n)

AddDAGNode ==
    /\ Len(dag.nb1) < MaxDAGNodes
    /\ \E parents \in BoundedSeq(DOMAIN dag.nb1, MaxDAGEdges - NrEdges(dag)) :
          dag' = WithNode1(WithLinkedNode2(dag, parents))

(* Mutant of Allowed: only an edge in the other direction is looked for.    *)
AllowedUnlessReversed(n1, n2) == n2 \notin ch(n1) /\ n1 \notin ch(n2)

(* addEdge with a check: neither twice nor so as to close a cycle.          *)
Allowed(n1, n2) == n2 \notin ch(n1) /\ ~existsDirectedPath(n2, n1)

AddDAGEdge(n1, n2) ==
    /\ NrEdges(dag) < MaxDAGEdges
    /\ dag' = IF Allowed(n1, n2) /\ n1 # n2 THEN WithEdge(dag, n1, n2, FALSE) ELSE dag

(* Without a check the caller vouches for the edge.                        *)
AddDAGEdgeUnchecked(n1, n2) ==
    /\ NrEdges(dag) < MaxDAGEdges
    /\ n1 \notin descendants(n2) \cup {n2}
    /\ dag' = WithEdge(dag, n1, n2, FALSE)

(* Mutant of WithoutDAGNode: the children's lists are not gone through.     *)
WithoutParents(g, n) == LET h == WithoutNode1(g, n) IN [h EXCEPT !.nb2 = RemoveAt(@, n)]

(* eraseNode: the node goes as a parent and as a child.                    *)
WithoutDAGNode(g, n) == WithoutNode2(WithoutNode1(g, n), n)

EraseDAGNode(n) == dag' = WithoutDAGNode(dag, n)

EraseDAGEdge(n1, n2) == dag' = WithoutEdge(dag, n1, n2)

DAGNext ==
    \/ AddDAGNode
    \/ \E n \in DOMAIN dag.nb1 : EraseDAGNode(n)
    \/ \E n1, n2 \in DOMAIN dag.nb1 :
          AddDAGEdge(n1, n2) \/ AddDAGEdgeUnchecked(n1, n2) \/ EraseDAGEdge(n1, n2)

DAGSpec == DAGInit /\ [][DAGNext]_dag

-----------------------------------------------------------------------------
(* What checkConsistency asserts: the lists are dual to each other and no   *)
(* node can be reached from one of its children, after any sequence of      *)
(* additions and removals.  The nodes can then be numbered so that each     *)
(* edge leads to a higher number.                                          *)
AcyclicAndConsistent ==
    /\ Linked(dag.nb1, dag.nb2) /\ Linked(dag.nb2, dag.nb1)
    /\ \E rank \in [DOMAIN dag.nb1 -> DOMAIN dag.nb1] :
          \A n \in DOMAIN dag.nb1 : \A m \in ch(n) : rank[n] < rank[m]

(* The worklists end with exactly the nodes they look for: ancestors and    *)
(* descendants are converse to each other, contain the parents (children)   *)
(* with all their own, and nothing else; and the graph is reported as       *)
(* connected unless it falls apart.                                        *)
DAGWalksAreRight ==
    /\ \A n \in DOMAIN dag.nb1 :
          /\ ancestors(n) = pa(n) \cup UNION {ancestors(m) : m \in pa(n)}
          /\ descendants(n) = {m \in DOMAIN dag.nb1 : n \in ancestors(m)}
    /\ isConnected <=>
          \A part \in (SUBSET DOMAIN dag.nb1) \ {{}, DOMAIN dag.nb1} :
             \E n \in part : (pa(n) \cup ch(n)) \ part # {}

(* The graph is what its name says, and is told about rightly.             *)
DAGIsRight == AcyclicAndConsistent /\ DAGWalksAreRight

=============================================================================
