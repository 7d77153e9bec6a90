--------------------------- MODULE BipartiteGraph ---------------------------
(***************************************************************************)
(* A BipartiteGraph object of libDAI under every sequence of the operations *)
(* that add and erase nodes and edges.  The operations themselves are the   *)
(* operators of NeighborLists.                                             *)
(***************************************************************************)
EXTENDS NeighborLists

CONSTANTS
    MaxNodes,  \* bound: nodes of either type
    MaxEdges   \* bound: edges

VARIABLE graph  \* _nb1 and _nb2

(* construct: a graph without edges, to which addEdge adds one at a time.   *)
GraphInit == \E nr1, nr2 \in 0 .. MaxNodes : graph = Unlinked(nr1, nr2)

AddNode1 == Len(graph.nb1) < MaxNodes /\ graph' = WithNode1(graph)

AddNode2 == Len(graph.nb2) < MaxNodes /\ graph' = WithNode2(graph)

AddLinkedNode1 ==
    /\ Len(graph.nb1) < MaxNodes
    /\ \E ns \in BoundedSeq(DOMAIN graph.nb2, MaxEdges - NrEdges(graph)) :
          graph' = WithLinkedNode1(graph, ns)

AddLinkedNode2 ==
    /\ Len(graph.nb2) < MaxNodes
    /\ \E ns \in BoundedSeq(DOMAIN graph.nb1, MaxEdges - NrEdges(graph)) :
          graph' = WithLinkedNode2(graph, ns)

AddEdge(n1, n2, check) ==
    /\ NrEdges(graph) < MaxEdges
    /\ graph' = WithEdge(graph, n1, n2, check)

EraseNode1(n1) == graph' = WithoutNode1(graph, n1)

EraseNode2(n2) == graph' = WithoutNode2(graph, n2)

EraseEdge(n1, n2) == graph' = WithoutEdge(graph, n1, n2)

GraphNext ==
    \/ AddNode1 \/ AddNode2
    \/ AddLinkedNode1 \/ AddLinkedNode2
    \/ \E n1 \in DOMAIN graph.nb1 : EraseNode1(n1)
    \/ \E n2 \in DOMAIN graph.nb2 : EraseNode2(n2)
    \/ \E n1 \in DOMAIN graph.nb1, n2 \in DOMAIN graph.nb2 :
          \/ EraseEdge(n1, n2)
          \/ \E check \in BOOLEAN : AddEdge(n1, n2, check)

GraphSpec == GraphInit /\ [][GraphNext]_graph

-----------------------------------------------------------------------------
(* What checkConsistency asserts holds after every operation, and the two   *)
(* entries of an edge are dual to each other, also when nodes are joined    *)
(* by several edges and the first of them is erased.                       *)
ListsConsistent == Linked(graph.nb1, graph.nb2) /\ Linked(graph.nb2, graph.nb1)

Edges(n1, n2) == Cardinality({k \in DOMAIN graph.nb1[n1] : graph.nb1[n1][k].node = n2})

EdgeCounts == [e \in (DOMAIN graph.nb1) \X (DOMAIN graph.nb2) |-> Edges(e[1], e[2])]

Abstract == INSTANCE Multigraph WITH
    nodes1 <- Len(graph.nb1), nodes2 <- Len(graph.nb2), edges <- EdgeCounts

(* Behind the lists the operations change what they say: an erased node     *)
(* takes its edges along and the later nodes move up by one, eraseEdge      *)
(* takes away one edge and addEdge with a check adds no second one.         *)
ImplementsMultigraph == Abstract!Spec

Simple == \A n1 \in DOMAIN graph.nb1, n2 \in DOMAIN graph.nb2 : Edges(n1, n2) <= 1

(* No cut of the nodes in two parts is without an edge across.              *)
Undivided ==
    \A part1 \in SUBSET DOMAIN graph.nb1, part2 \in SUBSET DOMAIN graph.nb2 :
        \/ part1 = {} /\ part2 = {}
        \/ part1 = DOMAIN graph.nb1 /\ part2 = DOMAIN graph.nb2
        \/ \E n1 \in DOMAIN graph.nb1, n2 \in DOMAIN graph.nb2 :
              (n1 \in part1) # (n2 \in part2) /\ Edges(n1, n2) > 0

(* isTree, which looks for a cycle level by level and counts the nodes it   *)
(* has met, is right about every graph without parallel edges.             *)
TreeTestIsRight ==
    Simple => (IsTree(graph) <=> /\ Undivided
                                 /\ NrEdges(graph) < Max({1, Len(graph.nb1) + Len(graph.nb2)}))

(* isConnected is right about every graph with a node of type 1.           *)
ConnectionTestIsRight == graph.nb1 # << >> => (IsConnected(graph) <=> Undivided)

=============================================================================
