------------------------------- MODULE GraphAL -------------------------------
(***************************************************************************)
(* libDAI's GraphAL (include/dai/graph.h, src/graph.cpp): an undirected     *)
(* graph as one neighbour list per node, each edge in the lists of both its *)
(* ends, dual to each other.  A graph is made by one of the generators and  *)
(* then changed by the operations in any order.                            *)
(*                                                                         *)
(* The lists are those of NeighborLists with both sides the same.          *)
(***************************************************************************)
EXTENDS NeighborLists

CONSTANTS
    MaxNodes,  \* bound: nodes of the graph
    MaxEdges,  \* bound: edges of the graph
    MaxSide    \* bound: sides of the generated grids

VARIABLE nb

Both(lists) == [nb1 |-> lists, nb2 |-> lists]

(* Of an operation on either side only the lists it has touched are new.    *)
Merged(g, n) == [m \in DOMAIN g.nb2 |-> IF m = n THEN g.nb1[m] ELSE g.nb2[m]]

EdgesIn(lists) == NrEdges(Both(lists)) \div 2

hasEdge(lists, n1, n2) == n2 \in NodesOf(lists[n1])

-----------------------------------------------------------------------------
WithNode(lists, ns) ==
    LET g == WithLinkedNode1(Both(lists), ns) IN Append(g.nb2, Last(g.nb1))

(* Mutant of Joined: a node may be joined to itself.                        *)
JoinedToItself(lists, n1, n2, check) ==
    IF n1 = n2
    THEN [lists EXCEPT ![n1] = Append(@, [iter |-> Len(@) + 1, node |-> n1, dual |-> Len(@) + 1])]
    ELSE Merged(WithEdge(Both(lists), n1, n2, check), n1)

(* addEdge: never from a node to itself, with `check' never twice.          *)
Joined(lists, n1, n2, check) ==
    IF n1 = n2 THEN lists ELSE Merged(WithEdge(Both(lists), n1, n2, check), n1)

(* Mutant of WithoutNode: the remaining entries of a list move up, but the  *)
(* entries they are dual to are not told.                                  *)
DualsKept(lists, n) ==
    [m \in 1 .. Len(lists) - 1 |->
       LET kept == SelectSeq(RemoveAt(lists, n)[m], LAMBDA e : e.node # n)
       IN  [k \in DOMAIN kept |-> MovedUp(kept[k], k, n)]]

WithoutNode(lists, n) ==
    LET newIter(m, k) == Cardinality({i \in 1 .. k : lists[m][i].node # n})
    IN  [m \in 1 .. Len(lists) - 1 |->
           LET kept == SelectSeq(RemoveAt(lists, n)[m], LAMBDA e : e.node # n)
           IN  [k \in DOMAIN kept |->
                  [MovedUp(kept[k], k, n) EXCEPT !.dual = newIter(kept[k].node, @)]]]

WithoutHalf(lists, n1, n2) ==
    LET g == WithoutHalfEdge(Both(lists), n1, n2) IN Merged(g, n1)

Separated(lists, n1, n2) == WithoutHalf(WithoutHalf(lists, n1, n2), n2, n1)

-----------------------------------------------------------------------------
(* construct: the edges are added in turn, edge e with check e[3].  None is *)
(* added from a node to itself.                                            *)
Built(n, edges) ==
    LET ends == [k \in DOMAIN edges |-> {edges[k][1], edges[k][2]}]
        added == {k \in DOMAIN edges : /\ edges[k][1] # edges[k][2]
                                       /\ ~(edges[k][3] /\ \E i \in 1 .. k - 1 : ends[i] = ends[k])}
        at == [m \in 1 .. n |-> {k \in added : m \in ends[k]}]
        place(m, k) == Cardinality({i \in at[m] : i <= k})
        entry(m, k, i) == LET other == CHOOSE o \in ends[k] : o # m
                          IN  [iter |-> i, node |-> other, dual |-> place(other, k)]
    IN  [m \in 1 .. n |-> [i \in 1 .. Cardinality(at[m]) |->
            entry(m, CHOOSE k \in at[m] : place(m, k) = i, i)]]

Volume(numbers) == FoldLeft(LAMBDA acc, k : acc * k, 1, numbers)

(* The number of the node after node i in direction d of a grid, around the *)
(* border.  The last direction runs fastest; nodes count from 0 here.       *)
After(i, sides, d) ==
    LET step == Volume(SubSeq(sides, d + 1, Len(sides)))
        at == (i \div step) % sides[d]
    IN  [node |-> i + step * (((at + 1) % sides[d]) - at), inside |-> at + 1 < sides[d]]

(* A node is joined to the next one in each direction, around the border if *)
(* the grid is periodic; an edge is checked for where the way around a side *)
(* of two would add it again.                                              *)
GridEdges(sides, periodic) ==
    FlattenSeq([i \in 1 .. Volume(sides) |->
        SelectSeq([d \in DOMAIN sides |-> <<i, After(i - 1, sides, d).node + 1, sides[d] <= 2, d>>],
                  LAMBDA e : periodic \/ After(i - 1, sides, e[4]).inside)])

createGraphFull(n) ==
    Built(n, FlattenSeq([i \in 1 .. n |-> [j \in 1 .. n - i |-> <<i, i + j, FALSE>>]]))

(* createGraphGrid with two sides, createGraphGrid3D with three.            *)
createGraphGrid(sides, periodic) == Built(Volume(sides), GridEdges(sides, periodic))

createGraphLoop(n) == Built(n, [i \in 1 .. n |-> <<i, (i % n) + 1, n <= 2>>])

(* createGraphTree: a node is joined to a random earlier one, its parent.   *)
createGraphTree(n, parent) == Built(n, [k \in 1 .. n - 1 |-> <<k + 1, parent[k], FALSE>>])

-----------------------------------------------------------------------------
(* isConnected: the component of the first node grows until it no longer    *)
(* changes.                                                                *)
IsConnectedAL(lists) ==
    LET component[k \in 0 .. Len(lists)] ==
            IF k = 0 THEN {1}
            ELSE LET prev == component[k - 1]
                 IN  prev \cup {n \in DOMAIN lists : NodesOf(lists[n]) \cap prev # {}}
    IN  lists = << >> \/ component[Len(lists)] = DOMAIN lists

(* Mutant of NewLevel: also the way back to the parent counts as a cycle.   *)
LevelWithBacktracking(lists, prev) ==
    LET from == prev.last
        steps == FlattenSeq([k \in DOMAIN from |->
                    [j \in DOMAIN lists[from[k][1]] |-> <<lists[from[k][1]][j].node, from[k][1]>>]])
        nodes == [j \in DOMAIN steps |-> steps[j][1]]
    IN  [last |-> steps, seen |-> prev.seen \cup ToSet(nodes),
         cycle |-> ~IsInjective(nodes) \/ ToSet(nodes) \cap prev.seen # {}]

(* The neighbours of the nodes of a level but for their parents; a node     *)
(* that has been met before, or twice in this level, closes a cycle.        *)
NewLevel(lists, prev) ==
    LET from == prev.last
        ahead(k) == SelectSeq(lists[from[k][1]], LAMBDA e : e.node # from[k][2])
        steps == FlattenSeq([k \in DOMAIN from |->
                    [j \in DOMAIN ahead(k) |-> <<ahead(k)[j].node, from[k][1]>>]])
        nodes == [j \in DOMAIN steps |-> steps[j][1]]
    IN  [last |-> steps, seen |-> prev.seen \cup ToSet(nodes),
         cycle |-> ~IsInjective(nodes) \/ ToSet(nodes) \cap prev.seen # {}]

(* isTree: level by level from the first node, whose parent is itself.      *)
IsTreeAL(lists) ==
    LET level[k \in 0 .. Len(lists)] ==
            IF k = 0 THEN [last |-> << <<1, 1>> >>, seen |-> {1}, cycle |-> FALSE]
            ELSE LET prev == level[k - 1] IN IF prev.cycle THEN prev ELSE NewLevel(lists, prev)
        end == level[Len(lists)]
    IN  lists = << >> \/ (~end.cycle /\ end.seen = DOMAIN lists)

-----------------------------------------------------------------------------
Grids ==
    {createGraphGrid(sides, periodic) : periodic \in BOOLEAN,
        sides \in ((1 .. MaxSide) \X (1 .. MaxSide)) \cup ((1 .. 2) \X (1 .. 2) \X (1 .. MaxSide))}

Trees(n) ==
    {createGraphTree(n, parent) :
        parent \in {p \in [1 .. n - 1 -> 1 .. n] : \A k \in 1 .. n - 1 : p[k] <= k}}

Init ==
    \/ nb \in Grids
    \/ \E n \in 1 .. MaxNodes : nb \in Trees(n) \cup {createGraphFull(n), createGraphLoop(n)}

Small == Len(nb) <= MaxNodes /\ EdgesIn(nb) <= MaxEdges

AddNode ==
    /\ Small /\ Len(nb) < MaxNodes
    /\ \E ns \in BoundedSeq(DOMAIN nb, MaxEdges - EdgesIn(nb)) : nb' = WithNode(nb, ns)

AddEdge(n1, n2, check) ==
    /\ Small /\ EdgesIn(nb) < MaxEdges
    /\ nb' = Joined(nb, n1, n2, check)

EraseNode(n) == Small /\ nb' = WithoutNode(nb, n)

EraseEdge(n1, n2) == Small /\ nb' = Separated(nb, n1, n2)

Next ==
    \/ AddNode
    \/ \E n \in DOMAIN nb : EraseNode(n)
    \/ \E n1, n2 \in DOMAIN nb : EraseEdge(n1, n2) \/ \E check \in BOOLEAN : AddEdge(n1, n2, check)

Spec == Init /\ [][Next]_nb

-----------------------------------------------------------------------------
(* What checkConsistency asserts: every entry is where it says and dual to  *)
(* the entry for the same edge at the other end.  No node is its own        *)
(* neighbour, however the graph came about.                                *)
AdjacencyConsistent ==
    /\ Linked(nb, nb)
    /\ \A n \in DOMAIN nb : ~hasEdge(nb, n, n)

SimpleAL == \A n \in DOMAIN nb : Cardinality(NodesOf(nb[n])) = Len(nb[n])

UndividedAL ==
    \A part \in (SUBSET DOMAIN nb) \ {{}, DOMAIN nb} :
        \E n1 \in part, n2 \in DOMAIN nb \ part : hasEdge(nb, n1, n2)

(* isConnected says whether a graph is connected, isTree of a graph without *)
(* parallel edges whether it is so with as few edges as can be.            *)
TestsAreRight ==
    /\ IsConnectedAL(nb) <=> UndividedAL
    /\ SimpleAL => (IsTreeAL(nb) <=> UndividedAL /\ EdgesIn(nb) < Max({1, Len(nb)}))
=============================================================================
