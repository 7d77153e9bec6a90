--------------------------- MODULE NeighborLists ----------------------------
(***************************************************************************)
(* Values of libDAI's BipartiteGraph (include/dai/bipgraph.h,               *)
(* src/bipgraph.cpp), the structure under factor graphs, cluster graphs and *)
(* region graphs.  Each edge is stored twice, in the neighbour list of      *)
(* either end, and either entry holds the position of the other one (dual). *)
(* Erasing nodes and edges shifts positions and renumbers nodes.            *)
(*                                                                         *)
(* Nodes and positions are counted from 1.                                  *)
(***************************************************************************)
EXTENDS Enumerations

Neighbor == [iter : Nat, node : Nat, dual : Nat]

Graph == [nb1 : Seq(Seq(Neighbor)), nb2 : Seq(Seq(Neighbor))]

(* The two types of nodes swapped: the operations on nodes of type 2 are    *)
(* those on nodes of type 1 with the roles exchanged.                      *)
Flip(g) == [nb1 |-> g.nb2, nb2 |-> g.nb1]

Unlinked(nr1, nr2) == [nb1 |-> [n \in 1 .. nr1 |-> << >>], nb2 |-> [n \in 1 .. nr2 |-> << >>]]

NodesOf(list) == {list[k].node : k \in DOMAIN list}

PositionsOf(list, n) == {k \in DOMAIN list : list[k].node = n}

NrEdges(g) == SumFunction([n \in DOMAIN g.nb1 |-> Len(g.nb1[n])])

(* (The concatenation makes TLC compute the entries once and for all.)      *)
Fixed(list) == list \o << >>

-----------------------------------------------------------------------------
WithNode1(g) == [g EXCEPT !.nb1 = Append(@, << >>)]

WithNode2(g) == Flip(WithNode1(Flip(g)))

(* addNode1(begin, end): a node with the neighbours `ns', in this order.    *)
WithLinkedNode1(g, ns) ==
    LET new == Len(g.nb1) + 1
        place(k) == Len(g.nb2[ns[k]]) + Cardinality({i \in 1 .. k : ns[i] = ns[k]})
        added(n2) == Ascending({k \in DOMAIN ns : ns[k] = n2})
    IN  [nb1 |-> Append(g.nb1, Fixed([k \in DOMAIN ns |->
                    [iter |-> k, node |-> ns[k], dual |-> place(k)]])),
         nb2 |-> Fixed([n2 \in DOMAIN g.nb2 |-> g.nb2[n2] \o [i \in DOMAIN added(n2) |->
                    [iter |-> place(added(n2)[i]), node |-> new, dual |-> added(n2)[i]]]])]

WithLinkedNode2(g, ns) == Flip(WithLinkedNode1(Flip(g), ns))

(* addEdge: with `check' an edge is not added twice.                        *)
WithEdge(g, n1, n2, check) ==
    LET iter == Len(g.nb1[n1]) + 1
        dual == Len(g.nb2[n2]) + 1
    IN  IF check /\ n2 \in NodesOf(g.nb1[n1])
        THEN g
        ELSE [nb1 |-> [g.nb1 EXCEPT ![n1] = Append(@, [iter |-> iter, node |-> n2, dual |-> dual])],
              nb2 |-> [g.nb2 EXCEPT ![n2] = Append(@, [iter |-> dual, node |-> n1, dual |-> iter])]]

(* Mutant of MovedUp: nodes before the erased one are renumbered as well.   *)
AllRenumbered(m, k, n) == [m EXCEPT !.iter = k, !.node = IF @ > 1 THEN @ - 1 ELSE @]

(* An entry that is now at position k, after node n has been erased.       *)
MovedUp(m, k, n) == [m EXCEPT !.iter = k, !.node = IF @ > n THEN @ - 1 ELSE @]

(* eraseNode1.  The entries of the other side that point to node n go, the *)
(* remaining ones move up, and each writes its new position into the entry *)
(* it is dual to.                                                          *)
WithoutNode1(g, n) ==
    LET stays(n2, k) == g.nb2[n2][k].node # n
        newIter(n2, k) == Cardinality({i \in 1 .. k : stays(n2, i)})
        partners(n1, j) == {p \in UNION {{n2} \X DOMAIN g.nb2[n2] : n2 \in DOMAIN g.nb2} :
                               g.nb2[p[1]][p[2]].node = n1 /\ g.nb2[p[1]][p[2]].dual = j}
        newDual(n1, j) == LET p == CHOOSE p \in partners(n1, j) : TRUE IN newIter(p[1], p[2])
        relinked == Fixed([n1 \in DOMAIN g.nb1 |-> Fixed([j \in DOMAIN g.nb1[n1] |->
                       IF n1 = n \/ partners(n1, j) = {}
                       THEN g.nb1[n1][j]
                       ELSE [g.nb1[n1][j] EXCEPT !.dual = newDual(n1, j)]])])
    IN  [nb1 |-> RemoveAt(relinked, n),
         nb2 |-> Fixed([n2 \in DOMAIN g.nb2 |->
                    LET kept == AtPositions(g.nb2[n2], {k \in DOMAIN g.nb2[n2] : stays(n2, k)})
                    IN  Fixed([k \in DOMAIN kept |-> MovedUp(kept[k], k, n)])])]

WithoutNode2(g, n) == Flip(WithoutNode1(Flip(g), n))

(* Entry k leaves the list of node n1, the entries behind it move up by one *)
(* and write that into the entries they are dual to.                       *)
WithoutEntry(g, n1, k) ==
    LET list == g.nb1[n1]
        behind(n2, i) == {j \in k + 1 .. Len(list) : list[j].node = n2 /\ list[j].dual = i}
    IN  [nb1 |-> [g.nb1 EXCEPT ![n1] =
                    [j \in 1 .. Len(list) - 1 |->
                       IF j < k THEN list[j] ELSE [list[j + 1] EXCEPT !.iter = j]]],
         nb2 |-> [n2 \in DOMAIN g.nb2 |-> [i \in DOMAIN g.nb2[n2] |->
                    IF behind(n2, i) = {}
                    THEN g.nb2[n2][i]
                    ELSE [g.nb2[n2][i] EXCEPT !.dual = Max(behind(n2, i)) - 1]]]]

(* The first part of eraseEdge: the first entry for n2 leaves the list of   *)
(* n1, if there is one.                                                    *)
WithoutHalfEdge(g, n1, n2) ==
    LET found == PositionsOf(g.nb1[n1], n2)
    IN  IF found = {} THEN g ELSE WithoutEntry(g, n1, Min(found))

(* Mutant of WithoutEdge: the entry on the other side is not looked for.   *)
WithoutOneHalf(g, n1, n2) == WithoutHalfEdge(g, n1, n2)

WithoutEdge(g, n1, n2) == Flip(WithoutHalfEdge(Flip(WithoutHalfEdge(g, n1, n2)), n2, n1))

-----------------------------------------------------------------------------
(* Mutant of Grown: only nodes of type 2 join the component.               *)
GrownByType2(g, c) ==
    [c EXCEPT !.in2 = @ \cup {n2 \in DOMAIN g.nb2 : NodesOf(g.nb2[n2]) \cap c.in1 # {}}]

(* isConnected: the component of the first node of type 1 grows until it   *)
(* no longer changes, in each round first on side 2 and then on side 1.    *)
Grown(g, c) ==
    LET in2 == c.in2 \cup {n2 \in DOMAIN g.nb2 : NodesOf(g.nb2[n2]) \cap c.in1 # {}}
    IN  [in1 |-> c.in1 \cup {n1 \in DOMAIN g.nb1 : NodesOf(g.nb1[n1]) \cap in2 # {}},
         in2 |-> in2]

IsConnected(g) ==
    LET rounds == Len(g.nb1) + Len(g.nb2)
        component[k \in 0 .. rounds] ==
            IF k = 0 THEN [in1 |-> {1}, in2 |-> {}] ELSE Grown(g, component[k - 1])
    IN  \/ g.nb1 = << >>
        \/ component[rounds] = [in1 |-> DOMAIN g.nb1, in2 |-> DOMAIN g.nb2]

(* isTree: breadth first from the first node of type 1, in levels.  A node *)
(* that turns up twice in one level closes a cycle.                        *)
Reached(lists, from, prev) ==
    SelectSeq(FlattenSeq([k \in DOMAIN from |-> [j \in DOMAIN lists[from[k]] |-> lists[from[k]][j].node]]),
              LAMBDA n : n \notin Range(prev))

(* Mutant of NextLevel: nodes of type 2 are not watched for cycles.        *)
NextLevelWatching1(g, prev) ==
    LET ind1 == Reached(g.nb2, prev.ind2, prev.ind1)
        ind2 == Reached(g.nb1, ind1, prev.ind2)
    IN  [ind1 |-> ind1, ind2 |-> ind2, cycle |-> prev.cycle \/ ~IsInjective(ind1)]

NextLevel(g, prev) ==
    LET ind1 == Reached(g.nb2, prev.ind2, prev.ind1)
        ind2 == Reached(g.nb1, ind1, prev.ind2)
        cycle == ~IsInjective(ind1) \/ ~IsInjective(ind2)
    IN  [ind1 |-> ind1, ind2 |-> ind2, cycle |-> prev.cycle \/ cycle]

IsTree(g) ==
    LET depth == Len(g.nb1) + Len(g.nb2)
        level[k \in 0 .. depth] ==
            IF k = 0
            THEN [ind1 |-> <<1>>, ind2 |-> [j \in DOMAIN g.nb1[1] |-> g.nb1[1][j].node], cycle |-> FALSE]
            ELSE IF level[k - 1].cycle THEN level[k - 1] ELSE NextLevel(g, level[k - 1])
        sizes == [k \in 0 .. depth |-> Len(level[k].ind1) + Len(level[k].ind2)]
    IN  IF g.nb1 = << >> \/ g.nb2 = << >>
        THEN Len(g.nb1) + Len(g.nb2) < 2
        ELSE /\ ~level[depth].cycle
             /\ SumFunction(sizes) = Len(g.nb1) + Len(g.nb2)

-----------------------------------------------------------------------------
(* Each entry of a list knows its position, and the entry it is dual to     *)
(* exists and points back.                                                 *)
Linked(lists, others) ==
    \A n \in DOMAIN lists : \A k \in DOMAIN lists[n] :
        LET m == lists[n][k]
        IN  /\ m.iter = k
            /\ m.node \in DOMAIN others
            /\ m.dual \in DOMAIN others[m.node]
            /\ others[m.node][m.dual].node = n
            /\ others[m.node][m.dual].dual = k

=============================================================================
