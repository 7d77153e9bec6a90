---------------------------- MODULE ClusterGraph ----------------------------
(***************************************************************************)
(* Values of libDAI's ClusterGraph (include/dai/clustergraph.h,             *)
(* src/clustergraph.cpp): clusters of variables, and a bipartite graph that *)
(* joins each variable (type 1) to the clusters it is in (type 2).          *)
(*                                                                         *)
(* A variable is its label; a VarSet is a set that is iterated in the order *)
(* of the labels.                                                          *)
(***************************************************************************)
EXTENDS NeighborLists, LinearStates

findVar(list, x) == SelectInSeq(list, LAMBDA y : y = x)

NoClusters == [G |-> Unlinked(0, 0), vars |-> << >>, clusters |-> << >>]

-----------------------------------------------------------------------------
(* The variables with indices i and j are in a common cluster. *)
Adjacent(c, i, j) ==
    i # j /\ \E I \in NodesOf(c.G.nb1[i]) : j \in NodesOf(c.G.nb2[I])

(* delta1 of the bipartite graph. *)
Around(c, i) == UNION {NodesOf(c.G.nb2[I]) : I \in NodesOf(c.G.nb1[i])} \ {i}

(* The union of the clusters that contain variable i. *)
Delta(c, i) == UNION {c.clusters[I] : I \in NodesOf(c.G.nb1[i])}

(* Only clusters that share a variable are compared: an empty cluster is    *)
(* always maximal.                                                         *)
IsMaximal(c, I) ==
    ~\E i \in NodesOf(c.G.nb2[I]) : \E J \in NodesOf(c.G.nb1[i]) :
        J # I /\ c.clusters[I] \subseteq c.clusters[J]

-----------------------------------------------------------------------------
(* insert: new variables get nodes of their own, in the order of the labels. *)
Insert(c, vs) ==
    LET added == Ordered(vs \ Range(c.vars))
        vars == c.vars \o added
        widened == FoldLeft(LAMBDA g, v : WithNode1(g), c.G, added)
        nbs == Fixed([k \in DOMAIN Ordered(vs) |-> findVar(vars, Ordered(vs)[k])])
    IN  IF Contains(c.clusters, vs)
        THEN c
        ELSE [G |-> WithLinkedNode2(widened, nbs), vars |-> vars,
              clusters |-> Append(c.clusters, vs)]

EraseCluster(c, I) ==
    [c EXCEPT !.G = WithoutNode2(@, I), !.clusters = RemoveAt(@, I)]

(* eraseNonMaximal: one cluster after the other is tested against those     *)
(* that are left.                                                          *)
EraseNonMaximal(c) ==
    LET test(at, cluster) == IF IsMaximal(at.c, at.I)
                       THEN [at EXCEPT !.I = @ + 1]
                       ELSE [at EXCEPT !.c = EraseCluster(@, at.I)]
    IN  FoldLeft(test, [c |-> c, I |-> 1], c.clusters).c

(* Mutant of EraseSubsuming: the index of the cluster is read again after   *)
(* the graph has been changed.                                             *)
EraseSubsumingGraphFirst(c, i) ==
    LET firstOf(g) == IF g.nb1[i] = << >> THEN Len(g.nb2) + 1 ELSE Head(g.nb1[i]).node
        erase(d, nb) ==
            LET g == WithoutNode2(d.G, firstOf(d.G))
            IN  [d EXCEPT !.G = g, !.clusters = RemoveAt(@, firstOf(g))]
    IN  FoldLeft(erase, c, c.G.nb1[i])

(* eraseSubsuming: the first neighbour of variable i, until there is none.  *)
EraseSubsuming(c, i) ==
    FoldLeft(LAMBDA d, nb : EraseCluster(d, Head(d.G.nb1[i]).node), c, c.G.nb1[i])

ElimVar(c, i) ==
    EraseNonMaximal(EraseSubsuming(Insert(c, Delta(c, i) \ {c.vars[i]}), i))

-----------------------------------------------------------------------------
(* Pairs around variable i that eliminating it would make adjacent. *)
Fill(c, i) == {pair \in kSubset(2, Around(c, i)) : \A j, k \in pair : ~Adjacent(c, j, k)}

Weight(c, is) == FoldSet(LAMBDA i, acc : acc * States[c.vars[i]], 1, is)

Cost(heuristic, c, i) ==
    CASE heuristic = "MINNEIGHBORS" -> Cardinality(Around(c, i))
      [] heuristic = "MINWEIGHT" -> Weight(c, Around(c, i))
      [] heuristic = "MINFILL" -> Cardinality(Fill(c, i))
      [] heuristic = "WEIGHTEDMINFILL" ->
            FoldSet(LAMBDA pair, acc : acc + Weight(c, pair), 0, Fill(c, i))

(* Mutant of Cheapest: the comparison of costs is reversed.                 *)
Dearest(heuristic, c, remaining) ==
    Min({i \in remaining : \A j \in remaining : Cost(heuristic, c, i) >= Cost(heuristic, c, j)})

(* greedyVariableElimination: the first variable of least cost.             *)
Cheapest(heuristic, c, remaining) ==
    Min({i \in remaining : \A j \in remaining : Cost(heuristic, c, i) <= Cost(heuristic, c, j)})

-----------------------------------------------------------------------------
(* A factor graph is the sequence of the variable sets of its factors.      *)
FactorVars(fg) == Ordered(UNION Range(fg))

(* Mutant of IsMaximalFactor: equal sets exclude each other.                *)
IsUniqueFactor(fg, I) == \A J \in DOMAIN fg : ~(fg[I] \subseteq fg[J] /\ I # J)

(* isMaximal of FactorGraph: equal sets are all maximal.                    *)
IsMaximalFactor(fg, I) == \A J \in DOMAIN fg : ~(fg[I] \subseteq fg[J] /\ fg[I] # fg[J])

(* ClusterGraph(fg, true): the variables of the factor graph and its        *)
(* maximal factors, in their order.                                        *)
MaximalFactors(fg) ==
    LET vars == FactorVars(fg)
        add(c, vs) == [c EXCEPT
            !.clusters = Append(@, vs),
            !.G = FoldLeft(LAMBDA g, v : WithEdge(g, findVar(vars, v), Len(g.nb2), TRUE),
                           WithNode2(@), Ordered(vs))]
        maximal == SelectSeq([I \in DOMAIN fg |-> I], LAMBDA I : IsMaximalFactor(fg, I))
    IN  FoldLeft(LAMBDA c, I : add(c, fg[I]),
                 [G |-> Unlinked(Len(vars), 0), vars |-> vars, clusters |-> << >>], maximal)

(* The graph and the clusters say the same thing.                          *)
Matches(c) ==
    /\ Linked(c.G.nb1, c.G.nb2) /\ Linked(c.G.nb2, c.G.nb1)
    /\ Len(c.G.nb1) = Len(c.vars) /\ IsInjective(c.vars)
    /\ Len(c.G.nb2) = Len(c.clusters)
    /\ \A I \in DOMAIN c.clusters :
          /\ {c.vars[i] : i \in NodesOf(c.G.nb2[I])} = c.clusters[I]
          /\ Len(c.G.nb2[I]) = Cardinality(c.clusters[I])

-----------------------------------------------------------------------------
(***************************************************************************)
(* Values of RegionGraph (include/dai/regiongraph.h, src/regiongraph.cpp):   *)
(* outer regions, to which the factors belong, and inner regions,            *)
(* intersections of outer ones, with their counting numbers; here by the     *)
(* cluster variation method.  A junction tree chooses its inner regions      *)
(* itself.  Inner regions are distinct sets and stand for themselves; a      *)
(* counting is a function on those that have their number already.          *)
(***************************************************************************)
(* The first outer region that contains the factor, 0 if there is none.     *)
HostOf(vs, ors) == SelectInSeq(ors, LAMBDA or : vs \subseteq or)

(* constructCVM: only the maximal clusters become outer regions.            *)
OuterRegions(cls) == EraseNonMaximal(FoldLeft(Insert, NoClusters, cls)).clusters

(* Intersections of two outer regions, then of two of those, and so on.     *)
InnerRegions(ors) ==
    LET first == {ors[ab[1]] \cap ors[ab[2]] : ab \in {cd \in (DOMAIN ors) \X (DOMAIN ors) : cd[1] < cd[2]}}
        pass[k \in 0 .. Len(ors)] ==
            IF k = 0 THEN first \ {{}}
            ELSE LET prev == pass[k - 1] IN {b \cap c : b, c \in prev} \ {{}}
    IN  pass[Len(ors)]

Ancestors(beta, irs) == {gamma \in irs : beta \subseteq gamma /\ beta # gamma}

-----------------------------------------------------------------------------
(* The outer regions have counting number 1.                               *)
OuterAround(beta, ors) == Cardinality({alpha \in DOMAIN ors : beta \subseteq ors[alpha]})

(* Mutant of CountingNumber: the numbers of larger inner regions are not    *)
(* taken off.                                                              *)
CountingByOuterRegions(beta, ors, c) == 1 - OuterAround(beta, ors)

CountingNumber(beta, ors, c) ==
    1 - OuterAround(beta, ors) - SumFunction([gamma \in {g \in DOMAIN c : beta \subseteq g} |-> c[gamma]])

(* calcCVMCountingNumbers: rounds that give a number to every region whose  *)
(* ancestors have theirs, until a round finds none.                         *)
CVMCountingNumbers(ors, irs) ==
    LET ready(c) == {beta \in irs \ DOMAIN c : Ancestors(beta, irs) \subseteq DOMAIN c}
        round[k \in 0 .. Cardinality(irs)] ==
            IF k = 0 THEN << >>
            ELSE LET prev == round[k - 1]
                 IN  prev @@ [beta \in ready(prev) |-> CountingNumber(beta, ors, prev)]
    IN  round[Cardinality(irs)]

(* construct: regions around the factors, whose variables are given.        *)
CVMRegions(factorVars, cls) ==
    LET ors == OuterRegions(cls)
    IN  [ors |-> ors,
         fac2OR |-> [I \in DOMAIN factorVars |-> HostOf(factorVars[I], ors)],
         c |-> CVMCountingNumbers(ors, InnerRegions(ors))]

(* The assertion of construct: every factor has its region.                *)
AllHosted(region) == \A I \in DOMAIN region.fac2OR : region.fac2OR[I] # 0

(* checkCountingNumbers: those around a variable add up to one.             *)
CountingNumbersValid(region) ==
    \A v \in UNION ToSet(region.ors) :
        OuterAround({v}, region.ors)
          + SumFunction([beta \in {b \in DOMAIN region.c : v \in b} |-> region.c[beta]]) = 1
=============================================================================
