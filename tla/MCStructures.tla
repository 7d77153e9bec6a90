---------------------------- MODULE MCStructures ----------------------------
(***************************************************************************)
(* The data structures of libDAI that keep redundant state, each on small   *)
(* instances: graphs as neighbour lists, iterators over joint states, region*)
(* graphs, junction trees, and sets of properties with aliases.  A behaviour *)
(* is the life of one object of one kind.                                   *)
(***************************************************************************)
EXTENDS JunctionTree, BipartiteGraph, DAG, RegularGraph, StateIteration

VARIABLES
    kind,                                         \* what the object is
    nb,                                           \* GraphAL
    cls,                                          \* the clusters of a RegionGraph
    aliases, name, opts, looped, origins          \* NameOptions

treeVars == <<fg, heuristic, pc, eliminated, eliminationVars, regionVars, OR, beliefVars, edge, clientVars>>
nameVars == <<aliases, name, opts, looped, origins>>
allVars == <<treeVars, kind, graph, nb, dag, regularVars, iterVars, cls, nameVars>>

MCStates == <<2, 3, 2, 4>>

AL == INSTANCE GraphAL WITH MaxNodes <- 4, MaxEdges <- 4, MaxSide <- 3

(* Loops over up to three variables, indices of any of them.                *)
MCLoops == (SUBSET (1 .. 3)) \X (SUBSET (1 .. 3))

Hak == INSTANCE FactorGraphs

(* Two aliases, and an algorithm; options of the algorithm, and of one that   *)
(* it makes in its turn.                                                    *)
Nam == INSTANCE NameOptions WITH
           AliasNames <- {"FAST", "GOOD"}, Algorithms <- {"BP"}, Keys <- {"iaopts", "updates"}, MaxSteps <- 4

Kinds == {"bipartite", "undirected", "directed", "regular", "iteration", "regions", "junction tree", "options"}

-----------------------------------------------------------------------------
(* Factor graphs on up to four variables: any graph of up to four pairs (a  *)
(* cycle of four among them), any two sets, and lists with equal, nested    *)
(* and empty sets.                                                         *)
MCVars == 1 .. 4

InOrder(S) == SetToSeq(S)

MCPairs == UNION {{InOrder(S) : S \in kSubset(n, kSubset(2, MCVars))} : n \in 1 .. 4}

MCTwoSets == {<<a, b>> : a, b \in (SUBSET MCVars) \ {{}, {1}}}

MCMixed == {
    <<{1, 2}, {1, 2}, {2, 3}, {3}>>,
    <<{}, {1, 2, 3}, {2, 3, 4}, {1}>>,
    <<{1, 2, 3}, {3, 4}, {4, 1}, {1, 2, 3}>>,
    <<{4}, {3}, {2}, {1}>>}

MCFactorGraphs == MCPairs \cup MCTwoSets \cup MCMixed

MCHeuristics == {"MINNEIGHBORS", "MINWEIGHT", "MINFILL", "WEIGHTEDMINFILL"}
MCUpdates == {"HUGIN", "SHSH"}

-----------------------------------------------------------------------------
(* Up to MaxClusters clusters out of four variables, none twice.            *)
MaxClusters == 4

Code(vs) == SumFunction([v \in vs |-> 2 ^ v])

AddCluster ==
    \E vs \in (SUBSET (1 .. 4)) \ {{}, 1 .. 4} :
        /\ Len(cls) < MaxClusters
        /\ \A k \in DOMAIN cls : Code(cls[k]) < Code(vs)
        /\ cls' = Append(cls, vs)

Unused(x) == x = << >>

NoTree ==
    /\ fg = << >> /\ heuristic = "" /\ pc = "none"
    /\ cl = NoClusters /\ eliminated = NoClusters /\ varindices = {} /\ totalStates = 0
    /\ Unused(tree) /\ Unused(fac2OR) /\ G = Unlinked(0, 0)
    /\ Unused(OR) /\ Unused(Qa) /\ Unused(Qb) /\ Unused(mes)
    /\ edge = 0 /\ replaced = 0 /\ answer = NoAnswer

(* A regular graph of five nodes of degree two: attempts that get stuck, and *)
(* two kinds of end.                                                        *)
AnyInit ==
    /\ kind \in Kinds
    /\ IF kind = "junction tree" THEN Init ELSE NoTree
    /\ IF kind = "bipartite" THEN GraphInit ELSE graph = Unlinked(0, 0)
    /\ IF kind = "undirected" THEN AL!Init ELSE Unused(nb)
    /\ IF kind = "directed" THEN DAGInit ELSE dag = Unlinked(0, 0)
    /\ RegularInit
    /\ IterationInit /\ (kind # "iteration" => forVars = {} /\ indexVars = {})
    /\ Unused(cls)
    /\ IF kind = "options" THEN Nam!Init
       ELSE Unused(aliases) /\ name = "" /\ Unused(opts) /\ looped = FALSE /\ Unused(origins)

AnyNext ==
    \/ kind = "bipartite" /\ GraphNext /\ UNCHANGED <<treeVars, kind, nb, dag, regularVars, iterVars, cls, nameVars>>
    \/ kind = "undirected" /\ AL!Next /\ UNCHANGED <<treeVars, kind, graph, dag, regularVars, iterVars, cls, nameVars>>
    \/ kind = "directed" /\ DAGNext /\ UNCHANGED <<treeVars, kind, graph, nb, regularVars, iterVars, cls, nameVars>>
    \/ kind = "regular" /\ RegularNext /\ UNCHANGED <<treeVars, kind, graph, nb, dag, iterVars, cls, nameVars>>
    \/ kind = "iteration" /\ IterationNext /\ UNCHANGED <<treeVars, kind, graph, nb, dag, regularVars, cls, nameVars>>
    \/ kind = "regions" /\ AddCluster /\ UNCHANGED <<treeVars, kind, graph, nb, dag, regularVars, iterVars, nameVars>>
    \/ kind = "junction tree" /\ Next /\ UNCHANGED <<kind, graph, nb, dag, regularVars, iterVars, cls, nameVars>>
    \/ kind = "options" /\ Nam!Next /\ UNCHANGED <<treeVars, kind, graph, nb, dag, regularVars, iterVars, cls>>

AnySpec == AnyInit /\ [][AnyNext]_allVars

-----------------------------------------------------------------------------
(* What checkConsistency of GraphAL asserts, after any sequence of additions *)
(* and removals: no node is its own neighbour, and neighbours are dual.  And *)
(* isConnected and isTree of GraphAL and BipartiteGraph are right about      *)
(* every graph that the library lets them be called for (isTree: without     *)
(* parallel edges).                                                         *)
WalksAreRight ==
    /\ kind = "bipartite" => TreeTestIsRight /\ ConnectionTestIsRight
    /\ kind = "undirected" => AL!AdjacencyConsistent /\ AL!TestsAreRight

(* Whatever clusters a region graph is made from by the cluster variation   *)
(* method, or by HAK from the factors, the counting numbers of the regions   *)
(* around a variable add up to one, as checkCountingNumbers demands; and the *)
(* loops that HAK uses are loops, and the shortest ones are found.           *)
Scopes == [I \in DOMAIN cls |-> [vars |-> cls[I]]]

CountingNumbersRight ==
    kind = "regions" =>
        /\ CountingNumbersValid(CVMRegions(cls, cls))
        /\ \A loopdepth \in 2 .. 4 : Hak!RegionsAreRight(Scopes, loopdepth)
        /\ Hak!LoopsAreRight(Scopes)

(* While variables are eliminated for a junction tree, the list of clusters  *)
(* and their graph stay in step, and no factor is left without a region; and *)
(* what comes out is a junction tree, and no larger than it need be.         *)
JunctionTreeIsRight == GraphsMatch /\ FactorsHosted /\ RunningIntersection /\ NoNeedlessFill

(* After run() beliefs are products of all factors, and what is worked out   *)
(* from several of them is so, too.                                        *)
BeliefsAreJoint == Calibrated /\ AnswersFromTree

(* Options in nested brackets are read as they were written; through any     *)
(* aliases the outermost definition of an option wins, and following them    *)
(* ends, unless two stand for each other.                                   *)
OptionsAreResolved == kind = "options" => Nam!OptionsAreResolved
=============================================================================
