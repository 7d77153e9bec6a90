---------------------------- MODULE RegularGraph ----------------------------
(***************************************************************************)
(* createGraphRegular (src/graph.cpp): a random graph in which each of N    *)
(* nodes has d neighbours, where N is Nodes and d is Degree.  Each node is a *)
(* group of d points; random pairs of unpaired points are joined, as long as *)
(* there is a suitable pair, and if points are left over it all begins again.*)
(***************************************************************************)
EXTENDS Integers, FiniteSets

CONSTANTS
    Nodes, Degree,  \* how many nodes, and how many neighbours of each
    MaxTries        \* bound: attempts

(* What createGraphRegular asserts.                                         *)
ASSUME RegularAssumption == {Nodes, Degree} \subseteq Nat /\ (Nodes * Degree) % 2 = 0 /\ Degree < Nodes

VARIABLES
    unpaired,  \* the set U of unpaired points
    pairing,   \* the edges so far, as sets of two nodes
    tries,
    ready

regularVars == <<unpaired, pairing, tries, ready>>

Points == 0 .. Nodes * Degree - 1

Group(point) == point \div Degree

Neighbors(n) == {m \in 0 .. Nodes - 1 : {n, m} \in pairing /\ m # n}

(* Nothing is done for degree 0.                                           *)
RegularInit ==
    /\ unpaired = Points
    /\ pairing = {}
    /\ tries = 1
    /\ ready = (Degree = 0)

(* Mutant of Suitable: an edge may come a second time.                      *)
InTwoGroups(i, j) == Group(i) # Group(j)

Suitable(i, j) == Group(i) # Group(j) /\ {Group(i), Group(j)} \notin pairing

(* random_shuffle puts any suitable pair first.                            *)
Pair(i, j) ==
    /\ ~ready
    /\ Suitable(i, j)
    /\ pairing' = pairing \cup {{Group(i), Group(j)}}
    /\ unpaired' = unpaired \ {i, j}
    /\ UNCHANGED <<tries, ready>>

NoPair == \A i, j \in unpaired : ~Suitable(i, j)

(* The attempt has ended with every point paired; then the degrees are      *)
(* checked once more.                                                      *)
Finish ==
    /\ ~ready
    /\ unpaired = {}
    /\ ready' = \A n \in 0 .. Nodes - 1 : Cardinality(Neighbors(n)) = Degree
    /\ IF ready' THEN UNCHANGED <<unpaired, pairing, tries>>
       ELSE tries < MaxTries /\ unpaired' = Points /\ pairing' = {} /\ tries' = tries + 1

Restart ==
    /\ ~ready
    /\ unpaired # {} /\ NoPair
    /\ tries < MaxTries
    /\ unpaired' = Points /\ pairing' = {} /\ tries' = tries + 1
    /\ UNCHANGED ready

RegularNext == (\E i, j \in unpaired : Pair(i, j)) \/ Finish \/ Restart

RegularSpec == RegularInit /\ [][RegularNext]_regularVars

-----------------------------------------------------------------------------
(* Each node has as many unpaired points as it lacks neighbours; so with all *)
(* points paired every node has its neighbours, and the check of the degrees *)
(* at the end never sends an attempt back.                                  *)
PointsAreNeighborsToCome ==
    Degree > 0 =>
        /\ \A n \in 0 .. Nodes - 1 :
              Cardinality({i \in unpaired : Group(i) = n}) + Cardinality(Neighbors(n)) = Degree
        /\ ready => \A n \in 0 .. Nodes - 1 : Cardinality(Neighbors(n)) = Degree

=============================================================================
