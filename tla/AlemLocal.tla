----------------------------- MODULE AlemLocal ------------------------------
(***************************************************************************)
(* The stand-alone Age-Layered EM, mapreduce/src/alem.cpp: one process     *)
(* holds every run as an EMAlg object (src/emalg.cpp) in its layer.  The   *)
(* loop of ALEM_check fills up layer 0, iterates all runs in parallel,     *)
(* and then walks the layers upwards, each from its last run to its first: *)
(* runs past the age limit move up, converged runs of the top layer are    *)
(* counted.  The loop ends when pop_size runs have been counted.           *)
(***************************************************************************)
EXTENDS Integers, SequencesExt

CONSTANTS
    Params,               \* values of the factor graph's parameters
    MaxIters,             \* EMAlg::MAX_ITERS_DEFAULT
    TolNum, TolDen,       \* EMAlg::LOG_Z_TOL_DEFAULT is TolNum / TolDen
    NumLayers,            \* numLayers
    MinRunsLayer0,        \* min_runs_layer0
    MinRunsIntermediate,  \* min_runs_intermediate
    PopSize,              \* pop_size
    AgeGap,               \* agegap
    Lik,                  \* Lik[fg]: log-likelihood of the evidence
    MStep                 \* MStep[fg]: what an EM iteration may lead to

ASSUME AlemLocalAssumption ==
    /\ MaxIters \in Nat \ {0}
    /\ TolNum \in Nat /\ TolDen \in Nat \ {0}
    /\ NumLayers \in Nat /\ NumLayers >= 2
    /\ {MinRunsLayer0, MinRunsIntermediate, PopSize, AgeGap} \subseteq Nat \ {0}
    /\ Lik \in [Params -> Int]
    /\ MStep \in [Params -> (SUBSET Params) \ {{}}]

VARIABLES
    layers,         \* emAlgs
    pc,             \* "refill", "iterate", "check", "done"
    todo,           \* the runs that the parallel loop has yet to iterate
    layer, index,   \* i and j of the walk, j counted from 1
    runsTerminated  \* converged runs counted so far

localVars == <<layers, pc, todo, layer, index, runsTerminated>>

Layer == 0 .. NumLayers - 1
Top == NumLayers - 1
AgeLimit(l) == AgeGap * 2^l  \* of the layers below the top
MinRuns(l) == CASE l = Top -> PopSize
                [] l = 0 -> MinRunsLayer0
                [] OTHER -> MinRunsIntermediate

(* EMAlg: logZ is the end of _lastLogZ, prevLogZ the entry before it.      *)
EMAlg == [fg : Params, iters : Nat, logZ : Int, prevLogZ : Int,
          ALEM_active : BOOLEAN, alemItersActive : Nat]

InitEMAlg(fg) ==
    [fg |-> fg, iters |-> 0, logZ |-> 0, prevLogZ |-> 0,
     ALEM_active |-> FALSE, alemItersActive |-> 0]

Magnitude(x) == IF x < 0 THEN -x ELSE x

HasSatisfiedTermConditions(em) ==
    \/ em.iters >= MaxIters
    \/ /\ em.iters >= 3
       /\ em.prevLogZ # 0
       /\ LET diff == em.logZ - em.prevLogZ
          IN  diff < 0 \/ diff * TolDen <= TolNum * Magnitude(em.prevLogZ)

(* Mutant of Iterated: ALEM_active is set before the test.                  *)
IteratedAlwaysActive(em) ==
    IF HasSatisfiedTermConditions(em)
    THEN {[em EXCEPT !.ALEM_active = TRUE, !.alemItersActive = @ + 1]}
    ELSE {[fg |-> fg, iters |-> em.iters + 1, logZ |-> Lik[em.fg], prevLogZ |-> em.logZ,
           ALEM_active |-> TRUE, alemItersActive |-> em.iters + 1] : fg \in MStep[em.fg]}

(* The body of the parallel loop for one run. *)
Iterated(em) ==
    IF HasSatisfiedTermConditions(em)
    THEN {[em EXCEPT !.alemItersActive = @ + 1]}
    ELSE {[fg |-> fg, iters |-> em.iters + 1, logZ |-> Lik[em.fg], prevLogZ |-> em.logZ,
           ALEM_active |-> TRUE, alemItersActive |-> em.iters + 1] : fg \in MStep[em.fg]}

Places(ls) == UNION {{l} \X DOMAIN ls[l] : l \in Layer}

(* Mutant of GetNumRuns: what the commented-out line of the code counted.   *)
NumRunsInLayer0 == Len(layers[0])

GetNumRuns == Cardinality(Places(layers))

LocalInit ==
    /\ \E fg \in [1 .. MinRuns(0) -> Params] :
          layers = [l \in Layer |->
                      IF l = 0 THEN [n \in 1 .. MinRuns(0) |-> InitEMAlg(fg[n])] ELSE << >>]
    /\ pc = "refill" /\ todo = {} /\ layer = 0 /\ index = 0
    /\ runsTerminated = 0

-----------------------------------------------------------------------------
(* Layer 0 is filled up to min_runs[0] runs in the whole population. *)
Refill ==
    /\ pc = "refill"
    /\ LET k == MinRuns(0) - GetNumRuns
       IN  IF Len(layers[0]) < MinRuns(0) /\ k > 0
           THEN \E fg \in [1 .. k -> Params] :
                   layers' = [layers EXCEPT ![0] = @ \o [n \in 1 .. k |-> InitEMAlg(fg[n])]]
           ELSE layers' = layers
    /\ todo' = Places(layers')
    /\ pc' = "iterate"
    /\ UNCHANGED <<layer, index, runsTerminated>>

(* One thread of the parallel loop. *)
Iterate(p) ==
    /\ pc = "iterate" /\ p \in todo
    /\ \E em \in Iterated(layers[p[1]][p[2]]) :
          layers' = [layers EXCEPT ![p[1]][p[2]] = em]
    /\ todo' = todo \ {p}
    /\ UNCHANGED <<pc, layer, index, runsTerminated>>

(* All threads have joined. *)
StartWalk ==
    /\ pc = "iterate" /\ todo = {}
    /\ pc' = "check"
    /\ layer' = 0 /\ index' = Len(layers[0])
    /\ UNCHANGED <<layers, todo, runsTerminated>>

Visiting == pc = "check" /\ index > 0
Visited == layers[layer][index]
Above == layers[layer + 1]

Counts == layer = Top /\ Visited.ALEM_active /\ HasSatisfiedTermConditions(Visited)

(* Mutant of CountTerminated: ALEM_active is not cleared.                   *)
CountStillActive ==
    /\ Visiting /\ Counts
    /\ runsTerminated' = runsTerminated + 1
    /\ index' = index - 1
    /\ UNCHANGED <<layers, pc, todo, layer>>

(* A run of the top layer that has newly converged. *)
CountTerminated ==
    /\ Visiting /\ Counts
    /\ layers' = [layers EXCEPT ![layer][index].ALEM_active = FALSE]
    /\ runsTerminated' = runsTerminated + 1
    /\ index' = index - 1
    /\ UNCHANGED <<pc, todo, layer>>

AgedOut == layer < Top /\ Visited.alemItersActive >= AgeLimit(layer)

Worse == {k \in DOMAIN Above : Above[k].logZ < Visited.logZ}

(* checkRuns: the run moves to the end of the next layer if that has room, *)
(* or in exchange for the first worse run there, and else is lost.         *)
CheckRuns ==
    /\ Visiting /\ ~Counts /\ AgedOut
    /\ LET without == [layers EXCEPT ![layer] = RemoveAt(@, index)]
           behind(others) == [without EXCEPT ![layer + 1] = Append(others, Visited)]
       IN  \/ /\ Len(Above) < MinRuns(layer + 1)
              /\ layers' = behind(Above)
           \/ /\ Len(Above) >= MinRuns(layer + 1) /\ Worse # {}
              /\ layers' = behind(RemoveAt(Above, Min(Worse)))
           \/ /\ Len(Above) >= MinRuns(layer + 1) /\ Worse = {}
              /\ layers' = without
    /\ index' = index - 1
    /\ UNCHANGED <<pc, todo, layer, runsTerminated>>

(* Mutant of Keep: j is not decremented when nothing is erased.             *)
KeepStanding ==
    /\ Visiting /\ ~Counts /\ ~AgedOut
    /\ UNCHANGED localVars

Keep ==
    /\ Visiting /\ ~Counts /\ ~AgedOut
    /\ index' = index - 1
    /\ UNCHANGED <<layers, pc, todo, layer, runsTerminated>>

NextLayer ==
    /\ pc = "check" /\ index = 0 /\ layer < Top
    /\ layer' = layer + 1
    /\ index' = Len(layers[layer + 1])
    /\ UNCHANGED <<layers, pc, todo, runsTerminated>>

(* The condition of the while loop. *)
EndOfWalk ==
    /\ pc = "check" /\ index = 0 /\ layer = Top
    /\ pc' = IF runsTerminated < PopSize THEN "refill" ELSE "done"
    /\ UNCHANGED <<layers, todo, layer, index, runsTerminated>>

LocalNext ==
    \/ Refill
    \/ \E p \in todo : Iterate(p)
    \/ StartWalk \/ CountTerminated \/ CheckRuns \/ Keep \/ NextLayer \/ EndOfWalk

(* A running process keeps running, and the threads of the loop all finish. *)
LocalSpec == LocalInit /\ [][LocalNext]_localVars /\ WF_localVars(LocalNext)

-----------------------------------------------------------------------------
(* The population never exceeds the size of layer 0, so the parallel loop  *)
(* has a fixed amount of work.                                             *)
PopulationBounded == Cardinality(Places(layers)) <= MinRuns(0)

(* A run is counted once, however often its layer is walked afterwards:    *)
(* between passes a converged run in the top layer has been counted, and   *)
(* the counter is no smaller than the number of such runs.                 *)
CountedOnce ==
    LET counted == {n \in DOMAIN layers[Top] : ~layers[Top][n].ALEM_active}
    IN  /\ Cardinality(counted) <= runsTerminated
        /\ pc = "refill" =>
              \A n \in DOMAIN layers[Top] :
                  HasSatisfiedTermConditions(layers[Top][n]) => n \in counted

(* A run that has been counted never becomes active again.                 *)
CountIsFinal ==
    [][\A n \in DOMAIN layers[Top] :
          pc = "iterate" /\ layers[Top][n].iters > 0 /\ ~layers[Top][n].ALEM_active
              => ~layers'[Top][n].ALEM_active]_localVars

(* Runs that have converged are counted once, and the population that       *)
(* shares the work of the loop stays within its bound.                      *)
CountedForGood == [](PopulationBounded /\ CountedOnce) /\ CountIsFinal

(* The loop ends. *)
Terminates == <>(pc = "done")
=============================================================================
