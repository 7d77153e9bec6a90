----------------------------- MODULE AlemLayers -----------------------------
(***************************************************************************)
(* The Age-Layered EM pass of `utils -alem` (mapreduce/src/utils.cpp:       *)
(* alem, ALEM_check, checkRuns).  Between two MapReduce jobs the            *)
(* population is held in layers.  The pass walks the layers upwards and    *)
(* each layer from its last run to its first; a run that reached the age   *)
(* limit of its layer moves up one layer, where it takes a free place,     *)
(* displaces a worse run, or is lost.  Then layer 0 is filled up again.    *)
(*                                                                         *)
(* Layers are numbered from 0 as in the code, the runs of a layer from 1.  *)
(***************************************************************************)
EXTENDS EMData, SequencesExt

CONSTANTS
    NumLayers,            \* numLayers
    MinRunsLayer0,        \* min_runs_layer0
    MinRunsIntermediate,  \* min_runs_intermediate
    PopSize,              \* pop_size
    AgeGap                \* agegap

ASSUME AlemAssumption ==
    /\ NumLayers \in Nat /\ NumLayers >= 2
    /\ MinRunsLayer0 \in Nat \ {0}
    /\ MinRunsIntermediate \in Nat \ {0}
    /\ PopSize \in Nat \ {0}
    /\ AgeGap \in Nat \ {0}

VARIABLES
    layers,  \* emAlgs: the runs of each layer
    pc,      \* "check" while ALEM_check runs, "refill", then "done" or "aborted"
    layer,   \* i of ALEM_check
    index,   \* j of ALEM_check, counted from 1; 0 when the layer is finished
    input    \* history: the layers this pass started from

alemVars == <<layers, pc, layer, index, input>>

Layer == 0 .. NumLayers - 1
Top == NumLayers - 1

AgeLimit(l) == IF l = Top THEN EMMaxIter ELSE AgeGap * 2^l

MinRuns(l) == CASE l = Top -> PopSize
                [] l = 0 -> MinRunsLayer0
                [] OTHER -> MinRunsIntermediate

(* The runs of a population, and how they are counted: getNumRuns counts   *)
(* the runs that have not converged, getMaxID is -1 for no run at all.     *)
Places(ls) == UNION {{l} \X DOMAIN ls[l] : l \in Layer}

AllRuns(ls) == {ls[p[1]][p[2]] : p \in Places(ls)}

(* Mutant of GetNumRuns: converged runs are counted, too.                  *)
NumRunsOfAll(ls) == Cardinality(Places(ls))

GetNumRuns(ls) == Cardinality({p \in Places(ls) : ~IsConverged(ls[p[1]][p[2]])})

(* Mutant of GetMaxID: the largest identifier if there were no gaps.       *)
CountBasedID(ls) == Cardinality(Places(ls)) - 1

GetMaxID(ls) == Max({ls[p[1]][p[2]].bnID : p \in Places(ls)} \cup {-1})

-----------------------------------------------------------------------------
(* Mutant of StartPass: j starts at size() instead of size() - 1.          *)
StartBehindLast(ls) ==
    /\ layers = ls
    /\ pc = "check"
    /\ layer = 0
    /\ index = Len(ls[0]) + 1
    /\ input = ls

(* ALEM_check starts at the last run of layer 0. *)
StartPass(ls) ==
    /\ layers = ls
    /\ pc = "check"
    /\ layer = 0
    /\ index = Len(ls[0])
    /\ input = ls

em == layers[layer][index]
next == layers[layer + 1]

Visiting == pc = "check" /\ index > 0

(* Mutant of AgedOut: a run may reach the limit of its layer and stay.     *)
AgedOutLate == layer < Top /\ em.alemItersActive > AgeLimit(layer)

AgedOut == layer < Top /\ em.alemItersActive >= AgeLimit(layer)

(* Mutant of NextIsFull: off by one.                                        *)
NextIsOverfull == Len(next) > MinRuns(layer + 1)

NextIsFull == Len(next) >= MinRuns(layer + 1)

(* Mutant of Worse: the comparison of likelihoods is reversed.              *)
Better == {k \in DOMAIN next : next[k].likelihood > em.likelihood}

Worse == {k \in DOMAIN next : next[k].likelihood < em.likelihood}

(* Mutant of MoveUpBehind: the run keeps the number of its old layer.       *)
MoveUpUntagged(others) ==
    layers' = [layers EXCEPT ![layer] = RemoveAt(@, index),
                             ![layer + 1] = Append(others, em)]

(* The run leaves its layer for the end of the next one, which holds       *)
(* `others' by then.                                                       *)
MoveUpBehind(others) ==
    layers' = [layers EXCEPT
                 ![layer] = RemoveAt(@, index),
                 ![layer + 1] = Append(others, [em EXCEPT !.ALEM_layer = layer + 1])]

(* checkRuns, the next layer has a free place. *)
Promote ==
    /\ Visiting /\ AgedOut /\ ~NextIsFull
    /\ MoveUpBehind(next)
    /\ index' = index - 1
    /\ UNCHANGED <<pc, layer, input>>

(* checkRuns, the next layer is full: the first worse run makes way. *)
Replace ==
    /\ Visiting /\ AgedOut /\ NextIsFull
    /\ \E k \in Worse :
          /\ \A m \in Worse : k <= m
          /\ MoveUpBehind(RemoveAt(next, k))
    /\ index' = index - 1
    /\ UNCHANGED <<pc, layer, input>>

(* checkRuns, the next layer is full of runs at least as good. *)
Drop ==
    /\ Visiting /\ AgedOut /\ NextIsFull
    /\ Worse = {}
    /\ layers' = [layers EXCEPT ![layer] = RemoveAt(@, index)]
    /\ index' = index - 1
    /\ UNCHANGED <<pc, layer, input>>

(* The run is too young to leave its layer, or already in the top one. *)
Keep ==
    /\ Visiting /\ ~AgedOut
    /\ index' = index - 1
    /\ UNCHANGED <<layers, pc, layer, input>>

(* The size of a layer is read when the walk enters it. *)
NextLayer ==
    /\ pc = "check" /\ index = 0
    /\ \/ /\ layer < Top
          /\ layer' = layer + 1
          /\ index' = Len(layers[layer + 1])
          /\ pc' = pc
       \/ /\ layer = Top
          /\ pc' = "refill"
          /\ UNCHANGED <<layer, index>>
    /\ UNCHANGED <<layers, input>>

(* The runs that alem() creates, with consecutive identifiers. *)
Fresh(k, id, fg, unset) == [n \in 1 .. k |-> NewRun(id + n - 1, fg[n], 0, unset)]

(* alem(), after ALEM_check: layer 0 is filled up when it holds fewer than *)
(* MinRuns(0) runs, with as many runs as the whole population is short of  *)
(* MinRuns(0) unconverged ones.                                            *)
Refill ==
    /\ pc = "refill"
    /\ Places(layers) # {}
    /\ LET k == MinRuns(0) - GetNumRuns(layers)
       IN  IF Len(layers[0]) < MinRuns(0) /\ k > 0
           THEN \E fg \in [1 .. k -> Params], unset \in Garbage :
                   layers' = [layers EXCEPT
                                ![0] = @ \o Fresh(k, GetMaxID(layers) + 1, fg, unset)]
           ELSE layers' = layers
    /\ pc' = "done"
    /\ UNCHANGED <<layer, index, input>>

(* getFirstFG finds no run to copy the graph from: an uncaught throw. *)
NoFGFound ==
    /\ pc = "refill"
    /\ Places(layers) = {}
    /\ pc' = "aborted"
    /\ UNCHANGED <<layers, layer, index, input>>

AlemNext == Promote \/ Replace \/ Drop \/ Keep \/ NextLayer \/ Refill \/ NoFGFound

-----------------------------------------------------------------------------
(* What utils can be handed: every run tagged with the layer it is sorted  *)
(* into, distinct identifiers, layers above 0 within their size.           *)
Tagged(ls) == \A l \in Layer : \A n \in DOMAIN ls[l] : ls[l][n].ALEM_layer = l

DistinctIds(ls) == \A p, q \in Places(ls) :
    ls[p[1]][p[2]].bnID = ls[q[1]][q[2]].bnID => p = q

WithinCaps(ls) == \A l \in Layer \ {0} : Len(ls[l]) <= MinRuns(l)

IsPopulation(ls) ==
    /\ ls \in [Layer -> Seq(EMdata)]
    /\ Tagged(ls) /\ DistinctIds(ls) /\ WithinCaps(ls)

AlemInit == \E ls \in [Layer -> Seq(EMdata)] : IsPopulation(ls) /\ StartPass(ls)

AlemSpec == AlemInit /\ [][AlemNext]_alemVars

-----------------------------------------------------------------------------
TypeOK ==
    /\ layers \in [Layer -> Seq(EMdata)]
    /\ pc \in {"check", "refill", "done", "aborted"}
    /\ layer \in Layer
    /\ index \in Nat
    /\ pc = "check" => index <= Len(layers[layer])
    /\ input \in [Layer -> Seq(EMdata)]

(* Elitism: whatever the pass discards, a run at least as good is left.    *)
(* Two places discard (a displaced run and a run that finds no place), and *)
(* a displaced run may itself have displaced another one.  In particular a *)
(* population never dies out: getFirstFG's "Should never happen"           *)
(* (utils.cpp:130) holds of a pass that was handed a run.                  *)
BestSurvives ==
    \A r \in AllRuns(input) : \E s \in AllRuns(layers) : s.likelihood >= r.likelihood

(* No layer above 0 ever outgrows its M_i, although runs are pushed onto   *)
(* it while the layer below is still being walked.                         *)
LayerCaps == WithinCaps(layers)

(* The identifier is the reducer's grouping key: two runs with one         *)
(* identifier would be merged into one run by the next job.                *)
UniqueIds == DistinctIds(layers)

(* The next job sorts the runs into layers by their ALEM_layer, so a run   *)
(* that moved must carry its new layer.                                    *)
LayerTags == Tagged(layers)

(* After the walk no run sits in a layer below the top at or above the age *)
(* limit of that layer.                                                    *)
NoneAgedOut ==
    pc # "check" => \A l \in Layer \ {Top} : \A n \in DOMAIN layers[l] :
                        ~(layers[l][n].alemItersActive >= AgeLimit(l))

(* Every run is where its layer number says and, after the walk, where its *)
(* age belongs, although the walk erases from and pushes onto the vectors  *)
(* it iterates over.                                                       *)
Stratified == LayerTags /\ NoneAgedOut

(* The pass leaves work to do: layer 0 is full, or MinRuns(0) runs of the  *)
(* population are still iterating.  A population of converged runs below   *)
(* the top could otherwise stall for ever.                                 *)
KeepsIterating ==
    LET iterating == {p \in Places(layers) : ~IsConverged(layers[p[1]][p[2]])}
    IN  pc = "done" => \/ Len(layers[0]) >= MinRuns(0)
                       \/ Cardinality(iterating) >= MinRuns(0)

(* The comment at utils.cpp:174: counting the total population puts a cap  *)
(* on the population size, so that filling up layer 0 never takes the      *)
(* population above MinRuns(0).                                            *)
PopulationCapped ==
    [][pc = "refill" => layers' = layers \/ Cardinality(Places(layers')) <= MinRuns(0)]_alemVars
=============================================================================
