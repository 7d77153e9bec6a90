------------------------------ MODULE EMDriver ------------------------------
(***************************************************************************)
(* The local driver, mapreduce/scripts/mr_local.sh: iterations of          *)
(*     dai_map | sort | dai_reduce | utils -u    (or utils -alem)          *)
(* on a population kept in in/dat, until utils reports convergence, the    *)
(* time is up, or MAX_ITERS iterations are over.                           *)
(*                                                                         *)
(* The evidence is one shard.  A pipeline reports the status of its last   *)
(* process only, so a mapper or reducer that aborts merely ends the input  *)
(* of the next process early.                                              *)
(***************************************************************************)
EXTENDS AlemLayers, EMSteps, Enumerations

CONSTANTS
    Pop,         \* $POP
    Flags,       \* the values of $EM_FLAGS, a subset of {"-u", "-alem"}
    MaxIters,    \* $MAX_ITERS
    Timed,       \* whether $start_time and $time_duration are set
    MaxCrashes   \* bound: processes of the pipeline that abort

ASSUME DriverAssumption ==
    /\ Pop \in Nat \ {0}
    /\ Flags # {} /\ Flags \subseteq {"-u", "-alem"}
    /\ MaxIters \in Nat \ {0}
    /\ Timed \in BOOLEAN
    /\ MaxCrashes \in Nat
    /\ Cardinality(Shards) = 1

VARIABLES
    flags,      \* $EM_FLAGS
    stage,      \* where the script is
    inDat,      \* in/dat
    piped,      \* the runs that reach utils
    outDat,     \* out/dat
    converged,  \* out/converged
    iteration,  \* $i
    best,       \* "Best EM likelihood so far", as last printed
    crashes     \* counted against MaxCrashes

scriptVars == <<flags, inDat, iteration, crashes>>
driverVars == <<scriptVars, stage, piped, outDat, converged, best, alemVars>>

Ended == {"complete", "timeout", "exhausted", "failed"}

NoLayers == [l \in Layer |-> << >>]
Unstarted == -1000000  \* -1e100, below every likelihood

(* utils fg $POP: the initial population. *)
DriverInit ==
    /\ flags \in Flags
    /\ stage = "job"
    /\ \E fg \in [1 .. Pop -> Params], age, unset \in Garbage :
          inDat = [n \in 1 .. Pop |-> NewRun(n - 1, fg[n], age, unset)]
    /\ piped = << >> /\ outDat = << >> /\ converged = FALSE
    /\ iteration = 1 /\ best = Unstarted /\ crashes = 0
    /\ StartPass(NoLayers)

-----------------------------------------------------------------------------
TheShard == CHOOSE s \in Shards : TRUE

MappedRuns(runs) == [n \in DOMAIN runs |-> MapRecord(runs[n], TheShard)]

KeysOf(lns) == {lns[n].key : n \in DOMAIN lns}

(* sort -g orders the lines by key; the lines of one key are one group.    *)
SortedKeys(lns) == Ascending(KeysOf(lns))

GroupOf(lns, key) == AtPositions(lns, {n \in DOMAIN lns : lns[n].key = key})

(* What the lines of a key are reduced to (the group is bound by a          *)
(* quantifier so that TLC evaluates it once).                              *)
Outcomes(lns, key) == UNION {EmReduce(group) : group \in {GroupOf(lns, key)}}

(* The outputs that the reducer may produce; written[n] is from n groups.   *)
ReducedRuns(lns) ==
    LET written[n \in 0 .. Cardinality(KeysOf(lns))] ==
            IF n = 0 THEN {<< >>}
            ELSE {Append(w, r) : w \in written[n - 1], r \in Outcomes(lns, SortedKeys(lns)[n])}
    IN  written[Cardinality(KeysOf(lns))]

CutShort(s) == {SubSeq(s, 1, n) : n \in 0 .. Len(s) - 1}

Job ==
    /\ stage = "job"
    /\ piped' \in ReducedRuns(MappedRuns(inDat))
    /\ stage' = "utils"
    /\ UNCHANGED <<scriptVars, outDat, converged, best, alemVars>>

(* dai_map aborts after some runs, or dai_reduce after writing some.       *)
JobCrash ==
    /\ stage = "job"
    /\ crashes < MaxCrashes
    /\ crashes' = crashes + 1
    /\ \/ \E runs \in CutShort(inDat) : piped' \in ReducedRuns(MappedRuns(runs))
       \/ \E runs \in ReducedRuns(MappedRuns(inDat)) : piped' \in CutShort(runs)
    /\ stage' = "utils"
    /\ UNCHANGED <<flags, inDat, iteration, outDat, converged, best, alemVars>>

BestOf(runs) == Max({r.likelihood : r \in Range(runs)} \cup {Unstarted})

(* utils -u *)
Update ==
    /\ stage = "utils" /\ flags = "-u"
    /\ outDat' = piped
    /\ converged' = \A n \in DOMAIN piped : IsConverged(piped[n])
    /\ best' = BestOf(piped)
    /\ piped' = << >>
    /\ stage' = "files"
    /\ UNCHANGED <<scriptVars, alemVars>>

InLayer(runs, l) == {n \in DOMAIN runs : runs[n].ALEM_layer = l}

SortedIntoLayers(runs) == [l \in Layer |-> AtPositions(runs, InLayer(runs, l))]

NumConverged(ls) == Cardinality({n \in DOMAIN ls[Top] : IsConverged(ls[Top][n])})

(* alem() is called with the layers `ls'; with none, utils has ended.       *)
BeginPass(ls) ==
    /\ layers' = ls /\ input' = ls
    /\ pc' = "check"
    /\ layer' = 0
    /\ index' = Len(ls[0])

(* Mutant of AlemConverged: out/converged says that there is more to do.   *)
AlemConvergedSilently ==
    /\ stage = "utils" /\ flags = "-alem"
    /\ NumConverged(SortedIntoLayers(piped)) >= PopSize
    /\ outDat' = Concatenated(SortedIntoLayers(piped))
    /\ converged' = FALSE
    /\ best' = BestOf(piped)
    /\ piped' = << >>
    /\ stage' = "files"
    /\ UNCHANGED <<scriptVars, alemVars>>

(* utils -alem, when the top layer has pop_size converged runs; the         *)
(* population is written layer by layer.                                   *)
AlemConverged ==
    /\ stage = "utils" /\ flags = "-alem"
    /\ NumConverged(SortedIntoLayers(piped)) >= PopSize
    /\ outDat' = Concatenated(SortedIntoLayers(piped))
    /\ converged' = TRUE
    /\ best' = BestOf(piped)
    /\ piped' = << >>
    /\ stage' = "files"
    /\ UNCHANGED <<scriptVars, alemVars>>

(* utils -alem, otherwise: alem() rearranges the population. *)
AlemStart ==
    /\ stage = "utils" /\ flags = "-alem"
    /\ NumConverged(SortedIntoLayers(piped)) < PopSize
    /\ BeginPass(SortedIntoLayers(piped))
    /\ best' = BestOf(piped)
    /\ piped' = << >>
    /\ stage' = "alem"
    /\ UNCHANGED <<scriptVars, outDat, converged>>

AlemStep ==
    /\ stage = "alem"
    /\ AlemNext
    /\ UNCHANGED <<scriptVars, stage, piped, outDat, converged, best>>

(* alem() returns and utils writes the population. *)
AlemEnd ==
    /\ stage = "alem" /\ pc = "done"
    /\ outDat' = Concatenated(layers)
    /\ converged' = FALSE
    /\ stage' = "files"
    /\ BeginPass(NoLayers)
    /\ UNCHANGED <<scriptVars, piped, best>>

(* utils dies of the throw, and so does the script (bash -e). *)
AlemAbort ==
    /\ stage = "alem" /\ pc = "aborted"
    /\ stage' = "failed"
    /\ BeginPass(NoLayers)
    /\ UNCHANGED <<scriptVars, piped, outDat, converged, best>>

(* The files are moved; the time is tested before out/converged is. *)
NextIteration ==
    /\ stage = "files"
    /\ inDat' = outDat /\ outDat' = << >>
    /\ \/ Timed /\ stage' = "timeout" /\ UNCHANGED iteration
       \/ converged /\ stage' = "complete" /\ UNCHANGED iteration
       \/ /\ ~converged
          /\ IF iteration < MaxIters
             THEN stage' = "job" /\ iteration' = iteration + 1
             ELSE stage' = "exhausted" /\ UNCHANGED iteration
    /\ UNCHANGED <<flags, crashes, piped, converged, best, alemVars>>

DriverNext ==
    \/ Job \/ JobCrash
    \/ Update
    \/ AlemConverged \/ AlemStart \/ AlemStep \/ AlemEnd \/ AlemAbort
    \/ NextIteration

(* A script and the processes it waits for run on until they end.          *)
DriverSpec == DriverInit /\ [][DriverNext]_driverVars /\ WF_driverVars(DriverNext)

-----------------------------------------------------------------------------
(* mr_local.sh:17: "-u corresponds to update; standard EM with fixed       *)
(* population size".  The $POP runs created at the start are there after   *)
(* every iteration.                                                        *)
PopulationFixed ==
    flags = "-u" =>
        /\ Len(inDat) = Pop
        /\ \A n \in 1 .. Pop : inDat[n].bnID = n - 1

(* The identifiers of a population are distinct over all iterations, also  *)
(* after a crash: utils -alem creates identifiers from the largest that is *)
(* left, the reducer merges runs with equal identifiers.                   *)
DistinctRuns ==
    \A m, n \in DOMAIN inDat : inDat[m].bnID = inDat[n].bnID => m = n

(* What alem() is handed is what AlemLayers assumes: tagged runs, distinct *)
(* identifiers, no layer above its size.  Moreover a run is in the layer   *)
(* of its age: past the limit of the layer below, at most just reaching    *)
(* that of its own.                                                        *)
AgesFit(ls) ==
    \A l \in Layer : \A n \in DOMAIN ls[l] :
        /\ l > 0 => ls[l][n].alemItersActive > AgeLimit(l - 1)
        /\ l < Top => ls[l][n].alemItersActive <= AgeLimit(l)

PassInputFits == stage = "alem" => IsPopulation(input) /\ AgesFit(input)

(* A run rests when the reducer's test finds it converged. *)
Rests(r) == IsConverged(MapRecord(r, TheShard).run)

(* Resting is for ever: the reducer leaves the parameters of such a run    *)
(* alone and so it must find it converged in every later iteration, with   *)
(* the likelihoods that the mapper then computes.                          *)
RestIsFinal ==
    [][\A m \in DOMAIN inDat, n \in DOMAIN piped' :
          stage = "job" /\ piped'[n].bnID = inDat[m].bnID /\ Rests(inDat[m])
              => piped'[n].fg = inDat[m].fg /\ Rests(piped'[n])]_driverVars

(* alemItersActive counts the iterations since the run was created, also   *)
(* while it rests, although the reducer overwrites it with iter while the  *)
(* run is active.                                                          *)
AgeIsCounted ==
    [][\A m \in DOMAIN inDat, n \in DOMAIN piped' :
          stage = "job" /\ piped'[n].bnID = inDat[m].bnID
              => piped'[n].alemItersActive =
                    1 + (IF inDat[m].iter = 0 THEN 0 ELSE inDat[m].alemItersActive)]_driverVars

(* "Best EM likelihood so far" is the best of the current population alone  *)
(* (utils.cpp:248-257, 294), so it may go down: the estimates may have       *)
(* pseudo-counts, and a process may abort.  But a run that has it goes into  *)
(* the next job, whatever the passes displace and discard.  So it goes down  *)
(* only when that run comes back from its job worse, or is lost with a       *)
(* process that aborts; and the population that the script leaves behind     *)
(* has a run as good as the likelihood printed last.                        *)
HoldsBest(r) == r.iter > 0 /\ r.likelihood >= best

FellInJob(r) == \E s \in Range(piped) : s.bnID = r.bnID /\ s.likelihood < r.likelihood

LostInJob(r) == crashes > 0 /\ \A s \in Range(piped) : s.bnID # r.bnID

BestNeverDiscarded ==
    [][/\ best' < best =>
             \E r \in Range(inDat) : HoldsBest(r) /\ (FellInJob(r) \/ LostInJob(r))
       /\ stage' \in Ended /\ best' # Unstarted => (\E r \in Range(inDat) : HoldsBest(r))']_driverVars

(* What the theorems about the ages suppose of likelihoods: they are         *)
(* logarithms of probabilities, and the tolerance is below one.             *)
LikelihoodsAreLogs ==
    TolNum < TolDen /\ \A fg \in Params, s \in Shards : ShardLik[fg][s] <= 0

(* "EM complete!" is reached: the population does not move up and down for *)
(* ever, and neither loop needs MAX_ITERS to end.                          *)
Completes == <>(stage = "complete")
=============================================================================
