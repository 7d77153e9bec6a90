---------------------------- MODULE MapReduceJob ----------------------------
(***************************************************************************)
(* One MapReduce job as mr_streaming.sh submits it (mr_local.sh is the      *)
(* case of one mapper and one reducer): a mapper per shard of the evidence *)
(* runs dai_map over the whole population, the lines are sorted by key and *)
(* dealt to the reducers, each of which runs dai_reduce, and the driver    *)
(* concatenates what they wrote.  A task that fails is started again from  *)
(* its beginning and its partial output is thrown away.                    *)
(***************************************************************************)
EXTENDS DaiReduce, Enumerations

CONSTANTS
    Dat,           \* in/dat: the population, shipped to every mapper
    Partition(_),  \* the reducer that a key goes to
    MaxCrashes     \* bound: task failures during the job

ASSUME JobAssumption ==
    /\ Dat \in Seq(EMdata)
    /\ \A m, n \in DOMAIN Dat : Dat[m].bnID = Dat[n].bnID => m = n
    /\ \A n \in DOMAIN Dat : Partition(Dat[n].bnID) \in Reducers
    /\ MaxCrashes \in Nat

VARIABLES
    phase,    \* "map", then "reduce", then "done"
    emitted,  \* the lines each mapper has written so far
    mapped,   \* the mappers that have reached the end of in/dat
    crashes,  \* counted against MaxCrashes
    outTmp    \* dat/out/tmp, what utils is fed

jobVars == <<phase, emitted, mapped, crashes, outTmp, reduceVars>>

JobInit ==
    /\ phase = "map"
    /\ emitted = [s \in Shards |-> << >>]
    /\ mapped = {}
    /\ crashes = 0
    /\ outTmp = << >>
    /\ StartReducers([r \in Reducers |-> << >>])

-----------------------------------------------------------------------------
(* dai_map reads the next run and writes its line. *)
Emit(s) ==
    /\ phase = "map" /\ s \notin mapped
    /\ Len(emitted[s]) < Len(Dat)
    /\ emitted' = [emitted EXCEPT ![s] = Append(@, MapRecord(Dat[Len(@) + 1], s))]
    /\ UNCHANGED <<phase, mapped, crashes, outTmp, reduceVars>>

(* The archive is exhausted; the task commits its output. *)
MapDone(s) ==
    /\ phase = "map" /\ s \notin mapped
    /\ Len(emitted[s]) = Len(Dat)
    /\ mapped' = mapped \cup {s}
    /\ UNCHANGED <<phase, emitted, crashes, outTmp, reduceVars>>

(* A mapper fails before it commits. *)
MapCrash(s) ==
    /\ phase = "map" /\ s \notin mapped
    /\ crashes < MaxCrashes
    /\ crashes' = crashes + 1
    /\ emitted' = [emitted EXCEPT ![s] = << >>]
    /\ UNCHANGED <<phase, mapped, outTmp, reduceVars>>

(* Line n of mapper s is <<s, n>>; those on their way to reducer r.         *)
Arriving(r) ==
    {p \in UNION {{s} \X DOMAIN emitted[s] : s \in Shards} : Partition(emitted[p[1]][p[2]].key) = r}

InOrder(order) == [i \in DOMAIN order |-> emitted[order[i][1]][order[i][2]]]

(* What the reducer may read: the lines are sorted by key - a text, or with *)
(* sort -g a number - and so those of one key come together, in any order.  *)
Inputs(r) ==
    LET N == Cardinality(Arriving(r))
    IN  {InOrder(order) : order \in {o \in [1 .. N -> Arriving(r)] : IsInjective(o) /\ Grouped(InOrder(o))}}

Shuffle ==
    /\ phase = "map" /\ mapped = Shards
    /\ phase' = "reduce"
    /\ \E inputs \in {[r \in Reducers |-> Inputs(r)]} :
          \E ls \in [Reducers -> UNION {inputs[r] : r \in Reducers}] :
             (\A r \in Reducers : ls[r] \in inputs[r]) /\ lines' = ls
    /\ UNCHANGED <<emitted, mapped, crashes, outTmp, pos, dats, ids, out, running, reduced>>

Reduce(r) ==
    /\ phase = "reduce"
    /\ ReduceStep(r)
    /\ UNCHANGED <<phase, emitted, mapped, crashes, outTmp>>

(* A reducer fails before it commits. *)
ReduceCrash(r) ==
    /\ phase = "reduce" /\ running[r]
    /\ crashes < MaxCrashes
    /\ crashes' = crashes + 1
    /\ ReducerReset(r)
    /\ UNCHANGED <<phase, emitted, mapped, outTmp, lines, running>>

(* hadoop fs -cat out/part-* *)
Collect ==
    /\ phase = "reduce" /\ \A r \in Reducers : ~running[r]
    /\ phase' = "done"
    /\ outTmp' = Concatenated(out)
    /\ UNCHANGED <<emitted, mapped, crashes, reduceVars>>

JobNext ==
    \/ \E s \in Shards : Emit(s) \/ MapDone(s) \/ MapCrash(s)
    \/ Shuffle
    \/ \E r \in Reducers : Reduce(r) \/ ReduceCrash(r)
    \/ Collect

(* Hadoop keeps running a task until it succeeds; failing is not a duty.   *)
JobFairness ==
    /\ \A s \in Shards : WF_jobVars(Emit(s) \/ MapDone(s))
    /\ WF_jobVars(Shuffle)
    /\ \A r \in Reducers : WF_jobVars(Reduce(r))
    /\ WF_jobVars(Collect)

JobSpec == JobInit /\ [][JobNext]_jobVars /\ JobFairness

-----------------------------------------------------------------------------
(* Every group that reaches an M-step holds the counts of each shard and   *)
(* the pseudo-counts exactly once, whatever was retried or reordered.      *)
StatsComplete ==
    \A r \in Reducers : \A n \in DOMAIN reduced[r] :
        MergedStats(reduced[r][n]) = CompleteStats

(* The job hands on exactly one successor of every run: none is lost to a  *)
(* crash, and none duplicated by a retry or by two reducers.               *)
RunsPreserved ==
    phase = "done" =>
        /\ Len(outTmp) = Len(Dat)
        /\ \A n \in DOMAIN Dat :
              \E m \in DOMAIN outTmp : outTmp[m].bnID = Dat[n].bnID

(* Runs that a reducer has committed. *)
Committed == UNION {Range(out[r]) : r \in {q \in Reducers : ~running[q]}}

(* The job implements an iteration of every run, with its statistics and   *)
(* likelihood from the whole evidence: see EMRound.  Nothing else of how    *)
(* the work was shared, ordered or retried shows in what it hands on.       *)
Round == INSTANCE EMRound WITH result <- Committed

ImplementsRound == Round!RoundSpec

(* README.md:103 runs standard EM with ten mappers; dai_reduce.cpp:63 says *)
(* the reducer collects the statistics of each set of evidence.  So a      *)
(* reduced run carries the log-likelihood of the whole evidence.           *)
LikelihoodIsTotal ==
    phase = "done" =>
        \A m \in DOMAIN outTmp : \E n \in DOMAIN Dat :
            /\ Dat[n].bnID = outTmp[m].bnID
            /\ outTmp[m].likelihood = Round!TotalLik(Dat[n].fg)
=============================================================================
