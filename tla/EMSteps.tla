------------------------------ MODULE EMSteps ------------------------------
(***************************************************************************)
(* One EM iteration split into a map step and a reduce step:               *)
(* mapper() of mapreduce/src/dai_map.cpp runs the E-step of one run on one  *)
(* shard of the evidence, em_reduce() of dai_reduce.cpp merges the shards   *)
(* and runs the M-step.                                                    *)
(*                                                                         *)
(* Sufficient statistics are modelled by what went into them: how often    *)
(* the prior pseudo-counts and how often the counts of each shard.         *)
(***************************************************************************)
EXTENDS EMData, SequencesExt

CONSTANTS
    Shards,    \* the pieces the evidence is split into, one per mapper
    ShardLik,  \* ShardLik[fg][s]: log-likelihood of shard s under fg
    MStep      \* MStep[fg]: what maximising the statistics of fg may return

ASSUME EMStepsAssumption ==
    /\ IsFiniteSet(Shards) /\ Shards # {}
    /\ ShardLik \in [Params -> [Shards -> Int]]
    /\ MStep \in [Params -> (SUBSET Params) \ {{}}]

Stats == [prior : Int, counts : [Shards -> Int]]

(* A line that a mapper emits: key*value. *)
Line == [key : Nat, run : EMdata, stats : Stats]

(* Statistics are initialised with the pseudo-counts (_initial_stats).     *)
ShardStats(s) == [prior |-> 1, counts |-> [t \in Shards |-> IF t = s THEN 1 ELSE 0]]

(* Mutant of AddExpectations: the pseudo-counts of each shard are added.    *)
AddWithPrior(a, b) ==
    [prior |-> a.prior + b.prior,
     counts |-> [t \in Shards |-> a.counts[t] + b.counts[t]]]

(* collectSufficientStatistics(s): the other's statistics without its      *)
(* pseudo-counts.                                                          *)
AddExpectations(a, b) ==
    [prior |-> a.prior + (b.prior - 1),
     counts |-> [t \in Shards |-> a.counts[t] + b.counts[t]]]

CompleteStats == [prior |-> 1, counts |-> [t \in Shards |-> 1]]

(* Mutant of MapRecord: lastLikelihood is not assigned.                     *)
MapKeepingLast(r, s) ==
    [key |-> r.bnID, run |-> [r EXCEPT !.likelihood = ShardLik[r.fg][s]],
     stats |-> ShardStats(s)]

(* dai_map's main loop for one run: the previous likelihood is moved away   *)
(* and the E-step yields that of this mapper's shard alone.                *)
MapRecord(r, s) ==
    [key |-> r.bnID,
     run |-> [r EXCEPT !.lastLikelihood = r.likelihood, !.likelihood = ShardLik[r.fg][s]],
     stats |-> ShardStats(s)]

(* maximize(): complete statistics lead where an EM iteration leads, other *)
(* statistics anywhere.                                                    *)
Maximize(fg, stats) == IF stats = CompleteStats THEN MStep[fg] ELSE Params

SumLikelihood(in) ==
    LET sum[n \in 0 .. Len(in)] == IF n = 0 THEN 0 ELSE sum[n - 1] + in[n].run.likelihood
    IN  sum[Len(in)]

MergedStats(in) ==
    LET merged[n \in 1 .. Len(in)] ==
            IF n = 1 THEN in[1].stats ELSE AddExpectations(merged[n - 1], in[n].stats)
    IN  merged[Len(in)]

(* Mutant of EmReduce: a resting run does not age.                          *)
ReduceWithoutAgeing(in) ==
    LET first == Head(in).run
    IN  IF IsConverged(first)
        THEN {first}
        ELSE {[first EXCEPT !.fg = fg, !.likelihood = SumLikelihood(in),
                            !.iter = @ + 1, !.alemItersActive = first.iter + 1] :
                fg \in Maximize(first.fg, MergedStats(in))}

(* Mutant of EmReduce: the M-step comes before the termination test.        *)
ReduceMaximizingFirst(in) ==
    LET first == Head(in).run
        maximized == Maximize(first.fg, MergedStats(in))
    IN  IF IsConverged(first)
        THEN {[first EXCEPT !.fg = fg, !.alemItersActive = @ + 1] : fg \in maximized}
        ELSE {[first EXCEPT !.fg = fg, !.likelihood = SumLikelihood(in),
                            !.iter = @ + 1, !.alemItersActive = first.iter + 1] :
                fg \in maximized}

(* em_reduce: the runs that the lines of one key may be reduced to.  The   *)
(* termination test looks at the first line before the shards are summed.  *)
EmReduce(in) ==
    LET first == Head(in).run
    IN  IF IsConverged(first)
        THEN {[first EXCEPT !.alemItersActive = @ + 1]}
        ELSE {[first EXCEPT !.fg = fg,
                            !.likelihood = SumLikelihood(in),
                            !.iter = @ + 1,
                            !.alemItersActive = first.iter + 1] :
                fg \in Maximize(first.fg, MergedStats(in))}
=============================================================================
