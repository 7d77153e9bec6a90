------------------------------ MODULE EMRound ------------------------------
(***************************************************************************)
(* What one MapReduce job promises: every run of the population takes one  *)
(* EM iteration over ALL the evidence, or rests if it has converged.  How   *)
(* many reducers share the work, in which order the lines of different     *)
(* runs arrive, and which tasks are retried does not show.  One thing does: *)
(* the mapper whose line happens to come first decides alone, with the     *)
(* likelihood of its shard, whether a run has converged.                   *)
(***************************************************************************)
EXTENDS EMSteps, Enumerations

CONSTANT Dat  \* the runs of the population, in the order of in/dat

VARIABLE result  \* the runs that the job has produced

TotalLik(fg) == SumOver(ShardLik[fg], Shards)

(* One iteration of run r on the whole evidence, if the line of shard s     *)
(* comes first.                                                            *)
OutcomesSeenBy(r, s) ==
    LET seen == [r EXCEPT !.lastLikelihood = r.likelihood, !.likelihood = ShardLik[r.fg][s]]
    IN  IF IsConverged(seen)
        THEN {[seen EXCEPT !.alemItersActive = @ + 1]}
        ELSE {[seen EXCEPT !.fg = fg, !.likelihood = TotalLik(r.fg),
                           !.iter = @ + 1, !.alemItersActive = r.iter + 1] : fg \in MStep[r.fg]}

RoundOutcomes(r) == UNION {OutcomesSeenBy(r, s) : s \in Shards}

Waiting == {n \in DOMAIN Dat : \A r \in result : r.bnID # Dat[n].bnID}

RoundInit == result = {}

(* Some of the remaining runs advance together. *)
Advance ==
    /\ Waiting # {}
    /\ \E ns \in (SUBSET Waiting) \ {{}} :
         \E f \in [ns -> UNION {RoundOutcomes(Dat[n]) : n \in ns}] :
            /\ \A n \in ns : f[n] \in RoundOutcomes(Dat[n])
            /\ result' = result \cup Range(f)

RoundSpec == RoundInit /\ [][Advance]_result /\ WF_result(Advance)
=============================================================================
