---------------------------- MODULE MCDaiReduce ----------------------------
(* One reducer on every sequence of up to six different lines of three     *)
(* keys and two shards, grouped by key or not.                              *)
EXTENDS DaiReduce

CONSTANTS p0, s1, s2

MCParams == {p0}
MCGarbage == {7}
MCShards == {s1, s2}
MCShardLik == [p \in MCParams |-> [s \in MCShards |-> -3]]
MCMStep == [p \in MCParams |-> MCParams]
MCReducers == {0}

(* Run 2 has converged; the others have not. *)
MCRun(id) ==
    [bnID |-> id, ALEM_layer |-> 0, fg |-> p0, iter |-> IF id = 2 THEN EMMaxIter ELSE 1,
     alemItersActive |-> 1, likelihood |-> -9, lastLikelihood |-> 7]

MCLines == {MapRecord(MCRun(id), s) : id \in 0 .. 2, s \in MCShards}

MCInputs == {t \in UNION {[1 .. n -> MCLines] : n \in 0 .. 6} :
               \A m, n \in DOMAIN t : t[m] = t[n] => m = n}

MCInit == \E t \in MCInputs : StartReducers([r \in Reducers |-> t])

MCSpec == MCInit /\ [][ReduceNext]_reduceVars
=============================================================================
