--------------------------- MODULE MCMapReduceJob ---------------------------
(* Small jobs.  The parameters p1 -> p2 -> p3 have rising likelihoods; p3 is *)
(* a fixed point of the EM iteration.                                       *)
EXTENDS MapReduceJob

CONSTANTS p1, p2, p3, s1, s2

MCParams == {p1, p2, p3}
MCGarbage == {7}

MCTwoShards == {s1, s2}
MCShardLik ==
    (p1 :> (s1 :> -100 @@ s2 :> -15)) @@ (p2 :> (s1 :> -104 @@ s2 :> -3)) @@ (p3 :> (s1 :> -100 @@ s2 :> -2))
MCMStep == [p \in MCParams |-> CASE p = p1 -> {p2, p3} [] OTHER -> {p3}]
MCOneReducer == {0}
MCTwoReducers == {0, 1}
MCPartition(key) == key % Cardinality(Reducers)

MCRun(id, fg, iter, lik, last) ==
    [bnID |-> id, ALEM_layer |-> 0, fg |-> fg, iter |-> iter,
     alemItersActive |-> iter, likelihood |-> lik, lastLikelihood |-> last]

(* A new run, one that converges if the first shard decides, and one at    *)
(* the iteration limit.                                                     *)
MCDat == <<MCRun(1, p1, 0, 0, 7), MCRun(2, p2, 4, -115, -130), MCRun(3, p3, EMMaxIter, -107, -115)>>

(* Two runs at the iteration limit or before it.                           *)
MCDatLimit == <<MCRun(1, p2, EMMaxIter - 1, -115, -130), MCRun(2, p3, EMMaxIter, -107, -115)>>

=============================================================================
