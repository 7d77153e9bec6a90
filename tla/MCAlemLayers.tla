---------------------------- MODULE MCAlemLayers ----------------------------
(* Every population of up to two runs per layer whose ages fit their layer, *)
(* for TLC.  With AgeGap = 2 the age limits are 2 and 4, so runs of layer 0 *)
(* have age 1 or 2, of layer 1 age 3 or 4, of layer 2 age 5 or more.        *)
EXTENDS AlemLayers

CONSTANT p0

MCParams == {p0}
MCGarbage == {7}
MCLikelihoods == {-9, -6, -3}

(* <<iter, age, has converged>> of the runs that layer l can hold. *)
MCShapes(l) ==
    CASE l = 0 -> {<<1, 1, FALSE>>, <<2, 2, FALSE>>}
      [] l = 1 -> {<<3, 3, FALSE>>, <<4, 4, FALSE>>, <<3, 3, TRUE>>, <<3, 4, TRUE>>}
      [] OTHER -> {<<5, 5, FALSE>>, <<4, 6, TRUE>>}

MCRun(l, id, shape, lik) ==
    [bnID |-> id, ALEM_layer |-> l, fg |-> p0, iter |-> shape[1],
     alemItersActive |-> shape[2], likelihood |-> lik,
     lastLikelihood |-> IF shape[3] THEN lik ELSE lik - 5]

(* Layer l with n runs; identifiers are unique but in no particular order. *)
MCLayer(l, n) ==
    {[k \in 1 .. n |-> MCRun(l, 10 * ((l + 1) % 3) + k, f[k][1], f[k][2])] :
        f \in [1 .. n -> MCShapes(l) \X MCLikelihoods]}

MCSizes == {c \in [Layer -> 0 .. 2] : \A l \in Layer \ {0} : c[l] <= MinRuns(l)}

MCInit ==
    \E n \in MCSizes :
        \E a \in MCLayer(0, n[0]), b \in MCLayer(1, n[1]), c \in MCLayer(2, n[2]) :
            LET ls == (0 :> a) @@ (1 :> b) @@ (2 :> c)
            IN  IsPopulation(ls) /\ StartPass(ls)

MCSpec == MCInit /\ [][AlemNext]_alemVars
=============================================================================
