------------------------------- MODULE EMData -------------------------------
(***************************************************************************)
(* The record that the stages of the MapReduce EM program hand to each     *)
(* other (struct EMdata, mapreduce/src/dai_mapreduce.h): one EM run, with   *)
(* its parameters, its age and the two log-likelihoods that the            *)
(* termination test compares.                                              *)
(*                                                                         *)
(* The parameters of the factor graph are a member of Params, likelihoods  *)
(* are integers.  The serialised copies of the evidence and of the EM      *)
(* specification (emFile, tabFile) are constant for a job and left out;    *)
(* the sufficient statistics (msteps) live only between a mapper and a     *)
(* reducer and are part of the lines that EMSteps exchanges.               *)
(***************************************************************************)
EXTENDS Integers

CONSTANTS
    Params,     \* values of the factor graph's parameters
    EMMaxIter,  \* EM_MAX_ITER
    TolNum,     \* LIB_EM_TOLERANCE is TolNum / TolDen
    TolDen,
    Garbage     \* what a field that was never assigned may hold

ASSUME EMDataAssumption ==
    /\ Params # {}
    /\ EMMaxIter \in Nat \ {0}
    /\ TolNum \in Nat
    /\ TolDen \in Nat \ {0}
    /\ Garbage # {} /\ Garbage \subseteq Nat

EMdata == [bnID : Nat, ALEM_layer : Nat, fg : Params, iter : Nat,
           alemItersActive : Nat, likelihood : Int, lastLikelihood : Int]

Magnitude(x) == IF x < 0 THEN -x ELSE x

(* The termination test.  Three iterations are needed before the ratio is  *)
(* looked at, a previous likelihood of zero means "none yet", and a        *)
(* likelihood that went down ends the run.                                 *)
IsConverged(em) ==
    \/ em.iter >= EMMaxIter
    \/ /\ em.iter >= 3
       /\ em.lastLikelihood # 0
       /\ LET diff == em.likelihood - em.lastLikelihood
          IN  diff < 0 \/ diff * TolDen <= TolNum * Magnitude(em.lastLikelihood)

(* A run as it is created: random parameters, nothing iterated.  Whoever   *)
(* creates one assigns these fields and leaves lastLikelihood unassigned.  *)
NewRun(id, fg, age, unset) ==
    [bnID |-> id, ALEM_layer |-> 0, fg |-> fg, iter |-> 0,
     alemItersActive |-> age, likelihood |-> 0, lastLikelihood |-> unset]
=============================================================================
