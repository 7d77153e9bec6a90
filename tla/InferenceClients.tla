-------------------------- MODULE InferenceClients --------------------------
(***************************************************************************)
(* The functions of libDAI that answer questions by running an inference    *)
(* algorithm on a clone of a factor graph, clamped and restored again and   *)
(* again (src/daialg.cpp), and the algorithm that does it by summing over   *)
(* all joint states (src/exactinf.cpp).                                     *)
(*                                                                         *)
(* The algorithm that is run is taken to be exact: it is ExactInf, or       *)
(* belief propagation on a tree.  A partition sum stands for its logarithm, *)
(* and 0 for the exception NOT_NORMALIZABLE of a run, which the code takes  *)
(* for a logarithm of minus infinity.  Subtracting logZ0 scales a table     *)
(* that is normalised afterwards.                                          *)
(***************************************************************************)
EXTENDS FactorGraphs

(* A factor graph that is not part of a region graph.                       *)
PlainObject(fs) ==
    [factors |-> fs, backup |-> << >>, ors |-> << >>, thrown |-> "",
     region |-> [ors |-> << >>, fac2OR |-> [I \in DOMAIN fs |-> 0]]]

Joint(fs) == ProductOf(fs)

PartitionSum(fs) == Sum(Joint(fs))

Belief(fs, vs) == Normalized(Marginal(Joint(fs), vs))

(* belief of a set of variables: a factor must contain it.                  *)
BeliefAvailable(fs, vs) == Cardinality(vs) <= 1 \/ \E I \in DOMAIN fs : vs \subseteq fs[I].vars

(* ExactInf::findMaximum.                                                  *)
ExactMaximum(fs) == calcState(Joint(fs).vars, ArgMax(Joint(fs).p))

-----------------------------------------------------------------------------
(* Each variable of vs is clamped to its state, as one more clone would be. *)
ClampedTo(o, state, withBackup) ==
    FoldLeft(LAMBDA p, v : ClampVar(p, v, {state[v]}, withBackup), o, Ordered(DOMAIN state))

(* A run on a clamped clone: its partition sum, and what restoring leaves.   *)
RunOn(clone, vs) == [z |-> PartitionSum(clone.factors), after |-> RestoreAround(clone, vs)]

(* Mutant of Tried: only the factors around the first variable are restored.*)
TriedRestoringOne(o, vs, state) ==
    [RunOn(ClampedTo(BackupAround(o, vs), state, FALSE), vs) EXCEPT
        !.after = RestoreAround(ClampedTo(BackupAround(o, vs), state, FALSE), {Min(vs)})]

(* One joint state: the factors around vs are saved, clamped and restored.  *)
Tried(o, vs, state) == RunOn(ClampedTo(BackupAround(o, vs), state, FALSE), vs)

Noted(acc, run) == [z |-> Append(acc.z, run.z), after |-> run.after]

(* All states of `over' in turn, each with the factors around vs saved.     *)
TriedAll(o, vs, over) ==
    FoldLeft(LAMBDA acc, li : Noted(acc, Tried(acc.after, vs, calcState(over, li))),
             [z |-> << >>, after |-> o], [k \in 1 .. NrStates(over) |-> k - 1])

Tabled(all, over) == [table |-> Normalized(Factor(over, all.z)), after |-> all.after]

(* calcMarginal, and the clone it leaves behind.                           *)
MarginalByClamping(o, vs) == Tabled(TriedAll(o, vs, vs), vs)

-----------------------------------------------------------------------------
(* calcPairBeliefs, accurate: every pair of states of two variables.        *)
PairByClamping(o, vs, pair) == Tabled(TriedAll(o, vs, pair), pair)

(* calcPairBeliefs, not accurate: only j is clamped, with a backup; the      *)
(* belief of k comes from the run.  A table with the rows Z_xj * b_k.       *)
Row(o, vs, j, k, x) ==
    LET clone == ClampVar(o, j, {x}, TRUE)
    IN  [b |-> Marginal(Joint(clone.factors), {k}).p, thrown |-> clone.thrown, after |-> RestoreAround(clone, vs)]

Rows(o, vs, j, k) ==
    LET row == [x \in 0 .. States[j] - 1 |-> Row(o, vs, j, k, x)]
    IN  [table |-> Table({j, k}, LAMBDA state : row[state[j]].b[state[k] + 1]),
         intact |-> \A x \in DOMAIN row : row[x].thrown = "" /\ row[x].after = o]

(* The geometric mean of the tables got by clamping either variable,        *)
(* squared to stay in the integers.                                        *)
PairByRows(o, vs, j, k) ==
    Normalized(Times(Rows(o, vs, j, k).table, Rows(o, vs, k, j).table))

-----------------------------------------------------------------------------
(* findMaximum: decodes the beliefs of one factor after another, each with  *)
(* what has been decided already, and schedules the factors around the      *)
(* variables it decides.  `beliefF' are the beliefs of the factors.         *)
Decoding == [stack |-> << 1 >>, factors |-> {}, maximum |-> << >>, thrown |-> ""]

(* Mutant of Allowed: what has been decided is forgotten.                   *)
AllowedAll(maximum, f) == 1 .. Len(f.p)

(* The states of a factor that agree with what has been decided.            *)
Allowed(maximum, f) ==
    {k \in 1 .. Len(f.p) :
        \A v \in f.vars \cap DOMAIN maximum : calcState(f.vars, k - 1)[v] = maximum[v]}

FirstBest(f, among) == Min({k \in among : \A j \in among : f.p[j] <= f.p[k]})

(* The next factor on the stack, which has not been visited.                *)
DecodeFactor(d, fs, beliefF, I) ==
    LET allowed == Allowed(d.maximum, beliefF[I])
        best == FirstBest(beliefF[I], allowed)
        state == calcState(fs[I].vars, best - 1)
        new == Ordered(fs[I].vars \ DOMAIN d.maximum)
        visited == d.factors \cup {I}
        pushed == FlattenSeq([n \in DOMAIN new |-> SetToSortSeq(nbV(fs, new[n]) \ visited, <)])
    IN  IF beliefF[I].p[best] = 0 THEN [d EXCEPT !.thrown = "RUNTIME_ERROR"]
        ELSE IF fs[I].p[best] = 0 THEN [d EXCEPT !.thrown = "ASSERTION_FAILED"]
        ELSE IF \E v \in fs[I].vars \cap DOMAIN d.maximum : d.maximum[v] # state[v]
        THEN [d EXCEPT !.thrown = "RUNTIME_ERROR"]
        ELSE [d EXCEPT !.stack = Front(@) \o pushed, !.factors = visited, !.maximum = @ @@ state]

DecodeNext(d, fs, beliefF) ==
    IF Last(d.stack) \in d.factors THEN [d EXCEPT !.stack = Front(@)]
    ELSE DecodeFactor(d, fs, beliefF, Last(d.stack))

(* Every factor is scheduled at most once for each of its variables.        *)
Decoded(fs, beliefF) ==
    LET turns == 1 + SumFunction([I \in DOMAIN fs |-> Cardinality(fs[I].vars)])
        turn[n \in 0 .. turns] ==
            IF n = 0 THEN Decoding
            ELSE LET d == turn[n - 1]
                 IN  IF d.stack = << >> \/ d.thrown # "" THEN d ELSE DecodeNext(d, fs, beliefF)
    IN  turn[turns]

(* The result: a variable that was never decided is in state 0.             *)
FoundMaximum(fs, beliefF) ==
    LET d == Decoded(fs, beliefF)
    IN  [thrown |-> d.thrown, state |-> d.maximum @@ [v \in VarsOf(fs) |-> 0]]

MaxBeliefs(fs) == [I \in DOMAIN fs |-> MaxMarginal(Joint(fs), fs[I].vars)]

-----------------------------------------------------------------------------
(* What the answers are, on graph fs: exact marginals, as often as a clone  *)
(* is clamped and restored; and the clone ends as it began.                 *)
AnswersAreExact(fs) ==
    LET o == PlainObject(fs)
    IN  PartitionSum(fs) # 0 =>
          \A vs \in (SUBSET VarsOf(fs)) \ {{}} :
             /\ MarginalByClamping(o, vs) = [table |-> Belief(fs, vs), after |-> o]
             /\ \A pair \in kSubset(2, vs) :
                   /\ PairByClamping(o, vs, pair) = [table |-> Belief(fs, pair), after |-> o]
                   /\ \A j, k \in pair : j # k =>
                         /\ PairByRows(o, vs, j, k) = Normalized(Times(Belief(fs, pair), Belief(fs, pair)))
                         /\ Rows(o, vs, j, k).intact

IsMaximum(fs, state) == \A other \in Assignments(VarsOf(fs)) : Score(fs, other) <= Score(fs, state)
=============================================================================
