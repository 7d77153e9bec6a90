------------------------------- MODULE EMAlg --------------------------------
(***************************************************************************)
(* Expectation maximisation as libDAI does it (include/dai/emalg.h,         *)
(* src/emalg.cpp, src/evidence.cpp), on actual tables: what EMSteps and     *)
(* AlemLocal take for granted.                                             *)
(*                                                                         *)
(* The parameters of several factors may be shared, each factor listing its *)
(* variables in an order of its own with the child first.  Factors are      *)
(* integer tables up to scale, as in Factors; expected counts and           *)
(* likelihoods are fractions, a log-likelihood stands for what it is the    *)
(* logarithm of.                                                           *)
(***************************************************************************)
EXTENDS InferenceClients

CONSTANTS
    Problems   \* records [factors, spec, file, max_iters]: the input files

VARIABLES
    fs,        \* the factors of _estep
    evidence,  \* _evidence: samples, and whether reading them threw
    msteps,    \* _msteps: sequences of SharedParameters
    step,      \* the maximisation step that is next
    max_iters,
    likelihood, lastLogZ, iters

emVars == <<fs, evidence, msteps, step, max_iters, likelihood, lastLogZ, iters>>

-----------------------------------------------------------------------------
(* addEvidenceTabFile: labels, an empty line, and then one sample per line   *)
(* with a state or nothing (-1) for each label.  What has been read before   *)
(* an invalid line stays.                                                  *)
Missing == -1

ValidLine(file, line) ==
    /\ Len(line) = Len(file.labels)
    /\ \A k \in DOMAIN line : line[k] # Missing => line[k] < States[file.labels[k]]

Sample(file, line) ==
    [v \in {file.labels[k] : k \in {j \in DOMAIN line : line[j] # Missing}} |->
        line[Max({k \in DOMAIN line : file.labels[k] = v /\ line[k] # Missing})]]

addEvidenceTabFile(samples, file, factors) ==
    LET valid == {n \in 0 .. Len(file.lines) : \A k \in 1 .. n : ValidLine(file, file.lines[k])}
        header == file.labels # << >> /\ ToSet(file.labels) \subseteq VarsOf(factors) /\ file.blank
        n == IF header THEN Max(valid) ELSE 0
    IN  [samples |-> samples \o [k \in 1 .. n |-> Sample(file, file.lines[k])],
         thrown |-> IF header /\ n = Len(file.lines) THEN "" ELSE "INVALID_EVIDENCE_FILE"]

-----------------------------------------------------------------------------
(* The SharedParameters constructor that reads lines [factor, labels]: the   *)
(* labels must be those of the factor, as many and no others, and the state  *)
(* spaces as large as the estimation expects.                               *)
SharedParameters(factors, spec) ==
    LET lines == spec.lines
        counts == [p |-> [k \in 1 .. spec.total |-> spec.pseudo_count], den |-> 1]
    IN
    [orders |-> [I \in {lines[k].factor : k \in DOMAIN lines} |->
                    lines[Max({k \in DOMAIN lines : lines[k].factor = I})].labels],
     target |-> spec.target, stats |-> counts, initial |-> counts,
     thrown |->
        IF \E k \in DOMAIN lines :
              \/ Len(lines[k].labels) # Cardinality(factors[lines[k].factor].vars)
              \/ ~(ToSet(lines[k].labels) \subseteq factors[lines[k].factor].vars)
        THEN "INVALID_EMALG_FILE"
        ELSE IF \/ spec.total % spec.target # 0
                \/ \E k \in DOMAIN lines : NrStates(ToSet(lines[k].labels)) # spec.total
        THEN "ASSERTION_FAILED" ELSE ""]

Reduced(f) ==
    LET gcd == Gcd({f.den} \cup ToSet(f.p))
    IN  [p |-> [k \in DOMAIN f.p |-> f.p[k] \div gcd] \o << >>, den |-> f.den \div gcd]

Combined(a, b, op(_, _)) ==
    LET gcd == Gcd({a.den, b.den})
    IN  Reduced([p |-> [k \in DOMAIN a.p |-> op(a.p[k] * (b.den \div gcd), b.p[k] * (a.den \div gcd))],
                 den |-> (a.den \div gcd) * b.den])

Plus(a, b) == Combined(a, b, +)

Minus(a, b) == Combined(a, b, -)

(* Where an entry of the shared table is in the table of a factor.          *)
EntryOf(order, k) == convertLinearIndex(Permute(order, FALSE), k - 1) + 1

Collected(order, b) == [p |-> [k \in DOMAIN b.p |-> b.p[EntryOf(order, k)]], den |-> Sum(b)]

(* Mutant of collectSufficientStatistics: the permutation is forgotten.     *)
CollectUnpermuted(sp, joint) ==
    LET belief(I) == Normalized(Marginal(joint, ToSet(sp.orders[I])))
        add(I, acc) == Plus(acc, Collected(Ordered(ToSet(sp.orders[I])), belief(I)))
    IN  [sp EXCEPT !.stats = FoldSet(add, @, DOMAIN sp.orders)]

(* From the beliefs of all factors that share the parameters; exact         *)
(* inference has them from the joint table of a sample.                    *)
collectSufficientStatistics(sp, joint) ==
    LET belief(I) == Normalized(Marginal(joint, ToSet(sp.orders[I])))
        add(I, acc) == Plus(acc, Collected(sp.orders[I], belief(I)))
    IN  [sp EXCEPT !.stats = FoldSet(add, @, DOMAIN sp.orders)]

addExpectations(mstep, joint) == [i \in DOMAIN mstep |-> collectSufficientStatistics(mstep[i], joint)]

(* Those of another maximisation step, which has begun with the same        *)
(* pseudo-counts.                                                          *)
addExpectationsOf(mstep, other) ==
    [i \in DOMAIN mstep |->
        [mstep[i] EXCEPT !.stats = Plus(@, Minus(other[i].stats, other[i].initial))]]

(* estimate: `target' entries in a row are one distribution; one without    *)
(* counts stays all zero.                                                  *)
estimate(sp) ==
    LET p == sp.stats.p
        row(k) == (k - 1) \div sp.target
        rows == {row(k) : k \in DOMAIN p}
        norm(r) == SumFunction([k \in {j \in DOMAIN p : row(j) = r} |-> p[k]])
        nonzero == {r \in rows : norm(r) # 0}
    IN  [k \in DOMAIN p |-> IF norm(row(k)) = 0 THEN 0 ELSE p[k] * Prod(nonzero \ {row(k)}, norm)]

(* Mutant of setParameters: in the order of the labels.                    *)
SetUnpermuted(factors, sp) ==
    [I \in DOMAIN factors |->
        IF I \in DOMAIN sp.orders THEN Normalized(Factor(ToSet(sp.orders[I]), estimate(sp))) ELSE factors[I]]

(* setParameters: into every factor, in its own order.                      *)
setParameters(factors, sp) ==
    LET p == estimate(sp)
        table(I) == Normalized(Factor(ToSet(sp.orders[I]),
                        [n \in DOMAIN p |-> p[CHOOSE k \in DOMAIN p : EntryOf(sp.orders[I], k) = n]]))
    IN  [I \in DOMAIN factors |-> IF I \in DOMAIN sp.orders THEN table(I) ELSE factors[I]]

maximize(factors, mstep) == FoldLeft(setParameters, factors, mstep)

-----------------------------------------------------------------------------
One == [p |-> <<1>>, den |-> 1]

(* The graph with a sample clamped, as one joint table.                    *)
Posterior(factors, sample) == Joint(ClampedTo(PlainObject(factors), sample, FALSE).factors)

Multiplied(a, b) ==
    LET g == Gcd({a.p[1], b.den})
        h == Gcd({b.p[1], a.den})
    IN  [p |-> <<(a.p[1] \div g) * (b.p[1] \div h)>>, den |-> (a.den \div h) * (b.den \div g)]

(* The E-step of a maximisation step: every sample with a clone of its own. *)
Estep(factors, samples, mstep) ==
    LET joints == [e \in DOMAIN samples |-> Posterior(factors, samples[e])] \o << >>
        ratios == [e \in DOMAIN samples |-> Reduced([p |-> <<Sum(joints[e])>>, den |-> PartitionSum(factors)])]
    IN  [mstep |-> FoldLeft(addExpectations, mstep, joints), likelihood |-> FoldLeft(Multiplied, One, ratios)]

(* A graph or a sample that is impossible: run throws NOT_NORMALIZABLE.      *)
Impossible(factors, samples) ==
    PartitionSum(factors) = 0 \/ \E e \in DOMAIN samples : ~Normalizable(Posterior(factors, samples[e]))

Less(a, b) ==
    LET g == Gcd({a.p[1], b.p[1]})
        h == Gcd({a.den, b.den})
    IN  (a.p[1] \div g) * (b.den \div h) < (b.p[1] \div g) * (a.den \div h)

(* The answers that hasSatisfiedTermConditions may give: an increase may be *)
(* within the tolerance or not.                                            *)
hasSatisfiedTermConditions ==
    LET current == lastLogZ[Len(lastLogZ)]
        previous == lastLogZ[Len(lastLogZ) - 1]
    IN  IF iters >= max_iters THEN {TRUE}
        ELSE IF Len(lastLogZ) < 3 \/ previous = One THEN {FALSE}
        ELSE IF Less(previous, current) THEN BOOLEAN
        ELSE {TRUE}

Init ==
    \E problem \in Problems :
        /\ fs = problem.factors
        /\ evidence = addEvidenceTabFile(<< >>, problem.file, fs)
        /\ msteps = [n \in DOMAIN problem.spec |->
                        [i \in DOMAIN problem.spec[n] |-> SharedParameters(fs, problem.spec[n][i])]]
        /\ max_iters = problem.max_iters
        /\ step = 1 /\ likelihood = One /\ lastLogZ = << >> /\ iters = 0

(* iterate(mstep), in the course of iterate().                              *)
IterateStep ==
    /\ evidence.thrown = "" /\ step \in DOMAIN msteps
    /\ \A n \in DOMAIN msteps : \A i \in DOMAIN msteps[n] : msteps[n][i].thrown = ""
    /\ step = 1 => FALSE \in hasSatisfiedTermConditions
    /\ ~Impossible(fs, evidence.samples)
    /\ LET e == Estep(fs, evidence.samples, msteps[step])
       IN  /\ fs' = maximize(fs, e.mstep)
           /\ msteps' = [msteps EXCEPT ![step] = [i \in DOMAIN @ |-> [@[i] EXCEPT !.stats = msteps[step][i].initial]]]
           /\ likelihood' = e.likelihood
    /\ step' = step + 1
    /\ UNCHANGED <<evidence, max_iters, lastLogZ, iters>>

(* The end of iterate(): the likelihood is that of the last step.            *)
EndIteration ==
    /\ step = Len(msteps) + 1
    /\ step' = 1
    /\ lastLogZ' = Append(lastLogZ, likelihood)
    /\ iters' = iters + 1
    /\ UNCHANGED <<fs, evidence, msteps, max_iters, likelihood>>

Next == IterateStep \/ EndIteration

Spec == Init /\ [][Next]_emVars

-----------------------------------------------------------------------------
(* Without pseudo-counts the likelihood never falls from one maximisation   *)
(* step to the next, whatever is missing in the samples, shared between     *)
(* factors or left to a later step.                                        *)
MustNotFall ==
    /\ \A n \in DOMAIN msteps : \A i \in DOMAIN msteps[n] : ToSet(msteps[n][i].initial.p) = {0}
    /\ step > 1 \/ iters > 0

LikelihoodNeverFalls == [][MustNotFall => ~Less(likelihood', likelihood)]_emVars

(* Factors that share parameters hold the same table after a maximisation   *)
(* step, each read in its own order.                                       *)
SharedAlike ==
    \A n \in DOMAIN msteps : iters > 0 \/ step > n =>
        \A i \in DOMAIN msteps[n] :
            LET orders == msteps[n][i].orders
            IN  \A I, J \in DOMAIN orders : \A k \in DOMAIN msteps[n][i].initial.p :
                    fs[I].p[EntryOf(orders[I], k)] = fs[J].p[EntryOf(orders[J], k)]

(* Statistics collected apart from two parts of the evidence and then put   *)
(* together are those of all of it: pseudo-counts and all.                 *)
PartsAddUp ==
    (evidence.thrown = "" /\ iters < max_iters /\ step \in DOMAIN msteps /\ ~Impossible(fs, evidence.samples)) =>
        LET part(samples) == Estep(fs, samples, msteps[step]).mstep
        IN  \A n \in 0 .. Len(evidence.samples) :
                addExpectationsOf(part(SubSeq(evidence.samples, 1, n)),
                                  part(SubSeq(evidence.samples, n + 1, Len(evidence.samples))))
                    = part(evidence.samples)
=============================================================================
