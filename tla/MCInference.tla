----------------------------- MODULE MCInference -----------------------------
(***************************************************************************)
(* The factor graphs of libDAI and the algorithms that run on them, on small*)
(* models.  A behaviour is the life of one object of one kind.             *)
(***************************************************************************)
EXTENDS InferenceClients, FactorGraph

VARIABLES
    kind,                                             \* what the object is: of FactorGraph, or
    o,                                                \* the factor graph inside of it
    updates, edges, old, iters, todo, pc, dirty,      \* BeliefPropagation
    state, count, best, next,                         \* Gibbs
    model, props, free, stack, mixed, thrown,         \* Conditioning
    fs, evidence, msteps, step, max_iters, likelihood, lastLogZ  \* EMAlg

bpVars == <<updates, edges, old, todo, dirty>>
gibbsVars == <<count, best, next>>
condVars == <<model, props, free, stack, mixed, thrown>>
emVars == <<fs, evidence, msteps, step, max_iters, likelihood, lastLogZ>>
vars == <<kind, objectVars, o, bpVars, iters, pc, state, gibbsVars, condVars, emVars>>

MCStates == <<2, 3, 2, 2>>

(* Variables with two and three states; entries are different, so that      *)
(* mixed up states show, or 0, so that something is impossible.            *)
Pair12 == Factor({1, 2}, <<2, 1, 0, 3, 1, 1>>)
Pair23 == Factor({2, 3}, <<1, 1, 2, 1, 0, 1>>)
Pair13 == Factor({1, 3}, <<1, 2, 3, 1>>)
Chain == <<Pair12, Pair23>>
Triangle == <<Pair12, Pair23, Pair13>>

(* Binary ones, with a factor of one variable in the middle.                *)
Binary(p) == <<Factor({1, 3}, p), Factor({3}, <<2, 3>>), Factor({3, 4}, <<3, 1, 2, 5>>)>>

MCGraphs == {[factors |-> Binary(<<2, 3, 0, 7>>), clusters |-> <<{1, 3}, {3}, {3, 4}>>]}
MCValues == {Factor({3}, <<1, 0>>)}

(* What an object of another kind is to FactorGraph: one without factors.   *)
NoFactors == [factors |-> << >>, backup |-> << >>, ors |-> << >>]

(* Ten passes are more than a tree of this size needs.                      *)
BP == INSTANCE BeliefPropagation WITH Models <- {Binary(<<2, 1, 0, 3>>)},
        Schedules <- {"SEQFIX", "SEQRND", "SEQMAX", "PARALL"}, maxiter <- 10, MaxCalls <- 6

(* Three passes with one restart.                                          *)
Sampler == INSTANCE Gibbs WITH Models <- {Chain}, maxiter <- 3, restart <- 3, burnin <- 0, MaxCalls <- 3

Cond == INSTANCE Conditioning WITH Models <- {Chain, Triangle}, max_levels <- 2

Questions == {Chain, Triangle, <<Pair12, Factor({2}, <<0, 1, 1>>), Pair23>>, <<Factor({1}, <<1, 1>>), Pair12>>}

(* Networks in which two children share the table that says how they depend *)
(* on their parent.  The parent comes between them in the order of labels:   *)
(* one of them has its table the other way round.                          *)
Net(q, c1, c2, p) == <<Filled({q}, 1), Listed(<<c1, q>>, p), Listed(<<c2, q>>, p)>>

Children(q, c1, c2, pseudo) ==
    [lines |-> <<[factor |-> 2, labels |-> <<c1, q>>], [factor |-> 3, labels |-> <<c2, q>>]>>,
     target |-> States[c1], total |-> States[c1] * States[q], pseudo_count |-> pseudo]

Root(q, pseudo) ==
    [lines |-> <<[factor |-> 1, labels |-> <<q>>]>>, target |-> States[q], total |-> States[q], pseudo_count |-> pseudo]

(* Lines with the values of the variables vs and nothing for the others.    *)
Lines(q, c1, c2, vs) ==
    {<<x[1], x[2], x[3]>> : x \in {l \in [1 .. 3 -> -1 .. 2] :
        \A k \in 1 .. 3 : LET v == <<c2, c1, q>>[k] IN IF v \in vs THEN l[k] \in 0 .. States[v] - 1 ELSE l[k] = -1}}

File(q, c1, c2, lines) == [labels |-> <<c2, c1, q>>, blank |-> TRUE, lines |-> lines]

(* With nothing missing, with something missing in the second sample, and   *)
(* with little known at all but pseudo-counts.                             *)
Problems ==
    {[factors |-> Net(2, 1, 3, <<2, 1, 1, 2, 1, 1>>), spec |-> << <<Children(2, 1, 3, 0), Root(2, 0)>> >>, max_iters |-> 4,
      file |-> File(2, 1, 3, <<l, m, <<0, 1, 1>> >>)] : l \in Lines(2, 1, 3, {1, 2, 3}), m \in {<<0, 1, 0>>, <<1, 1, 2>>}}
    \cup
    {[factors |-> Net(3, 1, 4, <<2, 1, 1, 2>>), spec |-> spec, max_iters |-> 3 - Len(spec),
      file |-> File(3, 1, 4, <<l, m>>)] :
        spec \in {<< <<Children(3, 1, 4, 0), Root(3, 0)>> >>, << <<Children(3, 1, 4, 0)>>, <<Root(3, 0)>> >>},
        l \in Lines(3, 1, 4, {1, 3, 4}),
        m \in UNION {Lines(3, 1, 4, vs) : vs \in {{1, 3}, {3, 4}, {1, 4}}}}
    \cup
    {[factors |-> Net(3, 1, 4, <<2, 1, 1, 2>>), spec |-> << <<Children(3, 1, 4, 1), Root(3, 1)>> >>, max_iters |-> 1,
      file |-> File(3, 1, 4, <<l, m>>)] :
        l \in UNION {Lines(3, 1, 4, vs) : vs \in {{1, 3}, {4}}}, m \in UNION {Lines(3, 1, 4, vs) : vs \in {{1}, {3, 4}}}}

EM == INSTANCE EMAlg

Unused(x) == x = << >>

Init ==
    /\ kind \in {"factors", "bp", "gibbs", "conditioning", "question", "em"}
    /\ IF kind = "factors" THEN ObjectInit ELSE fg = NoFactors
    /\ CASE kind = "factors" -> Unused(o)
         [] kind = "bp" -> BP!Init
         [] kind = "gibbs" -> Sampler!Init
         [] kind = "question" -> (\E question \in Questions : o = PlainObject(question)) /\ calls = 0
         [] OTHER -> Unused(o) /\ calls = 0
    /\ kind # "bp" => Unused(updates) /\ Unused(edges) /\ Unused(old) /\ Unused(todo) /\ Unused(dirty)
    /\ kind # "gibbs" => Unused(count) /\ Unused(best) /\ Unused(next)
    /\ kind \notin {"bp", "gibbs"} => pc = "idle"
    /\ IF kind = "em" THEN EM!Init
       ELSE /\ Unused(fs) /\ Unused(evidence) /\ Unused(msteps) /\ step = 0 /\ max_iters = 0
            /\ Unused(likelihood) /\ Unused(lastLogZ)
            /\ kind \notin {"bp", "gibbs"} => iters = 0
    /\ kind \notin {"gibbs", "conditioning"} => Unused(state)
    /\ IF kind = "conditioning" THEN Cond!Init
       ELSE Unused(model) /\ Unused(props) /\ Unused(free) /\ Unused(stack) /\ Unused(mixed) /\ thrown = ""

Next ==
    /\ \/ kind = "factors" /\ ObjectNext /\ UNCHANGED <<o, bpVars, iters, pc, state, gibbsVars, condVars, emVars>>
       \/ kind = "bp" /\ BP!Next /\ UNCHANGED <<fg, state, gibbsVars, condVars, emVars>>
       \/ kind = "gibbs" /\ Sampler!Next /\ UNCHANGED <<fg, bpVars, condVars, emVars>>
       \/ kind = "conditioning" /\ Cond!Next /\ UNCHANGED <<objectVars, o, bpVars, iters, pc, gibbsVars, emVars>>
       \/ kind = "em" /\ EM!Next /\ UNCHANGED <<objectVars, o, bpVars, pc, state, gibbsVars, condVars>>
    /\ UNCHANGED kind

Spec == Init /\ [][Next]_vars

-----------------------------------------------------------------------------
(* The graphs made from another one, by clamping, merging or by way of a    *)
(* file, mean the same joint distribution.                                 *)
DerivedGraphsAgree == kind = "factors" => DerivedAgree

(* The residuals of belief propagation follow its messages, and the counts    *)
(* of a Gibbs sampler of factors and of variables are of the same samples.   *)
BookkeepingFollows ==
    /\ kind = "bp" => BP!QueueFollows
    /\ kind = "gibbs" => Sampler!CountsAgree


(* Decimation ends in a state that is possible, or one of the most likely;  *)
(* conditioning mixes its parts to the whole.                              *)
ConditioningIsExact == kind = "conditioning" => Cond!DecimationDecides /\ Cond!MixtureIsExact

(* Expectation maximisation without pseudo-counts never makes the evidence  *)
(* less likely.                                                            *)
LikelihoodNeverFalls == [][kind = "em" /\ EM!MustNotFall => ~EM!Less(likelihood', likelihood)]_vars

(* Factors that share parameters hold the same table, each in the order it   *)
(* lists its variables in; and statistics of parts of the evidence add up.  *)
LearningIsShared == kind = "em" => EM!SharedAlike /\ EM!PartsAddUp

(* The functions that clamp one clone for all their questions give the      *)
(* exact marginals, and leave the clone as it was; and the state of largest *)
(* probability that findMaximum decodes from the beliefs is one.            *)
AnswersRight ==
    kind = "question" =>
        /\ AnswersAreExact(o.factors)
        /\ IsMaximum(o.factors, ExactMaximum(o.factors))
        /\ LET found == FoundMaximum(o.factors, MaxBeliefs(o.factors))
           IN  found.thrown = "" /\ IsMaximum(o.factors, found.state)
=============================================================================
