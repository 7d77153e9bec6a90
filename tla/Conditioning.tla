---------------------------- MODULE Conditioning ----------------------------
(***************************************************************************)
(* The two algorithms that clamp part of a factor graph, run another        *)
(* algorithm on what is left, and go on from its beliefs: decimation        *)
(* (src/decmap.cpp), which decides all variables in turns, and conditioned  *)
(* belief propagation (src/cbp.cpp), which splits the graph in two by some  *)
(* states of a variable or a factor and mixes the beliefs of the parts.     *)
(*                                                                         *)
(* The algorithm they run is taken to be exact.  Which beliefs have the     *)
(* smallest or largest entropy is left open except for entropy 0, and so is *)
(* what the tolerances, costs and adjoints decide.                         *)
(***************************************************************************)
EXTENDS InferenceClients

CONSTANTS
    Models,     \* sequences of factors
    max_levels  \* props.max_levels

VARIABLES
    model,   \* the factors of the algorithm's own graph
    props,   \* [task, ...]
    free,    \* decimation: the variables not clamped yet
    state,   \*             and what has been decided for the others
    stack,   \* the graphs still to be run: [factors, level]
    mixed,   \* conditioning: the sum of the tables of the leaves
    thrown

vars == <<model, props, free, state, stack, mixed, thrown>>

(* props: decimation by maximal or summed beliefs; conditioning on          *)
(* variables or factors, chosen and recursed in several ways.               *)
Settings ==
    [task : {"DECMAP"}, inference : {"SUMPROD", "MAXPROD"}]
    \cup [task : {"CBP"}, clamp : {"CLAMP_VAR", "CLAMP_FACTOR"},
          choose : {"CHOOSE_RANDOM", "CHOOSE_MAXENT", "CHOOSE_BBP"},
          recursion : {"REC_FIXED", "REC_LOGZ", "REC_BDIFF"}]
    \cup [task : {"CBP"}, clamp : {"CLAMP_VAR"}, choose : {"CHOOSE_BP_L1", "CHOOSE_BP_CFN"},
          recursion : {"REC_FIXED"}]

Init ==
    /\ model \in Models
    /\ props \in Settings
    /\ free = VarsOf(model)
    /\ state = << >>
    /\ stack = << [factors |-> model, level |-> 0] >>
    /\ mixed = Filled(VarsOf(model), 0)
    /\ thrown = ""

Positive(p) == {k \in DOMAIN p : p[k] > 0}

Determined(f) == Cardinality(Positive(f.p)) = 1

Throw(exception) == thrown' = exception /\ UNCHANGED <<model, props, free, state, stack, mixed>>

-----------------------------------------------------------------------------
(* The beliefs of the clamped object of a decimation.                       *)
Believed(fs, vs) == IF props.inference = "MAXPROD" THEN MaxMarginal(Joint(fs), vs) ELSE Marginal(Joint(fs), vs)

(* The factors that may have the lowest entropy of those with a free        *)
(* variable; with none left it is the first factor, for nothing.            *)
Best(fs, left) ==
    LET open == {I \in DOMAIN fs : fs[I].vars \cap left # {}} IN IF open = {} THEN {1} ELSE open

(* One round: variables without entropy and one factor are clamped.         *)
Decimate ==
    /\ props.task = "DECMAP" /\ thrown = "" /\ free # {}
    /\ LET fs == stack[1].factors
           sure == {i \in free : Determined(Believed(fs, {i}))}
       IN  IF PartitionSum(fs) = 0 THEN Throw("NOT_NORMALIZABLE")
           ELSE \E I \in Best(fs, free \ sure) :
                  LET best == calcState(fs[I].vars, ArgMax(Believed(fs, fs[I].vars).p))
                      new == fs[I].vars \cap (free \ sure)
                      decided == [i \in sure |-> ArgMax(Believed(fs, {i}).p)] @@ [i \in new |-> best[i]]
                  IN  /\ state' = state @@ decided
                      /\ free' = free \ (sure \cup new)
                      /\ stack' = << [factors |-> ClampedTo(PlainObject(fs), decided, FALSE).factors,
                                      level |-> stack[1].level + 1] >>
                      /\ UNCHANGED <<model, props, mixed, thrown>>

-----------------------------------------------------------------------------
(* Mutant of complement: without the last state.                           *)
ComplementShort(xis, n) == (0 .. n - 2) \ xis

complement(xis, n) == (0 .. n - 1) \ xis

(* What can be clamped, its table of beliefs, and the graph with it clamped.*)
Units(fs) == IF props.clamp = "CLAMP_VAR" THEN VarsOf(fs) ELSE DOMAIN fs

BeliefOf(fs, i) == Marginal(Joint(fs), IF props.clamp = "CLAMP_VAR" THEN {i} ELSE fs[i].vars)

With(fs, i, xis) ==
    IF props.clamp = "CLAMP_VAR" THEN ClampVar(PlainObject(fs), i, xis, FALSE).factors
    ELSE ClampFactor(PlainObject(fs), i, xis, FALSE).factors

(* chooseNextClampVar: a unit and one of its states.  Random choice and     *)
(* that by adjoints pass over what is determined; the largest entropy or    *)
(* distance is that of something determined only if everything is.          *)
ToClamp(fs) ==
    LET open == {i \in Units(fs) : ~Determined(BeliefOf(fs, i))}
        among == CASE props.choose \in {"CHOOSE_RANDOM", "CHOOSE_BBP"} -> open
                   [] props.choose = "CHOOSE_BP_CFN" -> Units(fs)
                   [] OTHER -> IF open = {} THEN {Min(Units(fs))} ELSE open
        states(i) == IF props.choose = "CHOOSE_MAXENT" THEN {ArgMax(BeliefOf(fs, i).p)}
                     ELSE {k - 1 : k \in Positive(BeliefOf(fs, i).p)}
    IN  UNION {{i} \X states(i) : i \in among}

(* A random choice gives up after a number of tries, that by adjoints when  *)
(* the slope is too small; with REC_LOGZ a part that weighs too little is   *)
(* not split.                                                              *)
MayStop(top) ==
    \/ top.level >= max_levels
    \/ props.choose \in {"CHOOSE_RANDOM", "CHOOSE_BBP"}
    \/ props.recursion = "REC_LOGZ"

Add(f, g) == BinaryTr(f, g, LAMBDA x, y : x + y)

(* runRecurse for a leaf.  Mixing beliefs in the ratio of their partition   *)
(* sums adds up the tables they are normalised from.                        *)
Leaf ==
    /\ props.task = "CBP" /\ thrown = "" /\ stack # << >>
    /\ MayStop(stack[1])
    /\ mixed' = Add(mixed, Joint(stack[1].factors))
    /\ stack' = Tail(stack)
    /\ UNCHANGED <<model, props, free, state, thrown>>

(* Both parts are run before either is split further; with REC_BDIFF they   *)
(* may then turn out not to be worth it.                                    *)
Split(i, x) ==
    LET top == stack[1]
        n == Len(BeliefOf(top.factors, i).p)
        part == With(top.factors, i, {x})
        rest == With(top.factors, i, complement({x}, n))
        deeper == << [factors |-> part, level |-> top.level + 1], [factors |-> rest, level |-> top.level + 1] >>
    IN  IF PartitionSum(part) = 0 \/ PartitionSum(rest) = 0 THEN Throw("NOT_NORMALIZABLE")
        ELSE /\ \/ stack' = deeper \o Tail(stack) /\ UNCHANGED mixed
                \/ /\ props.recursion = "REC_BDIFF"
                   /\ stack' = Tail(stack)
                   /\ mixed' = Add(mixed, Add(Joint(part), Joint(rest)))
             /\ UNCHANGED <<model, props, free, state, thrown>>

runRecurse ==
    /\ props.task = "CBP" /\ thrown = "" /\ stack # << >>
    /\ stack[1].level < max_levels
    /\ \E choice \in ToClamp(stack[1].factors) : Split(choice[1], choice[2])

(* The tries of a random choice are counted on for the state, and then       *)
(* asserted not to have run out.                                           *)
RunOut ==
    /\ props.task = "CBP" /\ thrown = "" /\ stack # << >>
    /\ stack[1].level < max_levels
    /\ props.choose = "CHOOSE_RANDOM"
    /\ \E i \in Units(stack[1].factors) : ~Determined(BeliefOf(stack[1].factors, i))
    /\ Throw("ASSERTION_FAILED")

Next == Decimate \/ Leaf \/ runRecurse \/ RunOut

Spec == Init /\ [][Next]_vars

-----------------------------------------------------------------------------
(* Decimation ends with a state that is possible, and by maximal beliefs    *)
(* with one of the largest probability, in whatever order it decides.       *)
DecimationDecides ==
    (props.task = "DECMAP" /\ thrown = "" /\ free = {}) =>
        IF props.inference = "MAXPROD" THEN IsMaximum(model, state) ELSE Score(model, state) > 0

(* Nothing gets lost or counted twice in the parts, however they are split: *)
(* the mixture is the whole, and the ways to choose that look at the        *)
(* beliefs first never split off a part that is impossible.                 *)
MixtureIsExact ==
    props.task = "CBP" =>
        /\ (thrown = "" /\ stack = << >>) => mixed = Joint(model)
        /\ props.choose \in {"CHOOSE_RANDOM", "CHOOSE_BBP"} => thrown # "NOT_NORMALIZABLE"
=============================================================================
