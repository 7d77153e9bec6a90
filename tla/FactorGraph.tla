----------------------------- MODULE FactorGraph -----------------------------
(***************************************************************************)
(* A RegionGraph object through any sequence of the calls that change its   *)
(* factors; and, after the state machine, factor graphs and evidence in the *)
(* format of the UAI challenges (src/io.cpp) with the graph of an evidence  *)
(* case as the converter (src/utils/uai2fg.cpp) and the solver              *)
(* (src/examples/uai2010-aie-solver.cpp) make it: pure functions of the     *)
(* factors, checked on all the graphs that the calls lead to.              *)
(***************************************************************************)
EXTENDS FactorGraphs

CONSTANTS
    Graphs,  \* records [factors, clusters]: what objects are made from
    Values,  \* further factors that may be set
    MaxCalls \* bound: calls

VARIABLES
    fg,
    calls    \* counted against MaxCalls

objectVars == <<fg, calls>>

(* The factors of a graph are a vector.                                    *)
ASSUME GraphsAreFinite ==
    \A graph \in Graphs :
        Len(graph.factors) \in Nat /\ graph.factors = [I \in 1 .. Len(graph.factors) |-> graph.factors[I]]

ObjectInit ==
    /\ \E graph \in Graphs : fg = NewObject(graph.factors, graph.clusters)
    /\ calls = 0

SetFactor(I, withBackup) ==
    \E f \in Values : f.vars = fg.factors[I].vars /\ fg' = SetFactors(fg, [J \in {I} |-> f], withBackup)

Clamp(v, withBackup) ==
    \E is \in (SUBSET (0 .. States[v] - 1)) \ {{}} : fg' = ClampVar(fg, v, is, withBackup)

ClampOne(I, withBackup) ==
    \E k \in DOMAIN fg.factors[I].p : fg' = ClampFactor(fg, I, {k - 1}, withBackup)

Cut(v, withBackup) == fg' = MakeCavity(fg, v, withBackup)

Backup ==
    \/ \E indices \in SUBSET DOMAIN fg.factors : fg' = BackupFactors(fg, indices)
    \/ \E vs \in SUBSET VarsOf(fg.factors) : fg' = BackupAround(fg, vs)

Restore ==
    \/ \E I \in DOMAIN fg.factors : fg' = RestoreFactor(fg, I)
    \/ \E vs \in SUBSET VarsOf(fg.factors) : fg' = RestoreAround(fg, vs)
    \/ fg' = RestoreFactors(fg)

ObjectNext ==
    /\ fg.thrown # "ASSERTION_FAILED"
    /\ calls < MaxCalls /\ calls' = calls + 1
    /\ \/ \E withBackup \in BOOLEAN :
             \/ \E I \in DOMAIN fg.factors : SetFactor(I, withBackup) \/ ClampOne(I, withBackup)
             \/ \E v \in VarsOf(fg.factors) : Clamp(v, withBackup) \/ Cut(v, withBackup)
       \/ Backup
       \/ Restore

ObjectSpec == ObjectInit /\ [][ObjectNext]_objectVars

-----------------------------------------------------------------------------
(* A line of an evidence file is the sequence of its numbers, and a case a  *)
(* function from observed variables to states.                             *)

(* ReadUaiAieFactorGraphFile: per factor its labels, and a table in which    *)
(* the last of them runs fastest.                                          *)
ReadUai(file) ==
    LET factor(labels, p) ==
            LET index == Permute(labels, TRUE)
            IN  Factor(ToSet(labels), [k \in DOMAIN p |->
                    p[CHOOSE li \in DOMAIN p : convertLinearIndex(index, li - 1) = k - 1]])
    IN  [I \in DOMAIN file |-> factor(file[I].labels, file[I].table)]

(* A case of `count' observations from position `at' of the numbers; of two  *)
(* observations of a variable the later one stays.                          *)
Observations(numbers, at) ==
    FoldLeft(LAMBDA e, j : (numbers[at + 2 * j - 1] :> numbers[at + 2 * j]) @@ e,
             << >>, [j \in 1 .. numbers[at] |-> j])

(* The format of before 2010 has no number of cases, but a line with the     *)
(* number of observations first; what comes in the next line tells: pairs.   *)
IsOldVersion(lines) == Len(lines[2]) % 2 = 0

(* ReadUaiAieEvidenceFile.  With no line announced there is one empty case.  *)
ReadEvidence(lines) ==
    LET old == IsOldVersion(lines)
        numbers == FlattenSeq(IF old THEN lines ELSE Tail(lines))
        nrEvid == IF old THEN 1 ELSE lines[1][1]
        at[i \in 1 .. nrEvid] == IF i = 1 THEN 1 ELSE at[i - 1] + 2 * numbers[at[i - 1]] + 1
    IN  IF lines[1][1] = 0 THEN << << >> >>
        ELSE [i \in 1 .. nrEvid |-> Observations(numbers, at[i])]

-----------------------------------------------------------------------------
(* The entries of f for the values that e gives to its variables.            *)
Reduced(f, e) ==
    FoldLeft(LAMBDA g, v : IF v \in g.vars THEN Slice(g, {v}, e[v]) ELSE g, f, Ordered(DOMAIN e))

(* Mutant of Surgery: the factors that are left with no variable are lost    *)
(* unless all are.                                                         *)
SurgeryDropping(fs, e) ==
    LET proper == SelectSeq([I \in DOMAIN fs |-> Reduced(fs[I], e)], LAMBDA f : f.vars # {})
    IN  IF proper = << >> THEN <<Filled({}, 1)>> ELSE proper

(* The factors with observed variables taken out; those left with none scale *)
(* the first of the others, or become a factor of their own.                *)
Surgery(fs, e) ==
    LET reduced == Fixed([I \in DOMAIN fs |-> Reduced(fs[I], e)])
        scale == ProductOf(SelectSeq(reduced, LAMBDA f : f.vars = {})).p[1]
        proper == SelectSeq(reduced, LAMBDA f : f.vars # {})
    IN  IF proper = << >> THEN <<Filled({}, scale)>>
        ELSE [proper EXCEPT ![1] = Scaled(@, scale)]

GivenEvidence(fs, e, surgery) ==
    (IF surgery THEN Surgery(fs, e) ELSE fs)
        \o [k \in DOMAIN Ordered(DOMAIN e) |-> LET v == Ordered(DOMAIN e)[k] IN FactorDelta({v}, e[v])]

-----------------------------------------------------------------------------
(* The table of f with the last of the labels fastest.                       *)
Tabulated(f, labels) ==
    LET stride(k) == NrStates({labels[j] : j \in k + 1 .. Len(labels)})
        state(n) == [v \in ToSet(labels) |->
                        LET k == CHOOSE j \in DOMAIN labels : labels[j] = v
                        IN  (n \div stride(k)) % States[v]]
    IN  [n \in DOMAIN f.p |-> Entry(f, state(n - 1))]

(* The numbers of a case, its variables in the order of labels.              *)
Pairs(e) == [k \in DOMAIN Ordered(DOMAIN e) |-> <<Ordered(DOMAIN e)[k], e[Ordered(DOMAIN e)[k]]>>]

NewCase(e) == <<Cardinality(DOMAIN e)>> \o FlattenSeq(Pairs(e))

(* What is written with the labels in any order is read as it was; and cases *)
(* are read as they were from files in either format, the old one with a     *)
(* line for each observation or for all of them.                            *)
FilesAgree(fs, cases) ==
    /\ \A I \in DOMAIN fs : \A labels \in SetToSeqs(fs[I].vars) :
          ReadUai(<<[labels |-> labels, table |-> Tabulated(fs[I], labels)]>>) = <<fs[I]>>
    /\ \A e \in cases :
          /\ \A d \in cases : ReadEvidence(<< <<2>>, NewCase(e), NewCase(d)>>) = <<e, d>>
          /\ e # << >> =>
                /\ ReadEvidence(<< <<Cardinality(DOMAIN e)>> >> \o Pairs(e)) = <<e>>
                /\ ReadEvidence(<< <<Cardinality(DOMAIN e)>>, FlattenSeq(Pairs(e))>>) = <<e>>

(* The graph of a case, with or without surgery, has the scores of the states *)
(* that the evidence allows.                                               *)
GivenIsConditional(fs, e, surgery) ==
    ProductOf(GivenEvidence(fs, e, surgery)) =
    FoldLeft(LAMBDA f, v : Times(f, Mask(v, {e[v]})), ProductOf(fs), Ordered(DOMAIN e))

-----------------------------------------------------------------------------
(* The product cached in a region is that of its factors as they are now,   *)
(* whatever was set, taken back, or left half done by an exception.         *)
RegionsAreProducts ==
    \A alpha \in DOMAIN fg.ors : fg.ors[alpha] = Hosted(fg.factors, fg.region, alpha)

(* What undoing everything would bring back.                               *)
Base == [I \in DOMAIN fg.factors |-> IF I \in DOMAIN fg.backup THEN fg.backup[I] ELSE fg.factors[I]]

Promised == INSTANCE Undo WITH value <- fg.factors, base <- Base, held <- DOMAIN fg.backup

(* Whatever calls come in between, and also when one of them throws half    *)
(* way through its factors: undoing brings back what was there before the   *)
(* changes that were to be undone, and nothing is held twice.               *)
ImplementsUndo == Promised!Spec

Scores(fs) == Table(VarsOf(fs), LAMBDA state : Score(fs, state))

(* Evidence on some of the variables.                                      *)
Cases(fs) == UNION {Assignments(vs) : vs \in SUBSET VarsOf(fs)}

(* New graphs made from this one mean what they say: clamping a variable,   *)
(* or giving evidence on several, keeps the scores of the states allowed    *)
(* and clears the others, merging into maximal factors changes no score,    *)
(* and files are read back as they were.  Blankets and maximal domains      *)
(* agree with the factors they are of.  (To keep it cheap, graphs are made  *)
(* after at most two calls, and evidence is given after at most one.)       *)
DerivedAgree ==
    /\ calls <= 2 =>
          /\ \A v \in VarsOf(fg.factors) : \A x \in 0 .. States[v] - 1 :
                Scores(clamped(fg.factors, v, x)) = Times(Scores(fg.factors), Mask(v, {x}))
          /\ Scores(maximalFactors(fg.factors)) = Scores(fg.factors)
          /\ ToSet(maximalFactorDomains(fg.factors)) = {f.vars : f \in ToSet(maximalFactors(fg.factors))}
          /\ Read(Written(fg.factors)) = fg.factors
          /\ \A e \in kSubset(2, VarsOf(fg.factors)) :
                e \in MarkovEdges(fg.factors) <=> \E I \in DOMAIN fg.factors : e \subseteq fg.factors[I].vars
    /\ calls <= 1 =>
          /\ FilesAgree(fg.factors, {e \in Cases(fg.factors) : Cardinality(DOMAIN e) # 1})
          /\ \A e \in Cases(fg.factors), surgery \in BOOLEAN : GivenIsConditional(fg.factors, e, surgery)
=============================================================================
