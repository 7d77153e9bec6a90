---------------------------- MODULE FactorGraphs ----------------------------
(***************************************************************************)
(* Values of libDAI's FactorGraph (include/dai/factorgraph.h,               *)
(* src/factorgraph.cpp): factors that are set, clamped and cut out, with    *)
(* one level of backup, as part of a RegionGraph, in which each outer       *)
(* region caches the product of its factors (include/dai/regiongraph.h,     *)
(* src/regiongraph.cpp).                                                    *)
(*                                                                         *)
(* A call that throws keeps what it has done so far.  Variables and factors *)
(* are named by their labels and positions; edges follow from the factors.  *)
(***************************************************************************)
EXTENDS ClusterGraph

(* Derived from any sequence fs of factors: its variables, neighbours, ...  *)
VarsOf(fs) == UNION {fs[I].vars : I \in DOMAIN fs}

nbV(fs, v) == {I \in DOMAIN fs : v \in fs[I].vars}

findFactor(fs, vs) == Min({I \in DOMAIN fs : fs[I].vars = vs})

MarkovBlanket(fs, v) == UNION {fs[I].vars : I \in nbV(fs, v)}

MarkovBlankets(fs, vs) == UNION {MarkovBlanket(fs, v) : v \in vs}

MarkovEdges(fs) == {e \in kSubset(2, VarsOf(fs)) : \E v \in e : e \subseteq MarkovBlanket(fs, v)}

isPairwise(fs) == \A I \in DOMAIN fs : Cardinality(fs[I].vars) <= 2

isBinary(fs) == \A v \in VarsOf(fs) : States[v] <= 2

StrictlyWithin(fs, I, J) == fs[I].vars \subseteq fs[J].vars /\ fs[I].vars # fs[J].vars

(* isMaximal looks at factors around a variable, or for an empty one at all. *)
isMaximal(fs, I) ==
    LET around == IF fs[I].vars = {} THEN DOMAIN fs ELSE UNION {nbV(fs, v) : v \in fs[I].vars}
    IN  \A J \in around : ~StrictlyWithin(fs, I, J)

(* From a factor to a larger one, as far as it goes.                       *)
maximalFactor(fs, I) ==
    LET larger(J) == IF isMaximal(fs, J) THEN J
                     ELSE CHOOSE K \in DOMAIN fs : StrictlyWithin(fs, J, K)
        walk[k \in 0 .. Len(fs)] == IF k = 0 THEN I ELSE LET J == walk[k - 1] IN larger(J)
    IN  walk[Len(fs)]

maximalFactorDomains(fs) ==
    LET domains == [k \in DOMAIN fs |-> fs[k].vars]
        maximal == SelectSeq([k \in DOMAIN fs |-> k], LAMBDA I : isMaximal(fs, I))
    IN  IF maximal = << >> THEN << {} >> ELSE Fixed([k \in DOMAIN maximal |-> domains[maximal[k]]])

(* The product that logScore takes the logarithm of.                       *)
Score(fs, state) == FoldLeft(LAMBDA acc, f : acc * Entry(f, state), 1, fs)

-----------------------------------------------------------------------------
(* Mutant of clamped: a factor that is left with no variable is dropped.    *)
ClampedScaleLost(fs, v, x) ==
    LET sliced == [I \in DOMAIN fs |-> IF v \in fs[I].vars THEN Slice(fs[I], {v}, x) ELSE fs[I]]
        proper == SelectSeq(sliced, LAMBDA f : f.vars # {})
        merge(acc, f) ==
            IF \E J \in DOMAIN acc : acc[J].vars = f.vars
            THEN [acc EXCEPT ![findFactor(acc, f.vars)] = Times(@, f)]
            ELSE Append(acc, f)
    IN  FoldLeft(merge, << Mask(v, {x}) >>, proper)

(* clamped: a new graph in which v appears in one factor of its own only.   *)
(* Factors that have become equal in their variables are multiplied, and    *)
(* those that have none left scale the first factor.                        *)
clamped(fs, v, x) ==
    LET sliced == [I \in DOMAIN fs |-> IF v \in fs[I].vars THEN Slice(fs[I], {v}, x) ELSE fs[I]]
        scale == ProductOf(SelectSeq(sliced, LAMBDA f : f.vars = {})).p[1]
        merge(acc, f) ==
            IF \E J \in DOMAIN acc : acc[J].vars = f.vars
            THEN [acc EXCEPT ![findFactor(acc, f.vars)] = Times(@, f)]
            ELSE Append(acc, f)
        merged == FoldLeft(merge, << Mask(v, {x}) >>, SelectSeq(sliced, LAMBDA f : f.vars # {}))
    IN  [merged EXCEPT ![1] = Scaled(@, scale)]

(* maximalFactors: every factor goes into the largest one that a walk over  *)
(* all factors finds above it.                                             *)
maximalFactors(fs) ==
    LET above(I) == FoldLeft(LAMBDA J, K : IF StrictlyWithin(fs, J, K) THEN K ELSE J, I, [K \in DOMAIN fs |-> K])
        tops == SelectSeq([I \in DOMAIN fs |-> I], LAMBDA I : above(I) = I)
        under(I) == SelectSeq([J \in DOMAIN fs |-> J], LAMBDA J : above(J) = I)
    IN  [k \in DOMAIN tops |-> ProductOf([j \in DOMAIN under(tops[k]) |-> fs[under(tops[k])[j]]])]

(* The file format: labels, and the entries that are not zero.             *)
Written(fs) ==
    [I \in DOMAIN fs |->
        [labels |-> Ordered(fs[I].vars),
         entries |-> {<<k - 1, fs[I].p[k]>> : k \in {j \in DOMAIN fs[I].p : fs[I].p[j] # 0}}]]

(* The labels of a factor in a file may be in any order.                   *)
Read(file) ==
    [I \in DOMAIN file |->
        LET entry(k) == {e \in file[I].entries : convertLinearIndex(Permute(file[I].labels, FALSE), e[1]) = k - 1}
        IN  Factor(ToSet(file[I].labels),
                   [k \in 1 .. NrStates(ToSet(file[I].labels)) |-> SumFunction([e \in entry(k) |-> e[2]])])]

-----------------------------------------------------------------------------
(* An object o: the factors, their backups, the regions, the products they  *)
(* cache, and how the last call ended, "" or the exception.                 *)

(* recomputeOR and recomputeORs: the product of the factors that a region   *)
(* hosts.                                                                  *)
Hosted(fs, region, alpha) ==
    Embedded(ProductOf(AtPositions(fs, {I \in DOMAIN fs : region.fac2OR[I] = alpha})), region.ors[alpha])

NewObject(fs, clusters) ==
    LET region == CVMRegions([I \in DOMAIN fs |-> fs[I].vars], clusters)
    IN  [factors |-> fs, backup |-> << >>, region |-> region,
         ors |-> [alpha \in DOMAIN region.ors |-> Hosted(fs, region, alpha)],
         thrown |-> IF AllHosted(region) THEN "" ELSE "ASSERTION_FAILED"]

(* Mutant of Failing: a second backup takes the place of the first.         *)
FailingNever(o, indices, withBackup) == {}

(* Those of `indices' that have a backup already.                          *)
Failing(o, indices, withBackup) == IF withBackup THEN indices \cap DOMAIN o.backup ELSE {}

(* Those that a loop passes before it throws at the first such.             *)
Passed(o, indices, withBackup) ==
    {I \in indices : \A J \in Failing(o, indices, withBackup) : I < J}

Outcome(o, indices, withBackup) == IF Failing(o, indices, withBackup) = {} THEN "" ELSE "MULTIPLE_UNDO"

(* Mutant of Outdated: only at the end of setFactors, not after each        *)
(* factor: not when an exception cuts the loop short.                       *)
OutdatedAtEnd(o, facs, some) ==
    {alpha \in DOMAIN o.region.ors :
        some = DOMAIN facs /\ o.region.ors[alpha] \cap UNION {facs[I].vars : I \in DOMAIN facs} # {}}

(* The regions whose product is computed anew: by the virtual setFactor     *)
(* after each factor, and at the end of setFactors around all of them.      *)
Outdated(o, facs, some) ==
    {o.region.fac2OR[I] : I \in some} \cup
    {alpha \in DOMAIN o.region.ors :
        some = DOMAIN facs /\ o.region.ors[alpha] \cap UNION {facs[I].vars : I \in DOMAIN facs} # {}}

BackedUp(o, some) ==
    [I \in some \cup DOMAIN o.backup |-> IF I \in some THEN o.factors[I] ELSE o.backup[I]]

(* setFactors, and with one factor setFactor.                              *)
SetFactors(o, facs, withBackup) ==
    LET some == Passed(o, DOMAIN facs, withBackup)
        fs == [I \in DOMAIN o.factors |-> IF I \in some THEN facs[I] ELSE o.factors[I]]
    IN  [o EXCEPT !.factors = fs,
                  !.backup = IF withBackup THEN BackedUp(o, some) ELSE @,
                  !.ors = [alpha \in DOMAIN @ |->
                     IF alpha \in Outdated(o, facs, some) THEN Hosted(fs, o.region, alpha) ELSE @[alpha]],
                  !.thrown = Outcome(o, DOMAIN facs, withBackup)]

(* clampVar, and with one state clamp.                                     *)
ClampVar(o, v, is, withBackup) ==
    SetFactors(o, [I \in nbV(o.factors, v) |-> Times(o.factors[I], Mask(v, is))], withBackup)

ClampFactor(o, I, is, withBackup) ==
    LET p == o.factors[I].p
        f == Factor(o.factors[I].vars, [k \in DOMAIN p |-> IF k - 1 \in is THEN p[k] ELSE 0])
    IN  SetFactors(o, [J \in {I} |-> f], withBackup)

MakeCavity(o, v, withBackup) ==
    SetFactors(o, [I \in nbV(o.factors, v) |-> Filled(o.factors[I].vars, 1)], withBackup)

(* backupFactor, and backupFactors of a set of factors.                     *)
BackupFactors(o, indices) ==
    [o EXCEPT !.backup = BackedUp(o, Passed(o, indices, TRUE)), !.thrown = Outcome(o, indices, TRUE)]

Touching(o, indices, vs) == {I \in indices : o.factors[I].vars \cap vs # {}}

BackupAround(o, vs) == BackupFactors(o, Touching(o, DOMAIN o.factors, vs))

RestoreThose(o, indices) ==
    [SetFactors(o, [I \in indices |-> o.backup[I]], FALSE)
        EXCEPT !.backup = [I \in DOMAIN @ \ indices |-> @[I]]]

RestoreFactor(o, I) ==
    IF I \in DOMAIN o.backup THEN RestoreThose(o, {I}) ELSE [o EXCEPT !.thrown = "OBJECT_NOT_FOUND"]

RestoreAround(o, vs) == RestoreThose(o, Touching(o, DOMAIN o.backup, vs))

RestoreFactors(o) == RestoreThose(o, DOMAIN o.backup)


-----------------------------------------------------------------------------
(***************************************************************************)
(* The region graphs that HAK makes of a factor graph (src/hak.cpp), with    *)
(* one of four choices of clusters, and the search for loops that one of     *)
(* them shares with the tool that prints the girth (src/utils/fginfo.cpp).   *)
(***************************************************************************)
Others(fs, v) == MarkovBlanket(fs, v) \ {v}

(* findLoopClusters: the paths of one variable more; those that come back    *)
(* to where they began are loops and go no further.                         *)
Closes(fs, path, v) == Len(path) >= 2 /\ path[1] \in Others(fs, v)

Onwards(fs, path) == Others(fs, Last(path)) \ ToSet(path)

LoopClusters(fs, loopdepth) ==
    LET paths[n \in 1 .. loopdepth - 1] ==
            IF n = 1 THEN {<<v>> : v \in VarsOf(fs)}
            ELSE UNION {{Append(p, v) : v \in {w \in Onwards(fs, p) : ~Closes(fs, p, w)}} : p \in paths[n - 1]}
        searched == UNION {paths[n] : n \in 1 .. loopdepth - 1}
    IN  UNION {{ToSet(p) \cup {v} : v \in {w \in Onwards(fs, p) : Closes(fs, p, w)}} : p \in searched}

(* fginfo: the smallest depth at which there are loops, 0 for infinity.      *)
Girth(fs) ==
    LET depths == {n \in 2 .. Cardinality(VarsOf(fs)) : LoopClusters(fs, n) # {}}
    IN  IF depths = {} THEN 0 ELSE Min(depths)

hasShortLoops(fs) == \E I, J \in DOMAIN fs : I < J /\ Cardinality(fs[I].vars \cap fs[J].vars) >= 2

-----------------------------------------------------------------------------
(* Mutant of BetheRegions: a factor that is not maximal stays with the       *)
(* region that was made last.                                              *)
BetheRegionsInOrder(fs) ==
    LET tops == SelectSeq([I \in DOMAIN fs |-> I], LAMBDA I : maximalFactor(fs, I) = I)
        ors == [alpha \in DOMAIN tops |-> fs[tops[alpha]].vars]
    IN  [ors |-> ors,
         fac2OR |-> [I \in DOMAIN fs |-> Max({1} \cup {alpha \in DOMAIN tops : tops[alpha] <= I})],
         c |-> [beta \in {{v} : v \in VarsOf(fs)} |-> 1 - OuterAround(beta, ors)]]

(* clusters=BETHE: the maximal factors become outer regions; another factor  *)
(* joins the one that maximalFactor finds for it, at once or, if that comes  *)
(* later, in the end.                                                      *)
BetheRegions(fs) ==
    LET tops == SelectSeq([I \in DOMAIN fs |-> I], LAMBDA I : maximalFactor(fs, I) = I)
        ors == [alpha \in DOMAIN tops |-> fs[tops[alpha]].vars]
    IN  [ors |-> ors,
         fac2OR |-> [I \in DOMAIN fs |-> SelectInSeq(tops, LAMBDA J : J = maximalFactor(fs, I))],
         c |-> [beta \in {{v} : v \in VarsOf(fs)} |-> 1 - OuterAround(beta, ors)]]

ClusterChoices == {"MIN", "DELTA", "LOOP", "BETHE"}

(* The constructor of HAK.                                                 *)
HAK(fs, clusters, loopdepth) ==
    LET domains == Fixed([I \in DOMAIN fs |-> fs[I].vars])
        ordered == Ordered(VarsOf(fs))
    IN  CASE clusters = "MIN" -> CVMRegions(domains, maximalFactorDomains(fs))
          [] clusters = "DELTA" -> CVMRegions(domains, Fixed([i \in DOMAIN ordered |-> MarkovBlanket(fs, ordered[i])]))
          [] clusters = "LOOP" ->
                CVMRegions(domains, maximalFactorDomains(fs) \o SetToSeq(LoopClusters(fs, loopdepth)))
          [] OTHER -> BetheRegions(fs)

-----------------------------------------------------------------------------
(* Whatever the choice: each factor goes into one region that holds all its  *)
(* variables, and the counting numbers around a variable add up to one.      *)
RegionsAreRight(fs, loopdepth) ==
    \A clusters \in ClusterChoices :
        LET region == HAK(fs, clusters, loopdepth)
        IN  /\ AllHosted(region) /\ CountingNumbersValid(region)
            /\ \A I \in DOMAIN fs : fs[I].vars \subseteq region.ors[region.fac2OR[I]]

(* A way round through all of vs.                                          *)
IsLoop(fs, vs) ==
    /\ Cardinality(vs) >= 3
    /\ \E way \in SetToSeqs(vs) :
          \A k \in DOMAIN way : way[(k % Len(way)) + 1] \in Others(fs, way[k])

(* The search finds sets that one can go round, finds some if there are any  *)
(* within its depth, and ends with the length of the shortest.              *)
LoopsAreRight(fs) ==
    LET loops == {vs \in SUBSET VarsOf(fs) : IsLoop(fs, vs)}
        sizes == {Cardinality(vs) : vs \in loops}
    IN  /\ \A n \in 2 .. Cardinality(VarsOf(fs)) :
              /\ LoopClusters(fs, n) \subseteq {vs \in loops : Cardinality(vs) <= n}
              /\ LoopClusters(fs, n) = {} <=> \A size \in sizes : size > n
        /\ Girth(fs) = IF sizes = {} THEN 0 ELSE Min(sizes)
        /\ isPairwise(fs) => (hasShortLoops(fs) <=> \E I, J \in DOMAIN fs : I < J /\ fs[I] = fs[J] /\ Cardinality(fs[I].vars) = 2)
=============================================================================
