---------------------------- MODULE JunctionTree ----------------------------
(***************************************************************************)
(* Exact inference with a junction tree (src/jtree.cpp): a JTree object is  *)
(* constructed from a factor graph by variable elimination, spans its       *)
(* clusters with a tree, and run() passes messages up and down that tree.   *)
(* Between runs factors may be replaced.                                    *)
(*                                                                         *)
(* The entries of a factor are abstracted to a product of factors of the    *)
(* graph: how often each of them went in, as it is now (fresh) and as it    *)
(* was before it was replaced (stale).  With it goes what has been clamped   *)
(* in it.  Marginalising and normalising keep that.                         *)
(***************************************************************************)
EXTENDS ClusterGraph

CONSTANTS
    FactorGraphs,  \* the factor graphs that may be given
    Heuristics,    \* values of the property "heuristic"
    Updates,       \* values of the property "updates"
    MaxMem,        \* the property "maxmem", in units of sizeof(Real) * fudge
    MaxReplaced    \* bound: factors that are replaced

ASSUME JunctionTreeAssumption ==
    /\ Heuristics \subseteq {"MINNEIGHBORS", "MINWEIGHT", "MINFILL", "WEIGHTEDMINFILL"}
    /\ Updates \subseteq {"HUGIN", "SHSH"}
    /\ MaxMem \in Nat /\ MaxReplaced \in Nat

VARIABLES
    fg,           \* the factor graph: the variables of each factor
    heuristic,
    pc,           \* where the constructor or run() is
    cl,           \* VarElim: the cluster graph
    eliminated,   \* VarElim: result, then the outer regions cl of construct
    varindices,   \* VarElim: the variables left
    totalStates,  \* VarElim: states of the cliques so far
    tree,         \* RTree: edges <<parent, child>> in the order of RootedTree
    fac2OR,       \* the outer region of each factor, 0 for none
    G,            \* the graph of outer and inner regions
    OR,           \* the products in the outer regions
    Qa, Qb,       \* beliefs of outer and inner regions
    mes,          \* messages, by outer region and position in its list
    edge,         \* the loop variable of a pass
    replaced,     \* counted against MaxReplaced
    answer        \* what calcMarginal has worked out since run(), if anything

eliminationVars == <<cl, varindices, totalStates>>
regionVars == <<tree, fac2OR, G>>
beliefVars == <<Qa, Qb, mes>>
clientVars == <<replaced, answer>>
vars == <<fg, heuristic, pc, eliminated, eliminationVars, regionVars, OR, beliefVars, edge, clientVars>>

NoAnswer == << >>

Init ==
    /\ fg \in FactorGraphs /\ heuristic \in Heuristics
    /\ pc = "eliminate"
    /\ cl = EraseNonMaximal(MaximalFactors(fg))
    /\ eliminated = NoClusters
    /\ varindices = DOMAIN cl.vars
    /\ totalStates = 0
    /\ tree = << >> /\ fac2OR = << >> /\ G = Unlinked(0, 0)
    /\ OR = << >> /\ Qa = << >> /\ Qb = << >> /\ mes = << >>
    /\ edge = 0 /\ replaced = 0 /\ answer = NoAnswer

-----------------------------------------------------------------------------
(* One iteration of VarElim. *)
Eliminate ==
    /\ pc = "eliminate" /\ varindices # {}
    /\ LET i == Cheapest(heuristic, cl, varindices)
           Di == Delta(cl, i)
       IN  /\ cl' = ElimVar(cl, i)
           /\ eliminated' = Insert(eliminated, Di)
           /\ totalStates' = IF MaxMem = 0 THEN 0 ELSE totalStates + NrStates(Di)
           /\ varindices' = varindices \ {i}
    /\ pc' = IF totalStates' > MaxMem THEN "outOfMemory" ELSE pc
    /\ UNCHANGED <<fg, heuristic, regionVars, OR, beliefVars, edge, clientVars>>

-----------------------------------------------------------------------------
(* construct: the weights of JuncGraph, with region 1 joined to each other. *)
Weighted(ors) ==
    [e \in {f \in (DOMAIN ors) \X (DOMAIN ors) : f[1] < f[2]
                 /\ (f[1] = 1 \/ ors[f[1]] \cap ors[f[2]] # {})} |->
        Cardinality(ors[e[1]] \cap ors[e[2]])]

Joined(es, n) ==
    LET reach[k \in 0 .. n] ==
            IF k = 0 THEN {1}
            ELSE reach[k - 1] \cup UNION {{e[1], e[2]} : e \in
                    {f \in es : {f[1], f[2]} \cap reach[k - 1] # {}}}
    IN  reach[n] = 1 .. n

SpanningTrees(edges, n) == {es \in kSubset(n - 1, edges) : Joined(es, n)}

TotalWeight(w, es) == FoldSet(LAMBDA e, acc : acc + w[e], 0, es)

(* Mutant of MaxSpanningTrees: the weights are not turned around for Prim's *)
(* algorithm, which minimises.                                             *)
MinSpanningTrees(w, n) ==
    LET trees == SpanningTrees(DOMAIN w, n)
    IN  {t \in trees : \A u \in trees : TotalWeight(w, t) <= TotalWeight(w, u)}

(* MaxSpanningTree; which of several is Boost's choice.                    *)
MaxSpanningTrees(w, n) ==
    LET trees == SpanningTrees(DOMAIN w, n)
    IN  {t \in trees : \A u \in trees : TotalWeight(w, t) >= TotalWeight(w, u)}

(* RootedTree: rounds over the edges that are left, each taking those that  *)
(* touch the tree so far and pointing them away from the root.              *)
RootedAt(es, root) ==
    LET before(e, f) == e[1] < f[1] \/ (e[1] = f[1] /\ e[2] < f[2])
        todo == SetToSortSeq(es, before)
        take(at, e) ==
            CASE {e[1], e[2]} \subseteq at.nodes -> at
              [] e[1] \in at.nodes -> [nodes |-> at.nodes \cup {e[2]},
                                       edges |-> Append(at.edges, <<e[1], e[2]>>)]
              [] e[2] \in at.nodes -> [nodes |-> at.nodes \cup {e[1]},
                                       edges |-> Append(at.edges, <<e[2], e[1]>>)]
              [] OTHER -> at
        round(at, e) == FoldLeft(take, at, todo)
    IN  FoldLeft(round, [nodes |-> {root}, edges |-> << >>], todo).edges

Rooted(es) == RootedAt(es, 1)

RegionGraphOf(edges, n) ==
    FoldLeft(LAMBDA g, b : WithEdge(WithEdge(g, edges[b][1], b, TRUE), edges[b][2], b, TRUE),
             Unlinked(n, Len(edges)), [b \in DOMAIN edges |-> b])

-----------------------------------------------------------------------------
(* Products of factors.  Dividing by a clamped one leaves zeros where it is  *)
(* zero, as multiplying does.                                              *)
Counts(fresh, stale, clamped) == [fresh |-> fresh, stale |-> stale, clamped |-> clamped]

Each(n) == [I \in DOMAIN fg |-> n]

One == Counts(Each(0), Each(0), {})

All == Counts(Each(1), Each(0), {})

Multiplied(p, q) ==
    Counts([I \in DOMAIN fg |-> p.fresh[I] + q.fresh[I]],
             [I \in DOMAIN fg |-> p.stale[I] + q.stale[I]], p.clamped \cup q.clamped)

Over(p, q) ==
    Counts([I \in DOMAIN fg |-> p.fresh[I] - q.fresh[I]],
             [I \in DOMAIN fg |-> p.stale[I] - q.stale[I]], p.clamped \cup q.clamped)

(* recomputeORs: the product of the factors that a region hosts. *)
Hosted(alpha, hosts) ==
    [One EXCEPT !.fresh = [I \in DOMAIN fg |-> IF hosts[I] = alpha THEN 1 ELSE 0]]

Regions == eliminated.clusters

(* The end of the constructor: the memory is estimated, then construct and  *)
(* GenerateJT make the tree, the regions and the messages.                  *)
Construct ==
    /\ pc = "eliminate" /\ varindices = {}
    /\ LET maximal == EraseNonMaximal(eliminated)
           ors == maximal.clusters
           hosts == [I \in DOMAIN fg |-> HostOf(fg[I], ors)]
           memneeded == FoldLeft(LAMBDA acc, vs : acc + NrStates(vs), 0, ors)
       IN  IF MaxMem > 0 /\ memneeded > MaxMem
           THEN pc' = "outOfMemory" /\ UNCHANGED <<eliminated, regionVars, OR, beliefVars>>
           ELSE \E es \in MaxSpanningTrees(Weighted(ors), Len(ors)) :
                  /\ eliminated' = maximal
                  /\ tree' = Rooted(es)
                  /\ fac2OR' = hosts
                  /\ G' = RegionGraphOf(tree', Len(ors))
                  /\ OR' = [alpha \in DOMAIN ors |-> Hosted(alpha, hosts)]
                  /\ Qa' = OR'
                  /\ Qb' = [beta \in DOMAIN tree' |-> One]
                  /\ mes' = [alpha \in DOMAIN ors |-> [k \in DOMAIN G'.nb1[alpha] |-> One]]
                  /\ pc' = IF \E I \in DOMAIN fg : hosts[I] = 0 THEN "assertion" ELSE "ready"
    /\ cl' = NoClusters /\ totalStates' = 0
    /\ UNCHANGED <<fg, heuristic, varindices, edge, clientVars>>

-----------------------------------------------------------------------------
(* runHUGIN: starts from the outer regions.  *)
HuginStart ==
    /\ pc \in {"ready", "done"} /\ "HUGIN" \in Updates
    /\ Qa' = OR
    /\ Qb' = [beta \in DOMAIN tree |-> One]
    /\ edge' = Len(tree)
    /\ pc' = "collect"
    /\ answer' = NoAnswer
    /\ UNCHANGED <<fg, heuristic, eliminated, eliminationVars, regionVars, OR, mes, replaced>>

(* Mutant of Absorb: the old separator is not divided out.                  *)
AbsorbUndivided(to, from) ==
    /\ Qa' = [Qa EXCEPT ![to] = Multiplied(@, Qa[from])]
    /\ Qb' = [Qb EXCEPT ![edge] = Qa[from]]

(* Region `to' absorbs what region `from' says about their separator. *)
Absorb(to, from) ==
    /\ Qa' = [Qa EXCEPT ![to] = Multiplied(@, Over(Qa[from], Qb[edge]))]
    /\ Qb' = [Qb EXCEPT ![edge] = Qa[from]]

HuginCollect ==
    /\ pc = "collect"
    /\ IF edge > 0
       THEN /\ Absorb(tree[edge][1], tree[edge][2])
            /\ edge' = edge - 1 /\ pc' = pc
       ELSE /\ edge' = 1 /\ pc' = "distribute"
            /\ UNCHANGED <<Qa, Qb>>
    /\ UNCHANGED <<fg, heuristic, eliminated, eliminationVars, regionVars, OR, mes, clientVars>>

HuginDistribute ==
    /\ pc = "distribute"
    /\ IF edge <= Len(tree)
       THEN /\ Absorb(tree[edge][2], tree[edge][1])
            /\ edge' = edge + 1 /\ pc' = pc
       ELSE /\ edge' = 0 /\ pc' = "done"
            /\ UNCHANGED <<Qa, Qb>>
    /\ UNCHANGED <<fg, heuristic, eliminated, eliminationVars, regionVars, OR, mes, clientVars>>

-----------------------------------------------------------------------------
(* runShaferShenoy. *)
ShshStart ==
    /\ pc \in {"ready", "done"} /\ "SHSH" \in Updates
    /\ edge' = Len(tree)
    /\ pc' = "firstPass"
    /\ answer' = NoAnswer
    /\ UNCHANGED <<fg, heuristic, eliminated, eliminationVars, regionVars, OR, beliefVars, replaced>>

(* What region alpha makes of its messages, except that from `but'.        *)
Product(alpha, but) ==
    FoldLeft(LAMBDA acc, nb : IF nb.node = but THEN acc ELSE Multiplied(acc, mes[alpha][nb.iter]),
             OR[alpha], G.nb1[alpha])

(* The message over inner region `edge' to the region at entry `to' of its *)
(* list, from the other one.                                               *)
Send(to, from) ==
    LET target == G.nb2[edge][to]
    IN  mes' = [mes EXCEPT ![target.node][target.dual] = Product(G.nb2[edge][from].node, edge)]

ShshFirstPass ==
    /\ pc = "firstPass"
    /\ IF edge > 0
       THEN Send(1, 2) /\ edge' = edge - 1 /\ pc' = pc
       ELSE edge' = 1 /\ pc' = "secondPass" /\ UNCHANGED mes
    /\ UNCHANGED <<fg, heuristic, eliminated, eliminationVars, regionVars, OR, Qa, Qb, clientVars>>

(* The second pass ends with the beliefs. *)
ShshSecondPass ==
    /\ pc = "secondPass"
    /\ IF edge <= Len(tree)
       THEN Send(2, 1) /\ edge' = edge + 1 /\ pc' = pc /\ UNCHANGED <<Qa, Qb>>
       ELSE /\ Qa' = [alpha \in DOMAIN OR |-> Product(alpha, 0)]
            /\ Qb' = [beta \in DOMAIN tree |-> Qa'[G.nb2[beta][1].node]]
            /\ edge' = 0 /\ pc' = "done" /\ UNCHANGED mes
    /\ UNCHANGED <<fg, heuristic, eliminated, eliminationVars, regionVars, OR, clientVars>>

-----------------------------------------------------------------------------
Aged(p, I) == [p EXCEPT !.fresh[I] = 0, !.stale[I] = @ + p.fresh[I]]

(* setFactor: what was computed from the old factor stays as it is, and the *)
(* region that hosts the factor is recomputed.                              *)
ReplaceFactor(I) ==
    /\ pc \in {"ready", "done"}
    /\ replaced < MaxReplaced /\ replaced' = replaced + 1
    /\ pc' = "ready" /\ answer' = NoAnswer
    /\ OR' = [alpha \in DOMAIN OR |->
                IF alpha = fac2OR[I] THEN Hosted(alpha, fac2OR) ELSE OR[alpha]]
    /\ Qa' = [alpha \in DOMAIN Qa |-> Aged(Qa[alpha], I)]
    /\ Qb' = [beta \in DOMAIN Qb |-> Aged(Qb[beta], I)]
    /\ mes' = [alpha \in DOMAIN mes |-> [k \in DOMAIN mes[alpha] |-> Aged(mes[alpha][k], I)]]
    /\ UNCHANGED <<fg, heuristic, eliminated, eliminationVars, regionVars, edge>>

-----------------------------------------------------------------------------
(* What may be asked after run().                                          *)

(* belief: the first separator that has all of vs, or the first clique.      *)
Holding(vs) ==
    LET separators == {b \in DOMAIN tree : vs \subseteq Regions[tree[b][1]] \cap Regions[tree[b][2]]}
        cliques == {alpha \in DOMAIN Regions : vs \subseteq Regions[alpha]}
    IN  IF separators # {} THEN Qb[Min(separators)]
        ELSE IF cliques # {} THEN Qa[Min(cliques)]
        ELSE One

Covered(vs) == \E alpha \in DOMAIN Regions : vs \subseteq Regions[alpha]

(* The edges from the root down to edge e of a rooted tree.                  *)
PathTo(edges, e) ==
    LET up(path, f) == IF f[2] = path[1][1] THEN <<f>> \o path ELSE path
    IN  FoldLeft(up, <<edges[e]>>, Reverse(SubSeq(edges, 1, e - 1)))

(* Mutant of SubTree: only the way to the first clique with a variable.      *)
SubTreeOfFirst(edges, vs) ==
    LET first(v) == {e \in DOMAIN edges : v \in Regions[edges[e][2]] /\ \A f \in 1 .. e - 1 : v \notin Regions[edges[f][2]]}
    IN  UNION {ToSet(PathTo(edges, e)) : e \in {f \in DOMAIN edges : vs # {} /\ f \in first(Min(vs))}}

(* The edges below which there is a clique with a variable of vs.            *)
SubTree(edges, vs) ==
    UNION {ToSet(PathTo(edges, e)) : e \in {f \in DOMAIN edges : Regions[edges[f][2]] \cap vs # {}}}

(* findEfficientTree: the clique that shares most states with vs becomes the *)
(* root, and the subtree comes first.                                      *)
findEfficientTree(vs) ==
    LET overlap(alpha) == NrStates(vs \cap Regions[alpha])
        root == Min({alpha \in DOMAIN Regions : \A gamma \in DOMAIN Regions : overlap(gamma) <= overlap(alpha)})
        edges == RootedAt(Range(tree), root)
        needed == SubTree(edges, vs)
    IN  [root |-> root, edges |-> SelectSeq(edges, LAMBDA e : e \in needed)]

(* What calcMarginal works on: the products in the cliques and separators.   *)
Beliefs == [qa |-> Qa, qb |-> Qb]

(* One edge of CollectEvidence, for joint state s of the variables `rest':    *)
(* those in the lower clique are clamped in it, in place.                    *)
Collected(at, e, rest, s) ==
    LET separator == CHOOSE b \in DOMAIN tree : {tree[b][1], tree[b][2]} = {e[1], e[2]}
        lower == [at.qa[e[2]] EXCEPT !.clamped = @ \cup ((rest \cap Regions[e[2]]) \X {s})]
    IN  [qa |-> [at.qa EXCEPT ![e[2]] = lower,
                              ![e[1]] = Multiplied(@, Over(lower, at.qb[separator]))],
         qb |-> [at.qb EXCEPT ![separator] = lower]]

Touched(T) == {T.root} \cup {e[2] : e \in Range(T.edges)}

(* Mutant of Restored: the separators stay as they are after CollectEvidence.*)
CliquesRestored(at, T) ==
    [at EXCEPT !.qa = [alpha \in DOMAIN Qa |-> IF alpha \in Touched(T) THEN Qa[alpha] ELSE @[alpha]]]

(* The beliefs that were saved for the subtree are put back.                 *)
Restored(at, T) ==
    [qa |-> [alpha \in DOMAIN Qa |-> IF alpha \in Touched(T) THEN Qa[alpha] ELSE at.qa[alpha]],
     qb |-> [b \in DOMAIN Qb |->
                IF {tree[b][1], tree[b][2]} \subseteq Touched(T) THEN Qb[b] ELSE at.qb[b]]]

(* calcMarginal of variables that are in no clique together: for every joint *)
(* state of those that are not in the root, evidence is collected from the   *)
(* leaves of the subtree to the root, and the beliefs are restored.  What    *)
(* the answer is added up from is noted.  Bound: one call after each run().   *)
calcMarginal(vs) ==
    /\ pc = "done" /\ answer = NoAnswer
    /\ ~Covered(vs)
    /\ LET T == findEfficientTree(vs)
           rest == vs \ Regions[T.root]
           collected(at, s) == FoldLeft(LAMBDA x, e : Collected(x, e, rest, s), at, Reverse(T.edges))
           add(loop, s) ==
               LET at == collected(loop.at, s)
               IN  [at |-> Restored(at, T), parts |-> Append(loop.parts, at.qa[T.root])]
           end == FoldLeft(add, [at |-> Beliefs, parts |-> << >>], [s \in 1 .. NrStates(rest) |-> s])
       IN  /\ Qa' = end.at.qa /\ Qb' = end.at.qb
           /\ answer' = [rest |-> rest, parts |-> end.parts]
    /\ UNCHANGED <<fg, heuristic, pc, eliminated, eliminationVars, regionVars, OR, mes, edge, replaced>>

(* findMaximum: from clique to clique with a stack; each decides its         *)
(* variables that are not decided yet, and calls for its neighbours if there *)
(* are any.  In `by' is which clique has decided a variable.                *)
findMaximum ==
    LET beside(alpha) == FlattenSeq([b \in DOMAIN tree |->
                             IF alpha \in {tree[b][1], tree[b][2]} THEN <<tree[b][1], tree[b][2]>> ELSE << >>])
        visit(at) ==
            LET alpha == Last(at.stack)
                fresh == Regions[alpha] \ DOMAIN at.by
                left == Front(at.stack)
            IN  IF alpha \in Range(at.visited) THEN [at EXCEPT !.stack = left]
                ELSE [by |-> at.by @@ [v \in fresh |-> alpha],
                      visited |-> Append(at.visited, alpha),
                      stack |-> left \o IF fresh = {} THEN << >>
                                        ELSE SelectSeq(beside(alpha), LAMBDA g : g # alpha /\ g \notin Range(at.visited))]
        walk[k \in 0 .. Len(Regions) ^ 2 + 1] ==
            IF k = 0 THEN [by |-> << >>, visited |-> << >>, stack |-> <<1>>]
            ELSE LET at == walk[k - 1] IN IF at.stack = << >> THEN at ELSE visit(at)
    IN  walk[Len(Regions) ^ 2 + 1]

(* boundTreewidth.                                                         *)
Treewidth == Max({0} \cup {Cardinality(vs) : vs \in Range(Regions)})

Next ==
    \/ Eliminate \/ Construct
    \/ HuginStart \/ HuginCollect \/ HuginDistribute
    \/ ShshStart \/ ShshFirstPass \/ ShshSecondPass
    \/ \E I \in DOMAIN fg : ReplaceFactor(I)
    \/ \E vs \in SUBSET UNION Range(fg) : calcMarginal(vs)

Spec == Init /\ [][Next]_vars

-----------------------------------------------------------------------------
(* Through insertions and erasures that renumber clusters the list of       *)
(* clusters and the bipartite graph stay in step.                          *)
GraphsMatch == Matches(cl) /\ Matches(eliminated)

(* The assertion of construct (jtree.cpp:167): variable elimination never   *)
(* loses a factor, each fits into an outer region.                          *)
FactorsHosted == pc # "assertion"

(* The outer regions that contain a variable hang together in the tree, by  *)
(* separators that contain it.  Otherwise a message would sum out a         *)
(* variable that occurs again further on.                                   *)
RunningIntersection ==
    pc = "ready" =>
        \A v \in UNION Range(fg) :
            Cardinality({alpha \in DOMAIN Regions : v \in Regions[alpha]})
              - Cardinality({b \in DOMAIN tree :
                               v \in Regions[tree[b][1]] \cap Regions[tree[b][2]]}) = 1

(* A graph with a junction tree of its own factors is not made any larger   *)
(* by the fill heuristics: the outer regions are then its maximal factors.  *)
Decomposable ==
    LET factors == SetToSeq({vs \in Range(fg) \ {{}} : \A ws \in Range(fg) : ~(vs \subseteq ws /\ vs # ws)})
        w == Weighted(factors)
        total == FoldLeft(LAMBDA acc, vs : acc + Cardinality(vs), 0, factors)
    IN  \E t \in MaxSpanningTrees(w, Len(factors)) :
            total - TotalWeight(w, t) = Cardinality(UNION Range(fg))

NoNeedlessFill ==
    pc = "ready" /\ heuristic \in {"MINFILL", "WEIGHTEDMINFILL"} /\ Decomposable =>
        /\ Range(Regions) \subseteq Range(fg)
        /\ Treewidth = Max({Cardinality(vs) : vs \in Range(fg)})

(* After run() each belief is the product of all factors as they are now,   *)
(* each counted once, with either kind of updates, also when messages and   *)
(* beliefs of an earlier run with other factors are still around.           *)
Calibrated ==
    pc = "done" =>
        /\ \A alpha \in DOMAIN Qa : Qa[alpha] = All
        /\ \A beta \in DOMAIN Qb : Qb[beta] = All

(* What is asked of the tree after run() is the same as if all factors were  *)
(* multiplied: the belief of any variables is from all factors; those that    *)
(* no clique has together are clamped to one joint state after the other,     *)
(* and each part of the answer is from all factors, each once, with that      *)
(* state of them all and of no other.  And when the most likely state is      *)
(* decoded, no clique finds variables decided that were not decided together  *)
(* with respect to one neighbour, and each has its turn.                      *)
AnswersFromTree ==
    /\ answer # NoAnswer =>
          /\ Len(answer.parts) = NrStates(answer.rest)
          /\ \A s \in DOMAIN answer.parts : answer.parts[s] = [All EXCEPT !.clamped = answer.rest \X {s}]
    /\ pc = "done" /\ replaced = 0 /\ answer = NoAnswer =>
        /\ \A vs \in SUBSET UNION Range(fg) : Covered(vs) => Holding(vs) = All
        /\ LET found == findMaximum
               decided(n) == UNION {Regions[found.visited[m]] : m \in 1 .. n - 1}
           IN  /\ Range(found.visited) = DOMAIN Regions /\ DOMAIN found.by = UNION Range(fg)
               /\ \A n \in DOMAIN found.visited \ {1} : \E m \in 1 .. n - 1 :
                     Regions[found.visited[n]] \cap decided(n) \subseteq Regions[found.visited[m]]
=============================================================================
