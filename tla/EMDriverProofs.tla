--------------------------- MODULE EMDriverProofs ---------------------------
EXTENDS EMDriver, AlemLayersProofs

(* Of one line alone, the sums over the lines of a key are those of it. *)
LEMMA OneLine ==
    ASSUME NEW in, Len(in) = 1, in[1].run.likelihood \in Int
    PROVE  SumLikelihood(in) = in[1].run.likelihood /\ MergedStats(in) = in[1].stats
<1>1. SumLikelihood(in) = in[1].run.likelihood
  <2> DEFINE IsSum(sum) == sum = [n \in 0 .. Len(in) |->
                                    IF n = 0 THEN 0 ELSE sum[n - 1] + in[n].run.likelihood]
             g == [n \in 0 .. 1 |-> IF n = 0 THEN 0 ELSE in[1].run.likelihood]
  <2>1. g = [n \in 0 .. 1 |-> IF n = 0 THEN 0 ELSE g[n - 1] + in[n].run.likelihood]
    OBVIOUS
  <2>2. IsSum(g)
    BY <2>1
  <2>3. SumLikelihood(in) = (CHOOSE sum : IsSum(sum))[1]
    BY DEF SumLikelihood
  <2>4. IsSum(CHOOSE sum : IsSum(sum))
    <3> HIDE DEF IsSum, g
    <3> QED BY <2>2
  <2>5. \A sum : IsSum(sum) => sum[1] = in[1].run.likelihood
    <3> SUFFICES ASSUME NEW sum, IsSum(sum) PROVE sum[1] = in[1].run.likelihood
      OBVIOUS
    <3>1. sum[0] = 0
      OBVIOUS
    <3>2. sum[1] = sum[0] + in[1].run.likelihood
      OBVIOUS
    <3> HIDE DEF IsSum
    <3> QED BY <3>1, <3>2
  <2> HIDE DEF IsSum
  <2> QED BY <2>3, <2>4, <2>5
<1>2. MergedStats(in) = in[1].stats
  <2> DEFINE IsMerged(m) == m = [n \in 1 .. Len(in) |->
                IF n = 1 THEN in[1].stats ELSE AddExpectations(m[n - 1], in[n].stats)]
             g == [n \in 1 .. 1 |-> in[1].stats]
  <2>2. IsMerged(g)
    OBVIOUS
  <2>3. MergedStats(in) = (CHOOSE m : IsMerged(m))[1]
    BY DEF MergedStats
  <2>4. IsMerged(CHOOSE m : IsMerged(m))
    <3> HIDE DEF IsMerged, g
    <3> QED BY <2>2
  <2>5. \A m : IsMerged(m) => m[1] = in[1].stats
    OBVIOUS
  <2> HIDE DEF IsMerged
  <2> QED BY <2>3, <2>4, <2>5
<1>3. QED
  BY <1>1, <1>2

-----------------------------------------------------------------------------
(* What one EM iteration on the whole evidence, the one shard, may make of  *)
(* a run: the lines of a key are one line.                                 *)
Iterated(r) ==
    LET first == MapRecord(r, TheShard).run
    IN  IF Rests(r)
        THEN {[first EXCEPT !.alemItersActive = @ + 1]}
        ELSE {[first EXCEPT !.fg = fg, !.iter = @ + 1, !.alemItersActive = r.iter + 1] :
                fg \in MStep[r.fg]}

(* Over the one shard there is, the statistics of a shard are complete.     *)
LEMMA ShardFacts ==
    /\ TheShard \in Shards /\ Shards = {TheShard}
    /\ ShardStats(TheShard) = CompleteStats
<1>1. TheShard \in Shards
  BY EMStepsAssumption DEF TheShard
<1>2. \A s \in Shards : s = TheShard
  <2> SUFFICES ASSUME NEW s \in Shards, s # TheShard PROVE FALSE
    OBVIOUS
  <2>1. IsFiniteSet(Shards) /\ Cardinality(Shards) = 1
    BY EMStepsAssumption, DriverAssumption
  <2>2. \E x : Shards = {x}
    BY <2>1, FS_Singleton
  <2> QED BY <1>1, <2>2
<1>3. ShardStats(TheShard) = CompleteStats
  BY <1>1, <1>2 DEF ShardStats, CompleteStats
<1>4. QED
  BY <1>1, <1>2, <1>3

(* The line of a run: its key, complete statistics, the likelihoods one     *)
(* further.                                                                 *)
LEMMA MappedFacts ==
    ASSUME NEW r \in EMdata
    PROVE  /\ MapRecord(r, TheShard).key = r.bnID
           /\ MapRecord(r, TheShard).stats = CompleteStats
           /\ MapRecord(r, TheShard).run \in EMdata
           /\ MapRecord(r, TheShard).run =
                 [r EXCEPT !.lastLikelihood = r.likelihood, !.likelihood = ShardLik[r.fg][TheShard]]
           /\ ShardLik[r.fg][TheShard] \in Int
<1>1. ShardLik[r.fg][TheShard] \in Int
  BY ShardFacts, EMStepsAssumption DEF EMdata
<1>2. MapRecord(r, TheShard).run =
         [r EXCEPT !.lastLikelihood = r.likelihood, !.likelihood = ShardLik[r.fg][TheShard]]
  BY DEF MapRecord
<1>3. MapRecord(r, TheShard).run \in EMdata
  BY <1>1, <1>2 DEF EMdata
<1>4. QED
  BY <1>1, <1>2, <1>3, ShardFacts DEF MapRecord

(* em_reduce of a group of one line: the M-step of that run.                *)
LEMMA ReduceAlone ==
    ASSUME NEW r \in EMdata, NEW in, Len(in) = 1, in[1] = MapRecord(r, TheShard)
    PROVE  EmReduce(in) = Iterated(r)
<1> DEFINE first == MapRecord(r, TheShard).run
<1>1. Head(in).run = first
  OBVIOUS
<1>2. first \in EMdata /\ first.fg = r.fg /\ first.iter = r.iter
      /\ first.likelihood = ShardLik[r.fg][TheShard] /\ first.likelihood \in Int
  <2>1. first = [r EXCEPT !.lastLikelihood = r.likelihood, !.likelihood = ShardLik[r.fg][TheShard]]
        /\ first \in EMdata /\ ShardLik[r.fg][TheShard] \in Int
    BY MappedFacts
  <2> HIDE DEF first
  <2> QED BY <2>1 DEF EMdata
<1>3. SumLikelihood(in) = first.likelihood /\ MergedStats(in) = CompleteStats
  <2>1. in[1].run = first /\ in[1].stats = CompleteStats
    BY MappedFacts
  <2> HIDE DEF first
  <2>2. in[1].run.likelihood \in Int
    BY <1>2, <2>1
  <2> QED BY <2>1, <2>2, OneLine
<1>4. Maximize(first.fg, MergedStats(in)) = MStep[r.fg]
  BY <1>2, <1>3 DEF Maximize
<1>5. IsConverged(first) <=> Rests(r)
  BY DEF Rests
<1> HIDE DEF first
<1>6. CASE Rests(r)
  <2>1. EmReduce(in) = {[first EXCEPT !.alemItersActive = @ + 1]}
    BY <1>1, <1>5, <1>6 DEF EmReduce
  <2> QED BY <1>6, <2>1 DEF Iterated, first
<1>7. CASE ~Rests(r)
  <2> DEFINE Summed(fg) == [first EXCEPT !.fg = fg, !.likelihood = SumLikelihood(in),
                                         !.iter = @ + 1, !.alemItersActive = first.iter + 1]
             Alone(fg) == [first EXCEPT !.fg = fg, !.iter = @ + 1, !.alemItersActive = r.iter + 1]
  <2>1. EmReduce(in) = {Summed(fg) : fg \in MStep[r.fg]}
    <3> DEFINE fgs == Maximize(first.fg, MergedStats(in))
    <3>1. EmReduce(in) = {Summed(fg) : fg \in fgs}
      BY <1>1, <1>5, <1>7 DEF EmReduce
    <3>2. fgs = MStep[r.fg]
      BY <1>4
    <3> HIDE DEF Summed, fgs
    <3> QED BY <3>1, <3>2
  <2>2. Iterated(r) = {Alone(fg) : fg \in MStep[r.fg]}
    BY <1>7 DEF Iterated, first
  <2>3. \A fg : Summed(fg) = Alone(fg)
    BY <1>2, <1>3 DEF EMdata
  <2> HIDE DEF Summed, Alone
  <2> QED BY <2>1, <2>2, <2>3
<1>8. QED
  BY <1>6, <1>7

(* What an iteration keeps of a run, and what it changes.                   *)
LEMMA IteratedFacts ==
    ASSUME NEW r \in EMdata, NEW x \in Iterated(r)
    PROVE  /\ x \in EMdata
           /\ x.bnID = r.bnID /\ x.ALEM_layer = r.ALEM_layer
           /\ x.likelihood = ShardLik[r.fg][TheShard] /\ x.lastLikelihood = r.likelihood
           /\ Rests(r) => /\ x.fg = r.fg /\ x.iter = r.iter
                          /\ x.alemItersActive = r.alemItersActive + 1
           /\ ~Rests(r) => /\ x.fg \in MStep[r.fg] /\ x.iter = r.iter + 1
                           /\ x.alemItersActive = r.iter + 1
<1> DEFINE first == MapRecord(r, TheShard).run
<1>1. first \in EMdata
      /\ first = [r EXCEPT !.lastLikelihood = r.likelihood, !.likelihood = ShardLik[r.fg][TheShard]]
  BY MappedFacts
<1>2. MStep[r.fg] \subseteq Params
  BY EMStepsAssumption DEF EMdata
<1> HIDE DEF first
<1>3. /\ first.bnID = r.bnID /\ first.ALEM_layer = r.ALEM_layer /\ first.fg = r.fg
      /\ first.iter = r.iter /\ first.alemItersActive = r.alemItersActive
      /\ first.likelihood = ShardLik[r.fg][TheShard] /\ first.lastLikelihood = r.likelihood
      /\ r.iter \in Nat
  BY <1>1 DEF EMdata
<1>4. CASE Rests(r)
  <2>1. x = [first EXCEPT !.alemItersActive = @ + 1]
    BY <1>4 DEF Iterated, first
  <2>2. x \in EMdata
    <3>1. first.alemItersActive + 1 \in Nat
      BY <1>1 DEF EMdata
    <3>2. \A k \in Nat : [first EXCEPT !.alemItersActive = k] \in EMdata
      BY <1>1 DEF EMdata
    <3> QED BY <2>1, <3>1, <3>2
  <2>3. /\ x.bnID = first.bnID /\ x.ALEM_layer = first.ALEM_layer /\ x.fg = first.fg
        /\ x.iter = first.iter /\ x.alemItersActive = first.alemItersActive + 1
        /\ x.likelihood = first.likelihood /\ x.lastLikelihood = first.lastLikelihood
    BY <1>1, <2>1 DEF EMdata
  <2> QED BY <1>3, <1>4, <2>2, <2>3
<1>5. CASE ~Rests(r)
  <2>1. PICK fg \in MStep[r.fg] :
           x = [first EXCEPT !.fg = fg, !.iter = @ + 1, !.alemItersActive = r.iter + 1]
    BY <1>5 DEF Iterated, first
  <2>2. x \in EMdata
    <3>1. first.iter + 1 \in Nat /\ r.iter + 1 \in Nat /\ fg \in Params
      BY <1>2, <1>3
    <3>2. \A k, m \in Nat, p \in Params :
             [first EXCEPT !.fg = p, !.iter = k, !.alemItersActive = m] \in EMdata
      BY <1>1 DEF EMdata
    <3> QED BY <2>1, <3>1, <3>2
  <2>3. /\ x.bnID = first.bnID /\ x.ALEM_layer = first.ALEM_layer /\ x.fg = fg
        /\ x.iter = first.iter + 1 /\ x.alemItersActive = r.iter + 1
        /\ x.likelihood = first.likelihood /\ x.lastLikelihood = first.lastLikelihood
    BY <1>1, <2>1 DEF EMdata
  <2> QED BY <1>3, <1>5, <2>2, <2>3
<1>6. QED
  BY <1>4, <1>5

(* What the reducer writes: one of the outcomes of each key, in the order   *)
(* of the keys.                                                            *)
LEMMA WrittenFacts ==
    ASSUME NEW lns, NEW N \in Nat, N = Cardinality(KeysOf(lns)),
           \A n \in 1 .. N : Outcomes(lns, SortedKeys(lns)[n]) \subseteq EMdata,
           NEW w \in ReducedRuns(lns)
    PROVE  /\ w \in Seq(EMdata) /\ Len(w) = N
           /\ \A n \in 1 .. N : w[n] \in Outcomes(lns, SortedKeys(lns)[n])
<1> DEFINE Out(n) == Outcomes(lns, SortedKeys(lns)[n])
           Longer(before, n) == {Append(v, r) : v \in before, r \in Out(n)}
           IsWritten(f) == f = [n \in 0 .. N |-> IF n = 0 THEN {<< >>} ELSE Longer(f[n - 1], n)]
           Chosen(n) == {v \in Seq(EMdata) : Len(v) = n /\ \A k \in 1 .. n : v[k] \in Out(k)}
           written == CHOOSE f : IsWritten(f)
<1>1. ReducedRuns(lns) = written[N]
  BY DEF ReducedRuns
<1>2. \A n \in 1 .. N : Out(n) \subseteq EMdata
  OBVIOUS
<1> HIDE DEF Out
<1>3. Chosen(0) = {<< >>}
  <2>1. ASSUME NEW v \in Seq(EMdata), Len(v) = 0 PROVE v = << >>
    BY <2>1, EmptySeq
  <2>2. << >> \in Chosen(0)
    OBVIOUS
  <2>3. \A v \in Chosen(0) : v = << >>
    BY <2>1
  <2> HIDE DEF Chosen
  <2> QED BY <2>2, <2>3
<1>4. ASSUME NEW n \in 1 .. N PROVE Chosen(n) = Longer(Chosen(n - 1), n)
  <2>1. ASSUME NEW v \in Chosen(n) PROVE v \in Longer(Chosen(n - 1), n)
    <3> DEFINE u == SubSeq(v, 1, n - 1)
    <3>1. v \in Seq(EMdata) /\ Len(v) = n /\ v # << >> /\ v[n] \in Out(n)
      OBVIOUS
    <3>2. u \in Seq(EMdata) /\ Len(u) = n - 1 /\ \A k \in 1 .. n - 1 : u[k] = v[k]
      BY <3>1
    <3>3. Append(u, v[n]) = v
      BY <3>1, <3>2
    <3>4. u \in Chosen(n - 1)
      <4>1. \A k \in 1 .. n - 1 : k \in 1 .. n /\ v[k] \in Out(k)
        OBVIOUS
      <4> HIDE DEF u
      <4> QED BY <3>2, <4>1
    <3> HIDE DEF u, Chosen
    <3> QED BY <3>1, <3>3, <3>4
  <2>2. ASSUME NEW u \in Chosen(n - 1), NEW r \in Out(n) PROVE Append(u, r) \in Chosen(n)
    <3>1. r \in EMdata /\ u \in Seq(EMdata) /\ Len(u) = n - 1
      BY <1>2
    <3>2. /\ Append(u, r) \in Seq(EMdata) /\ Len(Append(u, r)) = n
          /\ Append(u, r)[n] = r /\ \A k \in 1 .. n - 1 : Append(u, r)[k] = u[k]
      BY <3>1, AppendProperties
    <3>3. ASSUME NEW k \in 1 .. n PROVE Append(u, r)[k] \in Out(k)
      <4>1. CASE k = n
        BY <3>2, <4>1
      <4>2. CASE k # n
        <5>1. k \in 1 .. n - 1
          BY <4>2
        <5> QED BY <3>2, <5>1
      <4> QED BY <4>1, <4>2
    <3> QED BY <3>2, <3>3
  <2> HIDE DEF Chosen
  <2>3. ASSUME NEW x \in Longer(Chosen(n - 1), n) PROVE x \in Chosen(n)
    <3>1. PICK u \in Chosen(n - 1), r \in Out(n) : x = Append(u, r)
      BY <2>3
    <3> QED BY <2>2, <3>1
  <2> HIDE DEF Longer
  <2> QED BY <2>1, <2>3
<1>5. IsWritten([n \in 0 .. N |-> Chosen(n)])
  <2> DEFINE g == [n \in 0 .. N |-> Chosen(n)]
  <2> HIDE DEF Chosen, Longer
  <2>1. ASSUME NEW n \in 0 .. N
        PROVE  g[n] = IF n = 0 THEN {<< >>} ELSE Longer(g[n - 1], n)
    <3>1. CASE n = 0
      BY <1>3, <3>1
    <3>2. CASE n # 0
      <4>1. n \in 1 .. N /\ n - 1 \in 0 .. N
        BY <3>2
      <4> QED BY <1>4, <3>2, <4>1
    <3> QED BY <3>1, <3>2
  <2> QED BY <2>1
<1>6. IsWritten(written)
  <2> HIDE DEF IsWritten, Chosen
  <2> QED BY <1>5
<1>7. ASSUME NEW n \in 0 .. N
      PROVE  written[n] = IF n = 0 THEN {<< >>} ELSE Longer(written[n - 1], n)
  <2> HIDE DEF written, Longer
  <2> QED BY <1>6
<1> HIDE DEF written, IsWritten, Chosen, Longer
<1> DEFINE Right == {n \in Nat : n <= N => written[n] = Chosen(n)}
<1>8. 0 \in Right
  <2>1. 0 \in 0 .. N
    OBVIOUS
  <2>2. written[0] = {<< >>}
    BY <1>7, <2>1
  <2> QED BY <1>3, <2>2
<1>9. ASSUME NEW n \in Nat, n \in Right PROVE n + 1 \in Right
  <2> SUFFICES ASSUME n + 1 <= N PROVE written[n + 1] = Chosen(n + 1)
    OBVIOUS
  <2>1. n + 1 \in 1 .. N /\ n + 1 \in 0 .. N /\ (n + 1) - 1 = n /\ n <= N /\ n + 1 # 0
    OBVIOUS
  <2> QED BY <1>4, <1>7, <1>9, <2>1
<1>10. N \in Right
  <2> HIDE DEF Right
  <2>1. Nat \subseteq Right
    BY <1>8, <1>9, SetInduction
  <2> QED BY <2>1
<1>11. w \in Chosen(N)
  BY <1>1, <1>10
<1>12. QED
  BY <1>11 DEF Chosen, Out

-----------------------------------------------------------------------------
(* A population wherever it is: its identifiers are distinct, every run is  *)
(* tagged with a layer, and the layers above 0 have room for their runs.    *)
IsPool(runs) ==
    /\ runs \in Seq(EMdata)
    /\ \A m, n \in DOMAIN runs : runs[m].bnID = runs[n].bnID => m = n
    /\ \A n \in DOMAIN runs : runs[n].ALEM_layer \in Layer
    /\ \A l \in Layer \ {0} : Cardinality(InLayer(runs, l)) <= MinRuns(l)

(* What is left of a population, and what became of each run in its layer,  *)
(* is one.                                                                 *)
LEMMA DescendantsArePool ==
    ASSUME NEW runs, IsPool(runs), NEW w \in Seq(EMdata),
           \A m, n \in DOMAIN w : w[m].bnID = w[n].bnID => m = n,
           \A n \in DOMAIN w : \E m \in DOMAIN runs :
               w[n].bnID = runs[m].bnID /\ w[n].ALEM_layer = runs[m].ALEM_layer
    PROVE  IsPool(w)
<1> DEFINE from == [n \in DOMAIN w |-> CHOOSE m \in DOMAIN runs :
                       w[n].bnID = runs[m].bnID /\ w[n].ALEM_layer = runs[m].ALEM_layer]
<1>1. ASSUME NEW n \in DOMAIN w
      PROVE  /\ from[n] \in DOMAIN runs
             /\ w[n].bnID = runs[from[n]].bnID /\ w[n].ALEM_layer = runs[from[n]].ALEM_layer
  OBVIOUS
<1> HIDE DEF from
<1>2. \A m, n \in DOMAIN w : from[m] = from[n] => m = n
  BY <1>1
<1>3. \A n \in DOMAIN w : w[n].ALEM_layer \in Layer
  BY <1>1 DEF IsPool
<1>4. ASSUME NEW l \in Layer \ {0} PROVE Cardinality(InLayer(w, l)) <= MinRuns(l)
  <2> DEFINE f == [n \in InLayer(w, l) |-> from[n]]
             A == InLayer(w, l)
             B == InLayer(runs, l)
  <2>1. IsFiniteSet(A) /\ IsFiniteSet(B)
    <3>1. A \subseteq DOMAIN w /\ B \subseteq DOMAIN runs
      BY DEF InLayer
    <3>2. runs \in Seq(EMdata)
      BY DEF IsPool
    <3> HIDE DEF A, B
    <3> QED BY <3>1, <3>2, PositionsFacts
  <2>2. f \in Injection(A, B)
    <3>1. \A n \in A : n \in DOMAIN w /\ from[n] \in B
      BY <1>1 DEF InLayer
    <3> HIDE DEF B
    <3>2. f \in [A -> B]
      BY <3>1
    <3>3. \A m, n \in A : f[m] = f[n] => m = n
      BY <1>2, <3>1
    <3> HIDE DEF f, A
    <3> QED BY <3>2, <3>3 DEF Injection, IsInjective
  <2>3. Cardinality(A) <= Cardinality(B)
    <3> HIDE DEF A, B, f
    <3> QED BY <2>1, <2>2, FS_Injection
  <2>4. Cardinality(B) <= MinRuns(l)
    BY DEF IsPool
  <2>5. Cardinality(A) \in Nat /\ Cardinality(B) \in Nat /\ MinRuns(l) \in Nat
    <3>1. MinRuns(l) \in Nat
      BY LayerFacts
    <3> HIDE DEF A, B
    <3> QED BY <2>1, <3>1, FS_CardinalityType
  <2> HIDE DEF A, B
  <2>6. Cardinality(A) <= MinRuns(l)
    BY <2>3, <2>4, <2>5
  <2> QED BY <2>6 DEF A
<1>5. QED
  BY <1>3, <1>4 DEF IsPool

(* A process that ends early leaves the first runs of a population.         *)
LEMMA CutShortFacts ==
    ASSUME NEW runs, IsPool(runs), NEW w \in CutShort(runs)
    PROVE  /\ IsPool(w)
           /\ \A n \in DOMAIN w : n \in DOMAIN runs /\ w[n] = runs[n]
<1>1. runs \in Seq(EMdata) /\ DOMAIN runs = 1 .. Len(runs) /\ Len(runs) \in Nat
  BY DEF IsPool
<1>2. PICK k \in 0 .. Len(runs) - 1 : w = SubSeq(runs, 1, k)
  BY DEF CutShort
<1>3. \A n \in 1 .. k : n \in DOMAIN runs
  BY <1>1
<1>4. w \in Seq(EMdata) /\ Len(w) = k /\ DOMAIN w = 1 .. k /\ \A n \in 1 .. k : w[n] = runs[n]
  BY <1>1, <1>2, <1>3
<1>5. \A m, n \in DOMAIN w : w[m].bnID = w[n].bnID => m = n
  BY <1>3, <1>4 DEF IsPool
<1>6. IsPool(w)
  BY <1>3, <1>4, <1>5, DescendantsArePool
<1>7. QED
  BY <1>3, <1>4, <1>6

(* The job takes each run through one iteration, and makes no others.       *)
LEMMA JobFacts ==
    ASSUME NEW runs, IsPool(runs), NEW w \in ReducedRuns(MappedRuns(runs))
    PROVE  /\ IsPool(w)
           /\ \A n \in DOMAIN w : \E m \in DOMAIN runs : w[n] \in Iterated(runs[m])
           /\ \A m \in DOMAIN runs : \E n \in DOMAIN w : w[n] \in Iterated(runs[m])
<1> DEFINE lns == MappedRuns(runs)
           K == KeysOf(lns)
           N == Cardinality(K)
           key == SortedKeys(lns)
           Lines(k) == {n \in DOMAIN lns : lns[n].key = k}
<1>1. /\ runs \in Seq(EMdata) /\ DOMAIN runs = 1 .. Len(runs) /\ Len(runs) \in Nat
      /\ \A n \in DOMAIN runs : runs[n] \in EMdata
      /\ \A m, n \in DOMAIN runs : runs[m].bnID = runs[n].bnID => m = n
  BY DEF IsPool
<1>2. /\ DOMAIN lns = DOMAIN runs
      /\ \A n \in DOMAIN runs : lns[n] = MapRecord(runs[n], TheShard) /\ lns[n].key = runs[n].bnID
  BY <1>1, MappedFacts DEF MappedRuns
<1>3. lns \in Seq({lns[n] : n \in DOMAIN lns})
  <2>1. lns \in [1 .. Len(runs) -> {lns[n] : n \in DOMAIN lns}]
    BY <1>1, <1>2 DEF MappedRuns
  <2> HIDE DEF lns
  <2> QED BY <1>1, <2>1, SeqDef
<1> HIDE DEF lns
<1>4. K = {runs[n].bnID : n \in DOMAIN runs} /\ K \subseteq Int
  <2>1. \A n \in DOMAIN runs : lns[n].key = runs[n].bnID /\ runs[n].bnID \in Int
    BY <1>1, <1>2 DEF EMdata
  <2>2. K = {lns[n].key : n \in DOMAIN runs}
    BY <1>2 DEF KeysOf
  <2> HIDE DEF K
  <2> QED BY <2>1, <2>2
<1>5. IsFiniteSet(K)
  <2> DEFINE ids == [n \in 1 .. Len(runs) |-> runs[n].bnID]
  <2>1. ids \in Surjection(1 .. Len(runs), K)
    BY <1>1, <1>4 DEF Surjection
  <2>2. IsFiniteSet(1 .. Len(runs))
    BY <1>1, FS_Interval
  <2> HIDE DEF ids, K
  <2> QED BY <2>1, <2>2, FS_Surjection
<1>6. /\ N \in Nat /\ key \in [1 .. N -> K]
      /\ \A k \in K : \E n \in 1 .. N : key[n] = k
      /\ \A i, j \in 1 .. N : i < j => key[i] < key[j]
  <2> HIDE DEF K
  <2> QED BY <1>4, <1>5, AscendingFacts DEF SortedKeys, K
<1>7. ASSUME NEW m \in DOMAIN runs
      PROVE  Outcomes(lns, runs[m].bnID) = Iterated(runs[m])
  <2> DEFINE group == GroupOf(lns, runs[m].bnID)
  <2>1. Lines(runs[m].bnID) = {m}
    BY <1>1, <1>2
  <2>2. {m} \subseteq DOMAIN lns
    BY <1>2
  <2>3. group = AtPositions(lns, {m})
    BY <2>1 DEF GroupOf
  <2>5. Len(group) = 1 /\ group[1] = lns[m]
    <3> HIDE DEF group
    <3> QED BY <1>3, <2>2, <2>3, OnePosition
  <2>6. EmReduce(group) = Iterated(runs[m])
    <3> HIDE DEF group
    <3> QED BY <1>1, <1>2, <2>5, ReduceAlone
  <2> QED BY <2>6 DEF Outcomes
<1>8. ASSUME NEW n \in 1 .. N
      PROVE  \E m \in DOMAIN runs : runs[m].bnID = key[n] /\ Outcomes(lns, key[n]) = Iterated(runs[m])
  BY <1>4, <1>6, <1>7
<1>9. \A n \in 1 .. N : Outcomes(lns, key[n]) \subseteq EMdata
  BY <1>1, <1>8, IteratedFacts
<1>10. /\ w \in Seq(EMdata) /\ Len(w) = N /\ DOMAIN w = 1 .. N
       /\ \A n \in 1 .. N : w[n] \in Outcomes(lns, key[n])
  <2> HIDE DEF N, key, K
  <2>1. w \in Seq(EMdata) /\ Len(w) = N /\ \A n \in 1 .. N : w[n] \in Outcomes(lns, key[n])
    BY <1>6, <1>9, WrittenFacts DEF N, K, key, lns
  <2> QED BY <2>1
<1> HIDE DEF key, K, N
<1>11. ASSUME NEW n \in 1 .. N
       PROVE  \E m \in DOMAIN runs : /\ w[n] \in Iterated(runs[m]) /\ runs[m].bnID = key[n]
                                      /\ w[n].bnID = key[n]
                                      /\ w[n].ALEM_layer = runs[m].ALEM_layer
  <2>1. PICK m \in DOMAIN runs : runs[m].bnID = key[n] /\ Outcomes(lns, key[n]) = Iterated(runs[m])
    BY <1>8
  <2>2. runs[m] \in EMdata /\ w[n] \in Iterated(runs[m])
    BY <1>1, <1>10, <2>1
  <2> QED BY <2>1, <2>2, IteratedFacts
<1>12. ASSUME NEW i \in 1 .. N, NEW j \in 1 .. N, w[i].bnID = w[j].bnID PROVE i = j
  <2>1. key[i] = key[j] /\ key[i] \in Int
    BY <1>4, <1>6, <1>11, <1>12
  <2> QED BY <1>6, <2>1
<1>13. ASSUME NEW m \in DOMAIN runs PROVE \E n \in 1 .. N : w[n] \in Iterated(runs[m])
  <2>1. PICK n \in 1 .. N : key[n] = runs[m].bnID
    BY <1>4, <1>6
  <2> QED BY <1>7, <1>10, <2>1
<1>14. IsPool(w)
  BY <1>10, <1>11, <1>12, DescendantsArePool
<1>15. QED
  BY <1>10, <1>11, <1>13, <1>14

-----------------------------------------------------------------------------
(* utils sorts a population into its layers: none is lost, none is taken    *)
(* twice.                                                                  *)
LEMMA SortedFacts ==
    ASSUME NEW runs, IsPool(runs)
    PROVE  /\ IsPopulation(SortedIntoLayers(runs))
           /\ \A l \in Layer : \A n \in DOMAIN SortedIntoLayers(runs)[l] :
                 \E m \in DOMAIN runs : SortedIntoLayers(runs)[l][n] = runs[m]
           /\ \A m \in DOMAIN runs : \E p \in Places(SortedIntoLayers(runs)) :
                 SortedIntoLayers(runs)[p[1]][p[2]] = runs[m]
<1> DEFINE ls == SortedIntoLayers(runs)
           at(l) == Ascending(InLayer(runs, l))
           size(l) == Cardinality(InLayer(runs, l))
<1>1. /\ runs \in Seq(EMdata)
      /\ \A m, n \in DOMAIN runs : runs[m].bnID = runs[n].bnID => m = n
      /\ \A n \in DOMAIN runs : runs[n].ALEM_layer \in Layer
  BY DEF IsPool
<1>2. /\ DOMAIN ls = Layer
      /\ ls = [l \in Layer |-> AtPositions(runs, InLayer(runs, l))]
  BY DEF SortedIntoLayers
<1> HIDE DEF ls
<1>3. ASSUME NEW l \in Layer
      PROVE  /\ ls[l] \in Seq(EMdata) /\ Len(ls[l]) = size(l) /\ DOMAIN ls[l] = 1 .. size(l)
             /\ size(l) \in Nat
             /\ \A n \in 1 .. size(l) :
                   /\ at(l)[n] \in DOMAIN runs /\ ls[l][n] = runs[at(l)[n]]
                   /\ runs[at(l)[n]].ALEM_layer = l
             /\ \A i, j \in 1 .. size(l) : at(l)[i] = at(l)[j] => i = j
             /\ \A m \in InLayer(runs, l) : \E n \in 1 .. size(l) : at(l)[n] = m
  <2> DEFINE P == InLayer(runs, l)
  <2>1. P \subseteq DOMAIN runs /\ \A m \in P : runs[m].ALEM_layer = l
    BY DEF InLayer
  <2> HIDE DEF P
  <2>2. ls[l] = AtPositions(runs, P)
    BY <1>2 DEF P
  <2>3. /\ AtPositions(runs, P) \in Seq(EMdata)
        /\ Len(AtPositions(runs, P)) = Cardinality(P)
        /\ DOMAIN AtPositions(runs, P) = 1 .. Cardinality(P)
    BY <1>1, <2>1, PositionsFacts
  <2>4. Cardinality(P) \in Nat /\ Ascending(P) \in [1 .. Cardinality(P) -> P]
    BY <1>1, <2>1, PositionsFacts
  <2>5. \A n \in 1 .. Cardinality(P) : AtPositions(runs, P)[n] = runs[Ascending(P)[n]]
    BY <1>1, <2>1, PositionsFacts
  <2>6. \A k \in P : \E n \in 1 .. Cardinality(P) : Ascending(P)[n] = k
    BY <1>1, <2>1, PositionsFacts
  <2>7. \A i, j \in 1 .. Cardinality(P) : i < j => Ascending(P)[i] < Ascending(P)[j]
    BY <1>1, <2>1, PositionsFacts
  <2>8. \A n \in 1 .. Cardinality(P) : Ascending(P)[n] \in P /\ Ascending(P)[n] \in Int
    <3>1. DOMAIN runs \subseteq Int
      BY <1>1
    <3> QED BY <2>1, <2>4, <3>1
  <2>9. \A i, j \in 1 .. Cardinality(P) : Ascending(P)[i] = Ascending(P)[j] => i = j
    BY <2>4, <2>7, <2>8
  <2> QED BY <2>1, <2>2, <2>3, <2>4, <2>5, <2>6, <2>8, <2>9 DEF P
<1> HIDE DEF at, size
<1>4. ls \in [Layer -> Seq(EMdata)]
  BY <1>2, <1>3
<1>5. Tagged(ls)
  BY <1>3 DEF Tagged
<1>6. ASSUME NEW p \in Places(ls)
      PROVE  /\ p[1] \in Layer /\ p[2] \in 1 .. size(p[1]) /\ p = <<p[1], p[2]>>
             /\ at(p[1])[p[2]] \in DOMAIN runs
             /\ ls[p[1]][p[2]] = runs[at(p[1])[p[2]]]
             /\ runs[at(p[1])[p[2]]].ALEM_layer = p[1]
  BY <1>3, <1>4, PlacesFacts
<1>7. DistinctIds(ls)
  <2> SUFFICES ASSUME NEW p \in Places(ls), NEW q \in Places(ls),
                      ls[p[1]][p[2]].bnID = ls[q[1]][q[2]].bnID
               PROVE  p = q
    BY DEF DistinctIds
  <2>1. at(p[1])[p[2]] = at(q[1])[q[2]]
    BY <1>1, <1>6
  <2>2. p[1] = q[1]
    BY <1>6, <2>1
  <2>3. p[2] = q[2]
    BY <1>3, <1>6, <2>1, <2>2
  <2> QED BY <1>6, <2>2, <2>3
<1>8. WithinCaps(ls)
  <2> SUFFICES ASSUME NEW l \in Layer \ {0} PROVE Len(ls[l]) <= MinRuns(l)
    BY DEF WithinCaps
  <2>1. size(l) <= MinRuns(l)
    BY DEF IsPool, size
  <2> QED BY <1>3, <2>1
<1>9. IsPopulation(ls)
  BY <1>4, <1>5, <1>7, <1>8 DEF IsPopulation
<1>10. ASSUME NEW m \in DOMAIN runs
       PROVE  \E p \in Places(ls) : ls[p[1]][p[2]] = runs[m]
  <2>1. m \in InLayer(runs, runs[m].ALEM_layer) /\ runs[m].ALEM_layer \in Layer
    BY <1>1 DEF InLayer
  <2>2. PICK n \in 1 .. size(runs[m].ALEM_layer) : at(runs[m].ALEM_layer)[n] = m
    BY <1>3, <2>1
  <2>3. <<runs[m].ALEM_layer, n>> \in Places(ls)
    BY <1>3, <1>4, <2>1, PlacesFacts
  <2>4. ls[runs[m].ALEM_layer][n] = runs[m]
    BY <1>3, <2>1, <2>2
  <2> QED BY <2>3, <2>4
<1>11. \A l \in Layer : \A n \in DOMAIN ls[l] : \E m \in DOMAIN runs : ls[l][n] = runs[m]
  BY <1>3
<1>12. QED
  BY <1>9, <1>10, <1>11 DEF ls

(* utils writes the population one layer after the other.                   *)
LEMMA ConcatenatedFacts ==
    ASSUME NEW ls, IsPopulation(ls)
    PROVE  /\ IsPool(Concatenated(ls))
           /\ \A n \in DOMAIN Concatenated(ls) : \E p \in Places(ls) :
                 Concatenated(ls)[n] = ls[p[1]][p[2]]
           /\ \A p \in Places(ls) : \E n \in DOMAIN Concatenated(ls) :
                 Concatenated(ls)[n] = ls[p[1]][p[2]]
<1> DEFINE S == Places(ls)
           runs == Concatenated(ls)
           N == Cardinality(S)
<1>1. /\ ls \in [Layer -> Seq(EMdata)] /\ Tagged(ls) /\ DistinctIds(ls) /\ WithinCaps(ls)
  BY DEF IsPopulation
<1>2. \A p \in S : /\ p[1] \in Layer /\ p[2] \in 1 .. Len(ls[p[1]]) /\ p = <<p[1], p[2]>>
                   /\ ls[p[1]][p[2]] \in EMdata
  BY <1>1, PlacesFacts
<1>3. Layer \subseteq Int /\ IsFiniteSet(Layer)
  <2>1. IsFiniteSet(Layer)
    BY FS_Interval, AlemAssumption DEF Layer
  <2> QED BY <2>1, LayerFacts
<1>4. Entries(ls) = S
  BY <1>1 DEF Entries, Places
<1> HIDE DEF S
<1>5. N \in Nat /\ runs \in Seq(EMdata) /\ DOMAIN runs = 1 .. N
  <2>1. /\ Cardinality(Entries(ls)) \in Nat
        /\ runs \in Seq(EMdata) /\ DOMAIN runs = 1 .. Cardinality(Entries(ls))
    BY <1>1, <1>3, ConcatenationFacts
  <2> QED BY <1>4, <2>1
<1>6. PICK place : place \in Bijection(1 .. N, S) /\ \A n \in 1 .. N : runs[n] = ls[place[n][1]][place[n][2]]
  <2>1. \E at : ComesFrom(ls, at)
    BY <1>1, <1>3, ConcatenationFacts
  <2> QED BY <1>4, <2>1 DEF ComesFrom
<1> HIDE DEF runs, N
<1> DEFINE at(n) == place[n]
<1>7. /\ \A n \in 1 .. N : at(n) \in S /\ runs[n] = ls[at(n)[1]][at(n)[2]]
      /\ \A m, n \in 1 .. N : at(m) = at(n) => m = n
  BY <1>6 DEF Bijection, Injection, IsInjective
<1>8. \A q \in S : \E n \in 1 .. N : at(n) = q
  BY <1>6 DEF Bijection, Surjection
<1> HIDE DEF at
<1>9. runs \in Seq(EMdata)
  BY <1>5
<1>10. ASSUME NEW i \in 1 .. N, NEW j \in 1 .. N, runs[i].bnID = runs[j].bnID PROVE i = j
  <2>1. at(i) \in Places(ls) /\ at(j) \in Places(ls)
    BY <1>7 DEF S
  <2>2. ls[at(i)[1]][at(i)[2]].bnID = ls[at(j)[1]][at(j)[2]].bnID
    BY <1>7, <1>10
  <2>3. at(i) = at(j)
    BY <1>1, <2>1, <2>2 DEF DistinctIds
  <2> QED BY <1>7, <2>3
<1>11. ASSUME NEW n \in 1 .. N PROVE runs[n].ALEM_layer = at(n)[1] /\ at(n)[1] \in Layer
  BY <1>1, <1>2, <1>7 DEF Tagged
<1>12. ASSUME NEW l \in Layer \ {0} PROVE Cardinality(InLayer(runs, l)) <= MinRuns(l)
  <2> DEFINE A == InLayer(runs, l)
             f == [n \in A |-> at(n)[2]]
  <2>1. A \subseteq 1 .. N /\ \A n \in A : at(n)[1] = l
    BY <1>5, <1>11 DEF InLayer
  <2> HIDE DEF A
  <2>2. f \in [A -> 1 .. Len(ls[l])]
    BY <1>2, <1>7, <2>1
  <2>3. \A m, n \in A : f[m] = f[n] => m = n
    <3> SUFFICES ASSUME NEW m \in A, NEW n \in A, at(m)[2] = at(n)[2] PROVE m = n
      OBVIOUS
    <3>1. at(m) = at(n)
      BY <1>2, <1>7, <2>1
    <3> QED BY <1>7, <2>1, <3>1
  <2> HIDE DEF f
  <2>4. f \in Injection(A, 1 .. Len(ls[l]))
    BY <2>2, <2>3 DEF Injection, IsInjective
  <2>5. Len(ls[l]) \in Nat /\ Len(ls[l]) <= MinRuns(l) /\ MinRuns(l) \in Nat
    BY <1>1, LayerFacts DEF WithinCaps
  <2>6. IsFiniteSet(1 .. Len(ls[l])) /\ Cardinality(1 .. Len(ls[l])) = Len(ls[l])
    <3>1. \A k \in Nat : IsFiniteSet(1 .. k) /\ Cardinality(1 .. k) = k
      BY FS_Interval
    <3> QED BY <2>5, <3>1
  <2>7. IsFiniteSet(A) /\ Cardinality(A) \in Nat
    BY <1>5, <1>9, <2>1, PositionsFacts
  <2>8. Cardinality(A) <= Len(ls[l])
    BY <2>4, <2>6, FS_Injection
  <2> QED BY <2>5, <2>7, <2>8 DEF A
<1>13. IsPool(runs)
  BY <1>5, <1>9, <1>10, <1>11, <1>12 DEF IsPool
<1>14. \A n \in 1 .. N : \E p \in S : runs[n] = ls[p[1]][p[2]]
  BY <1>7
<1>15. \A p \in S : \E n \in 1 .. N : runs[n] = ls[p[1]][p[2]]
  BY <1>7, <1>8
<1>16. QED
  BY <1>5, <1>13, <1>14, <1>15 DEF S, runs, N

-----------------------------------------------------------------------------
(* The first inductive invariant: whatever the script is at, what it keeps  *)
(* and what the processes hand on are populations.                         *)
DriverTypeOK ==
    /\ flags \in Flags
    /\ stage \in {"job", "utils", "alem", "files"} \cup Ended
    /\ converged \in BOOLEAN
    /\ iteration \in 1 .. MaxIters
    /\ best \in Int /\ best >= Unstarted
    /\ crashes \in 0 .. MaxCrashes
    /\ TypeOK

PoolsHold ==
    /\ IsPool(inDat) /\ IsPool(piped) /\ IsPool(outDat)
    /\ IsPopulation(layers) /\ IsPopulation(input)

DriverInv == DriverTypeOK /\ PoolsHold

(* -1e100 of utils.cpp is below zero; nothing else about it is used.        *)
LEMMA UnstartedIsLow == Unstarted \in Int /\ Unstarted < 0
  BY SMT DEF Unstarted

(* The maximum that utils prints: attained by a run of the population, if   *)
(* any.                                                                     *)
LEMMA BestFacts ==
    ASSUME NEW runs \in Seq(EMdata)
    PROVE  /\ BestOf(runs) \in Int /\ BestOf(runs) >= Unstarted
           /\ \A n \in DOMAIN runs : runs[n].likelihood \in Int /\ BestOf(runs) >= runs[n].likelihood
           /\ BestOf(runs) # Unstarted => \E n \in DOMAIN runs : BestOf(runs) = runs[n].likelihood
<1> DEFINE liks == [n \in 1 .. Len(runs) |-> runs[n].likelihood]
           L == {r.likelihood : r \in Range(runs)}
           U == L \cup {Unstarted}
<1>1. DOMAIN runs = 1 .. Len(runs) /\ Len(runs) \in Nat
  OBVIOUS
<1>2. \A n \in DOMAIN runs : runs[n].likelihood \in Int
  <2>1. \A r \in EMdata : r.likelihood \in Int
    BY DEF EMdata
  <2> QED BY <1>1, <2>1
<1>3. L = {runs[n].likelihood : n \in DOMAIN runs}
  BY DEF Range
<1>4. IsFiniteSet(L)
  <2>1. liks \in Surjection(1 .. Len(runs), L)
    BY <1>1, <1>3 DEF Surjection
  <2>2. IsFiniteSet(1 .. Len(runs))
    BY <1>1, FS_Interval
  <2> HIDE DEF liks, L
  <2> QED BY <2>1, <2>2, FS_Surjection
<1>5. L \subseteq Int
  BY <1>2, <1>3
<1> HIDE DEF L
<1>6. IsFiniteSet(U) /\ U \subseteq Int /\ U # {} /\ Unstarted \in U
  <2>1. IsFiniteSet(U)
    BY <1>4, FS_AddElement
  <2> QED BY <1>5, <2>1, UnstartedIsLow
<1>7. BestOf(runs) = Max(U)
  BY DEF BestOf, L
<1>8. Max(U) \in U /\ \A y \in U : Max(U) >= y
  <2> HIDE DEF U
  <2> QED BY <1>6, MaxOfFinite
<1>9. BestOf(runs) \in Int /\ BestOf(runs) >= Unstarted
  <2> HIDE DEF U
  <2> QED BY <1>6, <1>7, <1>8
<1>10. \A n \in DOMAIN runs : BestOf(runs) >= runs[n].likelihood
  BY <1>3, <1>7, <1>8
<1>11. BestOf(runs) # Unstarted => \E n \in DOMAIN runs : BestOf(runs) = runs[n].likelihood
  BY <1>3, <1>7, <1>8
<1>12. QED
  BY <1>2, <1>9, <1>10, <1>11

(* A layer without runs is within its size.                                 *)
LEMMA RoomForNone ==
    ASSUME NEW l \in Layer, NEW A, A = {}
    PROVE  Cardinality(A) <= MinRuns(l)
<1>1. Cardinality(A) = 0
  BY FS_EmptySet
<1>2. MinRuns(l) \in Nat
  BY LayerFacts
<1>3. QED
  BY <1>1, <1>2

(* The layers outside of alem() are a population of none.                   *)
LEMMA NoRuns == IsPool(<< >>) /\ IsPopulation(NoLayers)
<1>1. IsPool(<< >>)
  <2>1. \A l \in Layer : InLayer(<< >>, l) = {}
    BY DEF InLayer
  <2>4. \A l \in Layer \ {0} : Cardinality(InLayer(<< >>, l)) <= MinRuns(l)
    BY <2>1, RoomForNone
  <2>5. << >> \in Seq(EMdata) /\ DOMAIN << >> = {}
    OBVIOUS
  <2> QED BY <2>4, <2>5 DEF IsPool
<1>2. NoLayers \in [Layer -> Seq(EMdata)] /\ \A l \in Layer : NoLayers[l] = << >>
  BY DEF NoLayers
<1>3. Places(NoLayers) = {}
  BY <1>2, PlacesFacts
<1>4. WithinCaps(NoLayers)
  BY <1>2, LayerFacts DEF WithinCaps
<1>5. QED
  BY <1>1, <1>2, <1>3, <1>4 DEF IsPopulation, Tagged, DistinctIds

(* The runs of utils fg $POP have the identifiers 0 .. $POP - 1.            *)
LEMMA InitialPool ==
    ASSUME NEW fg \in [1 .. Pop -> Params], NEW age \in Garbage, NEW unset \in Garbage,
           NEW runs, runs = [n \in 1 .. Pop |-> NewRun(n - 1, fg[n], age, unset)]
    PROVE  IsPool(runs)
<1>1. \A n \in 1 .. Pop : /\ runs[n] \in EMdata
                          /\ runs[n].bnID = n - 1 /\ runs[n].ALEM_layer = 0
  BY EMDataAssumption DEF NewRun, EMdata
<1>2. DOMAIN runs = 1 .. Pop /\ runs \in Seq(EMdata)
  <2>1. runs \in [1 .. Pop -> EMdata] /\ Pop \in Nat
    BY <1>1, DriverAssumption
  <2> QED BY <2>1, SeqDef
<1>3. \A l \in Layer \ {0} : InLayer(runs, l) = {}
  BY <1>1, <1>2 DEF InLayer
<1>4. \A l \in Layer \ {0} : Cardinality(InLayer(runs, l)) <= MinRuns(l)
  BY <1>3, RoomForNone
<1>5. \A n \in DOMAIN runs : runs[n].ALEM_layer \in Layer
  BY <1>1, <1>2, LayerFacts
<1>6. \A m, n \in DOMAIN runs : runs[m].bnID = runs[n].bnID => m = n
  BY <1>1, <1>2
<1>7. QED
  BY <1>2, <1>4, <1>5, <1>6 DEF IsPool

(* What reaches utils was iterated once, whether or not a process aborted.  *)
LEMMA PipedFacts ==
    ASSUME PoolsHold, Job \/ JobCrash
    PROVE  /\ IsPool(piped')
           /\ \A n \in DOMAIN piped' : \E m \in DOMAIN inDat : piped'[n] \in Iterated(inDat[m])
<1>0. IsPool(inDat)
  BY DEF PoolsHold
<1>1. CASE piped' \in ReducedRuns(MappedRuns(inDat))
  BY <1>0, <1>1, JobFacts
<1>2. CASE \E runs \in CutShort(inDat) : piped' \in ReducedRuns(MappedRuns(runs))
  <2>1. PICK runs \in CutShort(inDat) : piped' \in ReducedRuns(MappedRuns(runs))
    BY <1>2
  <2>2. IsPool(runs) /\ \A n \in DOMAIN runs : n \in DOMAIN inDat /\ runs[n] = inDat[n]
    BY <1>0, CutShortFacts
  <2>3. /\ IsPool(piped')
        /\ \A n \in DOMAIN piped' : \E m \in DOMAIN runs : piped'[n] \in Iterated(runs[m])
    BY <2>1, <2>2, JobFacts
  <2> QED BY <2>2, <2>3
<1>3. CASE \E runs \in ReducedRuns(MappedRuns(inDat)) : piped' \in CutShort(runs)
  <2>1. PICK runs \in ReducedRuns(MappedRuns(inDat)) : piped' \in CutShort(runs)
    BY <1>3
  <2>2. /\ IsPool(runs)
        /\ \A n \in DOMAIN runs : \E m \in DOMAIN inDat : runs[n] \in Iterated(inDat[m])
    BY <1>0, JobFacts
  <2>3. IsPool(piped') /\ \A n \in DOMAIN piped' : n \in DOMAIN runs /\ piped'[n] = runs[n]
    BY <2>1, <2>2, CutShortFacts
  <2> QED BY <2>2, <2>3
<1>4. QED
  BY <1>1, <1>2, <1>3 DEF Job, JobCrash

(* What utils -alem hands to alem() is what the theorems about a pass       *)
(* suppose.                                                                 *)
LEMMA PassBegins ==
    ASSUME NEW ls, IsPopulation(ls), BeginPass(ls)
    PROVE  TypeOK' /\ IsPopulation(layers)' /\ IsPopulation(input)'
<1>1. ls \in [Layer -> Seq(EMdata)]
  BY DEF IsPopulation
<1>2. 0 \in Layer
  BY LayerFacts
<1>3. ls[0] \in Seq(EMdata) /\ Len(ls[0]) \in Nat
  BY <1>1, <1>2
<1>4. TypeOK'
  BY <1>1, <1>2, <1>3 DEF BeginPass, TypeOK
<1>5. QED
  BY <1>4 DEF BeginPass

(* A step of alem() keeps the invariant of AlemLayersProofs.                *)
LEMMA PassStep ==
    ASSUME TypeOK, IsPopulation(layers), IsPopulation(input), AlemNext
    PROVE  TypeOK' /\ IsPopulation(layers)' /\ IsPopulation(input)'
<1>1. TypeOK'
  BY TypeStep
<1>2. Tagged(layers') /\ DistinctIds(layers') /\ WithinCaps(layers')
  <2>1. LayerTags /\ UniqueIds /\ LayerCaps
    BY DEF IsPopulation, LayerTags, UniqueIds, LayerCaps
  <2>2. LayerTags' /\ UniqueIds' /\ LayerCaps'
    BY <2>1, TagsStep, IdsStep, CapsStep
  <2> QED BY <2>2 DEF LayerTags, UniqueIds, LayerCaps
<1>3. input' = input
  BY DEF AlemNext, Promote, Replace, Drop, Keep, NextLayer, Refill, NoFGFound
<1>4. QED
  BY <1>1, <1>2, <1>3 DEF TypeOK, IsPopulation

(* The invariant of the driver holds at the start,                          *)
LEMMA DriverStart == DriverInit => DriverInv
<1> SUFFICES ASSUME DriverInit PROVE DriverInv
  OBVIOUS
<1>1. IsPool(inDat)
  BY InitialPool DEF DriverInit
<1>2. /\ layers = NoLayers /\ input = NoLayers /\ pc = "check"
      /\ layer = 0 /\ index = Len(NoLayers[0])
  BY DEF DriverInit, StartPass
<1>3. TypeOK
  <2>1. 0 \in Layer /\ NoLayers \in [Layer -> Seq(EMdata)] /\ Len(NoLayers[0]) = 0
    BY LayerFacts DEF NoLayers
  <2> QED BY <1>2, <2>1 DEF TypeOK
<1>4. PoolsHold
  BY <1>1, <1>2, NoRuns DEF PoolsHold, DriverInit
<1>5. DriverTypeOK
  <2>1. /\ flags \in Flags /\ stage = "job" /\ converged = FALSE /\ iteration = 1
        /\ best = Unstarted /\ crashes = 0
    BY DEF DriverInit
  <2>2. Unstarted \in Int /\ Unstarted >= Unstarted /\ 1 \in 1 .. MaxIters /\ 0 \in 0 .. MaxCrashes
    BY UnstartedIsLow, DriverAssumption
  <2> QED BY <1>3, <2>1, <2>2 DEF DriverTypeOK, Ended
<1>6. QED
  BY <1>4, <1>5 DEF DriverInv

(* and every step of the script and its processes keeps it.                 *)
LEMMA DriverStep == DriverInv /\ [DriverNext]_driverVars => DriverInv'
<1> SUFFICES ASSUME DriverInv, [DriverNext]_driverVars PROVE DriverInv'
  OBVIOUS
<1>0. DriverTypeOK /\ PoolsHold
  BY DEF DriverInv
<1>1. CASE Job \/ JobCrash
  <2>1. IsPool(piped')
    BY <1>0, <1>1, PipedFacts
  <2>2. /\ stage' = "utils"
        /\ flags' = flags /\ inDat' = inDat /\ iteration' = iteration /\ outDat' = outDat
        /\ converged' = converged /\ best' = best
        /\ layers' = layers /\ input' = input /\ pc' = pc /\ layer' = layer /\ index' = index
    BY <1>1 DEF Job, JobCrash, scriptVars, alemVars
  <2>3. crashes' \in 0 .. MaxCrashes
    BY <1>0, <1>1, DriverAssumption DEF Job, JobCrash, scriptVars, DriverTypeOK
  <2>4. TypeOK'
    BY <1>0, <2>2 DEF DriverTypeOK, TypeOK
  <2> QED BY <1>0, <2>1, <2>2, <2>3, <2>4 DEF DriverInv, DriverTypeOK, PoolsHold
<1>2. CASE Update \/ AlemConverged
  <2>1. /\ stage' = "files" /\ piped' = << >> /\ best' = BestOf(piped) /\ converged' \in BOOLEAN
        /\ flags' = flags /\ inDat' = inDat /\ iteration' = iteration /\ crashes' = crashes
        /\ layers' = layers /\ input' = input /\ pc' = pc /\ layer' = layer /\ index' = index
    BY <1>2 DEF Update, AlemConverged, scriptVars, alemVars
  <2>2. IsPool(piped) /\ piped \in Seq(EMdata)
    BY <1>0 DEF PoolsHold, IsPool
  <2>3. best' \in Int /\ best' >= Unstarted
    BY <2>1, <2>2, BestFacts
  <2>4. IsPool(outDat')
    <3>1. CASE Update
      BY <2>2, <3>1 DEF Update
    <3>2. CASE AlemConverged
      BY <2>2, <3>2, SortedFacts, ConcatenatedFacts DEF AlemConverged
    <3> QED BY <1>2, <3>1, <3>2
  <2>5. TypeOK'
    BY <1>0, <2>1 DEF DriverTypeOK, TypeOK
  <2> QED BY <1>0, <2>1, <2>3, <2>4, <2>5, NoRuns DEF DriverInv, DriverTypeOK, PoolsHold
<1>3. CASE AlemStart
  <2>1. IsPool(piped) /\ piped \in Seq(EMdata)
    BY <1>0 DEF PoolsHold, IsPool
  <2>2. /\ BeginPass(SortedIntoLayers(piped))
        /\ stage' = "alem" /\ piped' = << >> /\ best' = BestOf(piped)
        /\ flags' = flags /\ inDat' = inDat /\ iteration' = iteration /\ crashes' = crashes
        /\ outDat' = outDat /\ converged' = converged
    BY <1>3 DEF AlemStart, scriptVars
  <2>3. best' \in Int /\ best' >= Unstarted
    BY <2>1, <2>2, BestFacts
  <2>4. TypeOK' /\ IsPopulation(layers)' /\ IsPopulation(input)'
    BY <2>1, <2>2, SortedFacts, PassBegins
  <2> QED BY <1>0, <2>2, <2>3, <2>4, NoRuns DEF DriverInv, DriverTypeOK, PoolsHold
<1>4. CASE AlemStep
  <2>1. /\ stage' = stage /\ flags' = flags /\ inDat' = inDat /\ iteration' = iteration
        /\ crashes' = crashes /\ piped' = piped /\ outDat' = outDat
        /\ converged' = converged /\ best' = best
    BY <1>4 DEF AlemStep, scriptVars
  <2>2. TypeOK' /\ IsPopulation(layers)' /\ IsPopulation(input)'
    BY <1>0, <1>4, PassStep DEF AlemStep, DriverTypeOK, PoolsHold
  <2> QED BY <1>0, <2>1, <2>2 DEF DriverInv, DriverTypeOK, PoolsHold
<1>5. CASE AlemEnd \/ AlemAbort
  <2>1. /\ BeginPass(NoLayers)
        /\ stage' \in {"files", "failed"} /\ converged' \in BOOLEAN
        /\ flags' = flags /\ inDat' = inDat /\ iteration' = iteration /\ crashes' = crashes
        /\ piped' = piped /\ best' = best
        /\ outDat' = outDat \/ outDat' = Concatenated(layers)
    BY <1>0, <1>5 DEF AlemEnd, AlemAbort, scriptVars, DriverTypeOK
  <2>2. TypeOK' /\ IsPopulation(layers)' /\ IsPopulation(input)'
    BY <2>1, NoRuns, PassBegins
  <2>3. IsPool(outDat')
    BY <1>0, <2>1, ConcatenatedFacts DEF PoolsHold
  <2> QED BY <1>0, <2>1, <2>2, <2>3 DEF DriverInv, DriverTypeOK, PoolsHold, Ended
<1>6. CASE NextIteration
  <2>1. /\ inDat' = outDat /\ outDat' = << >>
        /\ stage' \in {"job"} \cup Ended
        /\ flags' = flags /\ crashes' = crashes /\ piped' = piped
        /\ converged' = converged /\ best' = best
        /\ layers' = layers /\ input' = input /\ pc' = pc /\ layer' = layer /\ index' = index
    BY <1>6 DEF NextIteration, alemVars, Ended
  <2>2. iteration' \in 1 .. MaxIters
    <3>1. iteration \in 1 .. MaxIters /\ MaxIters \in Nat
      BY <1>0, DriverAssumption DEF DriverTypeOK
    <3>2. iteration' = iteration \/ (iteration < MaxIters /\ iteration' = iteration + 1)
      BY <1>6 DEF NextIteration
    <3> QED BY <3>1, <3>2
  <2>3. TypeOK'
    BY <1>0, <2>1 DEF DriverTypeOK, TypeOK
  <2> QED BY <1>0, <2>1, <2>2, <2>3, NoRuns DEF DriverInv, DriverTypeOK, PoolsHold
<1>7. CASE UNCHANGED driverVars
  <2>1. /\ stage' = stage /\ flags' = flags /\ inDat' = inDat /\ iteration' = iteration
        /\ crashes' = crashes /\ piped' = piped /\ outDat' = outDat
        /\ converged' = converged /\ best' = best
        /\ layers' = layers /\ input' = input /\ pc' = pc /\ layer' = layer /\ index' = index
    BY <1>7 DEF driverVars, scriptVars, alemVars
  <2>2. TypeOK'
    BY <1>0, <2>1 DEF DriverTypeOK, TypeOK
  <2> QED BY <1>0, <2>1, <2>2 DEF DriverInv, DriverTypeOK, PoolsHold
<1>8. QED
  BY <1>1, <1>2, <1>3, <1>4, <1>5, <1>6, <1>7 DEF DriverNext

(* Wherever the runs are - in a file, in a pipe, in the vectors of alem()   *)
(* - they are a population with distinct identifiers, whichever processes   *)
(* abort.                                                                   *)
THEOREM PopulationsHold == DriverSpec => []DriverInv
  BY DriverStart, DriverStep, PTL DEF DriverSpec

(* Also after a crash, and with every flag, no two runs of a population     *)
(* have one identifier: utils -alem takes new ones above the largest left   *)
(* (utils.cpp: alem), and nothing in between makes runs.                   *)
THEOREM IdsStayDistinct == DriverSpec => []DistinctRuns
<1>1. DriverInv => DistinctRuns
  BY DEF DriverInv, PoolsHold, IsPool, DistinctRuns
<1>2. QED
  BY <1>1, PopulationsHold, PTL

-----------------------------------------------------------------------------
(* Every run there is, and what a step may do to one: the job iterates it,  *)
(* the pass moves it to another layer, alem() makes it.                    *)
Present == Range(inDat) \cup Range(piped) \cup Range(outDat) \cup AllRuns(layers)

New(r) == r.iter = 0 /\ r.likelihood = 0

(* All runs there are have the fields of EMdata.                            *)
LEMMA PresentType == DriverInv => Present \subseteq EMdata
<1> SUFFICES ASSUME DriverInv PROVE Present \subseteq EMdata
  OBVIOUS
<1>1. \A runs : IsPool(runs) => Range(runs) \subseteq EMdata
  BY DEF IsPool, Range
<1>2. layers \in [Layer -> Seq(EMdata)]
  BY DEF DriverInv, DriverTypeOK, TypeOK
<1>3. AllRuns(layers) \subseteq EMdata
  BY <1>2, PlacesFacts DEF AllRuns
<1>4. QED
  BY <1>1, <1>3 DEF DriverInv, PoolsHold, Present

(* The runs that the reducer writes are iterations of those in in/dat,      *)
LEMMA InAndOut ==
    ASSUME NEW runs, IsPool(runs)
    PROVE  /\ AllRuns(SortedIntoLayers(runs)) = Range(runs)
           /\ IsPopulation(SortedIntoLayers(runs))
<1> DEFINE ls == SortedIntoLayers(runs)
<1>1. IsPopulation(ls)
  BY SortedFacts
<1>2. ls \in [Layer -> Seq(EMdata)]
  BY <1>1 DEF IsPopulation
<1>3. /\ \A l \in Layer : \A n \in DOMAIN ls[l] : \E m \in DOMAIN runs : ls[l][n] = runs[m]
      /\ \A m \in DOMAIN runs : \E p \in Places(ls) : ls[p[1]][p[2]] = runs[m]
  BY SortedFacts
<1> HIDE DEF ls
<1>4. \A p \in Places(ls) : p[1] \in Layer /\ p[2] \in DOMAIN ls[p[1]]
  BY <1>2, PlacesFacts
<1>5. AllRuns(ls) = Range(runs)
  BY <1>3, <1>4 DEF AllRuns, Range
<1>6. QED
  BY <1>1, <1>5 DEF ls

(* and the runs that utils writes are those of its layers.                  *)
LEMMA Written ==
    ASSUME NEW ls, IsPopulation(ls)
    PROVE  Range(Concatenated(ls)) = AllRuns(ls)
BY ConcatenatedFacts DEF AllRuns, Range

(* A step of alem() keeps runs, moves them to other layers, or makes new    *)
(* ones.                                                                    *)
LEMMA PassPresent ==
    ASSUME TypeOK, AlemNext, NEW r \in AllRuns(layers')
    PROVE  \/ r \in AllRuns(layers)
           \/ \E s \in AllRuns(layers), l \in Layer : r = [s EXCEPT !.ALEM_layer = l]
           \/ New(r)
<1>1. layers \in [Layer -> Seq(EMdata)] /\ layers' \in [Layer -> Seq(EMdata)]
  <2>1. TypeOK'
    BY TypeStep
  <2> QED BY <2>1 DEF TypeOK
<1>2. PICK q \in Places(layers') : r = layers'[q[1]][q[2]]
  BY DEF AllRuns
<1> DEFINE l == q[1]
           n == q[2]
<1>3. l \in Layer /\ n \in 1 .. Len(layers'[l]) /\ r = layers'[l][n]
  BY <1>1, <1>2, PlacesFacts
<1> HIDE DEF l, n
<1>4. \A k \in Layer : \A m \in 1 .. Len(layers[k]) : layers[k][m] \in AllRuns(layers)
  <2> SUFFICES ASSUME NEW k \in Layer, NEW m \in 1 .. Len(layers[k])
               PROVE  layers[k][m] \in AllRuns(layers)
    OBVIOUS
  <2>1. <<k, m>> \in Places(layers)
    BY <1>1, PlacesFacts
  <2> QED BY <2>1 DEF AllRuns
<1>5. CASE Stayed(l, n)
  BY <1>3, <1>4, <1>5 DEF Stayed
<1>6. CASE CameUp(l, n)
  <2>1. PICK m \in 1 .. Len(layers[l - 1]) :
           layers'[l][n] = [layers[l - 1][m] EXCEPT !.ALEM_layer = l]
    BY <1>6 DEF CameUp
  <2>2. layers[l - 1][m] \in AllRuns(layers)
    BY <1>4, <1>6 DEF CameUp
  <2> QED BY <1>3, <2>1, <2>2
<1>7. CASE WasMade(l, n)
  BY <1>3, <1>7 DEF WasMade, New
<1>8. QED
  BY <1>3, <1>5, <1>6, <1>7, PassSources

(* So every run after a step comes from one before it, or is new.           *)
LEMMA PresentStep ==
    ASSUME DriverInv, [DriverNext]_driverVars, NEW r \in Present'
    PROVE  \/ r \in Present
           \/ \E s \in Range(inDat) : r \in Iterated(s)
           \/ \E s \in Present, l \in Layer : r = [s EXCEPT !.ALEM_layer = l]
           \/ New(r)
<1>0. DriverTypeOK /\ PoolsHold /\ TypeOK /\ IsPool(piped) /\ IsPopulation(layers)
  BY DEF DriverInv, PoolsHold, DriverTypeOK
<1>1. r \in Range(inDat') \cup Range(piped') \cup Range(outDat') \cup AllRuns(layers')
  BY DEF Present
<1>2. Range(<< >>) = {} /\ AllRuns(NoLayers) = {}
  <2>1. NoLayers \in [Layer -> Seq(EMdata)] /\ \A l \in Layer : NoLayers[l] = << >>
    BY DEF NoLayers
  <2>2. Places(NoLayers) = {}
    BY <2>1, PlacesFacts
  <2> QED BY <2>2 DEF AllRuns, Range
<1>3. CASE Job \/ JobCrash
  <2>1. inDat' = inDat /\ outDat' = outDat /\ layers' = layers
    BY <1>3 DEF Job, JobCrash, scriptVars, alemVars
  <2>2. \A x \in Range(piped') : \E s \in Range(inDat) : x \in Iterated(s)
    <3>1. \A n \in DOMAIN piped' : \E m \in DOMAIN inDat : piped'[n] \in Iterated(inDat[m])
      BY <1>0, <1>3, PipedFacts
    <3> QED BY <3>1 DEF Range
  <2> QED BY <1>1, <2>1, <2>2 DEF Present
<1>4. CASE Update
  <2>1. inDat' = inDat /\ outDat' = piped /\ piped' = << >> /\ layers' = layers
    BY <1>4 DEF Update, scriptVars, alemVars
  <2> QED BY <1>1, <1>2, <2>1 DEF Present
<1>5. CASE AlemConverged
  <2>1. /\ inDat' = inDat /\ outDat' = Concatenated(SortedIntoLayers(piped))
        /\ piped' = << >> /\ layers' = layers
    BY <1>5 DEF AlemConverged, scriptVars, alemVars
  <2>2. Range(outDat') = Range(piped)
    BY <1>0, <2>1, InAndOut, Written
  <2> QED BY <1>1, <1>2, <2>1, <2>2 DEF Present
<1>6. CASE AlemStart
  <2>1. inDat' = inDat /\ outDat' = outDat /\ piped' = << >> /\ layers' = SortedIntoLayers(piped)
    BY <1>6 DEF AlemStart, BeginPass, scriptVars
  <2>2. AllRuns(layers') = Range(piped)
    BY <1>0, <2>1, InAndOut
  <2> QED BY <1>1, <1>2, <2>1, <2>2 DEF Present
<1>7. CASE AlemStep
  <2>1. inDat' = inDat /\ outDat' = outDat /\ piped' = piped
    BY <1>7 DEF AlemStep, scriptVars
  <2>2. \A x \in AllRuns(layers') :
           \/ x \in AllRuns(layers)
           \/ \E s \in AllRuns(layers), l \in Layer : x = [s EXCEPT !.ALEM_layer = l]
           \/ New(x)
    BY <1>0, <1>7, PassPresent DEF AlemStep
  <2> QED BY <1>1, <2>1, <2>2 DEF Present
<1>8. CASE AlemEnd \/ AlemAbort
  <2>1. /\ inDat' = inDat /\ piped' = piped /\ layers' = NoLayers
        /\ outDat' = outDat \/ outDat' = Concatenated(layers)
    BY <1>8 DEF AlemEnd, AlemAbort, BeginPass, scriptVars
  <2>2. outDat' = outDat \/ Range(outDat') = AllRuns(layers)
    BY <1>0, <2>1, Written
  <2> QED BY <1>1, <1>2, <2>1, <2>2 DEF Present
<1>9. CASE NextIteration
  <2>1. inDat' = outDat /\ outDat' = << >> /\ piped' = piped /\ layers' = layers
    BY <1>9 DEF NextIteration, alemVars
  <2> QED BY <1>1, <1>2, <2>1 DEF Present
<1>10. CASE UNCHANGED driverVars
  <2>1. inDat' = inDat /\ outDat' = outDat /\ piped' = piped /\ layers' = layers
    BY <1>10 DEF driverVars, scriptVars, alemVars
  <2> QED BY <1>1, <2>1 DEF Present
<1>11. QED
  BY <1>3, <1>4, <1>5, <1>6, <1>7, <1>8, <1>9, <1>10 DEF DriverNext

-----------------------------------------------------------------------------
(* Likelihoods are logarithms, zero before the first iteration only or of    *)
(* certain evidence; and the age of a run that iterates is the number of its *)
(* iterations.                                                             *)
Timely(r) ==
    /\ r.likelihood <= 0
    /\ r.iter > 0 /\ ~Rests(r) => r.alemItersActive = r.iter

TimelyRuns == \A r \in Present : Timely(r)

(* When the reducer finds a run converged: a relative change of likelihood  *)
(* within the tolerance.                                                    *)
LEMMA RestsMeans ==
    ASSUME NEW r \in EMdata
    PROVE  Rests(r) <=>
              \/ r.iter >= EMMaxIter
              \/ /\ r.iter >= 3 /\ r.likelihood # 0
                 /\ \/ ShardLik[r.fg][TheShard] - r.likelihood < 0
                    \/ (ShardLik[r.fg][TheShard] - r.likelihood) * TolDen
                          <= TolNum * Magnitude(r.likelihood)
<1> DEFINE x == MapRecord(r, TheShard).run
<1>1. /\ x.iter = r.iter /\ x.lastLikelihood = r.likelihood
      /\ x.likelihood = ShardLik[r.fg][TheShard]
  <2>1. x = [r EXCEPT !.lastLikelihood = r.likelihood, !.likelihood = ShardLik[r.fg][TheShard]]
    BY MappedFacts
  <2> HIDE DEF x
  <2> QED BY <2>1 DEF EMdata
<1>2. Rests(r) <=> IsConverged(x)
  BY DEF Rests
<1> HIDE DEF x
<1>3. QED
  BY <1>1, <1>2 DEF IsConverged

(* A run that rests is never iterated again.                               *)
LEMMA RestGoesOn ==
    ASSUME LikelihoodsAreLogs, NEW r \in EMdata, r.likelihood <= 0, Rests(r),
           NEW x \in Iterated(r)
    PROVE  Rests(x)
<1> DEFINE L == ShardLik[r.fg][TheShard]
<1>1. /\ x \in EMdata /\ x.fg = r.fg /\ x.iter = r.iter /\ x.likelihood = L
  BY IteratedFacts
<1>2. L \in Int /\ L <= 0 /\ r.likelihood \in Int
  BY MappedFacts, ShardFacts DEF LikelihoodsAreLogs, EMdata
<1>3. TolNum \in Nat /\ TolDen \in Nat /\ TolNum < TolDen
  BY EMDataAssumption DEF LikelihoodsAreLogs
<1> HIDE DEF L
<1>4. CASE r.iter >= EMMaxIter
  BY <1>1, <1>4, RestsMeans
<1>5. CASE ~(r.iter >= EMMaxIter)
  <2>1. /\ r.iter >= 3 /\ r.likelihood # 0
        /\ L - r.likelihood < 0 \/ (L - r.likelihood) * TolDen <= TolNum * Magnitude(r.likelihood)
    BY <1>5, RestsMeans DEF L
  <2>2. L # 0
    <3> SUFFICES ASSUME L = 0 PROVE FALSE
      OBVIOUS
    <3> DEFINE d == 0 - r.likelihood
    <3>1. d \in Nat /\ d > 0 /\ Magnitude(r.likelihood) = d /\ L - r.likelihood = d
      BY <1>2, <2>1 DEF Magnitude
    <3>2. d * TolDen <= TolNum * d
      BY <2>1, <3>1
    <3> HIDE DEF d
    <3>3. \A a, b, c \in Nat : a > 0 /\ b < c => ~(a * c <= b * a)
      BY SMTT(30)
    <3> QED BY <1>3, <3>1, <3>2, <3>3
  <2>3. L - x.likelihood = 0 /\ 0 * TolDen = 0 /\ 0 <= TolNum * Magnitude(x.likelihood)
    BY <1>1, <1>2, <1>3 DEF Magnitude
  <2>4. (ShardLik[x.fg][TheShard] - x.likelihood) * TolDen <= TolNum * Magnitude(x.likelihood)
    BY <1>1, <2>3 DEF L
  <2> QED BY <1>1, <2>1, <2>2, <2>4, RestsMeans
<1>6. QED
  BY <1>4, <1>5

(* An iteration adds one to the age of a run that does not rest and leaves  *)
(* the likelihood of the mapper.                                            *)
LEMMA IterationAges ==
    ASSUME LikelihoodsAreLogs, NEW r \in EMdata, Timely(r), NEW x \in Iterated(r)
    PROVE  /\ Timely(x) /\ x.iter > 0
           /\ x.alemItersActive = 1 + (IF r.iter = 0 THEN 0 ELSE r.alemItersActive)
<1>1. /\ r.iter \in Nat /\ r.alemItersActive \in Nat /\ r.likelihood <= 0
      /\ r.iter > 0 /\ ~Rests(r) => r.alemItersActive = r.iter
  BY DEF Timely, EMdata
<1>2. x.likelihood <= 0
  BY IteratedFacts, ShardFacts DEF LikelihoodsAreLogs, EMdata
<1>3. CASE Rests(r)
  <2>1. Rests(x) /\ x.iter = r.iter /\ x.alemItersActive = r.alemItersActive + 1
    BY <1>1, <1>3, RestGoesOn, IteratedFacts
  <2>2. r.iter > 0
    BY <1>1, <1>3, RestsMeans, EMDataAssumption
  <2> QED BY <1>1, <1>2, <2>1, <2>2 DEF Timely
<1>4. CASE ~Rests(r)
  <2>1. x.iter = r.iter + 1 /\ x.alemItersActive = r.iter + 1
    BY <1>4, IteratedFacts
  <2> QED BY <1>1, <1>2, <1>4, <2>1 DEF Timely
<1>5. QED
  BY <1>3, <1>4

(* To move a run to another layer does not wake it.                         *)
LEMMA MovedRests ==
    ASSUME NEW r \in EMdata, NEW l \in Layer, NEW x, x = [r EXCEPT !.ALEM_layer = l]
    PROVE  /\ x \in EMdata
           /\ x.fg = r.fg /\ x.iter = r.iter /\ x.likelihood = r.likelihood
           /\ x.alemItersActive = r.alemItersActive /\ x.ALEM_layer = l
           /\ Rests(x) <=> Rests(r)
<1>1. l \in Nat
  BY LayerFacts
<1>2. /\ x \in EMdata
      /\ x.fg = r.fg /\ x.iter = r.iter /\ x.likelihood = r.likelihood
      /\ x.alemItersActive = r.alemItersActive /\ x.ALEM_layer = l
  BY <1>1 DEF EMdata
<1>3. Rests(x) <=> Rests(r)
  BY <1>2, RestsMeans
<1>4. QED
  BY <1>2, <1>3

(* A run that has been iterated is as old as its iterations, or rests;      *)
(* every step keeps that,                                                   *)
LEMMA TimelyStep ==
    LikelihoodsAreLogs /\ DriverInv /\ TimelyRuns /\ [DriverNext]_driverVars => TimelyRuns'
<1> SUFFICES ASSUME LikelihoodsAreLogs, DriverInv, TimelyRuns, [DriverNext]_driverVars,
                    NEW r \in Present'
             PROVE  Timely(r)
  BY DEF TimelyRuns, Timely, Rests, IsConverged, MapRecord, TheShard
<1>1. Present \subseteq EMdata /\ \A s \in Present : Timely(s)
  BY PresentType DEF TimelyRuns
<1>2. CASE r \in Present
  BY <1>1, <1>2
<1>3. CASE \E s \in Range(inDat) : r \in Iterated(s)
  <2>1. PICK s \in Range(inDat) : r \in Iterated(s)
    BY <1>3
  <2>2. s \in Present
    BY <2>1 DEF Present
  <2> QED BY <1>1, <2>1, <2>2, IterationAges
<1>4. CASE \E s \in Present, l \in Layer : r = [s EXCEPT !.ALEM_layer = l]
  <2>1. PICK s \in Present, l \in Layer : r = [s EXCEPT !.ALEM_layer = l]
    BY <1>4
  <2>2. /\ r.iter = s.iter /\ r.likelihood = s.likelihood
        /\ r.alemItersActive = s.alemItersActive /\ (Rests(r) <=> Rests(s))
    BY <1>1, <2>1, MovedRests
  <2> QED BY <1>1, <2>1, <2>2 DEF Timely
<1>5. CASE New(r)
  BY <1>5 DEF New, Timely
<1>6. QED
  BY <1>2, <1>3, <1>4, <1>5, PresentStep

(* and the initial runs have not been iterated.                             *)
LEMMA TimelyStart == DriverInit => TimelyRuns
<1> SUFFICES ASSUME DriverInit, NEW r \in Present PROVE Timely(r)
  BY DEF TimelyRuns
<1>1. piped = << >> /\ outDat = << >> /\ layers = NoLayers
  BY DEF DriverInit, StartPass
<1>2. AllRuns(NoLayers) = {}
  <2>1. NoLayers \in [Layer -> Seq(EMdata)] /\ \A l \in Layer : NoLayers[l] = << >>
    BY DEF NoLayers
  <2>2. Places(NoLayers) = {}
    BY <2>1, PlacesFacts
  <2> QED BY <2>2 DEF AllRuns
<1>3. r \in Range(inDat)
  BY <1>1, <1>2 DEF Present, Range
<1>4. \A n \in DOMAIN inDat : New(inDat[n])
  <2>1. PICK fg \in [1 .. Pop -> Params], age \in Garbage, unset \in Garbage :
           inDat = [n \in 1 .. Pop |-> NewRun(n - 1, fg[n], age, unset)]
    BY DEF DriverInit
  <2> QED BY <2>1 DEF New, NewRun
<1>5. New(r)
  BY <1>3, <1>4 DEF Range
<1>6. QED
  BY <1>5 DEF New, Timely

(* alemItersActive, which dai_reduce.cpp:83 overwrites with iter while a    *)
(* run is active, never loses an iteration by that.                         *)
THEOREM RunsAreTimely ==
    ASSUME LikelihoodsAreLogs
    PROVE  DriverSpec => [](DriverInv /\ TimelyRuns)
<1>1. DriverInit => DriverInv /\ TimelyRuns
  BY DriverStart, TimelyStart
<1>2. DriverInv /\ TimelyRuns /\ [DriverNext]_driverVars => (DriverInv /\ TimelyRuns)'
  BY DriverStep, TimelyStep
<1>3. QED
  BY <1>1, <1>2, PTL DEF DriverSpec

(* A step of the job, seen by one run: it has one descendant at most.       *)
LEMMA JobStep ==
    ASSUME DriverInv, [DriverNext]_driverVars, ~UNCHANGED driverVars, stage = "job",
           NEW m \in DOMAIN inDat, NEW n \in DOMAIN piped', piped'[n].bnID = inDat[m].bnID
    PROVE  inDat[m] \in EMdata /\ inDat[m] \in Present /\ piped'[n] \in Iterated(inDat[m])
<1>1. PoolsHold /\ IsPool(inDat)
  BY DEF DriverInv, PoolsHold
<1>2. Job \/ JobCrash
  BY DEF DriverNext, Update, AlemConverged, AlemStart, AlemStep, AlemEnd, AlemAbort, NextIteration
<1>3. PICK k \in DOMAIN inDat : piped'[n] \in Iterated(inDat[k])
  BY <1>1, <1>2, PipedFacts
<1>4. inDat[m] \in EMdata /\ inDat[k] \in EMdata
  BY <1>1 DEF IsPool
<1>5. k = m
  BY <1>1, <1>3, <1>4, IteratedFacts DEF IsPool
<1>6. inDat[m] \in Present
  BY DEF Present, Range
<1>7. QED
  BY <1>3, <1>4, <1>5, <1>6

(* A run that the reducer's termination test (dai_reduce.cpp: em_reduce)    *)
(* found converged is found so in every later iteration, and its parameters *)
(* are left alone: for every evidence and every tolerance below one.       *)
THEOREM RestStaysFinal ==
    ASSUME LikelihoodsAreLogs
    PROVE  DriverSpec => RestIsFinal
<1>1. DriverInv /\ TimelyRuns /\ [DriverNext]_driverVars =>
        [\A m \in DOMAIN inDat, n \in DOMAIN piped' :
          stage = "job" /\ piped'[n].bnID = inDat[m].bnID /\ Rests(inDat[m])
              => piped'[n].fg = inDat[m].fg /\ Rests(piped'[n])]_driverVars
  <2> SUFFICES ASSUME DriverInv, TimelyRuns, [DriverNext]_driverVars, ~UNCHANGED driverVars,
                      NEW m \in DOMAIN inDat, NEW n \in DOMAIN piped',
                      stage = "job", piped'[n].bnID = inDat[m].bnID, Rests(inDat[m])
               PROVE  piped'[n].fg = inDat[m].fg /\ Rests(piped'[n])
    OBVIOUS
  <2>1. /\ inDat[m] \in EMdata /\ piped'[n] \in Iterated(inDat[m])
        /\ inDat[m].likelihood <= 0
    BY JobStep DEF TimelyRuns, Timely
  <2>2. piped'[n].fg = inDat[m].fg
    BY <2>1, IteratedFacts
  <2>3. Rests(piped'[n])
    BY <2>1, RestGoesOn
  <2> QED BY <2>2, <2>3
<1>2. QED
  BY <1>1, RunsAreTimely, PTL DEF DriverSpec, RestIsFinal

(* Whatever the reducer writes into alemItersActive, it is the number of    *)
(* iterations since the run was made, also of a run that rests.            *)
THEOREM AgesAreCounted ==
    ASSUME LikelihoodsAreLogs
    PROVE  DriverSpec => AgeIsCounted
<1>1. DriverInv /\ TimelyRuns /\ [DriverNext]_driverVars =>
        [\A m \in DOMAIN inDat, n \in DOMAIN piped' :
          stage = "job" /\ piped'[n].bnID = inDat[m].bnID
              => piped'[n].alemItersActive =
                    1 + (IF inDat[m].iter = 0 THEN 0 ELSE inDat[m].alemItersActive)]_driverVars
  <2> SUFFICES ASSUME DriverInv, TimelyRuns, [DriverNext]_driverVars, ~UNCHANGED driverVars,
                      NEW m \in DOMAIN inDat, NEW n \in DOMAIN piped',
                      stage = "job", piped'[n].bnID = inDat[m].bnID
               PROVE  piped'[n].alemItersActive =
                         1 + (IF inDat[m].iter = 0 THEN 0 ELSE inDat[m].alemItersActive)
    OBVIOUS
  <2>1. inDat[m] \in EMdata /\ piped'[n] \in Iterated(inDat[m]) /\ Timely(inDat[m])
    BY JobStep DEF TimelyRuns
  <2> QED BY <2>1, IterationAges
<1>2. QED
  BY <1>1, RunsAreTimely, PTL DEF DriverSpec, AgeIsCounted

-----------------------------------------------------------------------------
(* Ages and layers.  Between two passes a run is below the age limit of its  *)
(* layer, if it was iterated at all, and past that of the layer below; the  *)
(* job takes it to its limit at most.                                      *)
PastLimitBelow(r) ==
    r.ALEM_layer > 0 => r.iter > 0 /\ r.alemItersActive >= AgeLimit(r.ALEM_layer - 1)

Young(r) ==
    /\ PastLimitBelow(r)
    /\ r.iter > 0 /\ r.ALEM_layer < Top => r.alemItersActive < AgeLimit(r.ALEM_layer)

Due(r) ==
    /\ r.iter > 0
    /\ r.ALEM_layer > 0 => r.alemItersActive > AgeLimit(r.ALEM_layer - 1)
    /\ r.ALEM_layer < Top => r.alemItersActive <= AgeLimit(r.ALEM_layer)

PassAges ==
    /\ AgesFit(input)
    /\ \A r \in AllRuns(layers) : PastLimitBelow(r)
    /\ pc \in {"check", "refill"} => \A r \in AllRuns(layers) : r.iter > 0
    /\ WalkedIsYoung

LayersFit ==
    /\ flags = "-alem" /\ stage = "job" => \A r \in Range(inDat) : Young(r)
    /\ flags = "-alem" /\ stage = "utils" => \A r \in Range(piped) : Due(r)
    /\ stage = "alem" => PassAges
    /\ flags = "-alem" /\ stage = "files" /\ ~converged => \A r \in Range(outDat) : Young(r)

(* The age limits grow from layer to layer.                                 *)
LEMMA LimitFacts ==
    /\ \A l \in Layer : AgeLimit(l) \in Int
    /\ AgeLimit(0) >= 1
    /\ \A l \in Layer : l > 0 => l - 1 \in Layer
    /\ Layer \subseteq Nat
<1>1. \A l \in Nat : 2^l \in Int
  OBVIOUS
<1>2. AgeGap \in Nat /\ AgeGap >= 1 /\ EMMaxIter \in Int
  BY AlemAssumption, EMDataAssumption
<1>3. ASSUME NEW l \in Layer PROVE AgeLimit(l) \in Int
  <2>1. 2^l \in Int
    BY <1>1, LayerFacts
  <2>2. \A a \in Int, b \in Int : a * b \in Int
    OBVIOUS
  <2> QED BY <1>2, <2>1, <2>2 DEF AgeLimit
<1>4. AgeLimit(0) >= 1
  <2>1. AgeLimit(0) = AgeGap * 2^0 /\ 2^0 = 1
    BY LayerFacts DEF AgeLimit
  <2> QED BY <1>2, <2>1
<1>5. \A l \in Layer : l > 0 => l - 1 \in Layer
  BY AlemAssumption DEF Layer
<1>6. QED
  BY <1>3, <1>4, <1>5, LayerFacts

(* One iteration takes a run that is below the limit of its layer at most   *)
(* to that limit.                                                           *)
LEMMA JobTakesToLimit ==
    ASSUME LikelihoodsAreLogs, NEW r \in EMdata, Timely(r), r.ALEM_layer \in Layer, Young(r),
           NEW x \in Iterated(r)
    PROVE  Due(x)
<1> DEFINE l == r.ALEM_layer
<1>1. /\ x.iter > 0 /\ x.ALEM_layer = l
      /\ x.alemItersActive = 1 + (IF r.iter = 0 THEN 0 ELSE r.alemItersActive)
  BY IterationAges, IteratedFacts
<1>2. r.iter \in Nat /\ r.alemItersActive \in Nat /\ l \in Nat
  BY DEF EMdata
<1>3. l > 0 => r.iter > 0 /\ r.alemItersActive >= AgeLimit(l - 1)
  BY DEF Young, PastLimitBelow
<1>4. r.iter > 0 /\ l < Top => r.alemItersActive < AgeLimit(l)
  BY DEF Young
<1>5. l \in Layer /\ AgeLimit(l) \in Int /\ (l > 0 => AgeLimit(l - 1) \in Int) /\ AgeLimit(0) >= 1
  BY LimitFacts
<1> HIDE DEF l
<1>6. l > 0 => x.alemItersActive > AgeLimit(l - 1)
  BY <1>1, <1>2, <1>3, <1>5
<1>7. ASSUME l < Top PROVE x.alemItersActive <= AgeLimit(l)
  <2>1. CASE r.iter > 0
    BY <1>1, <1>2, <1>4, <1>5, <1>7, <2>1
  <2>2. CASE r.iter = 0
    <3>1. l = 0 /\ x.alemItersActive = 1
      BY <1>1, <1>2, <1>3, <2>2
    <3> QED BY <1>5, <3>1
  <2> QED BY <1>2, <2>1, <2>2
<1>8. QED
  BY <1>1, <1>6, <1>7 DEF Due

(* The runs that utils sorts into layers have the ages of their layers.     *)
LEMMA FitsAtStart ==
    ASSUME NEW runs, IsPool(runs), \A r \in Range(runs) : Due(r),
           BeginPass(SortedIntoLayers(runs))
    PROVE  PassAges'
<1> DEFINE ls == SortedIntoLayers(runs)
<1>1. /\ layers' = ls /\ input' = ls /\ pc' = "check" /\ layer' = 0 /\ index' = Len(ls[0])
  BY DEF BeginPass
<1>2. /\ IsPopulation(ls) /\ AllRuns(ls) = Range(runs)
  BY InAndOut
<1> HIDE DEF ls
<1>3. ls \in [Layer -> Seq(EMdata)] /\ Tagged(ls)
  BY <1>2 DEF IsPopulation
<1>4. \A l \in Layer : \A n \in DOMAIN ls[l] : ls[l][n] \in Range(runs) /\ ls[l][n].ALEM_layer = l
  <2> SUFFICES ASSUME NEW l \in Layer, NEW n \in DOMAIN ls[l]
               PROVE  ls[l][n] \in Range(runs) /\ ls[l][n].ALEM_layer = l
    OBVIOUS
  <2>1. n \in 1 .. Len(ls[l])
    BY <1>3
  <2>2. <<l, n>> \in Places(ls)
    BY <1>3, <2>1, PlacesFacts
  <2> QED BY <1>2, <1>3, <2>2 DEF AllRuns, Tagged
<1>5. AgesFit(ls)
  BY <1>4 DEF AgesFit, Due
<1>6. ASSUME NEW r \in AllRuns(ls) PROVE r.iter > 0 /\ PastLimitBelow(r)
  <2>1. Due(r)
    BY <1>2
  <2>2. r \in EMdata /\ r.ALEM_layer \in Layer
    <3>1. PICK p \in Places(ls) : r = ls[p[1]][p[2]]
      BY DEF AllRuns
    <3>2. p[1] \in Layer /\ p[2] \in DOMAIN ls[p[1]] /\ r \in EMdata
      BY <1>3, <3>1, PlacesFacts
    <3> QED BY <1>4, <3>1, <3>2
  <2>3. r.alemItersActive \in Int /\ (r.ALEM_layer > 0 => AgeLimit(r.ALEM_layer - 1) \in Int)
    BY <2>2, LimitFacts DEF EMdata
  <2> QED BY <2>1, <2>3 DEF Due, PastLimitBelow
<1>7. WalkedIsYoung'
  <2> SUFFICES ASSUME NEW l \in Layer, NEW n \in 1 .. Len(ls[l]), Walked(l, n)'
               PROVE  FALSE
    BY <1>1 DEF WalkedIsYoung
  <2>1. l < 0 \/ (l = 0 /\ n > Len(ls[0]))
    BY <1>1 DEF Walked
  <2>2. l \in Nat /\ 0 \in Layer
    BY LimitFacts, LayerFacts
  <2>3. Len(ls[0]) \in Nat
    BY <1>3, <2>2
  <2> QED BY <2>1, <2>2, <2>3
<1>8. QED
  BY <1>1, <1>5, <1>6, <1>7 DEF PassAges

(* A step of the pass keeps the runs past the limit below their layer.      *)
LEMMA FitsOn ==
    ASSUME TypeOK, PassAges, AlemNext
    PROVE  PassAges'
<1>1. /\ layers \in [Layer -> Seq(EMdata)] /\ layers' \in [Layer -> Seq(EMdata)]
  <2>1. TypeOK'
    BY TypeStep
  <2> QED BY <2>1 DEF TypeOK
<1>2. WalkedIsYoung'
  BY WalkStep DEF PassAges
<1>3. input' = input
  BY DEF AlemNext, Promote, Replace, Drop, Keep, NextLayer, Refill, NoFGFound
<1>4. AgesFit(input)'
  BY <1>3 DEF PassAges, AgesFit, AgeLimit, Layer, Top
<1>5. pc' \in {"check", "refill"} => pc = "check"
  BY DEF AlemNext, Promote, Replace, Drop, Keep, NextLayer, Refill, NoFGFound, Visiting
<1>6. ASSUME NEW r \in AllRuns(layers')
      PROVE  PastLimitBelow(r) /\ (pc = "check" => r.iter > 0)
  <2>1. PICK q \in Places(layers') : r = layers'[q[1]][q[2]]
    BY <1>6 DEF AllRuns
  <2> DEFINE l == q[1]
             n == q[2]
  <2>2. l \in Layer /\ n \in 1 .. Len(layers'[l]) /\ r = layers'[l][n]
    BY <1>1, <2>1, PlacesFacts
  <2> HIDE DEF l, n
  <2>3. ASSUME NEW k \in Layer, NEW m \in 1 .. Len(layers[k])
        PROVE  /\ layers[k][m] \in EMdata
               /\ PastLimitBelow(layers[k][m])
               /\ pc \in {"check", "refill"} => layers[k][m].iter > 0
    <3>1. <<k, m>> \in Places(layers)
      BY <1>1, PlacesFacts
    <3>2. layers[k][m] \in AllRuns(layers) /\ layers[k][m] \in EMdata
      BY <1>1, <3>1, PlacesFacts DEF AllRuns
    <3> QED BY <3>2 DEF PassAges
  <2>4. CASE Stayed(l, n)
    BY <2>2, <2>3, <2>4 DEF Stayed
  <2>5. CASE pc = "check" /\ CameUp(l, n)
    <3>1. PICK m \in 1 .. Len(layers[l - 1]) :
             /\ layers[l - 1][m].alemItersActive >= AgeLimit(l - 1)
             /\ layers'[l][n] = [layers[l - 1][m] EXCEPT !.ALEM_layer = l]
      BY <2>5 DEF CameUp, Aged
    <3>2. layers[l - 1][m] \in EMdata /\ layers[l - 1][m].iter > 0
      BY <2>3, <2>5 DEF CameUp
    <3>3. /\ r.ALEM_layer = l /\ r.iter = layers[l - 1][m].iter
          /\ r.alemItersActive = layers[l - 1][m].alemItersActive
      BY <2>2, <3>1, <3>2, MovedRests
    <3> QED BY <3>1, <3>2, <3>3 DEF PastLimitBelow
  <2>6. CASE pc = "refill" /\ WasMade(l, n)
    BY <2>2, <2>6 DEF WasMade, PastLimitBelow
  <2> QED BY <2>2, <2>4, <2>5, <2>6, PassSources
<1>7. QED
  BY <1>2, <1>4, <1>5, <1>6 DEF PassAges, PastLimitBelow, AgeLimit, Top

(* When the walk is over, every run below the top is below the limit of     *)
(* its layer.                                                               *)
LEMMA YoungAtEnd ==
    ASSUME TypeOK, IsPopulation(layers), PassAges, pc = "done", NEW r \in AllRuns(layers)
    PROVE  Young(r)
<1>1. layers \in [Layer -> Seq(EMdata)] /\ Tagged(layers)
  BY DEF IsPopulation
<1>2. PICK p \in Places(layers) : r = layers[p[1]][p[2]]
  BY DEF AllRuns
<1> DEFINE l == p[1]
           n == p[2]
<1>3. l \in Layer /\ n \in 1 .. Len(layers[l]) /\ n \in DOMAIN layers[l] /\ r = layers[l][n] /\ r \in EMdata
  BY <1>1, <1>2, PlacesFacts
<1> HIDE DEF l, n
<1>4. r.ALEM_layer = l
  BY <1>1, <1>3 DEF Tagged
<1>5. l < Top => ~(r.alemItersActive >= AgeLimit(l))
  BY <1>3 DEF PassAges, WalkedIsYoung, Walked, Aged
<1>6. r.alemItersActive \in Int /\ AgeLimit(l) \in Int
  BY <1>3, LimitFacts DEF EMdata
<1>7. QED
  BY <1>4, <1>5, <1>6 DEF Young, PassAges

(* At the start all runs are new and in layer 0,                            *)
LEMMA FitStart == DriverInit => LayersFit
<1> SUFFICES ASSUME DriverInit, NEW r \in Range(inDat) PROVE Young(r)
  BY DEF LayersFit, DriverInit
<1>1. PICK fg \in [1 .. Pop -> Params], age \in Garbage, unset \in Garbage :
         inDat = [n \in 1 .. Pop |-> NewRun(n - 1, fg[n], age, unset)]
  BY DEF DriverInit
<1>2. r.iter = 0 /\ r.ALEM_layer = 0
  BY <1>1 DEF Range, NewRun
<1>3. QED
  BY <1>2 DEF Young, PastLimitBelow

(* and every step keeps the ages of the runs in accord with their layers.   *)
LEMMA FitStep ==
    LikelihoodsAreLogs /\ DriverInv /\ TimelyRuns /\ LayersFit /\ [DriverNext]_driverVars => LayersFit'
<1> SUFFICES ASSUME LikelihoodsAreLogs, DriverInv, TimelyRuns, LayersFit, [DriverNext]_driverVars
             PROVE  LayersFit'
  OBVIOUS
<1>0. /\ DriverTypeOK /\ PoolsHold /\ TypeOK
      /\ IsPool(inDat) /\ IsPool(piped) /\ IsPopulation(layers)
  BY DEF DriverInv, PoolsHold, DriverTypeOK
<1>a. stage' # "alem" /\ stage' # "job" /\ stage' # "utils" /\ stage' # "files" => LayersFit'
  BY DEF LayersFit
<1>1. CASE Job \/ JobCrash
  <2>1. stage = "job" /\ stage' = "utils" /\ flags' = flags
    BY <1>1 DEF Job, JobCrash, scriptVars
  <2> SUFFICES ASSUME flags = "-alem", NEW x \in Range(piped') PROVE Due(x)
    BY <2>1 DEF LayersFit, Due, AgeLimit, Top
  <2>2. \A n \in DOMAIN piped' : \E m \in DOMAIN inDat : piped'[n] \in Iterated(inDat[m])
    BY <1>0, <1>1, PipedFacts
  <2>3. PICK m \in DOMAIN inDat : x \in Iterated(inDat[m])
    BY <2>2 DEF Range
  <2>4. inDat[m] \in EMdata /\ inDat[m].ALEM_layer \in Layer
    BY <1>0 DEF IsPool
  <2>5. Timely(inDat[m]) /\ Young(inDat[m])
    BY <2>1 DEF TimelyRuns, Present, Range, LayersFit
  <2> QED BY <2>3, <2>4, <2>5, JobTakesToLimit
<1>2. CASE Update
  BY <1>2 DEF Update, scriptVars, LayersFit
<1>3. CASE AlemConverged
  BY <1>3 DEF AlemConverged, LayersFit
<1>4. CASE AlemStart
  <2>1. stage = "utils" /\ flags = "-alem" /\ stage' = "alem" /\ BeginPass(SortedIntoLayers(piped))
    BY <1>4 DEF AlemStart
  <2>2. PassAges'
    BY <1>0, <2>1, FitsAtStart DEF LayersFit
  <2> QED BY <2>1, <2>2 DEF LayersFit
<1>5. CASE AlemStep
  <2>1. stage = "alem" /\ stage' = "alem" /\ AlemNext
    BY <1>5 DEF AlemStep
  <2>2. PassAges'
    BY <1>0, <2>1, FitsOn DEF LayersFit
  <2> QED BY <2>1, <2>2 DEF LayersFit
<1>6. CASE AlemEnd
  <2>1. stage = "alem" /\ stage' = "files" /\ pc = "done" /\ outDat' = Concatenated(layers)
    BY <1>6 DEF AlemEnd
  <2>2. ASSUME NEW r \in Range(outDat') PROVE Young(r)
    <3>1. r \in AllRuns(layers)
      BY <1>0, <2>1, Written
    <3> QED BY <1>0, <2>1, <3>1, YoungAtEnd DEF LayersFit
  <2> QED BY <2>1, <2>2 DEF LayersFit, Young, PastLimitBelow, AgeLimit, Top
<1>7. CASE AlemAbort
  BY <1>7 DEF AlemAbort, LayersFit
<1>8. CASE NextIteration
  <2>1. /\ stage = "files" /\ flags' = flags /\ inDat' = outDat
        /\ stage' \in {"timeout", "complete", "exhausted"} \/ (stage' = "job" /\ ~converged)
    BY <1>8 DEF NextIteration
  <2>2. CASE stage' = "job"
    <3>1. flags = "-alem" => \A r \in Range(inDat') : Young(r)
      BY <2>1, <2>2 DEF LayersFit
    <3> QED BY <2>1, <2>2, <3>1 DEF LayersFit, Young, PastLimitBelow, AgeLimit, Top
  <2>3. CASE stage' # "job"
    BY <1>a, <2>1, <2>3
  <2> QED BY <2>2, <2>3
<1>9. CASE UNCHANGED driverVars
  BY <1>9 DEF driverVars, scriptVars, alemVars, LayersFit, PassAges, AgesFit, WalkedIsYoung,
              Walked, Aged, PastLimitBelow, Young, Due, AgeLimit, Top, Layer, AllRuns, Places
<1>10. QED
  BY <1>1, <1>2, <1>3, <1>4, <1>5, <1>6, <1>7, <1>8, <1>9 DEF DriverNext

(* Whatever the number of layers, their sizes and the age gap: utils always *)
(* hands alem() what the pass relies on, a population with distinct         *)
(* identifiers, every layer within its size, and every run in the layer of  *)
(* its age.                                                                *)
THEOREM PassInputIsFit ==
    ASSUME LikelihoodsAreLogs
    PROVE  DriverSpec => []PassInputFits
<1>1. DriverInit => DriverInv /\ TimelyRuns /\ LayersFit
  BY DriverStart, TimelyStart, FitStart
<1>2. DriverInv /\ TimelyRuns /\ LayersFit /\ [DriverNext]_driverVars
        => (DriverInv /\ TimelyRuns /\ LayersFit)'
  BY DriverStep, TimelyStep, FitStep
<1>3. DriverInv /\ LayersFit => PassInputFits
  BY DEF DriverInv, PoolsHold, LayersFit, PassAges, PassInputFits
<1>4. QED
  BY <1>1, <1>2, <1>3, PTL DEF DriverSpec

-----------------------------------------------------------------------------
(* A run as good as what utils has printed is in the population wherever    *)
(* that is; while utils reads the runs that came back from the job, it is   *)
(* in the population that was handed to the job.                            *)
Attained(runs) == \E r \in runs : HoldsBest(r)

BestAttained ==
    best # Unstarted =>
        /\ stage \in {"job", "utils"} \cup Ended => Attained(Range(inDat))
        /\ stage = "alem" => Attained(AllRuns(layers))
        /\ stage = "files" => Attained(Range(outDat))

IteratedRuns ==
    /\ stage = "utils" => \A r \in Range(piped) : r.iter > 0
    /\ stage = "alem" /\ pc \in {"check", "refill"} => \A r \in AllRuns(layers) : r.iter > 0

(* As long as no process aborts, every run comes back from its job.         *)
JobReturns ==
    stage = "utils" /\ crashes = 0 =>
        \A m \in DOMAIN inDat : \E s \in Range(piped) : s.bnID = inDat[m].bnID

AbortedEmpty == stage = "alem" /\ pc = "aborted" => Places(layers) = {}

BestInv == IteratedRuns /\ JobReturns /\ AbortedEmpty /\ BestAttained

(* No run that was not iterated takes part in a pass before alem() makes new *)
(* ones.                                                                   *)
LEMMA PassIterates ==
    ASSUME TypeOK, AlemNext, pc \in {"check", "refill"} => \A r \in AllRuns(layers) : r.iter > 0
    PROVE  /\ pc \in {"check", "refill"}
           /\ pc = "check" => \A r \in AllRuns(layers') : r.iter > 0
           /\ pc' \in {"check", "refill"} => pc = "check"
<1>1. /\ layers \in [Layer -> Seq(EMdata)] /\ layers' \in [Layer -> Seq(EMdata)]
  <2>1. TypeOK'
    BY TypeStep
  <2> QED BY <2>1 DEF TypeOK
<1>2. pc \in {"check", "refill"} /\ (pc' \in {"check", "refill"} => pc = "check")
  BY DEF AlemNext, Promote, Replace, Drop, Keep, NextLayer, Refill, NoFGFound, Visiting
<1>3. \A r \in AllRuns(layers) : r.iter > 0 /\ r \in EMdata
  BY <1>1, <1>2, PlacesFacts DEF AllRuns
<1>4. ASSUME pc = "check", NEW r \in AllRuns(layers') PROVE r.iter > 0
  <2>1. CASE r \in AllRuns(layers)
    BY <1>3, <2>1
  <2>2. CASE \E s \in AllRuns(layers), l \in Layer : r = [s EXCEPT !.ALEM_layer = l]
    <3>1. PICK s \in AllRuns(layers), l \in Layer : r = [s EXCEPT !.ALEM_layer = l]
      BY <2>2
    <3>2. r.iter = s.iter
      BY <1>3, <3>1, MovedRests
    <3> QED BY <1>3, <3>2
  <2>3. CASE r \notin AllRuns(layers) /\ ~(\E s \in AllRuns(layers), l \in Layer : r = [s EXCEPT !.ALEM_layer = l])
    <3>1. PICK q \in Places(layers') : r = layers'[q[1]][q[2]]
      BY DEF AllRuns
    <3>2. q[1] \in Layer /\ q[2] \in 1 .. Len(layers'[q[1]])
      BY <1>1, <3>1, PlacesFacts
    <3>3. Stayed(q[1], q[2]) \/ CameUp(q[1], q[2])
      BY <1>4, <3>2, PassSources
    <3>4. \A k \in Layer : \A m \in 1 .. Len(layers[k]) : layers[k][m] \in AllRuns(layers)
      <4> SUFFICES ASSUME NEW k \in Layer, NEW m \in 1 .. Len(layers[k])
                   PROVE  layers[k][m] \in AllRuns(layers)
        OBVIOUS
      <4>1. <<k, m>> \in Places(layers)
        BY <1>1, PlacesFacts
      <4> QED BY <4>1 DEF AllRuns
    <3> QED BY <2>3, <3>1, <3>2, <3>3, <3>4 DEF Stayed, CameUp
  <2> QED BY <2>1, <2>2, <2>3
<1>5. QED
  BY <1>2, <1>4

(* A pass discards no best run. *)
LEMMA PassAttains ==
    ASSUME TypeOK, AlemNext, pc \in {"check", "refill"} => \A r \in AllRuns(layers) : r.iter > 0,
           best \in Int, best' = best, Attained(AllRuns(layers))
    PROVE  Attained(AllRuns(layers))'
<1>1. /\ layers \in [Layer -> Seq(EMdata)] /\ layers' \in [Layer -> Seq(EMdata)]
  <2>1. TypeOK'
    BY TypeStep
  <2> QED BY <2>1 DEF TypeOK
<1>2. /\ pc \in {"check", "refill"}
      /\ pc = "check" => \A r \in AllRuns(layers') : r.iter > 0
  BY PassIterates
<1>3. \A r \in AllRuns(layers) : r.iter > 0 /\ r \in EMdata
  BY <1>1, <1>2, PlacesFacts DEF AllRuns
<1>5. PICK s \in AllRuns(layers) : s.iter > 0 /\ s.likelihood >= best
  BY DEF Attained, HoldsBest
<1>6. CASE pc = "check"
  <2>1. PICK p \in Places(layers) : s = layers[p[1]][p[2]]
    BY DEF AllRuns
  <2>2. PICK q \in Places(layers') : layers'[q[1]][q[2]].likelihood >= s.likelihood
    BY <2>1, StepOutlives DEF Outlived
  <2> DEFINE x == layers'[q[1]][q[2]]
  <2>3. x \in AllRuns(layers') /\ x \in EMdata
    BY <1>1, <2>2, PlacesFacts DEF AllRuns
  <2>4. x.likelihood >= s.likelihood
    BY <2>2
  <2> HIDE DEF x
  <2>5. x.likelihood \in Int /\ s.likelihood \in Int
    BY <1>3, <2>3 DEF EMdata
  <2>6. x.likelihood >= best /\ x.iter > 0
    BY <1>2, <1>5, <1>6, <2>3, <2>4, <2>5
  <2> QED BY <2>3, <2>6 DEF Attained, HoldsBest
<1>7. CASE pc = "refill"
  <2>1. s \in AllRuns(layers')
    <3>1. PICK p \in Places(layers) : s = layers[p[1]][p[2]]
      BY DEF AllRuns
    <3>2. /\ p[1] \in Layer /\ p[2] \in 1 .. Len(layers[p[1]]) /\ p[1] \in Int
          /\ layers[p[1]] \in Seq(EMdata)
      <4>1. p[1] \in Layer /\ p[2] \in 1 .. Len(layers[p[1]])
        BY <1>1, <3>1, PlacesFacts
      <4>2. p[1] \in Int
        <5>1. Layer \subseteq Int
          BY LimitFacts
        <5> QED BY <4>1, <5>1
      <4>3. layers[p[1]] \in Seq(EMdata)
        BY <1>1, <4>1
      <4> QED BY <4>1, <4>2, <4>3
    <3>3. CASE layers' = layers
      BY <3>3
    <3>4. CASE Refill /\ layers' # layers
      <4>1. PICK new \in Seq(EMdata) : layers' = [layers EXCEPT ![0] = @ \o new]
        BY <3>4, RefillFacts
      <4>2. /\ p[2] \in 1 .. Len(layers'[p[1]])
            /\ layers'[p[1]][p[2]] = layers[p[1]][p[2]]
        <5>1. CASE p[1] = 0
          <6>1. layers'[p[1]] = layers[p[1]] \o new
            BY <1>1, <3>2, <4>1, <5>1
          <6>2. /\ Len(layers[p[1]] \o new) = Len(layers[p[1]]) + Len(new)
                /\ Len(layers[p[1]]) \in Nat /\ Len(new) \in Nat
                /\ \A m \in 1 .. Len(layers[p[1]]) + Len(new) :
                      (layers[p[1]] \o new)[m] =
                         IF m <= Len(layers[p[1]]) THEN layers[p[1]][m]
                         ELSE new[m - Len(layers[p[1]])]
            BY <3>2, ConcatProperties, LenProperties
          <6> QED BY <3>2, <6>1, <6>2
        <5>2. CASE p[1] # 0
          BY <1>1, <3>2, <4>1, <5>2
        <5> QED BY <5>1, <5>2
      <4>3. <<p[1], p[2]>> \in Places(layers')
        BY <1>1, <3>2, <4>2, PlacesFacts
      <4> QED BY <3>1, <4>2, <4>3 DEF AllRuns
    <3> QED BY <1>7, <3>3, <3>4 DEF AlemNext, Promote, Replace, Drop, Keep, NextLayer,
                                    NoFGFound, Visiting
  <2> QED BY <1>5, <2>1 DEF Attained, HoldsBest
<1>8. QED
  BY <1>2, <1>6, <1>7

(* What has gone through a job has been iterated.                           *)
LEMMA IteratedStep ==
    DriverInv /\ IteratedRuns /\ [DriverNext]_driverVars => IteratedRuns'
<1> SUFFICES ASSUME DriverInv, IteratedRuns, [DriverNext]_driverVars PROVE IteratedRuns'
  OBVIOUS
<1>0. /\ DriverTypeOK /\ PoolsHold /\ TypeOK
      /\ IsPool(inDat) /\ IsPool(piped) /\ IsPopulation(layers)
  BY DEF DriverInv, PoolsHold, DriverTypeOK
<1>1. CASE Job \/ JobCrash
  <2>1. stage' = "utils"
    BY <1>1 DEF Job, JobCrash
  <2>2. ASSUME NEW x \in Range(piped') PROVE x.iter > 0
    <3>1. \A n \in DOMAIN piped' : \E m \in DOMAIN inDat : piped'[n] \in Iterated(inDat[m])
      BY <1>0, <1>1, PipedFacts
    <3>2. PICK m \in DOMAIN inDat : x \in Iterated(inDat[m])
      BY <3>1 DEF Range
    <3>3. inDat[m] \in EMdata /\ inDat[m].iter \in Nat
      <4>1. inDat[m] \in EMdata
        BY <1>0 DEF IsPool
      <4> QED BY <4>1 DEF EMdata
    <3>4. CASE Rests(inDat[m])
      BY <3>2, <3>3, <3>4, IteratedFacts, RestsMeans, EMDataAssumption
    <3>5. CASE ~Rests(inDat[m])
      BY <3>2, <3>3, <3>5, IteratedFacts
    <3> QED BY <3>4, <3>5
  <2> QED BY <2>1, <2>2 DEF IteratedRuns
<1>2. CASE Update \/ AlemConverged \/ AlemEnd \/ AlemAbort \/ NextIteration
  <2>1. stage' # "utils" /\ stage' # "alem"
    BY <1>2 DEF Update, AlemConverged, AlemEnd, AlemAbort, NextIteration
  <2> QED BY <2>1 DEF IteratedRuns
<1>3. CASE AlemStart
  <2>1. stage = "utils" /\ stage' = "alem" /\ layers' = SortedIntoLayers(piped)
    BY <1>3 DEF AlemStart, BeginPass
  <2>2. AllRuns(layers') = Range(piped)
    BY <1>0, <2>1, InAndOut
  <2> QED BY <2>1, <2>2 DEF IteratedRuns
<1>4. CASE AlemStep
  <2>1. stage = "alem" /\ stage' = "alem" /\ AlemNext
    BY <1>4 DEF AlemStep
  <2>2. /\ pc = "check" => \A r \in AllRuns(layers') : r.iter > 0
        /\ pc' \in {"check", "refill"} => pc = "check"
    BY <1>0, <2>1, PassIterates DEF IteratedRuns
  <2> QED BY <2>1, <2>2 DEF IteratedRuns
<1>5. CASE UNCHANGED driverVars
  BY <1>5 DEF driverVars, scriptVars, alemVars, IteratedRuns
<1>6. QED
  BY <1>1, <1>2, <1>3, <1>4, <1>5 DEF DriverNext

(* A job that loses no process loses no run; a pass is given up only when   *)
(* there are no runs.                                                       *)
LEMMA ReturnsStep ==
    DriverInv /\ JobReturns /\ AbortedEmpty /\ [DriverNext]_driverVars
        => JobReturns' /\ AbortedEmpty'
<1> SUFFICES ASSUME DriverInv, JobReturns, AbortedEmpty, [DriverNext]_driverVars
             PROVE  JobReturns' /\ AbortedEmpty'
  OBVIOUS
<1>0. /\ DriverTypeOK /\ PoolsHold /\ IsPool(inDat) /\ crashes \in Nat
  BY DriverAssumption DEF DriverInv, PoolsHold, DriverTypeOK
<1>1. CASE Job
  <2>1. stage' = "utils" /\ inDat' = inDat /\ piped' \in ReducedRuns(MappedRuns(inDat))
    BY <1>1 DEF Job, scriptVars
  <2>2. ASSUME NEW m \in DOMAIN inDat PROVE \E s \in Range(piped') : s.bnID = inDat[m].bnID
    <3>1. PICK n \in DOMAIN piped' : piped'[n] \in Iterated(inDat[m])
      BY <1>0, <2>1, JobFacts
    <3>2. inDat[m] \in EMdata
      BY <1>0 DEF IsPool
    <3>3. piped'[n].bnID = inDat[m].bnID
      BY <3>1, <3>2, IteratedFacts
    <3> QED BY <3>3 DEF Range
  <2> QED BY <2>1, <2>2 DEF JobReturns, AbortedEmpty
<1>2. CASE JobCrash
  <2>1. stage' = "utils" /\ crashes' # 0
    BY <1>0, <1>2 DEF JobCrash
  <2> QED BY <2>1 DEF JobReturns, AbortedEmpty
<1>3. CASE Update \/ AlemConverged \/ AlemEnd \/ AlemAbort \/ NextIteration
  <2>1. stage' # "utils" /\ stage' # "alem"
    BY <1>3 DEF Update, AlemConverged, AlemEnd, AlemAbort, NextIteration
  <2> QED BY <2>1 DEF JobReturns, AbortedEmpty
<1>4. CASE AlemStart
  <2>1. stage' = "alem" /\ pc' = "check"
    BY <1>4 DEF AlemStart, BeginPass
  <2> QED BY <2>1 DEF JobReturns, AbortedEmpty
<1>5. CASE AlemStep
  <2>1. stage = "alem" /\ stage' = "alem" /\ AlemNext
    BY <1>5 DEF AlemStep
  <2>2. pc' = "aborted" => Places(layers) = {} /\ layers' = layers
    BY <2>1 DEF AlemNext, Promote, Replace, Drop, Keep, NextLayer, Refill, NoFGFound, Visiting
  <2>3. pc' = "aborted" => Places(layers') = {}
    BY <2>2
  <2> QED BY <2>1, <2>3 DEF JobReturns, AbortedEmpty
<1>6. CASE UNCHANGED driverVars
  BY <1>6 DEF driverVars, scriptVars, alemVars, JobReturns, AbortedEmpty
<1>7. QED
  BY <1>1, <1>2, <1>3, <1>4, <1>5, <1>6 DEF DriverNext

(* utils prints the best of what came back, and that run is among them.  If *)
(* it is less than before, the run that had the old one came back worse or  *)
(* not at all.                                                              *)
LEMMA BestRead ==
    ASSUME DriverInv, BestInv, stage = "utils", best' = BestOf(piped)
    PROVE  /\ best' # Unstarted => \E r \in Range(piped) : r.iter > 0 /\ r.likelihood >= best'
           /\ best' < best => \E r \in Range(inDat) : HoldsBest(r) /\ (FellInJob(r) \/ LostInJob(r))
<1>0. /\ IsPool(inDat) /\ IsPool(piped) /\ crashes \in Nat /\ best \in Int
      /\ IteratedRuns /\ JobReturns /\ BestAttained
  BY DriverAssumption DEF DriverInv, PoolsHold, DriverTypeOK, BestInv
<1>1. /\ best' \in Int /\ best' >= Unstarted
      /\ \A n \in DOMAIN piped : piped[n].likelihood \in Int /\ best' >= piped[n].likelihood
      /\ best' # Unstarted => \E n \in DOMAIN piped : best' = piped[n].likelihood
  <2>1. piped \in Seq(EMdata)
    BY <1>0 DEF IsPool
  <2> QED BY <2>1, BestFacts
<1>2. ASSUME best' # Unstarted PROVE \E r \in Range(piped) : r.iter > 0 /\ r.likelihood >= best'
  <2>1. PICK n \in DOMAIN piped : best' = piped[n].likelihood
    BY <1>1, <1>2
  <2>2. piped[n] \in Range(piped) /\ piped[n].likelihood >= best'
    BY <1>1, <2>1 DEF Range
  <2>3. piped[n].iter > 0
    BY <1>0, <2>2 DEF IteratedRuns
  <2> QED BY <2>2, <2>3
<1>3. ASSUME best' < best
      PROVE  \E r \in Range(inDat) : HoldsBest(r) /\ (FellInJob(r) \/ LostInJob(r))
  <2>1. best # Unstarted
    BY <1>0, <1>1, <1>3, UnstartedIsLow
  <2>2. PICK r \in Range(inDat) : HoldsBest(r)
    BY <1>0, <2>1 DEF BestAttained, Attained
  <2>3. PICK m \in DOMAIN inDat : r = inDat[m]
    BY DEF Range
  <2>4. r.likelihood \in Int /\ r.likelihood > best'
    <3>1. r \in EMdata
      BY <1>0, <2>3 DEF IsPool
    <3>2. r.likelihood \in Int
      BY <3>1 DEF EMdata
    <3> QED BY <1>0, <1>1, <1>3, <2>2, <3>2 DEF HoldsBest
  <2>5. ASSUME NEW s \in Range(piped), s.bnID = r.bnID PROVE FellInJob(r)
    <3>1. PICK n \in DOMAIN piped : s = piped[n]
      BY DEF Range
    <3>2. s.likelihood < r.likelihood
      BY <1>1, <2>4, <3>1
    <3> QED BY <2>5, <3>2 DEF FellInJob
  <2>6. ASSUME \A s \in Range(piped) : s.bnID # r.bnID PROVE LostInJob(r)
    <3>1. crashes # 0
      BY <1>0, <2>3, <2>6 DEF JobReturns
    <3> QED BY <1>0, <2>6, <3>1 DEF LostInJob
  <2> QED BY <2>2, <2>5, <2>6
<1>4. QED
  BY <1>2, <1>3

(* What the property says of a step. *)
Kept ==
    /\ best' < best =>
          \E r \in Range(inDat) : HoldsBest(r) /\ (FellInJob(r) \/ LostInJob(r))
    /\ stage' \in Ended /\ best' # Unstarted => (\E r \in Range(inDat) : HoldsBest(r))'

LEMMA AttainedStep ==
    DriverInv /\ BestInv /\ [DriverNext]_driverVars => BestAttained' /\ [Kept]_driverVars
<1> SUFFICES ASSUME DriverInv, BestInv, [DriverNext]_driverVars
             PROVE  BestAttained' /\ [Kept]_driverVars
  OBVIOUS
<1>0. /\ DriverTypeOK /\ PoolsHold /\ TypeOK /\ IteratedRuns /\ AbortedEmpty /\ BestAttained
      /\ IsPool(piped) /\ IsPopulation(layers) /\ best \in Int /\ ~(best < best)
  BY DEF DriverInv, PoolsHold, DriverTypeOK, BestInv
<1>1. CASE Job \/ JobCrash
  <2>1. stage = "job" /\ stage' = "utils" /\ best' = best /\ inDat' = inDat
    BY <1>1 DEF Job, JobCrash, scriptVars
  <2> QED BY <1>0, <2>1 DEF BestAttained, Attained, HoldsBest, Kept, Ended
<1>2. CASE Update
  <2>1. stage = "utils" /\ stage' = "files" /\ outDat' = piped /\ best' = BestOf(piped)
    BY <1>2 DEF Update
  <2> QED BY <2>1, BestRead DEF BestAttained, Attained, HoldsBest, Kept, Ended
<1>3. CASE AlemConverged
  <2>1. /\ stage = "utils" /\ stage' = "files" /\ best' = BestOf(piped)
        /\ outDat' = Concatenated(SortedIntoLayers(piped))
    BY <1>3 DEF AlemConverged
  <2>2. Range(outDat') = Range(piped)
    BY <1>0, <2>1, InAndOut, Written
  <2> QED BY <2>1, <2>2, BestRead DEF BestAttained, Attained, HoldsBest, Kept, Ended
<1>4. CASE AlemStart
  <2>1. /\ stage = "utils" /\ stage' = "alem" /\ best' = BestOf(piped)
        /\ layers' = SortedIntoLayers(piped)
    BY <1>4 DEF AlemStart, BeginPass
  <2>2. AllRuns(layers') = Range(piped)
    BY <1>0, <2>1, InAndOut
  <2> QED BY <2>1, <2>2, BestRead DEF BestAttained, Attained, HoldsBest, Kept, Ended
<1>5. CASE AlemStep
  <2>1. stage = "alem" /\ stage' = "alem" /\ AlemNext /\ best' = best
    BY <1>5 DEF AlemStep
  <2>2. best # Unstarted => Attained(AllRuns(layers))'
    BY <1>0, <2>1, PassAttains DEF IteratedRuns, BestAttained
  <2>3. stage' \notin Ended /\ stage' # "job" /\ stage' # "utils" /\ stage' # "files"
    BY <2>1 DEF Ended
  <2>4. Kept
    BY <1>0, <2>1, <2>3 DEF Kept
  <2> QED BY <2>1, <2>2, <2>3, <2>4 DEF BestAttained
<1>6. CASE AlemEnd
  <2>1. /\ stage = "alem" /\ stage' = "files" /\ best' = best /\ outDat' = Concatenated(layers)
    BY <1>6 DEF AlemEnd
  <2>2. Range(outDat') = AllRuns(layers)
    BY <1>0, <2>1, Written
  <2> QED BY <1>0, <2>1, <2>2 DEF BestAttained, Attained, HoldsBest, Kept, Ended
<1>7. CASE AlemAbort
  <2>1. stage = "alem" /\ pc = "aborted" /\ stage' = "failed" /\ best' = best
    BY <1>7 DEF AlemAbort
  <2>2. AllRuns(layers) = {}
    BY <1>0, <2>1 DEF AbortedEmpty, AllRuns
  <2>3. best = Unstarted
    BY <1>0, <2>1, <2>2 DEF BestAttained, Attained
  <2> QED BY <1>0, <2>1, <2>3 DEF BestAttained, Kept
<1>8. CASE NextIteration
  <2>1. /\ stage = "files" /\ stage' \in {"job", "timeout", "complete", "exhausted"}
        /\ best' = best /\ inDat' = outDat
    BY <1>8 DEF NextIteration
  <2> QED BY <1>0, <2>1 DEF BestAttained, Attained, HoldsBest, Kept, Ended
<1>9. CASE UNCHANGED driverVars
  <2>1. BestAttained'
    BY <1>0, <1>9 DEF driverVars, scriptVars, alemVars, BestAttained, Attained, HoldsBest
  <2> QED BY <1>9, <2>1
<1>10. QED
  BY <1>1, <1>2, <1>3, <1>4, <1>5, <1>6, <1>7, <1>8, <1>9 DEF DriverNext

(* Nothing has been printed at the start.                                   *)
LEMMA BestStart == DriverInit => BestInv
  BY DEF DriverInit, StartPass, BestInv, IteratedRuns, JobReturns, AbortedEmpty, BestAttained,
         NoLayers, AllRuns, Places

(* For any layers, M-steps and aborts, with either flag: "Best EM likelihood *)
(* so far" (utils.cpp) goes down only when the run that has it, which every  *)
(* pass has kept and handed to the job, falls in its EM iteration or is lost *)
(* with a process that aborts; and when the script ends, the population in   *)
(* in/dat has a run as good as the likelihood printed last.                  *)
THEOREM BestIsNeverDiscarded == DriverSpec => BestNeverDiscarded
<1>1. DriverInit => DriverInv /\ BestInv
  BY DriverStart, BestStart
<1>2. DriverInv /\ BestInv /\ [DriverNext]_driverVars => (DriverInv /\ BestInv)'
  <2> SUFFICES ASSUME DriverInv, BestInv, [DriverNext]_driverVars PROVE (DriverInv /\ BestInv)'
    OBVIOUS
  <2>1. IteratedRuns /\ JobReturns /\ AbortedEmpty
    BY DEF BestInv
  <2> QED BY <2>1, DriverStep, IteratedStep, ReturnsStep, AttainedStep DEF BestInv
<1>3. DriverInv /\ BestInv /\ [DriverNext]_driverVars => [Kept]_driverVars
  BY AttainedStep
<1>4. QED
  BY <1>1, <1>2, <1>3, PTL DEF DriverSpec, BestNeverDiscarded, Kept
=============================================================================
