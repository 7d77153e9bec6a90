--------------------------- MODULE AlemLocalProofs ---------------------------
(***************************************************************************)
(* Proofs about the stand-alone Age-Layered EM.  LocalInv is the inductive *)
(* invariant: a run that is no longer active is a converged run of the top *)
(* layer, every run has been iterated when the layers are walked, and the  *)
(* part of the top layer that has been walked holds no converged run that  *)
(* is still active.                                                        *)
(***************************************************************************)
EXTENDS AlemLocal, Enumerations

LocalType ==
    /\ layers \in [Layer -> Seq(EMAlg)]
    /\ pc \in {"refill", "iterate", "check", "done"}
    /\ layer \in Layer /\ index \in Nat
    /\ pc = "check" => index <= Len(layers[layer])
    /\ pc = "iterate" => todo \subseteq Places(layers)
    /\ runsTerminated \in Nat

(* A run that was active and is no longer.                                  *)
WasCounted(em) == ~em.ALEM_active /\ em.iters > 0

CountedAreConverged ==
    \A l \in Layer : \A n \in DOMAIN layers[l] :
        WasCounted(layers[l][n]) => l = Top /\ HasSatisfiedTermConditions(layers[l][n])

WalkedAreIterated ==
    \A l \in Layer : \A n \in DOMAIN layers[l] :
        pc = "check" \/ (pc = "iterate" /\ <<l, n>> \notin todo) => layers[l][n].iters > 0

(* The top layer from its place i + 1 on: its converged runs are counted.   *)
CountedAbove(top, i) ==
    \A n \in DOMAIN top :
        n > i /\ HasSatisfiedTermConditions(top[n]) => ~top[n].ALEM_active

TopIsCounted ==
    /\ pc = "check" /\ layer = Top => CountedAbove(layers[Top], index)
    /\ pc = "refill" => CountedAbove(layers[Top], 0)

Counted(top) == {n \in DOMAIN top : ~top[n].ALEM_active}

NoneCountedTwice == Cardinality(Counted(layers[Top])) <= runsTerminated

LocalInv ==
    /\ LocalType
    /\ CountedAreConverged
    /\ WalkedAreIterated
    /\ TopIsCounted
    /\ NoneCountedTwice
    /\ PopulationBounded

(* ------------------------------------------------------------------------ *)

(* Layer 0 and the top layer differ, and every layer has a size. *)
LEMMA LayerFacts ==
    /\ Top \in Layer /\ 0 \in Layer /\ 0 # Top
    /\ Layer \subseteq Nat /\ Top \in Nat /\ IsFiniteSet(Layer)
    /\ \A l \in Layer : MinRuns(l) \in Nat \ {0}
    /\ \A l \in Layer : l < Top => l + 1 \in Layer /\ l + 1 # l
    /\ \A l \in Layer : l # Top => l < Top
<1>1. IsFiniteSet(Layer)
  BY FS_Interval, AlemLocalAssumption DEF Layer
<1> QED BY <1>1, AlemLocalAssumption DEF Layer, Top, MinRuns

(* The places of a population are its entries. *)
LEMMA PlacesFacts ==
    ASSUME NEW ls \in [Layer -> Seq(EMAlg)]
    PROVE  /\ Places(ls) = Entries(ls)
           /\ IsFiniteSet(Places(ls)) /\ Cardinality(Places(ls)) \in Nat
           /\ \A l \in Layer : /\ ls[l] \in Seq(EMAlg)
                               /\ Len(ls[l]) \in Nat
                               /\ DOMAIN ls[l] = 1 .. Len(ls[l])
                               /\ \A n \in DOMAIN ls[l] : ls[l][n] \in EMAlg
           /\ \A p \in Places(ls) :
                 p[1] \in Layer /\ p[2] \in DOMAIN ls[p[1]] /\ p = <<p[1], p[2]>>
           /\ \A l \in Layer : \A n \in DOMAIN ls[l] : <<l, n>> \in Places(ls)
<1>1. Places(ls) = Entries(ls)
  BY DEF Places, Entries
<1>2. \A l \in Layer : /\ ls[l] \in Seq(EMAlg)
                       /\ Len(ls[l]) \in Nat
                       /\ DOMAIN ls[l] = 1 .. Len(ls[l])
  BY LenProperties
<1>3. \A l \in Layer : \A n \in DOMAIN ls[l] : ls[l][n] \in EMAlg
  BY <1>2, ElementOfSeq
<1>4. /\ IsFiniteSet(Entries(ls))
      /\ \A p \in Entries(ls) : p[1] \in Layer /\ p[2] \in 1 .. Len(ls[p[1]]) /\ p = <<p[1], p[2]>>
      /\ \A l \in Layer : \A n \in 1 .. Len(ls[l]) : <<l, n>> \in Entries(ls)
  BY LayerFacts, EntriesFacts
<1>5. Cardinality(Entries(ls)) \in Nat
  BY <1>4, FS_CardinalityType
<1> QED BY <1>1, <1>2, <1>3, <1>4, <1>5

(* How the size of the population changes with one layer.                   *)
LEMMA PlacesReplaced ==
    ASSUME NEW ls \in [Layer -> Seq(EMAlg)], NEW new \in [Layer -> Seq(EMAlg)],
           NEW l \in Layer, \A k \in Layer : k # l => new[k] = ls[k]
    PROVE  Cardinality(Places(new)) + Len(ls[l]) = Cardinality(Places(ls)) + Len(new[l])
<1>1. Places(ls) = Entries(ls) /\ Places(new) = Entries(new)
  BY PlacesFacts
<1>2. IsFiniteSet(Layer)
  BY LayerFacts
<1>3. Cardinality(Entries(new)) + Len(ls[l]) = Cardinality(Entries(ls)) + Len(new[l])
  <2>1. ls \in Families(Layer, EMAlg) /\ new \in Families(Layer, EMAlg)
    BY DEF Families
  <2> QED BY ONLY <1>2, <2>1, l \in Layer, \A k \in Layer : k # l => new[k] = ls[k], EntriesReplaced
<1> QED BY <1>1, <1>3

(* A run that has not been iterated has not converged. *)
LEMMA ConvergedIsIterated ==
    ASSUME NEW em \in EMAlg, HasSatisfiedTermConditions(em)
    PROVE  em.iters > 0
  BY AlemLocalAssumption DEF EMAlg, HasSatisfiedTermConditions

(* What the body of the parallel loop makes of a run.                       *)
LEMMA IteratedFacts ==
    ASSUME NEW em \in EMAlg, NEW new \in Iterated(em)
    PROVE  /\ new \in EMAlg
           /\ new.iters > 0
           /\ em.ALEM_active => new.ALEM_active
           /\ IF HasSatisfiedTermConditions(em)
              THEN /\ new.ALEM_active = em.ALEM_active
                   /\ HasSatisfiedTermConditions(new)
              ELSE new.ALEM_active
<1>1. CASE HasSatisfiedTermConditions(em)
  <2>1. new = [em EXCEPT !.alemItersActive = @ + 1]
    BY <1>1 DEF Iterated
  <2>2. /\ new \in EMAlg
        /\ new.iters = em.iters /\ new.logZ = em.logZ /\ new.prevLogZ = em.prevLogZ
        /\ new.ALEM_active = em.ALEM_active
    BY <2>1 DEF EMAlg
  <2>3. HasSatisfiedTermConditions(new)
    BY <1>1, <2>2 DEF HasSatisfiedTermConditions
  <2> QED BY <1>1, <2>2, <2>3, ConvergedIsIterated
<1>2. CASE ~HasSatisfiedTermConditions(em)
  <2>1. PICK fg \in MStep[em.fg] :
           new = [fg |-> fg, iters |-> em.iters + 1, logZ |-> Lik[em.fg], prevLogZ |-> em.logZ,
                  ALEM_active |-> TRUE, alemItersActive |-> em.iters + 1]
    BY <1>2 DEF Iterated
  <2>2. em.fg \in Params /\ em.iters \in Nat /\ em.logZ \in Int
    BY DEF EMAlg
  <2>3. fg \in Params /\ Lik[em.fg] \in Int
    BY <2>2, AlemLocalAssumption
  <2>4. new \in EMAlg /\ new.iters = em.iters + 1 /\ new.ALEM_active
    BY <2>1, <2>2, <2>3 DEF EMAlg
  <2> QED BY <1>2, <2>2, <2>4
<1> QED BY <1>1, <1>2

(* A new run.                                                               *)
LEMMA NewRunFacts ==
    ASSUME NEW fg \in Params
    PROVE  /\ InitEMAlg(fg) \in EMAlg
           /\ ~WasCounted(InitEMAlg(fg))
  BY DEF InitEMAlg, EMAlg, WasCounted

(* ------------------------------------------------------------------------ *)

(* Refill: layer 0 gets runs that have not been iterated, at most as many   *)
(* as the population lacks.                                                 *)
LEMMA RefillFacts ==
    ASSUME LocalType, PopulationBounded, Refill
    PROVE  /\ layers' \in [Layer -> Seq(EMAlg)]
           /\ Cardinality(Places(layers')) <= MinRuns(0)
           /\ \A l \in Layer : l # 0 => layers'[l] = layers[l]
           /\ \A n \in DOMAIN layers'[0] :
                 \/ n \in DOMAIN layers[0] /\ layers'[0][n] = layers[0][n]
                 \/ ~WasCounted(layers'[0][n])
<1> DEFINE k == MinRuns(0) - GetNumRuns
<1>1. /\ layers \in [Layer -> Seq(EMAlg)] /\ 0 \in Layer
      /\ MinRuns(0) \in Nat
      /\ layers[0] \in Seq(EMAlg) /\ Len(layers[0]) \in Nat
      /\ GetNumRuns \in Nat /\ k \in Int
      /\ GetNumRuns <= MinRuns(0)
  <2>1. layers \in [Layer -> Seq(EMAlg)]
    BY DEF LocalType
  <2>2. 0 \in Layer /\ MinRuns(0) \in Nat
    BY LayerFacts
  <2>3. Cardinality(Places(layers)) \in Nat /\ layers[0] \in Seq(EMAlg) /\ Len(layers[0]) \in Nat
    BY <2>1, <2>2, PlacesFacts
  <2> QED BY <2>1, <2>2, <2>3 DEF GetNumRuns, PopulationBounded
<1>2. CASE layers' = layers
  BY <1>1, <1>2 DEF GetNumRuns
<1>3. CASE Len(layers[0]) < MinRuns(0) /\ k > 0
  <2>1. PICK fg \in [1 .. k -> Params] :
           layers' = [layers EXCEPT ![0] = @ \o [n \in 1 .. k |-> InitEMAlg(fg[n])]]
    BY <1>3 DEF Refill
  <2> DEFINE new == [n \in 1 .. k |-> InitEMAlg(fg[n])]
             more == layers[0] \o new
  <2>2. k \in Nat
    BY <1>1, <1>3
  <2>3. \A n \in 1 .. k : InitEMAlg(fg[n]) \in EMAlg /\ ~WasCounted(InitEMAlg(fg[n]))
    BY NewRunFacts
  <2>4. /\ new \in Seq(EMAlg) /\ Len(new) = k
        /\ \A n \in 1 .. k : ~WasCounted(new[n])
    <3> HIDE DEF k
    <3>1. new \in [1 .. k -> EMAlg]
      BY <2>3
    <3>2. new \in Seq(EMAlg)
      BY <2>2, <3>1, SeqDef
    <3>3. DOMAIN new = 1 .. k
      OBVIOUS
    <3>4. Len(new) = k
      BY <2>2, <3>2, <3>3, LenProperties
    <3> QED BY <2>3, <3>2, <3>4
  <2> HIDE DEF new, k
  <2>5. /\ more \in Seq(EMAlg) /\ Len(more) = Len(layers[0]) + k
        /\ \A n \in 1 .. Len(layers[0]) + k :
              more[n] = IF n <= Len(layers[0]) THEN layers[0][n] ELSE new[n - Len(layers[0])]
    BY <1>1, <2>4, ConcatProperties
  <2> HIDE DEF more
  <2>6. layers' = [layers EXCEPT ![0] = more]
    BY <2>1 DEF more, new
  <2>7. /\ layers' \in [Layer -> Seq(EMAlg)]
        /\ Cardinality(Places(layers')) + Len(layers[0]) = Cardinality(Places(layers)) + Len(more)
    <3>1. /\ layers' \in [Layer -> Seq(EMAlg)] /\ layers'[0] = more
          /\ \A l \in Layer : l # 0 => layers'[l] = layers[l]
      BY <1>1, <2>5, <2>6
    <3> QED BY <1>1, <3>1, PlacesReplaced
  <2>8. Cardinality(Places(layers')) \in Nat
    BY <2>7, PlacesFacts
  <2>9. Cardinality(Places(layers')) <= MinRuns(0)
    BY <1>1, <2>2, <2>5, <2>7, <2>8 DEF k, GetNumRuns
  <2>10. layers'[0] = more /\ \A l \in Layer : l # 0 => layers'[l] = layers[l]
    BY <1>1, <2>6
  <2>11. DOMAIN more = 1 .. Len(layers[0]) + k
    BY <2>5, LenProperties
  <2>12. DOMAIN layers[0] = 1 .. Len(layers[0])
    BY <1>1, LenProperties
  <2>13. ASSUME NEW n \in 1 .. Len(layers[0]) + k
         PROVE  \/ n \in 1 .. Len(layers[0]) /\ more[n] = layers[0][n]
                \/ ~WasCounted(more[n])
    <3>1. CASE n <= Len(layers[0])
      BY <1>1, <2>2, <2>5, <3>1
    <3>2. CASE ~(n <= Len(layers[0]))
      <4>1. n - Len(layers[0]) \in 1 .. k /\ more[n] = new[n - Len(layers[0])]
        BY <1>1, <2>2, <2>5, <3>2
      <4> QED BY <2>4, <4>1
    <3> QED BY <3>1, <3>2
  <2> QED BY <2>7, <2>9, <2>10, <2>11, <2>12, <2>13
<1> QED BY <1>2, <1>3 DEF Refill

(* ALEM_check looks at a run that exists. *)
LEMMA VisitedFacts ==
    ASSUME LocalType, Visiting
    PROVE  /\ layer \in Layer /\ layers[layer] \in Seq(EMAlg)
           /\ Len(layers[layer]) \in Nat
           /\ DOMAIN layers[layer] = 1 .. Len(layers[layer])
           /\ index \in 1 .. Len(layers[layer])
           /\ Visited \in EMAlg
<1>1. /\ layer \in Layer /\ index \in Nat /\ index <= Len(layers[layer])
      /\ layers \in [Layer -> Seq(EMAlg)]
  BY DEF LocalType, Visiting
<1>2. /\ layers[layer] \in Seq(EMAlg) /\ Len(layers[layer]) \in Nat
      /\ DOMAIN layers[layer] = 1 .. Len(layers[layer])
  BY <1>1, PlacesFacts
<1>3. index \in 1 .. Len(layers[layer])
  BY <1>1, <1>2 DEF Visiting
<1> QED BY <1>1, <1>2, <1>3, ElementOfSeq DEF Visited

(* One of the ways a layer's next one is changed before a run is put behind *)
(* it: not at all, if it has room, or by the erasure of one of its runs.    *)
MakesRoom(others) ==
    \/ others = Above
    \/ \E i \in 1 .. Len(Above) : others = RemoveAt(Above, i)

Erased == [layers EXCEPT ![layer] = RemoveAt(layers[layer], index)]

(* checkRuns either erases the run or moves it up, and does not change the  *)
(* other layers.                                                            *)
LEMMA CheckRunsFacts ==
    ASSUME LocalType, CheckRuns
    PROVE  \/ layers' = Erased
           \/ \E others \in Seq(EMAlg) :
                 /\ MakesRoom(others)
                 /\ layers' = [Erased EXCEPT ![layer + 1] = Append(others, Visited)]
                 /\ Len(Append(others, Visited)) <= Len(Above) + 1
<1> USE DEF CheckRuns
<1>1. layer \in Layer /\ layer < Top /\ layer + 1 \in Layer /\ layer + 1 # layer
  BY VisitedFacts, LayerFacts DEF AgedOut
<1>2. /\ Above \in Seq(EMAlg) /\ Len(Above) \in Nat /\ DOMAIN Above = 1 .. Len(Above)
      /\ Visited \in EMAlg /\ layers \in [Layer -> Seq(EMAlg)]
  BY <1>1, VisitedFacts, PlacesFacts DEF Above, LocalType
<1> DEFINE without == [layers EXCEPT ![layer] = RemoveAt(@, index)]
           behind(others) == [without EXCEPT ![layer + 1] = Append(others, Visited)]
<1>3. without = Erased
  BY DEF Erased
<1>4. CASE layers' = without
  BY <1>3, <1>4
<1> HIDE DEF without
<1>5. CASE layers' = behind(Above)
  <2>1. Len(Append(Above, Visited)) = Len(Above) + 1
    BY <1>2, AppendProperties
  <2>2. Len(Append(Above, Visited)) <= Len(Above) + 1
    BY <1>2, <2>1
  <2>3. MakesRoom(Above)
    BY DEF MakesRoom
  <2>4. layers' = [Erased EXCEPT ![layer + 1] = Append(Above, Visited)]
    BY <1>3, <1>5
  <2> QED BY <1>2, <2>2, <2>3, <2>4
<1>6. CASE Worse # {} /\ layers' = behind(RemoveAt(Above, Min(Worse)))
  <2>1. Worse \subseteq Nat
    BY <1>2 DEF Worse
  <2>2. Min(Worse) \in Worse
    BY <1>6, <2>1, LeastNumber DEF Min
  <2>3. Min(Worse) \in 1 .. Len(Above)
    BY <1>2, <2>2 DEF Worse
  <2> DEFINE i == Min(Worse)
             others == RemoveAt(Above, i)
  <2>4. i \in 1 .. Len(Above)
    BY <2>3
  <2> HIDE DEF i
  <2>5. others \in Seq(EMAlg) /\ Len(others) = Len(Above) - 1
    BY <1>2, <2>4, RemoveAtProperties
  <2>6. MakesRoom(others)
    BY <2>4 DEF MakesRoom
  <2>7. layers' = [Erased EXCEPT ![layer + 1] = Append(others, Visited)]
    BY <1>3, <1>6 DEF i
  <2> HIDE DEF others
  <2>8. Len(Append(others, Visited)) <= Len(Above) + 1
    BY <1>2, <2>5, AppendProperties
  <2> QED BY <2>5, <2>6, <2>7, <2>8
<1>7. layers' = without \/ layers' = behind(Above)
      \/ (Worse # {} /\ layers' = behind(RemoveAt(Above, Min(Worse))))
  BY DEF without
<1> QED BY <1>4, <1>5, <1>6, <1>7

(* ------------------------------------------------------------------------ *)

(* The counted runs of a layer are finitely many. *)
LEMMA CountedIsFinite ==
    ASSUME NEW s \in Seq(EMAlg)
    PROVE  IsFiniteSet(Counted(s)) /\ Cardinality(Counted(s)) \in Nat
<1>1. Len(s) \in Nat /\ DOMAIN s = 1 .. Len(s)
  BY LenProperties
<1>2. IsFiniteSet(1 .. Len(s))
  <2> DEFINE k == Len(s)
  <2>1. k \in Nat
    BY <1>1
  <2> HIDE DEF k
  <2>2. IsFiniteSet(1 .. k)
    BY <2>1, FS_Interval
  <2> QED BY <2>2 DEF k
<1>3. Counted(s) \subseteq 1 .. Len(s)
  BY <1>1 DEF Counted
<1>4. IsFiniteSet(Counted(s))
  BY <1>2, <1>3, FS_Subset
<1> QED BY <1>4, FS_CardinalityType

(* An erasure takes away at most runs that were counted.                    *)
LEMMA CountedErased ==
    ASSUME NEW s \in Seq(EMAlg), NEW i \in 1 .. Len(s)
    PROVE  Cardinality(Counted(RemoveAt(s, i))) <= Cardinality(Counted(s))
<1> DEFINE t == RemoveAt(s, i)
<1>1. PICK f : IsErasure(f, s, i)
  BY RemoveAtOrigin
<1>2. t \in Seq(EMAlg) /\ Len(t) = Len(s) - 1
  BY RemoveAtProperties
<1>3. DOMAIN t = 1 .. Len(s) - 1 /\ DOMAIN s = 1 .. Len(s)
  <2> HIDE DEF t
  <2> QED BY <1>2, LenProperties
<1>4. /\ \A n \in 1 .. Len(s) - 1 : f[n] \in 1 .. Len(s) /\ t[n] = s[f[n]]
      /\ \A m, n \in 1 .. Len(s) - 1 : f[m] = f[n] => m = n
  BY <1>1 DEF IsErasure
<1> HIDE DEF t
<1> DEFINE g == [n \in Counted(t) |-> f[n]]
<1>5. g \in Injection(Counted(t), Counted(s))
  <2>1. \A n \in Counted(t) : n \in 1 .. Len(s) - 1 /\ f[n] \in Counted(s)
    BY <1>3, <1>4 DEF Counted
  <2>2. g \in [Counted(t) -> Counted(s)]
    BY <2>1
  <2>3. \A m, n \in Counted(t) : g[m] = g[n] => m = n
    BY <1>4, <2>1
  <2> HIDE DEF g
  <2> QED BY <2>2, <2>3 DEF Injection, IsInjective
<1>6. IsFiniteSet(Counted(s))
  BY CountedIsFinite
<1>7. Cardinality(Counted(t)) <= Cardinality(Counted(s))
  <2> HIDE DEF g
  <2> QED BY <1>5, <1>6, FS_Injection
<1> QED BY <1>7 DEF t

(* An active run that is appended is not counted. *)
LEMMA CountedAppended ==
    ASSUME NEW s \in Seq(EMAlg), NEW em \in EMAlg, em.ALEM_active
    PROVE  Counted(Append(s, em)) = Counted(s)
<1> DEFINE t == Append(s, em)
<1>1. /\ t \in Seq(EMAlg) /\ Len(t) = Len(s) + 1
      /\ \A n \in 1 .. Len(s) : t[n] = s[n]
      /\ t[Len(s) + 1] = em
  BY AppendProperties
<1> HIDE DEF t
<1>2. Len(s) \in Nat /\ DOMAIN s = 1 .. Len(s) /\ DOMAIN t = 1 .. Len(s) + 1
  BY <1>1, LenProperties
<1>3. \A n \in 1 .. Len(s) + 1 : n \in 1 .. Len(s) \/ n = Len(s) + 1
  BY <1>2
<1>4. 1 .. Len(s) \subseteq 1 .. Len(s) + 1
  BY <1>2
<1>5. Counted(t) = Counted(s)
  BY <1>1, <1>2, <1>3, <1>4 DEF Counted
<1> QED BY <1>5 DEF t

(* The walk looks at runs that are active, unless they are counted.         *)
LEMMA VisitedIsActive ==
    ASSUME LocalInv, Visiting, layer # Top
    PROVE  Visited.ALEM_active
<1>1. /\ layer \in Layer /\ DOMAIN layers[layer] = 1 .. Len(layers[layer])
      /\ index \in 1 .. Len(layers[layer]) /\ Visited = layers[layer][index]
  BY VisitedFacts DEF LocalInv, Visited
<1>2. Visited.iters > 0
  BY <1>1 DEF LocalInv, WalkedAreIterated, Visiting
<1> QED BY <1>1, <1>2 DEF LocalInv, CountedAreConverged, WasCounted

(* Where the runs of a layer come from in a step of checkRuns.              *)
Passed(l) ==
    \A n \in DOMAIN layers'[l] :
        \/ \E m \in DOMAIN layers[l] : layers'[l][n] = layers[l][m]
        \/ l = layer + 1 /\ layers'[l][n] = Visited

(* What remains of a layer after an erasure was in the layer. *)
LEMMA ErasedComesFrom ==
    ASSUME NEW s \in Seq(EMAlg), NEW i \in 1 .. Len(s)
    PROVE  /\ RemoveAt(s, i) \in Seq(EMAlg)
           /\ Len(RemoveAt(s, i)) = Len(s) - 1
           /\ \A n \in DOMAIN RemoveAt(s, i) :
                 \E m \in DOMAIN s : RemoveAt(s, i)[n] = s[m]
<1> DEFINE t == RemoveAt(s, i)
<1>1. PICK f : IsErasure(f, s, i)
  BY RemoveAtOrigin
<1>2. t \in Seq(EMAlg) /\ Len(t) = Len(s) - 1
  BY RemoveAtProperties
<1>3. \A n \in 1 .. Len(s) - 1 : f[n] \in 1 .. Len(s) /\ t[n] = s[f[n]]
  BY <1>1 DEF IsErasure
<1> HIDE DEF t
<1>4. DOMAIN t = 1 .. Len(s) - 1 /\ DOMAIN s = 1 .. Len(s)
  BY <1>2, LenProperties
<1>5. \A n \in DOMAIN t : \E m \in DOMAIN s : t[n] = s[m]
  BY <1>3, <1>4
<1> QED BY <1>2, <1>5 DEF t

(* checkRuns leaves at most as many runs as there were.                     *)
LEMMA CheckRunsKeeps ==
    ASSUME LocalInv, CheckRuns
    PROVE  /\ layers' \in [Layer -> Seq(EMAlg)]
           /\ Len(layers'[layer]) = Len(layers[layer]) - 1
           /\ Cardinality(Places(layers')) <= MinRuns(0)
           /\ \A l \in Layer : Passed(l)
           /\ Cardinality(Counted(layers'[Top])) <= runsTerminated
<1>1. /\ LocalType /\ Visiting /\ layers \in [Layer -> Seq(EMAlg)]
      /\ layer < Top
  BY DEF LocalInv, LocalType, CheckRuns, AgedOut
<1>2. /\ layer \in Layer /\ layer + 1 \in Layer /\ layer + 1 # layer /\ layer # Top
      /\ Top \in Layer /\ MinRuns(0) \in Nat
  <2>1. layer \in Layer
    BY <1>1, VisitedFacts
  <2> QED BY <1>1, <2>1, LayerFacts
<1>3. /\ layers[layer] \in Seq(EMAlg) /\ index \in 1 .. Len(layers[layer])
      /\ Len(layers[layer]) \in Nat /\ Visited \in EMAlg
  BY <1>1, VisitedFacts
<1>4. /\ Above \in Seq(EMAlg) /\ Len(Above) \in Nat /\ DOMAIN Above = 1 .. Len(Above)
      /\ Above = layers[layer + 1]
  BY <1>1, <1>2, PlacesFacts DEF Above
<1>5. /\ RemoveAt(layers[layer], index) \in Seq(EMAlg)
      /\ Len(RemoveAt(layers[layer], index)) = Len(layers[layer]) - 1
      /\ \A n \in DOMAIN RemoveAt(layers[layer], index) :
            \E m \in DOMAIN layers[layer] : RemoveAt(layers[layer], index)[n] = layers[layer][m]
  BY <1>3, ErasedComesFrom
<1>6. /\ Erased \in [Layer -> Seq(EMAlg)]
      /\ Erased[layer] = RemoveAt(layers[layer], index)
      /\ \A l \in Layer : l # layer => Erased[l] = layers[l]
  BY <1>1, <1>2, <1>5 DEF Erased
<1>7. Cardinality(Places(Erased)) + Len(layers[layer]) =
         Cardinality(Places(layers)) + Len(Erased[layer])
  BY <1>1, <1>2, <1>6, PlacesReplaced
<1>8. /\ Cardinality(Places(layers)) \in Nat /\ Cardinality(Places(Erased)) \in Nat
      /\ Cardinality(Places(layers)) <= MinRuns(0)
  BY <1>1, <1>6, PlacesFacts DEF LocalInv, PopulationBounded
<1>9. Cardinality(Places(Erased)) = Cardinality(Places(layers)) - 1
  <2>1. Len(Erased[layer]) = Len(layers[layer]) - 1
    BY <1>5, <1>6
  <2> QED BY <1>3, <1>7, <1>8, <2>1
<1>10. /\ Cardinality(Counted(layers[Top])) <= runsTerminated
       /\ Cardinality(Counted(layers[Top])) \in Nat /\ runsTerminated \in Nat
  BY <1>1, <1>2, PlacesFacts, CountedIsFinite DEF LocalInv, NoneCountedTwice, LocalType
<1>11. Visited.ALEM_active
  BY <1>1, <1>2, VisitedIsActive
<1>12. CASE layers' = Erased
  <2>1. \A l \in Layer : Passed(l)
    BY <1>5, <1>6, <1>12 DEF Passed
  <2>2. Cardinality(Places(layers')) <= MinRuns(0)
    BY <1>2, <1>8, <1>9, <1>12
  <2>3. layers'[Top] = layers[Top]
    BY <1>2, <1>6, <1>12
  <2> QED BY <1>5, <1>6, <1>10, <1>12, <2>1, <2>2, <2>3
<1>13. ASSUME NEW others \in Seq(EMAlg),
              MakesRoom(others),
              layers' = [Erased EXCEPT ![layer + 1] = Append(others, Visited)],
              Len(Append(others, Visited)) <= Len(Above) + 1
       PROVE  /\ layers' \in [Layer -> Seq(EMAlg)]
              /\ Len(layers'[layer]) = Len(layers[layer]) - 1
              /\ Cardinality(Places(layers')) <= MinRuns(0)
              /\ \A l \in Layer : Passed(l)
              /\ Cardinality(Counted(layers'[Top])) <= runsTerminated
  <2> DEFINE top == Append(others, Visited)
  <2>1. /\ top \in Seq(EMAlg) /\ Len(top) \in Nat /\ DOMAIN top = 1 .. Len(others) + 1
        /\ \A n \in 1 .. Len(others) : top[n] = others[n]
        /\ top[Len(others) + 1] = Visited /\ Len(others) \in Nat
        /\ DOMAIN others = 1 .. Len(others)
    BY <1>3, AppendProperties, LenProperties
  <2>2. Len(top) <= Len(Above) + 1
    BY <1>13
  <2>3. Counted(top) = Counted(others)
    BY <1>3, <1>11, CountedAppended
  <2> HIDE DEF top
  <2>4. /\ layers' \in [Layer -> Seq(EMAlg)] /\ layers'[layer + 1] = top
        /\ \A l \in Layer : l # layer + 1 => layers'[l] = Erased[l]
    BY <1>2, <1>6, <1>13, <2>1 DEF top
  <2>5. Len(layers'[layer]) = Len(layers[layer]) - 1
    BY <1>2, <1>5, <1>6, <2>4
  <2>6. Cardinality(Places(layers')) <= MinRuns(0)
    <3>1. Cardinality(Places(layers')) + Len(Above) = Cardinality(Places(Erased)) + Len(top)
      <4>1. \A l \in Layer : l # layer + 1 => layers'[l] = Erased[l]
        BY <2>4
      <4>2. Len(layers'[layer + 1]) = Len(top) /\ Len(Erased[layer + 1]) = Len(Above)
        BY <1>2, <1>4, <1>6, <2>4
      <4>3. Cardinality(Places(layers')) + Len(Erased[layer + 1]) =
               Cardinality(Places(Erased)) + Len(layers'[layer + 1])
        BY <1>2, <1>6, <2>4, <4>1, PlacesReplaced
      <4> QED BY <4>2, <4>3
    <3>2. Cardinality(Places(layers')) \in Nat
      BY <2>4, PlacesFacts
    <3> QED BY <1>2, <1>4, <1>8, <1>9, <2>1, <2>2, <3>1, <3>2
  <2>7. /\ Cardinality(Counted(others)) <= Cardinality(Counted(Above))
        /\ Cardinality(Counted(others)) \in Nat /\ Cardinality(Counted(Above)) \in Nat
        /\ \A n \in DOMAIN others : \E m \in DOMAIN Above : others[n] = Above[m]
    <3>1. Cardinality(Counted(others)) \in Nat /\ Cardinality(Counted(Above)) \in Nat
      BY <1>4, CountedIsFinite
    <3>2. CASE others = Above
      BY <3>1, <3>2
    <3>3. ASSUME NEW i \in 1 .. Len(Above), others = RemoveAt(Above, i)
          PROVE  /\ Cardinality(Counted(others)) <= Cardinality(Counted(Above))
                 /\ \A n \in DOMAIN others : \E m \in DOMAIN Above : others[n] = Above[m]
      <4>1. Cardinality(Counted(others)) <= Cardinality(Counted(Above))
        BY <1>4, <3>3, CountedErased
      <4>2. \A n \in DOMAIN others : \E m \in DOMAIN Above : others[n] = Above[m]
        <5>1. \A n \in DOMAIN RemoveAt(Above, i) : \E m \in DOMAIN Above : RemoveAt(Above, i)[n] = Above[m]
          BY <1>4, ErasedComesFrom
        <5> QED BY ONLY <3>3, <5>1
      <4> QED BY <4>1, <4>2
    <3> QED BY <1>13, <3>1, <3>2, <3>3 DEF MakesRoom
  <2>8. Passed(layer + 1)
    <3> SUFFICES ASSUME NEW n \in DOMAIN top
                 PROVE  \/ \E m \in DOMAIN Above : top[n] = Above[m]
                        \/ top[n] = Visited
      BY <1>4, <2>4 DEF Passed
    <3>1. n \in DOMAIN others \/ n = Len(others) + 1
      BY <2>1
    <3> QED BY <2>1, <2>7, <3>1
  <2>9. ASSUME NEW l \in Layer PROVE Passed(l)
    <3>1. CASE l = layer + 1
      BY <2>8, <3>1
    <3>2. CASE l # layer + 1
      <4>1. layers'[l] = Erased[l]
        BY <2>4, <3>2
      <4>2. CASE l = layer
        BY <1>5, <1>6, <4>1, <4>2 DEF Passed
      <4>3. CASE l # layer
        BY <1>6, <4>1, <4>3 DEF Passed
      <4> QED BY <4>2, <4>3
    <3> QED BY <3>1, <3>2
  <2>10. Cardinality(Counted(layers'[Top])) <= runsTerminated
    <3>1. CASE Top = layer + 1
      BY <1>4, <1>10, <2>3, <2>4, <2>7, <3>1
    <3>2. CASE Top # layer + 1
      BY <1>2, <1>6, <1>10, <2>4, <3>2
    <3> QED BY <3>1, <3>2
  <2> QED BY <2>4, <2>5, <2>6, <2>9, <2>10
<1> QED BY <1>1, <1>12, <1>13, CheckRunsFacts

(* ------------------------------------------------------------------------ *)

(* Filling up layer 0 does not touch the top layer. *)
LEMMA RefillStep == LocalInv /\ Refill => LocalInv'
<1> SUFFICES ASSUME LocalInv, Refill PROVE LocalInv'
  OBVIOUS
<1> DEFINE Unharmed(n) == \/ n \in DOMAIN layers[0] /\ layers'[0][n] = layers[0][n]
                          \/ ~WasCounted(layers'[0][n])
<1>1. /\ LocalType /\ pc = "refill" /\ pc' = "iterate" /\ todo' = Places(layers')
      /\ layer' = layer /\ index' = index /\ runsTerminated' = runsTerminated
  BY DEF LocalInv, Refill
<1>2. /\ layers' \in [Layer -> Seq(EMAlg)]
      /\ Cardinality(Places(layers')) <= MinRuns(0)
      /\ \A l \in Layer : l # 0 => layers'[l] = layers[l]
      /\ \A n \in DOMAIN layers'[0] : Unharmed(n)
  BY <1>1, RefillFacts DEF LocalInv
<1>3. /\ \A l \in Layer : \A n \in DOMAIN layers'[l] : <<l, n>> \in Places(layers')
      /\ 0 \in Layer /\ Top \in Layer /\ Top # 0
  BY <1>2, PlacesFacts, LayerFacts
<1>4. LocalType'
  BY <1>1, <1>2 DEF LocalType
<1>5. CountedAreConverged'
  <2> SUFFICES ASSUME NEW l \in Layer, NEW n \in DOMAIN layers'[l], WasCounted(layers'[l][n])
               PROVE  l = Top /\ HasSatisfiedTermConditions(layers'[l][n])
    BY DEF CountedAreConverged
  <2>1. CASE l # 0
    BY <1>2, <2>1 DEF LocalInv, CountedAreConverged
  <2>2. CASE l = 0
    <3>1. n \in DOMAIN layers[0] /\ layers'[0][n] = layers[0][n]
      BY <1>2, <2>2
    <3> QED BY <1>3, <2>2, <3>1 DEF LocalInv, CountedAreConverged
  <2> QED BY <2>1, <2>2
<1>6. WalkedAreIterated'
  BY <1>1, <1>3 DEF WalkedAreIterated
<1>7. TopIsCounted'
  BY <1>1 DEF TopIsCounted
<1>8. NoneCountedTwice'
  BY <1>1, <1>2, <1>3 DEF LocalInv, NoneCountedTwice
<1>9. PopulationBounded'
  BY <1>2 DEF PopulationBounded
<1> QED BY <1>4, <1>5, <1>6, <1>7, <1>8, <1>9 DEF LocalInv

(* What a thread of the parallel loop does to the population. *)
LEMMA IterateFacts ==
    ASSUME LocalInv, NEW p \in todo, Iterate(p)
    PROVE  \E em \in EMAlg :
              /\ em \in Iterated(layers[p[1]][p[2]])
              /\ p[1] \in Layer /\ p[2] \in DOMAIN layers[p[1]] /\ p = <<p[1], p[2]>>
              /\ layers' \in [Layer -> Seq(EMAlg)]
              /\ \A l \in Layer : DOMAIN layers'[l] = DOMAIN layers[l]
              /\ layers'[p[1]][p[2]] = em
              /\ \A l \in Layer : \A n \in DOMAIN layers[l] :
                    <<l, n>> # p => layers'[l][n] = layers[l][n]
              /\ Places(layers') = Places(layers)
<1>1. layers \in [Layer -> Seq(EMAlg)] /\ p \in Places(layers)
  BY DEF LocalInv, LocalType, Iterate
<1>2. /\ p[1] \in Layer /\ p[2] \in DOMAIN layers[p[1]] /\ p = <<p[1], p[2]>>
      /\ layers[p[1]] \in Seq(EMAlg) /\ layers[p[1]][p[2]] \in EMAlg
      /\ Len(layers[p[1]]) \in Nat /\ DOMAIN layers[p[1]] = 1 .. Len(layers[p[1]])
  BY <1>1, PlacesFacts
<1>3. PICK em \in Iterated(layers[p[1]][p[2]]) :
         layers' = [layers EXCEPT ![p[1]][p[2]] = em]
  BY DEF Iterate
<1>4. em \in EMAlg
  BY <1>2, IteratedFacts
<1> DEFINE new == [layers[p[1]] EXCEPT ![p[2]] = em]
<1>5. new \in Seq(EMAlg) /\ DOMAIN new = DOMAIN layers[p[1]] /\ new[p[2]] = em
      /\ \A n \in DOMAIN layers[p[1]] : n # p[2] => new[n] = layers[p[1]][n]
  BY <1>2, <1>4, ExceptSeq
<1>6. layers' = [layers EXCEPT ![p[1]] = new]
  BY <1>3
<1> HIDE DEF new
<1>7. /\ layers' \in [Layer -> Seq(EMAlg)] /\ layers'[p[1]] = new
      /\ \A l \in Layer : l # p[1] => layers'[l] = layers[l]
  BY <1>1, <1>2, <1>5, <1>6
<1>8. \A l \in Layer : DOMAIN layers'[l] = DOMAIN layers[l]
  BY <1>5, <1>7
<1>9. ASSUME NEW l \in Layer, NEW n \in DOMAIN layers[l], <<l, n>> # p
      PROVE  layers'[l][n] = layers[l][n]
  <2>1. CASE l = p[1]
    <3>1. n # p[2]
      BY <1>2, <1>9, <2>1
    <3> QED BY <1>5, <1>7, <2>1, <3>1
  <2>2. CASE l # p[1]
    BY <1>7, <2>2
  <2> QED BY <2>1, <2>2
<1>10. Places(layers') = Places(layers)
  BY <1>8 DEF Places
<1> QED BY <1>2, <1>3, <1>4, <1>5, <1>7, <1>8, <1>9, <1>10

(* A thread of the parallel loop makes no run inactive. *)
LEMMA IterateStep == LocalInv /\ (\E p \in todo : Iterate(p)) => LocalInv'
<1> SUFFICES ASSUME LocalInv, NEW p \in todo, Iterate(p) PROVE LocalInv'
  OBVIOUS
<1>1. /\ LocalType /\ pc = "iterate" /\ pc' = pc /\ todo' = todo \ {p}
      /\ layer' = layer /\ index' = index /\ runsTerminated' = runsTerminated
  BY DEF LocalInv, Iterate
<1>2. PICK em \in EMAlg :
         /\ em \in Iterated(layers[p[1]][p[2]])
         /\ p[1] \in Layer /\ p[2] \in DOMAIN layers[p[1]] /\ p = <<p[1], p[2]>>
         /\ layers' \in [Layer -> Seq(EMAlg)]
         /\ \A l \in Layer : DOMAIN layers'[l] = DOMAIN layers[l]
         /\ layers'[p[1]][p[2]] = em
         /\ \A l \in Layer : \A n \in DOMAIN layers[l] :
               <<l, n>> # p => layers'[l][n] = layers[l][n]
         /\ Places(layers') = Places(layers)
  BY IterateFacts
<1> DEFINE old == layers[p[1]][p[2]]
<1>3. layers \in [Layer -> Seq(EMAlg)] /\ old \in EMAlg /\ Top \in Layer
  BY <1>1, <1>2, PlacesFacts, LayerFacts DEF LocalType
<1>4. /\ em.iters > 0
      /\ old.ALEM_active => em.ALEM_active
      /\ IF HasSatisfiedTermConditions(old)
         THEN em.ALEM_active = old.ALEM_active /\ HasSatisfiedTermConditions(em)
         ELSE em.ALEM_active
  BY <1>2, <1>3, IteratedFacts
<1>5. LocalType'
  BY <1>1, <1>2 DEF LocalType
<1>6. CountedAreConverged'
  <2> SUFFICES ASSUME NEW l \in Layer, NEW n \in DOMAIN layers'[l], WasCounted(layers'[l][n])
               PROVE  l = Top /\ HasSatisfiedTermConditions(layers'[l][n])
    BY DEF CountedAreConverged
  <2>1. n \in DOMAIN layers[l]
    BY <1>2
  <2>2. CASE <<l, n>> = p
    <3>1. l = p[1] /\ n = p[2] /\ layers'[l][n] = em
      BY <1>2, <2>2
    <3>2. ~em.ALEM_active
      BY <3>1 DEF WasCounted
    <3>3. HasSatisfiedTermConditions(old) /\ HasSatisfiedTermConditions(em) /\ ~old.ALEM_active
      BY <1>4, <3>2
    <3>4. WasCounted(old)
      BY <1>3, <3>3, ConvergedIsIterated DEF WasCounted
    <3> QED BY <2>1, <3>1, <3>3, <3>4 DEF LocalInv, CountedAreConverged
  <2>3. CASE <<l, n>> # p
    BY <1>2, <2>1, <2>3 DEF LocalInv, CountedAreConverged
  <2> QED BY <2>2, <2>3
<1>7. WalkedAreIterated'
  <2> SUFFICES ASSUME NEW l \in Layer, NEW n \in DOMAIN layers'[l], <<l, n>> \notin todo \ {p}
               PROVE  layers'[l][n].iters > 0
    BY <1>1 DEF WalkedAreIterated
  <2>1. n \in DOMAIN layers[l]
    BY <1>2
  <2>2. CASE <<l, n>> = p
    <3>1. l = p[1] /\ n = p[2]
      BY <1>2, <2>2
    <3> QED BY <1>2, <1>4, <3>1
  <2>3. CASE <<l, n>> # p
    <3>1. <<l, n>> \notin todo /\ layers'[l][n] = layers[l][n]
      BY <1>2, <2>1, <2>3
    <3> QED BY <1>1, <2>1, <3>1 DEF LocalInv, WalkedAreIterated
  <2> QED BY <2>2, <2>3
<1>8. TopIsCounted'
  BY <1>1 DEF TopIsCounted
<1>9. NoneCountedTwice'
  <2>1. Counted(layers'[Top]) \subseteq Counted(layers[Top])
    <3> SUFFICES ASSUME NEW n \in DOMAIN layers[Top], ~layers'[Top][n].ALEM_active
                 PROVE  ~layers[Top][n].ALEM_active
      BY <1>2, <1>3 DEF Counted
    <3>1. CASE <<Top, n>> = p
      <4>1. Top = p[1] /\ n = p[2]
        BY <1>2, <3>1
      <4> QED BY <1>2, <1>4, <4>1
    <3>2. CASE <<Top, n>> # p
      BY <1>2, <1>3, <3>2
    <3> QED BY <3>1, <3>2
  <2>2. layers[Top] \in Seq(EMAlg) /\ layers'[Top] \in Seq(EMAlg)
    BY <1>2, <1>3
  <2>3. /\ IsFiniteSet(Counted(layers[Top]))
        /\ Cardinality(Counted(layers[Top])) \in Nat
        /\ Cardinality(Counted(layers'[Top])) \in Nat
    BY <2>2, CountedIsFinite
  <2>4. Cardinality(Counted(layers'[Top])) <= Cardinality(Counted(layers[Top]))
    BY <2>1, <2>3, FS_Subset
  <2>5. Cardinality(Counted(layers'[Top])) <= runsTerminated
    BY <1>1, <2>3, <2>4 DEF LocalInv, NoneCountedTwice, LocalType
  <2> QED BY <1>1, <2>5 DEF NoneCountedTwice
<1>10. PopulationBounded'
  BY <1>2 DEF LocalInv, PopulationBounded
<1> QED BY <1>5, <1>6, <1>7, <1>8, <1>9, <1>10 DEF LocalInv

(* A run that is counted becomes the only new one of the counted ones. *)
LEMMA CountStep == LocalInv /\ CountTerminated => LocalInv'
<1> SUFFICES ASSUME LocalInv, CountTerminated PROVE LocalInv'
  OBVIOUS
<1>1. /\ LocalType /\ Visiting /\ layer = Top /\ pc = "check" /\ pc' = pc /\ todo' = todo
      /\ layer' = layer /\ index' = index - 1 /\ runsTerminated' = runsTerminated + 1
      /\ Visited.ALEM_active /\ HasSatisfiedTermConditions(Visited)
      /\ layers' = [layers EXCEPT ![layer][index].ALEM_active = FALSE]
      /\ layers \in [Layer -> Seq(EMAlg)] /\ runsTerminated \in Nat
  BY DEF LocalInv, LocalType, CountTerminated, Counts, Visiting
<1> DEFINE top == layers[Top]
           em == [Visited EXCEPT !.ALEM_active = FALSE]
           new == [top EXCEPT ![index] = em]
<1>2. /\ Top \in Layer /\ top \in Seq(EMAlg) /\ Len(top) \in Nat
      /\ DOMAIN top = 1 .. Len(top) /\ index \in 1 .. Len(top)
      /\ Visited = top[index] /\ Visited \in EMAlg
  BY <1>1, VisitedFacts DEF Visited
<1>3. /\ em \in EMAlg /\ em.iters = Visited.iters /\ ~em.ALEM_active
      /\ em.logZ = Visited.logZ /\ em.prevLogZ = Visited.prevLogZ
  BY <1>2 DEF EMAlg
<1>4. HasSatisfiedTermConditions(em)
  BY <1>1, <1>3 DEF HasSatisfiedTermConditions
<1>5. layers' = [layers EXCEPT ![Top] = new]
  BY <1>1 DEF Visited
<1> HIDE DEF em
<1>6. /\ new \in Seq(EMAlg) /\ DOMAIN new = DOMAIN top /\ Len(new) = Len(top)
      /\ new[index] = em
      /\ \A n \in DOMAIN top : n # index => new[n] = top[n]
  BY <1>2, <1>3, ExceptSeq
<1> HIDE DEF new
<1>7. /\ layers' \in [Layer -> Seq(EMAlg)] /\ layers'[Top] = new
      /\ \A l \in Layer : l # Top => layers'[l] = layers[l]
  BY <1>1, <1>2, <1>5, <1>6
<1>8. LocalType'
  <2>1. index' \in Nat /\ index' <= Len(layers'[layer'])
    BY <1>1, <1>2, <1>6, <1>7
  <2> QED BY <1>1, <1>2, <1>7, <2>1 DEF LocalType
<1>9. CountedAreConverged'
  <2> SUFFICES ASSUME NEW l \in Layer, NEW n \in DOMAIN layers'[l], WasCounted(layers'[l][n])
               PROVE  l = Top /\ HasSatisfiedTermConditions(layers'[l][n])
    BY DEF CountedAreConverged
  <2>1. CASE l # Top
    BY <1>7, <2>1 DEF LocalInv, CountedAreConverged
  <2>2. CASE l = Top /\ n = index
    BY <1>4, <1>6, <1>7, <2>2
  <2>3. CASE l = Top /\ n # index
    <3>1. n \in DOMAIN layers[Top] /\ layers'[l][n] = layers[Top][n]
      BY <1>6, <1>7, <2>3
    <3> QED BY <1>2, <2>3, <3>1 DEF LocalInv, CountedAreConverged
  <2> QED BY <2>1, <2>2, <2>3
<1>10. WalkedAreIterated'
  <2> SUFFICES ASSUME NEW l \in Layer, NEW n \in DOMAIN layers'[l]
               PROVE  layers'[l][n].iters > 0
    BY DEF WalkedAreIterated
  <2>1. \A k \in Layer : \A m \in DOMAIN layers[k] : layers[k][m].iters > 0
    BY <1>1 DEF LocalInv, WalkedAreIterated
  <2>2. CASE l # Top
    BY <1>7, <2>1, <2>2
  <2>3. CASE l = Top /\ n = index
    <3>1. layers'[l][n].iters = top[index].iters
      BY <1>2, <1>3, <1>6, <1>7, <2>3
    <3> QED BY <1>2, <2>1, <3>1
  <2>4. CASE l = Top /\ n # index
    BY <1>2, <1>6, <1>7, <2>1, <2>4
  <2> QED BY <2>2, <2>3, <2>4
<1>11. TopIsCounted'
  <2>1. CountedAbove(new, index - 1)
    <3> SUFFICES ASSUME NEW n \in DOMAIN top, n > index - 1, HasSatisfiedTermConditions(new[n])
                 PROVE  ~new[n].ALEM_active
      BY <1>6 DEF CountedAbove
    <3>1. CASE n = index
      BY <1>3, <1>6, <3>1
    <3>2. CASE n # index
      <4>1. n > index /\ new[n] = top[n]
        BY <1>2, <1>6, <3>2
      <4> QED BY <1>1, <4>1 DEF LocalInv, TopIsCounted, CountedAbove
    <3> QED BY <3>1, <3>2
  <2> QED BY <1>1, <1>7, <2>1 DEF TopIsCounted
<1>12. NoneCountedTwice'
  <2>1. Counted(new) = Counted(top) \cup {index}
    BY <1>2, <1>3, <1>6 DEF Counted
  <2>2. IsFiniteSet(Counted(top)) /\ Cardinality(Counted(top)) \in Nat
    BY <1>2, CountedIsFinite
  <2>3. Cardinality(Counted(top) \cup {index}) <= Cardinality(Counted(top)) + 1
    <3>1. Cardinality(Counted(top) \cup {index}) =
             IF index \in Counted(top) THEN Cardinality(Counted(top)) ELSE Cardinality(Counted(top)) + 1
      BY <2>2, FS_AddElement
    <3> QED BY <2>2, <3>1
  <2>4. Cardinality(Counted(top)) <= runsTerminated
    BY DEF LocalInv, NoneCountedTwice
  <2>5. Cardinality(Counted(new)) \in Nat
    BY <1>6, CountedIsFinite
  <2> HIDE DEF top
  <2>6. Cardinality(Counted(new)) <= runsTerminated + 1
    BY <1>1, <2>1, <2>2, <2>3, <2>4, <2>5
  <2> QED BY <1>1, <1>7, <2>6 DEF NoneCountedTwice
<1>13. PopulationBounded'
  <2>1. \A l \in Layer : DOMAIN layers'[l] = DOMAIN layers[l]
    BY <1>6, <1>7
  <2>2. Places(layers') = Places(layers)
    BY <2>1 DEF Places
  <2> QED BY <2>2 DEF LocalInv, PopulationBounded
<1> QED BY <1>8, <1>9, <1>10, <1>11, <1>12, <1>13 DEF LocalInv

(* checkRuns moves active runs only. *)
LEMMA CheckRunsStep == LocalInv /\ CheckRuns => LocalInv'
<1> SUFFICES ASSUME LocalInv, CheckRuns PROVE LocalInv'
  OBVIOUS
<1>1. /\ LocalType /\ Visiting /\ pc = "check" /\ pc' = pc /\ todo' = todo
      /\ layer' = layer /\ index' = index - 1 /\ runsTerminated' = runsTerminated
      /\ layer < Top
  BY DEF LocalInv, CheckRuns, Visiting, AgedOut
<1>2. /\ layer \in Layer /\ index \in 1 .. Len(layers[layer]) /\ Len(layers[layer]) \in Nat
      /\ DOMAIN layers[layer] = 1 .. Len(layers[layer]) /\ layer # Top
      /\ Visited = layers[layer][index]
  BY <1>1, VisitedFacts, LayerFacts DEF Visited
<1>3. /\ layers' \in [Layer -> Seq(EMAlg)]
      /\ Len(layers'[layer]) = Len(layers[layer]) - 1
      /\ Cardinality(Places(layers')) <= MinRuns(0)
      /\ \A l \in Layer : Passed(l)
      /\ Cardinality(Counted(layers'[Top])) <= runsTerminated
  BY CheckRunsKeeps
<1>4. Visited.ALEM_active /\ Visited.iters > 0
  <2>1. Visited.iters > 0
    BY <1>1, <1>2 DEF LocalInv, WalkedAreIterated
  <2> QED BY <1>1, <1>2, <2>1, VisitedIsActive
<1>5. ASSUME NEW l \in Layer, NEW n \in DOMAIN layers'[l]
      PROVE  \/ \E m \in DOMAIN layers[l] : layers'[l][n] = layers[l][m]
             \/ layers'[l][n] = Visited
  BY <1>3 DEF Passed
<1>6. LocalType'
  <2>1. index' \in Nat /\ index' <= Len(layers'[layer'])
    BY <1>1, <1>2, <1>3
  <2> QED BY <1>1, <1>2, <1>3, <2>1 DEF LocalType
<1>7. CountedAreConverged'
  <2> SUFFICES ASSUME NEW l \in Layer, NEW n \in DOMAIN layers'[l], WasCounted(layers'[l][n])
               PROVE  l = Top /\ HasSatisfiedTermConditions(layers'[l][n])
    BY DEF CountedAreConverged
  <2>1. layers'[l][n] # Visited
    BY <1>4 DEF WasCounted
  <2> QED BY <1>5, <2>1 DEF LocalInv, CountedAreConverged
<1>8. WalkedAreIterated'
  <2> SUFFICES ASSUME NEW l \in Layer, NEW n \in DOMAIN layers'[l]
               PROVE  layers'[l][n].iters > 0
    BY DEF WalkedAreIterated
  <2> QED BY <1>1, <1>4, <1>5 DEF LocalInv, WalkedAreIterated
<1>9. TopIsCounted'
  BY <1>1, <1>2 DEF TopIsCounted
<1>10. NoneCountedTwice' /\ PopulationBounded'
  BY <1>1, <1>3 DEF NoneCountedTwice, PopulationBounded
<1> QED BY <1>6, <1>7, <1>8, <1>9, <1>10 DEF LocalInv

(* The steps that leave the population alone. *)
LEMMA OtherSteps ==
    ASSUME LocalInv, StartWalk \/ Keep \/ NextLayer \/ EndOfWalk \/ UNCHANGED localVars
    PROVE  LocalInv'
<1>1. /\ LocalType /\ layers' = layers /\ todo' = todo /\ runsTerminated' = runsTerminated
      /\ layers \in [Layer -> Seq(EMAlg)]
      /\ pc' = "iterate" => pc = "iterate"
  BY DEF LocalInv, LocalType, StartWalk, Keep, NextLayer, EndOfWalk, localVars
<1>2. PopulationBounded' /\ NoneCountedTwice' /\ CountedAreConverged'
  BY <1>1 DEF LocalInv, PopulationBounded, NoneCountedTwice, CountedAreConverged
<1>3. \A l \in Layer : Len(layers[l]) \in Nat /\ DOMAIN layers[l] = 1 .. Len(layers[l])
  BY <1>1, PlacesFacts
<1>4. 0 \in Layer /\ Top \in Layer /\ 0 # Top /\ Layer \subseteq Nat
      /\ \A l \in Layer : l < Top => l + 1 \in Layer /\ l + 1 # l
  BY LayerFacts
<1>5. CASE StartWalk
  <2>1. /\ pc = "iterate" /\ todo = {} /\ pc' = "check"
        /\ layer' = 0 /\ index' = Len(layers[0])
    BY <1>5 DEF StartWalk
  <2>2. LocalType'
    BY <1>1, <1>3, <1>4, <2>1 DEF LocalType
  <2>3. WalkedAreIterated'
    BY <1>1, <2>1 DEF LocalInv, WalkedAreIterated
  <2>4. TopIsCounted'
    BY <1>4, <2>1 DEF TopIsCounted
  <2> QED BY <1>2, <2>2, <2>3, <2>4 DEF LocalInv
<1>6. CASE Keep
  <2>1. /\ pc = "check" /\ pc' = pc /\ layer' = layer /\ index' = index - 1
        /\ index \in 1 .. Len(layers[layer]) /\ layer \in Layer
        /\ Visited = layers[layer][index] /\ Len(layers[layer]) \in Nat
    BY <1>1, <1>6, VisitedFacts DEF Keep, Visiting, Visited
  <2>2. LocalType'
    BY <1>1, <2>1 DEF LocalType
  <2>3. WalkedAreIterated'
    BY <1>1, <2>1 DEF LocalInv, WalkedAreIterated
  <2>4. TopIsCounted'
    <3> SUFFICES ASSUME layer = Top PROVE CountedAbove(layers[Top], index - 1)
      BY <1>1, <2>1 DEF TopIsCounted
    <3>1. CountedAbove(layers[Top], index)
      BY <2>1 DEF LocalInv, TopIsCounted
    <3>2. HasSatisfiedTermConditions(layers[Top][index]) => ~layers[Top][index].ALEM_active
      BY <1>6, <2>1 DEF Keep, Counts
    <3>3. \A n \in DOMAIN layers[Top] : n > index - 1 => n > index \/ n = index
      BY <1>3, <1>4, <2>1
    <3> QED BY <3>1, <3>2, <3>3 DEF CountedAbove
  <2> QED BY <1>2, <2>2, <2>3, <2>4 DEF LocalInv
<1>7. CASE NextLayer
  <2>1. /\ pc = "check" /\ pc' = pc /\ layer' = layer + 1 /\ layer < Top /\ layer \in Layer
        /\ index' = Len(layers[layer + 1]) /\ layer + 1 \in Layer
    BY <1>1, <1>4, <1>7 DEF NextLayer, LocalType
  <2>2. LocalType'
    BY <1>1, <1>3, <2>1 DEF LocalType
  <2>3. WalkedAreIterated'
    BY <1>1, <2>1 DEF LocalInv, WalkedAreIterated
  <2>4. TopIsCounted'
    <3>1. layer + 1 = Top => \A n \in DOMAIN layers[Top] : ~(n > index')
      BY <1>3, <1>4, <2>1
    <3> QED BY <1>1, <2>1, <3>1 DEF TopIsCounted, CountedAbove
  <2> QED BY <1>2, <2>2, <2>3, <2>4 DEF LocalInv
<1>8. CASE EndOfWalk
  <2>1. /\ pc = "check" /\ layer = Top /\ index = 0 /\ layer' = layer /\ index' = index
        /\ pc' \in {"refill", "done"}
    BY <1>8 DEF EndOfWalk
  <2>2. LocalType'
    BY <1>1, <2>1 DEF LocalType
  <2>3. WalkedAreIterated'
    BY <2>1 DEF WalkedAreIterated
  <2>4. TopIsCounted'
    BY <1>1, <2>1 DEF LocalInv, TopIsCounted
  <2> QED BY <1>2, <2>2, <2>3, <2>4 DEF LocalInv
<1>9. CASE UNCHANGED localVars
  <2>1. LocalType' /\ WalkedAreIterated' /\ TopIsCounted'
    BY <1>9 DEF localVars, LocalInv, LocalType, WalkedAreIterated, TopIsCounted
  <2> QED BY <1>2, <2>1 DEF LocalInv
<1> QED BY <1>5, <1>6, <1>7, <1>8, <1>9

(* ------------------------------------------------------------------------ *)

(* The first population is the runs of layer 0, none of them iterated. *)
LEMMA LocalInitially == LocalInit => LocalInv
<1> SUFFICES ASSUME LocalInit PROVE LocalInv
  OBVIOUS
<1> DEFINE k == MinRuns(0)
<1>1. PICK fg \in [1 .. MinRuns(0) -> Params] :
         layers = [l \in Layer |->
                     IF l = 0 THEN [n \in 1 .. MinRuns(0) |-> InitEMAlg(fg[n])] ELSE << >>]
  BY DEF LocalInit
<1> DEFINE new == [n \in 1 .. k |-> InitEMAlg(fg[n])]
           none == [l \in Layer |-> << >>]
<1>2. /\ pc = "refill" /\ todo = {} /\ layer = 0 /\ index = 0 /\ runsTerminated = 0
      /\ 0 \in Layer /\ Top \in Layer /\ 0 # Top /\ k \in Nat
  BY LayerFacts DEF LocalInit
<1>3. \A n \in 1 .. k : InitEMAlg(fg[n]) \in EMAlg /\ ~WasCounted(InitEMAlg(fg[n]))
  BY NewRunFacts
<1> HIDE DEF k
<1>4. /\ new \in Seq(EMAlg) /\ Len(new) = k /\ DOMAIN new = 1 .. k
      /\ \A n \in 1 .. k : ~WasCounted(new[n])
  <2>1. new \in [1 .. k -> EMAlg]
    BY <1>3
  <2>2. new \in Seq(EMAlg)
    BY <1>2, <2>1, SeqDef
  <2>3. DOMAIN new = 1 .. k
    OBVIOUS
  <2>4. Len(new) = k
    BY <1>2, <2>2, <2>3, LenProperties
  <2> QED BY <1>3, <2>2, <2>3, <2>4
<1>5. layers = [l \in Layer |-> IF l = 0 THEN new ELSE << >>]
  BY <1>1 DEF k
<1> HIDE DEF new
<1>6. << >> \in Seq(EMAlg) /\ Len(<< >>) = 0 /\ DOMAIN << >> = {}
  OBVIOUS
<1>7. /\ layers \in [Layer -> Seq(EMAlg)] /\ layers[0] = new
      /\ \A l \in Layer : l # 0 => layers[l] = << >>
  BY <1>2, <1>4, <1>5, <1>6
<1>8. LocalType
  BY <1>2, <1>7 DEF LocalType
<1>9. ASSUME NEW l \in Layer, NEW n \in DOMAIN layers[l]
      PROVE  ~WasCounted(layers[l][n])
  BY <1>4, <1>6, <1>7
<1>10. CountedAreConverged /\ WalkedAreIterated /\ TopIsCounted
  BY <1>2, <1>6, <1>7, <1>9 DEF CountedAreConverged, WalkedAreIterated, TopIsCounted, CountedAbove
<1>11. NoneCountedTwice
  <2>1. Counted(layers[Top]) = {}
    BY <1>2, <1>6, <1>7 DEF Counted
  <2>2. Cardinality(Counted(layers[Top])) = 0
    BY <2>1, FS_EmptySet
  <2> QED BY <1>2, <2>2 DEF NoneCountedTwice
<1>12. PopulationBounded
  <2>1. none \in [Layer -> Seq(EMAlg)] /\ \A l \in Layer : none[l] = << >>
    BY <1>6
  <2> HIDE DEF none
  <2>2. Places(none) = {}
    BY <1>6, <2>1 DEF Places
  <2>3. Cardinality(Places(none)) = 0
    BY <2>2, FS_EmptySet
  <2>4. Cardinality(Places(layers)) + Len(none[0]) = Cardinality(Places(none)) + Len(layers[0])
    BY <1>2, <1>7, <2>1, PlacesReplaced
  <2>5. Len(none[0]) = 0 /\ Len(layers[0]) = k
    BY <1>2, <1>4, <1>6, <1>7, <2>1
  <2>6. Cardinality(Places(layers)) \in Nat
    BY <1>7, PlacesFacts
  <2>7. Cardinality(Places(layers)) = k
    BY <1>2, <2>3, <2>4, <2>5, <2>6
  <2> QED BY <1>2, <2>7 DEF PopulationBounded, k
<1> QED BY <1>8, <1>10, <1>11, <1>12 DEF LocalInv

(* Every step keeps the invariant. *)
LEMMA LocalStep == LocalInv /\ [LocalNext]_localVars => LocalInv'
  BY RefillStep, IterateStep, CountStep, CheckRunsStep, OtherSteps DEF LocalNext

(* The invariant holds of the program of alem.cpp.                          *)
THEOREM LocalInvHolds == LocalSpec => []LocalInv
  BY LocalInitially, LocalStep, PTL DEF LocalSpec

(* The walk counts a run when it has newly converged, and no run twice.     *)
LEMMA CountedOnceFollows == LocalInv => CountedOnce
<1> SUFFICES ASSUME LocalInv PROVE CountedOnce
  OBVIOUS
<1>1. pc = "refill" => \A n \in DOMAIN layers[Top] :
         HasSatisfiedTermConditions(layers[Top][n]) => ~layers[Top][n].ALEM_active
  <2> SUFFICES ASSUME pc = "refill", NEW n \in DOMAIN layers[Top],
                      HasSatisfiedTermConditions(layers[Top][n])
               PROVE  ~layers[Top][n].ALEM_active
    OBVIOUS
  <2>1. layers[Top] \in Seq(EMAlg)
    BY LayerFacts DEF LocalInv, LocalType
  <2>2. n > 0
    BY <2>1, LenProperties
  <2> QED BY <2>2 DEF LocalInv, TopIsCounted, CountedAbove
<1>2. Counted(layers[Top]) = {n \in DOMAIN layers[Top] : ~layers[Top][n].ALEM_active}
  BY DEF Counted
<1>3. Cardinality(Counted(layers[Top])) <= runsTerminated
  BY DEF LocalInv, NoneCountedTwice
<1> QED BY <1>1, <1>2, <1>3 DEF CountedOnce

(* What no step does to a counted run.                                      *)
StaysCounted ==
    \A n \in DOMAIN layers[Top] :
        pc = "iterate" /\ layers[Top][n].iters > 0 /\ ~layers[Top][n].ALEM_active
            => ~layers'[Top][n].ALEM_active

(* A thread leaves a counted run inactive, since the run has converged.     *)
LEMMA CountedForever == LocalInv /\ [LocalNext]_localVars => [StaysCounted]_localVars
<1> SUFFICES ASSUME LocalInv, LocalNext PROVE StaysCounted
  OBVIOUS
<1> SUFFICES ASSUME NEW n \in DOMAIN layers[Top], pc = "iterate",
                    layers[Top][n].iters > 0, ~layers[Top][n].ALEM_active
             PROVE  ~layers'[Top][n].ALEM_active
  BY DEF StaysCounted
<1>1. CASE layers' = layers
  BY <1>1
<1>2. ASSUME NEW p \in todo, Iterate(p) PROVE ~layers'[Top][n].ALEM_active
  <2>1. Top \in Layer
    BY LayerFacts
  <2>2. PICK em \in EMAlg :
           /\ em \in Iterated(layers[p[1]][p[2]])
           /\ p[1] \in Layer /\ p[2] \in DOMAIN layers[p[1]] /\ p = <<p[1], p[2]>>
           /\ layers'[p[1]][p[2]] = em
           /\ \A l \in Layer : \A m \in DOMAIN layers[l] :
                 <<l, m>> # p => layers'[l][m] = layers[l][m]
    BY <1>2, IterateFacts
  <2>3. CASE <<Top, n>> = p
    <3>1. Top = p[1] /\ n = p[2] /\ layers'[Top][n] = em /\ em \in Iterated(layers[Top][n])
      BY <2>2, <2>3
    <3>2. HasSatisfiedTermConditions(layers[Top][n])
      BY <2>1 DEF LocalInv, CountedAreConverged, WasCounted
    <3>3. layers[Top][n] \in EMAlg
      BY <2>1, PlacesFacts DEF LocalInv, LocalType
    <3> QED BY <3>1, <3>2, <3>3, IteratedFacts
  <2>4. CASE <<Top, n>> # p
    BY <2>1, <2>2, <2>4
  <2> QED BY <2>3, <2>4
<1> QED BY <1>1, <1>2 DEF LocalNext, Refill, StartWalk, CountTerminated, CheckRuns, Keep,
                          NextLayer, EndOfWalk, Visiting

(* alem.cpp counts every converged run of the top layer once and for good,  *)
(* and never holds more runs than layer 0 has room for.                     *)
THEOREM RunsAreCountedForGood == LocalSpec => CountedForGood
<1>1. LocalInv => PopulationBounded
  BY DEF LocalInv
<1>2. LocalSpec => [][StaysCounted]_localVars
  BY LocalInvHolds, CountedForever, PTL DEF LocalSpec
<1>3. CountIsFinal <=> [][StaysCounted]_localVars
  BY DEF CountIsFinal, StaysCounted
<1> QED BY <1>1, <1>2, <1>3, LocalInvHolds, CountedOnceFollows, PTL DEF CountedForGood
=============================================================================
