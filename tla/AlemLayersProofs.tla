-------------------------- MODULE AlemLayersProofs --------------------------
EXTENDS AlemLayers, Enumerations, WellFoundedInduction

(* Layer 0 and the top layer differ, and every layer has a size. *)
LEMMA LayerFacts ==
    /\ Top \in Layer /\ 0 \in Layer /\ 0 # Top
    /\ Layer \subseteq Nat /\ Top \in Nat
    /\ \A l \in Layer : MinRuns(l) \in Nat \ {0}
    /\ \A l \in Layer : l < Top => l + 1 \in Layer /\ l + 1 # 0
    /\ \A l \in Layer : l # Top => l < Top
  BY AlemAssumption DEF Layer, Top, MinRuns

(* The run that ALEM_check looks at exists. *)
LEMMA Visited ==
    ASSUME TypeOK, Visiting
    PROVE  /\ layers[layer] \in Seq(EMdata)
           /\ index \in 1 .. Len(layers[layer])
           /\ DOMAIN layers[layer] = 1 .. Len(layers[layer])
           /\ em \in EMdata
<1>1. layers[layer] \in Seq(EMdata) /\ index \in Nat /\ index <= Len(layers[layer])
  BY DEF TypeOK, Visiting
<1>2. index \in 1 .. Len(layers[layer])
  BY <1>1, LenProperties DEF Visiting
<1>3. QED
  BY <1>1, <1>2, ElementOfSeq, LenProperties DEF em

(* What a move changes: the two layers it is between, and nothing else. *)
LEMMA MoveUp ==
    ASSUME TypeOK, Visiting, AgedOut,
           NEW others \in Seq(EMdata), MoveUpBehind(others)
    PROVE  /\ layers' \in [Layer -> Seq(EMdata)]
           /\ layer + 1 \in Layer /\ layer + 1 # layer
           /\ [em EXCEPT !.ALEM_layer = layer + 1] \in EMdata
           /\ layers'[layer] = RemoveAt(layers[layer], index)
           /\ layers'[layer + 1] = Append(others, [em EXCEPT !.ALEM_layer = layer + 1])
           /\ \A l \in Layer \ {layer, layer + 1} : layers'[l] = layers[l]
<1> DEFINE moved == [em EXCEPT !.ALEM_layer = layer + 1]
<1>1. layer \in Layer /\ layer + 1 \in Layer /\ layer + 1 # layer /\ layer + 1 \in Nat
  BY LayerFacts DEF TypeOK, AgedOut
<1>2. moved \in EMdata
  BY Visited, <1>1 DEF EMdata
<1>3. RemoveAt(layers[layer], index) \in Seq(EMdata)
  BY Visited, RemoveAtProperties
<1>4. Append(others, moved) \in Seq(EMdata)
  BY <1>2, AppendProperties
<1> HIDE DEF moved
<1>5. layers' = [layers EXCEPT ![layer] = RemoveAt(@, index), ![layer + 1] = Append(others, moved)]
  BY DEF MoveUpBehind, moved
<1>6. layers \in [Layer -> Seq(EMdata)]
  BY DEF TypeOK
<1>7. /\ layers' \in [Layer -> Seq(EMdata)]
      /\ layers'[layer] = RemoveAt(layers[layer], index)
      /\ layers'[layer + 1] = Append(others, moved)
      /\ \A l \in Layer \ {layer, layer + 1} : layers'[l] = layers[l]
  BY <1>1, <1>3, <1>4, <1>5, <1>6
<1>8. QED
  BY <1>1, <1>2, <1>7 DEF moved

(* ------------------------------------------------------------------------ *)

(* A finite, nonempty set of integers has a maximum: otherwise take a       *)
(* minimal counterexample and remove one element from it.                   *)
LEMMA MaxOfFinite ==
    ASSUME NEW S, S \subseteq Int, IsFiniteSet(S), S # {}
    PROVE  Max(S) \in S /\ \A y \in S : Max(S) >= y
<1> DEFINE HasMax(U) == \E x \in U : \A y \in U : x >= y
           Bad == {U \in FiniteSubsetsOf(Int) : U # {} /\ ~HasMax(U)}
<1>1. Bad = {}
  <2> SUFFICES ASSUME Bad # {} PROVE FALSE
    OBVIOUS
  <2>1. PICK U \in Bad : \A V \in Bad : ~(<<V, U>> \in StrictSubsetOrdering(Int))
    <3> HIDE DEF Bad
    <3>1. Bad \subseteq FiniteSubsetsOf(Int)
      BY DEF Bad
    <3> QED BY <3>1, FS_StrictSubsetOrderingWellFounded, WFMin
  <2>2. U \subseteq Int /\ IsFiniteSet(U) /\ U # {} /\ ~HasMax(U)
    BY <2>1 DEF FiniteSubsetsOf
  <2>3. PICK x \in U : TRUE
    BY <2>2
  <2> DEFINE V == U \ {x}
  <2>4. IsFiniteSet(V) /\ V \subseteq Int
    BY <2>2, FS_RemoveElement
  <2>5. CASE V = {}
    BY <2>2, <2>3, <2>5
  <2>6. CASE V # {}
    <3>1. <<V, U>> \in StrictSubsetOrdering(Int)
      BY <2>2, <2>3, <2>4 DEF StrictSubsetOrdering
    <3>2. HasMax(V)
      BY <2>1, <2>4, <2>6, <3>1 DEF FiniteSubsetsOf
    <3>3. PICK m \in V : \A y \in V : m >= y
      BY <3>2
    <3>4. CASE x >= m
      <4>1. \A y \in U : x >= y
        BY <2>2, <2>3, <3>3, <3>4
      <4> QED BY <4>1, <2>2, <2>3
    <3>5. CASE m >= x
      <4>1. \A y \in U : m >= y
        BY <2>2, <2>3, <3>3, <3>5
      <4> QED BY <4>1, <2>2, <3>3
    <3> QED BY <2>2, <2>3, <3>3, <3>4, <3>5
  <2> QED BY <2>5, <2>6
<1>2. HasMax(S)
  BY <1>1 DEF FiniteSubsetsOf
<1> QED BY <1>2 DEF Max

(* What the places of a population are, and that there are finitely many. *)
LEMMA PlacesFacts ==
    ASSUME NEW ls \in [Layer -> Seq(EMdata)]
    PROVE  /\ IsFiniteSet(Places(ls))
           /\ \A p \in Places(ls) :
                 p[1] \in Layer /\ p[2] \in 1 .. Len(ls[p[1]]) /\ p = <<p[1], p[2]>>
           /\ \A l \in Layer : \A n \in 1 .. Len(ls[l]) : <<l, n>> \in Places(ls)
           /\ \A p \in Places(ls) : ls[p[1]][p[2]] \in EMdata
<1>1. IsFiniteSet(Layer)
  BY FS_Interval, AlemAssumption DEF Layer
<1>2. Places(ls) = Entries(ls)
  BY DEF Places, Entries
<1> QED BY <1>1, <1>2, EntriesFacts

(* The unconverged runs of a population can be counted. *)
LEMMA CountFacts ==
    ASSUME NEW ls \in [Layer -> Seq(EMdata)]
    PROVE  /\ GetNumRuns(ls) \in Nat
           /\ GetMaxID(ls) \in Int /\ GetMaxID(ls) >= -1
           /\ \A p \in Places(ls) : GetMaxID(ls) >= ls[p[1]][p[2]].bnID
<1>1. GetNumRuns(ls) \in Nat
  <2> DEFINE C == {p \in Places(ls) : ~IsConverged(ls[p[1]][p[2]])}
  <2>1. IsFiniteSet(C)
    <3>1. C \subseteq Places(ls) /\ IsFiniteSet(Places(ls))
      BY PlacesFacts
    <3> HIDE DEF C
    <3> QED BY <3>1, FS_Subset
  <2>2. Cardinality(C) \in Nat
    <3> HIDE DEF C
    <3> QED BY <2>1, FS_CardinalityType
  <2> QED BY <2>2 DEF GetNumRuns
<1> DEFINE Ids == {ls[p[1]][p[2]].bnID : p \in Places(ls)}
           f == [p \in Places(ls) |-> ls[p[1]][p[2]].bnID]
<1>2. IsFiniteSet(Ids \cup {-1})
  <2>1. f \in Surjection(Places(ls), Ids)
    BY DEF Surjection
  <2>2. IsFiniteSet(Ids)
    <3> HIDE DEF f, Ids
    <3> QED BY <2>1, PlacesFacts, FS_Surjection
  <2> HIDE DEF Ids
  <2> QED BY <2>2, FS_AddElement
<1>3. Ids \cup {-1} \subseteq Int
  <2>1. \A r \in EMdata : r.bnID \in Int
    BY DEF EMdata
  <2>2. \A p \in Places(ls) : ls[p[1]][p[2]].bnID \in Int
    BY <2>1, PlacesFacts
  <2> QED BY <2>2
<1>4. GetMaxID(ls) = Max(Ids \cup {-1})
  BY DEF GetMaxID
<1>5. /\ GetMaxID(ls) \in Ids \cup {-1}
      /\ \A y \in Ids \cup {-1} : GetMaxID(ls) >= y
  <2> HIDE DEF Ids
  <2> QED BY <1>2, <1>3, <1>4, MaxOfFinite
<1> QED BY <1>1, <1>3, <1>5

(* What a block of new runs looks like. *)
LEMMA FreshFacts ==
    ASSUME NEW k \in Nat, NEW id \in Nat, NEW fg \in [1 .. k -> Params],
           NEW unset \in Garbage
    PROVE  /\ Fresh(k, id, fg, unset) \in Seq(EMdata)
           /\ Len(Fresh(k, id, fg, unset)) = k
           /\ \A n \in 1 .. k : /\ Fresh(k, id, fg, unset)[n].bnID = id + n - 1
                                 /\ Fresh(k, id, fg, unset)[n].ALEM_layer = 0
                                 /\ Fresh(k, id, fg, unset)[n].alemItersActive = 0
                                 /\ Fresh(k, id, fg, unset)[n].iter = 0
                                 /\ Fresh(k, id, fg, unset)[n].likelihood = 0
<1>1. unset \in Int
  BY EMDataAssumption
<1>2. \A n \in 1 .. k : NewRun(id + n - 1, fg[n], 0, unset) \in EMdata
  BY <1>1 DEF NewRun, EMdata
<1>3. Fresh(k, id, fg, unset) \in [1 .. k -> EMdata]
  BY <1>2 DEF Fresh
<1>4. Fresh(k, id, fg, unset) \in Seq(EMdata)
  BY <1>3, SeqDef
<1>5. Len(Fresh(k, id, fg, unset)) = k
  BY <1>3, <1>4, LenProperties
<1>6. \A n \in 1 .. k : /\ Fresh(k, id, fg, unset)[n].bnID = id + n - 1
                        /\ Fresh(k, id, fg, unset)[n].ALEM_layer = 0
                        /\ Fresh(k, id, fg, unset)[n].alemItersActive = 0
                        /\ Fresh(k, id, fg, unset)[n].iter = 0
                        /\ Fresh(k, id, fg, unset)[n].likelihood = 0
  BY DEF Fresh, NewRun
<1> QED BY <1>4, <1>5, <1>6

(* Filling up appends to layer 0 and changes no other layer. *)
LEMMA RefillFacts ==
    ASSUME TypeOK, Refill
    PROVE  \/ layers' = layers
           \/ \E new \in Seq(EMdata) :
                 /\ layers' = [layers EXCEPT ![0] = @ \o new]
                 /\ layers' \in [Layer -> Seq(EMdata)]
                 /\ \A n \in 1 .. Len(new) :
                       /\ new[n].bnID = GetMaxID(layers) + n
                       /\ new[n].ALEM_layer = 0
                       /\ new[n].alemItersActive = 0
                       /\ new[n].iter = 0 /\ new[n].likelihood = 0
<1> SUFFICES ASSUME layers' # layers
             PROVE  \E new \in Seq(EMdata) :
                       /\ layers' = [layers EXCEPT ![0] = @ \o new]
                       /\ layers' \in [Layer -> Seq(EMdata)]
                       /\ \A n \in 1 .. Len(new) :
                             /\ new[n].bnID = GetMaxID(layers) + n
                             /\ new[n].ALEM_layer = 0
                             /\ new[n].alemItersActive = 0
                             /\ new[n].iter = 0 /\ new[n].likelihood = 0
  OBVIOUS
<1> DEFINE k == MinRuns(0) - GetNumRuns(layers)
           id == GetMaxID(layers) + 1
<1>1. layers \in [Layer -> Seq(EMdata)] /\ 0 \in Layer
  BY LayerFacts DEF TypeOK
<1>2. GetNumRuns(layers) \in Nat /\ MinRuns(0) \in Nat /\ id \in Nat /\ GetMaxID(layers) \in Int
  BY <1>1, CountFacts, LayerFacts
<1>3. PICK fg \in [1 .. k -> Params], unset \in Garbage :
         k > 0 /\ layers' = [layers EXCEPT ![0] = @ \o Fresh(k, id, fg, unset)]
  BY DEF Refill
<1>4. k \in Nat
  BY <1>2, <1>3
<1> HIDE DEF k, id
<1>5. /\ Fresh(k, id, fg, unset) \in Seq(EMdata)
      /\ Len(Fresh(k, id, fg, unset)) = k
      /\ \A n \in 1 .. k : /\ Fresh(k, id, fg, unset)[n].bnID = id + n - 1
                            /\ Fresh(k, id, fg, unset)[n].ALEM_layer = 0
                            /\ Fresh(k, id, fg, unset)[n].alemItersActive = 0
                            /\ Fresh(k, id, fg, unset)[n].iter = 0
                            /\ Fresh(k, id, fg, unset)[n].likelihood = 0
  BY <1>2, <1>4, FreshFacts
<1>6. layers[0] \o Fresh(k, id, fg, unset) \in Seq(EMdata)
  BY <1>1, <1>5, ConcatProperties
<1>7. layers' \in [Layer -> Seq(EMdata)]
  BY <1>1, <1>3, <1>6
<1>8. \A n \in 1 .. k : id + n - 1 = GetMaxID(layers) + n
  BY <1>2, <1>4 DEF id
<1>9. \A n \in 1 .. Len(Fresh(k, id, fg, unset)) :
         /\ Fresh(k, id, fg, unset)[n].bnID = GetMaxID(layers) + n
         /\ Fresh(k, id, fg, unset)[n].ALEM_layer = 0
         /\ Fresh(k, id, fg, unset)[n].alemItersActive = 0
         /\ Fresh(k, id, fg, unset)[n].iter = 0
         /\ Fresh(k, id, fg, unset)[n].likelihood = 0
  BY <1>5, <1>8
<1> WITNESS Fresh(k, id, fg, unset) \in Seq(EMdata)
<1> QED BY <1>3, <1>7, <1>9

(* ------------------------------------------------------------------------ *)

(* Every step of the pass keeps the type invariant. *)
LEMMA TypeStep == TypeOK /\ [AlemNext]_alemVars => TypeOK'
<1> SUFFICES ASSUME TypeOK, [AlemNext]_alemVars PROVE TypeOK'
  OBVIOUS
<1>0. /\ \A l \in Layer : layers[l] \in Seq(EMdata) /\ Len(layers[l]) \in Nat
      /\ \A l \in Layer : layers[l] \in Seq(EMdata)
      /\ layer \in Layer /\ index \in Nat
  BY LenProperties DEF TypeOK
<1>1. ASSUME NEW others \in Seq(EMdata), Visiting, AgedOut, MoveUpBehind(others),
             index' = index - 1, UNCHANGED <<pc, layer, input>>
      PROVE  TypeOK'
  <2>1. layers' \in [Layer -> Seq(EMdata)] /\ layers'[layer] = RemoveAt(layers[layer], index)
    BY <1>1, MoveUp
  <2>2. Len(layers'[layer]) = Len(layers[layer]) - 1
    BY <2>1, Visited, RemoveAtProperties, <1>1
  <2>3. index' \in Nat /\ index' <= Len(layers'[layer])
    BY <1>0, <1>1, <2>2 DEF TypeOK, Visiting
  <2> QED BY <1>1, <2>1, <2>3 DEF TypeOK
<1>2. CASE Promote
  <2>1. next \in Seq(EMdata)
    BY <1>0, <1>2, LayerFacts DEF next, Promote, AgedOut
  <2> QED BY <1>1, <1>2, <2>1 DEF Promote
<1>3. CASE Replace
  <2>1. next \in Seq(EMdata) /\ DOMAIN next = 1 .. Len(next)
    BY <1>0, <1>3, LayerFacts, LenProperties DEF next, Replace, AgedOut
  <2>2. PICK k \in Worse : MoveUpBehind(RemoveAt(next, k))
    BY <1>3 DEF Replace
  <2>3. RemoveAt(next, k) \in Seq(EMdata)
    BY <2>1, RemoveAtProperties DEF Worse
  <2> QED BY <1>1, <1>3, <2>2, <2>3 DEF Replace
<1>4. CASE Drop
  <2>1. layers' = [layers EXCEPT ![layer] = RemoveAt(@, index)]
    BY <1>4 DEF Drop
  <2>2. RemoveAt(layers[layer], index) \in Seq(EMdata)
        /\ Len(RemoveAt(layers[layer], index)) = Len(layers[layer]) - 1
    BY <1>4, Visited, RemoveAtProperties DEF Drop
  <2>3. layers' \in [Layer -> Seq(EMdata)] /\ Len(layers'[layer]) = Len(layers[layer]) - 1
    BY <1>0, <2>1, <2>2 DEF TypeOK
  <2> QED BY <1>0, <1>4, <2>3 DEF TypeOK, Drop, Visiting
<1>5. CASE Keep
  BY <1>0, <1>5 DEF TypeOK, Keep, Visiting
<1>6. CASE NextLayer
  <2>1. CASE layer < Top /\ layer' = layer + 1 /\ index' = Len(layers[layer + 1]) /\ pc' = pc
    <3>1. layer + 1 \in Layer
      BY <1>0, <2>1, LayerFacts
    <3>2. Len(layers[layer + 1]) \in Nat
      BY <1>0, <3>1
    <3>3. index' <= Len(layers[layer'])
      BY <2>1, <3>2
    <3> QED BY <1>6, <2>1, <3>1, <3>2, <3>3 DEF TypeOK, NextLayer
  <2>2. CASE layer = Top /\ pc' = "refill" /\ UNCHANGED <<layer, index>>
    BY <1>6, <2>2 DEF TypeOK, NextLayer
  <2> QED BY <1>6, <2>1, <2>2 DEF NextLayer
<1>7. CASE Refill
  <2>1. layers' \in [Layer -> Seq(EMdata)]
    BY <1>7, RefillFacts DEF TypeOK
  <2> QED BY <1>0, <1>7, <2>1 DEF TypeOK, Refill
<1>8. CASE NoFGFound
  BY <1>0, <1>8 DEF TypeOK, NoFGFound
<1>9. CASE UNCHANGED alemVars
  BY <1>9 DEF TypeOK, alemVars
<1> QED BY <1>2, <1>3, <1>4, <1>5, <1>6, <1>7, <1>8, <1>9 DEF AlemNext

(* The layers utils is handed satisfy the type invariant. *)
LEMMA TypeInit == AlemInit => TypeOK
<1> SUFFICES ASSUME NEW ls \in [Layer -> Seq(EMdata)], StartPass(ls) PROVE TypeOK
  BY DEF AlemInit
<1>1. Len(ls[0]) \in Nat
  BY LayerFacts, LenProperties
<1> QED BY <1>1, LayerFacts DEF StartPass, TypeOK

(* The pass keeps its vectors and its walk well formed: ALEM_check never    *)
(* indexes past the end of a layer it erases from and pushes onto.          *)
THEOREM TypeCorrect == AlemSpec => []TypeOK
  BY TypeInit, TypeStep, PTL DEF AlemSpec

(* ------------------------------------------------------------------------ *)

(* Every run of `old' has a run at least as good in `new'. *)
Outlived(old, new) ==
    \A p \in Places(old) : \E q \in Places(new) :
        new[q[1]][q[2]].likelihood >= old[p[1]][p[2]].likelihood

(* Every run of a population has a likelihood to compare. *)
LEMMA LikelihoodType ==
    ASSUME NEW ls \in [Layer -> Seq(EMdata)], NEW p \in Places(ls)
    PROVE  ls[p[1]][p[2]].likelihood \in Int
<1>1. \A r \in EMdata : r.likelihood \in Int
  BY DEF EMdata
<1> QED BY <1>1, PlacesFacts

(* A move outlives what it displaces, if that is worse than the run moved.  *)
LEMMA MoveOutlives ==
    ASSUME TypeOK, Visiting, AgedOut,
           NEW others \in Seq(EMdata), MoveUpBehind(others),
           next \in Seq(EMdata),
           \A m \in 1 .. Len(next) : \/ next[m].likelihood < em.likelihood
                                     \/ \E n \in 1 .. Len(others) : others[n] = next[m]
    PROVE  Outlived(layers, layers')
<1> DEFINE moved == [em EXCEPT !.ALEM_layer = layer + 1]
<1>0. layers \in [Layer -> Seq(EMdata)] /\ layer \in Layer
  BY DEF TypeOK
<1>1. /\ layers' \in [Layer -> Seq(EMdata)]
      /\ layer + 1 \in Layer /\ layer + 1 # layer
      /\ moved \in EMdata
      /\ layers'[layer] = RemoveAt(layers[layer], index)
      /\ layers'[layer + 1] = Append(others, moved)
      /\ \A l \in Layer \ {layer, layer + 1} : layers'[l] = layers[l]
  BY MoveUp
<1>2. Len(others) \in Nat
  BY LenProperties
<1>3. /\ Len(layers'[layer + 1]) = Len(others) + 1
      /\ layers'[layer + 1][Len(others) + 1] = moved
      /\ \A n \in 1 .. Len(others) : layers'[layer + 1][n] = others[n]
  <2> HIDE DEF moved
  <2> QED BY <1>1, AppendProperties
<1>4. em \in EMdata /\ moved.likelihood = em.likelihood /\ em.likelihood \in Int
  BY Visited DEF EMdata
<1>5. <<layer + 1, Len(others) + 1>> \in Places(layers')
  <2>1. Len(others) + 1 \in 1 .. Len(layers'[layer + 1])
    BY <1>2, <1>3
  <2> HIDE DEF moved
  <2> QED BY <1>1, <2>1, PlacesFacts
<1> SUFFICES ASSUME NEW p \in Places(layers)
             PROVE  \E q \in Places(layers') :
                       layers'[q[1]][q[2]].likelihood >= layers[p[1]][p[2]].likelihood
  BY DEF Outlived
<1>6. p[1] \in Layer /\ p[2] \in 1 .. Len(layers[p[1]]) /\ layers[p[1]][p[2]].likelihood \in Int
  BY <1>0, PlacesFacts, LikelihoodType
<1>7. ASSUME NEW l \in Layer, NEW n \in 1 .. Len(layers'[l]), layers'[l][n] = layers[p[1]][p[2]]
      PROVE  \E q \in Places(layers') :
                layers'[q[1]][q[2]].likelihood >= layers[p[1]][p[2]].likelihood
  <2>1. <<l, n>> \in Places(layers')
    BY <1>1, <1>7, PlacesFacts
  <2>2. layers'[l][n].likelihood >= layers[p[1]][p[2]].likelihood
    BY <1>6, <1>7
  <2> QED BY <2>1, <2>2
<1>8. ASSUME em.likelihood >= layers[p[1]][p[2]].likelihood
      PROVE  \E q \in Places(layers') :
                layers'[q[1]][q[2]].likelihood >= layers[p[1]][p[2]].likelihood
  <2>1. layers'[layer + 1][Len(others) + 1].likelihood >= layers[p[1]][p[2]].likelihood
    BY <1>3, <1>4, <1>8
  <2> QED BY <1>5, <2>1
<1>9. CASE p[1] = layer /\ p[2] = index
  <2>1. em.likelihood >= layers[p[1]][p[2]].likelihood
    BY <1>4, <1>9 DEF em
  <2> QED BY <1>8, <2>1
<1>10. CASE p[1] = layer /\ p[2] # index
  <2>1. PICK f : IsErasure(f, layers[layer], index)
    BY Visited, RemoveAtOrigin
  <2>2. PICK n \in 1 .. Len(layers[layer]) - 1 : f[n] = p[2]
    BY <1>6, <1>10, <2>1 DEF IsErasure
  <2>3. Len(layers'[layer]) = Len(layers[layer]) - 1
    BY <1>1, Visited, RemoveAtProperties
  <2>4. layers'[layer][n] = layers[p[1]][p[2]]
    BY <1>1, <1>10, <2>1, <2>2 DEF IsErasure
  <2> QED BY <1>0, <1>7, <2>2, <2>3, <2>4
<1>11. CASE p[1] = layer + 1
  <2>1. p[2] \in 1 .. Len(next) /\ layers[p[1]][p[2]] = next[p[2]]
    BY <1>6, <1>11 DEF next
  <2>2. CASE next[p[2]].likelihood < em.likelihood
    BY <1>4, <1>6, <1>8, <2>1, <2>2
  <2>3. CASE \E n \in 1 .. Len(others) : others[n] = next[p[2]]
    <3>1. PICK n \in 1 .. Len(others) : others[n] = next[p[2]]
      BY <2>3
    <3>2. n \in 1 .. Len(layers'[layer + 1]) /\ layers'[layer + 1][n] = layers[p[1]][p[2]]
      BY <1>2, <1>3, <2>1, <3>1
    <3> QED BY <1>1, <1>7, <3>2
  <2> QED BY <2>1, <2>2, <2>3
<1>12. CASE p[1] \in Layer \ {layer, layer + 1}
  <2>1. layers'[p[1]] = layers[p[1]]
    BY <1>1, <1>12
  <2> QED BY <1>6, <1>7, <2>1
<1> QED BY <1>6, <1>9, <1>10, <1>11, <1>12

(* A run that aged out has a layer above it to move to. *)
LEMMA NextFacts ==
    ASSUME TypeOK, AgedOut
    PROVE  /\ layer + 1 \in Layer
           /\ next \in Seq(EMdata) /\ Len(next) \in Nat /\ DOMAIN next = 1 .. Len(next)
           /\ \A n \in 1 .. Len(next) : next[n] \in EMdata
<1>1. layer + 1 \in Layer
  BY LayerFacts DEF TypeOK, AgedOut
<1>2. next \in Seq(EMdata)
  BY <1>1 DEF TypeOK, next
<1> QED BY <1>1, <1>2, LenProperties, ElementOfSeq

(* One step of the pass outlives every run it started with. *)
LEMMA StepOutlives ==
    ASSUME TypeOK, AlemNext
    PROVE  Outlived(layers, layers')
<1>0. layers \in [Layer -> Seq(EMdata)] /\ layer \in Layer
  BY DEF TypeOK
<1>1. CASE layers' = layers
  <2>1. \A p \in Places(layers) :
           layers[p[1]][p[2]].likelihood >= layers[p[1]][p[2]].likelihood
    BY <1>0, LikelihoodType
  <2> QED BY <1>1, <2>1 DEF Outlived
<1>2. CASE Promote
  <2>1. \A m \in 1 .. Len(next) : \E n \in 1 .. Len(next) : next[n] = next[m]
    OBVIOUS
  <2> QED BY <1>2, <2>1, NextFacts, MoveOutlives DEF Promote
<1>3. CASE Replace
  <2>1. PICK k \in Worse : MoveUpBehind(RemoveAt(next, k))
    BY <1>3 DEF Replace
  <2>2. k \in 1 .. Len(next) /\ next[k].likelihood < em.likelihood /\ next \in Seq(EMdata)
    BY <1>3, NextFacts DEF Worse, Replace
  <2>3. /\ RemoveAt(next, k) \in Seq(EMdata)
        /\ Len(RemoveAt(next, k)) = Len(next) - 1
    BY <2>2, RemoveAtProperties
  <2>4. PICK f : IsErasure(f, next, k)
    BY <2>2, RemoveAtOrigin
  <2>5. \A m \in 1 .. Len(next) :
           \/ next[m].likelihood < em.likelihood
           \/ \E n \in 1 .. Len(RemoveAt(next, k)) : RemoveAt(next, k)[n] = next[m]
    <3> SUFFICES ASSUME NEW m \in 1 .. Len(next), m # k
                 PROVE  \E n \in 1 .. Len(RemoveAt(next, k)) : RemoveAt(next, k)[n] = next[m]
      BY <2>2
    <3>1. PICK n \in 1 .. Len(next) - 1 : f[n] = m
      BY <2>4 DEF IsErasure
    <3>2. RemoveAt(next, k)[n] = next[m]
      BY <2>4, <3>1 DEF IsErasure
    <3> QED BY <2>3, <3>1, <3>2
  <2> QED BY <1>3, <2>1, <2>2, <2>3, <2>5, MoveOutlives DEF Replace
<1>4. CASE Drop
  <2> SUFFICES ASSUME NEW p \in Places(layers)
               PROVE  \E q \in Places(layers') :
                        layers'[q[1]][q[2]].likelihood >= layers[p[1]][p[2]].likelihood
    BY DEF Outlived
  <2>1. p[1] \in Layer /\ p[2] \in 1 .. Len(layers[p[1]]) /\ layers[p[1]][p[2]].likelihood \in Int
    BY <1>0, PlacesFacts, LikelihoodType
  <2>2. RemoveAt(layers[layer], index) \in Seq(EMdata)
        /\ Len(RemoveAt(layers[layer], index)) = Len(layers[layer]) - 1
    BY <1>4, Visited, RemoveAtProperties DEF Drop
  <2>3. /\ layers' \in [Layer -> Seq(EMdata)]
        /\ layers'[layer] = RemoveAt(layers[layer], index)
        /\ \A l \in Layer \ {layer} : layers'[l] = layers[l]
    BY <1>0, <1>4, <2>2 DEF Drop
  <2>4. ASSUME NEW l \in Layer, NEW n \in 1 .. Len(layers'[l]),
               layers'[l][n].likelihood >= layers[p[1]][p[2]].likelihood
        PROVE  \E q \in Places(layers') :
                  layers'[q[1]][q[2]].likelihood >= layers[p[1]][p[2]].likelihood
    <3>1. <<l, n>> \in Places(layers')
      BY <2>3, PlacesFacts
    <3> QED BY <2>4, <3>1
  <2>5. CASE p[1] = layer /\ p[2] = index
    <3>1. layer + 1 \in Layer /\ layer + 1 # layer /\ Len(next) \in Nat /\ Len(next) >= 1
      BY <1>0, <1>4, NextFacts, LayerFacts DEF Drop, NextIsFull
    <3>2. 1 \in 1 .. Len(next) /\ ~(next[1].likelihood < em.likelihood)
      BY <1>4, <3>1, NextFacts DEF Drop, Worse
    <3>3. next[1].likelihood \in Int /\ em.likelihood \in Int
      <4>1. \A r \in EMdata : r.likelihood \in Int
        BY DEF EMdata
      <4> QED BY <1>4, <3>2, <4>1, NextFacts, Visited DEF Drop
    <3>4. layers'[layer + 1] = next
      BY <2>3, <3>1 DEF next
    <3>5. layers'[layer + 1][1].likelihood >= layers[p[1]][p[2]].likelihood
      BY <2>5, <3>2, <3>3, <3>4 DEF em
    <3> QED BY <2>4, <3>1, <3>2, <3>4, <3>5
  <2>6. CASE p[1] = layer /\ p[2] # index
    <3>1. PICK f : IsErasure(f, layers[layer], index)
      BY <1>4, Visited, RemoveAtOrigin DEF Drop
    <3>2. PICK n \in 1 .. Len(layers[layer]) - 1 : f[n] = p[2]
      BY <2>1, <2>6, <3>1 DEF IsErasure
    <3>3. layers'[layer][n] = layers[p[1]][p[2]]
      BY <2>3, <2>6, <3>1, <3>2 DEF IsErasure
    <3>4. n \in 1 .. Len(layers'[layer])
      BY <2>2, <2>3, <3>2
    <3> QED BY <1>0, <2>1, <2>4, <3>3, <3>4
  <2>7. CASE p[1] # layer
    BY <2>1, <2>3, <2>4, <2>7
  <2> QED BY <2>5, <2>6, <2>7
<1>5. CASE Refill /\ layers' # layers
  <2>1. PICK new \in Seq(EMdata) :
           layers' = [layers EXCEPT ![0] = @ \o new] /\ layers' \in [Layer -> Seq(EMdata)]
    BY <1>5, RefillFacts
  <2> SUFFICES ASSUME NEW p \in Places(layers)
               PROVE  \E q \in Places(layers') :
                        layers'[q[1]][q[2]].likelihood >= layers[p[1]][p[2]].likelihood
    BY DEF Outlived
  <2>2. p[1] \in Layer /\ p[2] \in 1 .. Len(layers[p[1]]) /\ layers[p[1]][p[2]].likelihood \in Int
    BY <1>0, PlacesFacts, LikelihoodType
  <2>a. ASSUME p[2] \in 1 .. Len(layers'[p[1]]), layers'[p[1]][p[2]] = layers[p[1]][p[2]]
        PROVE  \E q \in Places(layers') :
                  layers'[q[1]][q[2]].likelihood >= layers[p[1]][p[2]].likelihood
    <3>1. <<p[1], p[2]>> \in Places(layers')
      BY <2>1, <2>2, <2>a, PlacesFacts
    <3>2. layers'[p[1]][p[2]].likelihood >= layers[p[1]][p[2]].likelihood
      BY <2>2, <2>a
    <3> QED BY <3>1, <3>2
  <2>3. CASE p[1] = 0
    <3>1. layers'[0] = layers[0] \o new
      BY <1>0, <2>1, LayerFacts
    <3>2. layers[0] \in Seq(EMdata)
      BY <1>0, LayerFacts
    <3>3. /\ Len(layers[0] \o new) = Len(layers[0]) + Len(new)
          /\ Len(layers[0]) \in Nat /\ Len(new) \in Nat
          /\ \A n \in 1 .. Len(layers[0]) : (layers[0] \o new)[n] = layers[0][n]
      BY <3>2, ConcatProperties, LenProperties
    <3>4. p[2] \in 1 .. Len(layers'[p[1]]) /\ layers'[p[1]][p[2]] = layers[p[1]][p[2]]
      BY <2>2, <2>3, <3>1, <3>3
    <3> QED BY <2>a, <3>4
  <2>4. CASE p[1] # 0
    <3>1. layers'[p[1]] = layers[p[1]]
      BY <1>0, <2>1, <2>2, <2>4
    <3> QED BY <2>2, <2>a, <3>1
  <2> QED BY <2>3, <2>4
<1> QED BY <1>1, <1>2, <1>3, <1>4, <1>5 DEF AlemNext, Keep, NextLayer, NoFGFound

(* Every step of the pass keeps elitism. *)
LEMMA SurvivalStep == TypeOK /\ BestSurvives /\ [AlemNext]_alemVars => BestSurvives'
<1> SUFFICES ASSUME TypeOK, BestSurvives, [AlemNext]_alemVars PROVE BestSurvives'
  OBVIOUS
<1>0. layers \in [Layer -> Seq(EMdata)] /\ input \in [Layer -> Seq(EMdata)]
  BY DEF TypeOK
<1>1. CASE UNCHANGED alemVars
  BY <1>1 DEF BestSurvives, alemVars
<1>2. CASE AlemNext
  <2>1. input' = input /\ layers' \in [Layer -> Seq(EMdata)]
    BY <1>2, TypeStep DEF AlemNext, Promote, Replace, Drop, Keep, NextLayer, Refill, NoFGFound, TypeOK
  <2> SUFFICES ASSUME NEW r \in AllRuns(input)
               PROVE  \E s \in AllRuns(layers') : s.likelihood >= r.likelihood
    BY <2>1 DEF BestSurvives
  <2>2. r.likelihood \in Int
    <3>1. r \in EMdata
      BY <1>0, PlacesFacts DEF AllRuns
    <3> QED BY <3>1 DEF EMdata
  <2>3. PICK p \in Places(layers) : layers[p[1]][p[2]].likelihood >= r.likelihood
    BY DEF BestSurvives, AllRuns
  <2>4. PICK q \in Places(layers') :
           layers'[q[1]][q[2]].likelihood >= layers[p[1]][p[2]].likelihood
    BY <1>2, StepOutlives DEF Outlived
  <2>5. layers'[q[1]][q[2]].likelihood \in Int /\ layers[p[1]][p[2]].likelihood \in Int
    BY <1>0, <2>1, LikelihoodType
  <2>6. layers'[q[1]][q[2]] \in AllRuns(layers')
    BY DEF AllRuns
  <2>7. layers'[q[1]][q[2]].likelihood >= r.likelihood
    BY <2>2, <2>3, <2>4, <2>5
  <2> QED BY <2>6, <2>7
<1> QED BY <1>1, <1>2

(* Elitism for every population and every choice of the ALEM parameters:    *)
(* the best likelihood found so far is never lost by the pass.              *)
THEOREM Elitism == AlemSpec => []BestSurvives
<1>1. AlemInit => BestSurvives
  <2> SUFFICES ASSUME NEW ls \in [Layer -> Seq(EMdata)], StartPass(ls) PROVE BestSurvives
    BY DEF AlemInit
  <2>1. layers = ls /\ input = ls
    BY DEF StartPass
  <2>2. \A r \in AllRuns(ls) : r.likelihood \in Int
    BY LikelihoodType DEF AllRuns
  <2>3. \A r \in AllRuns(ls) : r.likelihood >= r.likelihood
    BY <2>2
  <2> QED BY <2>1, <2>3 DEF BestSurvives
<1> QED BY <1>1, TypeInit, TypeStep, SurvivalStep, PTL DEF AlemSpec

(* ------------------------------------------------------------------------ *)

(* Every step of the pass keeps the layers within their sizes. *)
LEMMA CapsStep == TypeOK /\ LayerCaps /\ [AlemNext]_alemVars => LayerCaps'
<1> SUFFICES ASSUME TypeOK, LayerCaps, [AlemNext]_alemVars,
                    NEW l \in Layer \ {0}
             PROVE  Len(layers'[l]) <= MinRuns(l)
  BY DEF LayerCaps, WithinCaps
<1>0. /\ layers \in [Layer -> Seq(EMdata)] /\ layer \in Layer
      /\ Len(layers[l]) \in Nat /\ Len(layers[l]) <= MinRuns(l) /\ MinRuns(l) \in Nat
  BY LayerFacts, LenProperties DEF TypeOK, LayerCaps, WithinCaps
<1>1. CASE layers' = layers
  BY <1>0, <1>1
<1>2. ASSUME NEW others \in Seq(EMdata), Visiting, AgedOut, MoveUpBehind(others),
             Len(others) + 1 <= MinRuns(layer + 1)
      PROVE  Len(layers'[l]) <= MinRuns(l)
  <2>1. CASE l = layer
    <3>1. Len(layers'[l]) = Len(layers[l]) - 1
      BY <1>2, <2>1, MoveUp, Visited, RemoveAtProperties
    <3> QED BY <1>0, <3>1
  <2>2. CASE l = layer + 1
    <3>1. Len(layers'[l]) = Len(others) + 1
      BY <1>2, <2>2, MoveUp, AppendProperties
    <3> QED BY <1>2, <2>2, <3>1
  <2>3. CASE l # layer /\ l # layer + 1
    <3>1. l \in Layer \ {layer, layer + 1}
      BY <2>3
    <3>2. \A k \in Layer \ {layer, layer + 1} : layers'[k] = layers[k]
      BY <1>2, MoveUp
    <3> QED BY <1>0, <3>1, <3>2
  <2> QED BY <2>1, <2>2, <2>3
<1>3. CASE Promote
  <2>1. Len(next) + 1 <= MinRuns(layer + 1)
    <3>1. Len(next) \in Nat /\ layer + 1 \in Layer
      BY <1>3, NextFacts DEF Promote
    <3>2. MinRuns(layer + 1) \in Nat
      BY <3>1, LayerFacts
    <3>3. ~(Len(next) >= MinRuns(layer + 1))
      BY <1>3 DEF Promote, NextIsFull
    <3> QED BY <3>1, <3>2, <3>3
  <2> QED BY <1>2, <1>3, <2>1, NextFacts DEF Promote
<1>4. CASE Replace
  <2>1. PICK k \in Worse : MoveUpBehind(RemoveAt(next, k))
    BY <1>4 DEF Replace
  <2>2. k \in 1 .. Len(next) /\ next \in Seq(EMdata) /\ Len(next) \in Nat
    BY <1>4, NextFacts DEF Worse, Replace
  <2>3. RemoveAt(next, k) \in Seq(EMdata) /\ Len(RemoveAt(next, k)) = Len(next) - 1
    BY <2>2, RemoveAtProperties
  <2>4. Len(next) <= MinRuns(layer + 1)
    BY <1>0, <1>4, NextFacts, LayerFacts DEF Replace, LayerCaps, WithinCaps, next
  <2>5. Len(RemoveAt(next, k)) + 1 <= MinRuns(layer + 1)
    BY <2>2, <2>3, <2>4
  <2> QED BY <1>2, <1>4, <2>1, <2>3, <2>5 DEF Replace
<1>5. CASE Drop
  <2>1. Len(RemoveAt(layers[layer], index)) = Len(layers[layer]) - 1
    BY <1>5, Visited, RemoveAtProperties DEF Drop
  <2>2. CASE l = layer
    <3>1. Len(layers'[l]) = Len(layers[l]) - 1
      BY <1>0, <1>5, <2>1, <2>2 DEF Drop
    <3> QED BY <1>0, <3>1
  <2>3. CASE l # layer
    BY <1>0, <1>5, <2>3 DEF Drop
  <2> QED BY <2>2, <2>3
<1>6. CASE Refill
  <2>1. layers'[l] = layers[l]
    BY <1>0, <1>6, RefillFacts
  <2> QED BY <1>0, <2>1
<1> QED BY <1>1, <1>3, <1>4, <1>5, <1>6 DEF AlemNext, Keep, NextLayer, NoFGFound, alemVars

(* No pass makes a layer above 0 larger than its M_i.                       *)
THEOREM CapsHold == AlemSpec => []LayerCaps
<1>1. AlemInit => LayerCaps
  BY DEF AlemInit, StartPass, IsPopulation, LayerCaps
<1> QED BY <1>1, TypeInit, TypeStep, CapsStep, PTL DEF AlemSpec

(* ------------------------------------------------------------------------ *)

(* The walk so far: the layers below the one being walked, and the part of  *)
(* it that was walked, hold no run over their age limit.                    *)
Aged(l, n) == layers[l][n].alemItersActive >= AgeLimit(l)

Walked(l, n) ==
    l < Top /\ (pc = "check" => l < layer \/ (l = layer /\ n > index))

WalkedIsYoung ==
    \A l \in Layer : \A n \in 1 .. Len(layers[l]) : Walked(l, n) => ~Aged(l, n)

(* Every step of the pass leaves the part it walked free of aged runs. *)
LEMMA WalkStep == TypeOK /\ WalkedIsYoung /\ [AlemNext]_alemVars => WalkedIsYoung'
<1> SUFFICES ASSUME TypeOK, WalkedIsYoung, [AlemNext]_alemVars,
                    NEW l \in Layer, NEW n \in 1 .. Len(layers'[l]), Walked(l, n)'
             PROVE  ~(layers'[l][n].alemItersActive >= AgeLimit(l))
  BY DEF WalkedIsYoung, Aged, AgeLimit, Top, Layer
<1>0. /\ layers \in [Layer -> Seq(EMdata)] /\ layer \in Layer /\ index \in Nat
      /\ l \in Nat /\ layer \in Nat /\ Top \in Nat /\ l < Top
  BY LayerFacts DEF TypeOK, Walked, Top
<1>a. \A m \in 1 .. Len(layers[l]) : Walked(l, m) => ~(layers[l][m].alemItersActive >= AgeLimit(l))
  BY DEF WalkedIsYoung, Aged
(* An erasure in the layer being walked moves only walked runs down.        *)
<1>b. ASSUME Visiting, AgedOut, layers'[layer] = RemoveAt(layers[layer], index),
             \A k \in Layer : k < layer => layers'[k] = layers[k],
             index' = index - 1, pc' = pc, layer' = layer
      PROVE  ~(layers'[l][n].alemItersActive >= AgeLimit(l))
  <2>1. pc = "check" /\ index > 0
    BY <1>b DEF Visiting
  <2>2. l < layer \/ (l = layer /\ n > index - 1)
    BY <1>b, <2>1 DEF Walked
  <2>3. CASE l < layer
    BY <1>0, <1>a, <1>b, <2>3 DEF Walked
  <2>4. CASE l = layer /\ n > index - 1
    <3>1. /\ Len(layers'[l]) = Len(layers[l]) - 1 /\ Len(layers[l]) \in Nat
          /\ \A m \in index .. Len(layers[l]) - 1 :
                RemoveAt(layers[layer], index)[m] = layers[layer][m + 1]
      <4>1. layers[layer] \in Seq(EMdata) /\ index \in 1 .. Len(layers[layer])
        BY <1>b, Visited
      <4>2. /\ Len(RemoveAt(layers[layer], index)) = Len(layers[layer]) - 1
            /\ Len(layers[layer]) \in Nat
            /\ \A m \in index .. Len(layers[layer]) - 1 :
                  RemoveAt(layers[layer], index)[m] = layers[layer][m + 1]
        BY <4>1, RemoveAtProperties, LenProperties
      <4> QED BY <1>b, <2>4, <4>2
    <3>2. n \in index .. Len(layers[l]) - 1 /\ n + 1 \in 1 .. Len(layers[l]) /\ n + 1 > index
      BY <1>0, <2>4, <3>1
    <3>3. layers'[l][n] = layers[l][n + 1]
      BY <1>b, <2>4, <3>1, <3>2
    <3>4. Walked(l, n + 1)
      BY <1>0, <2>1, <2>4, <3>2 DEF Walked
    <3> QED BY <1>a, <3>2, <3>3, <3>4
  <2> QED BY <2>2, <2>3, <2>4
<1>c. ASSUME NEW others \in Seq(EMdata), Visiting, AgedOut, MoveUpBehind(others),
             index' = index - 1, pc' = pc, layer' = layer
      PROVE  ~(layers'[l][n].alemItersActive >= AgeLimit(l))
  <2>1. layers'[layer] = RemoveAt(layers[layer], index)
        /\ \A k \in Layer : k < layer => layers'[k] = layers[k]
    <3>1. \A k \in Layer : k < layer => k \in Layer \ {layer, layer + 1}
      BY <1>0, LayerFacts
    <3> QED BY <1>c, <3>1, MoveUp
  <2> QED BY <1>b, <1>c, <2>1
<1>1. CASE Promote
  BY <1>1, <1>c, NextFacts DEF Promote
<1>2. CASE Replace
  <2>1. PICK k \in Worse : MoveUpBehind(RemoveAt(next, k))
    BY <1>2 DEF Replace
  <2>2. RemoveAt(next, k) \in Seq(EMdata)
    BY <1>2, NextFacts, RemoveAtProperties DEF Worse, Replace
  <2> QED BY <1>2, <1>c, <2>1, <2>2 DEF Replace
<1>3. CASE Drop
  <2>1. layers'[layer] = RemoveAt(layers[layer], index)
        /\ \A k \in Layer : k < layer => layers'[k] = layers[k]
    BY <1>0, <1>3, LayerFacts DEF Drop
  <2> QED BY <1>3, <1>b, <2>1 DEF Drop
<1>4. CASE Keep
  <2>1. layers' = layers /\ pc = "check" /\ pc' = pc /\ layer' = layer /\ index' = index - 1
    BY <1>4 DEF Keep, Visiting
  <2>2. CASE l = layer /\ n = index
    BY <1>0, <1>4, <2>1, <2>2 DEF Keep, AgedOut, em
  <2>3. CASE ~(l = layer /\ n = index)
    <3>1. n \in 1 .. Len(layers[l]) /\ Len(layers[l]) \in Nat
      BY <1>0, <2>1, LenProperties
    <3>2. Walked(l, n)
      BY <1>0, <2>1, <2>3, <3>1 DEF Walked
    <3> QED BY <1>a, <2>1, <3>1, <3>2
  <2> QED BY <2>2, <2>3
<1>5. CASE NextLayer
  <2>1. layers' = layers /\ pc = "check" /\ index = 0
    BY <1>5 DEF NextLayer
  <2>2. n \in 1 .. Len(layers[l]) /\ Len(layers[l]) \in Nat
    BY <1>0, <2>1, LenProperties
  <2>3. Walked(l, n)
    BY <1>0, <1>5, <2>1, <2>2, LayerFacts DEF Walked, NextLayer, Layer, Top
  <2> QED BY <1>a, <2>1, <2>2, <2>3
<1>6. CASE Refill
  <2>1. pc = "refill" /\ Walked(l, n)
    BY <1>0, <1>6 DEF Refill, Walked
  <2>2. CASE n \in 1 .. Len(layers[l]) /\ layers'[l][n] = layers[l][n]
    BY <1>a, <2>1, <2>2
  <2>3. CASE l = 0 /\ layers'[l][n].alemItersActive = 0
    <3>1. AgeLimit(0) = AgeGap * 2^0 /\ 2^0 = 1
      BY LayerFacts DEF AgeLimit
    <3>2. AgeLimit(0) \in Nat \ {0}
      BY <3>1, AlemAssumption
    <3> QED BY <2>3, <3>2
  <2>4. CASE layers' = layers
    BY <2>2, <2>4
  <2>5. CASE l # 0 /\ layers' # layers
    BY <1>0, <1>6, <2>2, <2>5, RefillFacts
  <2>6. CASE l = 0 /\ layers' # layers
    <3>1. PICK new \in Seq(EMdata) :
             /\ layers' = [layers EXCEPT ![0] = @ \o new]
             /\ \A m \in 1 .. Len(new) : new[m].alemItersActive = 0
      BY <1>6, <2>6, RefillFacts
    <3>2. layers'[0] = layers[0] \o new /\ layers[0] \in Seq(EMdata)
      BY <1>0, <3>1, LayerFacts
    <3>3. /\ Len(layers[0] \o new) = Len(layers[0]) + Len(new)
          /\ Len(layers[0]) \in Nat /\ Len(new) \in Nat
          /\ \A m \in 1 .. Len(layers[0]) + Len(new) :
                (layers[0] \o new)[m] =
                   IF m <= Len(layers[0]) THEN layers[0][m] ELSE new[m - Len(layers[0])]
      BY <3>2, ConcatProperties, LenProperties
    <3>4. n \in 1 .. Len(layers[0]) + Len(new)
      BY <2>6, <3>2, <3>3
    <3>5. CASE n <= Len(layers[0])
      BY <2>2, <2>6, <3>2, <3>3, <3>4, <3>5
    <3>6. CASE ~(n <= Len(layers[0]))
      <4>1. n - Len(layers[0]) \in 1 .. Len(new)
        BY <3>3, <3>4, <3>6
      <4>2. layers'[l][n] = new[n - Len(layers[0])]
        BY <2>6, <3>2, <3>3, <3>4, <3>6
      <4> QED BY <2>3, <2>6, <3>1, <4>1, <4>2
    <3> QED BY <3>5, <3>6
  <2> QED BY <2>4, <2>5, <2>6
<1>7. CASE NoFGFound
  BY <1>0, <1>7, <1>a DEF NoFGFound, Walked
<1>8. CASE UNCHANGED alemVars
  BY <1>0, <1>8, <1>a DEF alemVars, Walked
<1> QED BY <1>1, <1>2, <1>3, <1>4, <1>5, <1>6, <1>7, <1>8 DEF AlemNext

(* The walk misses no run, although it erases from the vector it walks and  *)
(* pushes onto the one it walks next.                                       *)
THEOREM WalkIsComplete == AlemSpec => []NoneAgedOut
<1>1. AlemInit => WalkedIsYoung
  <2> SUFFICES ASSUME NEW ls \in [Layer -> Seq(EMdata)], StartPass(ls) PROVE WalkedIsYoung
    BY DEF AlemInit
  <2>1. layers = ls /\ pc = "check" /\ layer = 0 /\ index = Len(ls[0]) /\ Len(ls[0]) \in Nat
    BY LayerFacts, LenProperties DEF StartPass
  <2> QED BY <2>1, LayerFacts DEF WalkedIsYoung, Walked
<1>2. TypeOK /\ WalkedIsYoung => NoneAgedOut
  BY LayerFacts, LenProperties DEF NoneAgedOut, WalkedIsYoung, Walked, Aged, TypeOK
<1> QED BY <1>1, <1>2, TypeInit, TypeStep, WalkStep, PTL DEF AlemSpec

(* ------------------------------------------------------------------------ *)

(* o takes the places of `new' one-to-one to places of `old' that hold a    *)
(* run with the same identifier.                                            *)
IsOrigin(o, old, new) ==
    /\ o \in [Places(new) -> Places(old)]
    /\ \A p \in Places(new) : new[p[1]][p[2]].bnID = old[o[p][1]][o[p][2]].bnID
    /\ \A p, q \in Places(new) : o[p] = o[q] => p = q

(* Where every run has an origin, identifiers stay distinct. *)
LEMMA OriginKeepsIds ==
    ASSUME NEW old, NEW new, NEW o, IsOrigin(o, old, new), DistinctIds(old)
    PROVE  DistinctIds(new)
BY DEF IsOrigin, DistinctIds

(* A move has an origin if what stays in the next layer has one. *)
LEMMA MoveOrigin ==
    ASSUME TypeOK, Visiting, AgedOut,
           NEW others \in Seq(EMdata), MoveUpBehind(others),
           NEW g \in [1 .. Len(others) -> 1 .. Len(next)],
           \A n \in 1 .. Len(others) : others[n] = next[g[n]],
           \A m, n \in 1 .. Len(others) : g[m] = g[n] => m = n
    PROVE  \E o : IsOrigin(o, layers, layers')
<1> DEFINE moved == [em EXCEPT !.ALEM_layer = layer + 1]
<1>0. layers \in [Layer -> Seq(EMdata)] /\ layer \in Layer
      /\ layers[layer] \in Seq(EMdata) /\ index \in 1 .. Len(layers[layer])
      /\ Len(layers[layer]) \in Nat /\ layer \in Nat
  BY Visited, LenProperties, LayerFacts DEF TypeOK
<1>1. /\ layers' \in [Layer -> Seq(EMdata)]
      /\ layer + 1 \in Layer /\ layer + 1 # layer
      /\ moved \in EMdata
      /\ layers'[layer] = RemoveAt(layers[layer], index)
      /\ layers'[layer + 1] = Append(others, moved)
      /\ \A l \in Layer \ {layer, layer + 1} : layers'[l] = layers[l]
  BY MoveUp
<1>2. Len(others) \in Nat
  BY LenProperties
<1>3. /\ Len(layers'[layer + 1]) = Len(others) + 1
      /\ layers'[layer + 1][Len(others) + 1] = moved
      /\ \A n \in 1 .. Len(others) : layers'[layer + 1][n] = others[n]
  <2> HIDE DEF moved
  <2> QED BY <1>1, AppendProperties
<1>4. moved.bnID = em.bnID
  BY Visited DEF EMdata
<1>5. Len(layers'[layer]) = Len(layers[layer]) - 1
  BY <1>0, <1>1, RemoveAtProperties
<1>6. PICK f : IsErasure(f, layers[layer], index)
  BY <1>0, RemoveAtOrigin
<1>7. /\ f \in [1 .. Len(layers[layer]) - 1 -> (1 .. Len(layers[layer])) \ {index}]
      /\ \A n \in 1 .. Len(layers[layer]) - 1 : layers'[layer][n] = layers[layer][f[n]]
      /\ \A m, n \in 1 .. Len(layers[layer]) - 1 : f[m] = f[n] => m = n
  BY <1>1, <1>6 DEF IsErasure
<1> HIDE DEF moved
<1> DEFINE from(l, n) ==
             IF l = layer THEN <<layer, f[n]>>
             ELSE IF l = layer + 1
                  THEN IF n = Len(others) + 1 THEN <<layer, index>> ELSE <<layer + 1, g[n]>>
                  ELSE <<l, n>>
           o == [p \in Places(layers') |-> from(p[1], p[2])]
<1>8. ASSUME NEW p \in Places(layers')
      PROVE  /\ p[1] \in Layer /\ p[2] \in 1 .. Len(layers'[p[1]]) /\ p = <<p[1], p[2]>>
             /\ p[1] = layer => p[2] \in 1 .. Len(layers[layer]) - 1
             /\ p[1] = layer + 1 => p[2] \in 1 .. Len(others) \/ p[2] = Len(others) + 1
  BY <1>1, <1>2, <1>3, <1>5, PlacesFacts
<1>9. ASSUME NEW p \in Places(layers')
      PROVE  /\ from(p[1], p[2]) \in Places(layers)
             /\ layers'[p[1]][p[2]].bnID = layers[from(p[1], p[2])[1]][from(p[1], p[2])[2]].bnID
  <2>1. CASE p[1] = layer
    <3>1. p[2] \in 1 .. Len(layers[layer]) - 1 /\ f[p[2]] \in 1 .. Len(layers[layer])
      BY <1>7, <1>8, <2>1
    <3>2. from(p[1], p[2]) = <<layer, f[p[2]]>>
      BY <2>1
    <3> QED BY <1>0, <1>7, <2>1, <3>1, <3>2, PlacesFacts
  <2>2. CASE p[1] = layer + 1 /\ p[2] = Len(others) + 1
    <3>1. from(p[1], p[2]) = <<layer, index>>
      BY <1>1, <2>2
    <3> QED BY <1>0, <1>3, <1>4, <2>2, <3>1, PlacesFacts DEF em
  <2>3. CASE p[1] = layer + 1 /\ p[2] \in 1 .. Len(others)
    <3>1. from(p[1], p[2]) = <<layer + 1, g[p[2]]>>
      BY <1>1, <1>2, <2>3
    <3>2. g[p[2]] \in 1 .. Len(layers[layer + 1])
      BY <2>3 DEF next
    <3>3. layers'[p[1]][p[2]] = layers[layer + 1][g[p[2]]]
      BY <1>3, <2>3 DEF next
    <3> QED BY <1>0, <1>1, <3>1, <3>2, <3>3, PlacesFacts
  <2>4. CASE p[1] \in Layer \ {layer, layer + 1}
    <3>1. from(p[1], p[2]) = <<p[1], p[2]>> /\ layers'[p[1]] = layers[p[1]]
      BY <1>1, <2>4
    <3> QED BY <1>0, <1>8, <3>1, PlacesFacts
  <2> QED BY <1>8, <2>1, <2>2, <2>3, <2>4
<1>10. ASSUME NEW p \in Places(layers'), NEW q \in Places(layers'),
              from(p[1], p[2]) = from(q[1], q[2])
       PROVE  p = q
  <2>1. p[1] = q[1] /\ p[2] = q[2]
    <3>1. p[1] = layer => f[p[2]] # index
      BY <1>7, <1>8
    <3>2. q[1] = layer => f[q[2]] # index
      BY <1>7, <1>8
    <3>3. CASE p[1] = layer
      BY <1>1, <1>7, <1>8, <1>10, <3>1, <3>2, <3>3
    <3>4. CASE p[1] = layer + 1
      BY <1>1, <1>2, <1>8, <1>10, <3>2, <3>4
    <3>5. CASE p[1] # layer /\ p[1] # layer + 1
      BY <1>1, <1>8, <1>10, <3>2, <3>5
    <3> QED BY <3>3, <3>4, <3>5
  <2> QED BY <1>8, <2>1
<1>11. IsOrigin(o, layers, layers')
  <2> HIDE DEF from
  <2>1. o \in [Places(layers') -> Places(layers)]
    BY <1>9
  <2>2. \A p \in Places(layers') : o[p] = from(p[1], p[2])
    OBVIOUS
  <2> HIDE DEF o
  <2> QED BY <1>9, <1>10, <2>1, <2>2 DEF IsOrigin
<1> QED BY <1>11

(* Every step of the pass keeps identifiers distinct. *)
LEMMA IdsStep == TypeOK /\ UniqueIds /\ [AlemNext]_alemVars => UniqueIds'
<1> SUFFICES ASSUME TypeOK, UniqueIds, [AlemNext]_alemVars PROVE DistinctIds(layers')
  BY DEF UniqueIds
<1>0. layers \in [Layer -> Seq(EMdata)] /\ layer \in Layer /\ DistinctIds(layers)
  BY DEF TypeOK, UniqueIds
<1>1. CASE layers' = layers
  BY <1>0, <1>1
<1>2. CASE Promote
  <2> DEFINE g == [n \in 1 .. Len(next) |-> n]
  <2>1. /\ g \in [1 .. Len(next) -> 1 .. Len(next)]
        /\ \A n \in 1 .. Len(next) : next[n] = next[g[n]]
        /\ \A m, n \in 1 .. Len(next) : g[m] = g[n] => m = n
    OBVIOUS
  <2> HIDE DEF g
  <2>2. \E o : IsOrigin(o, layers, layers')
    BY <1>2, <2>1, NextFacts, MoveOrigin DEF Promote
  <2> QED BY <1>0, <2>2, OriginKeepsIds
<1>3. CASE Replace
  <2>1. PICK k \in Worse : MoveUpBehind(RemoveAt(next, k))
    BY <1>3 DEF Replace
  <2>2. k \in 1 .. Len(next) /\ next \in Seq(EMdata) /\ Len(next) \in Nat
    BY <1>3, NextFacts DEF Worse, Replace
  <2>3. RemoveAt(next, k) \in Seq(EMdata) /\ Len(RemoveAt(next, k)) = Len(next) - 1
    BY <2>2, RemoveAtProperties
  <2>4. PICK g : IsErasure(g, next, k)
    BY <2>2, RemoveAtOrigin
  <2>5. /\ g \in [1 .. Len(RemoveAt(next, k)) -> 1 .. Len(next)]
        /\ \A n \in 1 .. Len(RemoveAt(next, k)) : RemoveAt(next, k)[n] = next[g[n]]
        /\ \A m, n \in 1 .. Len(RemoveAt(next, k)) : g[m] = g[n] => m = n
    BY <2>3, <2>4 DEF IsErasure
  <2>6. \E o : IsOrigin(o, layers, layers')
    BY <1>3, <2>1, <2>3, <2>5, MoveOrigin DEF Replace
  <2> QED BY <1>0, <2>6, OriginKeepsIds
<1>4. CASE Drop
  <2>1. layers[layer] \in Seq(EMdata) /\ index \in 1 .. Len(layers[layer])
    BY <1>4, Visited DEF Drop
  <2>2. PICK f : IsErasure(f, layers[layer], index)
    BY <2>1, RemoveAtOrigin
  <2>3. /\ RemoveAt(layers[layer], index) \in Seq(EMdata)
        /\ Len(RemoveAt(layers[layer], index)) = Len(layers[layer]) - 1
    BY <2>1, RemoveAtProperties
  <2>4. /\ layers' \in [Layer -> Seq(EMdata)]
        /\ layers'[layer] = RemoveAt(layers[layer], index)
        /\ \A l \in Layer \ {layer} : layers'[l] = layers[l]
    BY <1>0, <1>4, <2>3 DEF Drop
  <2> DEFINE o == [p \in Places(layers') |-> IF p[1] = layer THEN <<layer, f[p[2]]>> ELSE p]
  <2>5. ASSUME NEW p \in Places(layers')
        PROVE  /\ o[p] \in Places(layers)
               /\ layers'[p[1]][p[2]].bnID = layers[o[p][1]][o[p][2]].bnID
               /\ p[1] \in Layer /\ p = <<p[1], p[2]>>
               /\ p[1] = layer => p[2] \in 1 .. Len(layers[layer]) - 1
    <3>1. p[1] \in Layer /\ p[2] \in 1 .. Len(layers'[p[1]]) /\ p = <<p[1], p[2]>>
      BY <2>4, PlacesFacts
    <3>2. CASE p[1] = layer
      <4>1. o[p] = <<layer, f[p[2]]>> /\ p[2] \in 1 .. Len(layers[layer]) - 1
        BY <2>3, <2>4, <3>1, <3>2
      <4>2. f[p[2]] \in 1 .. Len(layers[layer]) /\ layers'[layer][p[2]] = layers[layer][f[p[2]]]
        BY <2>2, <2>4, <4>1 DEF IsErasure
      <4> HIDE DEF o
      <4> QED BY <1>0, <3>1, <3>2, <4>1, <4>2, PlacesFacts
    <3>3. CASE p[1] # layer
      <4>1. o[p] = <<p[1], p[2]>> /\ layers'[p[1]] = layers[p[1]]
        BY <2>4, <3>1, <3>3
      <4> HIDE DEF o
      <4> QED BY <1>0, <3>1, <3>3, <4>1, PlacesFacts
    <3> QED BY <3>2, <3>3
  <2>6. ASSUME NEW p \in Places(layers'), NEW q \in Places(layers'), o[p] = o[q]
        PROVE  p = q
    <3>1. p[1] = q[1] /\ p[2] = q[2]
      BY <2>2, <2>5, <2>6 DEF IsErasure
    <3> QED BY <2>5, <3>1
  <2>7. IsOrigin(o, layers, layers')
    <3>1. o \in [Places(layers') -> Places(layers)]
      BY <2>5
    <3> HIDE DEF o
    <3> QED BY <2>5, <2>6, <3>1 DEF IsOrigin
  <2> QED BY <1>0, <2>7, OriginKeepsIds
<1>5. CASE Refill /\ layers' # layers
  <2>1. PICK new \in Seq(EMdata) :
           /\ layers' = [layers EXCEPT ![0] = @ \o new]
           /\ layers' \in [Layer -> Seq(EMdata)]
           /\ \A n \in 1 .. Len(new) : new[n].bnID = GetMaxID(layers) + n
    BY <1>5, RefillFacts
  <2>2. /\ layers'[0] = layers[0] \o new /\ layers[0] \in Seq(EMdata)
        /\ \A l \in Layer \ {0} : layers'[l] = layers[l]
    BY <1>0, <2>1, LayerFacts
  <2>3. /\ Len(layers'[0]) = Len(layers[0]) + Len(new)
        /\ Len(layers[0]) \in Nat /\ Len(new) \in Nat
        /\ \A n \in 1 .. Len(layers[0]) + Len(new) :
              layers'[0][n] = IF n <= Len(layers[0]) THEN layers[0][n] ELSE new[n - Len(layers[0])]
    BY <2>2, ConcatProperties, LenProperties
  <2>4. GetMaxID(layers) \in Int
        /\ \A p \in Places(layers) : GetMaxID(layers) >= layers[p[1]][p[2]].bnID
    BY <1>0, CountFacts
  <2>5. \A p \in Places(layers) : layers[p[1]][p[2]].bnID \in Int
    <3>1. \A r \in EMdata : r.bnID \in Int
      BY DEF EMdata
    <3> QED BY <1>0, <3>1, PlacesFacts
  <2> DEFINE Old(p) == p \in Places(layers) /\ layers'[p[1]][p[2]] = layers[p[1]][p[2]]
             New(p) == /\ p[1] = 0 /\ p[2] - Len(layers[0]) \in 1 .. Len(new)
                       /\ layers'[p[1]][p[2]].bnID = GetMaxID(layers) + (p[2] - Len(layers[0]))
  <2>6. ASSUME NEW p \in Places(layers')
        PROVE  p = <<p[1], p[2]>> /\ p[2] \in Int /\ (Old(p) \/ New(p))
    <3>1. p[1] \in Layer /\ p[2] \in 1 .. Len(layers'[p[1]]) /\ p = <<p[1], p[2]>>
      BY <2>1, PlacesFacts
    <3>2. CASE p[1] # 0
      <4>1. layers'[p[1]] = layers[p[1]]
        BY <2>2, <3>1, <3>2
      <4>2. <<p[1], p[2]>> \in Places(layers)
        BY <1>0, <3>1, <4>1, PlacesFacts
      <4> QED BY <3>1, <4>1, <4>2
    <3>3. CASE p[1] = 0 /\ p[2] <= Len(layers[0])
      <4>1. p[2] \in 1 .. Len(layers[0]) /\ layers'[0][p[2]] = layers[0][p[2]]
        BY <2>3, <3>1, <3>3
      <4>2. <<p[1], p[2]>> \in Places(layers)
        BY <1>0, <3>1, <3>3, <4>1, PlacesFacts
      <4> QED BY <3>1, <3>3, <4>1, <4>2
    <3>4. CASE p[1] = 0 /\ ~(p[2] <= Len(layers[0]))
      <4>1. p[2] - Len(layers[0]) \in 1 .. Len(new)
            /\ layers'[0][p[2]] = new[p[2] - Len(layers[0])]
        BY <2>3, <3>1, <3>4
      <4> QED BY <2>1, <3>1, <3>4, <4>1
    <3> QED BY <3>1, <3>2, <3>3, <3>4
  <2> SUFFICES ASSUME NEW p \in Places(layers'), NEW q \in Places(layers'),
                      layers'[p[1]][p[2]].bnID = layers'[q[1]][q[2]].bnID
               PROVE  p = q
    BY DEF DistinctIds
  <2>7. CASE Old(p) /\ Old(q)
    <3>1. layers[p[1]][p[2]].bnID = layers[q[1]][q[2]].bnID
      BY <2>7
    <3>2. p \in Places(layers) /\ q \in Places(layers)
      BY <2>7
    <3> QED BY <1>0, <3>1, <3>2 DEF DistinctIds
  <2>8. CASE New(p) /\ New(q)
    <3>1. p[1] = 0 /\ q[1] = 0 /\ p[2] \in Int /\ q[2] \in Int
      BY <2>6, <2>8
    <3>2. GetMaxID(layers) + (p[2] - Len(layers[0])) = GetMaxID(layers) + (q[2] - Len(layers[0]))
      BY <2>8
    <3>3. p[2] = q[2]
      BY <2>3, <2>4, <3>1, <3>2
    <3> QED BY <2>6, <3>1, <3>3
  <2>9. ASSUME NEW u \in Places(layers'), NEW v \in Places(layers'), Old(u), New(v)
        PROVE  layers'[u[1]][u[2]].bnID # layers'[v[1]][v[2]].bnID
    <3>1. layers'[u[1]][u[2]].bnID <= GetMaxID(layers) /\ layers'[u[1]][u[2]].bnID \in Int
      BY <2>4, <2>5, <2>9
    <3>2. v[2] - Len(layers[0]) \in 1 .. Len(new)
          /\ layers'[v[1]][v[2]].bnID = GetMaxID(layers) + (v[2] - Len(layers[0]))
      BY <2>9
    <3> QED BY <2>3, <2>4, <3>1, <3>2
  <2> QED BY <2>6, <2>7, <2>8, <2>9
<1> QED BY <1>1, <1>2, <1>3, <1>4, <1>5 DEF AlemNext, Keep, NextLayer, NoFGFound, alemVars

(* Identifiers stay distinct, so the next job's reducers never merge two    *)
(* runs.                                                                    *)
THEOREM IdsStayUnique == AlemSpec => []UniqueIds
<1>1. AlemInit => UniqueIds
  BY DEF AlemInit, StartPass, IsPopulation, UniqueIds
<1> QED BY <1>1, TypeInit, TypeStep, IdsStep, PTL DEF AlemSpec
(* ------------------------------------------------------------------------ *)

(* A move keeps the layer numbers right if what stays above is numbered so. *)
LEMMA MoveTags ==
    ASSUME TypeOK, LayerTags, Visiting, AgedOut,
           NEW others \in Seq(EMdata), MoveUpBehind(others),
           \A n \in 1 .. Len(others) : others[n].ALEM_layer = layer + 1
    PROVE  LayerTags'
<1> SUFFICES ASSUME NEW l \in Layer, NEW n \in DOMAIN layers'[l]
             PROVE  layers'[l][n].ALEM_layer = l
  BY DEF LayerTags, Tagged
<1> DEFINE moved == [em EXCEPT !.ALEM_layer = layer + 1]
<1>0. /\ layers \in [Layer -> Seq(EMdata)] /\ layer \in Layer
      /\ \A k \in Layer : \A m \in DOMAIN layers[k] : layers[k][m].ALEM_layer = k
  BY DEF TypeOK, LayerTags, Tagged
<1>1. /\ layers' \in [Layer -> Seq(EMdata)]
      /\ layers'[layer] = RemoveAt(layers[layer], index)
      /\ layers'[layer + 1] = Append(others, moved)
      /\ \A k \in Layer \ {layer, layer + 1} : layers'[k] = layers[k]
      /\ moved \in EMdata
  BY MoveUp
<1>2. n \in 1 .. Len(layers'[l]) /\ Len(layers'[l]) \in Nat
  BY <1>1, LenProperties
<1>3. CASE l = layer
  <2>1. /\ Len(layers'[l]) = Len(layers[layer]) - 1
        /\ \A m \in 1 .. index - 1 : layers'[l][m] = layers[layer][m]
        /\ \A m \in index .. Len(layers[layer]) - 1 : layers'[l][m] = layers[layer][m + 1]
    <3>1. /\ Len(RemoveAt(layers[layer], index)) = Len(layers[layer]) - 1
          /\ \A m \in 1 .. index - 1 : RemoveAt(layers[layer], index)[m] = layers[layer][m]
          /\ \A m \in index .. Len(layers[layer]) - 1 :
                RemoveAt(layers[layer], index)[m] = layers[layer][m + 1]
      BY Visited, RemoveAtProperties
    <3>2. layers'[l] = RemoveAt(layers[layer], index)
      BY <1>1, <1>3
    <3> QED BY <3>1, <3>2
  <2>2. /\ index \in 1 .. Len(layers[layer]) /\ Len(layers[layer]) \in Nat
        /\ DOMAIN layers[layer] = 1 .. Len(layers[layer])
    BY Visited, LenProperties
  <2>3. CASE n < index
    <3>1. layers'[l][n] = layers[layer][n] /\ n \in DOMAIN layers[layer]
      BY <1>2, <2>1, <2>2, <2>3
    <3> QED BY <1>0, <1>3, <3>1
  <2>4. CASE ~(n < index)
    <3>1. layers'[l][n] = layers[layer][n + 1] /\ n + 1 \in DOMAIN layers[layer]
      BY <1>2, <2>1, <2>2, <2>4
    <3> QED BY <1>0, <1>3, <3>1
  <2> QED BY <2>3, <2>4
<1>4. CASE l = layer + 1
  <2>1. /\ Len(Append(others, moved)) = Len(others) + 1
        /\ Len(others) \in Nat
        /\ Append(others, moved)[Len(others) + 1] = moved
        /\ \A m \in 1 .. Len(others) : Append(others, moved)[m] = others[m]
    BY <1>1, AppendProperties, LenProperties
  <2>2. moved.ALEM_layer = layer + 1
    BY Visited DEF EMdata
  <2>3. CASE n = Len(others) + 1
    BY <1>1, <1>4, <2>1, <2>2, <2>3
  <2>4. CASE n # Len(others) + 1
    <3>1. n \in 1 .. Len(others)
      BY <1>1, <1>2, <1>4, <2>1, <2>4
    <3> HIDE DEF moved
    <3> QED BY <1>1, <1>4, <2>1, <3>1
  <2> QED BY <2>3, <2>4
<1>5. CASE l # layer /\ l # layer + 1
  <2> HIDE DEF moved
  <2>1. l \in Layer \ {layer, layer + 1}
    BY <1>5
  <2>2. layers'[l] = layers[l]
    BY <1>1, <2>1
  <2> QED BY <1>0, <2>2
<1> QED BY <1>3, <1>4, <1>5

(* Every step of the pass keeps the layer numbers right. *)
LEMMA TagsStep == TypeOK /\ LayerTags /\ [AlemNext]_alemVars => LayerTags'
<1> SUFFICES ASSUME TypeOK, LayerTags, [AlemNext]_alemVars PROVE LayerTags'
  OBVIOUS
<1>0. /\ layers \in [Layer -> Seq(EMdata)] /\ layer \in Layer
      /\ \A k \in Layer : \A m \in DOMAIN layers[k] : layers[k][m].ALEM_layer = k
  BY DEF TypeOK, LayerTags, Tagged
<1>1. CASE layers' = layers
  BY <1>1 DEF LayerTags, Tagged
<1>a. ASSUME AgedOut
      PROVE  /\ next \in Seq(EMdata) /\ Len(next) \in Nat
             /\ \A m \in 1 .. Len(next) : next[m].ALEM_layer = layer + 1
  BY <1>0, <1>a, NextFacts DEF next
<1>2. CASE Promote
  BY <1>2, <1>a, MoveTags DEF Promote
<1>3. CASE Replace
  <2>1. PICK k \in Worse : MoveUpBehind(RemoveAt(next, k))
    BY <1>3 DEF Replace
  <2>2. k \in 1 .. Len(next)
    BY <1>3, NextFacts DEF Worse, Replace
  <2>3. /\ RemoveAt(next, k) \in Seq(EMdata)
        /\ Len(RemoveAt(next, k)) = Len(next) - 1
        /\ \A m \in 1 .. k - 1 : RemoveAt(next, k)[m] = next[m]
        /\ \A m \in k .. Len(next) - 1 : RemoveAt(next, k)[m] = next[m + 1]
    BY <1>3, <1>a, <2>2, RemoveAtProperties DEF Replace
  <2>4. ASSUME NEW m \in 1 .. Len(RemoveAt(next, k))
        PROVE  RemoveAt(next, k)[m].ALEM_layer = layer + 1
    <3>0. Len(next) \in Nat /\ \A i \in 1 .. Len(next) : next[i].ALEM_layer = layer + 1
      BY <1>3, <1>a DEF Replace
    <3>1. CASE m < k
      <4>1. RemoveAt(next, k)[m] = next[m] /\ m \in 1 .. Len(next)
        BY <2>2, <2>3, <3>0, <3>1
      <4> QED BY <3>0, <4>1
    <3>2. CASE ~(m < k)
      <4>1. RemoveAt(next, k)[m] = next[m + 1] /\ m + 1 \in 1 .. Len(next)
        BY <2>2, <2>3, <3>0, <3>2
      <4> QED BY <3>0, <4>1
    <3> QED BY <3>1, <3>2
  <2> QED BY <1>3, <2>1, <2>3, <2>4, MoveTags DEF Replace
<1>4. CASE Drop
  <2> SUFFICES ASSUME NEW l \in Layer, NEW n \in DOMAIN layers'[l]
               PROVE  layers'[l][n].ALEM_layer = l
    BY DEF LayerTags, Tagged
  <2>1. CASE l = layer
    <3>1. /\ layers'[l] = RemoveAt(layers[layer], index)
          /\ layers'[l] \in Seq(EMdata)
          /\ Len(layers'[l]) = Len(layers[layer]) - 1
          /\ \A m \in 1 .. index - 1 : layers'[l][m] = layers[layer][m]
          /\ \A m \in index .. Len(layers[layer]) - 1 : layers'[l][m] = layers[layer][m + 1]
      <4>1. layers'[l] = RemoveAt(layers[layer], index)
        BY <1>0, <1>4, <2>1 DEF Drop
      <4>2. /\ RemoveAt(layers[layer], index) \in Seq(EMdata)
            /\ Len(RemoveAt(layers[layer], index)) = Len(layers[layer]) - 1
            /\ \A m \in 1 .. index - 1 :
                  RemoveAt(layers[layer], index)[m] = layers[layer][m]
            /\ \A m \in index .. Len(layers[layer]) - 1 :
                  RemoveAt(layers[layer], index)[m] = layers[layer][m + 1]
        BY <1>4, Visited, RemoveAtProperties DEF Drop
      <4> QED BY <4>1, <4>2
    <3>2. /\ index \in 1 .. Len(layers[layer]) /\ Len(layers[layer]) \in Nat
          /\ DOMAIN layers[layer] = 1 .. Len(layers[layer])
          /\ n \in 1 .. Len(layers'[l])
      BY <1>4, <3>1, Visited, LenProperties DEF Drop
    <3>3. CASE n < index
      <4>1. layers'[l][n] = layers[layer][n] /\ n \in DOMAIN layers[layer]
        BY <3>1, <3>2, <3>3
      <4> QED BY <1>0, <2>1, <4>1
    <3>4. CASE ~(n < index)
      <4>1. layers'[l][n] = layers[layer][n + 1] /\ n + 1 \in DOMAIN layers[layer]
        BY <3>1, <3>2, <3>4
      <4> QED BY <1>0, <2>1, <4>1
    <3> QED BY <3>3, <3>4
  <2>2. CASE l # layer
    <3>1. layers'[l] = layers[l]
      BY <1>0, <1>4, <2>2 DEF Drop
    <3> QED BY <1>0, <3>1
  <2> QED BY <2>1, <2>2
<1>5. CASE Refill /\ layers' # layers
  <2>1. PICK new \in Seq(EMdata) :
           /\ layers' = [layers EXCEPT ![0] = @ \o new]
           /\ layers' \in [Layer -> Seq(EMdata)]
           /\ \A n \in 1 .. Len(new) : new[n].ALEM_layer = 0
    BY <1>5, RefillFacts
  <2> SUFFICES ASSUME NEW l \in Layer, NEW n \in DOMAIN layers'[l]
               PROVE  layers'[l][n].ALEM_layer = l
    BY DEF LayerTags, Tagged
  <2>2. CASE l = 0
    <3>1. layers'[0] = layers[0] \o new /\ layers[0] \in Seq(EMdata)
      BY <1>0, <2>1, LayerFacts
    <3>2. /\ Len(layers[0] \o new) = Len(layers[0]) + Len(new)
          /\ Len(layers[0]) \in Nat /\ Len(new) \in Nat
          /\ DOMAIN layers[0] = 1 .. Len(layers[0])
          /\ \A m \in 1 .. Len(layers[0]) + Len(new) :
                (layers[0] \o new)[m] =
                   IF m <= Len(layers[0]) THEN layers[0][m] ELSE new[m - Len(layers[0])]
      BY <3>1, ConcatProperties, LenProperties
    <3>3. n \in 1 .. Len(layers[0]) + Len(new)
      BY <2>1, <2>2, <3>1, <3>2, LenProperties
    <3>4. CASE n <= Len(layers[0])
      <4>1. layers'[l][n] = layers[0][n] /\ n \in DOMAIN layers[0]
        BY <2>2, <3>1, <3>2, <3>3, <3>4
      <4> QED BY <1>0, <2>2, <4>1
    <3>5. CASE ~(n <= Len(layers[0]))
      <4>1. layers'[l][n] = new[n - Len(layers[0])] /\ n - Len(layers[0]) \in 1 .. Len(new)
        BY <2>2, <3>1, <3>2, <3>3, <3>5
      <4> QED BY <2>1, <2>2, <4>1
    <3> QED BY <3>4, <3>5
  <2>3. CASE l # 0
    BY <1>0, <2>1, <2>3
  <2> QED BY <2>2, <2>3
<1> QED BY <1>1, <1>2, <1>3, <1>4, <1>5 DEF AlemNext, Keep, NextLayer, NoFGFound, alemVars

(* A run always carries the number of the layer it is in, so the next job   *)
(* sorts it back into that layer.                                           *)
THEOREM TagsStayRight == AlemSpec => []LayerTags
<1>1. AlemInit => LayerTags
  BY DEF AlemInit, StartPass, IsPopulation, LayerTags
<1> QED BY <1>1, TypeInit, TypeStep, TagsStep, PTL DEF AlemSpec

(* So every run is in the layer of its number and its age.                  *)
THEOREM PassStratifies == AlemSpec => []Stratified
BY WalkIsComplete, TagsStayRight, PTL DEF Stratified

(* ------------------------------------------------------------------------ *)

(* Runs that have just been created have not converged. *)
LEMMA FreshIterate ==
    ASSUME NEW k \in Nat, NEW id \in Nat, NEW fg \in [1 .. k -> Params],
           NEW unset \in Garbage
    PROVE  \A n \in 1 .. k : ~IsConverged(Fresh(k, id, fg, unset)[n])
<1> TAKE n \in 1 .. k
<1>1. Fresh(k, id, fg, unset)[n].iter = 0
  BY DEF Fresh, NewRun
<1> QED BY <1>1, EMDataAssumption DEF IsConverged

(* Unconverged runs that are appended to layer 0 add to the count. *)
LEMMA AppendCounts ==
    ASSUME NEW ls \in [Layer -> Seq(EMdata)], NEW new \in Seq(EMdata),
           \A n \in 1 .. Len(new) : ~IsConverged(new[n]),
           NEW more \in [Layer -> Seq(EMdata)], more = [ls EXCEPT ![0] = @ \o new]
    PROVE  GetNumRuns(more) >= GetNumRuns(ls) + Len(new)
<1> DEFINE Iterating(m) == {p \in Places(m) : ~IsConverged(m[p[1]][p[2]])}
           len == Len(ls[0])
           Added == {0} \X (len + 1 .. len + Len(new))
<1>1. /\ 0 \in Layer /\ ls[0] \in Seq(EMdata) /\ len \in Nat /\ Len(new) \in Nat
      /\ more[0] = ls[0] \o new
      /\ \A l \in Layer : l # 0 => more[l] = ls[l]
  BY LayerFacts, LenProperties
<1>2. /\ Len(more[0]) = len + Len(new)
      /\ \A n \in 1 .. len + Len(new) : more[0][n] = IF n <= len THEN ls[0][n] ELSE new[n - len]
  BY <1>1, ConcatProperties
<1>3. \A m \in [Layer -> Seq(EMdata)] :
         IsFiniteSet(Iterating(m)) /\ GetNumRuns(m) = Cardinality(Iterating(m))
  <2> TAKE m \in [Layer -> Seq(EMdata)]
  <2>1. Iterating(m) \subseteq Places(m) /\ IsFiniteSet(Places(m))
    BY PlacesFacts
  <2>2. GetNumRuns(m) = Cardinality(Iterating(m))
    BY DEF GetNumRuns
  <2> HIDE DEF Iterating
  <2> QED BY <2>1, <2>2, FS_Subset
<1>4. IsFiniteSet(Added) /\ Cardinality(Added) = Len(new)
  <2>1. IsFiniteSet(len + 1 .. len + Len(new))
        /\ Cardinality(len + 1 .. len + Len(new)) = Len(new)
    <3> DEFINE a == len + 1
               b == len + Len(new)
    <3>1. a \in Int /\ b \in Int
      BY <1>1
    <3>2. IsFiniteSet(a .. b) /\ Cardinality(a .. b) = IF a > b THEN 0 ELSE b - a + 1
      <4> HIDE DEF a, b
      <4> QED BY <3>1, FS_Interval
    <3>3. (IF a > b THEN 0 ELSE b - a + 1) = Len(new)
      <4> HIDE DEF len
      <4> QED BY <1>1
    <3> QED BY <3>2, <3>3
  <2>2. IsFiniteSet({0}) /\ Cardinality({0}) = 1
    BY FS_Singleton
  <2>3. Cardinality(Added) = Cardinality({0}) * Cardinality(len + 1 .. len + Len(new))
        /\ IsFiniteSet(Added)
    BY <2>1, <2>2, FS_Product
  <2>4. Cardinality(Added) = 1 * Len(new)
    BY <2>1, <2>2, <2>3
  <2> QED BY <1>1, <2>3, <2>4
<1>5. Iterating(ls) \subseteq Iterating(more)
  <2> SUFFICES ASSUME NEW p \in Iterating(ls) PROVE p \in Iterating(more)
    OBVIOUS
  <2>1. /\ p[1] \in Layer /\ p[2] \in 1 .. Len(ls[p[1]]) /\ p = <<p[1], p[2]>>
        /\ ~IsConverged(ls[p[1]][p[2]])
    BY PlacesFacts
  <2>2. p[2] \in 1 .. Len(more[p[1]]) /\ more[p[1]][p[2]] = ls[p[1]][p[2]]
    BY <1>1, <1>2, <2>1
  <2>3. <<p[1], p[2]>> \in Places(more)
    <3> HIDE DEF Iterating
    <3> QED BY <2>1, <2>2, PlacesFacts
  <2>4. p \in Places(more)
    BY <2>1, <2>3
  <2> QED BY <2>1, <2>2, <2>4
<1>6. Added \subseteq Iterating(more)
  <2> SUFFICES ASSUME NEW q \in Added PROVE q \in Iterating(more)
    OBVIOUS
  <2>0. PICK n \in len + 1 .. len + Len(new) : q = <<0, n>>
    OBVIOUS
  <2>1. n \in 1 .. Len(more[0]) /\ more[0][n] = new[n - len] /\ n - len \in 1 .. Len(new)
    BY <1>1, <1>2
  <2>2. <<0, n>> \in Places(more)
    BY <1>1, <2>1, PlacesFacts
  <2>3. ~IsConverged(more[0][n])
    BY <2>1
  <2> QED BY <2>0, <2>2, <2>3
<1>7. Iterating(ls) \cap Added = {}
  <2> SUFFICES ASSUME NEW p \in Iterating(ls), p \in Added PROVE FALSE
    OBVIOUS
  <2>1. p[1] = 0 /\ p[2] \in 1 .. len
    BY PlacesFacts
  <2>2. p[2] >= len + 1
    BY <1>1
  <2> QED BY <1>1, <2>1, <2>2
<1> HIDE DEF Iterating, Added, len
<1>8. IsFiniteSet(Iterating(ls) \cup Added)
      /\ Cardinality(Iterating(ls) \cup Added) = GetNumRuns(ls) + Len(new)
  <2>1. /\ IsFiniteSet(Iterating(ls) \cup Added)
        /\ Cardinality(Iterating(ls) \cup Added) = Cardinality(Iterating(ls))
              + Cardinality(Added) - Cardinality(Iterating(ls) \cap Added)
    <3>1. IsFiniteSet(Iterating(ls)) /\ IsFiniteSet(Added)
      BY <1>3, <1>4
    <3> QED BY <3>1, FS_Union
  <2>2. Cardinality(Iterating(ls) \cap Added) = 0
    BY <1>7, FS_EmptySet
  <2>3. Cardinality(Iterating(ls)) = GetNumRuns(ls) /\ GetNumRuns(ls) \in Nat
    BY <1>3, CountFacts
  <2> QED BY <1>1, <1>4, <2>1, <2>2, <2>3
<1>9. Cardinality(Iterating(ls) \cup Added) <= Cardinality(Iterating(more))
  <2>1. Iterating(ls) \cup Added \subseteq Iterating(more)
    BY <1>5, <1>6
  <2> QED BY <1>3, <2>1, FS_Subset
<1>10. GetNumRuns(ls) \in Nat /\ GetNumRuns(more) \in Nat
  BY CountFacts
<1>11. Cardinality(Iterating(more)) = GetNumRuns(more)
  BY <1>3
<1> QED BY <1>1, <1>8, <1>9, <1>10, <1>11

(* Filling up layer 0 leaves it full or enough runs iterating. *)
LEMMA RefillKeeps ==
    ASSUME TypeOK, Refill
    PROVE  Len(layers'[0]) >= MinRuns(0) \/ GetNumRuns(layers') >= MinRuns(0)
<1> DEFINE k == MinRuns(0) - GetNumRuns(layers)
           id == GetMaxID(layers) + 1
<1>1. layers \in [Layer -> Seq(EMdata)] /\ 0 \in Layer /\ layers[0] \in Seq(EMdata)
  BY LayerFacts DEF TypeOK
<1>2. GetNumRuns(layers) \in Nat /\ MinRuns(0) \in Nat /\ id \in Nat /\ Len(layers[0]) \in Nat
  BY <1>1, CountFacts, LayerFacts, LenProperties
<1>3. CASE ~(Len(layers[0]) < MinRuns(0) /\ k > 0)
  <2>1. layers' = layers
    BY <1>3 DEF Refill
  <2> QED BY <1>2, <1>3, <2>1
<1>4. CASE Len(layers[0]) < MinRuns(0) /\ k > 0
  <2>1. PICK fg \in [1 .. k -> Params], unset \in Garbage :
           layers' = [layers EXCEPT ![0] = @ \o Fresh(k, id, fg, unset)]
    BY <1>4 DEF Refill
  <2>2. k \in Nat
    BY <1>2, <1>4
  <2> DEFINE new == Fresh(k, id, fg, unset)
  <2>3. new \in Seq(EMdata) /\ Len(new) = k /\ \A n \in 1 .. k : ~IsConverged(new[n])
    <3> HIDE DEF k, id
    <3> QED BY <1>2, <2>2, FreshFacts, FreshIterate
  <2>4. layers' \in [Layer -> Seq(EMdata)]
    <3> HIDE DEF new
    <3>1. layers[0] \o new \in Seq(EMdata)
      BY <1>1, <2>3, ConcatProperties
    <3> QED BY <1>1, <2>1, <3>1 DEF new
  <2>5. GetNumRuns(layers') >= GetNumRuns(layers) + Len(new)
    <3> HIDE DEF k, id
    <3>1. layers' = [layers EXCEPT ![0] = @ \o new]
      BY <2>1
    <3> HIDE DEF new
    <3> QED BY <1>1, <2>3, <2>4, <3>1, AppendCounts
  <2>6. GetNumRuns(layers') \in Nat
    BY <2>4, CountFacts
  <2> HIDE DEF new
  <2> QED BY <1>2, <2>2, <2>3, <2>5, <2>6
<1> QED BY <1>3, <1>4

(* Every step of the pass leaves work to do. *)
LEMMA IteratingStep == TypeOK /\ KeepsIterating /\ [AlemNext]_alemVars => KeepsIterating'
<1> SUFFICES ASSUME TypeOK, KeepsIterating, [AlemNext]_alemVars, pc' = "done"
             PROVE  Len(layers'[0]) >= MinRuns(0) \/ GetNumRuns(layers') >= MinRuns(0)
  BY DEF KeepsIterating, GetNumRuns
<1>1. CASE Refill
  BY <1>1, RefillKeeps
<1>2. CASE UNCHANGED alemVars
  BY <1>2 DEF KeepsIterating, GetNumRuns, alemVars
<1>3. ~(Promote \/ Replace \/ Drop \/ Keep)
  BY DEF Promote, Replace, Drop, Keep, Visiting
<1>4. ~(NextLayer \/ NoFGFound)
  BY DEF NextLayer, NoFGFound
<1> QED BY <1>1, <1>2, <1>3, <1>4 DEF AlemNext

(* The pass leaves layer 0 full or MinRuns(0) runs iterating, so the next   *)
(* job has work to do.                                                      *)
THEOREM WorkIsLeft == AlemSpec => []KeepsIterating
<1>1. AlemInit => KeepsIterating
  BY DEF AlemInit, StartPass, KeepsIterating
<1> QED BY <1>1, TypeInit, TypeStep, IteratingStep, PTL DEF AlemSpec

(* ------------------------------------------------------------------------ *)

(* Where the runs are from that a step of the pass leaves: their own layer, *)
(* the layer below, if they were aged there, or made by alem().             *)
Stayed(l, n) == \E m \in 1 .. Len(layers[l]) : layers'[l][n] = layers[l][m]

CameUp(l, n) ==
    /\ l - 1 \in Layer /\ l - 1 < Top
    /\ \E m \in 1 .. Len(layers[l - 1]) :
          Aged(l - 1, m) /\ layers'[l][n] = [layers[l - 1][m] EXCEPT !.ALEM_layer = l]

WasMade(l, n) ==
    /\ l = 0
    /\ layers'[l][n].iter = 0 /\ layers'[l][n].likelihood = 0 /\ layers'[l][n].ALEM_layer = 0

(* Erasing from a layer keeps runs of it.                                   *)
LEMMA ErasureStays ==
    ASSUME NEW S, NEW s \in Seq(S), NEW i \in 1 .. Len(s), NEW n \in 1 .. Len(RemoveAt(s, i))
    PROVE  \E m \in 1 .. Len(s) : RemoveAt(s, i)[n] = s[m]
<1>1. PICK f : IsErasure(f, s, i)
  BY RemoveAtOrigin
<1>2. Len(RemoveAt(s, i)) = Len(s) - 1
  BY RemoveAtProperties
<1>3. f[n] \in 1 .. Len(s) /\ RemoveAt(s, i)[n] = s[f[n]]
  BY <1>1, <1>2 DEF IsErasure
<1>4. QED
  BY <1>3

(* Moving the run at index up adds one run to the layer above.              *)
LEMMA MoveSources ==
    ASSUME TypeOK, Visiting, AgedOut,
           NEW others \in Seq(EMdata), MoveUpBehind(others),
           \A n \in 1 .. Len(others) : \E m \in 1 .. Len(next) : others[n] = next[m],
           NEW l \in Layer, NEW n \in 1 .. Len(layers'[l])
    PROVE  Stayed(l, n) \/ CameUp(l, n)
<1> DEFINE moved == [em EXCEPT !.ALEM_layer = layer + 1]
<1>1. /\ layers' \in [Layer -> Seq(EMdata)]
      /\ layer + 1 \in Layer /\ layer + 1 # layer /\ layer \in Layer /\ layer \in Int
      /\ layers'[layer] = RemoveAt(layers[layer], index)
      /\ layers'[layer + 1] = Append(others, moved)
      /\ \A k \in Layer \ {layer, layer + 1} : layers'[k] = layers[k]
      /\ moved \in EMdata
  <2>1. layer \in Layer /\ layer \in Int
    BY LayerFacts DEF TypeOK
  <2> QED BY <2>1, MoveUp
<1>2. layers[layer] \in Seq(EMdata) /\ index \in 1 .. Len(layers[layer])
  BY Visited
<1>3. CASE l = layer
  <2>1. n \in 1 .. Len(RemoveAt(layers[layer], index))
    BY <1>1, <1>3
  <2>2. \E m \in 1 .. Len(layers[layer]) : RemoveAt(layers[layer], index)[n] = layers[layer][m]
    <3> DEFINE s == layers[layer]
    <3>1. s \in Seq(EMdata) /\ index \in 1 .. Len(s) /\ n \in 1 .. Len(RemoveAt(s, index))
      BY <1>2, <2>1
    <3> HIDE DEF s
    <3>2. \E m \in 1 .. Len(s) : RemoveAt(s, index)[n] = s[m]
      BY <3>1, ErasureStays
    <3> QED BY <3>2 DEF s
  <2> QED BY <1>1, <1>3, <2>2 DEF Stayed
<1>4. CASE l = layer + 1
  <2>1. /\ Len(Append(others, moved)) = Len(others) + 1
        /\ Len(others) \in Nat
        /\ Append(others, moved)[Len(others) + 1] = moved
        /\ \A m \in 1 .. Len(others) : Append(others, moved)[m] = others[m]
    BY <1>1, AppendProperties, LenProperties
  <2>2. n \in 1 .. Len(others) + 1 /\ layers'[l][n] = Append(others, moved)[n]
    BY <1>1, <1>4, <2>1
  <2>3. CASE n = Len(others) + 1
    <3>1. layers'[l][n] = moved
      BY <2>1, <2>2, <2>3
    <3>2. l - 1 = layer /\ layer < Top /\ Aged(layer, index)
      BY <1>1, <1>4 DEF AgedOut, Aged, em
    <3> QED BY <1>1, <1>2, <1>4, <3>1, <3>2 DEF CameUp, em
  <2>4. CASE n # Len(others) + 1
    <3> HIDE DEF moved
    <3>1. n \in 1 .. Len(others)
      BY <2>1, <2>2, <2>4
    <3>2. layers'[l][n] = others[n]
      BY <2>1, <2>2, <3>1
    <3> QED BY <1>4, <3>1, <3>2 DEF Stayed, next
  <2> QED BY <2>3, <2>4
<1>5. CASE l # layer /\ l # layer + 1
  <2> HIDE DEF moved
  <2>1. layers'[l] = layers[l]
    BY <1>1, <1>5
  <2> QED BY <2>1 DEF Stayed
<1> QED BY <1>3, <1>4, <1>5

(* Every run after a step of the pass was there, came up a layer, or was    *)
(* made by alem().                                                          *)
LEMMA PassSources ==
    ASSUME TypeOK, AlemNext, NEW l \in Layer, NEW n \in 1 .. Len(layers'[l])
    PROVE  Stayed(l, n) \/ (pc = "check" /\ CameUp(l, n)) \/ (pc = "refill" /\ WasMade(l, n))
<1>0. layers \in [Layer -> Seq(EMdata)] /\ layer \in Layer
  BY DEF TypeOK
<1>1. CASE layers' = layers
  BY <1>1 DEF Stayed
<1>2. CASE Promote
  BY <1>2, MoveSources, NextFacts DEF Promote, Visiting
<1>3. CASE Replace
  <2>1. PICK k \in Worse : MoveUpBehind(RemoveAt(next, k))
    BY <1>3 DEF Replace
  <2>2. k \in 1 .. Len(next) /\ next \in Seq(EMdata)
    BY <1>3, NextFacts DEF Worse, Replace
  <2>3. RemoveAt(next, k) \in Seq(EMdata)
    BY <2>2, RemoveAtProperties
  <2>4. \A i \in 1 .. Len(RemoveAt(next, k)) : \E m \in 1 .. Len(next) :
           RemoveAt(next, k)[i] = next[m]
    BY <2>2, ErasureStays
  <2> QED BY <1>3, <2>1, <2>3, <2>4, MoveSources DEF Replace, Visiting
<1>4. CASE Drop
  <2>1. layers' = [layers EXCEPT ![layer] = RemoveAt(@, index)]
    BY <1>4 DEF Drop
  <2>2. CASE l = layer
    <3>1. layers'[l] = RemoveAt(layers[layer], index)
      BY <1>0, <2>1, <2>2
    <3>2. layers[layer] \in Seq(EMdata) /\ index \in 1 .. Len(layers[layer])
      BY <1>4, Visited DEF Drop
    <3>3. \E m \in 1 .. Len(layers[layer]) : RemoveAt(layers[layer], index)[n] = layers[layer][m]
      BY <3>1, <3>2, ErasureStays
    <3> QED BY <2>2, <3>1, <3>3 DEF Stayed
  <2>3. CASE l # layer
    BY <1>0, <2>1, <2>3 DEF Stayed
  <2> QED BY <2>2, <2>3
<1>5. CASE Refill /\ layers' # layers
  <2>1. PICK new \in Seq(EMdata) :
           /\ layers' = [layers EXCEPT ![0] = @ \o new]
           /\ layers' \in [Layer -> Seq(EMdata)]
           /\ \A m \in 1 .. Len(new) :
                 new[m].iter = 0 /\ new[m].likelihood = 0 /\ new[m].ALEM_layer = 0
    BY <1>5, RefillFacts
  <2>2. CASE l = 0
    <3>1. layers'[0] = layers[0] \o new /\ layers[0] \in Seq(EMdata)
      BY <1>0, <2>1, LayerFacts
    <3>2. /\ Len(layers[0] \o new) = Len(layers[0]) + Len(new)
          /\ Len(layers[0]) \in Nat /\ Len(new) \in Nat
          /\ \A m \in 1 .. Len(layers[0]) + Len(new) :
                (layers[0] \o new)[m] =
                   IF m <= Len(layers[0]) THEN layers[0][m] ELSE new[m - Len(layers[0])]
      BY <3>1, ConcatProperties, LenProperties
    <3>3. n \in 1 .. Len(layers[0]) + Len(new)
      BY <2>2, <3>1, <3>2
    <3>4. CASE n <= Len(layers[0])
      <4>1. layers'[l][n] = layers[0][n] /\ n \in 1 .. Len(layers[0])
        BY <2>2, <3>1, <3>2, <3>3, <3>4
      <4> QED BY <2>2, <4>1 DEF Stayed
    <3>5. CASE ~(n <= Len(layers[0]))
      <4>1. layers'[l][n] = new[n - Len(layers[0])] /\ n - Len(layers[0]) \in 1 .. Len(new)
        BY <2>2, <3>1, <3>2, <3>3, <3>5
      <4> QED BY <1>5, <2>1, <2>2, <4>1 DEF WasMade, Refill
    <3> QED BY <3>4, <3>5
  <2>3. CASE l # 0
    BY <1>0, <2>1, <2>3 DEF Stayed
  <2> QED BY <2>2, <2>3
<1> QED BY <1>1, <1>2, <1>3, <1>4, <1>5 DEF AlemNext, Keep, NextLayer, NoFGFound
=============================================================================
