-------------------------- MODULE FactorGraphProofs --------------------------
(***************************************************************************)
(* Proofs about a factor graph through any sequence of calls (FactorGraph): *)
(* the products that its regions cache are never stale, and its backups     *)
(* keep the promise of Undo, for all graphs, values and numbers of calls.   *)
(* Nothing is supposed about what the factors are, or what the product of   *)
(* some of them is.                                                        *)
(*                                                                         *)
(* Then about the loops through the tables of factors (StateIteration): the *)
(* iterators that run side by side never disagree.  The values of the       *)
(* variables are the digits of the linear state, each in a range of its     *)
(* own: a number has only one set of digits, and a step carries in the same *)
(* way into every sum of the digits, with whatever weights.                 *)
(***************************************************************************)
EXTENDS FactorGraph, StateIteration

(* A vector of factors.                                                    *)
Vector(fs) == \E n \in Nat : fs = [I \in 1 .. n |-> fs[I]]

(* The fields of an object; backups are of factors that it has.             *)
IsObject(x) ==
    /\ x = [factors |-> x.factors, backup |-> x.backup, region |-> x.region, ors |-> x.ors, thrown |-> x.thrown]
    /\ Vector(x.factors)
    /\ DOMAIN x.backup \subseteq DOMAIN x.factors

Cached(x) == \A alpha \in DOMAIN x.ors : x.ors[alpha] = Hosted(x.factors, x.region, alpha)

ObjectInv == IsObject(fg) /\ Cached(fg)

(* What undoing everything would bring back to x.                          *)
BaseOf(x) == [I \in DOMAIN x.factors |-> IF I \in DOMAIN x.backup THEN x.backup[I] ELSE x.factors[I]]

-----------------------------------------------------------------------------
(* The calls of ObjectNext come down to four cases.                              *)
Replaces(x, y) ==
    \E facs : \E withBackup \in BOOLEAN :
        DOMAIN facs \subseteq DOMAIN x.factors /\ y = SetFactors(x, facs, withBackup)

BacksUp(x, y) == \E indices \in SUBSET DOMAIN x.factors : y = BackupFactors(x, indices)

Restores(x, y) == \E indices \in SUBSET DOMAIN x.backup : y = RestoreThose(x, indices)

FindsNothing(x, y) == y = [x EXCEPT !.thrown = "OBJECT_NOT_FOUND"]

LEMMA FourCases ==
    ASSUME IsObject(fg), ObjectNext
    PROVE  Replaces(fg, fg') \/ BacksUp(fg, fg') \/ Restores(fg, fg') \/ FindsNothing(fg, fg')
<1>1. CASE \E withBackup \in BOOLEAN : \E I \in DOMAIN fg.factors : SetFactor(I, withBackup) \/ ClampOne(I, withBackup)
  <2>1. PICK withBackup \in BOOLEAN, I \in DOMAIN fg.factors : SetFactor(I, withBackup) \/ ClampOne(I, withBackup)
    BY <1>1
  <2>2. PICK f : fg' = SetFactors(fg, [J \in {I} |-> f], withBackup)
    BY <2>1 DEF SetFactor, ClampOne, ClampFactor
  <2> QED BY <2>2 DEF Replaces
<1>2. CASE \E withBackup \in BOOLEAN : \E v \in VarsOf(fg.factors) : Clamp(v, withBackup) \/ Cut(v, withBackup)
  <2>1. PICK withBackup \in BOOLEAN, v \in VarsOf(fg.factors) : Clamp(v, withBackup) \/ Cut(v, withBackup)
    BY <1>2
  <2>2. nbV(fg.factors, v) \subseteq DOMAIN fg.factors
    BY DEF nbV
  <2>3. \E facs : DOMAIN facs = nbV(fg.factors, v) /\ fg' = SetFactors(fg, facs, withBackup)
    <3>1. CASE Clamp(v, withBackup)
      <4>1. PICK is : fg' = ClampVar(fg, v, is, withBackup)
        BY <3>1 DEF Clamp
      <4> DEFINE facs == [I \in nbV(fg.factors, v) |-> Times(fg.factors[I], Mask(v, is))]
      <4>2. fg' = SetFactors(fg, facs, withBackup)
        BY <4>1 DEF ClampVar
      <4> QED BY <4>2
    <3>2. CASE Cut(v, withBackup)
      <4> DEFINE facs == [I \in nbV(fg.factors, v) |-> Filled(fg.factors[I].vars, 1)]
      <4>1. fg' = SetFactors(fg, facs, withBackup)
        BY <3>2 DEF Cut, MakeCavity
      <4> QED BY <4>1
    <3> QED BY <2>1, <3>1, <3>2
  <2> QED BY <2>2, <2>3 DEF Replaces
<1>3. CASE Backup
  <2>1. CASE \E indices \in SUBSET DOMAIN fg.factors : fg' = BackupFactors(fg, indices)
    BY <2>1 DEF BacksUp
  <2>2. CASE \E vs \in SUBSET VarsOf(fg.factors) : fg' = BackupAround(fg, vs)
    <3>1. PICK vs : fg' = BackupFactors(fg, Touching(fg, DOMAIN fg.factors, vs))
      BY <2>2 DEF BackupAround
    <3>2. Touching(fg, DOMAIN fg.factors, vs) \in SUBSET DOMAIN fg.factors
      BY DEF Touching
    <3> QED BY <3>1, <3>2 DEF BacksUp
  <2> QED BY <1>3, <2>1, <2>2 DEF Backup
<1>4. CASE Restore
  <2>1. CASE \E I \in DOMAIN fg.factors : fg' = RestoreFactor(fg, I)
    <3>1. PICK I : fg' = RestoreFactor(fg, I)
      BY <2>1
    <3>2. CASE I \in DOMAIN fg.backup
      <4>1. {I} \in SUBSET DOMAIN fg.backup /\ fg' = RestoreThose(fg, {I})
        BY <3>1, <3>2 DEF RestoreFactor
      <4> QED BY <4>1 DEF Restores
    <3>3. CASE I \notin DOMAIN fg.backup
      BY <3>1, <3>3 DEF RestoreFactor, FindsNothing
    <3> QED BY <3>2, <3>3
  <2>2. CASE \E vs \in SUBSET VarsOf(fg.factors) : fg' = RestoreAround(fg, vs)
    <3>1. PICK vs : fg' = RestoreThose(fg, Touching(fg, DOMAIN fg.backup, vs))
      BY <2>2 DEF RestoreAround
    <3>2. Touching(fg, DOMAIN fg.backup, vs) \in SUBSET DOMAIN fg.backup
      BY DEF Touching
    <3> QED BY <3>1, <3>2 DEF Restores
  <2>3. CASE fg' = RestoreFactors(fg)
    BY <2>3 DEF RestoreFactors, Restores
  <2> QED BY <1>4, <2>1, <2>2, <2>3 DEF Restore
<1> QED BY <1>1, <1>2, <1>3, <1>4 DEF ObjectNext

-----------------------------------------------------------------------------
(* What is passed by a loop that throws at the first factor held already is *)
(* held by none.                                                           *)
LEMMA PassedAreFree ==
    ASSUME NEW x, IsObject(x), NEW indices \in SUBSET DOMAIN x.factors, NEW withBackup \in BOOLEAN
    PROVE  /\ Passed(x, indices, withBackup) \subseteq indices
           /\ withBackup => Passed(x, indices, withBackup) \cap DOMAIN x.backup = {}
           /\ ~withBackup => Passed(x, indices, withBackup) = indices
<1>1. DOMAIN x.factors \subseteq Int
  <2>1. PICK n \in Nat : DOMAIN x.factors = 1 .. n
    BY DEF IsObject, Vector
  <2> QED BY <2>1
<1>2. ASSUME withBackup, NEW I \in Passed(x, indices, withBackup), I \in DOMAIN x.backup PROVE FALSE
  <2>1. I \in indices /\ I \in Failing(x, indices, withBackup)
    BY <1>2 DEF Passed, Failing
  <2>2. I < I /\ I \in Int
    BY <1>1, <2>1 DEF Passed
  <2> QED BY <2>2
<1>3. Passed(x, indices, withBackup) \subseteq indices
  BY DEF Passed
<1>4. ~withBackup => Passed(x, indices, withBackup) = indices
  BY DEF Passed, Failing
<1> QED BY <1>2, <1>3, <1>4

(* setFactors field by field.                                              *)
SetTo(x, facs, withBackup, some, y) ==
    /\ y = [factors |-> y.factors, backup |-> y.backup, region |-> y.region, ors |-> y.ors, thrown |-> y.thrown]
    /\ y.factors = [I \in DOMAIN x.factors |-> IF I \in some THEN facs[I] ELSE x.factors[I]]
    /\ y.backup = IF withBackup THEN BackedUp(x, some) ELSE x.backup
    /\ y.region = x.region
    /\ y.ors = [alpha \in DOMAIN x.ors |-> IF alpha \in Outdated(x, facs, some)
                                           THEN Hosted(y.factors, x.region, alpha) ELSE x.ors[alpha]]

LEMMA SetFactorsFields ==
    ASSUME NEW x, IsObject(x), NEW facs, NEW withBackup \in BOOLEAN
    PROVE  SetTo(x, facs, withBackup, Passed(x, DOMAIN facs, withBackup), SetFactors(x, facs, withBackup))
<1> DEFINE y == SetFactors(x, facs, withBackup)
           some == Passed(x, DOMAIN facs, withBackup)
           fs == [I \in DOMAIN x.factors |-> IF I \in some THEN facs[I] ELSE x.factors[I]]
           bs == IF withBackup THEN BackedUp(x, some) ELSE x.backup
           os == [alpha \in DOMAIN x.ors |-> IF alpha \in Outdated(x, facs, some)
                                             THEN Hosted(fs, x.region, alpha) ELSE x.ors[alpha]]
           th == Outcome(x, DOMAIN facs, withBackup)
<1>1. y = [x EXCEPT !.factors = fs, !.backup = bs, !.ors = os, !.thrown = th]
  BY DEF SetFactors
<1>2. x = [factors |-> x.factors, backup |-> x.backup, region |-> x.region, ors |-> x.ors, thrown |-> x.thrown]
  BY DEF IsObject
<1> HIDE DEF y, some, fs, bs, os, th
<1>3. y = [factors |-> fs, backup |-> bs, region |-> x.region, ors |-> os, thrown |-> th]
  BY <1>1, <1>2
<1>4. y.factors = fs /\ y.backup = bs /\ y.region = x.region /\ y.ors = os /\ y.thrown = th
  BY <1>3
<1>5. os = [alpha \in DOMAIN x.ors |-> IF alpha \in Outdated(x, facs, some)
                                       THEN Hosted(y.factors, x.region, alpha) ELSE x.ors[alpha]]
  BY <1>4 DEF os
<1>6. SetTo(x, facs, withBackup, some, y)
  BY <1>3, <1>4, <1>5 DEF fs, bs, SetTo
<1> QED BY <1>6 DEF some, y

(* A region of which no factor has changed has the same product.            *)
LEMMA HostedUnchanged ==
    ASSUME NEW x, IsObject(x), NEW fs, DOMAIN fs = DOMAIN x.factors, NEW alpha,
           \A I \in DOMAIN fs : x.region.fac2OR[I] = alpha => fs[I] = x.factors[I]
    PROVE  Hosted(fs, x.region, alpha) = Hosted(x.factors, x.region, alpha)
<1> DEFINE K == {I \in DOMAIN fs : x.region.fac2OR[I] = alpha}
<1>1. IsFiniteSet(K) /\ K \in SUBSET Int
  <2>1. PICK n \in Nat : DOMAIN x.factors = 1 .. n
    BY DEF IsObject, Vector
  <2>2. IsFiniteSet(1 .. n)
    BY <2>1, FS_Interval
  <2>3. K \subseteq 1 .. n
    BY <2>1
  <2>4. 1 .. n \subseteq Int
    BY <2>1
  <2> HIDE DEF K
  <2>5. IsFiniteSet(K)
    BY <2>2, <2>3, FS_Subset
  <2> QED BY <2>3, <2>4, <2>5
<1>2. Ascending(K) \in [1 .. Cardinality(K) -> K]
  <2> HIDE DEF K
  <2> QED BY <1>1, AscendingFacts
<1>3. \A I \in K : fs[I] = x.factors[I]
  OBVIOUS
<1>4. K = {I \in DOMAIN x.factors : x.region.fac2OR[I] = alpha}
  OBVIOUS
<1>5. AtPositions(fs, K) = AtPositions(x.factors, K)
  <2> HIDE DEF K
  <2> QED BY <1>2, <1>3 DEF AtPositions
<1>6. Hosted(fs, x.region, alpha) = Embedded(ProductOf(AtPositions(fs, K)), x.region.ors[alpha])
  BY DEF Hosted
<1>7. Hosted(x.factors, x.region, alpha) = Embedded(ProductOf(AtPositions(x.factors, K)), x.region.ors[alpha])
  BY <1>4 DEF Hosted
<1> QED BY <1>5, <1>6, <1>7

LEMMA SetFactorsKeepsCache ==
    ASSUME NEW x, IsObject(x), Cached(x), NEW facs, DOMAIN facs \subseteq DOMAIN x.factors,
           NEW withBackup \in BOOLEAN, NEW y, y = SetFactors(x, facs, withBackup)
    PROVE  Cached(y)
<1> DEFINE some == Passed(x, DOMAIN facs, withBackup)
<1>1. /\ y.factors = [I \in DOMAIN x.factors |-> IF I \in some THEN facs[I] ELSE x.factors[I]]
      /\ y.region = x.region
      /\ y.ors = [alpha \in DOMAIN x.ors |-> IF alpha \in Outdated(x, facs, some)
                                             THEN Hosted(y.factors, x.region, alpha) ELSE x.ors[alpha]]
  <2>1. SetTo(x, facs, withBackup, some, y)
    BY SetFactorsFields
  <2> HIDE DEF some
  <2> QED BY <2>1 DEF SetTo
<1> SUFFICES ASSUME NEW alpha \in DOMAIN y.ors PROVE y.ors[alpha] = Hosted(y.factors, x.region, alpha)
  BY <1>1 DEF Cached
<1> HIDE DEF some
<1>2. CASE alpha \in Outdated(x, facs, some)
  BY <1>1, <1>2
<1>3. CASE alpha \notin Outdated(x, facs, some)
  <2>1. y.ors[alpha] = x.ors[alpha] /\ alpha \in DOMAIN x.ors
    BY <1>1, <1>3
  <2>2. x.ors[alpha] = Hosted(x.factors, x.region, alpha)
    BY <2>1 DEF Cached
  <2>3. \A I \in some : x.region.fac2OR[I] # alpha
    BY <1>3 DEF Outdated
  <2>4. \A I \in DOMAIN y.factors : x.region.fac2OR[I] = alpha => y.factors[I] = x.factors[I]
    BY <1>1, <2>3
  <2>5. DOMAIN y.factors = DOMAIN x.factors
    BY <1>1
  <2> QED BY <2>1, <2>2, <2>4, <2>5, HostedUnchanged
<1> QED BY <1>2, <1>3

-----------------------------------------------------------------------------
(* What a call leaves is again an object whose cache is right, and it is for *)
(* Undo a step or a stutter.                                               *)
Same(x, y) ==
    y.factors = x.factors /\ DOMAIN y.backup = DOMAIN x.backup /\ BaseOf(y) = BaseOf(x)

Held(x, y, some) ==
    /\ some \subseteq DOMAIN x.factors \ DOMAIN x.backup
    /\ \A I \in DOMAIN x.factors \ some : y.factors[I] = x.factors[I]
    /\ DOMAIN y.backup = DOMAIN x.backup \cup some
    /\ BaseOf(y) = BaseOf(x)

Changed(x, y) ==
    /\ BaseOf(y) = [I \in DOMAIN x.factors |-> IF I \in DOMAIN x.backup THEN BaseOf(x)[I] ELSE y.factors[I]]
    /\ DOMAIN y.backup = DOMAIN x.backup

TakenBack(x, y, some) ==
    /\ some \subseteq DOMAIN x.backup
    /\ y.factors = [I \in DOMAIN x.factors |-> IF I \in some THEN BaseOf(x)[I] ELSE x.factors[I]]
    /\ DOMAIN y.backup = DOMAIN x.backup \ some
    /\ BaseOf(y) = BaseOf(x)

KeepsPromise(x, y) ==
    /\ DOMAIN y.factors = DOMAIN x.factors
    /\ \/ Same(x, y) \/ Changed(x, y)
       \/ \E some \in SUBSET DOMAIN x.factors : Held(x, y, some) \/ TakenBack(x, y, some)

(* y has the fields of an object, and as many factors as x.                 *)
LEMMA ObjectAgain ==
    ASSUME NEW x, IsObject(x), NEW y,
           y = [factors |-> y.factors, backup |-> y.backup, region |-> y.region, ors |-> y.ors, thrown |-> y.thrown],
           y.factors = [I \in DOMAIN x.factors |-> y.factors[I]],
           DOMAIN y.backup \subseteq DOMAIN x.factors
    PROVE  IsObject(y)
<1>1. PICK n \in Nat : DOMAIN x.factors = 1 .. n
  BY DEF IsObject, Vector
<1>2. y.factors = [I \in 1 .. n |-> y.factors[I]]
  BY <1>1
<1>3. Vector(y.factors)
  BY <1>2 DEF Vector
<1>4. DOMAIN y.factors = DOMAIN x.factors
  BY <1>1, <1>2
<1> QED BY <1>3, <1>4 DEF IsObject

LEMMA AfterReplacing ==
    ASSUME NEW x, IsObject(x), NEW facs, DOMAIN facs \subseteq DOMAIN x.factors,
           NEW withBackup \in BOOLEAN, NEW y, y = SetFactors(x, facs, withBackup)
    PROVE  IsObject(y) /\ KeepsPromise(x, y)
<1> DEFINE some == Passed(x, DOMAIN facs, withBackup)
<1>1. /\ y = [factors |-> y.factors, backup |-> y.backup, region |-> y.region, ors |-> y.ors, thrown |-> y.thrown]
      /\ y.factors = [I \in DOMAIN x.factors |-> IF I \in some THEN facs[I] ELSE x.factors[I]]
      /\ y.backup = IF withBackup THEN BackedUp(x, some) ELSE x.backup
  <2>1. SetTo(x, facs, withBackup, some, y)
    BY SetFactorsFields
  <2> HIDE DEF some
  <2> QED BY <2>1 DEF SetTo
<1>2. /\ some \subseteq DOMAIN x.factors
      /\ withBackup => some \cap DOMAIN x.backup = {}
  BY PassedAreFree
<1>3. DOMAIN x.backup \subseteq DOMAIN x.factors
  BY DEF IsObject
<1> HIDE DEF some
<1>4. DOMAIN y.factors = DOMAIN x.factors /\ y.factors = [I \in DOMAIN x.factors |-> y.factors[I]]
  BY <1>1
<1>5. CASE withBackup
  <2>1. /\ DOMAIN y.backup = DOMAIN x.backup \cup some
        /\ \A I \in some : y.backup[I] = x.factors[I]
        /\ \A I \in DOMAIN x.backup \ some : y.backup[I] = x.backup[I]
    BY <1>1, <1>5 DEF BackedUp
  <2>2. IsObject(y)
    BY <1>1, <1>2, <1>3, <1>4, <2>1, ObjectAgain
  <2>3. BaseOf(y) = BaseOf(x)
    BY <1>1, <1>2, <1>4, <1>5, <2>1 DEF BaseOf
  <2>4. Held(x, y, some)
    BY <1>1, <1>2, <1>5, <2>1, <2>3 DEF Held
  <2> QED BY <1>2, <1>4, <2>2, <2>4 DEF KeepsPromise
<1>6. CASE ~withBackup
  <2>1. y.backup = x.backup
    BY <1>1, <1>6
  <2>2. IsObject(y)
    BY <1>1, <1>3, <1>4, <2>1, ObjectAgain
  <2>3. Changed(x, y)
    BY <1>3, <1>4, <2>1 DEF Changed, BaseOf
  <2> QED BY <1>4, <2>2, <2>3 DEF KeepsPromise
<1> QED BY <1>5, <1>6

LEMMA AfterBackingUp ==
    ASSUME NEW x, IsObject(x), Cached(x), NEW indices \in SUBSET DOMAIN x.factors,
           NEW y, y = BackupFactors(x, indices)
    PROVE  IsObject(y) /\ Cached(y) /\ KeepsPromise(x, y)
<1> DEFINE some == Passed(x, indices, TRUE)
           bs == BackedUp(x, some)
           th == Outcome(x, indices, TRUE)
<1>1. some \subseteq DOMAIN x.factors /\ some \cap DOMAIN x.backup = {}
  BY PassedAreFree
<1>2. y = [x EXCEPT !.backup = bs, !.thrown = th]
  BY DEF BackupFactors
<1>3. /\ x = [factors |-> x.factors, backup |-> x.backup, region |-> x.region, ors |-> x.ors, thrown |-> x.thrown]
      /\ DOMAIN x.backup \subseteq DOMAIN x.factors
  BY DEF IsObject
<1>4. /\ y = [factors |-> y.factors, backup |-> y.backup, region |-> y.region, ors |-> y.ors, thrown |-> y.thrown]
      /\ y.factors = x.factors /\ y.backup = bs /\ y.region = x.region /\ y.ors = x.ors
  <2> HIDE DEF bs, th
  <2>1. y = [factors |-> x.factors, backup |-> bs, region |-> x.region, ors |-> x.ors, thrown |-> th]
    BY <1>2, <1>3
  <2> QED BY <2>1
<1>5. /\ DOMAIN y.backup = DOMAIN x.backup \cup some
      /\ \A I \in some : y.backup[I] = x.factors[I]
      /\ \A I \in DOMAIN x.backup \ some : y.backup[I] = x.backup[I]
  <2> HIDE DEF some
  <2> QED BY <1>4 DEF BackedUp
<1> HIDE DEF some, bs, th
<1>6. y.factors = [I \in DOMAIN x.factors |-> y.factors[I]]
  BY <1>4 DEF IsObject, Vector
<1>7. IsObject(y)
  BY <1>1, <1>3, <1>4, <1>5, <1>6, ObjectAgain
<1>8. Cached(y)
  BY <1>4 DEF Cached
<1>9. BaseOf(y) = BaseOf(x)
  BY <1>1, <1>4, <1>5 DEF BaseOf
<1>10. Held(x, y, some)
  BY <1>1, <1>4, <1>5, <1>9 DEF Held
<1> QED BY <1>1, <1>4, <1>7, <1>8, <1>10 DEF KeepsPromise

LEMMA AfterRestoring ==
    ASSUME NEW x, IsObject(x), Cached(x), NEW indices \in SUBSET DOMAIN x.backup,
           NEW y, y = RestoreThose(x, indices)
    PROVE  IsObject(y) /\ Cached(y) /\ KeepsPromise(x, y)
<1> DEFINE facs == [I \in indices |-> x.backup[I]]
           z == SetFactors(x, facs, FALSE)
           bs == [I \in DOMAIN z.backup \ indices |-> z.backup[I]]
<1>1. DOMAIN x.backup \subseteq DOMAIN x.factors /\ DOMAIN facs = indices /\ indices \subseteq DOMAIN x.factors
  BY DEF IsObject
<1>2. IsObject(z) /\ Cached(z)
  <2>1. DOMAIN facs \subseteq DOMAIN x.factors /\ FALSE \in BOOLEAN
    BY <1>1
  <2> HIDE DEF facs
  <2> QED BY <2>1, AfterReplacing, SetFactorsKeepsCache
<1>3. Passed(x, indices, FALSE) = indices
  BY <1>1, PassedAreFree
<1>4. /\ z.factors = [I \in DOMAIN x.factors |-> IF I \in indices THEN x.backup[I] ELSE x.factors[I]]
      /\ z.backup = x.backup
  <2>1. DOMAIN facs \subseteq DOMAIN x.factors /\ FALSE \in BOOLEAN /\ indices = Passed(x, DOMAIN facs, FALSE)
    BY <1>1, <1>3
  <2>2. \A I \in indices : facs[I] = x.backup[I]
    OBVIOUS
  <2> HIDE DEF facs, z
  <2>3. z = SetFactors(x, facs, FALSE)
    BY DEF z
  <2>4. SetTo(x, facs, FALSE, indices, z)
    BY <2>1, <2>3, SetFactorsFields
  <2> QED BY <2>2, <2>4 DEF SetTo
<1>5. y = [z EXCEPT !.backup = bs]
  BY DEF RestoreThose
<1> HIDE DEF z, facs
<1>6. z = [factors |-> z.factors, backup |-> z.backup, region |-> z.region, ors |-> z.ors, thrown |-> z.thrown]
  BY <1>2 DEF IsObject
<1>7. /\ y = [factors |-> y.factors, backup |-> y.backup, region |-> y.region, ors |-> y.ors, thrown |-> y.thrown]
      /\ y.factors = z.factors /\ y.backup = bs /\ y.region = z.region /\ y.ors = z.ors
  <2> HIDE DEF bs
  <2>1. y = [factors |-> z.factors, backup |-> bs, region |-> z.region, ors |-> z.ors, thrown |-> z.thrown]
    BY <1>5, <1>6
  <2> QED BY <2>1
<1>8. /\ DOMAIN y.backup = DOMAIN x.backup \ indices
      /\ \A I \in DOMAIN x.backup \ indices : y.backup[I] = x.backup[I]
  BY <1>4, <1>7
<1> HIDE DEF bs
<1>9. y.factors = [I \in DOMAIN x.factors |-> IF I \in indices THEN x.backup[I] ELSE x.factors[I]]
  BY <1>4, <1>7
<1>10. IsObject(y)
  <2>1. y.factors = [I \in DOMAIN x.factors |-> y.factors[I]]
    BY <1>9
  <2>2. DOMAIN y.backup \subseteq DOMAIN x.factors
    BY <1>1, <1>8
  <2> QED BY <1>7, <2>1, <2>2, ObjectAgain
<1>11. Cached(y)
  BY <1>2, <1>7 DEF Cached
<1>12. BaseOf(y) = BaseOf(x)
  BY <1>1, <1>8, <1>9 DEF BaseOf
<1>13. TakenBack(x, y, indices)
  <2>1. \A I \in indices : BaseOf(x)[I] = x.backup[I]
    BY <1>1 DEF BaseOf
  <2> QED BY <1>1, <1>8, <1>9, <1>12, <2>1 DEF TakenBack
<1> QED BY <1>1, <1>9, <1>10, <1>11, <1>13 DEF KeepsPromise

LEMMA AfterFindingNothing ==
    ASSUME NEW x, IsObject(x), Cached(x), NEW y, FindsNothing(x, y)
    PROVE  IsObject(y) /\ Cached(y) /\ KeepsPromise(x, y)
<1>1. /\ y = [factors |-> y.factors, backup |-> y.backup, region |-> y.region, ors |-> y.ors, thrown |-> y.thrown]
      /\ y.factors = x.factors /\ y.backup = x.backup /\ y.region = x.region /\ y.ors = x.ors
  <2>1. x = [factors |-> x.factors, backup |-> x.backup, region |-> x.region, ors |-> x.ors, thrown |-> x.thrown]
    BY DEF IsObject
  <2>2. y = [factors |-> x.factors, backup |-> x.backup, region |-> x.region, ors |-> x.ors, thrown |-> "OBJECT_NOT_FOUND"]
    BY <2>1 DEF FindsNothing
  <2> QED BY <2>2
<1>2. IsObject(y)
  BY <1>1 DEF IsObject
<1>3. Cached(y)
  BY <1>1 DEF Cached
<1>4. Same(x, y)
  BY <1>1 DEF Same, BaseOf
<1> QED BY <1>1, <1>2, <1>3, <1>4 DEF KeepsPromise

-----------------------------------------------------------------------------
LEMMA ObjectInvInit == ObjectInit => ObjectInv
<1> SUFFICES ASSUME ObjectInit PROVE ObjectInv
  OBVIOUS
<1>1. PICK graph \in Graphs : fg = NewObject(graph.factors, graph.clusters)
  BY DEF ObjectInit
<1> DEFINE region == CVMRegions([I \in DOMAIN graph.factors |-> graph.factors[I].vars], graph.clusters)
           thrown == IF AllHosted(region) THEN "" ELSE "ASSERTION_FAILED"
           hosted == [alpha \in DOMAIN region.ors |-> Hosted(graph.factors, region, alpha)]
<1>2. fg = [factors |-> graph.factors, backup |-> << >>, region |-> region, ors |-> hosted, thrown |-> thrown]
  BY <1>1 DEF NewObject
<1>3. Vector(graph.factors)
  BY GraphsAreFinite DEF Vector
<1>4. DOMAIN << >> = {}
  OBVIOUS
<1> HIDE DEF region, thrown
<1>5. IsObject(fg)
  <2> HIDE DEF hosted
  <2> QED BY <1>2, <1>3, <1>4 DEF IsObject
<1>6. Cached(fg)
  <2>1. fg.ors = hosted /\ fg.factors = graph.factors /\ fg.region = region
    BY <1>2
  <2> QED BY <2>1 DEF Cached
<1> QED BY <1>5, <1>6 DEF ObjectInv

LEMMA ObjectInvStep ==
    ASSUME ObjectInv, [ObjectNext]_objectVars
    PROVE  ObjectInv' /\ (UNCHANGED fg \/ KeepsPromise(fg, fg'))
<1>1. CASE UNCHANGED objectVars
  BY <1>1 DEF objectVars, ObjectInv, IsObject, Vector, Cached
<1>2. CASE ObjectNext
  <2>1. IsObject(fg) /\ Cached(fg)
    BY DEF ObjectInv
  <2>2. IsObject(fg') /\ Cached(fg') /\ KeepsPromise(fg, fg')
    <3>1. CASE Replaces(fg, fg')
      <4>1. PICK facs : \E withBackup \in BOOLEAN :
               DOMAIN facs \subseteq DOMAIN fg.factors /\ fg' = SetFactors(fg, facs, withBackup)
        BY <3>1 DEF Replaces
      <4>2. PICK withBackup \in BOOLEAN :
               DOMAIN facs \subseteq DOMAIN fg.factors /\ fg' = SetFactors(fg, facs, withBackup)
        BY <4>1
      <4> QED BY <2>1, <4>2, AfterReplacing, SetFactorsKeepsCache
    <3>2. CASE BacksUp(fg, fg')
      BY <2>1, <3>2, AfterBackingUp DEF BacksUp
    <3>3. CASE Restores(fg, fg')
      BY <2>1, <3>3, AfterRestoring DEF Restores
    <3>4. CASE FindsNothing(fg, fg')
      BY <2>1, <3>4, AfterFindingNothing
    <3> QED BY <1>2, <2>1, <3>1, <3>2, <3>3, <3>4, FourCases
  <2> QED BY <2>2 DEF ObjectInv, IsObject, Vector, Cached
<1> QED BY <1>1, <1>2

(* Through any calls: an object's fields are well typed, backups are of its *)
(* factors, and each region's product is of its factors as they are.        *)
THEOREM ObjectsHold == ObjectSpec => []ObjectInv
<1>1. ObjectInit => ObjectInv
  BY ObjectInvInit
<1>2. ObjectInv /\ [ObjectNext]_objectVars => ObjectInv'
  BY ObjectInvStep
<1> QED BY <1>1, <1>2, PTL DEF ObjectSpec

(* The product that a region caches (RegionGraph::_ORs) is never stale:     *)
(* neither after an exception between two factors of a call, nor for a      *)
(* region that shares no variable with the factors that it hosts.           *)
THEOREM CachesAreNeverStale == ObjectSpec => []RegionsAreProducts
<1>1. ObjectInv => RegionsAreProducts
  BY DEF ObjectInv, Cached, RegionsAreProducts
<1> QED BY <1>1, ObjectsHold, PTL

(* Every call keeps what Undo promises.                                    *)
THEOREM BackupsKeepThePromise == ObjectSpec => ImplementsUndo
<1>1. ObjectInit => Promised!Init
  <2> SUFFICES ASSUME ObjectInit PROVE Base = fg.factors /\ DOMAIN fg.backup = {}
    BY DEF Promised!Init
  <2>1. PICK graph \in Graphs : fg = NewObject(graph.factors, graph.clusters)
    BY DEF ObjectInit
  <2>2. fg.backup = << >> /\ fg.factors = graph.factors
    BY <2>1 DEF NewObject
  <2>3. fg.factors = [I \in DOMAIN fg.factors |-> fg.factors[I]]
    BY <2>2, GraphsAreFinite
  <2>4. DOMAIN fg.backup = {}
    BY <2>2
  <2> QED BY <2>3, <2>4 DEF Base
<1>2. ObjectInv /\ [ObjectNext]_objectVars => [Promised!Next]_<<fg.factors, Base, DOMAIN fg.backup>>
  <2> SUFFICES ASSUME ObjectInv, [ObjectNext]_objectVars PROVE [Promised!Next]_<<fg.factors, Base, DOMAIN fg.backup>>
    OBVIOUS
  <2>1. CASE UNCHANGED fg
    BY <2>1 DEF Base
  <2>2. CASE KeepsPromise(fg, fg')
    <3>1. Base = BaseOf(fg) /\ Base' = BaseOf(fg')
      BY DEF Base, BaseOf
    <3>2. CASE Same(fg, fg')
      BY <3>1, <3>2 DEF Same
    <3>3. CASE Changed(fg, fg')
      <4>1. Promised!Change
        BY <2>2, <3>1, <3>3 DEF Changed, KeepsPromise, Promised!Change, Promised!SameFactors, Promised!Factors
      <4> QED BY <4>1 DEF Promised!Next
    <3>4. CASE \E some \in SUBSET DOMAIN fg.factors : Held(fg, fg', some)
      <4>1. PICK some \in SUBSET DOMAIN fg.factors : Held(fg, fg', some)
        BY <3>4
      <4>2. Promised!Hold(some)
        BY <2>2, <3>1, <4>1 DEF Held, KeepsPromise, Promised!Hold, Promised!SameFactors, Promised!Factors
      <4> QED BY <4>2 DEF Promised!Next, Promised!Factors
    <3>5. CASE \E some \in SUBSET DOMAIN fg.factors : TakenBack(fg, fg', some)
      <4>1. PICK some \in SUBSET DOMAIN fg.factors : TakenBack(fg, fg', some)
        BY <3>5
      <4>2. Promised!Undone(some)
        BY <3>1, <4>1 DEF TakenBack, Promised!Undone, Promised!Factors
      <4> QED BY <4>2 DEF Promised!Next, Promised!Factors
    <3> QED BY <2>2, <3>2, <3>3, <3>4, <3>5 DEF KeepsPromise
  <2> QED BY <2>1, <2>2, ObjectInvStep
<1> QED BY <1>1, <1>2, ObjectsHold, PTL DEF ObjectSpec, ImplementsUndo, Promised!Spec

-----------------------------------------------------------------------------
(* A quotient and a remainder are known by what they make up.               *)
LEMMA DivMod ==
    ASSUME NEW b \in Nat \ {0}, NEW q \in Int, NEW r \in 0 .. b - 1, NEW a \in Int, a = b * q + r
    PROVE  a \div b = q /\ a % b = r
OBVIOUS

(* ... and make up the number that was divided.                             *)
LEMMA DivFacts ==
    ASSUME NEW b \in Nat \ {0}, NEW a \in Nat
    PROVE  /\ a \div b \in Nat /\ a % b \in 0 .. b - 1
           /\ a = b * (a \div b) + (a % b)
OBVIOUS

(* A number below V and a multiple of V can be told apart in their sum.     *)
LEMMA DigitsEqual ==
    ASSUME NEW V \in Nat \ {0}, NEW a \in 0 .. V - 1, NEW b \in 0 .. V - 1, NEW d \in Int, NEW e \in Int,
           a + d * V = b + e * V
    PROVE a = b /\ d = e
<1>1. CASE d < e
  <2>1. d + 1 <= e
    BY <1>1
  <2>2. (d+1)*V <= e*V
    BY <2>1
  <2> QED BY <2>2
<1>2. CASE e < d
  <2>1. e + 1 <= d
    BY <1>2
  <2>2. (e+1)*V <= d*V
    BY <2>1
  <2> QED BY <2>2
<1>3. CASE e = d
  BY <1>3
<1> QED BY <1>1, <1>2, <1>3

(* Division by b and then by c leaves the remainder of a division by b * c. *)
LEMMA Modulo ==
    ASSUME NEW a \in Nat, NEW b \in Nat \ {0}, NEW c \in Nat \ {0}
    PROVE  /\ b * c \in Nat \ {0}
           /\ a % (b * c) = (a % b) + ((a \div b) % c) * b
<1> DEFINE q == a \div b
           rest == a % b
           t == q \div c
           u == q % c
<1>1. q \in Nat /\ rest \in 0 .. b - 1 /\ a = b * q + rest
  BY DivFacts
<1>2. t \in Nat /\ u \in 0 .. c - 1 /\ q = c * t + u
  BY <1>1, DivFacts
<1>3. b * c \in Nat \ {0}
  OBVIOUS
<1> HIDE DEF q, rest, t, u
<1>4. u * b + rest \in 0 .. (b * c) - 1
  <2>1. u * b >= 0 /\ u * b \in Int
    BY <1>2
  <2>2. u * b <= (c - 1) * b
    BY <1>2
  <2> QED BY <2>1, <2>2, <1>1
<1>5. a = (b * c) * t + (u * b + rest)
  BY <1>1, <1>2
<1>6. a % (b * c) = u * b + rest
  <2> DEFINE bc == b * c
             m == u * b + rest
  <2>1. bc \in Nat \ {0} /\ m \in 0 .. bc - 1 /\ a = bc * t + m /\ t \in Int
    BY <1>2, <1>3, <1>4, <1>5
  <2> HIDE DEF bc, m
  <2>2. a % bc = m
    BY <2>1, DivMod
  <2> QED BY <2>2 DEF bc, m
<1> QED BY <1>1, <1>2, <1>3, <1>6 DEF q, rest, t, u

(* V[k] is the product of the first k ranges, for k up to n.                *)
VolumesUpto(V, r, n) ==
    /\ V \in [0 .. n -> Nat \ {0}]
    /\ V[0] = 1
    /\ \A k \in 1 .. n : V[k] = V[k - 1] * r[k]

IsVolumes(V, r) == VolumesUpto(V, r, Len(r))

(* What FoldLeft of Volume goes through, for the first n ranges.            *)
IsFold(fold, r, n) ==
    fold = [T \in SUBSET (1 .. n) |-> IF T = {} THEN 1 ELSE fold[T \ {Max(T)}] * r[Max(T)]]

(* The greatest element of a set of integers, as FoldLeft looks for it.     *)
LEMMA LastIsMax ==
    ASSUME NEW m \in Nat, NEW T, m \in T, T \subseteq Int, \A i \in T : i <= m
    PROVE  Max(T) = m
<1>1. \A x \in T : (\A y \in T : x >= y) => x = m
  <2> TAKE x \in T
  <2> HAVE \A y \in T : x >= y
  <2>1. x >= m /\ x <= m /\ x \in Int
    OBVIOUS
  <2> QED BY <2>1
<1>2. \A y \in T : m >= y
  OBVIOUS
<1> QED BY <1>1, <1>2 DEF Max

(* Any ranges have volumes.                                                 *)
LEMMA VolumesExist ==
    ASSUME NEW r \in Seq(Nat \ {0})
    PROVE  \E V : IsVolumes(V, r)
<1> DEFINE n == Len(r)
           P == {m \in Nat : m <= n => \E V : VolumesUpto(V, r, m)}
<1>1. n \in Nat /\ \A k \in 1 .. n : r[k] \in Nat \ {0}
  OBVIOUS
<1> HIDE DEF n
<1>2. 0 \in P
  <2>1. VolumesUpto([k \in 0 .. 0 |-> 1], r, 0)
    BY DEF VolumesUpto
  <2> QED BY <2>1
<1>3. ASSUME NEW m \in Nat, m \in P PROVE m + 1 \in P
  <2> SUFFICES ASSUME m + 1 <= n PROVE \E V : VolumesUpto(V, r, m + 1)
    OBVIOUS
  <2>1. PICK V : VolumesUpto(V, r, m)
    BY <1>1, <1>3
  <2> DEFINE W == [k \in 0 .. m + 1 |-> IF k <= m THEN V[k] ELSE V[m] * r[m + 1]]
  <2>2. V[m] \in Nat \ {0} /\ r[m + 1] \in Nat \ {0}
    BY <1>1, <2>1 DEF VolumesUpto
  <2>3. V[m] * r[m + 1] \in Nat \ {0}
    BY <2>2
  <2>4. W \in [0 .. m + 1 -> Nat \ {0}]
    BY <2>1, <2>3 DEF VolumesUpto
  <2>5. \A k \in 1 .. m + 1 : W[k] = W[k - 1] * r[k]
    BY <2>1 DEF VolumesUpto
  <2>6. W[0] = 1
    BY <2>1 DEF VolumesUpto
  <2>7. VolumesUpto(W, r, m + 1)
    <3> HIDE DEF W
    <3> QED BY <2>4, <2>5, <2>6 DEF VolumesUpto
  <2> QED BY <2>7
<1>4. Nat \subseteq P
  <2> HIDE DEF P
  <2> QED BY <1>2, <1>3, SetInduction
<1>5. PICK V : VolumesUpto(V, r, n)
  BY <1>1, <1>4
<1> QED BY <1>5 DEF IsVolumes, n

(* Volume is the last of them: FoldLeft multiplies one range after the      *)
(* other.                                                                   *)
LEMMA VolumeIs ==
    ASSUME NEW r \in Seq(Nat \ {0}), NEW V, IsVolumes(V, r)
    PROVE  Volume(r) = V[Len(r)]
<1> DEFINE n == Len(r)
           P == {m \in Nat : m <= n => \E fold : IsFold(fold, r, m)}
<1>1. n \in Nat /\ DOMAIN r = 1 .. n /\ \A k \in 1 .. n : r[k] \in Nat \ {0}
  OBVIOUS
<1>2. Volume(r) = (CHOOSE fold : IsFold(fold, r, n))[1 .. n]
  BY <1>1 DEF Volume, FoldLeft, MapThenFoldSet, IsFold
<1> HIDE DEF n
<1>3. 0 \in P
  <2>1. IsFold([T \in SUBSET (1 .. 0) |-> 1], r, 0)
    BY DEF IsFold
  <2> QED BY <2>1
<1>4. ASSUME NEW m \in Nat, m \in P PROVE m + 1 \in P
  <2> SUFFICES ASSUME m + 1 <= n PROVE \E fold : IsFold(fold, r, m + 1)
    OBVIOUS
  <2>1. PICK fold : IsFold(fold, r, m)
    BY <1>1, <1>4
  <2> DEFINE next == [T \in SUBSET (1 .. m + 1) |->
                        IF m + 1 \in T THEN fold[T \ {m + 1}] * r[m + 1] ELSE fold[T]]
  <2>2. ASSUME NEW T \in SUBSET (1 .. m + 1)
        PROVE  next[T] = IF T = {} THEN 1 ELSE next[T \ {Max(T)}] * r[Max(T)]
    <3>1. CASE m + 1 \in T
      <4>1. Max(T) = m + 1
        <5>1. m + 1 \in Nat /\ T \subseteq Int /\ \A i \in T : i <= m + 1
          OBVIOUS
        <5> QED BY <3>1, <5>1, LastIsMax
      <4>2. T \ {m + 1} \in SUBSET (1 .. m + 1) /\ m + 1 \notin T \ {m + 1}
        OBVIOUS
      <4> QED BY <3>1, <4>1, <4>2
    <3>2. CASE m + 1 \notin T
      <4>1. T \in SUBSET (1 .. m) /\ T \ {Max(T)} \in SUBSET (1 .. m + 1) /\ m + 1 \notin T \ {Max(T)}
        <5>1. \A i \in T : i \in 1 .. m
          BY <3>2
        <5> QED BY <3>2, <5>1
      <4>2. fold[T] = IF T = {} THEN 1 ELSE fold[T \ {Max(T)}] * r[Max(T)]
        BY <2>1, <4>1 DEF IsFold
      <4> QED BY <3>2, <4>1, <4>2
    <3> QED BY <3>1, <3>2
  <2>3. DOMAIN next = SUBSET (1 .. m + 1) /\ next = [T \in SUBSET (1 .. m + 1) |-> next[T]]
    OBVIOUS
  <2> HIDE DEF next
  <2>4. IsFold(next, r, m + 1)
    BY <2>2, <2>3 DEF IsFold
  <2> QED BY <2>4
<1>5. \E fold : IsFold(fold, r, n)
  <2>1. Nat \subseteq P
    <3> HIDE DEF P
    <3> QED BY <1>3, <1>4, SetInduction
  <2> QED BY <1>1, <2>1
<1>6. PICK fold : IsFold(fold, r, n) /\ Volume(r) = fold[1 .. n]
  <2> QED BY <1>2, <1>5
<1> DEFINE Q == {m \in Nat : m <= n => fold[1 .. m] = V[m]}
<1>7. 0 \in Q
  <2>1. 1 .. 0 = {} /\ {} \in SUBSET (1 .. n)
    OBVIOUS
  <2>2. fold[{}] = 1
    BY <1>6, <2>1 DEF IsFold
  <2> QED BY <2>1, <2>2 DEF IsVolumes, VolumesUpto
<1>8. ASSUME NEW m \in Nat, m \in Q PROVE m + 1 \in Q
  <2> SUFFICES ASSUME m + 1 <= n PROVE fold[1 .. m + 1] = V[m + 1]
    OBVIOUS
  <2>1. fold[1 .. m] = V[m]
    BY <1>1, <1>8
  <2> DEFINE T == 1 .. m + 1
  <2>2. Max(T) = m + 1
    BY LastIsMax
  <2>3. T \in SUBSET (1 .. n) /\ T # {} /\ T \ {m + 1} = 1 .. m
    <3>1. \A i \in T : i \in 1 .. n
      BY <1>1
    <3>2. m + 1 \in T
      OBVIOUS
    <3>3. T \ {m + 1} = 1 .. m
      OBVIOUS
    <3> QED BY <3>1, <3>2, <3>3
  <2>4. fold[T] = fold[T \ {Max(T)}] * r[Max(T)]
    <3> HIDE DEF T
    <3> QED BY <1>6, <2>3 DEF IsFold
  <2>5. V[m + 1] = V[m] * r[m + 1]
    BY <1>1 DEF IsVolumes, VolumesUpto, n
  <2> QED BY <2>1, <2>2, <2>3, <2>4, <2>5
<1>9. Nat \subseteq Q
  <2> HIDE DEF Q
  <2> QED BY <1>7, <1>8, SetInduction
<1> QED BY <1>1, <1>6, <1>9 DEF n

(* Volume of the first k ranges is V[k].                                    *)
LEMMA FirstVolumes ==
    ASSUME NEW r \in Seq(Nat \ {0}), NEW V, IsVolumes(V, r), NEW k \in 0 .. Len(r)
    PROVE  Volume(SubSeq(r, 1, k)) = V[k]
<1> DEFINE t == SubSeq(r, 1, k)
           W == [i \in 0 .. k |-> V[i]]
<1>1. Len(r) \in Nat /\ \A i \in 1 .. Len(r) : r[i] \in Nat \ {0}
  OBVIOUS
<1>2. t \in Seq(Nat \ {0}) /\ Len(t) = k /\ \A i \in 1 .. k : t[i] = r[i]
  BY <1>1, SubSeqProperties
<1> HIDE DEF t
<1>3. IsVolumes(W, t)
  <2>1. V \in [0 .. Len(r) -> Nat \ {0}] /\ V[0] = 1 /\ \A i \in 1 .. Len(r) : V[i] = V[i - 1] * r[i]
    BY DEF IsVolumes, VolumesUpto
  <2>2. \A i \in 0 .. k : i \in 0 .. Len(r) /\ V[i] \in Nat \ {0}
    <3>1. \A i \in 0 .. k : i \in 0 .. Len(r)
      BY <1>1
    <3> QED BY <2>1, <3>1
  <2>3. W \in [0 .. k -> Nat \ {0}] /\ W[0] = 1
    BY <2>1, <2>2
  <2>4. \A i \in 1 .. k : W[i] = W[i - 1] * t[i]
    BY <1>1, <1>2, <2>1
  <2> HIDE DEF W
  <2> QED BY <1>2, <2>3, <2>4 DEF IsVolumes, VolumesUpto
<1>4. Volume(t) = W[k]
  <2> HIDE DEF W
  <2> QED BY <1>2, <1>3, VolumeIs
<1> QED BY <1>4 DEF t

-----------------------------------------------------------------------------
(* P[k] is the sum of the first k entries of f, for k up to n.              *)
PartialSums(P, f, n) ==
    /\ P \in [0 .. n -> Int]
    /\ P[0] = 0
    /\ \A k \in 1 .. n : P[k] = P[k - 1] + f[k]

(* SumFunction, in whatever order it adds up, finds the last partial sum.   *)
LEMMA SumIsPartial ==
    ASSUME NEW n \in Nat, NEW f, DOMAIN f = 1 .. n, \A k \in 1 .. n : f[k] \in Int, NEW P, PartialSums(P, f, n)
    PROVE  SumFunction(f) = P[n]
<1>1. SumFunction(f) = SumOver(f, 1 .. n)
  BY DEF SumFunction, SumFunctionOnSet, FoldFunctionOnSet, MapThenFoldSet, SumOver
<1> DEFINE same == [k \in 1 .. n |-> k]
           S == 1 .. n
<1>2. same \in Bijection(1 .. n, S)
  BY DEF Bijection, Injection, Surjection, IsInjective
<1>3. IsFiniteSet(S)
  BY FS_Interval
<1>4. P[0] = 0 /\ \A k \in 1 .. n : P[k] = P[k - 1] + f[same[k]]
  BY DEF PartialSums
<1> HIDE DEF same
<1>5. P[n] = SumOver(f, S)
  <2>1. \A k \in S : f[k] \in Int
    OBVIOUS
  <2> HIDE DEF S
  <2> QED BY <1>2, <1>3, <1>4, <2>1, SumInAnyOrder
<1> QED BY <1>1, <1>5

(* Any integers have partial sums.                                          *)
LEMMA PartialSumsExist ==
    ASSUME NEW n \in Nat, NEW f, \A k \in 1 .. n : f[k] \in Int
    PROVE  \E P : PartialSums(P, f, n)
<1> DEFINE S == 1 .. n
<1>1. PICK mu : Additive(mu, f, S)
  <2>1. IsFiniteSet(S)
    BY FS_Interval
  <2>2. \A k \in S : f[k] \in Int
    OBVIOUS
  <2> HIDE DEF S
  <2> QED BY <2>1, <2>2, AdditiveExists
<1> DEFINE P == [k \in 0 .. n |-> mu[1 .. k]]
<1>2. \A k \in 0 .. n : 1 .. k \in SUBSET S
  OBVIOUS
<1>3. P \in [0 .. n -> Int]
  BY <1>1, <1>2 DEF Additive
<1>4. P[0] = 0
  BY <1>1 DEF Additive
<1>5. ASSUME NEW k \in 1 .. n PROVE P[k] = P[k - 1] + f[k]
  <2>1. mu[1 .. k] = f[k] + mu[(1 .. k) \ {k}]
    <3>1. 1 .. k \in SUBSET S /\ k \in 1 .. k
      OBVIOUS
    <3> HIDE DEF S
    <3> QED BY <1>1, <3>1 DEF Additive
  <2>2. (1 .. k) \ {k} = 1 .. k - 1
    OBVIOUS
  <2>3. k - 1 \in 0 .. n /\ k \in 0 .. n
    OBVIOUS
  <2>4. f[k] \in Int /\ P[k - 1] \in Int
    BY <1>3, <2>3
  <2>5. P[k - 1] = mu[1 .. k - 1] /\ P[k] = mu[1 .. k]
    BY <2>3
  <2>6. P[k] = f[k] + P[k - 1]
    BY <2>1, <2>2, <2>5
  <2> HIDE DEF P
  <2> QED BY <2>4, <2>6
<1>6. PartialSums(P, f, n)
  <2> HIDE DEF P
  <2> QED BY <1>3, <1>4, <1>5 DEF PartialSums
<1> QED BY <1>6

-----------------------------------------------------------------------------
(* Every digit of d is one of its range.                                    *)
IsDigits(d, r) == \A k \in 1 .. Len(r) : d[k] \in 0 .. r[k] - 1

Weighted(d, w, n) == [k \in 1 .. n |-> d[k] * w[k]]

(* In a number that is written in digits, digit k counts with the volume of *)
(* the ranges before it.                                                    *)
WeightOf(V, n) == [k \in 1 .. n |-> V[k - 1]]

DigitsOf(li, r, V) == [k \in 1 .. Len(r) |-> (li \div V[k - 1]) % r[k]]

(* What is known of the volumes of a sequence of ranges.                    *)
LEMMA SeqBasics ==
    ASSUME NEW r \in Seq(Nat \ {0}), NEW V, IsVolumes(V, r)
    PROVE  /\ Len(r) \in Nat /\ DOMAIN r = 1 .. Len(r)
           /\ \A k \in 1 .. Len(r) : r[k] \in Nat \ {0} /\ V[k - 1] \in Nat \ {0} /\ V[k] = V[k - 1] * r[k]
           /\ \A k \in 0 .. Len(r) : V[k] \in Nat \ {0}
           /\ V[0] = 1
<1>1. Len(r) \in Nat /\ DOMAIN r = 1 .. Len(r) /\ \A k \in 1 .. Len(r) : r[k] \in Nat \ {0}
  OBVIOUS
<1>2. /\ V \in [0 .. Len(r) -> Nat \ {0}] /\ V[0] = 1
      /\ \A k \in 1 .. Len(r) : V[k] = V[k - 1] * r[k]
  BY DEF IsVolumes, VolumesUpto
<1>3. \A k \in 1 .. Len(r) : k - 1 \in 0 .. Len(r)
  BY <1>1
<1> QED BY <1>1, <1>2, <1>3

(* The first k digits make up a number below the volume of their ranges.    *)
LEMMA DigitsBelow ==
    ASSUME NEW r \in Seq(Nat \ {0}), NEW V, IsVolumes(V, r), NEW d, IsDigits(d, r),
           NEW P, PartialSums(P, Weighted(d, WeightOf(V, Len(r)), Len(r)), Len(r))
    PROVE  \A k \in 0 .. Len(r) : P[k] \in 0 .. V[k] - 1
<1> DEFINE n == Len(r)
           Q == {k \in Nat : k <= n => P[k] \in 0 .. V[k] - 1}
<1>1. /\ n \in Nat /\ V[0] = 1
      /\ \A k \in 1 .. n : r[k] \in Nat \ {0} /\ V[k - 1] \in Nat \ {0} /\ V[k] = V[k - 1] * r[k]
  BY SeqBasics
<1>2. P[0] = 0 /\ \A k \in 1 .. n : P[k] = P[k - 1] + d[k] * V[k - 1]
  BY DEF PartialSums, Weighted, WeightOf
<1>3. \A k \in 1 .. n : d[k] \in 0 .. r[k] - 1
  BY DEF IsDigits
<1> HIDE DEF n
<1>4. 0 \in Q
  BY <1>1, <1>2
<1>5. ASSUME NEW k \in Nat, k \in Q PROVE k + 1 \in Q
  <2> SUFFICES ASSUME k + 1 <= n PROVE P[k + 1] \in 0 .. V[k + 1] - 1
    OBVIOUS
  <2> DEFINE v == V[k]
             x == d[k + 1]
             c == r[k + 1]
             p == P[k]
  <2>1. k + 1 \in 1 .. n /\ (k + 1) - 1 = k
    BY <1>1
  <2>2. /\ v \in Nat \ {0} /\ c \in Nat \ {0} /\ x \in 0 .. c - 1 /\ p \in 0 .. v - 1
        /\ V[k + 1] = v * c /\ P[k + 1] = p + x * v
    BY <1>1, <1>2, <1>3, <1>5, <2>1
  <2> HIDE DEF v, x, c, p
  <2>3. x * v \in Nat /\ x * v <= (c - 1) * v
    BY <2>2
  <2>4. (c - 1) * v = v * c - v
    BY <2>2
  <2> QED BY <2>2, <2>3, <2>4
<1>6. Nat \subseteq Q
  <2> HIDE DEF Q
  <2> QED BY <1>4, <1>5, SetInduction
<1> QED BY <1>1, <1>6 DEF n

(* The digits of a number make it up ...                                    *)
LEMMA DigitsMakeUp ==
    ASSUME NEW r \in Seq(Nat \ {0}), NEW V, IsVolumes(V, r), NEW li \in Nat,
           NEW P, PartialSums(P, Weighted(DigitsOf(li, r, V), WeightOf(V, Len(r)), Len(r)), Len(r))
    PROVE  /\ IsDigits(DigitsOf(li, r, V), r)
           /\ li < V[Len(r)] => P[Len(r)] = li
<1> DEFINE n == Len(r)
           d == DigitsOf(li, r, V)
           Q == {k \in Nat : k <= n => P[k] = li % V[k]}
<1>1. /\ n \in Nat /\ V[0] = 1
      /\ \A k \in 1 .. n : r[k] \in Nat \ {0} /\ V[k - 1] \in Nat \ {0} /\ V[k] = V[k - 1] * r[k]
  BY SeqBasics
<1>2. P[0] = 0 /\ \A k \in 1 .. n : P[k] = P[k - 1] + d[k] * V[k - 1]
  BY DEF PartialSums, Weighted, WeightOf
<1>3. \A k \in 1 .. n : d[k] = (li \div V[k - 1]) % r[k]
  BY DEF DigitsOf
<1> HIDE DEF n, d
<1>4. 0 \in Q
  <2>1. li % 1 = 0
    OBVIOUS
  <2> QED BY <1>1, <1>2, <2>1
<1>5. ASSUME NEW k \in Nat, k \in Q PROVE k + 1 \in Q
  <2> SUFFICES ASSUME k + 1 <= n PROVE P[k + 1] = li % V[k + 1]
    OBVIOUS
  <2> DEFINE v == V[k]
             c == r[k + 1]
  <2>1. k + 1 \in 1 .. n /\ (k + 1) - 1 = k /\ k <= n
    BY <1>1
  <2>2. /\ v \in Nat \ {0} /\ c \in Nat \ {0}
        /\ V[k + 1] = v * c /\ P[k + 1] = (li % v) + ((li \div v) % c) * v
    BY <1>1, <1>2, <1>3, <1>5, <2>1
  <2> HIDE DEF v, c
  <2>3. li % (v * c) = (li % v) + ((li \div v) % c) * v
    BY <2>2, Modulo
  <2> QED BY <2>2, <2>3
<1>6. Nat \subseteq Q
  <2> HIDE DEF Q
  <2> QED BY <1>4, <1>5, SetInduction
<1>7. IsDigits(d, r)
  <2> SUFFICES ASSUME NEW k \in 1 .. n PROVE d[k] \in 0 .. r[k] - 1
    BY DEF IsDigits, n
  <2> DEFINE v == V[k - 1]
             c == r[k]
  <2>1. v \in Nat \ {0} /\ c \in Nat \ {0} /\ d[k] = (li \div v) % c
    BY <1>1, <1>3
  <2> HIDE DEF v
  <2>2. li \div v \in Nat
    BY <2>1, DivFacts
  <2> QED BY <2>1, <2>2, DivFacts
<1>8. ASSUME li < V[n] PROVE P[n] = li
  <2> DEFINE v == V[n]
  <2>1. P[n] = li % v
    BY <1>1, <1>6
  <2>2. v \in Nat \ {0}
    BY SeqBasics DEF n
  <2> HIDE DEF v
  <2>3. li % v = li
    <3>1. li \in 0 .. v - 1 /\ li = v * 0 + li
      BY <1>8, <2>2 DEF v
    <3> QED BY <2>2, <3>1, DivMod
  <2> QED BY <2>1, <2>3
<1> QED BY <1>7, <1>8 DEF n, d

(* ... and no other digits do.                                              *)
LEMMA SameDigits ==
    ASSUME NEW r \in Seq(Nat \ {0}), NEW V, IsVolumes(V, r), NEW d, IsDigits(d, r), NEW e, IsDigits(e, r),
           NEW P, PartialSums(P, Weighted(d, WeightOf(V, Len(r)), Len(r)), Len(r)),
           NEW R, PartialSums(R, Weighted(e, WeightOf(V, Len(r)), Len(r)), Len(r)),
           P[Len(r)] = R[Len(r)]
    PROVE  \A k \in 1 .. Len(r) : d[k] = e[k]
<1> DEFINE n == Len(r)
           Q == {k \in Nat : k <= n => P[n - k] = R[n - k]}
<1>1. /\ n \in Nat /\ V[0] = 1
      /\ \A k \in 1 .. n : r[k] \in Nat \ {0} /\ V[k - 1] \in Nat \ {0} /\ V[k] = V[k - 1] * r[k]
  BY SeqBasics
<1>2. \A k \in 1 .. n : P[k] = P[k - 1] + d[k] * V[k - 1] /\ R[k] = R[k - 1] + e[k] * V[k - 1]
  BY DEF PartialSums, Weighted, WeightOf
<1>3. \A k \in 1 .. n : d[k] \in 0 .. r[k] - 1 /\ e[k] \in 0 .. r[k] - 1
  BY DEF IsDigits
<1>4. \A k \in 0 .. n : P[k] \in 0 .. V[k] - 1 /\ R[k] \in 0 .. V[k] - 1
  BY DigitsBelow
<1>5. P[n] = R[n]
  OBVIOUS
<1> HIDE DEF n
<1>6. ASSUME NEW k \in 1 .. n, P[k] = R[k] PROVE P[k - 1] = R[k - 1] /\ d[k] = e[k]
  <2> DEFINE v == V[k - 1]
             x == d[k]
             y == e[k]
             p == P[k - 1]
             q == R[k - 1]
  <2>1. k - 1 \in 0 .. n
    BY <1>1
  <2>2. v \in Nat \ {0} /\ x \in Int /\ y \in Int /\ p \in 0 .. v - 1 /\ q \in 0 .. v - 1
    BY <1>1, <1>3, <1>4, <2>1
  <2>3. p + x * v = q + y * v
    BY <1>2, <1>6
  <2> HIDE DEF v, x, y, p, q
  <2>4. p = q /\ x = y
    BY <2>2, <2>3, DigitsEqual
  <2> QED BY <2>4 DEF x, y, p, q
<1>7. 0 \in Q
  BY <1>1, <1>5
<1>8. ASSUME NEW k \in Nat, k \in Q PROVE k + 1 \in Q
  <2> SUFFICES ASSUME k + 1 <= n PROVE P[n - (k + 1)] = R[n - (k + 1)]
    OBVIOUS
  <2>1. n - k \in 1 .. n /\ (n - k) - 1 = n - (k + 1) /\ P[n - k] = R[n - k]
    BY <1>1, <1>8
  <2> QED BY <1>6, <2>1
<1>9. Nat \subseteq Q
  <2> HIDE DEF Q
  <2> QED BY <1>7, <1>8, SetInduction
<1>10. ASSUME NEW k \in 1 .. n PROVE d[k] = e[k]
  <2>1. n - k \in Nat /\ n - k <= n /\ n - (n - k) = k
    BY <1>1
  <2>2. P[n - (n - k)] = R[n - (n - k)]
    BY <1>9, <2>1
  <2> QED BY <1>6, <2>1, <2>2
<1> QED BY <1>10 DEF n

-----------------------------------------------------------------------------
(* A function on 1 .. n is a sequence of length n.                          *)
LEMMA MakesSeq ==
    ASSUME NEW T, NEW n \in Nat, NEW f, f \in [1 .. n -> T]
    PROVE  f \in Seq(T) /\ Len(f) = n /\ DOMAIN f = 1 .. n
<1>1. f \in Seq(T)
  BY SeqDef
<1>2. DOMAIN f = 1 .. n
  OBVIOUS
<1> QED BY <1>1, <1>2, LenProperties

(* The digits before the one that moves are all at their last value, and    *)
(* that one is not.                                                         *)
LEMMA MovingFacts ==
    ASSUME NEW n \in Nat, NEW d \in [1 .. n -> Nat], NEW r \in [1 .. n -> Nat], \A k \in 1 .. n : d[k] \in 0 .. r[k] - 1
    PROVE  /\ Moving(d, r) \in 1 .. n + 1
           /\ \A k \in 1 .. n : k < Moving(d, r) => d[k] = r[k] - 1
           /\ Moving(d, r) <= n => d[Moving(d, r)] + 1 < r[Moving(d, r)]
<1> DEFINE S == {k \in 1 .. n : d[k] + 1 < r[k]} \cup {n + 1}
           i == Moving(d, r)
<1>1. Len(d) = n /\ DOMAIN d = 1 .. n
  BY MakesSeq
<1>2. i = Min(S)
  BY <1>1 DEF Moving
<1>3. S \subseteq Nat /\ S # {}
  OBVIOUS
<1>4. \E k \in S : \A m \in S : k <= m
  <2> HIDE DEF S
  <2> QED BY <1>3, LeastNumber
<1>5. i \in S /\ \A m \in S : i <= m
  <2> HIDE DEF S, i
  <2> QED BY <1>2, <1>4 DEF Min
<1> HIDE DEF i
<1>6. ASSUME NEW k \in 1 .. n, k < i PROVE d[k] = r[k] - 1
  <2>1. i \in Nat /\ k \notin S
    BY <1>5, <1>6
  <2> QED BY <2>1
<1> QED BY <1>5, <1>6 DEF i

Integral(f, n) == \A k \in 1 .. n : f[k] \in Int

(* A step of the odometer: the first i - 1 digits go from their last value  *)
(* to 0, and digit i, if there is one, goes up.                             *)
Turns(d, e, r, i, n) ==
    /\ \A k \in 1 .. n : k < i => d[k] = r[k] - 1 /\ e[k] = 0
    /\ \A k \in 1 .. n : k > i => e[k] = d[k]
    /\ i <= n => e[i] = d[i] + 1

(* What the digits that go back to 0 had added to a sum with weights w.     *)
IsBack(back, w, r, i) == \A k \in 1 .. i - 1 : back[k] = w[k] * (r[k] - 1)

(* A step of the odometer changes a sum of digits with any weights w by     *)
(* w[i] less what the digits that go back to 0 had added.  (NextIndex       *)
(* relies on this for the weights of indexVars, State and multifor for      *)
(* those of forVars.)                                                       *)
LEMMA Carry ==
    ASSUME NEW n \in Nat, NEW i \in 1 .. n + 1, NEW d, NEW e, NEW r, NEW w,
           Integral(d, n), Integral(e, n), Integral(r, n), Integral(w, n), Turns(d, e, r, i, n),
           NEW P, PartialSums(P, Weighted(d, w, n), n),
           NEW R, PartialSums(R, Weighted(e, w, n), n),
           NEW back, IsBack(back, w, r, i),
           NEW B, PartialSums(B, back, i - 1)
    PROVE  /\ i <= n => R[n] = P[n] + w[i] - B[i - 1]
           /\ i = n + 1 => R[n] = 0 /\ P[n] = B[n]
<1> DEFINE Q == {k \in Nat : k <= n => /\ k < i => P[k] = B[k] /\ R[k] = 0
                                       /\ k >= i => R[k] = P[k] + w[i] - B[i - 1]}
<1>0. /\ \A k \in 1 .. n : d[k] \in Int /\ e[k] \in Int /\ r[k] \in Int /\ w[k] \in Int
      /\ \A k \in 1 .. n : k < i => d[k] = r[k] - 1 /\ e[k] = 0
      /\ \A k \in 1 .. n : k > i => e[k] = d[k]
      /\ i <= n => e[i] = d[i] + 1
      /\ \A k \in 1 .. i - 1 : back[k] = w[k] * (r[k] - 1)
  BY DEF Integral, Turns, IsBack
<1>1. /\ P[0] = 0 /\ \A k \in 1 .. n : P[k] = P[k - 1] + d[k] * w[k]
      /\ R[0] = 0 /\ \A k \in 1 .. n : R[k] = R[k - 1] + e[k] * w[k]
  BY DEF PartialSums, Weighted
<1>2. B[0] = 0 /\ \A k \in 1 .. i - 1 : B[k] = B[k - 1] + w[k] * (r[k] - 1)
  BY <1>0 DEF PartialSums
<1>3. /\ \A k \in 0 .. n : P[k] \in Int /\ R[k] \in Int
      /\ \A k \in 0 .. i - 1 : B[k] \in Int
  BY DEF PartialSums
<1>4. 0 \in Q
  BY <1>1, <1>2
<1>5. ASSUME NEW k \in Nat, k \in Q PROVE k + 1 \in Q
  <2> SUFFICES ASSUME k + 1 <= n
               PROVE  /\ k + 1 < i => P[k + 1] = B[k + 1] /\ R[k + 1] = 0
                      /\ k + 1 >= i => R[k + 1] = P[k + 1] + w[i] - B[i - 1]
    OBVIOUS
  <2>1. k + 1 \in 1 .. n /\ (k + 1) - 1 = k /\ k \in 0 .. n
    OBVIOUS
  <2>2. /\ P[k + 1] = P[k] + d[k + 1] * w[k + 1]
        /\ R[k + 1] = R[k] + e[k + 1] * w[k + 1]
    BY <1>1, <2>1
  <2>3. d[k + 1] \in Int /\ e[k + 1] \in Int /\ w[k + 1] \in Int /\ r[k + 1] \in Int /\ P[k] \in Int /\ R[k] \in Int
    BY <1>0, <1>3, <2>1
  <2>4. CASE k + 1 < i
    <3>1. k + 1 \in 1 .. i - 1 /\ P[k] = B[k] /\ R[k] = 0
      BY <1>5, <2>4
    <3>2. B[k + 1] = B[k] + w[k + 1] * (r[k + 1] - 1)
      BY <1>2, <2>1, <3>1
    <3>3. d[k + 1] = r[k + 1] - 1 /\ e[k + 1] = 0
      BY <1>0, <2>1, <2>4
    <3>4. P[k + 1] = P[k] + w[k + 1] * (r[k + 1] - 1)
      BY <2>2, <2>3, <3>3
    <3>5. R[k + 1] = 0
      BY <2>2, <2>3, <3>1, <3>3
    <3> QED BY <2>4, <3>1, <3>2, <3>4, <3>5
  <2>5. CASE k + 1 = i
    <3>1. P[k] = B[k] /\ R[k] = 0 /\ i - 1 = k /\ B[k] \in Int
      BY <1>3, <1>5, <2>5
    <3>2. e[k + 1] = d[k + 1] + 1
      BY <1>0, <2>1, <2>5
    <3>3. R[k + 1] = d[k + 1] * w[k + 1] + w[k + 1]
      <4> DEFINE x == d[k + 1]
                 y == w[k + 1]
      <4>1. x \in Int /\ y \in Int /\ R[k + 1] = 0 + (x + 1) * y
        BY <2>2, <2>3, <3>1, <3>2
      <4> HIDE DEF x, y
      <4>2. R[k + 1] = x * y + y
        BY <4>1
      <4> QED BY <4>2 DEF x, y
    <3> QED BY <2>2, <2>3, <2>5, <3>1, <3>3
  <2>6. CASE k + 1 > i
    <3>1. R[k] = P[k] + w[i] - B[i - 1] /\ i \in 1 .. n /\ i - 1 \in 0 .. i - 1
      BY <1>5, <2>6
    <3>2. e[k + 1] = d[k + 1]
      BY <1>0, <2>1, <2>6
    <3>3. w[i] \in Int /\ B[i - 1] \in Int
      BY <1>0, <1>3, <3>1
    <3> DEFINE x == d[k + 1] * w[k + 1]
    <3>4. x \in Int /\ R[k + 1] = R[k] + x /\ P[k + 1] = P[k] + x
      BY <2>2, <2>3, <3>2
    <3> HIDE DEF x
    <3>5. R[k + 1] = P[k + 1] + w[i] - B[i - 1]
      BY <2>3, <3>1, <3>3, <3>4
    <3> QED BY <2>6, <3>5
  <2> QED BY <2>4, <2>5, <2>6
<1>6. Nat \subseteq Q
  <2> HIDE DEF Q
  <2> QED BY <1>4, <1>5, SetInduction
<1> QED BY <1>6

(* Digits at their last values make up one less than the volume.            *)
LEMMA AllAtMaximum ==
    ASSUME NEW r \in Seq(Nat \ {0}), NEW V, IsVolumes(V, r), NEW m \in 0 .. Len(r),
           NEW B, PartialSums(B, [k \in 1 .. m |-> WeightOf(V, Len(r))[k] * (r[k] - 1)], m)
    PROVE  B[m] = V[m] - 1
<1> DEFINE n == Len(r)
           Q == {k \in Nat : k <= m => B[k] = V[k] - 1}
<1>1. /\ n \in Nat /\ V[0] = 1
      /\ \A k \in 1 .. n : r[k] \in Nat \ {0} /\ V[k - 1] \in Nat \ {0} /\ V[k] = V[k - 1] * r[k]
  BY SeqBasics
<1>2. m \in Nat /\ m <= n
  BY <1>1
<1>3. B[0] = 0 /\ \A k \in 1 .. m : B[k] = B[k - 1] + V[k - 1] * (r[k] - 1)
  <2>1. \A k \in 1 .. m : k \in 1 .. n
    BY <1>1, <1>2
  <2>2. \A k \in 1 .. m : WeightOf(V, n)[k] = V[k - 1]
    BY <2>1 DEF WeightOf
  <2> QED BY <2>2 DEF PartialSums
<1> HIDE DEF n
<1>4. 0 \in Q
  BY <1>1, <1>3
<1>5. ASSUME NEW k \in Nat, k \in Q PROVE k + 1 \in Q
  <2> SUFFICES ASSUME k + 1 <= m PROVE B[k + 1] = V[k + 1] - 1
    OBVIOUS
  <2> DEFINE v == V[k]
             c == r[k + 1]
  <2>1. k + 1 \in 1 .. n /\ k + 1 \in 1 .. m /\ (k + 1) - 1 = k
    BY <1>1, <1>2
  <2>2. v \in Nat \ {0} /\ c \in Nat \ {0} /\ V[k + 1] = v * c /\ B[k + 1] = (v - 1) + v * (c - 1)
    BY <1>1, <1>2, <1>3, <1>5, <2>1
  <2> HIDE DEF v, c
  <2> QED BY <2>2
<1>6. Nat \subseteq Q
  <2> HIDE DEF Q
  <2> QED BY <1>4, <1>5, SetInduction
<1> QED BY <1>2, <1>6

(* The digits of a number are numbers in their ranges.                      *)
LEMMA DigitsAreNumbers ==
    ASSUME NEW r \in Seq(Nat \ {0}), NEW V, IsVolumes(V, r), NEW li \in Nat
    PROVE  /\ DigitsOf(li, r, V) \in [1 .. Len(r) -> Nat]
           /\ r \in [1 .. Len(r) -> Nat]
           /\ IsDigits(DigitsOf(li, r, V), r)
           /\ \E P : PartialSums(P, Weighted(DigitsOf(li, r, V), WeightOf(V, Len(r)), Len(r)), Len(r))
<1> DEFINE n == Len(r)
           d == DigitsOf(li, r, V)
           f == Weighted(d, WeightOf(V, n), n)
<1>1. /\ n \in Nat /\ DOMAIN r = 1 .. n
      /\ \A k \in 1 .. n : r[k] \in Nat \ {0} /\ V[k - 1] \in Nat \ {0}
  BY SeqBasics
<1>2. ASSUME NEW k \in 1 .. n PROVE d[k] \in 0 .. r[k] - 1 /\ d[k] \in Nat
  <2> DEFINE v == V[k - 1]
             c == r[k]
  <2>1. v \in Nat \ {0} /\ c \in Nat \ {0} /\ d[k] = (li \div v) % c
    BY <1>1 DEF DigitsOf
  <2> DEFINE q == li \div v
  <2> HIDE DEF v, c, d
  <2>2. q \in Nat
    BY <2>1, DivFacts
  <2>3. d[k] = q % c
    BY <2>1
  <2> HIDE DEF q
  <2>4. d[k] \in 0 .. c - 1
    BY <2>1, <2>2, <2>3, DivFacts
  <2> QED BY <2>1, <2>4 DEF c
<1>3. DOMAIN d = 1 .. n /\ d = [k \in 1 .. n |-> d[k]]
  BY DEF DigitsOf
<1> HIDE DEF d
<1>4. \A k \in 1 .. n : f[k] \in Int
  BY <1>1, <1>2 DEF Weighted, WeightOf
<1>5. \E P : PartialSums(P, f, n)
  <2> HIDE DEF f
  <2> QED BY <1>1, <1>4, PartialSumsExist
<1>6. d \in [1 .. n -> Nat]
  BY <1>2, <1>3
<1>7. r \in [1 .. n -> Nat]
  BY <1>1
<1>8. IsDigits(d, r)
  BY <1>2 DEF IsDigits
<1> QED BY <1>5, <1>6, <1>7, <1>8 DEF d

(* A step of the odometer leads from the digits of a number to those of the *)
(* next one, and from those of the last number to zeroes.                   *)
LEMMA Odometer ==
    ASSUME NEW r \in Seq(Nat \ {0}), NEW V, IsVolumes(V, r), NEW li \in 0 .. V[Len(r)] - 1
    PROVE  LET d == DigitsOf(li, r, V)
               i == Moving(d, r)
           IN  /\ i \in 1 .. Len(r) + 1
               /\ \A k \in 1 .. Len(r) : k < i => d[k] = r[k] - 1 /\ Turned(d, r)[k] = 0
               /\ \A k \in 1 .. Len(r) : k > i => Turned(d, r)[k] = d[k]
               /\ i <= Len(r) => Turned(d, r)[i] = d[i] + 1
               /\ i = Len(r) + 1 => li + 1 = V[Len(r)] /\ Turned(d, r) = AllZero(Len(r))
               /\ i <= Len(r) => li + 1 < V[Len(r)] /\ Turned(d, r) = DigitsOf(li + 1, r, V)
<1> DEFINE n == Len(r)
           d == DigitsOf(li, r, V)
           i == Moving(d, r)
           e == Turned(d, r)
           w == WeightOf(V, n)
           back == [k \in 1 .. i - 1 |-> w[k] * (r[k] - 1)]
<1>1. /\ n \in Nat /\ DOMAIN r = 1 .. n
      /\ \A k \in 1 .. n : r[k] \in Nat \ {0} /\ V[k - 1] \in Nat \ {0} /\ V[k] = V[k - 1] * r[k]
      /\ \A k \in 0 .. n : V[k] \in Nat \ {0}
  BY SeqBasics
<1>2. li \in Nat /\ li < V[n]
  BY <1>1
<1>3. d \in [1 .. n -> Nat] /\ r \in [1 .. n -> Nat] /\ IsDigits(d, r)
  BY <1>2, DigitsAreNumbers
<1>4. PICK P : PartialSums(P, Weighted(d, w, n), n)
  BY <1>2, DigitsAreNumbers
<1>5. P[n] = li
  BY <1>2, <1>4, DigitsMakeUp
<1>6. \A k \in 1 .. n : d[k] \in 0 .. r[k] - 1
  BY <1>3 DEF IsDigits
<1>7. /\ i \in 1 .. n + 1
      /\ \A k \in 1 .. n : k < i => d[k] = r[k] - 1
      /\ i <= n => d[i] + 1 < r[i]
  BY <1>1, <1>3, <1>6, MovingFacts
<1>8. e = [k \in 1 .. n |-> IF k < i THEN 0 ELSE IF k = i THEN d[k] + 1 ELSE d[k]]
  BY <1>3 DEF Turned
<1> HIDE DEF i, d, e, n
<1>9. /\ \A k \in 1 .. n : k < i => e[k] = 0
      /\ \A k \in 1 .. n : k > i => e[k] = d[k]
      /\ i <= n => e[i] = d[i] + 1
  BY <1>1, <1>7, <1>8
<1>10. \A k \in 1 .. n : e[k] \in 0 .. r[k] - 1
  BY <1>1, <1>6, <1>7, <1>8
<1>11. \A k \in 1 .. n : w[k] \in Int /\ w[k] = V[k - 1]
  BY <1>1 DEF WeightOf
<1> HIDE DEF w
<1>12. PICK R : PartialSums(R, Weighted(e, w, n), n)
  <2>1. \A k \in 1 .. n : Weighted(e, w, n)[k] \in Int
    BY <1>1, <1>10, <1>11 DEF Weighted
  <2> QED BY <1>1, <2>1, PartialSumsExist
<1>13. i - 1 \in 0 .. n /\ i - 1 \in Nat
  BY <1>1, <1>7
<1>14. PICK B : PartialSums(B, back, i - 1)
  <2>1. \A k \in 1 .. i - 1 : k \in 1 .. n
    BY <1>1, <1>7
  <2>2. \A k \in 1 .. i - 1 : back[k] \in Int
    BY <1>1, <1>11, <2>1
  <2> HIDE DEF back
  <2> QED BY <1>13, <2>2, PartialSumsExist
<1>15. B[i - 1] = V[i - 1] - 1
  BY <1>13, <1>14, AllAtMaximum DEF w, n
<1>16. /\ i <= n => R[n] = P[n] + w[i] - B[i - 1]
       /\ i = n + 1 => R[n] = 0 /\ P[n] = B[n]
  <2>1. Integral(d, n) /\ Integral(e, n) /\ Integral(r, n) /\ Integral(w, n)
    BY <1>1, <1>6, <1>10, <1>11 DEF Integral
  <2>2. Turns(d, e, r, i, n)
    BY <1>7, <1>9 DEF Turns
  <2>3. IsBack(back, w, r, i)
    BY DEF IsBack
  <2> HIDE DEF back
  <2> QED BY <1>1, <1>4, <1>7, <1>12, <1>14, <2>1, <2>2, <2>3, Carry
<1>17. CASE i = n + 1
  <2>1. P[n] = V[n] - 1 /\ V[n] \in Nat
    BY <1>1, <1>15, <1>16, <1>17
  <2>2. li + 1 = V[n]
    BY <1>2, <1>5, <2>1
  <2>3. \A k \in 1 .. n : k < i
    BY <1>1, <1>17
  <2>4. e = [k \in 1 .. n |-> 0]
    BY <1>8, <2>3
  <2>5. e = AllZero(n)
    BY <2>4 DEF AllZero
  <2> QED BY <1>1, <1>7, <1>9, <1>17, <2>2, <2>5 DEF i, d, e, n
<1>18. CASE i <= n
  <2>1. i \in 1 .. n /\ V[i - 1] \in Int /\ w[i] = V[i - 1]
    BY <1>1, <1>7, <1>11, <1>18
  <2>2. R[n] = li + 1
    BY <1>2, <1>5, <1>15, <1>16, <1>18, <2>1
  <2>3. IsDigits(e, r)
    BY <1>10 DEF IsDigits, n
  <2>4. R[n] \in 0 .. V[n] - 1
    <3>1. \A k \in 0 .. n : R[k] \in 0 .. V[k] - 1
      BY <1>12, <2>3, DigitsBelow DEF w, n
    <3> QED BY <1>1, <3>1
  <2>5. li + 1 \in Nat /\ li + 1 < V[n]
    BY <1>1, <1>2, <2>2, <2>4
  <2> DEFINE f == DigitsOf(li + 1, r, V)
  <2>6. /\ f \in [1 .. n -> Nat] /\ IsDigits(f, r)
        /\ \E S : PartialSums(S, Weighted(f, w, n), n)
    BY <2>5, DigitsAreNumbers DEF w, n
  <2>7. PICK S : PartialSums(S, Weighted(f, w, n), n)
    BY <2>6
  <2>8. S[n] = li + 1
    BY <2>5, <2>7, DigitsMakeUp DEF w, n
  <2> HIDE DEF f
  <2>9. \A k \in 1 .. n : e[k] = f[k]
    BY <1>12, <2>2, <2>3, <2>6, <2>7, <2>8, SameDigits DEF w, n
  <2>10. DOMAIN e = 1 .. n /\ e = [k \in 1 .. n |-> e[k]]
    BY <1>8
  <2>11. e = f
    BY <2>6, <2>9, <2>10
  <2> QED BY <1>1, <1>7, <1>9, <1>18, <2>5, <2>11 DEF i, d, e, n, f
<1> QED BY <1>1, <1>7, <1>17, <1>18

-----------------------------------------------------------------------------
(* Ordered lists every variable once, in the order of the labels.           *)
LEMMA OrderedFacts ==
    ASSUME NEW vs, vs \subseteq DOMAIN States, IsFiniteSet(vs)
    PROVE  /\ Cardinality(vs) \in Nat
           /\ Ordered(vs) \in Seq(vs)
           /\ Ordered(vs) = Ascending(vs)
           /\ Len(Ordered(vs)) = Cardinality(vs)
           /\ DOMAIN Ordered(vs) = 1 .. Cardinality(vs)
           /\ \A k \in 1 .. Cardinality(vs) : Ordered(vs)[k] \in vs
           /\ \A v \in vs : \E k \in 1 .. Cardinality(vs) : Ordered(vs)[k] = v
           /\ \A i, j \in 1 .. Cardinality(vs) : i < j => Ordered(vs)[i] < Ordered(vs)[j]
           /\ \A i, j \in 1 .. Cardinality(vs) : Ordered(vs)[i] = Ordered(vs)[j] => i = j
<1> DEFINE n == Cardinality(vs)
           a == Ascending(vs)
<1>1. vs \subseteq Int
  BY StatesAssumption
<1>2. /\ n \in Nat
      /\ a \in [1 .. n -> vs]
      /\ \A v \in vs : \E k \in 1 .. n : a[k] = v
      /\ \A i, j \in 1 .. n : i < j => a[i] < a[j]
  BY <1>1, AscendingFacts
<1> HIDE DEF n, a
<1>3. a \in Seq(vs) /\ Len(a) = n /\ DOMAIN a = 1 .. n
  BY <1>2, MakesSeq
<1>4. a \o << >> = a
  BY <1>3
<1>5. Ordered(vs) = a
  BY <1>4 DEF Ordered, a
<1>6. \A i, j \in 1 .. n : a[i] = a[j] => i = j
  <2> SUFFICES ASSUME NEW i \in 1 .. n, NEW j \in 1 .. n, a[i] = a[j] PROVE i = j
    OBVIOUS
  <2>1. a[i] \in Int /\ a[j] \in Int
    BY <1>1, <1>2
  <2>2. ~(i < j) /\ ~(j < i)
    BY <1>2, <2>1
  <2> QED BY <2>2
<1> QED BY <1>2, <1>3, <1>5, <1>6 DEF n, a

(* The variables before the k-th are the first k - 1.                       *)
LEMMA OrderedBefore ==
    ASSUME NEW vs, vs \subseteq DOMAIN States, IsFiniteSet(vs), NEW k \in 1 .. Cardinality(vs)
    PROVE  /\ {w \in vs : w < Ordered(vs)[k]} \subseteq DOMAIN States
           /\ IsFiniteSet({w \in vs : w < Ordered(vs)[k]})
           /\ Ordered({w \in vs : w < Ordered(vs)[k]}) = SubSeq(Ordered(vs), 1, k - 1)
<1> DEFINE o == Ordered(vs)
           n == Cardinality(vs)
           us == {w \in vs : w < o[k]}
           p == Ordered(us)
           Upto(v) == {i \in vs : i <= v}
<1>1. us \subseteq DOMAIN States /\ us \subseteq vs
  OBVIOUS
<1>2. IsFiniteSet(us)
  BY <1>1, FS_Subset
<1>3. /\ n \in Nat /\ o \in Seq(vs) /\ Len(o) = n /\ o = Ascending(vs)
      /\ \A i \in 1 .. n : o[i] \in vs
      /\ \A v \in vs : \E i \in 1 .. n : o[i] = v
      /\ \A i, j \in 1 .. n : i < j => o[i] < o[j]
  BY OrderedFacts
<1>4. vs \subseteq Int /\ us \subseteq Int
  BY StatesAssumption
<1> HIDE DEF o, n
<1>5. \A i \in 1 .. n : Cardinality(Upto(o[i])) = i
  <2> TAKE i \in 1 .. n
  <2>1. i \in 1 .. Cardinality(vs)
    BY DEF n
  <2> QED BY <1>3, <1>4, <2>1, AscendingRank
<1>6. Upto(o[k]) = us \cup {o[k]} /\ o[k] \notin us /\ k \in 1 .. n
  <2>1. k \in 1 .. n /\ o[k] \in vs /\ o[k] \in Int
    BY <1>3, <1>4 DEF n
  <2>2. \A i \in vs : i <= o[k] <=> i < o[k] \/ i = o[k]
    BY <1>4, <2>1
  <2> QED BY <2>1, <2>2
<1>7. Cardinality(us) = k - 1
  <2>1. Cardinality(us \cup {o[k]}) = Cardinality(us) + 1 /\ Cardinality(us) \in Nat
    <3> HIDE DEF us
    <3> QED BY <1>2, <1>6, FS_AddElement, FS_CardinalityType
  <2>2. Cardinality(us \cup {o[k]}) = k
    BY <1>5, <1>6
  <2> QED BY <2>1, <2>2
<1>8. /\ p \in Seq(us) /\ Len(p) = k - 1 /\ p = Ascending(us) /\ DOMAIN p = 1 .. k - 1
      /\ \A i \in 1 .. k - 1 : p[i] \in us
  <2> HIDE DEF us
  <2> QED BY <1>1, <1>2, <1>7, OrderedFacts
<1>9. ASSUME NEW i \in 1 .. k - 1 PROVE p[i] = o[i]
  <2>1. p[i] \in us
    BY <1>8
  <2>2. PICK j \in 1 .. n : o[j] = p[i]
    BY <1>3, <2>1
  <2>3. Cardinality({w \in us : w <= p[i]}) = i
    <3>1. i \in 1 .. Cardinality(us)
      BY <1>7
    <3> HIDE DEF us
    <3> QED BY <1>2, <1>4, <1>8, <3>1, AscendingRank
  <2>4. {w \in us : w <= p[i]} = Upto(p[i])
    <3>1. \A w \in vs : w <= p[i] => w < o[k]
      BY <1>3, <1>4, <1>6, <2>1
    <3> HIDE DEF p
    <3> QED BY <1>1, <3>1
  <2>5. Cardinality(Upto(o[j])) = j
    BY <1>5
  <2>6. i = j
    BY <2>2, <2>3, <2>4, <2>5
  <2> QED BY <2>2, <2>6
<1>10. SubSeq(o, 1, k - 1) \in Seq(vs) /\ Len(SubSeq(o, 1, k - 1)) = k - 1
       /\ \A i \in 1 .. k - 1 : SubSeq(o, 1, k - 1)[i] = o[i]
  <2>1. \A i \in 1 .. k - 1 : o[i] \in vs
    BY <1>3, <1>6
  <2> QED BY <1>3, <1>6, <2>1, SubSeqProperties
<1>11. p = SubSeq(o, 1, k - 1)
  <2> DEFINE q == SubSeq(o, 1, k - 1)
  <2>1. p \in Seq(vs) /\ q \in Seq(vs) /\ Len(p) = Len(q) /\ \A i \in 1 .. Len(p) : p[i] = q[i]
    BY <1>1, <1>8, <1>9, <1>10
  <2> HIDE DEF p, q
  <2>2. p = q
    BY <2>1, SeqEqual
  <2> QED BY <2>2 DEF q
<1> QED BY <1>1, <1>2, <1>11 DEF p, us, o

RangesOf(vs) == Ranges(Ordered(vs))

(* The stride of a variable is the volume of the ranges before it.          *)
LEMMA Strides ==
    ASSUME NEW vs, vs \subseteq DOMAIN States, IsFiniteSet(vs), NEW V, IsVolumes(V, RangesOf(vs))
    PROVE  /\ RangesOf(vs) \in Seq(Nat \ {0}) /\ Len(RangesOf(vs)) = Cardinality(vs)
           /\ \A k \in 1 .. Cardinality(vs) :
                 /\ RangesOf(vs)[k] = States[Ordered(vs)[k]]
                 /\ Stride(vs, Ordered(vs)[k]) = V[k - 1]
           /\ NrStates(vs) = V[Cardinality(vs)]
<1> DEFINE o == Ordered(vs)
           n == Cardinality(vs)
           r == RangesOf(vs)
<1>1. /\ n \in Nat /\ o \in Seq(vs) /\ Len(o) = n /\ DOMAIN o = 1 .. n
      /\ \A i \in 1 .. n : o[i] \in vs
  BY OrderedFacts
<1>2. \A v \in DOMAIN States : States[v] \in Nat \ {0}
  BY StatesAssumption
<1>3. r = [k \in 1 .. n |-> States[o[k]]]
  BY <1>1 DEF RangesOf, Ranges
<1>4. r \in [1 .. n -> Nat \ {0}]
  BY <1>1, <1>2, <1>3
<1>5. r \in Seq(Nat \ {0}) /\ Len(r) = n
  BY <1>1, <1>4, MakesSeq
<1>6. NrStates(vs) = V[n]
  <2>1. NrStates(vs) = Volume(r)
    BY DEF NrStates, Volumes, RangesOf
  <2> QED BY <1>5, <2>1, VolumeIs
<1>7. ASSUME NEW k \in 1 .. n PROVE Stride(vs, o[k]) = V[k - 1]
  <2> DEFINE us == {w \in vs : w < o[k]}
  <2>1. us \subseteq DOMAIN States /\ Ordered(us) = SubSeq(o, 1, k - 1)
    BY OrderedBefore
  <2>2. Stride(vs, o[k]) = Volume(Ranges(Ordered(us)))
    <3>1. Stride(vs, o[k]) = Volumes[us] /\ us \in SUBSET DOMAIN States
      BY <2>1 DEF Stride, NrStates
    <3> HIDE DEF us
    <3> QED BY <3>1 DEF Volumes
  <2>3. k - 1 \in 0 .. n /\ k - 1 \in Nat
    BY <1>1
  <2>4. \A i \in 1 .. k - 1 : i \in 1 .. n
    BY <1>1
  <2>5. /\ Len(SubSeq(o, 1, k - 1)) = k - 1 /\ DOMAIN SubSeq(o, 1, k - 1) = 1 .. k - 1
        /\ \A i \in 1 .. k - 1 : SubSeq(o, 1, k - 1)[i] = o[i]
    <3>1. \A i \in 1 .. k - 1 : o[i] \in vs
      BY <1>1, <2>4
    <3>2. /\ SubSeq(o, 1, k - 1) \in Seq(vs) /\ Len(SubSeq(o, 1, k - 1)) = k - 1
          /\ \A i \in 1 .. k - 1 : SubSeq(o, 1, k - 1)[i] = o[i]
      BY <1>1, <2>3, <3>1, SubSeqProperties
    <3> HIDE DEF o
    <3> QED BY <2>3, <3>2
  <2>6. Ranges(Ordered(us)) = [i \in 1 .. k - 1 |-> States[o[i]]]
    <3> HIDE DEF o, us
    <3> QED BY <2>1, <2>5 DEF Ranges
  <2>7. SubSeq(r, 1, k - 1) = [i \in 1 .. k - 1 |-> States[o[i]]]
    <3>1. \A i \in 1 .. k - 1 : r[i] \in Nat \ {0}
      BY <1>4, <2>4
    <3>2. /\ SubSeq(r, 1, k - 1) \in Seq(Nat \ {0}) /\ Len(SubSeq(r, 1, k - 1)) = k - 1
          /\ \A i \in 1 .. k - 1 : SubSeq(r, 1, k - 1)[i] = r[i]
      BY <1>1, <1>5, <2>3, <3>1, SubSeqProperties
    <3>3. \A i \in 1 .. k - 1 : r[i] = States[o[i]]
      BY <1>3, <2>4
    <3> DEFINE q == SubSeq(r, 1, k - 1)
    <3>4. q = [i \in 1 .. k - 1 |-> q[i]] /\ \A i \in 1 .. k - 1 : q[i] = States[o[i]]
      <4> HIDE DEF r, o
      <4> QED BY <2>3, <3>2, <3>3
    <3> HIDE DEF q
    <3> QED BY <3>4 DEF q
  <2>8. Volume(SubSeq(r, 1, k - 1)) = V[k - 1]
    BY <1>5, <2>3, FirstVolumes
  <2> QED BY <2>2, <2>6, <2>7, <2>8
<1>8. \A k \in 1 .. n : r[k] = States[o[k]]
  BY <1>3
<1> QED BY <1>5, <1>6, <1>7, <1>8

(* The values of a joint state, in the order of the labels.                 *)
DigitsIn(vs, state) == [k \in 1 .. Cardinality(vs) |-> state[Ordered(vs)[k]]]

(* calcState takes the linear state apart into its digits.                  *)
LEMMA StatesAreDigits ==
    ASSUME NEW vs, vs \subseteq DOMAIN States, IsFiniteSet(vs), NEW V, IsVolumes(V, RangesOf(vs)), NEW li \in Nat
    PROVE  /\ DigitsIn(vs, calcState(vs, li)) = DigitsOf(li, RangesOf(vs), V)
           /\ calcState(vs, li) \in [vs -> Nat]
<1> DEFINE o == Ordered(vs)
           n == Cardinality(vs)
           r == RangesOf(vs)
           d == DigitsOf(li, r, V)
<1>1. /\ n \in Nat
      /\ \A k \in 1 .. n : o[k] \in vs
      /\ \A v \in vs : \E k \in 1 .. n : o[k] = v
  BY OrderedFacts
<1>2. /\ r \in Seq(Nat \ {0}) /\ Len(r) = n
      /\ \A k \in 1 .. n : r[k] = States[o[k]] /\ Stride(vs, o[k]) = V[k - 1]
  BY Strides
<1>3. d = [k \in 1 .. n |-> (li \div V[k - 1]) % r[k]] /\ d \in [1 .. n -> Nat]
  BY <1>2, DigitsAreNumbers DEF DigitsOf
<1> HIDE DEF o, n, r
<1>4. \A k \in 1 .. n : calcState(vs, li)[o[k]] = d[k]
  BY <1>1, <1>2, <1>3 DEF calcState
<1> HIDE DEF d
<1>5. \A v \in vs : calcState(vs, li)[v] \in Nat
  <2> TAKE v \in vs
  <2>1. PICK k \in 1 .. n : o[k] = v
    BY <1>1
  <2>2. d[k] \in Nat
    BY <1>3
  <2> QED BY <1>4, <2>1, <2>2
<1>6. calcState(vs, li) \in [vs -> Nat]
  <2>1. calcState(vs, li) = [v \in vs |-> calcState(vs, li)[v]]
    BY DEF calcState
  <2> QED BY <1>5, <2>1
<1>7. DigitsIn(vs, calcState(vs, li)) = d
  <2>1. DigitsIn(vs, calcState(vs, li)) = [k \in 1 .. n |-> calcState(vs, li)[o[k]]]
    BY DEF DigitsIn, n, o
  <2> QED BY <1>3, <1>4, <2>1
<1> QED BY <1>6, <1>7 DEF d, r

(* What IndexFor adds to the index for each variable that is looped over.   *)
SumsOf(is, vs) == [k \in 1 .. Cardinality(vs) |-> IF Ordered(vs)[k] \in is THEN Stride(is, Ordered(vs)[k]) ELSE 0]

(* They are numbers, and the strides are not 0.                             *)
LEMMA SumsAreNumbers ==
    ASSUME NEW vs, vs \subseteq DOMAIN States, IsFiniteSet(vs),
           NEW is, is \subseteq DOMAIN States, IsFiniteSet(is)
    PROVE  /\ \A v \in is : Stride(is, v) \in Nat \ {0}
           /\ SumsOf(is, vs) \in [1 .. Cardinality(vs) -> Nat]
<1>1. ASSUME NEW v \in is PROVE Stride(is, v) \in Nat \ {0}
  <2>1. /\ Cardinality(is) \in Nat
        /\ \E k \in 1 .. Cardinality(is) : Ordered(is)[k] = v
    BY OrderedFacts
  <2>2. PICK k \in 1 .. Cardinality(is) : Ordered(is)[k] = v
    BY <2>1
  <2>3. RangesOf(is) \in Seq(Nat \ {0}) /\ Len(RangesOf(is)) = Cardinality(is)
    <3>1. /\ Ordered(is) \in Seq(is) /\ DOMAIN Ordered(is) = 1 .. Cardinality(is)
          /\ \A i \in 1 .. Cardinality(is) : Ordered(is)[i] \in is
      BY OrderedFacts
    <3>2. RangesOf(is) = [i \in 1 .. Cardinality(is) |-> States[Ordered(is)[i]]]
      BY <3>1 DEF RangesOf, Ranges
    <3>3. \A u \in is : States[u] \in Nat \ {0}
      BY StatesAssumption
    <3>4. RangesOf(is) \in [1 .. Cardinality(is) -> Nat \ {0}]
      BY <3>1, <3>2, <3>3
    <3> QED BY <2>1, <3>4, MakesSeq
  <2>4. PICK V : IsVolumes(V, RangesOf(is))
    BY <2>3, VolumesExist
  <2>5. Stride(is, v) = V[k - 1]
    BY <2>2, <2>4, Strides
  <2>6. V[k - 1] \in Nat \ {0}
    BY <2>3, <2>4, SeqBasics
  <2> QED BY <2>5, <2>6
<1> QED BY <1>1 DEF SumsOf

(* The linear state of some variables in a joint state of others is the sum *)
(* of the values of those others, each weighted with what IndexFor adds for *)
(* it.                                                                      *)
LEMMA IndexIsSum ==
    ASSUME NEW vs, vs \subseteq DOMAIN States, IsFiniteSet(vs),
           NEW is, is \subseteq DOMAIN States, IsFiniteSet(is),
           NEW state \in [vs -> Nat],
           NEW P, PartialSums(P, Weighted(DigitsIn(vs, state), SumsOf(is, vs), Cardinality(vs)), Cardinality(vs))
    PROVE  calcLinearState(is, state) = P[Cardinality(vs)] /\ P[Cardinality(vs)] \in Nat
<1> DEFINE o == Ordered(vs)
           n == Cardinality(vs)
           I == is \cap vs
           f == [v \in I |-> state[v] * Stride(is, v)]
           Upto(k) == {v \in I : \E i \in 1 .. k : o[i] = v}
<1>1. /\ n \in Nat
      /\ \A k \in 1 .. n : o[k] \in vs
      /\ \A v \in vs : \E k \in 1 .. n : o[k] = v
      /\ \A i, j \in 1 .. n : o[i] = o[j] => i = j
  BY OrderedFacts
<1>2. \A v \in I : f[v] \in Nat
  BY SumsAreNumbers
<1>3. IsFiniteSet(I)
  BY FS_Subset
<1>4. calcLinearState(is, state) = SumOver(f, I)
  <2>1. calcLinearState(is, state) = SumFunction(f)
    BY DEF calcLinearState
  <2>2. DOMAIN f = I
    OBVIOUS
  <2> HIDE DEF f, I
  <2> QED BY <2>1, <2>2 DEF SumFunction, SumFunctionOnSet, FoldFunctionOnSet, MapThenFoldSet, SumOver
<1>5. PICK mu : Additive(mu, f, I) /\ SumOver(f, I) = mu[I]
  <2> HIDE DEF f, I
  <2> QED BY <1>2, <1>3, SumOverFacts
<1>6. /\ P[0] = 0
      /\ \A k \in 1 .. n : P[k] = P[k - 1] + IF o[k] \in I THEN f[o[k]] ELSE 0
  <2>1. P[0] = 0 /\ \A k \in 1 .. n : P[k] = P[k - 1] + state[o[k]] * (IF o[k] \in is THEN Stride(is, o[k]) ELSE 0)
    BY DEF PartialSums, Weighted, DigitsIn, SumsOf
  <2>2. ASSUME NEW k \in 1 .. n PROVE P[k] = P[k - 1] + IF o[k] \in I THEN f[o[k]] ELSE 0
    <3>1. o[k] \in vs /\ state[o[k]] \in Nat
      BY <1>1
    <3>2. CASE o[k] \in is
      BY <2>1, <3>1, <3>2
    <3>3. CASE o[k] \notin is
      <4>1. state[o[k]] * 0 = 0
        BY <3>1
      <4> HIDE DEF o, n
      <4> QED BY <2>1, <3>1, <3>3, <4>1
    <3> QED BY <3>2, <3>3
  <2> QED BY <2>1, <2>2
<1> DEFINE Q == {k \in Nat : k <= n => P[k] = mu[Upto(k)] /\ P[k] \in Nat}
<1> HIDE DEF f, n, o, I
<1>7. 0 \in Q
  <2>1. Upto(0) = {}
    OBVIOUS
  <2>2. mu[{}] = 0
    BY <1>5 DEF Additive
  <2>3. P[0] = mu[Upto(0)] /\ P[0] \in Nat
    <3>1. P[0] = 0
      BY <1>6
    <3> QED BY ONLY <2>1, <2>2, <3>1
  <2> HIDE DEF Upto
  <2> QED BY <2>3
<1>8. ASSUME NEW k \in Nat, k \in Q PROVE k + 1 \in Q
  <2> SUFFICES ASSUME k + 1 <= n PROVE P[k + 1] = mu[Upto(k + 1)] /\ P[k + 1] \in Nat
    OBVIOUS
  <2>1. k + 1 \in 1 .. n /\ (k + 1) - 1 = k /\ P[k] = mu[Upto(k)] /\ P[k] \in Nat
    BY <1>1, <1>8
  <2>2. CASE o[k + 1] \in I
    <3>1. P[k + 1] = P[k] + f[o[k + 1]]
      BY <1>6, <2>1, <2>2
    <3>2. Upto(k + 1) \in SUBSET I /\ o[k + 1] \in Upto(k + 1)
      BY <2>2
    <3>3. Upto(k + 1) \ {o[k + 1]} = Upto(k)
      <4>1. \A i \in 1 .. k : i \in 1 .. n /\ i # k + 1
        BY <1>1
      <4>2. \A i \in 1 .. k : o[i] # o[k + 1]
        BY <1>1, <2>1, <4>1
      <4>3. 1 .. k + 1 = (1 .. k) \cup {k + 1}
        OBVIOUS
      <4> QED BY <4>2, <4>3
    <3> HIDE DEF Upto
    <3>4. mu[Upto(k + 1)] = f[o[k + 1]] + mu[Upto(k + 1) \ {o[k + 1]}]
      BY <1>5, <3>2 DEF Additive
    <3>5. mu[Upto(k + 1)] = f[o[k + 1]] + P[k] /\ f[o[k + 1]] \in Nat
      BY <1>2, <2>1, <2>2, <3>3, <3>4
    <3> QED BY <2>1, <3>1, <3>5
  <2>3. CASE o[k + 1] \notin I
    <3>1. P[k + 1] = P[k]
      BY <1>6, <2>1, <2>3
    <3>2. Upto(k + 1) = Upto(k)
      <4>1. 1 .. k + 1 = (1 .. k) \cup {k + 1}
        OBVIOUS
      <4> QED BY <2>3, <4>1
    <3> HIDE DEF Upto
    <3> QED BY <2>1, <3>1, <3>2
  <2> QED BY <2>2, <2>3
<1>9. Nat \subseteq Q
  <2> HIDE DEF Q
  <2> QED BY <1>7, <1>8, SetInduction
<1>10. Upto(n) = I
  <2>1. \A v \in I : \E i \in 1 .. n : o[i] = v
    BY <1>1 DEF I
  <2> QED BY <2>1
<1>11. P[n] = mu[Upto(n)] /\ P[n] \in Nat
  <2> HIDE DEF Upto
  <2> QED BY <1>1, <1>9
<1> QED BY <1>4, <1>5, <1>10, <1>11 DEF n

-----------------------------------------------------------------------------
(* A finite set of variables.                                               *)
Finite(vs) == vs \subseteq DOMAIN States /\ IsFiniteSet(vs)

(* Where the iterators stand after li steps.                                *)
IndexAt(li) == calcLinearState(indexVars, calcState(forVars, li))

DigitsAt(li) ==
    IF li < NrStates(forVars) THEN DigitsIn(forVars, calcState(forVars, li)) ELSE AllZero(Cardinality(forVars))

StatesAt(li) ==
    IF li < NrStates(forVars) THEN calcState(forVars, li) ELSE [v \in forVars |-> 0]

OrEnd(li, value) == IF li < NrStates(forVars) THEN value ELSE -1

(* The strengthened invariant of IterationSpec: the state of every iterator *)
(* is a function of the number of steps alone.                              *)
IterationInv ==
    /\ Finite(forVars) /\ Finite(indexVars)
    /\ order \in SetToSeqs(forVars)
    /\ steps \in Nat /\ steps <= NrStates(forVars)
    /\ it = [index |-> OrEnd(steps, IndexAt(steps)), sum |-> SumsOf(indexVars, forVars),
             state |-> DigitsAt(steps), ranges |-> RangesOf(forVars)]
    /\ mf = [ranges |-> RangesOf(forVars), indices |-> DigitsAt(steps), linear |-> OrEnd(steps, steps)]
    /\ s = [linear |-> OrEnd(steps, steps), states |-> StatesAt(steps)]

(* The number of joint states is the volume of the ranges.                  *)
LEMMA VolumesOf ==
    ASSUME NEW vs, Finite(vs)
    PROVE  /\ Cardinality(vs) \in Nat
           /\ NrStates(vs) \in Nat \ {0}
           /\ RangesOf(vs) \in Seq(Nat \ {0}) /\ Len(RangesOf(vs)) = Cardinality(vs)
           /\ RangesOf(vs) \in [1 .. Cardinality(vs) -> Nat \ {0}]
           /\ \E V : IsVolumes(V, RangesOf(vs)) /\ NrStates(vs) = V[Cardinality(vs)]
<1> DEFINE n == Cardinality(vs)
           o == Ordered(vs)
           r == RangesOf(vs)
<1>1. /\ n \in Nat /\ o \in Seq(vs) /\ Len(o) = n /\ DOMAIN o = 1 .. n
      /\ \A i \in 1 .. n : o[i] \in vs
  BY OrderedFacts DEF Finite
<1>2. \A v \in vs : States[v] \in Nat \ {0}
  BY StatesAssumption DEF Finite
<1>3. r \in [1 .. n -> Nat \ {0}]
  BY <1>1, <1>2 DEF RangesOf, Ranges
<1> HIDE DEF r, n
<1>4. r \in Seq(Nat \ {0}) /\ Len(r) = n
  BY <1>1, <1>3, MakesSeq
<1>5. PICK V : IsVolumes(V, r)
  BY <1>4, VolumesExist
<1>6. NrStates(vs) = V[n]
  BY <1>5, Strides DEF r, n, Finite
<1>7. V[n] \in Nat \ {0}
  <2>1. n \in 0 .. n
    BY <1>1
  <2>2. \A k \in 0 .. Len(r) : V[k] \in Nat \ {0}
    BY <1>4, <1>5, SeqBasics
  <2> QED BY <1>4, <2>1, <2>2
<1> QED BY <1>1, <1>3, <1>4, <1>5, <1>6, <1>7 DEF r, n

(* Joint state 0: all variables are in state 0, and every index is 0.       *)
LEMMA ZeroState ==
    ASSUME NEW vs, Finite(vs), NEW is, Finite(is)
    PROVE  /\ calcState(vs, 0) = [v \in vs |-> 0]
           /\ DigitsIn(vs, calcState(vs, 0)) = AllZero(Cardinality(vs))
           /\ calcLinearState(is, calcState(vs, 0)) = 0
<1>1. \A v \in vs : States[v] \in Nat \ {0} /\ Stride(vs, v) \in Nat \ {0}
  BY StatesAssumption, SumsAreNumbers DEF Finite
<1>2. ASSUME NEW b \in Nat \ {0}, NEW c \in Nat \ {0} PROVE (0 \div b) % c = 0
  <2>1. 0 \div b = 0
    OBVIOUS
  <2>2. 0 % c = 0
    OBVIOUS
  <2> QED BY <2>1, <2>2
<1>3. calcState(vs, 0) = [v \in vs |-> 0]
  BY <1>1, <1>2 DEF calcState
<1> DEFINE n == Cardinality(vs)
           zero == [v \in vs |-> 0]
<1>4. n \in Nat /\ \A k \in 1 .. n : Ordered(vs)[k] \in vs
  BY OrderedFacts DEF Finite
<1>5. DigitsIn(vs, zero) = AllZero(n)
  BY <1>4 DEF DigitsIn, AllZero
<1> DEFINE P == [k \in 0 .. n |-> 0]
           w == SumsOf(is, vs)
<1>6. \A k \in 1 .. n : w[k] \in Nat
  BY SumsAreNumbers DEF Finite
<1>7. PartialSums(P, Weighted(DigitsIn(vs, zero), w, n), n)
  <2>1. \A k \in 1 .. n : Weighted(AllZero(n), w, n)[k] = 0
    <3> HIDE DEF w, n
    <3> QED BY <1>6 DEF Weighted, AllZero
  <2>2. P \in [0 .. n -> Int] /\ P[0] = 0 /\ \A k \in 1 .. n : P[k] = 0 /\ P[k - 1] = 0
    BY <1>4
  <2> HIDE DEF P, w, n
  <2> QED BY <1>5, <2>1, <2>2 DEF PartialSums
<1>8. calcLinearState(is, zero) = P[n]
  <2>1. zero \in [vs -> Nat]
    OBVIOUS
  <2> HIDE DEF P, zero
  <2> QED BY <1>7, <2>1, IndexIsSum DEF n, w, Finite
<1>9. P[n] = 0
  BY <1>4
<1> QED BY <1>3, <1>5, <1>8, <1>9

(* One step from linear state li: the values become those of joint state li *)
(* + 1, and what NextIndex computes is the linear state there; after the    *)
(* last joint state all values are 0 and no digit has moved.                *)
LEMMA Stepping ==
    ASSUME NEW vs, Finite(vs), NEW is, Finite(is), NEW li \in Nat, li < NrStates(vs)
    PROVE  LET n == Cardinality(vs)
               d == DigitsIn(vs, calcState(vs, li))
               r == RangesOf(vs)
               w == SumsOf(is, vs)
               i == Moving(d, r)
               index == calcLinearState(is, calcState(vs, li))
           IN  /\ i \in 1 .. n + 1 /\ index \in Nat /\ d \in [1 .. n -> Nat]
               /\ li + 1 < NrStates(vs) =>
                     /\ i <= n
                     /\ Turned(d, r) = DigitsIn(vs, calcState(vs, li + 1))
                     /\ calcLinearState(is, calcState(vs, li + 1)) =
                           index + w[i] - SumFunction([k \in 1 .. i - 1 |-> w[k] * (r[k] - 1)])
               /\ ~(li + 1 < NrStates(vs)) => li + 1 = NrStates(vs) /\ i = n + 1 /\ Turned(d, r) = AllZero(n)
<1> DEFINE n == Cardinality(vs)
           d == DigitsIn(vs, calcState(vs, li))
           r == RangesOf(vs)
           w == SumsOf(is, vs)
           i == Moving(d, r)
           e == Turned(d, r)
           back == [k \in 1 .. i - 1 |-> w[k] * (r[k] - 1)]
<1>1. /\ n \in Nat /\ r \in Seq(Nat \ {0}) /\ Len(r) = n /\ r \in [1 .. n -> Nat \ {0}]
      /\ NrStates(vs) \in Nat \ {0}
  BY VolumesOf
<1>2. PICK V : IsVolumes(V, r) /\ NrStates(vs) = V[n]
  BY VolumesOf
<1>3. d = DigitsOf(li, r, V) /\ calcState(vs, li) \in [vs -> Nat]
  BY <1>2, StatesAreDigits DEF Finite
<1>4. d \in [1 .. n -> Nat]
  BY <1>1, <1>2, <1>3, DigitsAreNumbers
<1>5. w \in [1 .. n -> Nat]
  BY SumsAreNumbers DEF Finite
<1> HIDE DEF n, d, r, w
<1>6. /\ i \in 1 .. n + 1
      /\ \A k \in 1 .. n : k < i => d[k] = r[k] - 1 /\ e[k] = 0
      /\ \A k \in 1 .. n : k > i => e[k] = d[k]
      /\ i <= n => e[i] = d[i] + 1
      /\ i = n + 1 => li + 1 = V[n] /\ e = AllZero(n)
      /\ i <= n => li + 1 < V[n] /\ e = DigitsOf(li + 1, r, V)
  <2>1. li \in 0 .. V[Len(r)] - 1
    BY <1>1, <1>2
  <2> DEFINE dd == DigitsOf(li, r, V)
             ii == Moving(dd, r)
             ee == Turned(dd, r)
  <2>2. /\ ii \in 1 .. Len(r) + 1
        /\ \A k \in 1 .. Len(r) : k < ii => dd[k] = r[k] - 1 /\ ee[k] = 0
        /\ \A k \in 1 .. Len(r) : k > ii => ee[k] = dd[k]
        /\ ii <= Len(r) => ee[ii] = dd[ii] + 1
        /\ ii = Len(r) + 1 => li + 1 = V[Len(r)] /\ ee = AllZero(Len(r))
        /\ ii <= Len(r) => li + 1 < V[Len(r)] /\ ee = DigitsOf(li + 1, r, V)
    BY <1>1, <1>2, <2>1, Odometer
  <2>3. d = dd /\ i = ii /\ e = ee /\ n = Len(r)
    BY <1>1, <1>3
  <2> HIDE DEF i, e, dd, ii, ee
  <2> QED BY <2>2, <2>3
<1>7. PICK P : PartialSums(P, Weighted(d, w, n), n)
  <2>1. \A k \in 1 .. n : Weighted(d, w, n)[k] \in Int
    BY <1>4, <1>5 DEF Weighted
  <2> QED BY <1>1, <2>1, PartialSumsExist
<1>8. calcLinearState(is, calcState(vs, li)) = P[n] /\ P[n] \in Nat
  BY <1>3, <1>7, IndexIsSum DEF n, d, w, Finite
<1>9. CASE i = n + 1
  <2>1. ~(li + 1 < NrStates(vs))
    BY <1>1, <1>2, <1>6, <1>9
  <2> QED BY <1>2, <1>4, <1>6, <1>8, <1>9, <2>1 DEF n, d, r, w
<1>10. CASE i <= n
  <2>1. li + 1 < NrStates(vs) /\ li + 1 \in Nat
    BY <1>2, <1>6, <1>10
  <2>2. e = DigitsIn(vs, calcState(vs, li + 1)) /\ calcState(vs, li + 1) \in [vs -> Nat]
    BY <1>2, <1>6, <1>10, <2>1, StatesAreDigits DEF r, Finite
  <2>3. e \in [1 .. n -> Nat]
    <3>1. DigitsOf(li + 1, r, V) \in [1 .. n -> Nat]
      BY <1>1, <1>2, <2>1, DigitsAreNumbers
    <3> QED BY <1>6, <1>10, <3>1
  <2> HIDE DEF e, i
  <2>4. PICK R : PartialSums(R, Weighted(e, w, n), n)
    <3>1. \A k \in 1 .. n : Weighted(e, w, n)[k] \in Int
      BY <1>5, <2>3 DEF Weighted
    <3> QED BY <1>1, <3>1, PartialSumsExist
  <2>5. calcLinearState(is, calcState(vs, li + 1)) = R[n]
    BY <2>2, <2>4, IndexIsSum DEF n, w, Finite
  <2>6. /\ i - 1 \in Nat /\ i \in 1 .. n /\ DOMAIN back = 1 .. i - 1
        /\ \A k \in 1 .. i - 1 : back[k] \in Int /\ back[k] = w[k] * (r[k] - 1)
    <3>1. i \in 1 .. n /\ i - 1 \in Nat /\ \A k \in 1 .. i - 1 : k \in 1 .. n
      BY <1>1, <1>6, <1>10
    <3>2. \A k \in 1 .. i - 1 : w[k] \in Int /\ r[k] \in Int
      BY <1>1, <1>5, <3>1
    <3> QED BY <3>1, <3>2
  <2> HIDE DEF back
  <2>7. PICK B : PartialSums(B, back, i - 1)
    BY <2>6, PartialSumsExist
  <2>8. SumFunction(back) = B[i - 1]
    BY <2>6, <2>7, SumIsPartial
  <2>9. R[n] = P[n] + w[i] - B[i - 1]
    <3>1. Integral(d, n) /\ Integral(e, n) /\ Integral(r, n) /\ Integral(w, n)
      BY <1>1, <1>4, <1>5, <2>3 DEF Integral
    <3>2. Turns(d, e, r, i, n)
      BY <1>6 DEF Turns
    <3>3. IsBack(back, w, r, i)
      BY <2>6 DEF IsBack
    <3> QED BY <1>1, <1>6, <1>7, <1>10, <2>4, <2>7, <3>1, <3>2, <3>3, Carry
  <2>10. calcLinearState(is, calcState(vs, li + 1)) = calcLinearState(is, calcState(vs, li)) + w[i] - SumFunction(back)
    BY <1>8, <2>5, <2>8, <2>9
  <2> QED BY <1>4, <1>6, <1>8, <1>10, <2>1, <2>2, <2>10 DEF n, d, r, w, i, e, back
<1> QED BY <1>1, <1>6, <1>9, <1>10

-----------------------------------------------------------------------------
(* All iterators start at joint state 0.                                    *)
LEMMA IterationStarts == IterationInit => IterationInv
<1> SUFFICES ASSUME IterationInit PROVE IterationInv
  OBVIOUS
<1> DEFINE vs == forVars
           n == Cardinality(vs)
           zero == [v \in vs |-> 0]
<1>1. Finite(vs) /\ Finite(indexVars)
  <2>1. PICK loop \in Loops : forVars = loop[1] /\ indexVars = loop[2]
    BY DEF IterationInit
  <2> QED BY <2>1, LoopsAssumption DEF Finite
<1>2. n \in Nat /\ NrStates(vs) \in Nat \ {0}
  BY <1>1, VolumesOf
<1>3. /\ calcState(vs, 0) = zero
      /\ DigitsIn(vs, calcState(vs, 0)) = AllZero(n)
      /\ calcLinearState(indexVars, calcState(vs, 0)) = 0
      /\ calcLinearState(vs, calcState(vs, 0)) = 0
  BY <1>1, ZeroState
<1>4. Len(Ordered(vs)) = n /\ DOMAIN Ordered(vs) = 1 .. n
  BY <1>1, OrderedFacts DEF Finite
<1>5. steps = 0 /\ 0 < NrStates(vs) /\ order \in SetToSeqs(forVars)
  BY <1>2 DEF IterationInit
<1> HIDE DEF n, zero
<1>6. DigitsAt(0) = AllZero(n) /\ StatesAt(0) = zero /\ IndexAt(0) = 0 /\ OrEnd(0, 0) = 0
  BY <1>3, <1>5 DEF DigitsAt, StatesAt, IndexAt, OrEnd
<1>7. it = [index |-> 0, sum |-> SumsOf(indexVars, forVars), state |-> AllZero(n), ranges |-> RangesOf(forVars)]
  <2>1. it = IndexFor(indexVars, forVars)
    BY DEF IterationInit
  <2> QED BY <1>4, <2>1 DEF IndexFor, SumsOf, RangesOf, n
<1>8. mf = [ranges |-> RangesOf(forVars), indices |-> AllZero(n), linear |-> 0]
  <2>1. mf = multifor(RangesOf(forVars))
    BY DEF IterationInit, RangesOf
  <2>2. Len(RangesOf(forVars)) = n
    BY <1>1, VolumesOf DEF n
  <2> QED BY <2>1, <2>2 DEF multifor
<1>9. s = [linear |-> 0, states |-> zero]
  <2>1. s = InsertedState([linear |-> 0, states |-> << >>], zero)
    BY <1>3 DEF IterationInit, State
  <2>2. DOMAIN zero = vs /\ \A v \in vs : zero[v] = 0
    BY DEF zero
  <2> DEFINE joined == [v \in {} \cup vs |-> IF v \in {} THEN << >>[v] ELSE zero[v]]
  <2>3. s = [linear |-> calcLinearState(DOMAIN joined, joined), states |-> joined]
    BY <2>1, <2>2 DEF InsertedState
  <2>4. joined = zero
    BY <2>2 DEF zero
  <2> HIDE DEF joined
  <2> QED BY <1>3, <2>2, <2>3, <2>4
<1> QED BY <1>1, <1>2, <1>5, <1>6, <1>7, <1>8, <1>9 DEF IterationInv

(* The shape of what the iterators hold.                                    *)
LEMMA AfterTheLast ==
    ASSUME IterationInv
    PROVE  /\ NrStates(forVars) \in Nat \ {0} /\ Cardinality(forVars) \in Nat
           /\ DOMAIN s.states = forVars
           /\ DOMAIN DigitsAt(steps) = 1 .. Cardinality(forVars) /\ Len(DigitsAt(steps)) = Cardinality(forVars)
           /\ steps < NrStates(forVars) => IndexAt(steps) \in Nat
<1> DEFINE n == Cardinality(forVars)
<1>1. n \in Nat /\ NrStates(forVars) \in Nat \ {0}
  BY VolumesOf DEF IterationInv
<1>2. DOMAIN s.states = forVars
  BY DEF IterationInv, StatesAt, calcState
<1>3. CASE steps < NrStates(forVars)
  <2>1. DigitsAt(steps) \in [1 .. n -> Nat] /\ IndexAt(steps) \in Nat
    <3>1. /\ DigitsIn(forVars, calcState(forVars, steps)) \in [1 .. n -> Nat]
          /\ calcLinearState(indexVars, calcState(forVars, steps)) \in Nat
      BY <1>3, Stepping DEF IterationInv
    <3> QED BY <1>3, <3>1 DEF DigitsAt, IndexAt
  <2> HIDE DEF n
  <2> QED BY <1>1, <1>2, <2>1, MakesSeq DEF n
<1>4. CASE ~(steps < NrStates(forVars))
  <2>1. DigitsAt(steps) = AllZero(n)
    BY <1>4 DEF DigitsAt
  <2>2. DigitsAt(steps) \in [1 .. n -> Nat]
    BY <2>1 DEF AllZero
  <2> HIDE DEF n
  <2> QED BY <1>1, <1>2, <1>4, <2>2, MakesSeq DEF n
<1> QED BY <1>3, <1>4

(* From wherever they are, also from past the end, all go back to joint     *)
(* state 0.                                                                 *)
LEMMA ResetGoesBack ==
    ASSUME IterationInv, ResetAll
    PROVE  IterationInv'
<1> DEFINE n == Cardinality(forVars)
           zero == [v \in forVars |-> 0]
<1>1. /\ NrStates(forVars) \in Nat \ {0} /\ n \in Nat /\ DOMAIN s.states = forVars
      /\ DOMAIN DigitsAt(steps) = 1 .. n /\ Len(DigitsAt(steps)) = n
  BY AfterTheLast
<1>2. /\ forVars' = forVars /\ indexVars' = indexVars /\ order' = order /\ steps' = 0
      /\ it' = ResetIndex(it) /\ mf' = ResetMultifor(mf) /\ s' = ResetState(s)
  BY DEF ResetAll
<1>3. /\ DigitsIn(forVars, calcState(forVars, 0)) = AllZero(n)
      /\ calcState(forVars, 0) = zero
      /\ calcLinearState(indexVars, calcState(forVars, 0)) = 0
  BY ZeroState DEF IterationInv
<1>4. /\ IndexAt(0)' = 0 /\ DigitsAt(0)' = AllZero(n) /\ StatesAt(0)' = zero /\ OrEnd(0, 0)' = 0
  BY <1>1, <1>2, <1>3 DEF IndexAt, DigitsAt, StatesAt, OrEnd
<1>5. it' = [index |-> 0, sum |-> SumsOf(indexVars, forVars), state |-> AllZero(n), ranges |-> RangesOf(forVars)]
  BY <1>1, <1>2 DEF ResetIndex, IterationInv
<1>6. mf' = [ranges |-> RangesOf(forVars), indices |-> AllZero(n), linear |-> 0]
  BY <1>1, <1>2 DEF ResetMultifor, IterationInv
<1>7. s' = [linear |-> 0, states |-> zero]
  BY <1>1, <1>2 DEF ResetState
<1> HIDE DEF n, zero
<1>8. Finite(forVars)' /\ Finite(indexVars)' /\ (order \in SetToSeqs(forVars))'
  BY <1>2 DEF IterationInv, Finite
<1>9. (steps \in Nat /\ steps <= NrStates(forVars))'
  BY <1>1, <1>2
<1> QED BY <1>2, <1>4, <1>5, <1>6, <1>7, <1>8, <1>9 DEF IterationInv

(* Past the last joint state none of them moves.                            *)
LEMMA StaysAtTheEnd ==
    ASSUME IterationInv, Advance, ~(steps < NrStates(forVars))
    PROVE  IterationInv'
<1>1. it.index = -1 /\ mf.linear = -1 /\ s.linear = -1
  BY DEF IterationInv, OrEnd
<1>2. it' = it /\ mf' = mf /\ s' = s /\ steps' = steps /\ UNCHANGED <<forVars, indexVars, order>>
  BY <1>1 DEF Advance, NextIndex, NextMultifor, NextState
<1> QED BY <1>2 DEF IterationInv, Finite, OrEnd, DigitsAt, StatesAt, IndexAt

(* A step takes all to the next joint state, or all past the last one.      *)
LEMMA AllGoOn ==
    ASSUME IterationInv, Advance, steps < NrStates(forVars)
    PROVE  IterationInv'
<1> DEFINE n == Cardinality(forVars)
           o == Ordered(forVars)
           d == DigitsIn(forVars, calcState(forVars, steps))
           r == RangesOf(forVars)
           w == SumsOf(indexVars, forVars)
           i == Moving(d, r)
           e == Turned(d, r)
           index == calcLinearState(indexVars, calcState(forVars, steps))
           back == SumFunction([k \in 1 .. i - 1 |-> w[k] * (r[k] - 1)])
           goesOn == steps + 1 < NrStates(forVars)
<1>1. Finite(forVars) /\ Finite(indexVars) /\ steps \in Nat /\ order \in SetToSeqs(forVars)
  BY DEF IterationInv
<1>2. n \in Nat /\ NrStates(forVars) \in Nat \ {0}
  BY <1>1, VolumesOf
<1>3. /\ i \in 1 .. n + 1 /\ index \in Nat /\ d \in [1 .. n -> Nat]
      /\ goesOn => i <= n /\ e = DigitsIn(forVars, calcState(forVars, steps + 1))
                   /\ calcLinearState(indexVars, calcState(forVars, steps + 1)) = index + w[i] - back
      /\ ~goesOn => steps + 1 = NrStates(forVars) /\ i = n + 1 /\ e = AllZero(n)
  BY <1>1, Stepping
<1>4. /\ it = [index |-> index, sum |-> w, state |-> d, ranges |-> r]
      /\ mf = [ranges |-> r, indices |-> d, linear |-> steps]
      /\ s = [linear |-> steps, states |-> calcState(forVars, steps)]
  BY DEF IterationInv, OrEnd, DigitsAt, StatesAt, IndexAt
<1>5. Len(d) = n /\ DOMAIN d = 1 .. n
  <2> HIDE DEF d, n
  <2> QED BY <1>2, <1>3, MakesSeq
<1>6. /\ DOMAIN o = 1 .. n
      /\ \A k \in 1 .. n : o[k] \in forVars
      /\ \A v \in forVars : \E k \in 1 .. n : o[k] = v
      /\ \A j, k \in 1 .. n : o[j] = o[k] => j = k
  BY <1>1, OrderedFacts DEF Finite
<1>7. DOMAIN calcState(forVars, steps) = forVars
  BY DEF calcState
<1>8. d = [k \in 1 .. n |-> calcState(forVars, steps)[o[k]]]
  BY DEF DigitsIn
<1>9. forVars' = forVars /\ indexVars' = indexVars /\ order' = order /\ steps' = steps + 1
  BY <1>1, <1>4 DEF Advance
<1>10. it' = [index |-> IF i > n THEN -1 ELSE index + w[i] - back, sum |-> w, state |-> e, ranges |-> r]
  <2>1. it' = NextIndex(it)
    BY DEF Advance
  <2>2. ~(index < 0)
    BY <1>3
  <2> HIDE DEF d, r, w, index, n
  <2> QED BY <1>4, <1>5, <2>1, <2>2 DEF NextIndex
<1>11. mf' = [ranges |-> r, indices |-> e, linear |-> IF i > n THEN -1 ELSE steps + 1]
  <2>1. mf' = NextMultifor(mf)
    BY DEF Advance
  <2>2. ~(steps < 0)
    BY <1>1
  <2> HIDE DEF d, r, n
  <2> QED BY <1>4, <1>5, <2>1, <2>2 DEF NextMultifor
<1>12. s' = [linear |-> IF i > n THEN -1 ELSE steps + 1,
             states |-> [v \in forVars |-> e[CHOOSE k \in 1 .. n : o[k] = v]]]
  <2>1. s' = NextState(s)
    BY DEF Advance
  <2>2. ~(steps < 0)
    BY <1>1
  <2>3. Ranges(o) = r
    BY DEF RangesOf
  <2>4. [k \in DOMAIN o |-> s.states[o[k]]] = d
    BY <1>4, <1>6, <1>8
  <2> DEFINE oo == Ordered(DOMAIN s.states)
             dd == [k \in DOMAIN oo |-> s.states[oo[k]]]
             rr == Ranges(oo)
  <2>5. NextState(s) = IF s.linear < 0 THEN s
                       ELSE [linear |-> IF Moving(dd, rr) > Len(dd) THEN -1 ELSE s.linear + 1,
                             states |-> [v \in DOMAIN s.states |-> Turned(dd, rr)[CHOOSE k \in DOMAIN oo : oo[k] = v]]]
    BY DEF NextState
  <2>6. s.linear = steps /\ DOMAIN s.states = forVars
    BY <1>4, <1>7
  <2>7. oo = o
    BY <2>6
  <2>8. dd = d /\ rr = r
    BY <2>3, <2>4, <2>7
  <2> HIDE DEF d, r, n, o, oo, dd, rr
  <2>9. NextState(s) = [linear |-> IF i > n THEN -1 ELSE steps + 1,
                        states |-> [v \in forVars |-> e[CHOOSE k \in 1 .. n : o[k] = v]]]
    BY <1>5, <1>6, <2>2, <2>5, <2>6, <2>7, <2>8
  <2> QED BY <2>1, <2>9
<1> HIDE DEF i, e, d, r, w, index, n, o, back
<1>13. ASSUME NEW v \in forVars
       PROVE  (CHOOSE k \in 1 .. n : o[k] = v) \in 1 .. n /\ o[CHOOSE k \in 1 .. n : o[k] = v] = v
  BY <1>6
<1>14. CASE goesOn
  <2>1. ~(i > n) /\ i \in 1 .. n
    BY <1>2, <1>3, <1>14
  <2>2. [v \in forVars |-> e[CHOOSE k \in 1 .. n : o[k] = v]] = calcState(forVars, steps + 1)
    <3> DEFINE f == calcState(forVars, steps + 1)
    <3>1. e = [k \in 1 .. n |-> f[o[k]]]
      BY <1>3, <1>14 DEF DigitsIn, n, o
    <3>2. f = [v \in forVars |-> f[v]]
      BY DEF calcState
    <3> HIDE DEF f
    <3>3. \A v \in forVars : e[CHOOSE k \in 1 .. n : o[k] = v] = f[v]
      BY <1>13, <3>1
    <3>4. [v \in forVars |-> e[CHOOSE k \in 1 .. n : o[k] = v]] = f
      BY <3>2, <3>3
    <3> QED BY <3>4 DEF f
  <2>3. /\ it' = [index |-> calcLinearState(indexVars, calcState(forVars, steps + 1)), sum |-> w,
                 state |-> e, ranges |-> r]
        /\ mf' = [ranges |-> r, indices |-> e, linear |-> steps + 1]
        /\ s' = [linear |-> steps + 1, states |-> calcState(forVars, steps + 1)]
    BY <1>3, <1>10, <1>11, <1>12, <1>14, <2>1, <2>2
  <2>4. /\ OrEnd(steps, IndexAt(steps))' = calcLinearState(indexVars, calcState(forVars, steps + 1))
        /\ OrEnd(steps, steps)' = steps + 1
        /\ DigitsAt(steps)' = e
        /\ StatesAt(steps)' = calcState(forVars, steps + 1)
    BY <1>3, <1>9, <1>14 DEF OrEnd, IndexAt, DigitsAt, StatesAt
  <2>5. (steps \in Nat /\ steps <= NrStates(forVars))'
    BY <1>1, <1>2, <1>9, <1>14
  <2>6. Finite(forVars)' /\ Finite(indexVars)' /\ (order \in SetToSeqs(forVars))'
    BY <1>1, <1>9 DEF Finite
  <2> QED BY <1>9, <2>3, <2>4, <2>5, <2>6 DEF IterationInv, w, r
<1>15. CASE ~goesOn
  <2>1. i > n /\ steps + 1 = NrStates(forVars) /\ e = AllZero(n)
    BY <1>2, <1>3, <1>15
  <2>2. [v \in forVars |-> e[CHOOSE k \in 1 .. n : o[k] = v]] = [v \in forVars |-> 0]
    <3>1. \A k \in 1 .. n : e[k] = 0
      BY <2>1 DEF AllZero
    <3> QED BY <1>13, <3>1
  <2>3. /\ it' = [index |-> -1, sum |-> w, state |-> e, ranges |-> r]
        /\ mf' = [ranges |-> r, indices |-> e, linear |-> -1]
        /\ s' = [linear |-> -1, states |-> [v \in forVars |-> 0]]
    BY <1>10, <1>11, <1>12, <2>1, <2>2
  <2>4. /\ OrEnd(steps, IndexAt(steps))' = -1
        /\ OrEnd(steps, steps)' = -1
        /\ DigitsAt(steps)' = e
        /\ StatesAt(steps)' = [v \in forVars |-> 0]
    BY <1>9, <1>15, <2>1 DEF OrEnd, DigitsAt, StatesAt, n
  <2>5. (steps \in Nat /\ steps <= NrStates(forVars))'
    BY <1>1, <1>2, <1>9, <2>1
  <2>6. Finite(forVars)' /\ Finite(indexVars)' /\ (order \in SetToSeqs(forVars))'
    BY <1>1, <1>9 DEF Finite
  <2> QED BY <1>9, <2>3, <2>4, <2>5, <2>6 DEF IterationInv, w, r
<1> QED BY <1>14, <1>15

(* Whatever is looped over, and whichever variables an index is wanted for: *)
(* through any calls of ++ and reset, IndexFor, multifor and State all      *)
(* stand where the number of steps says.                                    *)
THEOREM IterationInvHolds == IterationSpec => []IterationInv
<1>1. IterationInv /\ [IterationNext]_iterVars => IterationInv'
  <2> SUFFICES ASSUME IterationInv, [IterationNext]_iterVars PROVE IterationInv'
    OBVIOUS
  <2>1. CASE Advance
    BY <2>1, StaysAtTheEnd, AllGoOn
  <2>2. CASE ResetAll
    BY <2>2, ResetGoesBack
  <2>3. CASE UNCHANGED iterVars
    BY <2>3 DEF iterVars, IterationInv, Finite, OrEnd, DigitsAt, StatesAt, IndexAt
  <2> QED BY <2>1, <2>2, <2>3 DEF IterationNext
<1> QED BY <1>1, IterationStarts, PTL DEF IterationSpec

(* So they agree on where they are, and end at once.                        *)
LEMMA InStepFollows ==
    ASSUME IterationInv
    PROVE  InStep
<1> DEFINE n == Cardinality(forVars)
<1>1. /\ NrStates(forVars) \in Nat \ {0} /\ n \in Nat /\ DOMAIN DigitsAt(steps) = 1 .. n
      /\ steps < NrStates(forVars) => IndexAt(steps) \in Nat
  BY AfterTheLast
<1>2. steps \in Nat /\ steps <= NrStates(forVars)
  BY DEF IterationInv
<1>3. CASE steps < NrStates(forVars)
  <2>1. /\ it.index = IndexAt(steps) /\ mf.linear = steps /\ s.linear = steps
        /\ s.states = calcState(forVars, steps)
        /\ mf.indices = DigitsIn(forVars, calcState(forVars, steps))
        /\ DOMAIN mf.indices = 1 .. n
    BY <1>1, <1>3 DEF IterationInv, OrEnd, DigitsAt, StatesAt
  <2>2. \A k \in DOMAIN mf.indices : mf.indices[k] = s.states[Ordered(forVars)[k]]
    BY <2>1 DEF DigitsIn
  <2>3. it.index = LinearStateOf(s, indexVars)
    BY <2>1 DEF LinearStateOf, IndexAt
  <2> QED BY <1>1, <1>2, <1>3, <2>1, <2>2, <2>3 DEF InStep, Valid
<1>4. CASE ~(steps < NrStates(forVars))
  <2>1. it.index = -1 /\ mf.linear = -1 /\ s.linear = -1
    BY <1>4 DEF IterationInv, OrEnd
  <2> QED BY <1>4, <2>1 DEF InStep, Valid
<1> QED BY <1>3, <1>4

-----------------------------------------------------------------------------
(* `list' names every variable of vs once.                                  *)
Lists(list, vs) ==
    /\ list \in [1 .. Cardinality(vs) -> vs]
    /\ \A i, j \in 1 .. Cardinality(vs) : list[i] = list[j] => i = j
    /\ \A v \in vs : \E i \in 1 .. Cardinality(vs) : list[i] = v

(* The place of a joint state in a table in which the first variable of     *)
(* list runs fastest.                                                       *)
Position(list, state) ==
    SumFunction([k \in DOMAIN list |-> state[list[k]] * Volume(SubSeq(Ranges(list), 1, k - 1))])

InRange(state, vs) == \A v \in vs : state[v] \in 0 .. States[v] - 1

(* The ranges of a list of variables are ranges, one for each.              *)
LEMMA RangesFacts ==
    ASSUME NEW vs, Finite(vs), NEW list, Lists(list, vs)
    PROVE  /\ Cardinality(vs) \in Nat /\ DOMAIN list = 1 .. Cardinality(vs)
           /\ Ranges(list) \in Seq(Nat \ {0}) /\ Len(Ranges(list)) = Cardinality(vs)
           /\ Ranges(list) = [k \in 1 .. Cardinality(vs) |-> States[list[k]]]
           /\ \A k \in 1 .. Cardinality(vs) : list[k] \in vs
<1> DEFINE n == Cardinality(vs)
<1>1. n \in Nat
  BY FS_CardinalityType DEF Finite
<1>2. DOMAIN list = 1 .. n /\ \A k \in 1 .. n : list[k] \in vs
  BY DEF Lists
<1>3. \A v \in vs : States[v] \in Nat \ {0}
  BY StatesAssumption DEF Finite
<1>4. Ranges(list) = [k \in 1 .. n |-> States[list[k]]]
  BY <1>2 DEF Ranges
<1>5. Ranges(list) \in [1 .. n -> Nat \ {0}]
  BY <1>2, <1>3, <1>4
<1> HIDE DEF n
<1>6. Ranges(list) \in Seq(Nat \ {0}) /\ Len(Ranges(list)) = n
  BY <1>1, <1>5, MakesSeq
<1> QED BY <1>1, <1>2, <1>4, <1>6 DEF n

(* That place is made up of the values of the variables as digits ...       *)
LEMMA PositionIsSum ==
    ASSUME NEW vs, Finite(vs), NEW list, Lists(list, vs), NEW state, InRange(state, vs),
           NEW V, IsVolumes(V, Ranges(list)),
           NEW P, PartialSums(P, Weighted([k \in 1 .. Cardinality(vs) |-> state[list[k]]],
                                          WeightOf(V, Cardinality(vs)), Cardinality(vs)), Cardinality(vs))
    PROVE  /\ Position(list, state) = P[Cardinality(vs)]
           /\ IsDigits([k \in 1 .. Cardinality(vs) |-> state[list[k]]], Ranges(list))
<1> DEFINE n == Cardinality(vs)
           r == Ranges(list)
           d == [k \in 1 .. n |-> state[list[k]]]
           w == WeightOf(V, n)
           f == [k \in DOMAIN list |-> state[list[k]] * Volume(SubSeq(r, 1, k - 1))]
<1>1. /\ n \in Nat /\ DOMAIN list = 1 .. n /\ r \in Seq(Nat \ {0}) /\ Len(r) = n
      /\ \A k \in 1 .. n : list[k] \in vs /\ r[k] = States[list[k]]
  BY RangesFacts
<1>2. \A k \in 1 .. n : V[k - 1] \in Nat \ {0}
  BY <1>1, SeqBasics
<1>3. \A k \in 1 .. n : d[k] \in 0 .. r[k] - 1 /\ d[k] \in Int /\ d[k] = state[list[k]]
  BY <1>1 DEF InRange
<1>4. IsDigits(d, r)
  BY <1>1, <1>3 DEF IsDigits
<1> HIDE DEF r, n, d
<1>5. \A k \in 1 .. n : Volume(SubSeq(r, 1, k - 1)) = V[k - 1]
  <2> TAKE k \in 1 .. n
  <2>1. k - 1 \in 0 .. Len(r)
    BY <1>1
  <2> QED BY <1>1, <2>1, FirstVolumes DEF r
<1>6. f = Weighted(d, w, n)
  <2>1. \A k \in 1 .. n : f[k] = d[k] * w[k]
    BY <1>1, <1>3, <1>5 DEF WeightOf
  <2>2. f = [k \in 1 .. n |-> f[k]]
    BY <1>1
  <2> HIDE DEF f, w
  <2> QED BY <2>1, <2>2 DEF Weighted
<1>7. \A k \in 1 .. n : f[k] \in Int
  <2>1. \A k \in 1 .. n : f[k] = d[k] * V[k - 1]
    BY <1>1, <1>3, <1>5
  <2> HIDE DEF f
  <2> QED BY <1>2, <1>3, <2>1
<1>8. DOMAIN f = 1 .. n
  BY <1>1
<1> HIDE DEF f, w
<1>9. SumFunction(f) = P[n]
  <2>1. PartialSums(P, f, n)
    BY <1>6 DEF n, d, w
  <2> QED BY <1>1, <1>7, <1>8, <2>1, SumIsPartial
<1>10. Position(list, state) = SumFunction(f)
  BY DEF Position, f, r
<1> QED BY <1>4, <1>9, <1>10 DEF n, d, r

(* ... and Digit finds each of them again.                                  *)
LEMMA DigitsOfPosition ==
    ASSUME NEW vs, Finite(vs), NEW list, Lists(list, vs), NEW state, InRange(state, vs),
           NEW k \in 1 .. Cardinality(vs)
    PROVE  Digit(Ranges(list), Position(list, state), k) = state[list[k]]
<1> DEFINE n == Cardinality(vs)
           r == Ranges(list)
           d == [j \in 1 .. n |-> state[list[j]]]
           li == Position(list, state)
<1>1. /\ n \in Nat /\ DOMAIN list = 1 .. n /\ r \in Seq(Nat \ {0}) /\ Len(r) = n
      /\ \A j \in 1 .. n : list[j] \in vs
  BY RangesFacts
<1>2. PICK V : IsVolumes(V, r)
  BY <1>1, VolumesExist
<1> DEFINE w == WeightOf(V, n)
<1>3. PICK P : PartialSums(P, Weighted(d, w, n), n)
  <2>1. \A j \in 1 .. n : d[j] \in Int
    BY <1>1 DEF InRange
  <2>2. \A j \in 1 .. n : w[j] \in Int
    BY <1>1, <1>2, SeqBasics DEF WeightOf
  <2>3. \A j \in 1 .. n : Weighted(d, w, n)[j] \in Int
    <3> HIDE DEF d, w, n
    <3> QED BY <2>1, <2>2 DEF Weighted
  <2> HIDE DEF d, w, n
  <2> QED BY <1>1, <2>3, PartialSumsExist
<1>4. li = P[n] /\ IsDigits(d, r)
  BY <1>2, <1>3, PositionIsSum
<1> HIDE DEF n, r, d, li
<1>5. P[n] \in 0 .. V[n] - 1
  <2>1. \A j \in 0 .. Len(r) : P[j] \in 0 .. V[j] - 1
    BY <1>1, <1>2, <1>3, <1>4, DigitsBelow
  <2> QED BY <1>1, <2>1
<1>6. V[n] \in Nat \ {0}
  <2>1. n \in 0 .. Len(r)
    BY <1>1
  <2> QED BY <1>1, <1>2, <2>1, SeqBasics
<1>7. li \in Nat /\ li < V[n]
  BY <1>4, <1>5, <1>6
<1> DEFINE e == DigitsOf(li, r, V)
<1>8. IsDigits(e, r) /\ \E R : PartialSums(R, Weighted(e, w, n), n)
  BY <1>1, <1>2, <1>7, DigitsAreNumbers
<1>9. PICK R : PartialSums(R, Weighted(e, w, n), n)
  BY <1>8
<1>10. R[n] = li
  BY <1>1, <1>2, <1>7, <1>9, DigitsMakeUp
<1>11. e[k] = d[k]
  <2> HIDE DEF e
  <2>1. \A j \in 1 .. Len(r) : e[j] = d[j]
    BY <1>1, <1>2, <1>3, <1>4, <1>8, <1>9, <1>10, SameDigits
  <2>2. k \in 1 .. Len(r)
    BY <1>1 DEF n
  <2> QED BY <2>1, <2>2
<1>12. Digit(r, li, k) = e[k]
  <2>1. k \in 1 .. n /\ k - 1 \in 0 .. Len(r)
    BY <1>1 DEF n
  <2>2. Volume(SubSeq(r, 1, k - 1)) = V[k - 1]
    BY <1>1, <1>2, <2>1, FirstVolumes
  <2> QED BY <1>1, <2>1, <2>2 DEF Digit, DigitsOf
<1>13. d[k] = state[list[k]]
  BY DEF d, n
<1> QED BY <1>11, <1>12, <1>13 DEF r, li

(* A Permute whose sigma tells where the variables of b are in a, and that  *)
(* has the ranges of a, converts places in the order of a to places in that *)
(* of b.                                                                    *)
LEMMA Converts ==
    ASSUME NEW vs, Finite(vs), NEW a, Lists(a, vs), NEW b, Lists(b, vs), NEW state, InRange(state, vs),
           NEW perm, perm.ranges = Ranges(a), DOMAIN perm.sigma = 1 .. Cardinality(vs),
           \A k \in 1 .. Cardinality(vs) : perm.sigma[k] \in 1 .. Cardinality(vs) /\ a[perm.sigma[k]] = b[k]
    PROVE  convertLinearIndex(perm, Position(a, state)) = Position(b, state)
<1> DEFINE n == Cardinality(vs)
           li == Position(a, state)
           sigma == perm.sigma
           permuted == [k \in DOMAIN sigma |-> perm.ranges[sigma[k]]]
<1>1. Ranges(a) = [k \in 1 .. n |-> States[a[k]]] /\ Ranges(b) = [k \in 1 .. n |-> States[b[k]]] /\ DOMAIN b = 1 .. n
  BY RangesFacts
<1>2. \A k \in 1 .. n : sigma[k] \in 1 .. n /\ a[sigma[k]] = b[k]
  OBVIOUS
<1>3. permuted = Ranges(b)
  <2>1. \A k \in 1 .. n : perm.ranges[sigma[k]] = States[b[k]]
    BY <1>1, <1>2
  <2> QED BY <1>1, <2>1
<1>4. \A k \in 1 .. n : Digit(perm.ranges, li, sigma[k]) = state[b[k]]
  <2> TAKE k \in 1 .. n
  <2>1. sigma[k] \in 1 .. Cardinality(vs) /\ a[sigma[k]] = b[k]
    BY <1>2
  <2> HIDE DEF sigma
  <2> QED BY <2>1, DigitsOfPosition
<1>5. convertLinearIndex(perm, li) =
         SumFunction([k \in DOMAIN sigma |-> Digit(perm.ranges, li, sigma[k]) * Volume(SubSeq(permuted, 1, k - 1))])
  BY DEF convertLinearIndex
<1>6. DOMAIN sigma = 1 .. n
  OBVIOUS
<1> HIDE DEF permuted, li, sigma, n
<1>7. [k \in DOMAIN sigma |-> Digit(perm.ranges, li, sigma[k]) * Volume(SubSeq(permuted, 1, k - 1))]
         = [k \in DOMAIN b |-> state[b[k]] * Volume(SubSeq(Ranges(b), 1, k - 1))]
  BY <1>1, <1>3, <1>4, <1>6
<1> QED BY <1>5, <1>7 DEF Position, li

(* The order of the labels is one to list variables in.                     *)
LEMMA OrderedLists ==
    ASSUME NEW vs, Finite(vs)
    PROVE  Lists(Ordered(vs), vs)
<1>1. /\ DOMAIN Ordered(vs) = 1 .. Cardinality(vs) /\ Ordered(vs) \in Seq(vs)
      /\ \A k \in 1 .. Cardinality(vs) : Ordered(vs)[k] \in vs
      /\ \A v \in vs : \E k \in 1 .. Cardinality(vs) : Ordered(vs)[k] = v
      /\ \A i, j \in 1 .. Cardinality(vs) : Ordered(vs)[i] = Ordered(vs)[j] => i = j
      /\ Len(Ordered(vs)) = Cardinality(vs)
  BY OrderedFacts DEF Finite
<1>2. Ordered(vs) \in [1 .. Cardinality(vs) -> vs]
  BY <1>1
<1> QED BY <1>1, <1>2 DEF Lists

(* So is any other, and each of them reversed.                              *)
LEMMA OrdersList ==
    ASSUME NEW vs, Finite(vs), NEW list \in SetToSeqs(vs)
    PROVE  Lists(list, vs) /\ Lists(Reverse(list), vs) /\ ToSet(list) = vs
<1> DEFINE n == Cardinality(vs)
<1>1. n \in Nat
  BY FS_CardinalityType DEF Finite
<1>2. list \in [1 .. n -> vs] /\ \A i, j \in 1 .. n : i # j => list[i] # list[j]
  BY DEF SetToSeqs
<1>3. \A v \in vs : \E i \in 1 .. n : list[i] = v
  <2> DEFINE D == 1 .. n
  <2>1. IsFiniteSet(D) /\ Cardinality(D) = n
    BY <1>1, FS_Interval
  <2>2. list \in Injection(D, vs)
    BY <1>2 DEF Injection, IsInjective
  <2> HIDE DEF D
  <2>3. list \in Surjection(D, vs)
    BY <2>1, <2>2, FS_Injection DEF Finite
  <2> QED BY <2>3 DEF Surjection, D
<1>4. Lists(list, vs)
  BY <1>2, <1>3 DEF Lists
<1>5. ToSet(list) = vs
  BY <1>2, <1>3 DEF ToSet
<1> HIDE DEF n
<1>6. Len(list) = n
  BY <1>1, <1>2, MakesSeq
<1> DEFINE back == Reverse(list)
<1>7. back = [i \in 1 .. n |-> list[(n - i) + 1]]
  BY <1>6 DEF Reverse
<1>8. \A i \in 1 .. n : (n - i) + 1 \in 1 .. n
  BY <1>1
<1> HIDE DEF back
<1>9. back \in [1 .. n -> vs]
  BY <1>2, <1>7, <1>8
<1>10. \A i, j \in 1 .. n : back[i] = back[j] => i = j
  <2> SUFFICES ASSUME NEW i \in 1 .. n, NEW j \in 1 .. n, back[i] = back[j] PROVE i = j
    OBVIOUS
  <2>1. (n - i) + 1 = (n - j) + 1
    BY <1>2, <1>7, <1>8
  <2> QED BY <1>1, <2>1
<1>11. ASSUME NEW v \in vs PROVE \E i \in 1 .. n : back[i] = v
  <2>1. PICK j \in 1 .. n : list[j] = v
    BY <1>3
  <2>2. (n - j) + 1 \in 1 .. n /\ (n - ((n - j) + 1)) + 1 = j
    BY <1>1
  <2>3. back[(n - j) + 1] = v
    BY <1>7, <2>1, <2>2
  <2> QED BY <2>2, <2>3
<1>12. Lists(back, vs)
  BY <1>9, <1>10, <1>11 DEF Lists, n
<1> QED BY <1>4, <1>5, <1>12 DEF back

(* Permute converts from a given order to that of the labels, and its       *)
(* inverse converts back.                                                   *)
LEMMA PermuteConverts ==
    ASSUME NEW vs, Finite(vs), NEW list \in SetToSeqs(vs), NEW reverse \in BOOLEAN, NEW state, InRange(state, vs)
    PROVE  LET perm == Permute(list, reverse)
               given == IF reverse THEN Reverse(list) ELSE list
           IN  /\ convertLinearIndex(perm, Position(given, state)) = Position(Ordered(vs), state)
               /\ convertLinearIndex(InversePermute(perm), Position(Ordered(vs), state)) = Position(given, state)
<1> DEFINE n == Cardinality(vs)
           o == Ordered(vs)
           perm == Permute(list, reverse)
           given == IF reverse THEN Reverse(list) ELSE list
           inverse == InversePermute(perm)
<1>1. Lists(given, vs) /\ Lists(o, vs) /\ ToSet(list) = vs
  BY OrdersList, OrderedLists
<1>2. /\ Ranges(given) = [k \in 1 .. n |-> States[given[k]]] /\ DOMAIN given = 1 .. n
      /\ Ranges(o) = [k \in 1 .. n |-> States[o[k]]] /\ DOMAIN o = 1 .. n
  BY <1>1, RangesFacts
<1>3. perm = [ranges |-> Ranges(given), sigma |-> [k \in 1 .. n |-> CHOOSE i \in 1 .. n : given[i] = o[k]]]
  <2>1. perm = [ranges |-> Ranges(given), sigma |-> [k \in DOMAIN o |-> CHOOSE i \in DOMAIN given : given[i] = o[k]]]
    BY <1>1 DEF Permute
  <2> HIDE DEF perm, given, o
  <2> QED BY <1>2, <2>1
<1> HIDE DEF perm, given, o, n
<1>4. /\ \A k \in 1 .. n : o[k] \in vs /\ given[k] \in vs
      /\ \A v \in vs : (\E k \in 1 .. n : o[k] = v) /\ (\E k \in 1 .. n : given[k] = v)
      /\ \A j, k \in 1 .. n : o[j] = o[k] => j = k
  BY <1>1 DEF Lists, n
<1>5. /\ perm.ranges = Ranges(given) /\ DOMAIN perm.sigma = 1 .. n
      /\ \A k \in 1 .. n : perm.sigma[k] \in 1 .. n /\ given[perm.sigma[k]] = o[k]
  <2>1. perm.ranges = Ranges(given) /\ DOMAIN perm.sigma = 1 .. n
    BY <1>3
  <2>2. ASSUME NEW k \in 1 .. n PROVE perm.sigma[k] \in 1 .. n /\ given[perm.sigma[k]] = o[k]
    <3>1. perm.sigma[k] = CHOOSE i \in 1 .. n : given[i] = o[k]
      BY <1>3
    <3>2. \E i \in 1 .. n : given[i] = o[k]
      BY <1>4
    <3> QED BY <3>1, <3>2
  <2> QED BY <2>1, <2>2
<1>6. \A i \in 1 .. n : \E k \in 1 .. n : perm.sigma[k] = i
  <2> TAKE i \in 1 .. n
  <2>1. PICK k \in 1 .. n : o[k] = given[i]
    BY <1>4
  <2>2. perm.sigma[k] \in 1 .. n /\ given[perm.sigma[k]] = given[i]
    BY <1>5, <2>1
  <2>3. perm.sigma[k] = i
    BY <1>1, <2>2 DEF Lists, n
  <2> QED BY <2>3
<1>7. inverse = [ranges |-> [i \in 1 .. n |-> Ranges(given)[perm.sigma[i]]],
                 sigma |-> [i \in 1 .. n |-> CHOOSE k \in 1 .. n : perm.sigma[k] = i]]
  <2>1. DOMAIN perm.ranges = 1 .. n
    BY <1>2, <1>5
  <2> QED BY <1>5, <2>1 DEF InversePermute
<1> HIDE DEF inverse
<1>8. inverse.ranges = Ranges(o)
  <2>1. \A i \in 1 .. n : Ranges(given)[perm.sigma[i]] = States[o[i]]
    BY <1>2, <1>5
  <2>2. [i \in 1 .. n |-> Ranges(given)[perm.sigma[i]]] = [i \in 1 .. n |-> States[o[i]]]
    BY <2>1
  <2> QED BY <1>2, <1>7, <2>2
<1>9. /\ DOMAIN inverse.sigma = 1 .. n
      /\ \A i \in 1 .. n : inverse.sigma[i] \in 1 .. n /\ o[inverse.sigma[i]] = given[i]
  <2>1. DOMAIN inverse.sigma = 1 .. n
    BY <1>7
  <2>2. ASSUME NEW i \in 1 .. n PROVE inverse.sigma[i] \in 1 .. n /\ o[inverse.sigma[i]] = given[i]
    <3>1. inverse.sigma[i] = CHOOSE k \in 1 .. n : perm.sigma[k] = i
      BY <1>7
    <3>2. inverse.sigma[i] \in 1 .. n /\ perm.sigma[inverse.sigma[i]] = i
      BY <1>6, <3>1
    <3> QED BY <1>5, <3>2
  <2> QED BY <2>1, <2>2
<1>10. convertLinearIndex(perm, Position(given, state)) = Position(o, state)
  BY <1>1, <1>5, Converts DEF n
<1>11. convertLinearIndex(inverse, Position(o, state)) = Position(given, state)
  BY <1>1, <1>8, <1>9, Converts DEF n
<1> QED BY <1>10, <1>11 DEF perm, given, inverse, o

(* In the order of the labels the place of a joint state is its linear      *)
(* state.                                                                   *)
LEMMA PositionOfState ==
    ASSUME NEW vs, Finite(vs), NEW li \in Nat, li < NrStates(vs)
    PROVE  InRange(calcState(vs, li), vs) /\ Position(Ordered(vs), calcState(vs, li)) = li
<1> DEFINE n == Cardinality(vs)
           o == Ordered(vs)
           r == RangesOf(vs)
           state == calcState(vs, li)
           d == [k \in 1 .. n |-> state[o[k]]]
<1>1. n \in Nat /\ r \in Seq(Nat \ {0}) /\ Len(r) = n
  BY VolumesOf
<1>2. PICK V : IsVolumes(V, r) /\ NrStates(vs) = V[n]
  BY VolumesOf
<1>3. d = DigitsOf(li, r, V)
  <2>1. DigitsIn(vs, state) = DigitsOf(li, r, V)
    BY <1>2, StatesAreDigits DEF Finite
  <2> QED BY <2>1 DEF DigitsIn
<1>4. Lists(o, vs)
  BY OrderedLists
<1>5. r = Ranges(o)
  BY DEF RangesOf
<1>6. IsDigits(DigitsOf(li, r, V), r) /\ \E P : PartialSums(P, Weighted(DigitsOf(li, r, V), WeightOf(V, n), n), n)
  BY <1>1, <1>2, DigitsAreNumbers
<1>7. PICK P : PartialSums(P, Weighted(DigitsOf(li, r, V), WeightOf(V, n), n), n)
  BY <1>6
<1>8. P[n] = li
  BY <1>1, <1>2, <1>7, DigitsMakeUp
<1>9. InRange(state, vs)
  <2> SUFFICES ASSUME NEW v \in vs PROVE state[v] \in 0 .. States[v] - 1
    BY DEF InRange
  <2>1. PICK k \in 1 .. n : o[k] = v
    BY <1>4 DEF Lists
  <2>2. DigitsOf(li, r, V)[k] \in 0 .. r[k] - 1
    BY <1>1, <1>6 DEF IsDigits
  <2>3. r[k] = States[v]
    <3>1. r = [i \in 1 .. n |-> States[o[i]]]
      BY <1>4, <1>5, RangesFacts
    <3> QED BY <2>1, <3>1
  <2>4. d[k] = state[v]
    BY <2>1
  <2> HIDE DEF d, state, r
  <2> QED BY <1>3, <2>2, <2>3, <2>4
<1>10. Position(o, state) = P[n]
  <2>1. PartialSums(P, Weighted(d, WeightOf(V, n), n), n)
    BY <1>3, <1>7
  <2> HIDE DEF state
  <2> QED BY <1>2, <1>4, <1>5, <1>9, <2>1, PositionIsSum
<1> QED BY <1>8, <1>9, <1>10

(* Hence Permute finds the joint state that the iterators stand at.         *)
LEMMA PermuteIsRightFollows ==
    ASSUME IterationInv
    PROVE  PermuteIsRight
<1> SUFFICES ASSUME Valid, NEW reverse \in BOOLEAN
             PROVE  LET p == Permute(order, reverse)
                        li == PositionIn(IF reverse THEN Reverse(order) ELSE order)
                    IN  /\ convertLinearIndex(p, li) = s.linear
                        /\ convertLinearIndex(InversePermute(p), s.linear) = li
  BY DEF PermuteIsRight
<1> DEFINE perm == Permute(order, reverse)
           given == IF reverse THEN Reverse(order) ELSE order
           state == calcState(forVars, steps)
<1>1. Finite(forVars) /\ order \in SetToSeqs(forVars) /\ steps \in Nat
  BY DEF IterationInv
<1>2. steps < NrStates(forVars) /\ s.linear = steps /\ s.states = state
  BY DEF IterationInv, Valid, OrEnd, StatesAt
<1>3. InRange(state, forVars) /\ Position(Ordered(forVars), state) = steps
  BY <1>1, <1>2, PositionOfState
<1>4. PositionIn(given) = Position(given, state)
  BY <1>2 DEF PositionIn, Position
<1> HIDE DEF state
<1>5. /\ convertLinearIndex(perm, Position(given, state)) = Position(Ordered(forVars), state)
      /\ convertLinearIndex(InversePermute(perm), Position(Ordered(forVars), state)) = Position(given, state)
  BY <1>1, <1>3, PermuteConverts
<1> HIDE DEF perm, given
<1>6. /\ convertLinearIndex(perm, PositionIn(given)) = s.linear
      /\ convertLinearIndex(InversePermute(perm), s.linear) = PositionIn(given)
  BY <1>2, <1>3, <1>4, <1>5
<1> QED BY <1>6 DEF perm, given

(* IteratorsAgree, for all variables, numbers of states, sets of variables  *)
(* that are looped over or indexed, and orders: the iterators that nothing  *)
(* but their own counters keep together never disagree, and Permute         *)
(* converts both ways.                                                      *)
THEOREM IteratorsAlwaysAgree == IterationSpec => []IteratorsAgree
<1>1. IterationInv => IteratorsAgree
  BY InStepFollows, PermuteIsRightFollows DEF IteratorsAgree
<1> QED BY <1>1, IterationInvHolds, PTL

=============================================================================
