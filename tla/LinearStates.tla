---------------------------- MODULE LinearStates ----------------------------
(***************************************************************************)
(* How libDAI numbers the joint states of a set of variables                *)
(* (include/dai/varset.h, src/varset.cpp, include/dai/index.h): the first   *)
(* variable in the order of the labels runs fastest.  The iterators over    *)
(* these numbers are values here; StateIteration moves them.                *)
(*                                                                         *)
(* A variable is its label, a VarSet a set that is iterated in the order of *)
(* the labels.  Linear states count from 0, positions in vectors from 1.    *)
(***************************************************************************)
EXTENDS Enumerations

CONSTANT States  \* States[v]: how many states variable v has

ASSUME StatesAssumption == States \in [DOMAIN States -> Nat \ {0}] /\ DOMAIN States \subseteq Nat

(* (The concatenation makes TLC compute the sequence once and for all.)     *)
Ordered(vs) == Ascending(vs) \o << >>

Ranges(list) == [k \in DOMAIN list |-> States[list[k]]]

Volume(ranges) == FoldLeft(LAMBDA acc, r : acc * r, 1, ranges)

Volumes == [vs \in SUBSET DOMAIN States |-> Volume(Ranges(Ordered(vs)))]

NrStates(vs) == Volumes[vs]

(* How far the linear state moves with variable v. *)
Stride(vs, v) == NrStates({w \in vs : w < v})

(* Mutant of calcLinearState: a variable without a value is left out of the *)
(* strides.                                                                *)
StridesOfKnown(vs, state) ==
    LET known == vs \cap DOMAIN state
    IN  SumFunction([v \in known |-> state[v] * Stride(known, v)])

(* Variables that `state' does not mention count as being in state 0.       *)
calcLinearState(vs, state) ==
    SumFunction([v \in vs \cap DOMAIN state |-> state[v] * Stride(vs, v)])

calcState(vs, linearState) ==
    [v \in vs |-> (linearState \div Stride(vs, v)) % States[v]]

Assignments(vs) == {calcState(vs, li) : li \in 0 .. NrStates(vs) - 1}

-----------------------------------------------------------------------------
(* One step of an odometer: the first digit that is not yet at its last     *)
(* value goes up, those before it go back to 0; with no such digit all do.  *)
Moving(digits, ranges) ==
    Min({k \in DOMAIN digits : digits[k] + 1 < ranges[k]} \cup {Len(digits) + 1})

Turned(digits, ranges) ==
    [k \in DOMAIN digits |-> CASE k < Moving(digits, ranges) -> 0
                               [] k = Moving(digits, ranges) -> digits[k] + 1
                               [] OTHER -> digits[k]]

AllZero(n) == [k \in 1 .. n |-> 0]

(* IndexFor: runs over the states of `forVars' and tells the linear state   *)
(* of `indexVars' in each.                                                 *)
IndexFor(indexVars, forVars) ==
    LET order == Ordered(forVars)
    IN  [index |-> 0,
         sum |-> [k \in DOMAIN order |-> IF order[k] \in indexVars THEN Stride(indexVars, order[k]) ELSE 0],
         state |-> AllZero(Len(order)),
         ranges |-> Ranges(order)]

(* Mutant of NextIndex: the digits that go back to 0 do not take back what  *)
(* they had added to the index.                                            *)
IndexNotTakenBack(it) ==
    LET i == Moving(it.state, it.ranges)
    IN  IF it.index < 0 THEN it
        ELSE [it EXCEPT !.state = Turned(@, it.ranges),
                        !.index = IF i > Len(it.state) THEN -1 ELSE @ + it.sum[i]]

(* The index follows by differences: a digit that goes back to 0 takes back *)
(* what it had added.  Past the last state the iterator is invalid, and     *)
(* stays so.                                                               *)
NextIndex(it) ==
    LET i == Moving(it.state, it.ranges)
        back == SumFunction([k \in 1 .. i - 1 |-> it.sum[k] * (it.ranges[k] - 1)])
    IN  IF it.index < 0 THEN it
        ELSE [it EXCEPT !.state = Turned(@, it.ranges),
                        !.index = IF i > Len(it.state) THEN -1 ELSE @ + it.sum[i] - back]

ResetIndex(it) == [it EXCEPT !.state = AllZero(Len(@)), !.index = 0]

(* multifor: a number of nested loops, the first one innermost.             *)
multifor(ranges) == [ranges |-> ranges, indices |-> AllZero(Len(ranges)), linear |-> 0]

NextMultifor(mf) ==
    IF mf.linear < 0 THEN mf
    ELSE [mf EXCEPT !.indices = Turned(@, mf.ranges),
                    !.linear = IF Moving(mf.indices, mf.ranges) > Len(mf.indices) THEN -1 ELSE @ + 1]

ResetMultifor(mf) == [mf EXCEPT !.indices = AllZero(Len(@)), !.linear = 0]

-----------------------------------------------------------------------------
(* State: a joint state as a map and as a linear state at once.            *)
State(vs, linearState) == [linear |-> linearState, states |-> calcState(vs, linearState)]

(* operator()(vs): the linear state of `vs' in a joint state.               *)
LinearStateOf(s, vs) == calcLinearState(vs, s.states)

(* insert: std::map::insert leaves a variable alone that has a value.       *)
InsertedState(s, pairs) ==
    LET states == [v \in DOMAIN s.states \cup DOMAIN pairs |->
                      IF v \in DOMAIN s.states THEN s.states[v] ELSE pairs[v]]
    IN  [linear |-> calcLinearState(DOMAIN states, states), states |-> states]

NextState(s) ==
    LET order == Ordered(DOMAIN s.states)
        digits == [k \in DOMAIN order |-> s.states[order[k]]]
        ranges == Ranges(order)
    IN  IF s.linear < 0 THEN s
        ELSE [linear |-> IF Moving(digits, ranges) > Len(digits) THEN -1 ELSE s.linear + 1,
              states |-> [v \in DOMAIN s.states |->
                            Turned(digits, ranges)[CHOOSE k \in DOMAIN order : order[k] = v]]]

ResetState(s) == [linear |-> 0, states |-> [v \in DOMAIN s.states |-> 0]]

-----------------------------------------------------------------------------
(* Permute: how vectors that list the variables in another order, the first *)
(* of them fastest, or the last with `reverse', map to the canonical order. *)
Permute(vars, reverse) ==
    LET given == IF reverse THEN Reverse(vars) ELSE vars
        order == Ordered(ToSet(vars))
    IN  [ranges |-> Ranges(given),
         sigma |-> [k \in DOMAIN order |-> CHOOSE i \in DOMAIN given : given[i] = order[k]]]

Digit(ranges, li, k) == (li \div Volume(SubSeq(ranges, 1, k - 1))) % ranges[k]

(* The digits of `li' in one order, put together in the other.             *)
convertLinearIndex(p, li) ==
    LET permuted == [k \in DOMAIN p.sigma |-> p.ranges[p.sigma[k]]]
    IN  SumFunction([k \in DOMAIN p.sigma |->
            Digit(p.ranges, li, p.sigma[k]) * Volume(SubSeq(permuted, 1, k - 1))])

(* Mutant of InversePermute: the ranges stay in the order they had.         *)
RangesNotPermuted(p) == [p EXCEPT !.sigma = [i \in DOMAIN @ |-> CHOOSE k \in DOMAIN @ : @[k] = i]]

InversePermute(p) ==
    [ranges |-> [i \in DOMAIN p.ranges |-> p.ranges[p.sigma[i]]],
     sigma |-> [i \in DOMAIN p.sigma |-> CHOOSE k \in DOMAIN p.sigma : p.sigma[k] = i]]

-----------------------------------------------------------------------------
(* Values of TFactor and TProb (include/dai/factor.h, include/dai/prob.h,   *)
(* src/factor.cpp): a table with one entry for each joint state of a set of *)
(* variables, in the order of the linear states.                           *)
(*                                                                         *)
(* Entries are integers.  A table that the code divides by its sum is       *)
(* represented by its smallest integer multiple: tables that are compared   *)
(* or argmaxed after that are so only up to a factor.                      *)

(* (The concatenation makes TLC compute the entries once and for all.)      *)
Factor(vs, p) == [vars |-> vs, p |-> p \o << >>]

Filled(vs, x) == Factor(vs, [k \in 1 .. NrStates(vs) |-> x])

(* The entry for a joint state that may give values to other variables too. *)
Entry(f, state) == f.p[calcLinearState(f.vars, state) + 1]

Table(vs, value(_)) == Factor(vs, [k \in 1 .. NrStates(vs) |-> value(calcState(vs, k - 1))])

(* Mutant of Listed: the entries are taken as they come.                    *)
ListedAsIs(list, p) == Factor(ToSet(list), p)

(* The constructor for a table whose variables are listed in any order.     *)
Listed(list, p) ==
    LET index == Permute(list, FALSE)
    IN  Factor(ToSet(list), [k \in DOMAIN p |->
            p[CHOOSE li \in DOMAIN p : convertLinearIndex(index, li - 1) = k - 1]])

(* createFactorDelta: a point mass.                                        *)
FactorDelta(vs, state) ==
    Factor(vs, [k \in 1 .. NrStates(vs) |-> IF k - 1 = state THEN 1 ELSE 0])

(* The indicator of some states of a variable, made entry by entry.         *)
Mask(v, is) == Factor({v}, [k \in 1 .. States[v] |-> IF k - 1 \in is THEN 1 ELSE 0])

-----------------------------------------------------------------------------
(* binaryOp and binaryTr: on all variables of either factor.               *)
BinaryTr(f, g, op(_, _)) ==
    IF f.vars = g.vars
    THEN Factor(f.vars, [k \in DOMAIN f.p |-> op(f.p[k], g.p[k])])
    ELSE Table(f.vars \cup g.vars, LAMBDA state : op(Entry(f, state), Entry(g, state)))

Times(f, g) == BinaryTr(f, g, LAMBDA x, y : x * y)

(* The product of some numbers, one for each element of S.                  *)
Prod(S, number(_)) == MapThenFoldSet(LAMBDA x, y : x * y, 1, number, LAMBDA T : CHOOSE t \in T : TRUE, S)

ProductOf(fs) == FoldLeft(Times, Filled({}, 1), fs)

Scaled(f, x) == Factor(f.vars, [k \in DOMAIN f.p |-> f.p[k] * x])

Embedded(f, vs) == IF f.vars = vs THEN f ELSE Times(f, Filled(vs \ f.vars, 1))

(* slice: the entries for a given joint state of some of the variables.     *)
Slice(f, vs, state) ==
    Table(f.vars \ vs, LAMBDA rest : Entry(f, rest @@ calcState(vs, state)))

(* marginal without normalisation: entries are added up.                   *)
Marginal(f, vs) ==
    LET rest == f.vars \ vs
    IN  Table(f.vars \cap vs, LAMBDA state :
            SumFunction([k \in 1 .. NrStates(rest) |-> Entry(f, state @@ calcState(rest, k - 1))]))

(* maxMarginal: the largest entry, and at least the 0 it starts from.       *)
MaxMarginal(f, vs) ==
    LET rest == f.vars \ vs
    IN  Table(f.vars \cap vs, LAMBDA state :
            Max({0} \cup {Entry(f, state @@ calcState(rest, k - 1)) : k \in 1 .. NrStates(rest)}))

-----------------------------------------------------------------------------
Sum(f) == SumFunction(f.p)

(* normalize throws NOT_NORMALIZABLE for a table of zeroes.                 *)
Normalizable(f) == Sum(f) # 0

Gcd(xs) ==
    LET euclid[a, b \in Nat] == IF b = 0 THEN a ELSE euclid[b, a % b]
    IN  FoldSet(LAMBDA x, gcd : euclid[x, gcd], 0, xs)

Normalized(f) ==
    IF ~Normalizable(f) THEN f
    ELSE LET gcd == Gcd(ToSet(f.p)) IN Factor(f.vars, [k \in DOMAIN f.p |-> f.p[k] \div gcd])

(* argmax: the first of the largest entries.                               *)
ArgMax(p) == Min({k \in DOMAIN p : \A j \in DOMAIN p : p[j] <= p[k]}) - 1

(* What draw may return: a state with a positive entry.                    *)
Drawable(p) == {k - 1 : k \in {j \in DOMAIN p : p[j] > 0}}

=============================================================================
