--------------------------- MODULE StateIteration ---------------------------
(***************************************************************************)
(* Loops of libDAI over the joint states of some variables move several     *)
(* iterators at once: an IndexFor for each set of variables whose linear    *)
(* state is needed, a State, or a multifor (TFactor::slice, marginal,       *)
(* binaryOp and the message updates).  Nothing but their own counters keeps *)
(* them together.                                                          *)
(***************************************************************************)
EXTENDS LinearStates

CONSTANT Loops  \* pairs: the variables looped over, those an index is wanted for

ASSUME LoopsAssumption ==
    \A loop \in Loops : \A i \in 1 .. 2 : IsFiniteSet(loop[i]) /\ loop[i] \subseteq DOMAIN States

VARIABLES
    forVars, indexVars,
    order,  \* forVars in the order of some vector, for Permute
    it,     \* IndexFor
    mf,     \* multifor over forVars
    s,      \* State
    steps   \* history: how often the iterators have been moved since a reset

iterVars == <<forVars, indexVars, order, it, mf, s, steps>>

IterationInit ==
    /\ \E loop \in Loops : forVars = loop[1] /\ indexVars = loop[2]
    /\ order \in SetToSeqs(forVars)
    /\ it = IndexFor(indexVars, forVars)
    /\ mf = multifor(Ranges(Ordered(forVars)))
    /\ s = InsertedState([linear |-> 0, states |-> << >>], State(forVars, 0).states)
    /\ steps = 0

(* Also invalid iterators may be moved.                                    *)
Advance ==
    /\ it' = NextIndex(it)
    /\ mf' = NextMultifor(mf)
    /\ s' = NextState(s)
    /\ steps' = IF s.linear < 0 THEN steps ELSE steps + 1
    /\ UNCHANGED <<forVars, indexVars, order>>

ResetAll ==
    /\ it' = ResetIndex(it)
    /\ mf' = ResetMultifor(mf)
    /\ s' = ResetState(s)
    /\ steps' = 0
    /\ UNCHANGED <<forVars, indexVars, order>>

IterationNext == Advance \/ ResetAll

IterationSpec == IterationInit /\ [][IterationNext]_iterVars

-----------------------------------------------------------------------------
Valid == s.linear >= 0

(* The iterators of a loop stay together: they are invalid at the same      *)
(* time, after exactly as many steps as there are joint states, and until   *)
(* then the index that IndexFor keeps by differences is the linear state    *)
(* of indexVars in the joint state that State and multifor stand at, those  *)
(* of them that are not looped over being in state 0.                      *)
InStep ==
    /\ Valid <=> it.index >= 0
    /\ Valid <=> mf.linear >= 0
    /\ Valid <=> steps < NrStates(forVars)
    /\ Valid =>
         /\ it.index = LinearStateOf(s, indexVars)
         /\ s.linear = steps /\ mf.linear = steps
         /\ s.states = calcState(forVars, steps)
         /\ \A k \in DOMAIN mf.indices : mf.indices[k] = s.states[Ordered(forVars)[k]]

(* The position in a vector of the joint state that the iterators stand at, *)
(* when the vector's first (or, reversed, its last) variable runs fastest.  *)
PositionIn(list) ==
    SumFunction([k \in DOMAIN list |-> s.states[list[k]] * Volume(SubSeq(Ranges(list), 1, k - 1))])

(* Permute finds the linear state of an entry of a vector whose variables   *)
(* are in another order, and the inverse permutation finds the way back.    *)
PermuteIsRight ==
    Valid => \A reverse \in BOOLEAN :
        LET p == Permute(order, reverse)
            li == PositionIn(IF reverse THEN Reverse(order) ELSE order)
        IN  /\ convertLinearIndex(p, li) = s.linear
            /\ convertLinearIndex(InversePermute(p), s.linear) = li

(* IndexFor, multifor and State, moved together and kept together by        *)
(* nothing but their own counters, stand at the same joint state and end    *)
(* at the same time; Permute and its inverse find it in a table in another  *)
(* order.                                                                  *)
IteratorsAgree == InStep /\ PermuteIsRight

=============================================================================
