-------------------------------- MODULE Undo --------------------------------
(***************************************************************************)
(* What a factor graph promises to those who change its factors for a       *)
(* while: each factor has a value and, under it, the value that undoing     *)
(* brings back.  A change is either permanent or held until it is undone;   *)
(* as there is one level only, no factor is held twice.                     *)
(***************************************************************************)
VARIABLES
    value,  \* what is seen: a function on the factors
    base,   \* what will be seen when everything has been undone
    held    \* the factors that have something to undo

Factors == DOMAIN value

Init == base = value /\ held = {}

SameFactors == DOMAIN value' = Factors

(* Something is put over the factors in `some', and held.                  *)
Hold(some) ==
    /\ some \subseteq Factors \ held
    /\ SameFactors
    /\ \A I \in Factors \ some : value'[I] = value[I]
    /\ held' = held \cup some
    /\ base' = base

(* Any change; what is not held changes for good.                          *)
Change ==
    /\ SameFactors
    /\ base' = [I \in Factors |-> IF I \in held THEN base[I] ELSE value'[I]]
    /\ held' = held

Undone(some) ==
    /\ some \subseteq held
    /\ value' = [I \in Factors |-> IF I \in some THEN base[I] ELSE value[I]]
    /\ held' = held \ some
    /\ base' = base

Next == Change \/ \E some \in SUBSET Factors : Hold(some) \/ Undone(some)

Spec == Init /\ [][Next]_<<value, base, held>>
=============================================================================
