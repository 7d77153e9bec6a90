------------------------------- MODULE Gibbs --------------------------------
(***************************************************************************)
(* The Gibbs sampler (include/dai/gibbs.h, src/gibbs.cpp): any number of    *)
(* runs on a factor graph that its client clamps and restores in between,   *)
(* with or without a new start.  A random draw may give every state that    *)
(* has a positive probability.                                             *)
(***************************************************************************)
EXTENDS InferenceClients

CONSTANTS
    Models,                     \* sequences of factors
    maxiter, restart, burnin,   \* props
    MaxCalls                    \* bound: calls of the client

VARIABLES
    o,      \* the factor graph
    state,  \* _state
    count,  \* _sample_count, _var_counts, _factor_counts
    best,   \* _max_state and the score it stands for
    iters,  \* _iters
    next,   \* in a pass: the variable to be resampled next
    pc,     \* "idle", "run" or "pass"
    calls   \* counted against MaxCalls

vars == <<o, state, count, best, iters, next, pc, calls>>

Variables == VarsOf(o.factors)

NoCounts(fs) ==
    [samples |-> 0,
     v |-> [i \in VarsOf(fs) |-> [x \in 0 .. States[i] - 1 |-> 0]],
     f |-> [I \in DOMAIN fs |-> [k \in 0 .. Len(fs[I].p) - 1 |-> 0]]]

(* getFactorEntry, and the step in a table when variable i goes up by one.  *)
getFactorEntry(fs, st, I) == calcLinearState(fs[I].vars, st)

getFactorEntryDiff(fs, I, i) == Prod({j \in fs[I].vars : j < i}, LAMBDA j : States[j])

(* The distribution of a variable given its Markov blanket; a uniform one   *)
(* if no state is allowed.                                                 *)
getVarDist(fs, st, i) ==
    LET skip(I) == getFactorEntryDiff(fs, I, i)
        entry(I) == getFactorEntry(fs, st, I) - st[i] * skip(I)
        dist == [x \in 1 .. States[i] |-> Prod(nbV(fs, i), LAMBDA I : fs[I].p[entry(I) + (x - 1) * skip(I) + 1])]
    IN  IF \A x \in DOMAIN dist : dist[x] = 0 THEN [x \in DOMAIN dist |-> 1] ELSE dist

-----------------------------------------------------------------------------
(* construct.                                                              *)
Init ==
    /\ \E fs \in Models : o = PlainObject(fs)
    /\ state = [i \in Variables |-> 0]
    /\ count = NoCounts(o.factors)
    /\ best = [state |-> state, score |-> Score(o.factors, state)]
    /\ iters = 0 /\ next = 0 /\ pc = "idle" /\ calls = 0

Called == pc = "idle" /\ calls < MaxCalls /\ calls' = calls + 1

(* init: not of the state, and not of the best state either.               *)
Initialize ==
    /\ Called
    /\ count' = NoCounts(o.factors)
    /\ iters' = 0
    /\ UNCHANGED <<o, state, best, next, pc>>

Clamp(i, x) ==
    /\ Called
    /\ o' = ClampVar(o, i, {x}, TRUE)
    /\ o'.thrown = ""
    /\ UNCHANGED <<state, count, best, iters, next, pc>>

Restore ==
    /\ Called
    /\ DOMAIN o.backup # {}
    /\ o' = RestoreFactors(o)
    /\ UNCHANGED <<state, count, best, iters, next, pc>>

Run ==
    /\ Called
    /\ pc' = "run"
    /\ UNCHANGED <<o, state, count, best, iters, next>>

(* A pass begins, every `restart' passes from a random state.               *)
StartPass ==
    /\ pc = "run" /\ iters < maxiter
    /\ IF iters % restart = 0 THEN state' \in Assignments(Variables) ELSE UNCHANGED state
    /\ next' = Min(Variables)
    /\ pc' = "pass"
    /\ UNCHANGED <<o, count, best, iters, calls>>

resampleVar ==
    /\ pc = "pass" /\ next \in Variables
    /\ \E x \in Drawable(getVarDist(o.factors, state, next)) : state' = [state EXCEPT ![next] = x]
    /\ next' = next + 1
    /\ UNCHANGED <<o, count, best, iters, pc, calls>>

(* Mutant of updateCounts: with the entries of the state before.            *)
CountsNextEntry(c, st) ==
    [samples |-> c.samples + 1,
     v |-> [i \in DOMAIN c.v |-> [c.v[i] EXCEPT ![st[i]] = @ + 1]],
     f |-> [I \in DOMAIN c.f |-> [c.f[I] EXCEPT ![(getFactorEntry(o.factors, st, I) + 1) % Len(o.factors[I].p)] = @ + 1]]]

updateCounts(c, st) ==
    [samples |-> c.samples + 1,
     v |-> [i \in DOMAIN c.v |-> [c.v[i] EXCEPT ![st[i]] = @ + 1]],
     f |-> [I \in DOMAIN c.f |-> [c.f[I] EXCEPT ![getFactorEntry(o.factors, st, I)] = @ + 1]]]

(* The pass is counted unless it belongs to the first after a restart.      *)
EndPass ==
    /\ pc = "pass" /\ next \notin Variables
    /\ IF iters % restart > burnin
       THEN /\ count' = updateCounts(count, state)
            /\ best' = IF Score(o.factors, state) > best.score
                       THEN [state |-> state, score |-> Score(o.factors, state)] ELSE best
       ELSE UNCHANGED <<count, best>>
    /\ iters' = iters + 1
    /\ pc' = "run"
    /\ UNCHANGED <<o, state, next, calls>>

Stop == pc = "run" /\ iters >= maxiter /\ pc' = "idle" /\ UNCHANGED <<o, state, count, best, iters, next, calls>>

Next ==
    \/ Initialize
    \/ \E i \in Variables : \E x \in 0 .. States[i] - 1 : Clamp(i, x)
    \/ Restore
    \/ Run
    \/ StartPass
    \/ resampleVar
    \/ EndPass
    \/ Stop

Spec == Init /\ [][Next]_vars

-----------------------------------------------------------------------------
(* The counts of a factor, kept by linear index, add up to those of each of *)
(* its variables, and all to the number of samples, however often the       *)
(* sampler was run, clamped, restored or initialised.                      *)
CountsAgree ==
    \A I \in DOMAIN o.factors :
        LET table == Factor(o.factors[I].vars, [k \in DOMAIN o.factors[I].p |-> count.f[I][k - 1]])
        IN  /\ Sum(table) = count.samples
            /\ \A i \in table.vars : Marginal(table, {i}).p = [x \in 1 .. States[i] |-> count.v[i][x - 1]]
=============================================================================
