------------------------- MODULE BeliefPropagation --------------------------
(***************************************************************************)
(* Belief propagation (include/dai/bp.h, src/bp.cpp) without damping, one   *)
(* message at a time, under each of its four update schedules, while its    *)
(* client clamps variables, restores factors and initialises some of the    *)
(* messages between the runs.                                              *)
(*                                                                         *)
(* A message is a table of integers over a common denominator; the          *)
(* tolerance is 0.  The logarithmic domain gives the same tables.           *)
(***************************************************************************)
EXTENDS InferenceClients

CONSTANTS
    Models,     \* sequences of factors: what the objects are made from
    Schedules,  \* values of props.updates
    maxiter,
    MaxCalls    \* bound: calls of the client

VARIABLES
    o,         \* the factor graph
    updates,   \* the schedule
    edges,     \* for each edge: message, newMessage, residual
    old,       \* _oldBeliefsV, _oldBeliefsF
    iters,
    todo,      \* the messages still to be updated in this pass
    pc,        \* "idle", "run", "pass", or "thrown": the last run threw
    dirty,     \* variables clamped or restored and not initialised since
    calls      \* counted against MaxCalls

vars == <<o, updates, edges, old, iters, todo, pc, dirty, calls>>

Edges == {<<i, I>> \in VarsOf(o.factors) \X (DOMAIN o.factors) : i \in o.factors[I].vars}

(* _updateSeq: by factor, then by variable.                                *)
updateSeq == FlattenSeq([I \in DOMAIN o.factors |->
                 LET vs == Ordered(o.factors[I].vars) IN [k \in DOMAIN vs |-> <<vs[k], I>>]])

-----------------------------------------------------------------------------
Ones(i) == [p |-> [x \in 1 .. States[i] |-> 1], den |-> 1]

Fraction(p) == [p |-> Normalized(p).p, den |-> Sum(Normalized(p))]

(* The distance DISTLINF of two tables, as a fraction.                     *)
dist(a, b) ==
    LET n == Max({a.p[x] * b.den - b.p[x] * a.den : x \in DOMAIN a.p}
                 \cup {b.p[x] * a.den - a.p[x] * b.den : x \in DOMAIN a.p})
    IN  IF n = 0 THEN <<0, 1>> ELSE <<n, a.den * b.den>>

(* What comes into state x of variable j from its factors other than I.     *)
Incoming(fs, msg, j, I, x) == Prod(nbV(fs, j) \ {I}, LAMBDA J : msg[<<j, J>>].message.p[x + 1])


calcIncomingMessageProduct(fs, msg, I, without) ==
    Table(fs[I].vars, LAMBDA state :
        Entry(fs[I], state) * Prod(fs[I].vars \ without, LAMBDA j : Incoming(fs, msg, j, I, state[j])))

(* The table that becomes the new message; the message of a factor of one   *)
(* variable is not normalised.                                             *)
Marg(fs, msg, e) == Marginal(calcIncomingMessageProduct(fs, msg, e[2], {e[1]}), {e[1]})

calcNewMessage(fs, msg, e) ==
    LET m == IF Cardinality(fs[e[2]].vars) = 1 THEN [p |-> fs[e[2]].p, den |-> 1]
             ELSE Fraction(Marg(fs, msg, e))
    IN  [msg[e] EXCEPT !.newMessage = m,
                       !.residual = IF updates = "SEQMAX" THEN dist(m, msg[e].message) ELSE @]

(* New messages depend on messages only, not on each other.                 *)
calcNewMessages(fs, msg, es) == [e \in Edges |-> IF e \in es THEN calcNewMessage(fs, msg, e) ELSE msg[e]]

(* A table of zeroes is not normalizable.                                  *)
Throws(fs, msg, es) ==
    \E e \in es : Cardinality(fs[e[2]].vars) > 1 /\ ~Normalizable(Marg(fs, msg, e))

(* Mutant of updateMessages: the queue is not told.                         *)
UpdateUnnoticed(msg, es) ==
    [e \in Edges |-> IF e \in es THEN [msg[e] EXCEPT !.message = msg[e].newMessage] ELSE msg[e]]

updateMessages(msg, es) ==
    [e \in Edges |->
        IF e \in es THEN [msg[e] EXCEPT !.message = msg[e].newMessage,
                                        !.residual = IF updates = "SEQMAX" THEN <<0, 1>> ELSE @]
        ELSE msg[e]]

(* findMaxResidual: of equal ones that which was inserted last.             *)
MaxResidual ==
    {e \in Edges : \A f \in Edges :
        edges[f].residual[1] * edges[e].residual[2] <= edges[e].residual[1] * edges[f].residual[2]}

(* beliefV and beliefF.                                                    *)
beliefV(fs, msg, i) ==
    Normalized(Table({i}, LAMBDA state : Prod(nbV(fs, i), LAMBDA I : msg[<<i, I>>].newMessage.p[state[i] + 1])))

beliefF(fs, msg, I) == Normalized(calcIncomingMessageProduct(fs, msg, I, {}))

beliefs(fs, msg) ==
    [v |-> [i \in VarsOf(fs) |-> beliefV(fs, msg, i)], f |-> [I \in DOMAIN fs |-> beliefF(fs, msg, I)]]

BeliefsThrow(fs, msg) ==
    \/ \E i \in VarsOf(fs) : ~Normalizable(beliefV(fs, msg, i))
    \/ \E I \in DOMAIN fs : ~Normalizable(beliefF(fs, msg, I))

-----------------------------------------------------------------------------
Blank(i) == [message |-> Ones(i), newMessage |-> Ones(i), residual |-> <<0, 1>>]

(* construct and init.  The tables have one entry per state.                *)
Init ==
    /\ \E fs \in Models : o = PlainObject(fs)
    /\ updates \in Schedules
    /\ edges = [e \in Edges |-> Blank(e[1])]
    /\ old = [v |-> [i \in VarsOf(o.factors) |-> Filled({i}, 1)],
              f |-> [I \in DOMAIN o.factors |-> Filled(o.factors[I].vars, 1)]]
    /\ iters = 0 /\ todo = << >> /\ pc = "idle" /\ dirty = {} /\ calls = 0

Called == pc \in {"idle", "thrown"} /\ calls < MaxCalls /\ calls' = calls + 1

(* init(ns), for what has been clamped and restored at least, and init()    *)
(* when ns are all variables.                                              *)
InitVars(ns) ==
    /\ Called
    /\ dirty \subseteq ns
    /\ edges' = [e \in Edges |-> IF e[1] \in ns THEN Blank(e[1]) ELSE edges[e]]
    /\ iters' = 0
    /\ dirty' = {}
    /\ UNCHANGED <<o, updates, old, todo, pc>>

(* backupFactors, and clamp.                                               *)
Clamp(v, x) ==
    /\ Called
    /\ o' = ClampVar(BackupFactors(o, nbV(o.factors, v) \ DOMAIN o.backup), v, {x}, FALSE)
    /\ dirty' = dirty \cup {v}
    /\ UNCHANGED <<updates, edges, old, iters, todo, pc>>

Restore ==
    /\ Called
    /\ DOMAIN o.backup # {}
    /\ o' = RestoreFactors(o)
    /\ dirty' = dirty \cup {v \in VarsOf(o.factors) : nbV(o.factors, v) \subseteq DOMAIN o.backup}
    /\ UNCHANGED <<updates, edges, old, iters, todo, pc>>

(* run: maxDiff is infinite to begin with.  What was clamped or restored    *)
(* has been initialised, as the interface asks.                            *)
Run ==
    /\ Called
    /\ dirty = {}
    /\ pc' = "run"
    /\ UNCHANGED <<o, updates, edges, old, iters, todo, dirty>>

-----------------------------------------------------------------------------
Throw == pc' = "thrown" /\ todo' = << >> /\ UNCHANGED <<edges, old, iters>>

(* A pass of sequential updates goes through _updateSeq, shuffled for       *)
(* SEQRND: `todo' then stands for the messages left, in any order.          *)
StartPass ==
    /\ pc = "run" /\ iters < maxiter /\ updates # "PARALL"
    /\ todo' = updateSeq
    /\ IF updates = "SEQMAX" /\ iters = 0
       THEN /\ edges' = calcNewMessages(o.factors, edges, Edges)
            /\ ~Throws(o.factors, edges, Edges)
       ELSE UNCHANGED edges
    /\ pc' = "pass"
    /\ UNCHANGED <<old, iters>>

FirstPassThrows ==
    /\ pc = "run" /\ iters < maxiter /\ updates = "SEQMAX" /\ iters = 0
    /\ Throws(o.factors, edges, Edges)
    /\ Throw

Sequential(k) ==
    /\ pc = "pass" /\ updates \in {"SEQFIX", "SEQRND"} /\ k \in DOMAIN todo
    /\ updates = "SEQFIX" => k = 1
    /\ IF Throws(o.factors, edges, {todo[k]}) THEN Throw
       ELSE /\ edges' = updateMessages(calcNewMessages(o.factors, edges, {todo[k]}), {todo[k]})
            /\ todo' = RemoveAt(todo, k)
            /\ UNCHANGED <<old, iters, pc>>

(* Those that depend on the message of edge e.                             *)
Dependents(e) == {f \in Edges : f[2] \in nbV(o.factors, e[1]) \ {e[2]} /\ f[1] # e[1]}

(* As many times as there are edges: the message with the largest residual. *)
LargestFirst ==
    /\ pc = "pass" /\ updates = "SEQMAX" /\ todo # << >>
    /\ \E e \in MaxResidual :
          LET msg == updateMessages(edges, {e})
          IN  IF Throws(o.factors, msg, Dependents(e)) THEN Throw
              ELSE /\ edges' = calcNewMessages(o.factors, msg, Dependents(e))
                   /\ todo' = Tail(todo)
                   /\ UNCHANGED <<old, iters, pc>>

Parallel ==
    /\ pc = "run" /\ iters < maxiter /\ updates = "PARALL"
    /\ IF Throws(o.factors, edges, Edges) THEN Throw
       ELSE /\ edges' = updateMessages(calcNewMessages(o.factors, edges, Edges), Edges)
            /\ pc' = "pass" /\ UNCHANGED <<old, iters, todo>>

(* The end of a pass: new beliefs, and whether they differ from the last.   *)
EndPass ==
    /\ pc = "pass" /\ todo = << >>
    /\ IF BeliefsThrow(o.factors, edges) THEN Throw
       ELSE LET now == beliefs(o.factors, edges)
            IN  /\ old' = now
                /\ iters' = iters + 1
                /\ pc' = IF now = old THEN "idle" ELSE "run"
                /\ UNCHANGED <<edges, todo>>

GiveUp == pc = "run" /\ iters >= maxiter /\ pc' = "idle" /\ UNCHANGED <<edges, old, iters, todo>>

(* The loop of run, which changes nothing but the messages and beliefs.     *)
Steps ==
    /\ StartPass \/ FirstPassThrows \/ (\E k \in DOMAIN todo : Sequential(k)) \/ LargestFirst
         \/ Parallel \/ EndPass \/ GiveUp
    /\ UNCHANGED <<o, updates, dirty, calls>>

Next ==
    \/ \E ns \in SUBSET VarsOf(o.factors) : InitVars(ns)
    \/ \E v \in VarsOf(o.factors) : \E x \in 0 .. States[v] - 1 : Clamp(v, x)
    \/ Restore
    \/ Run
    \/ Steps

Spec == Init /\ [][Next]_vars

-----------------------------------------------------------------------------
(* The residual by which the queue of SEQMAX is ordered is at all times the *)
(* distance of the new message from the one it will replace, whatever was   *)
(* initialised or updated, and when an exception has cut a run short.       *)
QueueFollows ==
    updates = "SEQMAX" =>
        \A e \in Edges : edges[e].residual = dist(edges[e].newMessage, edges[e].message)

=============================================================================
