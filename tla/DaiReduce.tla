----------------------------- MODULE DaiReduce -----------------------------
(***************************************************************************)
(* The main loop of dai_reduce (mapreduce/src/dai_reduce.cpp), one process  *)
(* per reducer.  A reducer reads lines key*value, collects consecutive     *)
(* lines of one key, and reduces them when the key changes or the input    *)
(* ends.  It relies on its input being grouped by key.                     *)
(***************************************************************************)
EXTENDS EMSteps

CONSTANT Reducers  \* their numbers

ASSUME ReducersAssumption == Reducers \subseteq Nat /\ IsFiniteSet(Reducers)

VARIABLES
    lines,    \* the input of each reducer
    pos,      \* how many lines it has read
    dats,     \* the lines of the key it is collecting
    ids,      \* the keys it has seen
    out,      \* the runs it has written
    running,  \* whether it is in its loop
    reduced   \* history: the groups it passed to em_reduce

reduceVars == <<lines, pos, dats, ids, out, running, reduced>>

ReducerReset(r) ==
    /\ pos' = [pos EXCEPT ![r] = 0]
    /\ dats' = [dats EXCEPT ![r] = << >>]
    /\ ids' = [ids EXCEPT ![r] = {}]
    /\ out' = [out EXCEPT ![r] = << >>]
    /\ reduced' = [reduced EXCEPT ![r] = << >>]

Line1(r) == lines[r][pos[r] + 1]

HasLine(r) == running[r] /\ pos[r] < Len(lines[r])

Accept(r) ==
    /\ pos' = [pos EXCEPT ![r] = @ + 1]
    /\ ids' = [ids EXCEPT ![r] = @ \cup {Line1(r).key}]

WriteReduced(r) ==
    /\ \E run \in EmReduce(dats[r]) : out' = [out EXCEPT ![r] = Append(@, run)]
    /\ reduced' = [reduced EXCEPT ![r] = Append(@, dats[r])]

(* dats is empty.  The assertion on ids is evaluated here and nowhere else. *)
ReadFirst(r) ==
    /\ HasLine(r) /\ dats[r] = << >>
    /\ Line1(r).key \notin ids[r]
    /\ dats' = [dats EXCEPT ![r] = <<Line1(r)>>]
    /\ Accept(r)
    /\ UNCHANGED <<lines, out, running, reduced>>

(* The key of the group being collected. *)
ReadSame(r) ==
    /\ HasLine(r) /\ dats[r] # << >>
    /\ Last(dats[r]).key = Line1(r).key
    /\ dats' = [dats EXCEPT ![r] = Append(@, Line1(r))]
    /\ Accept(r)
    /\ UNCHANGED <<lines, out, running, reduced>>

(* Mutant of ReadOther: dats is not cleared.                                *)
ReadOtherUncleared(r) ==
    /\ HasLine(r) /\ dats[r] # << >>
    /\ Last(dats[r]).key # Line1(r).key
    /\ WriteReduced(r)
    /\ dats' = [dats EXCEPT ![r] = Append(@, Line1(r))]
    /\ Accept(r)
    /\ UNCHANGED <<lines, running>>

(* Another key: reduce what was collected and start over. *)
ReadOther(r) ==
    /\ HasLine(r) /\ dats[r] # << >>
    /\ Last(dats[r]).key # Line1(r).key
    /\ WriteReduced(r)
    /\ dats' = [dats EXCEPT ![r] = <<Line1(r)>>]
    /\ Accept(r)
    /\ UNCHANGED <<lines, running>>

(* Mutant of Finish: the last group is forgotten.                           *)
FinishForgetful(r) ==
    /\ running[r] /\ pos[r] = Len(lines[r])
    /\ running' = [running EXCEPT ![r] = FALSE]
    /\ UNCHANGED <<lines, pos, dats, ids, out, reduced>>

(* End of input: reduce the last group.  A reducer without input writes    *)
(* nothing.                                                                *)
Finish(r) ==
    /\ running[r] /\ pos[r] = Len(lines[r])
    /\ running' = [running EXCEPT ![r] = FALSE]
    /\ IF dats[r] = << >>
       THEN UNCHANGED <<out, reduced>>
       ELSE WriteReduced(r)
    /\ UNCHANGED <<lines, pos, dats, ids>>

ReduceStep(r) == ReadFirst(r) \/ ReadSame(r) \/ ReadOther(r) \/ Finish(r)

ReduceNext == \E r \in Reducers : ReduceStep(r)

(* The reducers start on the input `ls'. *)
StartReducers(ls) ==
    /\ lines = ls
    /\ pos = [r \in Reducers |-> 0]
    /\ dats = [r \in Reducers |-> << >>]
    /\ ids = [r \in Reducers |-> {}]
    /\ out = [r \in Reducers |-> << >>]
    /\ running = [r \in Reducers |-> TRUE]
    /\ reduced = [r \in Reducers |-> << >>]

ReduceInit == \E ls \in [Reducers -> Seq(Line)] : StartReducers(ls)

ReduceSpec == ReduceInit /\ [][ReduceNext]_reduceVars

-----------------------------------------------------------------------------
(* The lines of one key are next to each other. *)
Grouped(s) ==
    \A m, n \in DOMAIN s :
        m < n /\ s[m].key = s[n].key => \A k \in m .. n : s[k].key = s[m].key

KeysOf(s) == {s[n].key : n \in DOMAIN s}

(* dai_reduce.cpp:105: "thrown if the key/value pairs aren't sorted        *)
(* properly", so a reducer that ends normally has read grouped input.      *)
UnsortedIsDetected ==
    \A r \in Reducers : ~running[r] => Grouped(lines[r])
=============================================================================
