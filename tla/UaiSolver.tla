----------------------------- MODULE UaiSolver ------------------------------
(***************************************************************************)
(* The solver of the UAI 2010 challenge (src/examples/                      *)
(* uai2010-aie-solver.cpp): for each evidence case a quick algorithm, an     *)
(* exact one and a decent one are run while time lasts, the best result of   *)
(* each case is kept, and all best results are written whenever one of them  *)
(* improves.  A case that the exact algorithm has solved leaves the list.    *)
(*                                                                         *)
(* What an algorithm computes is open; of a result its quality matters: for  *)
(* PR and MAR how far from converged it was, for MPE the score of the state. *)
(***************************************************************************)
EXTENDS Integers, FiniteSetsExt, SequencesExt

CONSTANTS
    NumCases,    \* evid.size()
    MaxHalvings  \* how often MPEdamping can be halved before it is 0

ASSUME SolverAssumption == NumCases \in Nat /\ MaxHalvings \in Nat

VARIABLES
    task,         \* "PR", "MAR", "MPE"
    couldBeGrid,
    status,       \* "solving", "done", "aborted"
    solver, subsolver,
    position,     \* _ev, counted from 1
    ev2go,        \* the cases that are not ready
    best,         \* bestPR, bestMAR or bestMPE
    written,      \* the last results in the output file
    inTime,       \* whether UAI_TIME has not passed
    halvings,     \* of MPEdamping
    runs          \* history: the runs of algorithms, with what they gave

solverVars == <<task, couldBeGrid, status, solver, subsolver, position, ev2go, best, written, inTime, halvings, runs>>

Cases == 1 .. NumCases

quick == 0
exact == 1
decent == 2

nrsubsolvers(s) == IF s = quick THEN 2 ELSE 1

(* Distances are 0 (1e-9 or less), 1 and 2 (infinite); scores are -1 (that   *)
(* of an impossible state), 0 and 1 (the maximum).                          *)
NoResult(t) == [quality |-> IF t = "MPE" THEN -1 ELSE 2, by |-> -1, ready |-> FALSE]

SolverInit ==
    /\ task \in {"PR", "MAR", "MPE"} /\ couldBeGrid \in BOOLEAN
    /\ status = "solving" /\ solver = quick /\ subsolver = 0 /\ position = 1
    /\ ev2go = [n \in Cases |-> n]
    /\ best = [n \in Cases |-> NoResult(task)]
    /\ written = << >>
    /\ inTime = TRUE /\ halvings = 0 /\ runs = {}

(* An exception, and values that are no numbers.                            *)
Failed == -3
NaN == -2

(* What a run may give: an exact one is converged, and so is one that has no *)
(* maxDiff.                                                                *)
Results ==
    {Failed} \cup
    IF task = "MPE" THEN IF solver = exact THEN {1} ELSE {-1, 0, 1}
    ELSE {NaN} \cup IF solver = exact THEN {0} ELSE {0, 1}

(* Mutant of Improves: of PR and MAR any result counts.                     *)
ImprovesAlways(result, ev) == result \notin {Failed, NaN} /\ (task = "MPE" => result > best[ev].quality)

Improves(result, ev) ==
    /\ result \notin {Failed, NaN}
    /\ IF task = "MPE" THEN result > best[ev].quality
       ELSE result = 0 \/ result <= best[ev].quality

(* Where the loop stands after a case has been erased from the list.         *)
Erased(ready) == IF ready THEN position - 1 ELSE position

(* One case with one (sub)solver; results are updated, and written if one    *)
(* is better now.  With a grid there is no other subsolver.                 *)
Solve ==
    /\ status = "solving" /\ position <= Len(ev2go)
    /\ \E result \in Results :
          LET ev == ev2go[position]
              improved == Improves(result, ev)
              ready == improved /\ solver = exact
              tried == IF improved THEN subsolver ELSE subsolver + 1
              goesOn == improved \/ tried >= nrsubsolvers(solver) \/ couldBeGrid
          IN  /\ runs' = runs \cup {[case |-> ev, solver |-> solver, subsolver |-> subsolver, result |-> result]}
              /\ ev2go' = IF ready THEN RemoveAt(ev2go, position) ELSE ev2go
              /\ best' = IF improved
                         THEN [best EXCEPT ![ev] = [quality |-> result, by |-> solver, ready |-> ready]]
                         ELSE best
              /\ written' = IF improved THEN best' ELSE written
              /\ subsolver' = IF goesOn THEN 0 ELSE tried
              /\ position' = IF goesOn THEN Erased(ready) + 1 ELSE position
    /\ UNCHANGED <<task, couldBeGrid, status, solver, inTime, halvings>>

(* findMaximum of belief propagation may find no state, an exception that    *)
(* nobody catches.                                                         *)
Abort ==
    /\ status = "solving" /\ position <= Len(ev2go)
    /\ task = "MPE" /\ solver = quick
    /\ status' = "aborted"
    /\ UNCHANGED <<task, couldBeGrid, solver, subsolver, position, ev2go, best, written, inTime, halvings, runs>>

(* The end of the loop over the cases: the decent solver looks again for     *)
(* MPE states, with less damping, while there is time.                      *)
NextSolver ==
    /\ status = "solving" /\ position > Len(ev2go)
    /\ LET again == task = "MPE" /\ solver = decent /\ inTime /\ halvings < MaxHalvings
       IN  /\ halvings' = IF again THEN halvings + 1 ELSE halvings
           /\ IF ev2go = << >> \/ (solver = decent /\ ~again)
              THEN status' = "done" /\ UNCHANGED solver
              ELSE status' = status /\ solver' = IF again THEN solver ELSE solver + 1
    /\ subsolver' = 0 /\ position' = 1
    /\ UNCHANGED <<task, couldBeGrid, ev2go, best, written, inTime, runs>>

TimePasses ==
    /\ status = "solving" /\ inTime
    /\ inTime' = FALSE
    /\ UNCHANGED <<task, couldBeGrid, status, solver, subsolver, position, ev2go, best, written, halvings, runs>>

SolverNext == Solve \/ Abort \/ NextSolver \/ TimePasses

SolverSpec == SolverInit /\ [][SolverNext]_solverVars

-----------------------------------------------------------------------------
Given(ev) == {r.result : r \in {q \in runs : q.case = ev}} \ {Failed, NaN}

HelpedBy(ev, s) == \E r \in runs : r.case = ev /\ r.solver = s /\ r.result \notin {Failed, NaN}

Attempted(ev, s, sub) == \E r \in runs : r.case = ev /\ r.solver = s /\ r.subsolver = sub

(* Through solvers that fail, come back with less, or take cases off the     *)
(* list that the loop runs over: what is kept, and what the file ends with,  *)
(* is the best of what each case was given; an exact result stays; and in    *)
(* the end each case has been tried by all solvers, as far as it was not     *)
(* ready before, and by the second subsolver where the first was no help.    *)
BestIsKept ==
    /\ \A ev \in Cases :
          /\ best[ev].quality = IF task = "MPE" THEN Max(Given(ev) \cup {-1}) ELSE Min(Given(ev) \cup {2})
          /\ HelpedBy(ev, exact) =>
                IF task = "MPE" THEN best[ev].quality = 1
                ELSE best[ev].by = exact /\ best[ev].ready
          /\ best[ev].ready <=> ev \notin Range(ev2go)
    /\ written # << >> => written = best
    /\ written = << >> => \A ev \in Cases : best[ev] = NoResult(task)
    /\ status = "done" =>
          \A ev \in Cases :
              /\ Attempted(ev, quick, 0) /\ Attempted(ev, exact, 0)
              /\ Attempted(ev, decent, 0) \/ best[ev].ready
              /\ couldBeGrid \/ Attempted(ev, quick, 1) \/ HelpedBy(ev, quick)
=============================================================================
