--------------------------- MODULE ProgramsProofs ---------------------------
(***************************************************************************)
(* The programs around the library.  The solver of the UAI challenge keeps   *)
(* the best results, for any number of evidence cases and of halvings of the *)
(* damping; the experiments with EM have results that can be compared, for   *)
(* any numbers of samples and trials, whatever order the threads make them   *)
(* in; and in the two earlier versions of the MapReduce program a round      *)
(* learns from each sample once, and no native method meets an object that   *)
(* is not there, for any numbers of mappers, samples, copies and map tasks.  *)
(***************************************************************************)
EXTENDS UaiSolver, Experiments, Prototypes, Enumerations

(***************************************************************************)
(* The solver.                                                             *)
(***************************************************************************)

(* The inductive invariant.  No case is listed twice; of each the best       *)
(* result so far is kept; it leaves the list when an exact one is; and the   *)
(* cases that the present solver has passed have been tried by it, all of    *)
(* them by those before.                                                   *)
ListedOnce == \A p, q \in DOMAIN ev2go : ev2go[p] = ev2go[q] => p = q

AnyResult == IF task = "MPE" THEN {Failed, -1, 0, 1} ELSE {Failed, NaN, 0, 1}

SolverTyped ==
    /\ task \in {"PR", "MAR", "MPE"} /\ couldBeGrid \in BOOLEAN
    /\ status \in {"solving", "done", "aborted"}
    /\ solver \in {quick, exact, decent}
    /\ subsolver \in {0, 1} /\ (subsolver = 1 => solver = quick /\ ~couldBeGrid)
    /\ position \in Nat \ {0}
    /\ ev2go \in Seq(Cases) /\ ListedOnce
    /\ best \in [Cases -> [quality : Int, by : Int, ready : BOOLEAN]]
    /\ halvings \in Nat /\ (halvings > 0 => solver = decent)
    /\ \A r \in runs : r.result \in AnyResult

Worst == IF task = "MPE" THEN -1 ELSE 2

HoldsBest(ev) ==
    /\ best[ev].quality \in Given(ev) \cup {Worst}
    /\ \A x \in Given(ev) \cup {Worst} :
          IF task = "MPE" THEN x <= best[ev].quality ELSE best[ev].quality <= x

ExactStays(ev) ==
    HelpedBy(ev, exact) =>
        IF task = "MPE" THEN best[ev].quality = 1
        ELSE best[ev].by = exact /\ best[ev].ready

Passed(ev) == \A p \in DOMAIN ev2go : ev2go[p] = ev => p < position

TriedQuickly(ev) ==
    /\ Attempted(ev, quick, 0)
    /\ couldBeGrid \/ Attempted(ev, quick, 1) \/ HelpedBy(ev, quick)

Walked(ev) ==
    /\ solver # quick \/ Passed(ev) => TriedQuickly(ev)
    /\ solver = decent \/ (solver = exact /\ Passed(ev)) => Attempted(ev, exact, 0)
    /\ solver = decent /\ (halvings > 0 \/ Passed(ev)) => Attempted(ev, decent, 0) \/ best[ev].ready
    /\ solver = quick => ~best[ev].ready

SecondComesSecond ==
    subsolver = 1 => position <= Len(ev2go) /\ Attempted(ev2go[position], quick, 0)

AllTried(ev) ==
    /\ TriedQuickly(ev) /\ Attempted(ev, exact, 0)
    /\ Attempted(ev, decent, 0) \/ best[ev].ready

SolverInv ==
    /\ SolverTyped
    /\ \A ev \in Cases :
          /\ HoldsBest(ev) /\ ExactStays(ev)
          /\ best[ev].ready <=> ev \notin Range(ev2go)
    /\ written # << >> => written = best
    /\ written = << >> => \A ev \in Cases : best[ev] = NoResult(task)
    /\ status = "solving" => SecondComesSecond /\ \A ev \in Cases : Walked(ev)
    /\ status = "done" => \A ev \in Cases : AllTried(ev)

-----------------------------------------------------------------------------
(* What one more run of an algorithm adds to the history.                    *)
LEMMA OneMoreRun ==
    ASSUME NEW ev, NEW s, NEW sub, NEW result,
           runs' = runs \cup {[case |-> ev, solver |-> s, subsolver |-> sub, result |-> result]}
    PROVE  /\ \A e : Given(e)' = IF e = ev /\ result \notin {Failed, NaN}
                                THEN Given(e) \cup {result} ELSE Given(e)
           /\ \A e, t, b : Attempted(e, t, b) => Attempted(e, t, b)'
           /\ Attempted(ev, s, sub)'
           /\ \A e, t : HelpedBy(e, t)' <=>
                 HelpedBy(e, t) \/ (e = ev /\ t = s /\ result \notin {Failed, NaN})
<1> DEFINE x == [case |-> ev, solver |-> s, subsolver |-> sub, result |-> result]
<1>1. x.case = ev /\ x.solver = s /\ x.subsolver = sub /\ x.result = result /\ runs' = runs \cup {x}
  OBVIOUS
<1> HIDE DEF x
<1>2. ASSUME NEW e
      PROVE  Given(e)' = IF e = ev /\ result \notin {Failed, NaN} THEN Given(e) \cup {result} ELSE Given(e)
  BY <1>1 DEF Given, Failed, NaN
<1>3. \A e, t, b : Attempted(e, t, b) => Attempted(e, t, b)'
  BY <1>1 DEF Attempted
<1>4. Attempted(ev, s, sub)'
  BY <1>1 DEF Attempted
<1>5. ASSUME NEW e, NEW t
      PROVE  HelpedBy(e, t)' <=> HelpedBy(e, t) \/ (e = ev /\ t = s /\ result \notin {Failed, NaN})
  BY <1>1 DEF HelpedBy, Failed, NaN
<1> QED BY <1>2, <1>3, <1>4, <1>5

(* Qualities are between those of the maximum and of no result.              *)
LEMMA BestIsBounded ==
    ASSUME SolverTyped, NEW ev \in Cases, HoldsBest(ev)
    PROVE  /\ best[ev].quality \in Int
           /\ task = "MPE" => best[ev].quality <= 1
           /\ Given(ev) \subseteq IF task = "MPE" THEN -1 .. 1 ELSE 0 .. 1
<1>1. Given(ev) \subseteq IF task = "MPE" THEN -1 .. 1 ELSE 0 .. 1
  BY DEF Given, SolverTyped, AnyResult, Failed, NaN
<1>2. best[ev].quality \in Given(ev) \cup {Worst}
  BY DEF HoldsBest
<1> QED BY <1>1, <1>2 DEF Worst

LEMMA SolverStarts == SolverInit => SolverInv
<1> SUFFICES ASSUME SolverInit PROVE SolverInv
  OBVIOUS
<1> USE DEF SolverInit, quick, exact, decent
<1>1. ev2go \in Seq(Cases) /\ Len(ev2go) = NumCases /\ \A n \in 1 .. NumCases : ev2go[n] = n
  BY SolverAssumption, IsASeq DEF Cases
<1>2. ListedOnce /\ Range(ev2go) = Cases
  BY <1>1 DEF ListedOnce, Range, Cases
<1>3. \A ev \in Cases : best[ev] = NoResult(task) /\ best[ev].quality = Worst /\ ~best[ev].ready
  BY DEF NoResult, Worst
<1>4. SolverTyped
  BY <1>1, <1>2 DEF SolverTyped, NoResult
<1>5. \A ev : Given(ev) = {} /\ ~HelpedBy(ev, exact)
  BY DEF Given, HelpedBy
<1>6. \A ev \in Cases : HoldsBest(ev) /\ ExactStays(ev) /\ (best[ev].ready <=> ev \notin Range(ev2go))
  BY <1>2, <1>3, <1>5 DEF HoldsBest, ExactStays, Worst
<1>7. \A ev \in Cases : ~Passed(ev)
  BY <1>1 DEF Passed, Cases
<1>8. \A ev \in Cases : Walked(ev)
  BY <1>3, <1>7 DEF Walked
<1> QED BY <1>3, <1>4, <1>6, <1>8 DEF SolverInv, SecondComesSecond

(* One case with one algorithm.                                            *)
LEMMA SolveKeepsInv == SolverInv /\ Solve => SolverInv'
<1> SUFFICES ASSUME SolverInv, Solve PROVE SolverInv'
  OBVIOUS
<1> USE DEF quick, exact, decent
<1>0. PICK ev, s, sub : ev = ev2go[position] /\ s = solver /\ sub = subsolver
  OBVIOUS
<1>1. PICK result \in Results :
          LET improved == Improves(result, ev)
              ready == improved /\ solver = exact
              tried == IF improved THEN subsolver ELSE subsolver + 1
              goesOn == improved \/ tried >= nrsubsolvers(solver) \/ couldBeGrid
          IN  /\ runs' = runs \cup {[case |-> ev, solver |-> s, subsolver |-> sub, result |-> result]}
              /\ ev2go' = IF ready THEN RemoveAt(ev2go, position) ELSE ev2go
              /\ best' = IF improved
                         THEN [best EXCEPT ![ev] = [quality |-> result, by |-> solver, ready |-> ready]]
                         ELSE best
              /\ written' = IF improved THEN best' ELSE written
              /\ subsolver' = IF goesOn THEN 0 ELSE tried
              /\ position' = IF goesOn THEN Erased(ready) + 1 ELSE position
  BY <1>0 DEF Solve
<1> DEFINE improved == Improves(result, ev)
           ready == improved /\ solver = exact
           helps == result \notin {Failed, NaN}
           tried == IF improved THEN subsolver ELSE subsolver + 1
           goesOn == improved \/ tried >= nrsubsolvers(solver) \/ couldBeGrid
<1>2. /\ runs' = runs \cup {[case |-> ev, solver |-> s, subsolver |-> sub, result |-> result]}
      /\ ev2go' = IF ready THEN RemoveAt(ev2go, position) ELSE ev2go
      /\ best' = IF improved
                 THEN [best EXCEPT ![ev] = [quality |-> result, by |-> solver, ready |-> ready]]
                 ELSE best
      /\ written' = IF improved THEN best' ELSE written
      /\ subsolver' = IF goesOn THEN 0 ELSE tried
      /\ position' = IF goesOn THEN Erased(ready) + 1 ELSE position
      /\ ev = ev2go[position] /\ s = solver /\ sub = subsolver
  BY <1>0, <1>1
<1>3. /\ status = "solving" /\ position <= Len(ev2go)
      /\ UNCHANGED <<task, couldBeGrid, status, solver, inTime, halvings>>
  BY DEF Solve
<1>4. SolverTyped
  BY DEF SolverInv
<1>5. /\ ev2go \in Seq(Cases) /\ Len(ev2go) \in Nat /\ DOMAIN ev2go = 1 .. Len(ev2go)
      /\ position \in 1 .. Len(ev2go) /\ ev \in Cases /\ ev \in Range(ev2go)
  <2>1. ev2go \in Seq(Cases) /\ position \in Nat \ {0}
    BY <1>4 DEF SolverTyped
  <2>2. Len(ev2go) \in Nat /\ DOMAIN ev2go = 1 .. Len(ev2go)
    BY <2>1, LenProperties
  <2>3. position \in 1 .. Len(ev2go)
    BY <1>3, <2>1, <2>2
  <2> QED BY <1>2, <2>1, <2>2, <2>3, ElementOfSeq DEF Range
<1>6. ~best[ev].ready
  BY <1>5 DEF SolverInv
<1>7. /\ result \in AnyResult /\ result \in Int
      /\ helps => result \in -1 .. 1 /\ (solver = exact => result = IF task = "MPE" THEN 1 ELSE 0)
      /\ helps /\ task # "MPE" => result \in 0 .. 1
  BY DEF Results, AnyResult, Failed, NaN, helps
<1>8. improved <=> helps /\ IF task = "MPE" THEN result > best[ev].quality
                            ELSE result = 0 \/ result <= best[ev].quality
  BY DEF Improves
<1>9. /\ \A e : Given(e)' = IF e = ev /\ helps THEN Given(e) \cup {result} ELSE Given(e)
      /\ \A e, t, b : Attempted(e, t, b) => Attempted(e, t, b)'
      /\ Attempted(ev, s, sub)'
      /\ \A e, t : HelpedBy(e, t)' <=> HelpedBy(e, t) \/ (e = ev /\ t = s /\ helps)
  BY <1>2, OneMoreRun
<1>10. /\ best' \in [Cases -> [quality : Int, by : Int, ready : BOOLEAN]]
       /\ \A e \in Cases \ {ev} : best'[e] = best[e]
       /\ improved => best'[ev].quality = result /\ best'[ev].by = solver /\ best'[ev].ready = ready
       /\ ~improved => best'[ev] = best[ev]
  <2>1. best \in [Cases -> [quality : Int, by : Int, ready : BOOLEAN]] /\ solver \in Int /\ result \in Int
    BY <1>4, <1>7 DEF SolverTyped, Failed
  <2>2. ready \in BOOLEAN
    BY <1>8
  <2> HIDE DEF improved, ready
  <2> QED BY <1>2, <1>5, <2>1, <2>2
<1> HIDE DEF improved, helps
<1>11. ASSUME ready
       PROVE  /\ ev2go' \in Seq(Cases) /\ Len(ev2go') = Len(ev2go) - 1 /\ DOMAIN ev2go' = 1 .. Len(ev2go) - 1
              /\ \A p \in 1 .. Len(ev2go) - 1 : ev2go'[p] = IF p < position THEN ev2go[p] ELSE ev2go[p + 1]
  <2>1. ev2go' = RemoveAt(ev2go, position)
    BY <1>2, <1>11
  <2>2. /\ ev2go' \in Seq(Cases) /\ Len(ev2go') = Len(ev2go) - 1
        /\ \A n \in 1 .. position - 1 : ev2go'[n] = ev2go[n]
        /\ \A n \in position .. Len(ev2go) - 1 : ev2go'[n] = ev2go[n + 1]
    BY <1>5, <2>1, RemoveAtProperties
  <2>3. DOMAIN ev2go' = 1 .. Len(ev2go) - 1
    BY <2>2, LenProperties
  <2> QED BY <1>5, <2>2, <2>3
<1>12. ev2go' \in Seq(Cases) /\ ListedOnce'
  <2>1. CASE ready
    <3>1. \A p, q \in 1 .. Len(ev2go) : ev2go[p] = ev2go[q] => p = q
      BY <1>4, <1>5 DEF SolverTyped, ListedOnce
    <3>2. ASSUME NEW p \in 1 .. Len(ev2go) - 1, NEW q \in 1 .. Len(ev2go) - 1, ev2go'[p] = ev2go'[q]
          PROVE  p = q
      <4> DEFINE at(n) == IF n < position THEN n ELSE n + 1
      <4>1. at(p) \in 1 .. Len(ev2go) /\ at(q) \in 1 .. Len(ev2go) /\ (at(p) = at(q) => p = q)
        BY <1>5
      <4>2. ev2go'[p] = ev2go[at(p)] /\ ev2go'[q] = ev2go[at(q)]
        BY <1>11, <2>1
      <4> HIDE DEF at
      <4> QED BY <3>1, <3>2, <4>1, <4>2
    <3> QED BY <1>11, <2>1, <3>2 DEF ListedOnce
  <2>2. CASE ~ready
    BY <1>2, <1>4, <2>2 DEF SolverTyped, ListedOnce
  <2> QED BY <2>1, <2>2
<1>13. Range(ev2go') = IF ready THEN Range(ev2go) \ {ev} ELSE Range(ev2go)
  <2>1. CASE ready
    <3>1. \A p, q \in 1 .. Len(ev2go) : ev2go[p] = ev2go[q] => p = q
      BY <1>4, <1>5 DEF SolverTyped, ListedOnce
    <3>2. ASSUME NEW p \in 1 .. Len(ev2go) - 1
          PROVE  \E q \in 1 .. Len(ev2go) : q # position /\ ev2go'[p] = ev2go[q]
      BY <1>5, <1>11, <2>1
    <3>3. ASSUME NEW q \in 1 .. Len(ev2go), q # position
          PROVE  \E p \in 1 .. Len(ev2go) - 1 : ev2go'[p] = ev2go[q]
      <4>1. CASE q < position
        BY <1>5, <1>11, <2>1, <4>1
      <4>2. CASE q > position
        <5>1. q - 1 \in 1 .. Len(ev2go) - 1 /\ ~(q - 1 < position) /\ (q - 1) + 1 = q
          BY <1>5, <4>2
        <5> QED BY <1>11, <2>1, <5>1
      <4> QED BY <1>5, <3>3, <4>1, <4>2
    <3>4. Range(ev2go') = {ev2go'[p] : p \in 1 .. Len(ev2go) - 1}
      BY <1>11, <2>1 DEF Range
    <3>5. Range(ev2go) = {ev2go[q] : q \in 1 .. Len(ev2go)}
      BY <1>5 DEF Range
    <3>6. \A q \in 1 .. Len(ev2go) : ev2go[q] = ev <=> q = position
      BY <1>2, <1>5, <3>1
    <3>7. Range(ev2go') \subseteq Range(ev2go) \ {ev}
      BY <3>2, <3>4, <3>5, <3>6
    <3>8. Range(ev2go) \ {ev} \subseteq Range(ev2go')
      BY <3>3, <3>4, <3>5, <3>6
    <3> HIDE DEF ready
    <3> QED BY <2>1, <3>7, <3>8
  <2>2. CASE ~ready
    BY <1>2, <2>2
  <2> QED BY <2>1, <2>2
<1>14. ASSUME NEW e \in Cases
       PROVE  (HoldsBest(e) /\ ExactStays(e) /\ (best[e].ready <=> e \notin Range(ev2go)))'
  <2>1. HoldsBest(e) /\ ExactStays(e) /\ (best[e].ready <=> e \notin Range(ev2go))
    BY DEF SolverInv
  <2>2. CASE e # ev
    <3>1. best'[e] = best[e] /\ Given(e)' = Given(e) /\ (HelpedBy(e, exact)' <=> HelpedBy(e, exact))
      BY <1>9, <1>10, <2>2
    <3>2. e \in Range(ev2go') <=> e \in Range(ev2go)
      BY <1>13, <2>2
    <3>3. HoldsBest(e)'
      BY <1>3, <2>1, <3>1 DEF HoldsBest, Worst
    <3>4. ExactStays(e)'
      BY <1>3, <2>1, <3>1 DEF ExactStays
    <3> QED BY <2>1, <3>1, <3>2, <3>3, <3>4
  <2>3. CASE e = ev
    <3>1. best[e].quality \in Int /\ (task = "MPE" => best[e].quality <= 1) /\ Given(e) \subseteq (IF task = "MPE" THEN -1 .. 1 ELSE 0 .. 1)
      BY <1>4, <2>1, BestIsBounded
    <3>2. HoldsBest(e)'
      <4>1. CASE improved
        <5>1. best'[e].quality = result /\ Given(e)' = Given(e) \cup {result} /\ result \in Int
          BY <1>7, <1>8, <1>9, <1>10, <2>3, <4>1
        <5>2. ASSUME NEW x \in Given(e) \cup {Worst}
              PROVE  IF task = "MPE" THEN x <= result ELSE result <= x
          <6>1. x \in Int
            BY <3>1 DEF Worst
          <6>2. IF task = "MPE" THEN x <= best[e].quality ELSE best[e].quality <= x
            BY <2>1 DEF HoldsBest
          <6>3. task # "MPE" => 0 <= x
            BY <3>1 DEF Worst
          <6> QED BY <1>8, <2>3, <3>1, <4>1, <5>1, <6>1, <6>2, <6>3
        <5> QED BY <1>3, <5>1, <5>2 DEF HoldsBest, Worst
      <4>2. CASE ~improved
        <5>1. best'[e].quality = best[e].quality
          BY <1>10, <2>3, <4>2
        <5>2. helps => IF task = "MPE" THEN result <= best[e].quality ELSE best[e].quality <= result
          BY <1>7, <1>8, <2>3, <3>1, <4>2
        <5>3. Given(e)' \subseteq Given(e) \cup {result} /\ Given(e) \subseteq Given(e)' /\ (~helps => Given(e)' = Given(e))
          BY <1>9, <2>3
        <5> QED BY <1>3, <2>1, <5>1, <5>2, <5>3 DEF HoldsBest, Worst
      <4> QED BY <4>1, <4>2
    <3>3. ExactStays(e)'
      <4> SUFFICES ASSUME HelpedBy(e, exact)'
                   PROVE  IF task = "MPE" THEN best'[e].quality = 1
                          ELSE best'[e].by = exact /\ best'[e].ready
        BY <1>3 DEF ExactStays
      <4>0. HelpedBy(e, exact) \/ (solver = exact /\ helps)
        BY <1>2, <1>9, <2>3
      <4>1. CASE HelpedBy(e, exact)
        <5>1. task = "MPE" /\ best[e].quality = 1
          BY <1>6, <2>1, <2>3, <4>1 DEF ExactStays
        <5>2. ~improved
          BY <1>7, <1>8, <2>3, <5>1
        <5> QED BY <1>10, <2>3, <5>1, <5>2
      <4>2. CASE solver = exact /\ helps
        <5>1. CASE task = "MPE"
          BY <1>7, <1>8, <1>10, <2>3, <3>1, <4>2, <5>1
        <5>2. CASE task # "MPE"
          BY <1>7, <1>8, <1>10, <2>3, <4>2, <5>2
        <5> QED BY <5>1, <5>2
      <4> QED BY <4>0, <4>1, <4>2
    <3>4. best'[e].ready <=> e \notin Range(ev2go')
      BY <1>6, <1>10, <1>13, <2>1, <2>3
    <3> QED BY <3>2, <3>3, <3>4
  <2> QED BY <2>2, <2>3
<1>15. tried \in Nat /\ subsolver \in {0, 1} /\ (~improved => tried = subsolver + 1)
       /\ (subsolver = 1 => solver = quick /\ ~couldBeGrid)
  BY <1>4 DEF SolverTyped
<1>16. ~goesOn => ~improved /\ subsolver = 0 /\ tried = 1 /\ solver = quick /\ ~couldBeGrid
  BY <1>15 DEF nrsubsolvers
<1>17. position' = IF goesOn /\ ~ready THEN position + 1 ELSE position
  BY <1>2, <1>5 DEF Erased
<1> HIDE DEF goesOn, tried
<1>18. SolverTyped'
  <2>1. subsolver' \in {0, 1} /\ (subsolver' = 1 => solver = quick /\ ~couldBeGrid)
    BY <1>2, <1>16
  <2>2. position' \in Nat \ {0}
    BY <1>5, <1>17
  <2>3. \A r \in runs' : r.result \in AnyResult'
    BY <1>2, <1>3, <1>4, <1>7 DEF SolverTyped, AnyResult
  <2> QED BY <1>3, <1>4, <1>10, <1>12, <2>1, <2>2, <2>3 DEF SolverTyped
<1>19. ASSUME NEW e \in Cases, Passed(e)'
       PROVE  Passed(e) \/ (e = ev /\ goesOn)
  <2> SUFFICES ASSUME NEW q \in 1 .. Len(ev2go), ev2go[q] = e, ~(e = ev /\ goesOn)
               PROVE  q < position
    BY <1>5 DEF Passed
  <2>1. \A p \in DOMAIN ev2go' : ev2go'[p] = e => p < position'
    BY <1>19 DEF Passed
  <2>2. CASE ready
    <3>1. q # position /\ position' = position
      BY <1>2, <1>17, <2>2 DEF goesOn
    <3>2. CASE q > position
      <4>1. q - 1 \in 1 .. Len(ev2go) - 1 /\ ~(q - 1 < position) /\ (q - 1) + 1 = q
        BY <1>5, <3>2
      <4> QED BY <1>11, <2>1, <2>2, <3>1, <4>1
    <3> QED BY <1>5, <3>1, <3>2
  <2>3. CASE ~ready /\ goesOn
    <3>1. q # position /\ position' = position + 1 /\ ev2go' = ev2go
      BY <1>2, <1>17, <2>3
    <3> QED BY <1>5, <2>1, <3>1
  <2>4. CASE ~goesOn
    <3>1. position' = position /\ ev2go' = ev2go
      BY <1>2, <1>17, <2>4 DEF goesOn
    <3> QED BY <1>5, <2>1, <3>1
  <2> QED BY <2>2, <2>3, <2>4
<1>20. SecondComesSecond /\ \A e \in Cases : Walked(e)
  BY <1>3 DEF SolverInv
<1>21. SecondComesSecond'
  <2> SUFFICES ASSUME subsolver' = 1
               PROVE  position' <= Len(ev2go') /\ Attempted(ev2go[position], quick, 0)'
    BY DEF SecondComesSecond
  <2>1. ~goesOn /\ subsolver = 0 /\ solver = quick /\ ~improved
    BY <1>2, <1>16
  <2>2. position' = position /\ ev2go' = ev2go
    BY <1>2, <1>17, <2>1
  <2>3. Attempted(ev, quick, 0)'
    BY <1>2, <1>9, <2>1
  <2> QED BY <1>2, <1>5, <2>2, <2>3
<1>22. ASSUME NEW e \in Cases PROVE Walked(e)'
  <2>1. Walked(e)
    BY <1>20
  <2>2. TriedQuickly(e) => TriedQuickly(e)'
    BY <1>3, <1>9 DEF TriedQuickly
  <2>3. best[e].ready => best'[e].ready
    BY <1>6, <1>10
  <2>4. solver = quick /\ goesOn => TriedQuickly(ev)'
    <3> SUFFICES ASSUME solver = quick, goesOn PROVE TriedQuickly(ev)'
      OBVIOUS
    <3>1. CASE subsolver = 1
      <4>1. Attempted(ev, quick, 0) /\ Attempted(ev, quick, 1)'
        BY <1>2, <1>9, <1>20, <3>1 DEF SecondComesSecond
      <4> QED BY <1>9, <4>1 DEF TriedQuickly
    <3>2. CASE subsolver = 0
      <4>1. Attempted(ev, quick, 0)'
        BY <1>2, <1>9, <3>2
      <4>2. improved \/ couldBeGrid
        BY <1>15, <3>2 DEF goesOn, nrsubsolvers
      <4>3. improved => HelpedBy(ev, quick)'
        BY <1>2, <1>8, <1>9
      <4> QED BY <1>3, <4>1, <4>2, <4>3 DEF TriedQuickly
    <3> QED BY <1>15, <3>1, <3>2
  <2>5. solver # quick => Attempted(ev, s, 0)'
    BY <1>2, <1>9, <1>15
  <2>6. solver # quick \/ Passed(e)' => TriedQuickly(e)'
    BY <1>19, <2>1, <2>2, <2>4 DEF Walked
  <2>7. solver = decent \/ (solver = exact /\ Passed(e)') => Attempted(e, exact, 0)'
    BY <1>2, <1>9, <1>19, <2>1, <2>5 DEF Walked
  <2>8. solver = decent /\ (halvings > 0 \/ Passed(e)') => Attempted(e, decent, 0)' \/ best'[e].ready
    BY <1>2, <1>9, <1>19, <2>1, <2>3, <2>5 DEF Walked
  <2>9. solver = quick => ~best'[e].ready
    BY <1>10, <2>1 DEF Walked
  <2> QED BY <1>3, <2>6, <2>7, <2>8, <2>9 DEF Walked
<1>23. /\ written' # << >> => written' = best'
       /\ written' = << >> => \A e \in Cases : best'[e] = NoResult(task)
  <2>1. CASE improved
    <3>1. written' = best' /\ ev \in DOMAIN best'
      BY <1>2, <1>5, <1>10, <2>1
    <3>2. best' # << >>
      BY <3>1
    <3> QED BY <3>1, <3>2
  <2>2. CASE ~improved
    BY <1>2, <2>2 DEF SolverInv
  <2> QED BY <2>1, <2>2
<1> QED
  BY <1>3, <1>14, <1>18, <1>21, <1>22, <1>23 DEF SolverInv, NoResult

(* The next solver begins with all cases that are left passed by this one.   *)
LEMMA NextSolverKeepsInv == SolverInv /\ NextSolver => SolverInv'
<1> SUFFICES ASSUME SolverInv, NextSolver PROVE SolverInv'
  OBVIOUS
<1> USE DEF quick, exact, decent
<1>1. /\ SolverTyped /\ status = "solving" /\ \A e \in Cases : Walked(e)
      /\ ev2go \in Seq(Cases) /\ DOMAIN ev2go = 1 .. Len(ev2go) /\ Len(ev2go) \in Nat
      /\ position > Len(ev2go) /\ position \in Nat
  <2>1. ev2go \in Seq(Cases)
    BY DEF SolverInv, SolverTyped
  <2> QED BY <2>1, LenProperties DEF SolverInv, SolverTyped, NextSolver
<1>2. \A e \in Cases : Passed(e)
  BY <1>1 DEF Passed
<1>3. /\ UNCHANGED <<task, couldBeGrid, ev2go, best, written, runs>>
      /\ subsolver' = 0 /\ position' = 1
  BY DEF NextSolver
<1>4. \A e \in Cases : ~best[e].ready <=> e \in Range(ev2go)
  BY DEF SolverInv
<1> DEFINE again == task = "MPE" /\ solver = decent /\ inTime /\ halvings < MaxHalvings
<1>5. /\ halvings' = IF again THEN halvings + 1 ELSE halvings
      /\ IF ev2go = << >> \/ (solver = decent /\ ~again)
         THEN status' = "done" /\ solver' = solver
         ELSE status' = status /\ solver' = IF again THEN solver ELSE solver + 1
  BY DEF NextSolver
<1>6. SolverTyped'
  <2>1. halvings' \in Nat /\ (halvings' > 0 => solver' = decent) /\ solver' \in {quick, exact, decent}
    BY <1>1, <1>5 DEF SolverTyped
  <2>2. AnyResult' = AnyResult
    BY <1>3 DEF AnyResult
  <2> QED BY <1>1, <1>3, <1>5, <2>1, <2>2 DEF SolverTyped, ListedOnce
<1>7. \A e \in Cases : (HoldsBest(e) /\ ExactStays(e) /\ (best[e].ready <=> e \notin Range(ev2go)))'
  BY <1>3 DEF SolverInv, HoldsBest, ExactStays, Worst, Given, HelpedBy
<1>8. \A e \in Cases : (TriedQuickly(e)' <=> TriedQuickly(e)) /\ \A t, b : Attempted(e, t, b)' <=> Attempted(e, t, b)
  BY <1>3 DEF TriedQuickly, Attempted, HelpedBy
<1>9. ASSUME status' = "solving", NEW e \in Cases PROVE Walked(e)'
  <2>1. Walked(e) /\ Passed(e)
    BY <1>1, <1>2
  <2>2. solver # quick \/ solver' # quick => TriedQuickly(e)'
    BY <1>8, <2>1 DEF Walked
  <2>3. Passed(e)' => best[e].ready
    <3>1. SUFFICES ASSUME e \in Range(ev2go) PROVE ~Passed(e)'
      BY <1>4
    <3>2. PICK p \in 1 .. Len(ev2go) : ev2go[p] = e
      BY <1>1, <3>1 DEF Range
    <3> QED BY <1>1, <1>3, <3>2 DEF Passed
  <2>4. solver' = decent => Attempted(e, exact, 0)'
    BY <1>1, <1>5, <1>8, <1>9, <2>1 DEF Walked, SolverTyped
  <2>5. best'[e].ready = best[e].ready
    BY <1>3
  <2>6. solver' = exact => (Passed(e)' => Attempted(e, exact, 0)')
    BY <1>1, <1>5, <1>9, <2>1, <2>3 DEF Walked, SolverTyped
  <2>7. solver' = decent /\ (halvings' > 0 \/ Passed(e)') => Attempted(e, decent, 0)' \/ best'[e].ready
    <3>1. CASE solver = decent
      BY <1>1, <1>8, <2>1, <2>5, <3>1 DEF Walked
    <3>2. CASE solver # decent
      BY <1>1, <1>5, <2>3, <2>5, <3>2 DEF SolverTyped
    <3> QED BY <3>1, <3>2
  <2>8. solver' # quick
    BY <1>1, <1>5, <1>9 DEF SolverTyped
  <2>9. TriedQuickly(e)'
    BY <2>2, <2>8
  <2> QED BY <2>4, <2>6, <2>7, <2>8, <2>9 DEF Walked
<1>10. ASSUME status' = "done", NEW e \in Cases PROVE AllTried(e)'
  <2>1. Walked(e) /\ Passed(e)
    BY <1>1, <1>2
  <2>2. CASE ev2go = << >>
    <3>1. best[e].ready
      BY <1>4, <2>2 DEF Range
    <3> QED BY <1>1, <1>3, <1>8, <2>1, <3>1 DEF Walked, AllTried, SolverTyped
  <2>3. CASE solver = decent
    BY <1>3, <1>8, <2>1, <2>3 DEF Walked, AllTried
  <2> QED BY <1>1, <1>5, <1>10, <2>2, <2>3
<1>11. SecondComesSecond'
  BY <1>3 DEF SecondComesSecond
<1>12. written' # << >> => written' = best'
  BY <1>3 DEF SolverInv
<1>13. written' = << >> => \A e \in Cases : best'[e] = NoResult(task)'
  BY <1>3 DEF SolverInv, NoResult
<1> QED
  BY <1>6, <1>7, <1>9, <1>10, <1>11, <1>12, <1>13 DEF SolverInv

LEMMA SolverStep == SolverInv /\ [SolverNext]_solverVars => SolverInv'
<1> SUFFICES ASSUME SolverInv, [SolverNext]_solverVars PROVE SolverInv'
  OBVIOUS
<1>1. CASE Abort \/ TimePasses \/ UNCHANGED solverVars
  <2>1. /\ UNCHANGED <<task, couldBeGrid, solver, subsolver, position, ev2go, best, written, halvings, runs>>
        /\ status' \in {"solving", "done", "aborted"} /\ (status' # "aborted" => status' = status)
    BY <1>1 DEF Abort, TimePasses, solverVars, SolverInv, SolverTyped
  <2>2. SolverTyped'
    BY <2>1 DEF SolverInv, SolverTyped, AnyResult, ListedOnce
  <2>3. \A e \in Cases : (HoldsBest(e) /\ ExactStays(e) /\ (best[e].ready <=> e \notin Range(ev2go)))'
    BY <2>1 DEF SolverInv, HoldsBest, ExactStays, Worst, Given, HelpedBy
  <2>4. status' # "aborted" /\ status = "solving" => SecondComesSecond' /\ \A e \in Cases : Walked(e)'
    BY <2>1 DEF SolverInv, SecondComesSecond, Walked, Passed, TriedQuickly, Attempted, HelpedBy
  <2>5. status' # "aborted" /\ status = "done" => \A e \in Cases : AllTried(e)'
    BY <2>1 DEF SolverInv, AllTried, TriedQuickly, Attempted, HelpedBy
  <2>6. /\ written' # << >> => written' = best'
        /\ written' = << >> => \A e \in Cases : best'[e] = NoResult(task)'
    BY <2>1 DEF SolverInv, NoResult
  <2> QED BY <2>1, <2>2, <2>3, <2>4, <2>5, <2>6 DEF SolverInv
<1> QED
  BY <1>1, SolveKeepsInv, NextSolverKeepsInv DEF SolverNext

(* Whatever the algorithms give, for any number of cases, the file ends with *)
(* the best of it, and every case has been given to every solver that could  *)
(* still help.                                                             *)
THEOREM BestIsKeptAlways == SolverSpec => []BestIsKept
<1>1. SolverInv => BestIsKept
  <2> SUFFICES ASSUME SolverInv PROVE BestIsKept
    OBVIOUS
  <2>1. ASSUME NEW ev \in Cases
        PROVE  best[ev].quality = IF task = "MPE" THEN Max(Given(ev) \cup {-1}) ELSE Min(Given(ev) \cup {2})
    <3>1. HoldsBest(ev) /\ SolverTyped
      BY DEF SolverInv
    <3>2. best[ev].quality \in Int /\ Given(ev) \cup {Worst} \subseteq Int
      BY <3>1, BestIsBounded DEF Worst
    <3>3. CASE task = "MPE"
      <4>1. /\ best[ev].quality \in Given(ev) \cup {-1}
            /\ \A x \in Given(ev) \cup {-1} : best[ev].quality >= x
        BY <3>1, <3>2, <3>3 DEF HoldsBest, Worst
      <4>2. \A x \in Given(ev) \cup {-1} : (\A y \in Given(ev) \cup {-1} : x >= y) => x = best[ev].quality
        BY <3>2, <3>3, <4>1 DEF Worst
      <4> QED BY <3>3, <4>1, <4>2 DEF Max
    <3>4. CASE task # "MPE"
      <4>1. /\ best[ev].quality \in Given(ev) \cup {2}
            /\ \A x \in Given(ev) \cup {2} : best[ev].quality <= x
        BY <3>1, <3>2, <3>4 DEF HoldsBest, Worst
      <4>2. \A x \in Given(ev) \cup {2} : (\A y \in Given(ev) \cup {2} : x <= y) => x = best[ev].quality
        BY <3>2, <3>4, <4>1 DEF Worst
      <4> QED BY <3>4, <4>1, <4>2 DEF Min
    <3> QED BY <3>3, <3>4
  <2>2. /\ \A ev \in Cases :
              /\ HelpedBy(ev, exact) =>
                    IF task = "MPE" THEN best[ev].quality = 1
                    ELSE best[ev].by = exact /\ best[ev].ready
              /\ best[ev].ready <=> ev \notin Range(ev2go)
        /\ written # << >> => written = best
    BY DEF SolverInv, ExactStays
  <2>3. written = << >> => \A ev \in Cases : best[ev] = NoResult(task)
    BY DEF SolverInv
  <2>4. status = "done" => \A ev \in Cases : AllTried(ev)
    BY DEF SolverInv
  <2> QED BY <2>1, <2>2, <2>3, <2>4 DEF BestIsKept, AllTried, TriedQuickly
<1>2. QED
  BY <1>1, SolverStarts, SolverStep, PTL DEF SolverSpec

(***************************************************************************)
(* The experiments.                                                        *)
(***************************************************************************)

(* The inductive invariant.  No two calls are of the same kind; each kind    *)
(* has trials of its own.                                                  *)
CallKinds == {"generateTab", "throw", "doEm", "compareEM", "doEmSamples", "doRandomEM"}

Commands == {a.command : a \in Arguments} \cup {"none"}

CallRecords == [does : CallKinds, init : 0 .. 3, command : Commands, n : Nat]

FittingCalls(cs) ==
    /\ cs \in Seq(CallRecords)
    /\ \A p, q \in DOMAIN cs : cs[p].does = cs[q].does /\ cs[p].init = cs[q].init => p = q
    /\ \A p \in DOMAIN cs :
          /\ cs[p].does = "doRandomEM" => cs[p].init = 1
          /\ cs[p].does = "compareEM" => cs[p].init = 0

TrialsOf(c) ==
    CASE c.does = "doEm" -> {<<1, 1>>}
      [] c.does = "doRandomEM" -> (1 .. Trials) \X {1}
      [] c.does = "doEmSamples" -> SampleSizes \X (IF version = "jni" THEN {1} ELSE 1 .. Trials)
      [] c.does = "compareEM" -> {c.n} \X {1, 2}
      [] OTHER -> {}

Stages == {"begin", "cloned", "seeded", "ready", "done"}

Running == trials # << >>

TrialsFit ==
    Running =>
          /\ DOMAIN slots = DOMAIN trials
          /\ calls # << >> /\ Current.does \in {"doEm", "compareEM", "doEmSamples", "doRandomEM"}
          /\ trials \in [TrialsOf(Current) -> Stages]
          /\ \A t \in DOMAIN trials :
                /\ trials[t] \in {"begin", "cloned", "seeded"} => Current.does \in {"doEmSamples", "doRandomEM"}
                /\ trials[t] \in {"cloned", "seeded"} => Current.init \in {1, 3}
          /\ Current.does = "doEmSamples" => fg.init = Current.init

(* A trial that is ready has a graph made for it.                           *)
GraphsFit ==
    \A t \in DOMAIN trials : trials[t] = "ready" =>
        /\ slots[t].init = Current.init
        /\ Current.does = "doRandomEM" \/ (Current.does = "doEmSamples" /\ Current.init \in {1, 3}) => slots[t].by = t
        /\ Current.does = "compareEM" => slots[t] = Original

SamplesFor(t) == IF Current.does = "doEmSamples" THEN Resized(evidence, t[1]) ELSE evidence

EvidenceFits == Running /\ Current.does = "compareEM" => Len(evidence) = Current.n

(* A result is that of the call and the trial it names.                      *)
RowFits(r) ==
    /\ r.trial \in Int \X Int
    /\ r.start.init = r.init
    /\ r.does = "doRandomEM" => r.start.by = r.trial
    /\ r.does = "doEmSamples" /\ r.init \in {1, 3} => r.start.by = r.trial
    /\ r.does \in {"doEmSamples", "compareEM"} => Len(r.samples) = r.trial[1]
    /\ IF r.does = "doEmSamples" THEN r.trial \in SampleSizes \X (1 .. Trials) /\ r.cell = Cell(r.trial) ELSE r.cell = 0
    /\ r.does = "compareEM" => r.start = Original

RowIsPast(r) ==
    \A p \in DOMAIN calls : calls[p].does = r.does /\ calls[p].init = r.init =>
        /\ p = 1
        /\ \/ r.does = "compareEM" /\ r.trial[1] < calls[1].n
           \/ Running /\ r.trial \in DOMAIN trials /\ trials[r.trial] = "done" /\ r.samples = SamplesFor(r.trial)

SameCall(r, s) == r.does = s.does /\ r.init = s.init

Comparable(r, s) ==
    /\ r.trial = s.trial => r = s
    /\ r.does = "doEmSamples" => IsPrefix(r.samples, s.samples) \/ IsPrefix(s.samples, r.samples)
    /\ r.does = "compareEM" /\ r.trial[1] = s.trial[1] => r.samples = s.samples

RowsFit ==
    /\ \A r \in rows : RowFits(r) /\ RowIsPast(r)
    /\ \A r, s \in rows : SameCall(r, s) => Comparable(r, s)
    /\ Running => \A t \in DOMAIN trials : trials[t] = "done" =>
          \E r \in RowsOf(Current.does, Current.init) : r.trial = t

(* The same for the program with one thread.                                *)
TakingTurns ==
    Running /\ Current.does = "doEmSamples" => \A t, u \in DOMAIN trials :
        /\ u[1] < t[1] /\ trials[t] # "begin" => trials[u] = "done"
        /\ trials[t] = "ready" =>
              /\ evidence = Samples(tabsWritten, t[1]).samples
              /\ slots[t].init = Current.init
              /\ Current.init = 1 => slots[t].seed = generator.seed /\ slots[t].drawn < generator.drawn /\ slots[t].drawn \in Nat

(* The samples come from a file of their own, and the graph from numbers     *)
(* that had not been drawn before.                                         *)
SizeFits(r) ==
    r.does = "doEmSamples" =>
        /\ Len(r.samples) = r.trial[1]
        /\ r.start.init = r.init
        /\ \A k \in DOMAIN r.samples : r.samples[k].written \in 0 .. tabsWritten

SizeIsPast(r) ==
    r.does = "doEmSamples" =>
        \A p \in DOMAIN calls : calls[p].does = r.does /\ calls[p].init = r.init =>
            /\ p = 1 /\ Running
            /\ r.trial \in DOMAIN trials /\ trials[r.trial] = "done"
            /\ r.init = 1 => r.start.seed = generator.seed /\ r.start.drawn \in Nat /\ r.start.drawn < generator.drawn
            /\ \A t \in DOMAIN trials : trials[t] = "ready" =>
                  /\ \A k \in DOMAIN r.samples : r.samples[k].written < tabsWritten
                  /\ r.init = 1 => r.start.drawn < slots[t].drawn /\ r.start.seed = slots[t].seed

Independent(r, s) ==
    /\ ToSet(r.samples) \cap ToSet(s.samples) = {}
    /\ r.init = 1 => <<r.start.seed, r.start.drawn>> # <<s.start.seed, s.start.drawn>>

SizesFit ==
    /\ TakingTurns
    /\ \A r \in rows : SizeFits(r) /\ SizeIsPast(r)
    /\ \A r, s \in rows : r.does = "doEmSamples" /\ SameCall(r, s) /\ r.trial # s.trial => Independent(r, s)

ExperimentTyped ==
    /\ version \in {"param_sharing", "jni"}
    /\ tabs = [p \in TabPlaces |-> tabs[p]]
    /\ tabsWritten \in Nat /\ now \in Nat
    /\ generator \in [seed : Nat, drawn : Nat]

ExperimentInv ==
    /\ ExperimentTyped /\ FittingCalls(calls) /\ TrialsFit
    /\ version = "jni" => SizesFit
    /\ version # "jni" => GraphsFit /\ EvidenceFits /\ RowsFit

-----------------------------------------------------------------------------
(* Samples and cells.                                                       *)
LEMMA SizesAreNumbers ==
    ASSUME NEW n \in SampleSizes
    PROVE  n \in Nat /\ \E k \in 0 .. (MaxSamples - InitSamples) \div SamplesDelta : n = InitSamples + k * SamplesDelta
<1>1. PICK k \in 0 .. (MaxSamples - InitSamples) \div SamplesDelta : n = InitSamples + k * SamplesDelta
  BY DEF SampleSizes
<1>2. k \in Nat /\ InitSamples \in Nat /\ SamplesDelta \in Nat
  BY ExperimentAssumption
<1>3. k * SamplesDelta \in Nat
  BY <1>2
<1>4. QED
  BY <1>1, <1>2, <1>3

LEMMA QuotientOfProduct ==
    ASSUME NEW k \in Nat, NEW n \in Nat \ {0}
    PROVE  (k * n) \div n = k
OBVIOUS

LEMMA ProductsOfSums ==
    ASSUME NEW a \in Nat, NEW b \in Nat, NEW n \in Nat
    PROVE  a * n \in Nat /\ (a < b => a * n + n <= b * n)
<1>1. a * n \in Nat
  OBVIOUS
<1>2. ASSUME a < b PROVE a * n + n <= b * n
  <2>1. PICK c \in Nat : b = a + 1 + c
    <3>1. b - a - 1 \in Nat /\ b = a + 1 + (b - a - 1)
      BY <1>2
    <3> QED BY <3>1
  <2>2. b * n = a * n + n + c * n /\ c * n \in Nat
    BY <2>1
  <2> QED BY <2>2, <1>1
<1> QED BY <1>1, <1>2

LEMMA SumBelowProduct ==
    ASSUME NEW a \in Nat, NEW b \in Nat, NEW n \in Nat \ {0}, NEW x \in 0 .. n - 1, NEW y \in 0 .. n - 1
    PROVE  /\ a * n + x \in Nat
           /\ a < b => a * n + x < b * n + y
<1>1. a * n \in Nat /\ b * n \in Nat
  OBVIOUS
<1>2. a < b => a * n + n <= b * n
  BY ProductsOfSums
<1>3. QED
  BY <1>1, <1>2

(* Every trial of doEmSamples has a cell of the table, and its own.          *)
LEMMA CellsAreDistinct ==
    ASSUME NEW t \in SampleSizes \X (1 .. Trials), NEW u \in SampleSizes \X (1 .. Trials)
    PROVE  /\ Cell(t) \in 0 .. Cells - 1
           /\ Cell(t) = Cell(u) => t = u
<1> DEFINE last == (MaxSamples - InitSamples) \div SamplesDelta
<1>1. PICK a \in 0 .. last : t[1] = InitSamples + a * SamplesDelta
  BY SizesAreNumbers
<1>2. PICK b \in 0 .. last : u[1] = InitSamples + b * SamplesDelta
  BY SizesAreNumbers
<1>3. /\ InitSamples \in Nat /\ MaxSamples \in Nat /\ SamplesDelta \in Nat \ {0} /\ Trials \in Nat \ {0}
      /\ a \in Nat /\ b \in Nat /\ last \in Nat
  BY ExperimentAssumption
<1>4. a * SamplesDelta \in Nat /\ b * SamplesDelta \in Nat
  BY <1>3
<1>5. (t[1] - InitSamples) \div SamplesDelta = a /\ (u[1] - InitSamples) \div SamplesDelta = b
  <2>1. t[1] - InitSamples = a * SamplesDelta /\ u[1] - InitSamples = b * SamplesDelta
    BY <1>1, <1>2, <1>3, <1>4
  <2>2. QED
    BY <2>1, <1>3, QuotientOfProduct
<1>6. Cell(t) = a * Trials + (t[2] - 1) /\ Cell(u) = b * Trials + (u[2] - 1)
  <2>1. a * Trials \in Nat /\ b * Trials \in Nat
    BY <1>3
  <2>2. QED
    BY <1>3, <1>5, <2>1 DEF Cell
<1>7. t[2] - 1 \in 0 .. Trials - 1 /\ u[2] - 1 \in 0 .. Trials - 1
  BY <1>3
<1>8. Cell(t) \in Nat /\ (a < last + 1 => Cell(t) < (last + 1) * Trials + 0)
  BY <1>3, <1>6, <1>7, SumBelowProduct, 0 \in 0 .. Trials - 1, last + 1 \in Nat
<1>9. Cells = (last + 1) * Trials /\ Cells \in Nat
  BY <1>3 DEF Cells
<1>10. (a < b => Cell(t) < Cell(u)) /\ (b < a => Cell(u) < Cell(t))
  BY <1>3, <1>6, <1>7, SumBelowProduct
<1>11. Cell(t) = Cell(u) => a = b /\ t[2] = u[2]
  <2>1. Cell(t) \in Nat /\ Cell(u) \in Nat
    BY <1>3, <1>6, <1>7, SumBelowProduct
  <2>2. Cell(t) = Cell(u) => a = b
    BY <1>3, <1>10, <2>1
  <2>3. a * Trials \in Nat
    BY <1>3
  <2>4. QED
    BY <1>6, <1>3, <2>2, <2>3
<1>12. QED
  BY <1>1, <1>2, <1>3, <1>8, <1>9, <1>11

LEMMA ResizedFacts ==
    ASSUME NEW e, NEW n \in Nat
    PROVE  Resized(e, n) = [t \in 1 .. n |-> IF t <= Len(e) THEN e[t] ELSE Empty]
<1> DEFINE f == [t \in 1 .. n |-> IF t <= Len(e) THEN e[t] ELSE Empty]
           S == {f[t] : t \in 1 .. n}
<1>1. f \in Seq(S) /\ Len(f) = n
  OBVIOUS
<1>2. f \o << >> = f
  BY <1>1
<1>3. QED
  BY <1>2 DEF Resized

(* Of two lists made from the same samples one begins the other.             *)
LEMMA ResizedPrefix ==
    ASSUME NEW e, NEW m \in Nat, NEW n \in Nat, m <= n
    PROVE  IsPrefix(Resized(e, m), Resized(e, n))
<1>1. /\ Len(Resized(e, m)) = m /\ Len(Resized(e, n)) = n
      /\ \A t \in 1 .. m : Resized(e, m)[t] = Resized(e, n)[t]
  BY ResizedFacts
<1>2. SubSeq(Resized(e, m), 1, m) = SubSeq(Resized(e, n), 1, m)
  BY <1>1, ResizedFacts
<1>3. QED
  BY <1>1, <1>2 DEF IsPrefix

-----------------------------------------------------------------------------
(* What main makes of the arguments.                                        *)
LEMMA OneCallFits ==
    ASSUME NEW c \in CallRecords, c.does = "doRandomEM" => c.init = 1, c.does = "compareEM" => c.init = 0
    PROVE  FittingCalls(<<c>>)
<1>1. <<c>> \in Seq(CallRecords) /\ DOMAIN <<c>> = {1} /\ <<c>>[1] = c
  OBVIOUS
<1>2. QED
  BY <1>1 DEF FittingCalls

LEMMA FourCallsFit ==
    ASSUME NEW does \in {"doEm", "doEmSamples"}, NEW command \in Commands
    PROVE  FittingCalls([k \in 1 .. 4 |-> Call(does, k - 1, command)])
<1> DEFINE cs == [k \in 1 .. 4 |-> Call(does, k - 1, command)]
<1>1. \A k \in 1 .. 4 : cs[k] \in CallRecords /\ cs[k].init = k - 1 /\ cs[k].does = does
  BY ExperimentAssumption DEF Call, CallRecords, CallKinds
<1>2. cs \in Seq(CallRecords) /\ DOMAIN cs = 1 .. 4
  BY <1>1
<1>3. QED
  BY <1>1, <1>2 DEF FittingCalls

LEMMA MainFits ==
    ASSUME NEW a \in Arguments
    PROVE  FittingCalls(main(a)) /\ FittingCalls(jniMain(a))
<1>1. a.number \in Nat /\ a.samples \in Nat /\ a.command \in Commands /\ "none" \in Commands /\ InitSamples \in Nat
  BY ExperimentAssumption DEF Commands
<1>2. FittingCalls(<<[Call("generateTab", 0, "none") EXCEPT !.n = a.samples]>>)
  <2> DEFINE c == [Call("generateTab", 0, "none") EXCEPT !.n = a.samples]
  <2>1. c \in CallRecords /\ c.does = "generateTab"
    BY <1>1 DEF Call, CallRecords, CallKinds
  <2> HIDE DEF c
  <2>2. FittingCalls(<<c>>)
    BY <2>1, OneCallFits
  <2>3. QED
    BY <2>2 DEF c
<1>3. \A does \in CallKinds, init \in 0 .. 3, command \in Commands :
         (does = "doRandomEM" => init = 1) /\ (does = "compareEM" => init = 0) => FittingCalls(<<Call(does, init, command)>>)
  <2> SUFFICES ASSUME NEW does \in CallKinds, NEW init \in 0 .. 3, NEW command \in Commands,
                      does = "doRandomEM" => init = 1, does = "compareEM" => init = 0
               PROVE  FittingCalls(<<Call(does, init, command)>>)
    OBVIOUS
  <2> DEFINE c == Call(does, init, command)
  <2>1. c \in CallRecords /\ c.does = does /\ c.init = init
    BY <1>1 DEF Call, CallRecords
  <2> HIDE DEF c
  <2>2. FittingCalls(<<c>>)
    BY <2>1, OneCallFits
  <2>3. QED
    BY <2>2 DEF c
<1>4. FittingCalls(<<Call("compareEM", 0, "none")>>) /\ FittingCalls(<<Call("doRandomEM", 1, "none")>>)
  <2>1. "compareEM" \in CallKinds /\ "doRandomEM" \in CallKinds /\ 0 \in 0 .. 3 /\ 1 \in 0 .. 3 /\ "none" \in Commands
    BY <1>1 DEF CallKinds
  <2>2. QED
    BY <2>1, <1>3
<1>5. \A option \in {"-random", "-uniform", "-noise"} : InitOf(option) \in 0 .. 3
  BY DEF InitOf
<1>6. FittingCalls(<< >>)
  BY DEF FittingCalls
<1>7. FittingCalls([k \in 1 .. 4 |-> Call("doEmSamples", k - 1, a.command)])
      /\ FittingCalls([k \in 1 .. 4 |-> Call("doEm", k - 1, "none")])
  <2>1. a.command \in Commands /\ "none" \in Commands
    BY <1>1
  <2>2. FittingCalls([k \in 1 .. 4 |-> Call("doEmSamples", k - 1, a.command)])
    BY <2>1, FourCallsFit
  <2>3. FittingCalls([k \in 1 .. 4 |-> Call("doEm", k - 1, "none")])
    BY <2>1, FourCallsFit
  <2>4. QED
    BY <2>2, <2>3
<1>8. /\ FittingCalls(<<Call("throw", 0, "none")>>) /\ FittingCalls(<<Call("doEm", 0, "none")>>)
      /\ \A option \in {"-random", "-uniform", "-noise"} :
            FittingCalls(<<Call("doEmSamples", InitOf(option), a.command)>>) /\ FittingCalls(<<Call("doEm", InitOf(option), "none")>>)
  <2>1. "throw" \in CallKinds /\ "doEm" \in CallKinds /\ "doEmSamples" \in CallKinds /\ 0 \in 0 .. 3
        /\ "none" \in Commands /\ a.command \in Commands
    BY <1>1 DEF CallKinds
  <2>2. FittingCalls(<<Call("throw", 0, "none")>>) /\ FittingCalls(<<Call("doEm", 0, "none")>>)
    BY <2>1, <1>3
  <2>3. ASSUME NEW option \in {"-random", "-uniform", "-noise"}
        PROVE  FittingCalls(<<Call("doEmSamples", InitOf(option), a.command)>>) /\ FittingCalls(<<Call("doEm", InitOf(option), "none")>>)
    BY <2>1, <1>3, <1>5
  <2>4. QED
    BY <2>2, <2>3
<1>9. FittingCalls(main(a))
  BY <1>2, <1>4, <1>6, <1>7, <1>8 DEF main
<1>10. QED
  BY <1>7, <1>9 DEF jniMain

LEMMA ExperimentStarts == ExperimentInit => ExperimentInv
<1> SUFFICES ASSUME ExperimentInit PROVE ExperimentInv
  OBVIOUS
<1>1. FittingCalls(calls)
  BY MainFits DEF ExperimentInit
<1>2. Cardinality({p \in TabPlaces : tabs[p].exists}) \in Nat
  <2>1. IsFiniteSet({"given", "beside", "tab/", "hidden"})
    <3> DEFINE s == <<"given", "beside", "tab/", "hidden">>
    <3>1. s \in Seq({"given", "beside", "tab/", "hidden"}) /\ Len(s) = 4
      OBVIOUS
    <3>2. s[1] = "given" /\ s[2] = "beside" /\ s[3] = "tab/" /\ s[4] = "hidden"
      OBVIOUS
    <3> HIDE DEF s
    <3>3. \A x \in {"given", "beside", "tab/", "hidden"} : \E k \in 1 .. Len(s) : s[k] = x
      BY <3>1, <3>2
    <3>4. QED
      BY <3>1, <3>3 DEF IsFiniteSet
  <2>2. QED
    BY <2>1, FS_Subset, FS_CardinalityType DEF TabPlaces
<1>3. tabs = [p \in TabPlaces |-> tabs[p]]
  BY ExperimentAssumption DEF ExperimentInit
<1>4. ExperimentTyped
  BY <1>2, <1>3 DEF ExperimentInit, ExperimentTyped
<1>5. QED
  BY <1>1, <1>4 DEF ExperimentInit, ExperimentInv, TrialsFit, Running, GraphsFit, EvidenceFits, RowsFit, SizesFit, TakingTurns

-----------------------------------------------------------------------------
(* The trials of a call begin.                                              *)
FreshTrials ==
    /\ trials' \in [TrialsOf(Current) -> {"begin", "ready"}] /\ DOMAIN slots' = TrialsOf(Current)
    /\ Current.does \in {"doEm", "compareEM", "doEmSamples", "doRandomEM"}
    /\ Current.does = "doEmSamples" => fg'.init = Current.init
    /\ Current.does = "compareEM" => Len(evidence') = Current.n
    /\ \A t \in TrialsOf(Current) :
          /\ trials'[t] = "begin" <=> Current.does \in {"doEmSamples", "doRandomEM"}
          /\ trials'[t] = "ready" =>
                slots'[t].init = Current.init /\ (Current.does = "compareEM" => slots'[t] = Original)

LEMMA FreshTrialsFit ==
    ASSUME ExperimentInv, trials = << >>, calls # << >>, UNCHANGED <<calls, rows, version>>, ExperimentTyped',
           tabsWritten' >= tabsWritten, FreshTrials
    PROVE  ExperimentInv'
<1>1. FittingCalls(calls)' /\ Current' = Current /\ TrialsOf(Current)' = TrialsOf(Current)
  BY DEF ExperimentInv, Current, TrialsOf
<1>2. TrialsFit'
  BY <1>1 DEF FreshTrials, TrialsFit, Running, Stages
<1>3. ASSUME version = "jni" PROVE SizesFit'
  <2>1. SizesFit /\ ~Running
    BY <1>3 DEF ExperimentInv, Running
  <2>2. TakingTurns'
    BY <1>1 DEF FreshTrials, TakingTurns
  <2>3. ASSUME NEW r \in rows PROVE SizeFits(r)' /\ SizeIsPast(r)'
    <3>1. SizeFits(r) /\ SizeIsPast(r)
      BY <2>1, <2>3 DEF SizesFit
    <3>2. QED
      BY <3>1, <2>1 DEF SizeFits, SizeIsPast, ExperimentInv, ExperimentTyped
  <2>4. QED
    BY <2>1, <2>2, <2>3 DEF SizesFit, SameCall, Independent
<1>4. ASSUME version # "jni" PROVE GraphsFit' /\ EvidenceFits' /\ RowsFit'
  <2>1. RowsFit /\ ~Running
    BY <1>4 DEF ExperimentInv, Running
  <2>2. GraphsFit' /\ EvidenceFits'
    BY <1>1 DEF FreshTrials, GraphsFit, EvidenceFits
  <2>3. ASSUME NEW r \in rows PROVE RowFits(r)' /\ RowIsPast(r)'
    <3>1. RowFits(r) /\ RowIsPast(r)
      BY <2>1, <2>3 DEF RowsFit
    <3>2. QED
      BY <3>1, <2>1 DEF RowFits, RowIsPast
  <2>4. QED
    BY <2>1, <2>2, <2>3 DEF RowsFit, SameCall, Comparable, FreshTrials
<1>5. QED
  BY <1>1, <1>2, <1>3, <1>4 DEF ExperimentInv

(* A call returns, with all its results; or all is given up.                 *)
LEMMA CallReturns ==
    ASSUME ExperimentInv, calls # << >>, UNCHANGED <<rows, version>>, ExperimentTyped', tabsWritten' >= tabsWritten,
           trials' = << >>, calls' = << >> \/ calls' = Tail(calls)
    PROVE  ExperimentInv'
<1>1. calls \in Seq(CallRecords)
  BY DEF ExperimentInv, FittingCalls
<1>2. /\ calls' \in Seq(CallRecords)
      /\ \A p \in DOMAIN calls' : p + 1 \in DOMAIN calls /\ calls'[p] = calls[p + 1] /\ p + 1 # 1
  <2>1. CASE calls' = << >>
    BY <2>1
  <2>2. CASE calls' = Tail(calls)
    <3>1. /\ Tail(calls) \in Seq(CallRecords) /\ Len(Tail(calls)) = Len(calls) - 1
          /\ \A p \in 1 .. Len(Tail(calls)) : Tail(calls)[p] = calls[p + 1]
      BY <1>1, HeadTailProperties
    <3>2. DOMAIN Tail(calls) = 1 .. Len(calls) - 1 /\ DOMAIN calls = 1 .. Len(calls) /\ Len(calls) \in Nat
      BY <1>1, <3>1
    <3>3. QED
      BY <2>2, <3>1, <3>2
  <2>3. QED
    BY <2>1, <2>2
<1>3. FittingCalls(calls)'
  <2>1. FittingCalls(calls)
    BY DEF ExperimentInv
  <2>2. \A p \in DOMAIN calls' : p \in Nat
    BY <1>2
  <2>3. \A p, q \in DOMAIN calls' : calls'[p].does = calls'[q].does /\ calls'[p].init = calls'[q].init => p = q
    BY <1>2, <2>1, <2>2 DEF FittingCalls
  <2>4. QED
    BY <1>2, <2>1, <2>3 DEF FittingCalls
<1>4. ~Running'
  BY DEF Running
<1>5. ASSUME version = "jni" PROVE SizesFit'
  <2>1. SizesFit
    BY <1>5 DEF ExperimentInv
  <2>2. TakingTurns'
    BY <1>4 DEF TakingTurns
  <2>3. ASSUME NEW r \in rows PROVE SizeFits(r)' /\ SizeIsPast(r)'
    <3>1. SizeFits(r) /\ SizeIsPast(r)
      BY <2>1, <2>3 DEF SizesFit
    <3>2. SizeIsPast(r)'
      BY <3>1, <1>2 DEF SizeIsPast
    <3>3. QED
      BY <3>1, <3>2 DEF SizeFits, ExperimentInv, ExperimentTyped
  <2>4. QED
    BY <2>1, <2>2, <2>3 DEF SizesFit, SameCall, Independent
<1>6. ASSUME version # "jni" PROVE GraphsFit' /\ EvidenceFits' /\ RowsFit'
  <2>1. RowsFit
    BY <1>6 DEF ExperimentInv
  <2>2. GraphsFit' /\ EvidenceFits'
    BY <1>4 DEF GraphsFit, EvidenceFits
  <2>3. ASSUME NEW r \in rows PROVE RowFits(r)' /\ RowIsPast(r)'
    <3>1. RowFits(r) /\ RowIsPast(r)
      BY <2>1, <2>3 DEF RowsFit
    <3>2. RowIsPast(r)'
      BY <3>1, <1>2 DEF RowIsPast
    <3>3. QED
      BY <3>1, <3>2 DEF RowFits
  <2>4. QED
    BY <2>1, <2>2, <2>3, <1>4 DEF RowsFit, SameCall, Comparable
<1>7. QED
  BY <1>3, <1>4, <1>5, <1>6 DEF ExperimentInv, TrialsFit

(* compareEM goes on with more samples: what it has written was for fewer.   *)
LEMMA ComparisonGoesOn ==
    ASSUME ExperimentInv, Running, Current.does = "compareEM", UNCHANGED <<rows, version, tabsWritten>>, ExperimentTyped',
           trials' = << >>, calls' = [calls EXCEPT ![1].n = @ + SamplesDelta]
    PROVE  ExperimentInv'
<1>1. /\ calls \in Seq(CallRecords) /\ Current = calls[1] /\ 1 \in DOMAIN calls /\ calls[1].n \in Nat
      /\ SamplesDelta \in Nat \ {0} /\ calls[1] \in CallRecords
  <2>1. calls \in Seq(CallRecords) /\ calls # << >>
    BY DEF ExperimentInv, FittingCalls, TrialsFit
  <2>2. 1 \in DOMAIN calls /\ Current = calls[1]
    BY <2>1 DEF Current
  <2>3. calls[1] \in CallRecords
    BY <2>1, <2>2
  <2>4. calls[1].n \in Nat
    BY <2>3 DEF CallRecords
  <2>5. QED
    BY <2>1, <2>2, <2>3, <2>4, ExperimentAssumption
<1>2. /\ DOMAIN calls' = DOMAIN calls /\ calls' \in Seq(CallRecords)
      /\ \A p \in DOMAIN calls : calls'[p].does = calls[p].does /\ calls'[p].init = calls[p].init
      /\ calls'[1].n > calls[1].n /\ calls'[1].n \in Nat
  <2> DEFINE c == [calls[1] EXCEPT !.n = calls[1].n + SamplesDelta]
  <2>1. calls' = [calls EXCEPT ![1] = c]
    OBVIOUS
  <2>2. c \in CallRecords /\ c.does = calls[1].does /\ c.init = calls[1].init /\ c.n > calls[1].n /\ c.n \in Nat
    <3>1. calls[1].n + SamplesDelta \in Nat /\ calls[1].n + SamplesDelta > calls[1].n
      BY <1>1
    <3>2. \A m \in Nat : LET e == [calls[1] EXCEPT !.n = m]
                         IN  e \in CallRecords /\ e.does = calls[1].does /\ e.init = calls[1].init /\ e.n = m
      BY <1>1 DEF CallRecords
    <3>3. QED
      BY <3>1, <3>2
  <2> HIDE DEF c
  <2>3. calls' \in Seq(CallRecords) /\ DOMAIN calls' = DOMAIN calls
    BY <1>1, <2>1, <2>2
  <2>4. \A p \in DOMAIN calls : calls'[p] = IF p = 1 THEN c ELSE calls[p]
    BY <1>1, <2>1
  <2>5. QED
    BY <1>1, <2>2, <2>3, <2>4
<1>3. FittingCalls(calls)'
  BY <1>2 DEF ExperimentInv, FittingCalls
<1>4. ~Running'
  BY DEF Running
<1>5. ASSUME version = "jni" PROVE SizesFit'
  <2>1. SizesFit
    BY <1>5 DEF ExperimentInv
  <2>2. TakingTurns'
    BY <1>4 DEF TakingTurns
  <2>3. ASSUME NEW r \in rows PROVE SizeFits(r)' /\ SizeIsPast(r)'
    <3>1. SizeFits(r) /\ SizeIsPast(r)
      BY <2>1, <2>3 DEF SizesFit
    <3>2. SizeIsPast(r)'
      BY <3>1, <1>1, <1>2 DEF SizeIsPast
    <3>3. QED
      BY <3>1, <3>2 DEF SizeFits
  <2>4. QED
    BY <2>1, <2>2, <2>3 DEF SizesFit, SameCall, Independent
<1>6. ASSUME version # "jni" PROVE GraphsFit' /\ EvidenceFits' /\ RowsFit'
  <2>1. RowsFit
    BY <1>6 DEF ExperimentInv
  <2>2. GraphsFit' /\ EvidenceFits'
    BY <1>4 DEF GraphsFit, EvidenceFits
  <2>3. ASSUME NEW r \in rows PROVE RowFits(r)' /\ RowIsPast(r)'
    <3>1. RowFits(r) /\ RowIsPast(r)
      BY <2>1, <2>3 DEF RowsFit
    <3>2. r.trial[1] \in Int
      BY <3>1 DEF RowFits
    <3>3. DOMAIN trials = {Current.n} \X {1, 2}
      BY DEF ExperimentInv, TrialsFit, TrialsOf
    <3>4. RowIsPast(r)'
      BY <3>1, <3>2, <3>3, <1>1, <1>2 DEF RowIsPast
    <3>5. QED
      BY <3>1, <3>4 DEF RowFits
  <2>4. QED
    BY <2>1, <2>2, <2>3, <1>4 DEF RowsFit, SameCall, Comparable
<1>7. QED
  BY <1>3, <1>4, <1>5, <1>6 DEF ExperimentInv, TrialsFit

(* The actions that begin or end a call.                                    *)
LEMMA GenerateTabKeepsInv == ExperimentInv /\ GenerateTab /\ UNCHANGED version => ExperimentInv'
<1> SUFFICES ASSUME ExperimentInv, GenerateTab, UNCHANGED version PROVE ExperimentInv'
  OBVIOUS
<1>1. ExperimentTyped' /\ tabsWritten' >= tabsWritten
  BY DEF GenerateTab, generateTab, ExperimentInv, ExperimentTyped
<1>2. calls # << >> /\ rows' = rows /\ trials' = << >> /\ calls' = Tail(calls)
  BY DEF GenerateTab, Starting
<1>3. QED
  BY <1>1, <1>2, CallReturns

LEMMA ThrowKeepsInv == ExperimentInv /\ Throw /\ UNCHANGED version => ExperimentInv'
<1> SUFFICES ASSUME ExperimentInv, Throw, UNCHANGED version PROVE ExperimentInv'
  OBVIOUS
<1>1. ExperimentTyped' /\ tabsWritten' >= tabsWritten
  BY DEF Throw, ExperimentInv, ExperimentTyped
<1>2. calls # << >> /\ rows' = rows /\ trials' = << >> /\ calls' = << >>
  BY DEF Throw, Starting
<1>3. QED
  BY <1>1, <1>2, CallReturns

LEMMA EndTrialsKeepsInv == ExperimentInv /\ EndTrials /\ UNCHANGED version => ExperimentInv'
<1> SUFFICES ASSUME ExperimentInv, EndTrials, UNCHANGED version PROVE ExperimentInv'
  OBVIOUS
<1>1. ExperimentTyped' /\ tabsWritten' >= tabsWritten /\ Running /\ calls # << >>
  BY DEF EndTrials, ExperimentInv, ExperimentTyped, Running, TrialsFit
<1>2. CASE Current.does = "compareEM" /\ Current.n + SamplesDelta <= MaxSamples
  BY <1>1, <1>2, ComparisonGoesOn DEF EndTrials
<1>3. CASE ~(Current.does = "compareEM" /\ Current.n + SamplesDelta <= MaxSamples)
  <2>1. calls' = Tail(calls) /\ trials' = << >> /\ rows' = rows
    BY <1>3 DEF EndTrials
  <2>2. QED
    BY <1>1, <2>1, CallReturns
<1>4. QED
  BY <1>2, <1>3

LEMMA TickKeepsInv == ExperimentInv /\ Tick /\ UNCHANGED version => ExperimentInv'
<1> SUFFICES ASSUME ExperimentInv, Tick, UNCHANGED version PROVE ExperimentInv'
  OBVIOUS
<1>1. ExperimentTyped' /\ FittingCalls(calls)'
  BY DEF Tick, ExperimentInv, ExperimentTyped
<1>2. TrialsFit'
  BY DEF Tick, ExperimentInv, TrialsFit, Running, Current, TrialsOf
<1>3. ASSUME version = "jni" PROVE SizesFit'
  <2>1. SizesFit
    BY <1>3 DEF ExperimentInv
  <2>2. TakingTurns'
    BY <2>1 DEF Tick, SizesFit, TakingTurns, Running, Current
  <2>3. ASSUME NEW r \in rows PROVE SizeFits(r)' /\ SizeIsPast(r)'
    BY <2>1 DEF Tick, SizesFit, SizeFits, SizeIsPast, Running
  <2>4. QED
    BY <2>1, <2>2, <2>3 DEF Tick, SizesFit, SameCall, Independent
<1>4. version # "jni" => GraphsFit' /\ EvidenceFits' /\ RowsFit'
  BY DEF Tick, ExperimentInv, GraphsFit, EvidenceFits, RowsFit, RowFits, RowIsPast, SamplesFor, RowsOf, SameCall, Comparable, Running, Current
<1>5. QED
  BY <1>1, <1>2, <1>3, <1>4 DEF ExperimentInv

LEMMA CurrentFacts ==
    ASSUME ExperimentInv, calls # << >>
    PROVE  /\ 1 \in DOMAIN calls /\ Current = calls[1] /\ Current \in CallRecords
           /\ Current.init \in 0 .. 3 /\ Current.n \in Nat
           /\ Current.does = "doRandomEM" => Current.init = 1
           /\ Current.does = "compareEM" => Current.init = 0
<1>1. calls \in Seq(CallRecords)
  BY DEF ExperimentInv, FittingCalls
<1>2. 1 \in DOMAIN calls /\ Current = calls[1]
  BY <1>1 DEF Current
<1>3. Current \in CallRecords
  BY <1>1, <1>2
<1>4. Current.init \in 0 .. 3 /\ Current.n \in Nat
  BY <1>3 DEF CallRecords
<1>5. QED
  BY <1>2, <1>3, <1>4 DEF ExperimentInv, FittingCalls

(* Whatever init is, the graph that is changed has been changed that way.    *)
LEMMA ChangedFacts ==
    ASSUME NEW g, NEW init \in 0 .. 3, NEW by, NEW from
    PROVE  /\ Changed(Original, init, by, from).init = init
           /\ init \in {1, 3} => /\ Changed(g, init, by, from).init = init
                                 /\ Changed(g, init, by, from).by = by
                                 /\ Changed(g, init, by, from).seed = from.seed
                                 /\ Changed(g, init, by, from).drawn = from.drawn
<1>1. CASE init \in {1, 3}
  BY <1>1 DEF Changed
<1>2. CASE init = 2
  BY <1>2 DEF Changed
<1>3. CASE init = 0
  <2>1. Changed(Original, init, by, from) = Original
    BY <1>3 DEF Changed
  <2>2. QED
    BY <1>3, <2>1 DEF Original
<1>4. init \in {1, 3} \/ init = 2 \/ init = 0
  OBVIOUS
<1>5. QED
  BY <1>1, <1>2, <1>3, <1>4

LEMMA StartEmKeepsInv == ExperimentInv /\ StartEm /\ UNCHANGED version => ExperimentInv'
<1> SUFFICES ASSUME ExperimentInv, StartEm, UNCHANGED version PROVE ExperimentInv'
  OBVIOUS
<1>1. /\ calls # << >> /\ trials = << >> /\ Current.does = "doEm" /\ UNCHANGED <<calls, rows>>
      /\ tabsWritten' = tabsWritten /\ tabsWritten' \in Nat
  BY DEF StartEm, Starting, ExperimentInv, ExperimentTyped
<1>2. fg'.init = Current.init
  BY <1>1, CurrentFacts, ChangedFacts DEF StartEm, Prepared
<1>3. ExperimentTyped'
  BY DEF StartEm, Prepared, Seeded, ExperimentInv, ExperimentTyped
<1>4. /\ trials' = [t \in {<<1, 1>>} |-> "ready"]
      /\ slots' = [t \in {<<1, 1>>} |-> fg']
  BY DEF StartEm
<1>5. TrialsOf(Current) = {<<1, 1>>}
  BY <1>1 DEF TrialsOf
<1>6. FreshTrials
  BY <1>1, <1>2, <1>4, <1>5 DEF FreshTrials
<1>7. QED
  BY <1>1, <1>3, <1>6, FreshTrialsFit

LEMMA StartRandomEMKeepsInv == ExperimentInv /\ StartRandomEM /\ UNCHANGED version => ExperimentInv'
<1> SUFFICES ASSUME ExperimentInv, StartRandomEM, UNCHANGED version PROVE ExperimentInv'
  OBVIOUS
<1>1. /\ calls # << >> /\ trials = << >> /\ Current.does = "doRandomEM" /\ UNCHANGED <<calls, rows>>
      /\ tabsWritten' = tabsWritten /\ tabsWritten' \in Nat
  BY DEF StartRandomEM, Starting, ExperimentInv, ExperimentTyped
<1>2. ExperimentTyped'
  BY DEF StartRandomEM, Seeded, ExperimentInv, ExperimentTyped
<1>3. TrialsOf(Current) = (1 .. Trials) \X {1}
  BY <1>1 DEF TrialsOf
<1>4. {<<n, 1>> : n \in 1 .. Trials} = (1 .. Trials) \X {1}
  OBVIOUS
<1>5. trials' = [t \in TrialsOf(Current) |-> "begin"] /\ DOMAIN slots' = TrialsOf(Current)
  BY <1>3, <1>4 DEF StartRandomEM
<1>6. FreshTrials
  BY <1>1, <1>5 DEF FreshTrials
<1>7. QED
  BY <1>1, <1>2, <1>6, FreshTrialsFit

LEMMA StartSamplesKeepsInv == ExperimentInv /\ version # "jni" /\ StartSamples /\ UNCHANGED version => ExperimentInv'
<1> SUFFICES ASSUME ExperimentInv, version # "jni", StartSamples, UNCHANGED version PROVE ExperimentInv'
  OBVIOUS
<1>1. /\ calls # << >> /\ trials = << >> /\ Current.does = "doEmSamples" /\ UNCHANGED rows
      /\ tabsWritten' >= tabsWritten /\ tabsWritten' \in Nat
  <2>1. tabsWritten' \in {tabsWritten, tabsWritten + 1} /\ tabsWritten \in Nat
    BY DEF StartSamples, ExperimentInv, ExperimentTyped
  <2>2. Starting("doEmSamples") /\ rows' = rows
    BY DEF StartSamples
  <2>3. QED
    BY <2>1, <2>2 DEF Starting
<1>2. fg'.init = Current.init /\ generator' \in [seed : Nat, drawn : Nat] /\ now' = now
  <2>1. Prepared(Current.init) /\ now' = now
    BY DEF StartSamples
  <2>2. fg'.init = Current.init
    BY <2>1, <1>1, CurrentFacts, ChangedFacts DEF Prepared
  <2>3. generator' \in [seed : Nat, drawn : Nat]
    BY <2>1 DEF Prepared, Seeded, ExperimentInv, ExperimentTyped
  <2>4. QED
    BY <2>1, <2>2, <2>3
<1>3. ExperimentTyped'
  <2>1. tabs' = [p \in TabPlaces |-> tabs'[p]]
    <3> DEFINE made == IF TooSmall THEN [tabs EXCEPT ![TabOut] = Samples(tabsWritten + 1, MaxSamples)] ELSE tabs
    <3>1. made = [p \in TabPlaces |-> made[p]]
      BY DEF ExperimentInv, ExperimentTyped
    <3>2. tabs' = IF Current.command = "hide" THEN [made EXCEPT !["hidden"] = made[TabIn]] ELSE made
      BY DEF StartSamples
    <3> HIDE DEF made
    <3>3. QED
      BY <3>1, <3>2
  <2>2. QED
    BY <2>1, <1>1, <1>2 DEF ExperimentInv, ExperimentTyped
<1>4. CASE Current.command = "no paths"
  <2>1. calls' = << >> /\ trials' = << >>
    BY <1>4 DEF StartSamples
  <2>2. QED
    BY <1>1, <1>3, <2>1, CallReturns
<1>5. CASE Current.command # "no paths"
  <2>1. TrialsOf(Current) = SampleSizes \X (1 .. Trials)
    BY <1>1 DEF TrialsOf
  <2>2. trials' = [t \in TrialsOf(Current) |-> "begin"] /\ DOMAIN slots' = TrialsOf(Current) /\ calls' = calls
    BY <1>5, <2>1 DEF StartSamples
  <2>3. FreshTrials
    BY <1>1, <1>2, <2>2 DEF FreshTrials
  <2>4. QED
    BY <1>1, <1>3, <2>2, <2>3, FreshTrialsFit
<1>6. QED
  BY <1>4, <1>5

LEMMA JniStartSamplesKeepsInv == ExperimentInv /\ version = "jni" /\ JniStartSamples /\ UNCHANGED version => ExperimentInv'
<1> SUFFICES ASSUME ExperimentInv, version = "jni", JniStartSamples, UNCHANGED version PROVE ExperimentInv'
  OBVIOUS
<1>1. /\ calls # << >> /\ trials = << >> /\ Current.does = "doEmSamples" /\ UNCHANGED <<calls, rows>>
      /\ tabsWritten' = tabsWritten /\ tabsWritten' \in Nat
  BY DEF JniStartSamples, Starting, ExperimentInv, ExperimentTyped
<1>2. fg'.init = Current.init
  <2>1. Prepared(Current.init)
    BY DEF JniStartSamples
  <2>2. QED
    BY <2>1, <1>1, CurrentFacts, ChangedFacts DEF Prepared
<1>3. ExperimentTyped'
  BY DEF JniStartSamples, Prepared, Seeded, ExperimentInv, ExperimentTyped
<1>4. TrialsOf(Current) = SampleSizes \X {1}
  BY <1>1 DEF TrialsOf
<1>5. trials' = [t \in TrialsOf(Current) |-> "begin"] /\ DOMAIN slots' = TrialsOf(Current)
  BY <1>4 DEF JniStartSamples
<1>6. FreshTrials
  BY <1>1, <1>2, <1>5 DEF FreshTrials
<1>7. QED
  BY <1>1, <1>3, <1>6, FreshTrialsFit

LEMMA StartComparisonKeepsInv == ExperimentInv /\ StartComparison /\ UNCHANGED version => ExperimentInv'
<1> SUFFICES ASSUME ExperimentInv, StartComparison, UNCHANGED version PROVE ExperimentInv'
  OBVIOUS
<1>1. /\ calls # << >> /\ trials = << >> /\ Current.does = "compareEM" /\ UNCHANGED <<calls, rows>>
      /\ tabsWritten' >= tabsWritten
  BY DEF StartComparison, generateTab, Starting, ExperimentInv, ExperimentTyped
<1>2. Current.init = 0 /\ Current.n \in Nat
  BY <1>1, CurrentFacts
<1>3. ExperimentTyped'
  BY DEF StartComparison, generateTab, ExperimentInv, ExperimentTyped
<1>4. Len(evidence') = Current.n
  <2>1. tabs'["beside"] = Samples(tabsWritten + 1, Current.n)
    BY DEF StartComparison, generateTab, ExperimentInv, ExperimentTyped, TabPlaces
  <2>2. QED
    BY <2>1, <1>2 DEF StartComparison, Samples
<1>5. TrialsOf(Current) = {Current.n} \X {1, 2}
  BY <1>1 DEF TrialsOf
<1>6. trials' = [t \in TrialsOf(Current) |-> "ready"] /\ slots' = [t \in TrialsOf(Current) |-> Original]
  BY <1>5 DEF StartComparison
<1>7. FreshTrials
  BY <1>1, <1>2, <1>4, <1>6 DEF FreshTrials, Original
<1>8. QED
  BY <1>1, <1>3, <1>7, FreshTrialsFit

-----------------------------------------------------------------------------
(* One trial goes on.                                                       *)
LEMMA AdvanceFacts ==
    ASSUME ExperimentInv, NEW t \in DOMAIN trials, NEW to \in Stages, trials' = [trials EXCEPT ![t] = to],
           UNCHANGED <<calls, version>>
    PROVE  /\ Running /\ Running' /\ calls # << >> /\ Current' = Current /\ TrialsOf(Current)' = TrialsOf(Current)
           /\ DOMAIN trials = TrialsOf(Current) /\ DOMAIN slots = TrialsOf(Current)
           /\ trials' \in [TrialsOf(Current) -> Stages] /\ t \in TrialsOf(Current)
           /\ trials'[t] = to /\ \A u \in TrialsOf(Current) : u # t => trials'[u] = trials[u]
<1>1. Running
  BY DEF Running
<1>2. calls # << >> /\ trials \in [TrialsOf(Current) -> Stages] /\ DOMAIN slots = DOMAIN trials
  BY <1>1 DEF ExperimentInv, TrialsFit
<1>3. Current' = Current /\ TrialsOf(Current)' = TrialsOf(Current)
  BY DEF Current, TrialsOf
<1>4. trials' \in [TrialsOf(Current) -> Stages] /\ t \in TrialsOf(Current) /\ trials'[t] = to
  BY <1>2
<1>5. Running'
  BY <1>4 DEF Running
<1>6. QED
  BY <1>1, <1>2, <1>3, <1>4, <1>5

(* A step of a trial that is not its last disturbs no result.                *)
LEMMA StepKeepsRows ==
    ASSUME ExperimentInv, version # "jni", NEW t \in DOMAIN trials, NEW to \in Stages, trials[t] # "done", to # "done",
           trials' = [trials EXCEPT ![t] = to], UNCHANGED <<calls, version, rows, evidence>>
    PROVE  EvidenceFits' /\ RowsFit'
<1>1. /\ Running /\ Running' /\ Current' = Current
      /\ DOMAIN trials = TrialsOf(Current) /\ DOMAIN trials' = TrialsOf(Current)
      /\ trials'[t] = to /\ \A u \in TrialsOf(Current) : u # t => trials'[u] = trials[u]
  BY AdvanceFacts
<1>2. EvidenceFits /\ RowsFit
  BY DEF ExperimentInv
<1>3. ASSUME NEW r \in rows PROVE RowFits(r)' /\ RowIsPast(r)'
  <2>1. RowFits(r) /\ RowIsPast(r)
    BY <1>2, <1>3 DEF RowsFit
  <2>2. SamplesFor(r.trial)' = SamplesFor(r.trial)
    BY <1>1 DEF SamplesFor
  <2>3. RowIsPast(r)'
    BY <1>1, <2>1, <2>2 DEF RowIsPast
  <2>4. QED
    BY <2>1, <2>3 DEF RowFits
<1>4. \A u \in DOMAIN trials' : trials'[u] = "done" => \E r \in RowsOf(Current.does, Current.init)' : r.trial = u
  BY <1>1, <1>2 DEF RowsFit, RowsOf
<1>5. EvidenceFits'
  BY <1>1, <1>2 DEF EvidenceFits
<1>6. QED
  BY <1>1, <1>2, <1>3, <1>4, <1>5 DEF RowsFit, RowsOf, SameCall, Comparable

LEMMA BeginTrialKeepsInv ==
    ASSUME ExperimentInv, version # "jni", UNCHANGED version, NEW t \in DOMAIN trials, BeginTrial(t)
    PROVE  ExperimentInv'
<1> DEFINE to == IF Current.init \in {1, 3} THEN "cloned" ELSE "ready"
<1>1. /\ trials[t] = "begin" /\ trials' = [trials EXCEPT ![t] = to] /\ slots' = [slots EXCEPT ![t] = fg]
      /\ UNCHANGED <<calls, rows, evidence, fg>>
  BY DEF BeginTrial, Advance, Slot
<1>2. to \in Stages /\ to # "done"
  BY DEF Stages
<1> HIDE DEF to
<1>3. /\ Running /\ Running' /\ calls # << >> /\ Current' = Current /\ TrialsOf(Current)' = TrialsOf(Current)
      /\ DOMAIN trials = TrialsOf(Current) /\ DOMAIN slots = TrialsOf(Current)
      /\ trials' \in [TrialsOf(Current) -> Stages] /\ t \in TrialsOf(Current)
      /\ trials'[t] = to /\ \A u \in TrialsOf(Current) : u # t => trials'[u] = trials[u]
  BY <1>1, <1>2, AdvanceFacts
<1>4. EvidenceFits' /\ RowsFit'
  BY <1>1, <1>2, StepKeepsRows
<1>5. TrialsFit /\ GraphsFit
  BY DEF ExperimentInv
<1>6. /\ DOMAIN slots' = TrialsOf(Current) /\ slots'[t] = fg
      /\ \A u \in TrialsOf(Current) : u # t => slots'[u] = slots[u]
  BY <1>1, <1>3
<1>7. Current.does \in {"doEmSamples", "doRandomEM"} /\ (Current.does = "doEmSamples" => fg.init = Current.init)
  BY <1>1, <1>3, <1>5 DEF TrialsFit
<1>8. (to = "ready" => Current.init \notin {1, 3}) /\ (to # "ready" => Current.init \in {1, 3}) /\ to \in {"cloned", "ready"}
  BY DEF to
<1>9. Current.does = "doRandomEM" => Current.init = 1
  BY <1>3, CurrentFacts
<1>10. TrialsFit'
  <2>1. \A u \in DOMAIN trials' :
           /\ trials'[u] \in {"begin", "cloned", "seeded"} => Current.does \in {"doEmSamples", "doRandomEM"}
           /\ trials'[u] \in {"cloned", "seeded"} => Current.init \in {1, 3}
    BY <1>3, <1>5, <1>7, <1>8 DEF TrialsFit
  <2>2. QED
    BY <1>1, <1>3, <1>5, <1>6, <1>7, <2>1 DEF TrialsFit
<1>11. GraphsFit'
  BY <1>3, <1>5, <1>6, <1>7, <1>8, <1>9 DEF GraphsFit
<1>12. ExperimentTyped' /\ FittingCalls(calls)'
  BY DEF BeginTrial, ExperimentInv, ExperimentTyped
<1>13. QED
  BY <1>4, <1>10, <1>11, <1>12 DEF ExperimentInv

LEMMA SeedKeepsInv ==
    ASSUME ExperimentInv, version # "jni", UNCHANGED version, NEW t \in DOMAIN trials, Seed(t)
    PROVE  ExperimentInv'
<1>1. /\ trials[t] = "cloned" /\ trials' = [trials EXCEPT ![t] = "seeded"]
      /\ UNCHANGED <<calls, rows, evidence, fg, slots>>
  BY DEF Seed, Advance
<1>2. "seeded" \in Stages /\ "seeded" # "done"
  BY DEF Stages
<1>3. /\ Running /\ Running' /\ calls # << >> /\ Current' = Current /\ TrialsOf(Current)' = TrialsOf(Current)
      /\ DOMAIN trials = TrialsOf(Current) /\ DOMAIN slots = TrialsOf(Current)
      /\ trials' \in [TrialsOf(Current) -> Stages] /\ t \in TrialsOf(Current)
      /\ trials'[t] = "seeded" /\ \A u \in TrialsOf(Current) : u # t => trials'[u] = trials[u]
  BY <1>1, <1>2, AdvanceFacts
<1>4. EvidenceFits' /\ RowsFit'
  BY <1>1, <1>2, StepKeepsRows
<1>5. TrialsFit /\ GraphsFit
  BY DEF ExperimentInv
<1>6. TrialsFit'
  <2>1. \A u \in DOMAIN trials' :
           /\ trials'[u] \in {"begin", "cloned", "seeded"} => Current.does \in {"doEmSamples", "doRandomEM"}
           /\ trials'[u] \in {"cloned", "seeded"} => Current.init \in {1, 3}
    BY <1>1, <1>3, <1>5 DEF TrialsFit
  <2>2. QED
    BY <1>1, <1>3, <1>5, <2>1 DEF TrialsFit
<1>7. GraphsFit'
  BY <1>1, <1>3, <1>5 DEF GraphsFit
<1>8. ExperimentTyped' /\ FittingCalls(calls)'
  BY DEF Seed, Seeded, ExperimentInv, ExperimentTyped
<1>9. QED
  BY <1>4, <1>6, <1>7, <1>8 DEF ExperimentInv

LEMMA RandomizeKeepsInv ==
    ASSUME ExperimentInv, version # "jni", UNCHANGED version, NEW t \in DOMAIN trials, Randomize(t)
    PROVE  ExperimentInv'
<1> DEFINE g == Changed(slots[t], Current.init, t, generator)
<1>1. /\ trials[t] = "seeded" /\ trials' = [trials EXCEPT ![t] = "ready"] /\ slots' = [slots EXCEPT ![t] = g]
      /\ UNCHANGED <<calls, rows, evidence, fg>>
  BY DEF Randomize, Advance, Slot
<1>2. "ready" \in Stages /\ "ready" # "done"
  BY DEF Stages
<1>3. /\ Running /\ Running' /\ calls # << >> /\ Current' = Current /\ TrialsOf(Current)' = TrialsOf(Current)
      /\ DOMAIN trials = TrialsOf(Current) /\ DOMAIN slots = TrialsOf(Current)
      /\ trials' \in [TrialsOf(Current) -> Stages] /\ t \in TrialsOf(Current)
      /\ trials'[t] = "ready" /\ \A u \in TrialsOf(Current) : u # t => trials'[u] = trials[u]
  BY <1>1, <1>2, AdvanceFacts
<1>4. EvidenceFits' /\ RowsFit'
  BY <1>1, <1>2, StepKeepsRows
<1>5. TrialsFit /\ GraphsFit
  BY DEF ExperimentInv
<1>6. Current.does \in {"doEmSamples", "doRandomEM"} /\ Current.init \in {1, 3}
  BY <1>1, <1>3, <1>5 DEF TrialsFit
<1>7. g.init = Current.init /\ g.by = t
  BY <1>3, <1>6, CurrentFacts, ChangedFacts
<1> HIDE DEF g
<1>8. /\ DOMAIN slots' = TrialsOf(Current) /\ slots'[t] = g
      /\ \A u \in TrialsOf(Current) : u # t => slots'[u] = slots[u]
  BY <1>1, <1>3
<1>9. TrialsFit'
  <2>1. \A u \in DOMAIN trials' :
           /\ trials'[u] \in {"begin", "cloned", "seeded"} => Current.does \in {"doEmSamples", "doRandomEM"}
           /\ trials'[u] \in {"cloned", "seeded"} => Current.init \in {1, 3}
    BY <1>6
  <2>2. QED
    BY <1>1, <1>3, <1>5, <1>8, <2>1 DEF TrialsFit
<1>10. GraphsFit'
  BY <1>3, <1>5, <1>6, <1>7, <1>8 DEF GraphsFit
<1>11. ExperimentTyped' /\ FittingCalls(calls)'
  BY DEF Randomize, Drawn, ExperimentInv, ExperimentTyped
<1>12. QED
  BY <1>4, <1>9, <1>10, <1>11 DEF ExperimentInv

(* The last step of a trial adds its result.                                *)
LEMMA LearnKeepsInv ==
    ASSUME ExperimentInv, version # "jni", UNCHANGED version, NEW t \in DOMAIN trials, Learn(t)
    PROVE  ExperimentInv'
<1>1. /\ trials[t] = "ready" /\ trials' = [trials EXCEPT ![t] = "done"]
      /\ UNCHANGED <<calls, evidence, fg, slots>>
  BY DEF Learn, Advance
<1>2. PICK row : rows' = rows \cup {row} /\ \E iters : row = Result(t, iters)
  BY DEF Learn
<1>3. /\ row.does = Current.does /\ row.init = Current.init /\ row.trial = t /\ row.start = slots[t]
      /\ row.samples = SamplesFor(t) /\ row.cell = IF Current.does = "doEmSamples" THEN Cell(t) ELSE 0
  BY <1>2 DEF Result, Slot, SamplesFor
<1>4. /\ Running /\ Running' /\ calls # << >> /\ Current' = Current /\ TrialsOf(Current)' = TrialsOf(Current)
      /\ DOMAIN trials = TrialsOf(Current) /\ DOMAIN slots = TrialsOf(Current)
      /\ trials' \in [TrialsOf(Current) -> Stages] /\ t \in TrialsOf(Current)
      /\ trials'[t] = "done" /\ \A u \in TrialsOf(Current) : u # t => trials'[u] = trials[u]
  BY <1>1, AdvanceFacts DEF Stages
<1>5. TrialsFit /\ GraphsFit /\ EvidenceFits /\ RowsFit /\ FittingCalls(calls) /\ ExperimentTyped
  BY DEF ExperimentInv
<1>6. /\ 1 \in DOMAIN calls /\ Current = calls[1] /\ Current.init \in 0 .. 3 /\ Current.n \in Nat
      /\ Current.does \in {"doEm", "compareEM", "doEmSamples", "doRandomEM"}
  BY <1>4, <1>5, CurrentFacts DEF TrialsFit
<1>7. \A u \in TrialsOf(Current) :
         /\ u \in Int \X Int
         /\ Current.does = "doEmSamples" => u \in SampleSizes \X (1 .. Trials) /\ u[1] \in Nat
         /\ Current.does = "compareEM" => u[1] = Current.n
  <2>1. CASE Current.does = "doEm"
    BY <2>1 DEF TrialsOf
  <2>2. CASE Current.does = "doRandomEM"
    BY <2>2 DEF TrialsOf
  <2>3. CASE Current.does = "compareEM"
    BY <2>3, <1>6 DEF TrialsOf
  <2>4. CASE Current.does = "doEmSamples"
    <3>1. TrialsOf(Current) = SampleSizes \X (1 .. Trials)
      BY <2>4 DEF TrialsOf
    <3>2. \A n \in SampleSizes : n \in Nat
      BY SizesAreNumbers
    <3>3. QED
      BY <2>4, <3>1, <3>2
  <2>5. QED
    BY <1>6, <2>1, <2>2, <2>3, <2>4
<1>8. RowFits(row)'
  <2>1. /\ slots[t].init = Current.init
        /\ Current.does = "doRandomEM" \/ (Current.does = "doEmSamples" /\ Current.init \in {1, 3}) => slots[t].by = t
        /\ Current.does = "compareEM" => slots[t] = Original
    BY <1>1, <1>4, <1>5 DEF GraphsFit
  <2>2. Current.does \in {"doEmSamples", "compareEM"} => Len(SamplesFor(t)) = t[1]
    <3>1. CASE Current.does = "doEmSamples"
      BY <3>1, <1>4, <1>7, ResizedFacts DEF SamplesFor
    <3>2. CASE Current.does = "compareEM"
      BY <3>2, <1>4, <1>5, <1>7 DEF SamplesFor, EvidenceFits
    <3>3. QED
      BY <3>1, <3>2
  <2>3. QED
    BY <1>3, <1>4, <1>7, <2>1, <2>2 DEF RowFits
<1>9. \A r : SamplesFor(r)' = SamplesFor(r)
  BY <1>1, <1>4 DEF SamplesFor
<1>10. RowIsPast(row)'
  <2>1. \A p \in DOMAIN calls : calls[p].does = row.does /\ calls[p].init = row.init => p = 1
    BY <1>3, <1>5, <1>6 DEF FittingCalls
  <2>2. row.samples = SamplesFor(row.trial)' /\ row.trial \in DOMAIN trials' /\ trials'[row.trial] = "done"
    BY <1>3, <1>4, <1>9
  <2>3. QED
    BY <1>1, <1>4, <2>1, <2>2 DEF RowIsPast
<1>11. ASSUME NEW r \in rows PROVE RowFits(r)' /\ RowIsPast(r)'
  <2>1. RowFits(r) /\ RowIsPast(r)
    BY <1>5, <1>11 DEF RowsFit
  <2>2. SamplesFor(r.trial)' = SamplesFor(r.trial)
    BY <1>9
  <2>3. RowIsPast(r)'
    BY <1>1, <1>4, <2>1, <2>2 DEF RowIsPast
  <2>4. QED
    BY <2>1, <2>3 DEF RowFits
<1>12. ASSUME NEW s \in rows, SameCall(row, s) PROVE Comparable(row, s) /\ Comparable(s, row)
  <2>1. RowFits(s) /\ RowIsPast(s)
    BY <1>5, <1>12 DEF RowsFit
  <2>2. s.does = Current.does /\ s.init = Current.init
    BY <1>3, <1>12 DEF SameCall
  <2>3. \/ s.does = "compareEM" /\ s.trial[1] < Current.n
        \/ s.trial \in DOMAIN trials /\ trials[s.trial] = "done" /\ s.samples = SamplesFor(s.trial)
    BY <1>6, <2>1, <2>2 DEF RowIsPast
  <2>4. CASE s.does = "compareEM" /\ s.trial[1] < Current.n
    <3>1. t[1] = Current.n /\ s.trial # t /\ s.trial[1] # t[1]
      BY <1>4, <1>6, <1>7, <2>2, <2>4
    <3>2. QED
      BY <1>3, <2>2, <2>4, <3>1 DEF Comparable
  <2>5. CASE s.trial \in DOMAIN trials /\ trials[s.trial] = "done" /\ s.samples = SamplesFor(s.trial)
    <3>1. s.trial # t
      BY <1>1, <2>5
    <3>2. Current.does = "compareEM" => s.samples = row.samples
      BY <1>3, <2>5 DEF SamplesFor
    <3>3. Current.does = "doEmSamples" => IsPrefix(row.samples, s.samples) \/ IsPrefix(s.samples, row.samples)
      <4>1. SUFFICES ASSUME Current.does = "doEmSamples"
                     PROVE  IsPrefix(row.samples, s.samples) \/ IsPrefix(s.samples, row.samples)
        OBVIOUS
      <4>2. row.samples = Resized(evidence, t[1]) /\ s.samples = Resized(evidence, s.trial[1])
        BY <1>3, <2>5, <4>1 DEF SamplesFor
      <4>3. t[1] \in Nat /\ s.trial[1] \in Nat
        BY <1>4, <1>7, <2>5, <4>1
      <4>4. t[1] <= s.trial[1] \/ s.trial[1] <= t[1]
        BY <4>3
      <4>5. QED
        BY <4>2, <4>3, <4>4, ResizedPrefix
    <3>4. QED
      BY <1>3, <2>2, <3>1, <3>2, <3>3 DEF Comparable
  <2>6. QED
    BY <2>3, <2>4, <2>5
<1>13. Comparable(row, row)
  <2>1. row.does = "doEmSamples" => IsPrefix(row.samples, row.samples)
    BY <1>3, <1>4, <1>7, ResizedPrefix DEF SamplesFor
  <2>2. QED
    BY <2>1 DEF Comparable
<1>14. \A r, s \in rows' : SameCall(r, s) => Comparable(r, s)
  <2>1. \A r, s \in rows : SameCall(r, s) => Comparable(r, s)
    BY <1>5 DEF RowsFit
  <2>2. \A s \in rows : SameCall(s, row) => SameCall(row, s)
    BY DEF SameCall
  <2>3. rows' = rows \cup {row}
    BY <1>2
  <2>4. QED
    BY <2>1, <2>2, <2>3, <1>12, <1>13
<1>15. \A u \in DOMAIN trials' : trials'[u] = "done" => \E r \in RowsOf(Current.does, Current.init)' : r.trial = u
  <2>1. rows' = rows \cup {row}
    BY <1>2
  <2>2. row \in RowsOf(Current.does, Current.init)' /\ row.trial = t
    BY <1>3, <1>4, <2>1 DEF RowsOf
  <2>3. \A r \in RowsOf(Current.does, Current.init) : r \in RowsOf(Current.does, Current.init)'
    BY <1>4, <2>1 DEF RowsOf
  <2>4. ASSUME NEW u \in TrialsOf(Current), u # t, trials[u] = "done"
        PROVE  \E r \in RowsOf(Current.does, Current.init)' : r.trial = u
    BY <1>4, <1>5, <2>3, <2>4 DEF RowsFit
  <2>5. QED
    BY <1>4, <2>2, <2>4
<1>16. RowsFit'
  <2>1. \A r \in rows' : RowFits(r)' /\ RowIsPast(r)'
    BY <1>2, <1>8, <1>10, <1>11
  <2>2. \A r \in rows' : (RowFits(r) /\ RowIsPast(r))'
    BY <2>1
  <2>3. QED
    BY <1>14, <1>15, <2>2 DEF RowsFit, SameCall, Comparable
<1>17. TrialsFit'
  <2>1. \A u \in DOMAIN trials' :
           /\ trials'[u] \in {"begin", "cloned", "seeded"} => Current.does \in {"doEmSamples", "doRandomEM"}
           /\ trials'[u] \in {"cloned", "seeded"} => Current.init \in {1, 3}
    BY <1>1, <1>4, <1>5 DEF TrialsFit
  <2>2. QED
    BY <1>1, <1>4, <1>5, <2>1 DEF TrialsFit
<1>18. GraphsFit' /\ EvidenceFits'
  BY <1>1, <1>4, <1>5 DEF GraphsFit, EvidenceFits
<1>19. ExperimentTyped' /\ FittingCalls(calls)'
  BY <1>1, <1>5 DEF Learn, ExperimentTyped
<1>20. QED
  BY <1>16, <1>17, <1>18, <1>19 DEF ExperimentInv

-----------------------------------------------------------------------------
(* The program with one thread.  In all but doEmSamples the results about    *)
(* sizes are those of calls that have returned.                             *)
LEMMA OtherCallsKeepSizes ==
    ASSUME ExperimentInv, version = "jni", calls # << >>, Current.does # "doEmSamples",
           UNCHANGED <<calls, version, tabsWritten>>,
           \A r \in rows' : r \in rows \/ r.does # "doEmSamples"
    PROVE  SizesFit'
<1>1. SizesFit /\ FittingCalls(calls) /\ Current' = Current /\ Current = calls[1]
  BY CurrentFacts DEF ExperimentInv, Current
<1>2. TakingTurns'
  BY <1>1 DEF TakingTurns
<1>3. ASSUME NEW r \in rows' PROVE SizeFits(r)' /\ SizeIsPast(r)'
  <2>1. CASE r.does # "doEmSamples"
    BY <2>1 DEF SizeFits, SizeIsPast
  <2>2. CASE r.does = "doEmSamples"
    <3>1. SizeFits(r) /\ SizeIsPast(r)
      BY <1>1, <1>3, <2>2 DEF SizesFit
    <3>2. \A p \in DOMAIN calls : ~(calls[p].does = r.does /\ calls[p].init = r.init)
      BY <1>1, <2>2, <3>1 DEF SizeIsPast
    <3>3. QED
      BY <3>1, <3>2 DEF SizeFits, SizeIsPast
  <2>3. QED
    BY <2>1, <2>2
<1>4. \A r \in rows' : (SizeFits(r) /\ SizeIsPast(r))'
  BY <1>3
<1>5. \A r, s \in rows' : r.does = "doEmSamples" /\ SameCall(r, s) /\ r.trial # s.trial => Independent(r, s)
  BY <1>1 DEF SizesFit, SameCall
<1>6. QED
  BY <1>2, <1>4, <1>5 DEF SizesFit, SameCall, Independent

LEMMA BeginRandomTrialKeepsInv ==
    ASSUME ExperimentInv, version = "jni", UNCHANGED version, NEW t \in DOMAIN trials, BeginRandomTrial(t)
    PROVE  ExperimentInv'
<1>1. /\ trials[t] = "begin" /\ trials' = [trials EXCEPT ![t] = "ready"] /\ DOMAIN slots' = DOMAIN slots
      /\ UNCHANGED <<calls, rows, evidence, fg, tabsWritten>> /\ Current.does = "doRandomEM"
  BY DEF BeginRandomTrial, JniTurn
<1>2. /\ Running /\ Running' /\ calls # << >> /\ Current' = Current /\ TrialsOf(Current)' = TrialsOf(Current)
      /\ DOMAIN trials = TrialsOf(Current) /\ DOMAIN slots = TrialsOf(Current)
      /\ trials' \in [TrialsOf(Current) -> Stages] /\ t \in TrialsOf(Current)
      /\ trials'[t] = "ready" /\ \A u \in TrialsOf(Current) : u # t => trials'[u] = trials[u]
  BY <1>1, AdvanceFacts DEF Stages
<1>3. TrialsFit'
  <2>1. TrialsFit
    BY DEF ExperimentInv
  <2>2. \A u \in DOMAIN trials' :
           /\ trials'[u] \in {"begin", "cloned", "seeded"} => Current.does \in {"doEmSamples", "doRandomEM"}
           /\ trials'[u] \in {"cloned", "seeded"} => Current.init \in {1, 3}
    BY <1>1, <1>2, <2>1 DEF TrialsFit
  <2>3. QED
    BY <1>1, <1>2, <2>1, <2>2 DEF TrialsFit
<1>4. SizesFit'
  BY <1>1, <1>2, OtherCallsKeepSizes
<1>5. ExperimentTyped' /\ FittingCalls(calls)'
  BY DEF BeginRandomTrial, Seeded, ExperimentInv, ExperimentTyped
<1>6. QED
  BY <1>3, <1>4, <1>5 DEF ExperimentInv

(* A trial of doEmSamples draws its samples, and takes numbers for its graph *)
(* that are larger than those of all before it.                             *)
LEMMA BeginSamplesKeepsInv ==
    ASSUME ExperimentInv, version = "jni", UNCHANGED version, NEW t \in DOMAIN trials, BeginSamples(t)
    PROVE  ExperimentInv'
<1> DEFINE init == IF Current.init = 2 THEN 0 ELSE Current.init
           changed == JniChanged(fg, init, t)
<1>1. /\ Current.does = "doEmSamples" /\ trials[t] = "begin"
      /\ \A u \in DOMAIN trials : u[1] < t[1] => trials[u] = "done"
      /\ slots' = [slots EXCEPT ![t] = changed.fg]
      /\ generator' = [changed.generator EXCEPT !.drawn = @ + 1]
      /\ evidence' = Samples(tabsWritten + 1, t[1]).samples
      /\ tabsWritten' = tabsWritten + 1 /\ UNCHANGED <<now, fg, rows>>
  BY DEF BeginSamples, JniTurn, SamplesOf, JniGenerated
<1>2. Running
  BY DEF Running
<1>3. /\ TrialsFit /\ SizesFit /\ FittingCalls(calls) /\ ExperimentTyped /\ calls # << >>
      /\ DOMAIN trials = TrialsOf(Current)
  BY <1>2 DEF ExperimentInv, TrialsFit
<1>4. Current.init \in 0 .. 3 /\ 1 \in DOMAIN calls /\ Current = calls[1] /\ fg.init = Current.init
  BY <1>1, <1>2, <1>3, CurrentFacts DEF TrialsFit
<1>5. generator \in [seed : Nat, drawn : Nat] /\ now \in Nat /\ tabsWritten \in Nat
  BY <1>3 DEF ExperimentTyped
<1>6. /\ changed.fg.init = Current.init
      /\ generator' \in [seed : Nat, drawn : Nat]
      /\ Current.init = 1 => /\ changed.fg.seed = generator.seed /\ changed.fg.drawn = generator.drawn
                             /\ generator'.seed = generator.seed /\ generator'.drawn > generator.drawn
  <2>1. CASE init = 3
    <3>1. changed.fg = Changed(fg, 3, t, Seeded) /\ changed.generator = [Seeded EXCEPT !.drawn = @ + 1]
      BY <2>1 DEF JniChanged
    <3>2. changed.generator = [seed |-> now, drawn |-> 1]
      BY <3>1 DEF Seeded
    <3>3. generator' = [seed |-> now, drawn |-> 2]
      BY <1>1, <3>2
    <3>4. QED
      BY <1>4, <1>5, <2>1, <3>1, <3>3, ChangedFacts
  <2>2. CASE init = 1
    <3>1. changed.fg = Changed(fg, 1, t, generator) /\ changed.generator = [generator EXCEPT !.drawn = @ + 1]
      BY <2>2 DEF JniChanged
    <3>2. generator' = [generator EXCEPT !.drawn = @ + 1 + 1]
      BY <1>1, <1>5, <3>1
    <3>3. QED
      BY <1>4, <1>5, <2>2, <3>1, <3>2, ChangedFacts
  <2>3. CASE init = 0
    <3>1. changed.fg = fg /\ changed.generator = [generator EXCEPT !.drawn = @ + 0]
      BY <2>3 DEF JniChanged, Changed
    <3>2. generator' = [generator EXCEPT !.drawn = @ + 0 + 1]
      BY <1>1, <1>5, <3>1
    <3>3. QED
      BY <1>4, <1>5, <2>3, <3>1, <3>2
  <2>4. init = 3 \/ init = 1 \/ init = 0
    BY <1>4
  <2>5. QED
    BY <2>1, <2>2, <2>3, <2>4
<1> HIDE DEF changed, init
<1>7. ExperimentTyped'
  <2>1. tabs' = [p \in TabPlaces |-> tabs'[p]]
    BY <1>3 DEF BeginSamples, SamplesOf, ExperimentTyped
  <2>2. QED
    BY <1>1, <1>3, <1>5, <1>6, <2>1 DEF ExperimentTyped
<1>8. CASE Current.command = "no paths"
  <2>1. calls' = << >> /\ trials' = << >>
    BY <1>8 DEF BeginSamples
  <2>2. QED
    BY <1>1, <1>3, <1>5, <1>7, <2>1, CallReturns
<1>9. CASE Current.command # "no paths"
  <2>1. calls' = calls /\ trials' = [trials EXCEPT ![t] = "ready"]
    BY <1>9 DEF BeginSamples
  <2>2. /\ Running' /\ Current' = Current /\ TrialsOf(Current)' = TrialsOf(Current)
        /\ DOMAIN trials = TrialsOf(Current) /\ DOMAIN slots = TrialsOf(Current)
        /\ trials' \in [TrialsOf(Current) -> Stages] /\ t \in TrialsOf(Current)
        /\ trials'[t] = "ready" /\ \A u \in TrialsOf(Current) : u # t => trials'[u] = trials[u]
    BY <2>1, AdvanceFacts DEF Stages
  <2>3. slots'[t] = changed.fg /\ DOMAIN slots' = TrialsOf(Current)
    BY <1>1, <2>2
  <2>4. TrialsFit'
    <3>1. \A u \in DOMAIN trials' :
             /\ trials'[u] \in {"begin", "cloned", "seeded"} => Current.does \in {"doEmSamples", "doRandomEM"}
             /\ trials'[u] \in {"cloned", "seeded"} => Current.init \in {1, 3}
      BY <1>1, <1>2, <1>3, <2>2 DEF TrialsFit
    <3>2. QED
      BY <1>1, <1>2, <1>3, <2>1, <2>2, <2>3, <3>1 DEF TrialsFit
  <2>5. \A u \in TrialsOf(Current) : u[1] \in Int /\ (u # t => u[1] # t[1])
    <3>1. TrialsOf(Current) = SampleSizes \X {1}
      BY <1>1 DEF TrialsOf
    <3>2. \A n \in SampleSizes : n \in Nat
      BY SizesAreNumbers
    <3>3. QED
      BY <2>2, <3>1, <3>2
  <2>6. \A u \in TrialsOf(Current) : u[1] > t[1] => trials[u] = "begin"
    BY <1>1, <1>2, <1>3, <2>2 DEF SizesFit, TakingTurns
  <2>7. \A u \in TrialsOf(Current) : u # t => trials[u] # "ready"
    <3>1. ASSUME NEW u \in TrialsOf(Current), u # t PROVE trials[u] # "ready"
      <4>1. u[1] < t[1] \/ u[1] > t[1]
        BY <2>2, <2>5, <3>1
      <4>2. QED
        BY <1>1, <2>2, <2>6, <4>1
    <3>2. QED
      BY <3>1
  <2>8. TakingTurns'
    <3>1. ASSUME NEW v \in TrialsOf(Current), NEW u \in TrialsOf(Current), u[1] < v[1], trials'[v] # "begin"
          PROVE  trials'[u] = "done"
      <4>1. CASE v = t
        BY <1>1, <2>2, <2>5, <3>1, <4>1
      <4>2. CASE v # t
        <5>1. v[1] < t[1]
          BY <2>2, <2>5, <2>6, <3>1, <4>2
        <5>2. u[1] < t[1] /\ u # t
          BY <2>2, <2>5, <3>1, <5>1
        <5>3. QED
          BY <1>1, <2>2, <5>2
      <4>3. QED
        BY <4>1, <4>2
    <3>2. ASSUME NEW v \in TrialsOf(Current), trials'[v] = "ready" PROVE v = t
      BY <2>2, <2>7, <3>2
    <3>3. /\ evidence' = Samples(tabsWritten, t[1])'.samples
          /\ slots'[t].init = Current.init
          /\ Current.init = 1 =>
                slots'[t].seed = generator'.seed /\ slots'[t].drawn < generator'.drawn /\ slots'[t].drawn \in Nat
      BY <1>1, <1>5, <1>6, <2>3 DEF Samples
    <3>4. QED
      BY <2>2, <3>1, <3>2, <3>3 DEF TakingTurns, Samples
  <2>9. ASSUME NEW r \in rows PROVE SizeFits(r)' /\ SizeIsPast(r)'
    <3>1. SizeFits(r) /\ SizeIsPast(r)
      BY <1>3, <2>9 DEF SizesFit
    <3>2. SizeFits(r)'
      BY <1>1, <1>5, <3>1 DEF SizeFits
    <3>3. ASSUME r.does = "doEmSamples", NEW p \in DOMAIN calls, calls[p].does = r.does, calls[p].init = r.init
          PROVE  /\ p = 1 /\ r.trial \in DOMAIN trials' /\ trials'[r.trial] = "done"
                 /\ r.init = 1 => /\ r.start.seed = generator'.seed /\ r.start.drawn \in Nat /\ r.start.drawn < generator'.drawn
                                  /\ r.start.drawn < slots'[t].drawn /\ r.start.seed = slots'[t].seed
                 /\ \A k \in DOMAIN r.samples : r.samples[k].written < tabsWritten'
      <4>1. /\ p = 1 /\ r.trial \in DOMAIN trials /\ trials[r.trial] = "done"
            /\ r.init = 1 => r.start.seed = generator.seed /\ r.start.drawn \in Nat /\ r.start.drawn < generator.drawn
        BY <3>1, <3>3 DEF SizeIsPast
      <4>2. r.trial # t /\ r.init = Current.init
        BY <1>1, <1>4, <3>3, <4>1
      <4>3. \A k \in DOMAIN r.samples : r.samples[k].written \in 0 .. tabsWritten
        BY <3>1, <3>3 DEF SizeFits
      <4>4. \A k \in DOMAIN r.samples : r.samples[k].written < tabsWritten'
        BY <1>1, <1>5, <4>3
      <4>5. generator.drawn \in Nat /\ generator'.drawn \in Nat
        BY <1>5, <1>6
      <4>6. QED
        BY <1>6, <2>2, <2>3, <4>1, <4>2, <4>4, <4>5
    <3>4. \A u \in DOMAIN trials' : trials'[u] = "ready" => u = t
      BY <2>2, <2>7
    <3>5. SizeIsPast(r)'
      BY <2>1, <2>2, <3>3, <3>4 DEF SizeIsPast
    <3>6. QED
      BY <3>2, <3>5
  <2>10. SizesFit'
    <3>1. \A r \in rows' : (SizeFits(r) /\ SizeIsPast(r))'
      BY <1>1, <2>9
    <3>2. QED
      BY <1>1, <1>3, <2>8, <3>1 DEF SizesFit, SameCall, Independent
  <2>11. QED
    BY <1>3, <1>7, <2>1, <2>4, <2>10 DEF ExperimentInv
<1>10. QED
  BY <1>8, <1>9

LEMMA JniLearnKeepsInv ==
    ASSUME ExperimentInv, version = "jni", UNCHANGED version, NEW t \in DOMAIN trials, JniLearn(t)
    PROVE  ExperimentInv'
<1>1. /\ trials[t] = "ready" /\ trials' = [trials EXCEPT ![t] = "done"]
      /\ UNCHANGED <<calls, tabsWritten, generator, evidence, fg, slots>>
  BY DEF JniLearn
<1>2. PICK row : rows' = rows \cup {row} /\ \E iters : row = JniResult(t, iters)
  BY DEF JniLearn
<1>3. /\ row.does = Current.does /\ row.init = Current.init /\ row.trial = t /\ row.start = slots[t]
      /\ row.samples = evidence
  BY <1>2 DEF JniResult
<1>4. /\ Running /\ Running' /\ calls # << >> /\ Current' = Current /\ TrialsOf(Current)' = TrialsOf(Current)
      /\ DOMAIN trials = TrialsOf(Current) /\ DOMAIN slots = TrialsOf(Current)
      /\ trials' \in [TrialsOf(Current) -> Stages] /\ t \in TrialsOf(Current)
      /\ trials'[t] = "done" /\ \A u \in TrialsOf(Current) : u # t => trials'[u] = trials[u]
  BY <1>1, AdvanceFacts DEF Stages
<1>5. TrialsFit /\ SizesFit /\ FittingCalls(calls) /\ ExperimentTyped /\ tabsWritten \in Nat
  BY DEF ExperimentInv, ExperimentTyped
<1>6. TrialsFit'
  <2>1. \A u \in DOMAIN trials' :
           /\ trials'[u] \in {"begin", "cloned", "seeded"} => Current.does \in {"doEmSamples", "doRandomEM"}
           /\ trials'[u] \in {"cloned", "seeded"} => Current.init \in {1, 3}
    BY <1>1, <1>4, <1>5 DEF TrialsFit
  <2>2. QED
    BY <1>1, <1>4, <1>5, <2>1 DEF TrialsFit
<1>7. ExperimentTyped' /\ FittingCalls(calls)'
  BY <1>1, <1>5 DEF JniLearn, ExperimentTyped
<1>8. CASE Current.does # "doEmSamples"
  <2>1. SizesFit'
    BY <1>1, <1>2, <1>3, <1>4, <1>8, OtherCallsKeepSizes
  <2>2. QED
    BY <1>6, <1>7, <2>1 DEF ExperimentInv
<1>9. CASE Current.does = "doEmSamples"
  <2>1. \A u \in TrialsOf(Current) : u[1] \in Nat /\ (u # t => u[1] # t[1])
    <3>1. TrialsOf(Current) = SampleSizes \X {1}
      BY <1>9 DEF TrialsOf
    <3>2. \A n \in SampleSizes : n \in Nat
      BY SizesAreNumbers
    <3>3. QED
      BY <1>4, <3>1, <3>2
  <2>2. /\ \A u, v \in TrialsOf(Current) : u[1] < v[1] /\ trials[v] # "begin" => trials[u] = "done"
        /\ evidence = Samples(tabsWritten, t[1]).samples
        /\ slots[t].init = Current.init
        /\ Current.init = 1 => slots[t].seed = generator.seed /\ slots[t].drawn < generator.drawn /\ slots[t].drawn \in Nat
    BY <1>1, <1>4, <1>5, <1>9 DEF SizesFit, TakingTurns
  <2>3. \A u \in TrialsOf(Current) : trials'[u] # "ready"
    <3>1. ASSUME NEW u \in TrialsOf(Current), u # t PROVE trials[u] # "ready"
      <4>1. u[1] < t[1] \/ t[1] < u[1]
        BY <1>4, <2>1, <3>1
      <4>2. QED
        BY <1>1, <1>4, <2>2, <4>1
    <3>2. QED
      BY <1>4, <3>1
  <2>4. TakingTurns'
    <3>1. \A u, v \in TrialsOf(Current) : u[1] < v[1] /\ trials'[v] # "begin" => trials'[u] = "done"
      BY <1>1, <1>4, <2>2
    <3>2. QED
      BY <1>4, <2>3, <3>1 DEF TakingTurns
  <2>5. /\ Len(row.samples) = t[1] /\ DOMAIN row.samples = 1 .. t[1]
        /\ \A k \in DOMAIN row.samples : row.samples[k].written = tabsWritten
    BY <1>3, <1>4, <2>1, <2>2 DEF Samples
  <2>6. SizeFits(row)'
    BY <1>1, <1>3, <1>5, <2>2, <2>5 DEF SizeFits
  <2>7. \A p \in DOMAIN calls : calls[p].does = row.does /\ calls[p].init = row.init => p = 1
    <3>1. 1 \in DOMAIN calls /\ Current = calls[1]
      BY <1>4, CurrentFacts
    <3>2. QED
      BY <1>3, <1>5, <3>1 DEF FittingCalls
  <2>8. SizeIsPast(row)'
    <3>1. row.trial \in DOMAIN trials' /\ trials'[row.trial] = "done" /\ DOMAIN trials' = TrialsOf(Current)
      BY <1>3, <1>4
    <3>2. row.init = 1 => row.start.seed = generator'.seed /\ row.start.drawn \in Nat /\ row.start.drawn < generator'.drawn
      BY <1>1, <1>3, <2>2
    <3>3. QED
      BY <1>1, <1>4, <2>3, <2>7, <3>1, <3>2 DEF SizeIsPast
  <2>9. ASSUME NEW r \in rows PROVE SizeFits(r)' /\ SizeIsPast(r)'
    <3>1. SizeFits(r) /\ SizeIsPast(r)
      BY <1>5, <2>9 DEF SizesFit
    <3>2. SizeFits(r)'
      BY <1>1, <3>1 DEF SizeFits
    <3>3. SizeIsPast(r)'
      BY <1>1, <1>4, <2>3, <3>1 DEF SizeIsPast
    <3>4. QED
      BY <3>2, <3>3
  <2>10. ASSUME NEW s \in rows, SameCall(row, s), s.trial # t PROVE Independent(row, s) /\ Independent(s, row)
    <3>1. SizeFits(s) /\ SizeIsPast(s)
      BY <1>5, <2>10 DEF SizesFit
    <3>2. 1 \in DOMAIN calls /\ calls[1].does = s.does /\ calls[1].init = s.init /\ s.does = "doEmSamples"
      BY <1>3, <1>4, <1>9, <2>10, CurrentFacts DEF SameCall
    <3>3. /\ \A k \in DOMAIN s.samples : s.samples[k].written < tabsWritten
          /\ s.init = 1 => s.start.drawn < slots[t].drawn
          /\ \A k \in DOMAIN s.samples : s.samples[k].written \in Nat
          /\ s.init = 1 => s.start.drawn \in Nat
      BY <1>1, <1>4, <3>1, <3>2 DEF SizeIsPast, SizeFits
    <3>4. ToSet(row.samples) \cap ToSet(s.samples) = {}
      <4>1. ASSUME NEW x \in ToSet(row.samples), x \in ToSet(s.samples) PROVE FALSE
        <5>1. x.written = tabsWritten
          BY <2>5, <4>1 DEF ToSet
        <5>2. x.written < tabsWritten /\ x.written \in Nat
          BY <3>3, <4>1 DEF ToSet
        <5>3. QED
          BY <1>5, <5>1, <5>2
      <4>2. QED
        BY <4>1
    <3>5. row.init = 1 => row.start.drawn # s.start.drawn
      BY <1>3, <2>2, <2>10, <3>3 DEF SameCall
    <3>6. row.init = 1 <=> s.init = 1
      BY <2>10 DEF SameCall
    <3>7. ToSet(s.samples) \cap ToSet(row.samples) = {}
      BY <3>4
    <3>8. QED
      BY <3>4, <3>5, <3>6, <3>7 DEF Independent
  <2>11. \A r, s \in rows' : r.does = "doEmSamples" /\ SameCall(r, s) /\ r.trial # s.trial => Independent(r, s)
    <3>1. \A r, s \in rows : r.does = "doEmSamples" /\ SameCall(r, s) /\ r.trial # s.trial => Independent(r, s)
      BY <1>5 DEF SizesFit
    <3>2. \A s \in rows : SameCall(s, row) => SameCall(row, s)
      BY DEF SameCall
    <3>3. QED
      BY <1>2, <1>3, <2>10, <3>1, <3>2
  <2>12. SizesFit'
    <3>1. \A r \in rows' : (SizeFits(r) /\ SizeIsPast(r))'
      BY <1>2, <2>6, <2>8, <2>9
    <3>2. QED
      BY <2>4, <2>11, <3>1 DEF SizesFit, SameCall, Independent
  <2>13. QED
    BY <1>6, <1>7, <2>12 DEF ExperimentInv
<1>10. QED
  BY <1>8, <1>9

-----------------------------------------------------------------------------
LEMMA ExperimentStep == ExperimentInv /\ [ExperimentNext]_experimentVars => ExperimentInv'
<1> SUFFICES ASSUME ExperimentInv, [ExperimentNext]_experimentVars PROVE ExperimentInv'
  OBVIOUS
<1>1. CASE version = "param_sharing" /\ ParamNext /\ UNCHANGED version
  <2>1. version # "jni" /\ UNCHANGED version
    BY <1>1
  <2>2. CASE \E t \in DOMAIN trials : BeginTrial(t) \/ Seed(t) \/ Randomize(t) \/ Learn(t)
    BY <2>1, <2>2, BeginTrialKeepsInv, SeedKeepsInv, RandomizeKeepsInv, LearnKeepsInv
  <2>3. CASE GenerateTab \/ Throw \/ EndTrials \/ Tick
    BY <2>1, <2>3, GenerateTabKeepsInv, ThrowKeepsInv, EndTrialsKeepsInv, TickKeepsInv
  <2>4. CASE StartEm \/ StartRandomEM \/ StartSamples \/ StartComparison
    BY <2>1, <2>4, StartEmKeepsInv, StartRandomEMKeepsInv, StartSamplesKeepsInv, StartComparisonKeepsInv
  <2>5. QED
    BY <1>1, <2>2, <2>3, <2>4 DEF ParamNext
<1>2. CASE version = "jni" /\ JniNext /\ UNCHANGED version
  <2>1. version = "jni" /\ UNCHANGED version
    BY <1>2
  <2>2. CASE \E t \in DOMAIN trials : BeginRandomTrial(t) \/ BeginSamples(t) \/ JniLearn(t)
    BY <2>1, <2>2, BeginRandomTrialKeepsInv, BeginSamplesKeepsInv, JniLearnKeepsInv
  <2>3. CASE GenerateTab \/ Throw \/ EndTrials \/ Tick
    BY <2>1, <2>3, GenerateTabKeepsInv, ThrowKeepsInv, EndTrialsKeepsInv, TickKeepsInv
  <2>4. CASE StartEm \/ StartRandomEM \/ JniStartSamples \/ StartComparison
    BY <2>1, <2>4, StartEmKeepsInv, StartRandomEMKeepsInv, JniStartSamplesKeepsInv, StartComparisonKeepsInv
  <2>5. QED
    BY <1>2, <2>2, <2>3, <2>4 DEF JniNext
<1>3. CASE UNCHANGED experimentVars
  <2>1. ExperimentTyped' /\ FittingCalls(calls)'
    BY <1>3 DEF experimentVars, ExperimentInv, ExperimentTyped
  <2>2. TrialsFit'
    BY <1>3 DEF experimentVars, ExperimentInv, TrialsFit, Running, Current, TrialsOf
  <2>3. ASSUME version = "jni" PROVE SizesFit'
    <3>1. SizesFit
      BY <2>3 DEF ExperimentInv
    <3>2. TakingTurns'
      BY <1>3, <3>1 DEF experimentVars, SizesFit, TakingTurns, Running, Current
    <3>3. ASSUME NEW r \in rows PROVE SizeFits(r)' /\ SizeIsPast(r)'
      BY <1>3, <3>1 DEF experimentVars, SizesFit, SizeFits, SizeIsPast, Running
    <3>4. QED
      BY <1>3, <3>1, <3>2, <3>3 DEF experimentVars, SizesFit, SameCall, Independent
  <2>4. version # "jni" => GraphsFit' /\ EvidenceFits' /\ RowsFit'
    BY <1>3 DEF experimentVars, ExperimentInv, GraphsFit, EvidenceFits, RowsFit, RowFits, RowIsPast, SamplesFor,
                RowsOf, SameCall, Comparable, Running, Current
  <2>5. QED
    BY <1>3, <2>1, <2>2, <2>3, <2>4 DEF ExperimentInv, experimentVars
<1>4. QED
  BY <1>1, <1>2, <1>3 DEF ExperimentNext

LEMMA ResultsFollow == ExperimentInv => TrialsAreComparable
<1> SUFFICES ASSUME ExperimentInv PROVE TrialsAreComparable
  OBVIOUS
<1>1. ASSUME version = "jni" PROVE SizesAreIndependent
  <2>1. SizesFit
    BY <1>1 DEF ExperimentInv
  <2>2. ASSUME NEW r \in rows, r.does = "doEmSamples"
        PROVE  /\ Len(r.samples) = r.trial[1] /\ r.start.init = r.init
               /\ \A s \in RowsOf("doEmSamples", r.init) : s.trial # r.trial => Independent(r, s)
    <3>1. SizeFits(r)
      BY <2>1, <2>2 DEF SizesFit
    <3>2. QED
      BY <2>1, <2>2, <3>1 DEF SizesFit, SizeFits, RowsOf, SameCall
  <2>3. QED
    BY <2>2 DEF SizesAreIndependent, RowsOf, Independent
<1>2. ASSUME version # "jni" PROVE ResultsMatch
  <2>1. RowsFit
    BY <1>2 DEF ExperimentInv
  <2>2. Cells \in Nat \ {0}
    <3>1. InitSamples \in SampleSizes /\ 1 \in 1 .. Trials
      <4>1. InitSamples \in Nat /\ MaxSamples - InitSamples \in Nat /\ SamplesDelta \in Nat \ {0} /\ Trials \in Nat \ {0}
        BY ExperimentAssumption
      <4>2. (MaxSamples - InitSamples) \div SamplesDelta \in Nat
        BY <4>1
      <4>3. InitSamples = InitSamples + 0 * SamplesDelta /\ 0 \in 0 .. (MaxSamples - InitSamples) \div SamplesDelta
        BY <4>1, <4>2
      <4>4. InitSamples \in SampleSizes
        BY <4>3 DEF SampleSizes
      <4>5. QED
        BY <4>1, <4>4
    <3>2. Cell(<<InitSamples, 1>>) \in 0 .. Cells - 1
      BY <3>1, CellsAreDistinct
    <3>3. Cells \in Int
      <4>1. MaxSamples - InitSamples \in Nat /\ SamplesDelta \in Nat \ {0} /\ Trials \in Nat
        BY ExperimentAssumption
      <4>2. (MaxSamples - InitSamples) \div SamplesDelta \in Nat
        BY <4>1
      <4>3. QED
        BY <4>1, <4>2 DEF Cells
    <3>4. QED
      BY <3>2, <3>3
  <2>3. ASSUME NEW r \in rows
        PROVE  /\ r.start.init = r.init
               /\ r.does = "doRandomEM" => r.start.by = r.trial
               /\ r.does = "doEmSamples" /\ r.init \in {1, 3} => r.start.by = r.trial
               /\ r.does \in {"doEmSamples", "compareEM"} => Len(r.samples) = r.trial[1]
               /\ r.cell \in 0 .. Cells - 1
    <3>1. RowFits(r)
      BY <2>1, <2>3 DEF RowsFit
    <3>2. r.cell \in 0 .. Cells - 1
      BY <2>2, <3>1, CellsAreDistinct DEF RowFits
    <3>3. QED
      BY <3>1, <3>2 DEF RowFits
  <2>4. ASSUME NEW r \in rows, NEW s \in rows, r.does = s.does, r.init = s.init
        PROVE  /\ r.trial = s.trial => r = s
               /\ r.does = "doEmSamples" =>
                     (r.cell = s.cell <=> r.trial = s.trial) /\ (IsPrefix(r.samples, s.samples) \/ IsPrefix(s.samples, r.samples))
               /\ r.does = "compareEM" /\ r.trial[1] = s.trial[1] => r.samples = s.samples /\ r.start = s.start
    <3>1. RowFits(r) /\ RowFits(s) /\ Comparable(r, s)
      BY <2>1, <2>4 DEF RowsFit, SameCall
    <3>2. r.does = "doEmSamples" => (r.cell = s.cell <=> r.trial = s.trial)
      BY <2>4, <3>1, CellsAreDistinct DEF RowFits
    <3>3. QED
      BY <2>4, <3>1, <3>2 DEF RowFits, Comparable
  <2>5. QED
    BY <2>1, <2>3, <2>4 DEF ResultsMatch, RowsFit, Running
<1>3. QED
  BY <1>1, <1>2 DEF TrialsAreComparable

(* For any arguments, files, numbers of trials and of samples, and however   *)
(* threads and the clock interleave, the results of param_sharing can be      *)
(* compared with each other, and those that daicontrol has for different     *)
(* sizes of samples are independent.                                        *)
THEOREM TrialsStayComparable == ExperimentSpec => []TrialsAreComparable
<1>1. ExperimentInit => ExperimentInv
  BY ExperimentStarts
<1>2. ExperimentInv /\ [ExperimentNext]_experimentVars => ExperimentInv'
  BY ExperimentStep
<1>3. ExperimentInv => TrialsAreComparable
  BY ResultsFollow
<1>4. QED
  BY <1>1, <1>2, <1>3, PTL DEF ExperimentSpec

(***************************************************************************)
(* The first prototype: main, its mappers and its reducer in one process.    *)
(***************************************************************************)

(* Its shares are disjoint, and equally long but for the last.              *)
SharesFit ==
    /\ DOMAIN shares = 1 .. NumMappers
    /\ \A i \in DOMAIN shares : shares[i] \in Seq(Nat)
    /\ \A i, k \in DOMAIN shares : i # k => ToSet(shares[i]) \cap ToSet(shares[k]) = {}
    /\ \A i \in DOMAIN shares : Len(shares[i]) - Len(shares[1]) \in IF i = NumMappers THEN {-1, 0} ELSE {0}

(* How often each sample is counted when those of S are counted once.       *)
OnceIn(S) == [s \in Sample |-> IF s \in S THEN 1 ELSE 0]

(* A maximisation step after counting.                                      *)
Learned(f) == [prior |-> 1, seen |-> f, initial |-> 1]

(* The samples of the first k inputs.                                       *)
Shared(k) == UNION {ToSet(shares[i]) : i \in 1 .. k}

(* All n maximisation steps, after counting each sample of S once.          *)
LearnedOnce(n, S) == [j \in 1 .. n |-> Learned(OnceIn(S))]

(* What the reducer holds after k of its inputs: the likelihoods but for the *)
(* first have been added n times.                                          *)
Reduced(n, k) ==
    [msteps |-> LearnedOnce(n, Shared(k)),
     likelihood |-> [s \in Sample |-> IF s \in ToSet(shares[1]) THEN 1 ELSE IF s \in Shared(k) THEN n ELSE 0]]

(* Every round so far has counted each dealt sample once, and each test all *)
(* samples; the inputs that wait for the reducer are those of the first     *)
(* mappers.                                                                 *)
PipesInv ==
    stage # "none" =>
        /\ stage \in {"map", "test", "passed", "failed"}
        /\ SharesFit
        /\ dat = [iter |-> dat.iter, likelihood |-> dat.likelihood, fg |-> dat.fg, msteps |-> dat.msteps]
        /\ dat.iter \in Nat /\ dat.msteps \in Nat /\ enough \in Nat
        /\ emitted = [k \in 1 .. Len(emitted) |-> mapper(dat.msteps, shares[k])]
        /\ Len(emitted) \in 0 .. NumMappers
        /\ dat.fg \in Seq({LearnedOnce(dat.msteps, DealtSamples)})
        /\ dat.msteps = 1 /\ dat.iter > 0 => dat.likelihood = OnceIn(DealtSamples)
        /\ dat.iter > 0 => stage # "failed"
        /\ stage \in {"test", "passed"} => dat.iter > 0
        /\ tests = [serial \in BOOLEAN |-> [fg |-> tests[serial].fg, msteps |-> [j \in 1 .. dat.msteps |-> Initial]]]
        /\ \A serial \in BOOLEAN : tests[serial].fg \in Seq({LearnedOnce(dat.msteps, ToSet(AllSamples))})

(* However many lines there are.                                           *)
LEMMA DealtFits ==
    ASSUME NEW lines \in TabLines, shares = Dealt(lines)
    PROVE  SharesFit
<1> DEFINE each == (lines - 2) \div NumMappers
           left(i) == lines - 3 - (i - 1) * each
           number(i) == IF each <= left(i) THEN each ELSE left(i)
<1>1. /\ lines \in Nat /\ lines >= 2 /\ NumMappers \in Nat /\ NumMappers >= 1
  BY PrototypeAssumption
<1>2. each \in Nat /\ NumMappers * each <= lines - 2
  BY <1>1
<1>3. /\ DOMAIN shares = 1 .. NumMappers
      /\ \A i \in 1 .. NumMappers : shares[i] = [k \in 1 .. number(i) |-> 1 + (i - 1) * each + k]
  BY DEF Dealt
<1> HIDE DEF each
<1>4. \A i \in 1 .. NumMappers :
         /\ (i - 1) * each \in Nat
         /\ i < NumMappers => number(i) = each \/ each = 0
         /\ i = NumMappers => number(i) \in {each - 1, each}
         /\ number(i) \in Nat \cup {-1} /\ number(i) <= each
         /\ number(i) = -1 => each = 0
  <2> SUFFICES ASSUME NEW i \in 1 .. NumMappers
               PROVE  /\ (i - 1) * each \in Nat
                      /\ i < NumMappers => number(i) = each \/ each = 0
                      /\ i = NumMappers => number(i) \in {each - 1, each}
                      /\ number(i) \in Nat \cup {-1} /\ number(i) <= each
                      /\ number(i) = -1 => each = 0
    OBVIOUS
  <2>1. (i - 1) * each \in Nat /\ (i - 1) * each + each <= NumMappers * each
    <3>1. i - 1 \in Nat /\ i - 1 < NumMappers
      BY <1>1
    <3> QED BY <1>1, <1>2, <3>1, ProductsOfSums
  <2>2. i < NumMappers => (i - 1) * each + each + each <= NumMappers * each
    <3>1. i \in Nat /\ (i - 1) * each + each = i * each
      BY <1>2
    <3>2. i < NumMappers => i * each + each <= NumMappers * each
      BY <1>1, <1>2, <3>1, ProductsOfSums
    <3> QED BY <3>1, <3>2
  <2>3. PICK a, b : a = (i - 1) * each /\ b = NumMappers * each
    OBVIOUS
  <2>4. a \in Nat /\ b \in Int /\ b <= lines - 2 /\ a + each <= b /\ (i < NumMappers => a + each + each <= b)
    BY <1>1, <1>2, <2>1, <2>2, <2>3
  <2>5. left(i) = lines - 3 - a
    BY <2>3
  <2> HIDE DEF left
  <2>6. number(i) = IF each <= left(i) THEN each ELSE left(i)
    OBVIOUS
  <2> HIDE DEF number
  <2>7. PICK l, m : l = left(i) /\ m = number(i)
    OBVIOUS
  <2>8. l = lines - 3 - a /\ m = IF each <= l THEN each ELSE l
    BY <2>5, <2>6, <2>7
  <2>9. l \in Int /\ each \in Nat /\ lines \in Nat /\ lines >= 2
    BY <1>1, <1>2, <2>4, <2>8
  <2>10. each - 1 <= l /\ (i < NumMappers => each <= l \/ each = 0)
    BY <1>1, <2>4, <2>8, <2>9
  <2>11. m \in {each - 1, each} /\ (i < NumMappers => m = each \/ each = 0) /\ m <= each /\ m >= -1
    BY <2>8, <2>9, <2>10
  <2>12. m \in Nat \cup {-1} /\ (m = -1 => each = 0)
    BY <2>9, <2>11
  <2>13. (i - 1) * each \in Nat
    BY <2>3, <2>4
  <2> HIDE DEF number, left
  <2> QED BY <2>7, <2>11, <2>12, <2>13
<1> HIDE DEF left, number
<1>5. \A i \in 1 .. NumMappers : shares[i] \in Seq(Nat) /\ Len(shares[i]) = IF number(i) = -1 THEN 0 ELSE number(i)
  <2> SUFFICES ASSUME NEW i \in 1 .. NumMappers
               PROVE  shares[i] \in Seq(Nat) /\ Len(shares[i]) = IF number(i) = -1 THEN 0 ELSE number(i)
    OBVIOUS
  <2>1. PICK a \in Nat : a = (i - 1) * each
    BY <1>4
  <2>2. shares[i] = [k \in 1 .. number(i) |-> 1 + a + k]
    BY <1>3, <2>1
  <2>3. CASE number(i) = -1
    <3>1. shares[i] = << >>
      BY <2>2, <2>3
    <3> QED BY <2>3, <3>1
  <2>4. CASE number(i) \in Nat
    BY <2>2, <2>4
  <2> QED BY <1>4, <2>3, <2>4
<1>6. \A i \in 1 .. NumMappers : \A s \in ToSet(shares[i]) :
         (i - 1) * each + 2 <= s /\ s <= (i - 1) * each + 1 + each /\ s \in Nat
  <2> SUFFICES ASSUME NEW i \in 1 .. NumMappers, NEW s \in ToSet(shares[i])
               PROVE  (i - 1) * each + 2 <= s /\ s <= (i - 1) * each + 1 + each /\ s \in Nat
    OBVIOUS
  <2>1. PICK a \in Nat : a = (i - 1) * each
    BY <1>4
  <2>2. shares[i] = [k \in 1 .. number(i) |-> 1 + a + k]
    BY <1>3, <2>1
  <2>3. PICK k \in 1 .. number(i) : s = 1 + a + k
    BY <2>2 DEF ToSet
  <2>4. number(i) <= each /\ number(i) \in Int /\ each \in Nat
    BY <1>2, <1>4
  <2> QED BY <2>1, <2>3, <2>4
<1>7. ASSUME NEW i \in 1 .. NumMappers, NEW k \in 1 .. NumMappers, i < k
      PROVE  ToSet(shares[i]) \cap ToSet(shares[k]) = {}
  <2>1. (i - 1) * each + each <= (k - 1) * each
    <3>1. i - 1 \in Nat /\ k - 1 \in Nat /\ i - 1 < k - 1
      BY <1>7
    <3> QED BY <1>2, <3>1, ProductsOfSums
  <2>2. PICK a \in Nat, b \in Nat : a = (i - 1) * each /\ b = (k - 1) * each
    BY <1>4
  <2>3. ASSUME NEW s \in ToSet(shares[i]), s \in ToSet(shares[k]) PROVE FALSE
    <3>1. s \in Nat /\ s <= a + 1 + each /\ b + 2 <= s
      BY <1>6, <2>2, <2>3
    <3>2. a + each <= b
      BY <2>1, <2>2
    <3> QED BY <1>2, <2>2, <3>1, <3>2
  <2> QED BY <2>3
<1>8. \A i, k \in DOMAIN shares : i # k => ToSet(shares[i]) \cap ToSet(shares[k]) = {}
  <2> SUFFICES ASSUME NEW i \in 1 .. NumMappers, NEW k \in 1 .. NumMappers, i # k
               PROVE  ToSet(shares[i]) \cap ToSet(shares[k]) = {}
    BY <1>3
  <2>1. i < k \/ k < i
    OBVIOUS
  <2> QED BY <2>1, <1>7
<1>9. \A i \in DOMAIN shares : Len(shares[i]) - Len(shares[1]) \in IF i = NumMappers THEN {-1, 0} ELSE {0}
  <2> SUFFICES ASSUME NEW i \in 1 .. NumMappers
               PROVE  Len(shares[i]) - Len(shares[1]) \in IF i = NumMappers THEN {-1, 0} ELSE {0}
    BY <1>3
  <2>1. 1 \in 1 .. NumMappers
    BY <1>1
  <2>2. PICK l, m : l = Len(shares[i]) /\ m = Len(shares[1])
    OBVIOUS
  <2>3. /\ l = IF number(i) = -1 THEN 0 ELSE number(i)
        /\ m = IF number(1) = -1 THEN 0 ELSE number(1)
    BY <1>5, <2>1, <2>2
  <2>4. l \in Nat /\ m \in Nat
    BY <1>4, <2>1, <2>3
  <2>5. CASE NumMappers = 1
    <3>1. i = 1 /\ l = m
      BY <2>2, <2>5
    <3>2. l - m = 0
      BY <2>4, <3>1
    <3> QED BY <2>2, <2>5, <3>1, <3>2
  <2>6. CASE NumMappers # 1
    <3>1. number(1) = each \/ (each = 0 /\ number(1) \in Nat \cup {-1} /\ number(1) <= 0)
      BY <1>1, <1>4, <2>1, <2>6
    <3>2. m = each
      BY <1>2, <2>3, <3>1
    <3>3. CASE i < NumMappers
      <4>1. number(i) = each \/ (each = 0 /\ number(i) \in Nat \cup {-1} /\ number(i) <= 0)
        BY <1>4, <3>3
      <4>2. l = each
        BY <1>2, <2>3, <4>1
      <4>3. l - m = 0
        BY <2>4, <3>2, <4>2
      <4> QED BY <2>2, <3>3, <4>3
    <3>4. CASE i = NumMappers
      <4>1. number(i) \in {each - 1, each}
        BY <1>4, <3>4
      <4>2. l - m \in {-1, 0}
        BY <1>2, <2>3, <3>2, <4>1
      <4> QED BY <2>2, <3>4, <4>2
    <3>5. i < NumMappers \/ i = NumMappers
      BY <1>1
    <3> QED BY <3>3, <3>4, <3>5
  <2> QED BY <2>5, <2>6
<1>10. \A i \in DOMAIN shares : shares[i] \in Seq(Nat)
  BY <1>3, <1>5
<1> QED BY <1>3, <1>8, <1>9, <1>10 DEF SharesFit

-----------------------------------------------------------------------------
(* A mapper has learned from its samples, and from the pseudo-counts.       *)
LEMMA MapperIs ==
    ASSUME NEW n \in Nat, NEW samples
    PROVE  mapper(n, samples) = [msteps |-> LearnedOnce(n, ToSet(samples)), likelihood |-> OnceIn(ToSet(samples))]
<1>1. Seen(samples) = OnceIn(ToSet(samples))
  BY DEF Seen, OnceIn
<1>2. Seen(<< >>) = [s \in Sample |-> 0]
  <2>1. ToSet(<< >>) = {}
    BY DEF ToSet
  <2> QED BY <2>1 DEF Seen
<1>3. Added(Initial.seen, Seen(samples)) = OnceIn(ToSet(samples))
  <2>1. \A s \in Sample : 0 + Seen(samples)[s] = Seen(samples)[s]
    BY DEF Seen
  <2>2. Initial.seen = [s \in Sample |-> 0]
    BY <1>2 DEF Initial, Begun
  <2>3. Added(Initial.seen, Seen(samples)) = [s \in Sample |-> Seen(samples)[s]]
    BY <2>1, <2>2 DEF Added
  <2> QED BY <1>1, <2>3 DEF OnceIn
<1>4. [Initial EXCEPT !.seen = Added(@, Seen(samples))] = Learned(OnceIn(ToSet(samples)))
  BY <1>3 DEF Initial, Begun, Learned
<1>5. mapper(n, samples).msteps = [j \in 1 .. n |-> [Initial EXCEPT !.seen = Added(@, Seen(samples))]]
  BY DEF mapper, hadoop_iterate
<1>6. mapper(n, samples).msteps = LearnedOnce(n, ToSet(samples))
  BY <1>4, <1>5 DEF LearnedOnce
<1> QED BY <1>1, <1>6 DEF mapper, hadoop_iterate

LEMMA MergedIs ==
    ASSUME NEW S, NEW T, S \cap T = {}
    PROVE  Merged(Learned(OnceIn(S)), Learned(OnceIn(T))) = Learned(OnceIn(S \cup T))
<1>1. Added(OnceIn(S), OnceIn(T)) = OnceIn(S \cup T)
  BY DEF Added, OnceIn
<1>2. PICK f, g, h : f = OnceIn(S) /\ g = OnceIn(T) /\ h = OnceIn(S \cup T)
  OBVIOUS
<1>3. Merged(Learned(f), Learned(g)) = [prior |-> 1 + 1 - 1, seen |-> Added(f, g), initial |-> 1]
  BY DEF Merged, Learned
<1>4. 1 + 1 - 1 = 1
  OBVIOUS
<1> QED BY <1>1, <1>2, <1>3, <1>4 DEF Learned

(* The inputs are disjoint, so one after the other is added as it is.        *)
LEMMA OneMoreShare ==
    ASSUME SharesFit, NEW k \in 1 .. NumMappers, k > 1
    PROVE  Shared(k - 1) \cap ToSet(shares[k]) = {} /\ Shared(k) = Shared(k - 1) \cup ToSet(shares[k])
<1>1. 1 .. k = (1 .. k - 1) \cup {k} /\ \A i \in 1 .. k - 1 : i # k /\ i \in DOMAIN shares /\ k \in DOMAIN shares
  BY PrototypeAssumption DEF SharesFit
<1>2. \A i \in 1 .. k - 1 : ToSet(shares[i]) \cap ToSet(shares[k]) = {}
  BY <1>1 DEF SharesFit
<1> QED BY <1>1, <1>2 DEF Shared

(* For any number of mappers and of maximisation steps.                     *)
LEMMA ReduceIs ==
    ASSUME SharesFit, NEW n \in Nat,
           emitted = [k \in 1 .. NumMappers |-> mapper(n, shares[k])]
    PROVE  em_reduce(emitted) = Reduced(n, NumMappers)
<1> DEFINE N == NumMappers
           In(k) == [msteps |-> LearnedOnce(n, ToSet(shares[k])), likelihood |-> OnceIn(ToSet(shares[k]))]
           more(acc, k) == [msteps |-> [j \in 1 .. n |-> Merged(acc.msteps[j], emitted[k].msteps[j])],
                            likelihood |-> Added(acc.likelihood, Times(n, emitted[k].likelihood))]
           IsRec(sum) == sum = [k \in DOMAIN emitted |-> IF k = 1 THEN emitted[1]
               ELSE [msteps |-> [j \in 1 .. Len(emitted[1].msteps) |-> Merged(sum[k - 1].msteps[j], emitted[k].msteps[j])],
                     likelihood |-> Added(sum[k - 1].likelihood, Times(Len(emitted[1].msteps), emitted[k].likelihood))]]
<1>1. N \in Nat /\ N >= 1
  BY PrototypeAssumption
<1>2. \A k \in 1 .. N : emitted[k] = In(k)
  BY MapperIs
<1>3. Len(emitted) = N /\ DOMAIN emitted = 1 .. N
  BY <1>1
<1>4. Len(emitted[1].msteps) = n
  <2>1. emitted[1] = In(1)
    BY <1>1, <1>2
  <2>2. emitted[1].msteps = LearnedOnce(n, ToSet(shares[1]))
    BY <2>1
  <2> QED BY <2>2 DEF LearnedOnce
<1>5. em_reduce(emitted) = (CHOOSE sum : IsRec(sum))[N]
  BY <1>3 DEF em_reduce
<1>6. \A c : IsRec(c) <=> /\ c = [k \in 1 .. N |-> c[k]]
                          /\ \A k \in 1 .. N : c[k] = IF k = 1 THEN emitted[1] ELSE more(c[k - 1], k)
  <2> SUFFICES ASSUME NEW c
               PROVE  IsRec(c) <=> /\ c = [k \in 1 .. N |-> c[k]]
                                   /\ \A k \in 1 .. N : c[k] = IF k = 1 THEN emitted[1] ELSE more(c[k - 1], k)
    OBVIOUS
  <2>1. IsRec(c) <=> c = [k \in 1 .. N |-> IF k = 1 THEN emitted[1] ELSE more(c[k - 1], k)]
    BY <1>3, <1>4
  <2> HIDE DEF IsRec, more
  <2> QED BY <2>1
<1> HIDE DEF IsRec
<1>7. Reduced(n, 1) = emitted[1]
  <2>1. Shared(1) = ToSet(shares[1])
    BY DEF Shared
  <2>2. \A s \in Sample : (IF s \in ToSet(shares[1]) THEN 1 ELSE IF s \in Shared(1) THEN n ELSE 0)
                          = IF s \in ToSet(shares[1]) THEN 1 ELSE 0
    BY <2>1
  <2>3. emitted[1] = In(1)
    BY <1>1, <1>2
  <2> QED BY <2>1, <2>2, <2>3 DEF Reduced, OnceIn
<1>8. ASSUME NEW k \in 1 .. N, k > 1 PROVE more(Reduced(n, k - 1), k) = Reduced(n, k)
  <2>1. Shared(k - 1) \cap ToSet(shares[k]) = {} /\ Shared(k) = Shared(k - 1) \cup ToSet(shares[k])
    BY <1>8, OneMoreShare
  <2>2. emitted[k] = In(k)
    BY <1>2
  <2>3. ASSUME NEW j \in 1 .. n
        PROVE  Merged(Reduced(n, k - 1).msteps[j], emitted[k].msteps[j]) = Learned(OnceIn(Shared(k)))
    <3>1. Reduced(n, k - 1).msteps[j] = Learned(OnceIn(Shared(k - 1)))
            /\ emitted[k].msteps[j] = Learned(OnceIn(ToSet(shares[k])))
      BY <2>2 DEF Reduced, LearnedOnce
    <3> QED BY <2>1, <3>1, MergedIs
  <2>4. more(Reduced(n, k - 1), k).msteps = Reduced(n, k).msteps
    BY <2>3 DEF Reduced, LearnedOnce
  <2>5. ToSet(shares[1]) \subseteq Shared(k - 1)
    <3>1. 1 \in 1 .. k - 1
      BY <1>8
    <3> QED BY <3>1 DEF Shared
  <2>6. ASSUME NEW s \in Sample
        PROVE  Reduced(n, k - 1).likelihood[s] + n * OnceIn(ToSet(shares[k]))[s] = Reduced(n, k).likelihood[s]
    <3>1. OnceIn(ToSet(shares[k]))[s] = IF s \in ToSet(shares[k]) THEN 1 ELSE 0
      BY DEF OnceIn
    <3>2. \A m \in {k - 1, k} : Reduced(n, m).likelihood[s]
            = IF s \in ToSet(shares[1]) THEN 1 ELSE IF s \in Shared(m) THEN n ELSE 0
      BY DEF Reduced
    <3>3. n * 1 = n /\ n * 0 = 0
      OBVIOUS
    <3>4. CASE s \in ToSet(shares[k])
      <4>1. s \notin Shared(k - 1) /\ s \notin ToSet(shares[1]) /\ s \in Shared(k)
        BY <2>1, <2>5, <3>4
      <4> QED BY <3>1, <3>2, <3>3, <3>4, <4>1
    <3>5. CASE s \notin ToSet(shares[k])
      <4>1. s \in Shared(k) <=> s \in Shared(k - 1)
        BY <2>1, <3>5
      <4> QED BY <3>1, <3>2, <3>3, <3>5, <4>1
    <3> QED BY <3>4, <3>5
  <2>7. more(Reduced(n, k - 1), k).likelihood = Reduced(n, k).likelihood
    <3>1. Added(Reduced(n, k - 1).likelihood, Times(n, emitted[k].likelihood))
          = [s \in Sample |-> Reduced(n, k - 1).likelihood[s] + n * OnceIn(ToSet(shares[k]))[s]]
      BY <2>2 DEF Added, Times
    <3>2. Reduced(n, k).likelihood = [s \in Sample |-> Reduced(n, k).likelihood[s]]
      BY DEF Reduced
    <3> QED BY <2>6, <3>1, <3>2
  <2>8. Reduced(n, k) = [msteps |-> Reduced(n, k).msteps, likelihood |-> Reduced(n, k).likelihood]
    BY DEF Reduced
  <2> QED BY <2>4, <2>7, <2>8
<1> DEFINE f == [k \in 1 .. N |-> Reduced(n, k)]
<1>9. IsRec(f)
  <2>1. \A k \in 1 .. N : f[k] = IF k = 1 THEN emitted[1] ELSE more(f[k - 1], k)
    <3> SUFFICES ASSUME NEW k \in 1 .. N PROVE f[k] = IF k = 1 THEN emitted[1] ELSE more(f[k - 1], k)
      OBVIOUS
    <3>1. CASE k = 1
      BY <1>1, <1>7, <3>1
    <3>2. CASE k # 1
      <4>1. k > 1 /\ k - 1 \in 1 .. N
        BY <1>1, <3>2
      <4>2. f[k - 1] = Reduced(n, k - 1) /\ f[k] = Reduced(n, k)
        BY <4>1
      <4> HIDE DEF more
      <4> QED BY <1>8, <3>2, <4>1, <4>2
    <3> QED BY <3>1, <3>2
  <2>2. f = [k \in 1 .. N |-> f[k]]
    OBVIOUS
  <2> HIDE DEF f, more
  <2> QED BY <1>6, <2>1, <2>2
<1>10. PICK c : IsRec(c) /\ c = CHOOSE sum : IsRec(sum)
  BY <1>9
<1>11. c[1] = emitted[1] /\ \A k \in 1 .. N : k > 1 => c[k] = more(c[k - 1], k)
  <2> HIDE DEF more
  <2> QED BY <1>1, <1>6, <1>10
<1> DEFINE P == {k \in Nat : k + 1 \in 1 .. N => c[k + 1] = Reduced(n, k + 1)}
<1>12. 0 \in P
  BY <1>7, <1>11
<1>13. ASSUME NEW k \in Nat, k \in P PROVE k + 1 \in P
  <2> SUFFICES ASSUME k + 2 \in 1 .. N PROVE c[k + 2] = Reduced(n, k + 2)
    OBVIOUS
  <2>1. k + 1 \in 1 .. N /\ k + 2 > 1 /\ (k + 2) - 1 = k + 1
    BY <1>1
  <2>2. c[k + 1] = Reduced(n, k + 1)
    BY <1>13, <2>1
  <2> HIDE DEF more
  <2>3. c[k + 2] = more(c[k + 1], k + 2)
    BY <1>11, <2>1
  <2>4. more(Reduced(n, k + 1), k + 2) = Reduced(n, k + 2)
    BY <1>8, <2>1
  <2> QED BY <2>2, <2>3, <2>4
<1>14. Nat \subseteq P
  <2> HIDE DEF P
  <2> QED BY <1>12, <1>13, SetInduction
<1>15. c[N] = Reduced(n, N)
  <2>1. N - 1 \in P /\ (N - 1) + 1 = N /\ N \in 1 .. N
    <3>1. N - 1 \in Nat
      BY <1>1
    <3> HIDE DEF P
    <3> QED BY <1>1, <1>14, <3>1
  <2> QED BY <2>1
<1> QED BY <1>5, <1>10, <1>15

-----------------------------------------------------------------------------
(* Both kinds of behaviour start in the invariant: a round that is about to *)
(* begin, or no Pipes program at all.                                       *)
LEMMA PipesBegin ==
    ASSUME PipesInit \/ NoPipes
    PROVE  PipesInv
<1>1. CASE NoPipes
  BY <1>1 DEF NoPipes, PipesInv
<1>2. CASE PipesInit
  <2>1. PICK lines \in TabLines :
           /\ stage = IF NumMappers > lines - 2 THEN "failed" ELSE "map"
           /\ shares = Dealt(lines)
           /\ \E n \in MStepCounts : \E m \in 3 .. MaxIter :
                 /\ dat = [iter |-> 0, likelihood |-> Seen(<< >>), fg |-> << >>, msteps |-> n]
                 /\ enough = m
    BY <1>2 DEF PipesInit
  <2>2. PICK n \in MStepCounts, m \in 3 .. MaxIter :
           dat = [iter |-> 0, likelihood |-> Seen(<< >>), fg |-> << >>, msteps |-> n] /\ enough = m
    BY <2>1
  <2>3. SharesFit
    BY <2>1, DealtFits
  <2>4. n \in Nat /\ m \in Nat /\ NumMappers \in Nat
    BY PrototypeAssumption
  <2>5. emitted = << >>
        /\ tests = [serial \in BOOLEAN |-> [fg |-> << >>, msteps |-> [j \in 1 .. dat.msteps |-> Initial]]]
    BY <1>2 DEF PipesInit
  <2>6. /\ dat.iter = 0 /\ dat.msteps = n /\ dat.fg = << >>
        /\ dat = [iter |-> dat.iter, likelihood |-> dat.likelihood, fg |-> dat.fg, msteps |-> dat.msteps]
    BY <2>2
  <2>7. stage \in {"map", "failed"}
    BY <2>1
  <2>8. /\ tests = [serial \in BOOLEAN |-> [fg |-> tests[serial].fg, msteps |-> [j \in 1 .. dat.msteps |-> Initial]]]
        /\ \A serial \in BOOLEAN : tests[serial].fg = << >>
    BY <2>5
  <2>9. emitted = [k \in 1 .. Len(emitted) |-> mapper(dat.msteps, shares[k])] /\ Len(emitted) \in 0 .. NumMappers
    BY <2>4, <2>5
  <2>10. << >> \in Seq({LearnedOnce(dat.msteps, DealtSamples)})
           /\ << >> \in Seq({LearnedOnce(dat.msteps, ToSet(AllSamples))})
    OBVIOUS
  <2>11. dat.fg \in Seq({LearnedOnce(dat.msteps, DealtSamples)})
    BY <2>6, <2>10
  <2>12. \A serial \in BOOLEAN : tests[serial].fg \in Seq({LearnedOnce(dat.msteps, ToSet(AllSamples))})
    BY <2>8, <2>10
  <2>13. dat.iter \in Nat /\ ~(dat.iter > 0) /\ dat.msteps \in Nat /\ enough \in Nat
    BY <2>2, <2>4, <2>6
  <2>14. stage \in {"map", "test", "passed", "failed"} /\ stage \notin {"test", "passed"}
    BY <2>7
  <2> QED BY <2>3, <2>6, <2>8, <2>9, <2>11, <2>12, <2>13, <2>14 DEF PipesInv
<1> QED BY <1>1, <1>2

(* A list of one value stays one.                                           *)
LEMMA AppendedSame ==
    ASSUME NEW x, NEW s \in Seq({x})
    PROVE  Append(s, x) \in Seq({x})
OBVIOUS

(* The next mapper adds what it learns from its own input.                  *)
LEMMA MapKeeps ==
    ASSUME PipesInv, Map
    PROVE  PipesInv'
<1>1. /\ stage = "map" /\ Len(emitted) < NumMappers
      /\ emitted' = Append(emitted, mapper(dat.msteps, shares[Len(emitted) + 1]))
      /\ UNCHANGED <<stage, shares, dat, tests, enough>>
  BY DEF Map
<1>2. PICK n : n = Len(emitted)
  OBVIOUS
<1>3. n \in Nat /\ n < NumMappers /\ NumMappers \in Nat /\ emitted = [k \in 1 .. n |-> mapper(dat.msteps, shares[k])]
  BY <1>1, <1>2, PrototypeAssumption DEF PipesInv
<1>4. emitted' = [k \in 1 .. n + 1 |-> mapper(dat.msteps, shares[k])] /\ Len(emitted') = n + 1
  <2>1. PICK x : x = mapper(dat.msteps, shares[n + 1])
    OBVIOUS
  <2> DEFINE T == {mapper(dat.msteps, shares[k]) : k \in 1 .. n + 1}
  <2>2. emitted \in Seq(T) /\ Len(emitted) = n
    BY <1>3
  <2>3. emitted' = Append(emitted, x)
    BY <1>1, <1>2, <2>1
  <2>4. Len(emitted') = n + 1 /\ DOMAIN emitted' = 1 .. n + 1 /\ emitted' = [k \in 1 .. n + 1 |-> emitted'[k]]
    BY <1>3, <2>2, <2>3
  <2>5. \A k \in 1 .. n + 1 : emitted'[k] = mapper(dat.msteps, shares[k])
    <3> SUFFICES ASSUME NEW k \in 1 .. n + 1 PROVE emitted'[k] = mapper(dat.msteps, shares[k])
      OBVIOUS
    <3>1. CASE k = n + 1
      BY <1>3, <2>1, <2>2, <2>3, <3>1
    <3>2. CASE k # n + 1
      <4>1. k \in 1 .. n
        BY <1>3, <3>2
      <4>2. emitted'[k] = emitted[k]
        BY <2>2, <2>3, <4>1
      <4> QED BY <1>3, <4>1, <4>2
    <3> QED BY <3>1, <3>2
  <2> QED BY <2>4, <2>5
<1>5. emitted' = [k \in 1 .. Len(emitted') |-> mapper(dat'.msteps, shares'[k])] /\ Len(emitted') \in 0 .. NumMappers
  BY <1>1, <1>3, <1>4
<1>6. SharesFit' /\ DealtSamples' = DealtSamples
  BY <1>1 DEF PipesInv, SharesFit, DealtSamples
<1> QED BY <1>1, <1>5, <1>6 DEF PipesInv

(* The reducer learns from every dealt sample once, whichever round it is,  *)
(* and main goes on with the next round or with the tests.                  *)
LEMMA ReduceKeeps ==
    ASSUME PipesInv, Reduce
    PROVE  PipesInv'
<1> DEFINE out == em_reduce(emitted)
<1>1. /\ stage = "map" /\ Len(emitted) = NumMappers
      /\ dat' = [dat EXCEPT !.iter = @ + 1, !.likelihood = out.likelihood, !.fg = Append(@, out.msteps)]
      /\ emitted' = << >>
      /\ UNCHANGED <<shares, tests, enough>>
  BY DEF Reduce
<1>2. stage' \in {"map", "test"}
  BY DEF Reduce
<1>3. NumMappers \in Nat /\ NumMappers >= 1 /\ SharesFit /\ dat.msteps \in Nat /\ dat.iter \in Nat
  BY <1>1, PrototypeAssumption DEF PipesInv
<1>4. out = Reduced(dat.msteps, NumMappers)
  <2>1. emitted = [k \in 1 .. NumMappers |-> mapper(dat.msteps, shares[k])]
    BY <1>1 DEF PipesInv
  <2> QED BY <1>3, <2>1, ReduceIs
<1>5. DealtSamples = Shared(NumMappers)
  BY <1>3 DEF DealtSamples, Shared, SharesFit
<1>6. out.msteps = LearnedOnce(dat.msteps, DealtSamples)
  BY <1>4, <1>5 DEF Reduced
<1>7. dat.msteps = 1 => out.likelihood = OnceIn(DealtSamples)
  <2> SUFFICES ASSUME dat.msteps = 1 PROVE out.likelihood = OnceIn(DealtSamples)
    OBVIOUS
  <2>1. ToSet(shares[1]) \subseteq Shared(NumMappers)
    <3>1. 1 \in 1 .. NumMappers
      BY <1>3
    <3> QED BY <3>1 DEF Shared
  <2>2. out.likelihood = [s \in Sample |-> IF s \in ToSet(shares[1]) THEN 1 ELSE IF s \in Shared(NumMappers) THEN 1 ELSE 0]
    BY <1>4 DEF Reduced
  <2>3. \A s \in Sample : (IF s \in ToSet(shares[1]) THEN 1 ELSE IF s \in Shared(NumMappers) THEN 1 ELSE 0)
                          = IF s \in DealtSamples THEN 1 ELSE 0
    BY <1>5, <2>1
  <2> QED BY <2>2, <2>3 DEF OnceIn
<1> HIDE DEF out
<1>8. PICK i, l, f, n : dat = [iter |-> i, likelihood |-> l, fg |-> f, msteps |-> n]
  BY <1>1 DEF PipesInv
<1>9. dat' = [iter |-> i + 1, likelihood |-> out.likelihood, fg |-> Append(f, out.msteps), msteps |-> n]
  BY <1>1, <1>8
<1>10. i = dat.iter /\ f = dat.fg /\ n = dat.msteps
  BY <1>8
<1>11. /\ dat'.iter = i + 1 /\ dat'.likelihood = out.likelihood /\ dat'.fg = Append(f, out.msteps) /\ dat'.msteps = n
       /\ dat' = [iter |-> dat'.iter, likelihood |-> dat'.likelihood, fg |-> dat'.fg, msteps |-> dat'.msteps]
  BY <1>9
<1>12. dat'.iter \in Nat /\ dat'.iter > 0 /\ dat'.msteps = dat.msteps
  BY <1>3, <1>10, <1>11
<1>13. SharesFit' /\ DealtSamples' = DealtSamples
  BY <1>1, <1>3 DEF SharesFit, DealtSamples
<1>14. dat'.fg \in Seq({LearnedOnce(dat'.msteps, DealtSamples')})
  <2>1. f \in Seq({LearnedOnce(n, DealtSamples)})
    BY <1>1, <1>10 DEF PipesInv
  <2> QED BY <1>6, <1>10, <1>11, <1>13, <2>1, AppendedSame
<1>15. emitted' = [k \in 1 .. Len(emitted') |-> mapper(dat'.msteps, shares'[k])] /\ Len(emitted') \in 0 .. NumMappers
  BY <1>1, <1>3
<1>16. dat'.msteps = 1 => dat'.likelihood = OnceIn(DealtSamples')
  <2>1. OnceIn(DealtSamples') = OnceIn(DealtSamples)
    BY <1>13
  <2> QED BY <1>7, <1>11, <1>12, <2>1
<1>17. /\ tests' = [serial \in BOOLEAN |-> [fg |-> tests'[serial].fg, msteps |-> [j \in 1 .. dat'.msteps |-> Initial]]]
       /\ \A serial \in BOOLEAN : tests'[serial].fg \in Seq({LearnedOnce(dat'.msteps, ToSet(AllSamples))})
  BY <1>1, <1>12 DEF PipesInv
<1>18. /\ stage' # "none" /\ stage' # "failed" /\ stage' \in {"map", "test", "passed", "failed"}
       /\ enough' \in Nat /\ dat'.msteps \in Nat
  BY <1>1, <1>2, <1>12 DEF PipesInv
<1> QED BY <1>11, <1>12, <1>13, <1>14, <1>15, <1>16, <1>17, <1>18 DEF PipesInv

(* What is read from an archive is what was written.                        *)
LEMMA TestKeeps ==
    ASSUME PipesInv, NEW serial \in BOOLEAN, Test(serial)
    PROVE  PipesInv'
<1> DEFINE all == ToSet(AllSamples)
           once == LearnedOnce(dat.msteps, all)
           e == hadoop_iterate(tests[serial].msteps, AllSamples).msteps
           m == IF serial THEN [j \in DOMAIN e |-> Archived(e[j])] ELSE e
           begun == [j \in 1 .. dat.msteps |-> Initial]
<1>1. /\ stage = "test" /\ UNCHANGED <<stage, shares, dat, emitted, enough>>
      /\ tests' = [tests EXCEPT ![serial] = [fg |-> Append(@.fg, m), msteps |-> [j \in DOMAIN m |-> Begun(m[j].initial)]]]
  BY DEF Test
<1>2. dat.msteps \in Nat
  BY <1>1 DEF PipesInv
<1>3. /\ tests = [x \in BOOLEAN |-> [fg |-> tests[x].fg, msteps |-> begun]]
      /\ \A x \in BOOLEAN : tests[x].fg \in Seq({once})
  BY <1>1 DEF PipesInv
<1>4. tests[serial].msteps = begun
  <2>1. PICK b : b = begun
    OBVIOUS
  <2>2. tests = [x \in BOOLEAN |-> [fg |-> tests[x].fg, msteps |-> b]]
    BY <1>3, <2>1
  <2>3. tests[serial] = [fg |-> tests[serial].fg, msteps |-> b]
    BY <2>2
  <2>4. tests[serial].msteps = b
    BY <2>3
  <2> QED BY <2>1, <2>4
<1>5. e = once
  <2>1. mapper(dat.msteps, AllSamples).msteps = once
    BY <1>2, MapperIs
  <2> QED BY <1>4, <2>1 DEF mapper
<1>6. m = once
  <2>1. \A j \in 1 .. dat.msteps : Archived(once[j]) = once[j]
    BY DEF LearnedOnce, Learned, Archived
  <2>2. once = [j \in 1 .. dat.msteps |-> once[j]]
    BY DEF LearnedOnce
  <2>3. [j \in DOMAIN once |-> Archived(once[j])] = once
    <3>1. DOMAIN once = 1 .. dat.msteps
      BY DEF LearnedOnce
    <3> HIDE DEF once
    <3> QED BY <2>1, <2>2, <3>1
  <2> HIDE DEF e, once
  <2> QED BY <1>5, <2>3
<1>7. [j \in DOMAIN m |-> Begun(m[j].initial)] = begun
  <2>1. DOMAIN once = 1 .. dat.msteps /\ \A j \in 1 .. dat.msteps : once[j].initial = 1
    BY DEF LearnedOnce, Learned
  <2> HIDE DEF m, once
  <2> QED BY <1>6, <2>1 DEF Initial
<1> HIDE DEF m, e, once, begun, all
<1>8. tests' = [x \in BOOLEAN |-> [fg |-> IF x = serial THEN Append(tests[x].fg, m) ELSE tests[x].fg, msteps |-> begun]]
  <2>1. PICK f : f = [x \in BOOLEAN |-> tests[x].fg]
    OBVIOUS
  <2>2. tests = [x \in BOOLEAN |-> [fg |-> f[x], msteps |-> begun]]
    BY <1>3, <2>1
  <2>3. tests' = [x \in BOOLEAN |-> IF x = serial THEN [fg |-> Append(f[x], m), msteps |-> begun] ELSE tests[x]]
    <3>1. \A x \in BOOLEAN : tests[x] = [fg |-> f[x], msteps |-> begun]
      BY <2>2
    <3>2. tests[serial].fg = f[serial]
      <4>1. tests[serial] = [fg |-> f[serial], msteps |-> begun]
        BY <3>1
      <4> QED BY <4>1
    <3>3. tests' = [tests EXCEPT ![serial] = [fg |-> Append(f[serial], m), msteps |-> begun]]
      BY <1>1, <1>7, <3>2
    <3>4. DOMAIN tests = BOOLEAN
      BY <2>2
    <3> QED BY <3>3, <3>4
  <2> QED BY <2>1, <2>2, <2>3
<1>9. \A x \in BOOLEAN : tests'[x].fg \in Seq({once})
  <2> SUFFICES ASSUME NEW x \in BOOLEAN PROVE tests'[x].fg \in Seq({once})
    OBVIOUS
  <2>1. tests[x].fg \in Seq({once})
    BY <1>3
  <2>2. Append(tests[x].fg, m) \in Seq({once})
    BY <1>6, <2>1, AppendedSame
  <2>3. tests'[x].fg = IF x = serial THEN Append(tests[x].fg, m) ELSE tests[x].fg
    BY <1>8
  <2> QED BY <2>1, <2>2, <2>3
<1>10. tests' = [x \in BOOLEAN |-> [fg |-> tests'[x].fg, msteps |-> [j \in 1 .. dat'.msteps |-> Initial]]]
  <2>1. begun = [j \in 1 .. dat'.msteps |-> Initial]
    BY <1>1 DEF begun
  <2> QED BY <1>8, <2>1
<1>11. \A x \in BOOLEAN : tests'[x].fg \in Seq({LearnedOnce(dat'.msteps, ToSet(AllSamples))})
  BY <1>1, <1>9 DEF once, all
<1>12. SharesFit' /\ DealtSamples' = DealtSamples
  BY <1>1 DEF PipesInv, SharesFit, DealtSamples
<1> QED BY <1>1, <1>10, <1>11, <1>12 DEF PipesInv

(* Both tests have learnt the same from all samples, so main finds them     *)
(* equal.                                                                   *)
LEMMA CompareKeeps ==
    ASSUME PipesInv, Compare
    PROVE  PipesInv'
<1>1. /\ stage = "test" /\ \A serial \in BOOLEAN : Len(tests[serial].fg) = enough
      /\ stage' = IF tests[TRUE].fg = tests[FALSE].fg THEN "passed" ELSE "failed"
      /\ UNCHANGED <<shares, dat, emitted, tests, enough>>
  BY DEF Compare
<1>2. tests[TRUE].fg = tests[FALSE].fg
  <2>1. PICK x, f, g : x = LearnedOnce(dat.msteps, ToSet(AllSamples)) /\ f = tests[TRUE].fg /\ g = tests[FALSE].fg
    OBVIOUS
  <2>2. f \in Seq({x}) /\ g \in Seq({x}) /\ Len(f) = enough /\ Len(g) = enough
    BY <1>1, <2>1 DEF PipesInv
  <2>3. enough \in Nat /\ f = [k \in 1 .. enough |-> x]
    BY <2>2
  <2>4. g = [k \in 1 .. enough |-> x]
    BY <2>2
  <2> QED BY <2>1, <2>3, <2>4
<1>3. stage' = "passed"
  BY <1>1, <1>2
<1>4. SharesFit' /\ DealtSamples' = DealtSamples
  BY <1>1 DEF PipesInv, SharesFit, DealtSamples
<1> QED BY <1>1, <1>3, <1>4 DEF PipesInv

(* Nothing changes while the other program runs.                            *)
LEMMA PipesStay ==
    ASSUME PipesInv, UNCHANGED pipesVars
    PROVE  PipesInv'
<1>1. SharesFit' <=> SharesFit
  BY DEF pipesVars, SharesFit
<1>2. DealtSamples' = DealtSamples
  BY DEF pipesVars, DealtSamples
<1> QED BY <1>1, <1>2 DEF pipesVars, PipesInv

(* Every step of the round keeps the invariant.                             *)
LEMMA PipesGoOn ==
    ASSUME PipesInv, PipesNext
    PROVE  PipesInv'
<1>1. CASE Map
  BY <1>1, MapKeeps
<1>2. CASE Reduce
  BY <1>2, ReduceKeeps
<1>3. CASE \E serial \in BOOLEAN : Test(serial)
  BY <1>3, TestKeeps
<1>4. CASE Compare
  BY <1>4, CompareKeeps
<1> QED BY <1>1, <1>2, <1>3, <1>4 DEF PipesNext

(* What the invariant says of samples and graphs is what the property       *)
(* promises of a round.                                                     *)
LEMMA PipesRound ==
    ASSUME PipesInv, stage = "none" => NoPipes
    PROVE  RoundIsOneIteration
<1>1. CASE stage = "none"
  BY <1>1 DEF NoPipes, RoundIsOneIteration
<1>2. CASE stage # "none"
  <2> DEFINE once == OnceIn(DealtSamples)
  <2>1. once = [s \in Sample |-> IF s \in DealtSamples THEN 1 ELSE 0]
    BY DEF OnceIn
  <2>2. \A n \in DOMAIN dat.fg : \A j \in DOMAIN dat.fg[n] : dat.fg[n][j].prior = 1 /\ dat.fg[n][j].seen = once
    <3> SUFFICES ASSUME NEW n \in DOMAIN dat.fg, NEW j \in DOMAIN dat.fg[n]
                 PROVE  dat.fg[n][j].prior = 1 /\ dat.fg[n][j].seen = once
      OBVIOUS
    <3>1. dat.fg[n] = LearnedOnce(dat.msteps, DealtSamples)
      BY <1>2 DEF PipesInv
    <3>2. dat.fg[n][j] = Learned(once)
      BY <3>1 DEF LearnedOnce
    <3> QED BY <3>2 DEF Learned
  <2> HIDE DEF once
  <2>3. /\ \A i, k \in DOMAIN shares : i # k => ToSet(shares[i]) \cap ToSet(shares[k]) = {}
        /\ \A i \in DOMAIN shares : Len(shares[i]) - Len(shares[1]) \in IF i = NumMappers THEN {-1, 0} ELSE {0}
    BY <1>2 DEF PipesInv, SharesFit
  <2>4. (dat.msteps = 1 /\ dat.iter > 0 => dat.likelihood = once) /\ (dat.iter > 0 => stage # "failed")
    BY <1>2 DEF PipesInv, once
  <2> QED BY <2>1, <2>2, <2>3, <2>4 DEF RoundIsOneIteration
<1> QED BY <1>1, <1>2

(***************************************************************************)
(* The second prototype: handles for Java programs.  The state of a process  *)
(* is a function of how many calls it has made.                             *)
(***************************************************************************)

(* What is left of a program after k of its calls.                          *)
LEMMA Consumed ==
    ASSUME NEW S, NEW s \in Seq(S), NEW k \in 0 .. Len(s)
    PROVE  /\ SubSeq(s, k + 1, Len(s)) = << >> <=> k = Len(s)
           /\ k < Len(s) => /\ Head(SubSeq(s, k + 1, Len(s))) = s[k + 1]
                            /\ Tail(SubSeq(s, k + 1, Len(s))) = SubSeq(s, (k + 1) + 1, Len(s))
           /\ SubSeq(s, 1, Len(s)) = s
<1>1. Len(s) \in Nat /\ s = [i \in 1 .. Len(s) |-> s[i]]
  OBVIOUS
<1>2. SubSeq(s, 1, Len(s)) = s
  BY <1>1
<1>3. CASE k = Len(s)
  BY <1>1, <1>2, <1>3
<1>4. CASE k # Len(s)
  <2>1. k \in Nat /\ k < Len(s)
    BY <1>1, <1>4
  <2>2. PICK t : t = SubSeq(s, k + 1, Len(s))
    OBVIOUS
  <2>3. t = [i \in 1 .. Len(s) - k |-> s[k + i]] /\ Len(t) = Len(s) - k /\ t \in Seq(S)
    BY <1>1, <2>1, <2>2
  <2>4. Len(t) > 0 /\ t # << >> /\ Head(t) = s[k + 1]
    <3>1. Len(s) - k > 0 /\ 1 \in 1 .. Len(s) - k
      BY <1>1, <2>1
    <3>2. t[1] = s[k + 1]
      BY <2>3, <3>1
    <3>3. Head(t) = t[1]
      BY <2>3, <3>1
    <3>4. Len(t) > 0
      BY <2>3, <3>1
    <3>5. t # << >>
      BY <3>4
    <3> QED BY <3>2, <3>3, <3>4, <3>5
  <2>5. Tail(t) = [i \in 1 .. Len(s) - k - 1 |-> s[k + 1 + i]]
    <3>1. Tail(t) = [i \in 1 .. Len(t) - 1 |-> t[i + 1]]
      BY <2>3, <2>4
    <3>2. \A i \in 1 .. Len(s) - k - 1 : t[i + 1] = s[k + 1 + i]
      BY <2>1, <2>3
    <3> QED BY <2>3, <3>1, <3>2
  <2>6. SubSeq(s, (k + 1) + 1, Len(s)) = [i \in 1 .. Len(s) - k - 1 |-> s[k + 1 + i]]
    <3>1. PICK n : n = Len(s)
      OBVIOUS
    <3>2. n \in Nat /\ (k + 1) + 1 \in 1 .. n + 1
      BY <1>1, <2>1, <3>1
    <3>3. SubSeq(s, (k + 1) + 1, n) = [i \in 1 .. n - ((k + 1) + 1) + 1 |-> s[((k + 1) + 1) + i - 1]]
      BY <3>1, <3>2
    <3>4. n - ((k + 1) + 1) + 1 = n - k - 1 /\ \A i \in 1 .. n - k - 1 : ((k + 1) + 1) + i - 1 = k + 1 + i
      BY <2>1, <3>2
    <3> QED BY <3>1, <3>3, <3>4
  <2>7. k < Len(s) /\ k # Len(s)
    BY <1>4, <2>1
  <2> QED BY <1>2, <2>2, <2>4, <2>5, <2>6, <2>7
<1> QED BY <1>3, <1>4

(* z is x followed by y.                                                    *)
Joins(z, x, y) ==
    /\ Len(z) = Len(x) + Len(y)
    /\ \A k \in 1 .. Len(x) : z[k] = x[k]
    /\ \A k \in 1 .. Len(y) : z[Len(x) + k] = y[k]

(* Concatenation joins.                                                     *)
LEMMA JoinedFacts ==
    ASSUME NEW T, NEW x \in Seq(T), NEW y \in Seq(T), NEW z, z = x \o y
    PROVE  z \in Seq(T) /\ Joins(z, x, y)
BY DEF Joins

(* Where each call is in DaiControl.main.                                   *)
LEMMA JavaMainIs ==
    /\ Population \in Nat /\ JavaMain \in Seq({JavaMain[k] : k \in 1 .. 5 * Population + 2})
         /\ Len(JavaMain) = 5 * Population + 2
    /\ JavaMain[1] = NativeCall("createDai", 1)
    /\ \A h \in 2 .. Population + 1 :
          /\ JavaMain[3 * h - 4] = NativeCall("copyDai", 1)
          /\ JavaMain[3 * h - 3] = NativeCall("randomizeFG", h)
          /\ JavaMain[3 * h - 2] = NativeCall("prepEM", h)
          /\ JavaMain[3 * Population + h] = NativeCall("runEM", h)
    /\ \A h \in 1 .. Population + 1 : JavaMain[4 * Population + 1 + h] = NativeCall("freeMem", h)
<1> DEFINE prepare(h) == <<NativeCall("copyDai", 1), NativeCall("randomizeFG", h), NativeCall("prepEM", h)>>
           first == <<NativeCall("createDai", 1)>>
           prepared == [k \in 1 .. 3 * Population |-> prepare(2 + (k - 1) \div 3)[((k - 1) % 3) + 1]]
           run == [i \in 1 .. Population |-> NativeCall("runEM", i + 1)]
           free == [i \in 1 .. Population + 1 |-> NativeCall("freeMem", i)]
           at(k) == IF k = 1 THEN NativeCall("createDai", 1)
                    ELSE IF k <= 3 * Population + 1 THEN prepared[k - 1]
                    ELSE IF k <= 4 * Population + 1 THEN run[k - 3 * Population - 1]
                    ELSE free[k - 4 * Population - 1]
<1>1. Population \in Nat
  BY PrototypeAssumption
<1>2. JavaMain = first \o prepared \o run \o free
  BY DEF JavaMain
<1> DEFINE T == {first[1]} \cup {prepared[k] : k \in 1 .. 3 * Population} \cup {run[k] : k \in 1 .. Population}
                  \cup {free[k] : k \in 1 .. Population + 1}
<1>3. first \in Seq(T) /\ Len(first) = 1 /\ first[1] = NativeCall("createDai", 1)
  OBVIOUS
<1>4. prepared \in Seq(T) /\ Len(prepared) = 3 * Population
  <2>1. \A k \in 1 .. 3 * Population : prepared[k] \in T
    OBVIOUS
  <2>2. 3 * Population \in Nat /\ prepared = [k \in 1 .. 3 * Population |-> prepared[k]]
    BY <1>1
  <2> HIDE DEF prepared, T
  <2> QED BY <2>1, <2>2
<1>5. run \in Seq(T) /\ Len(run) = Population
  <2>1. \A k \in 1 .. Population : run[k] \in T
    OBVIOUS
  <2>2. run = [k \in 1 .. Population |-> run[k]]
    OBVIOUS
  <2> HIDE DEF run, T
  <2> QED BY <1>1, <2>1, <2>2
<1>6. free \in Seq(T) /\ Len(free) = Population + 1
  BY <1>1
<1>7. \A h \in 2 .. Population + 1 :
         /\ prepared[3 * h - 5] = NativeCall("copyDai", 1)
         /\ prepared[3 * h - 4] = NativeCall("randomizeFG", h)
         /\ prepared[3 * h - 3] = NativeCall("prepEM", h)
  <2> SUFFICES ASSUME NEW h \in 2 .. Population + 1
               PROVE  /\ prepared[3 * h - 5] = NativeCall("copyDai", 1)
                      /\ prepared[3 * h - 4] = NativeCall("randomizeFG", h)
                      /\ prepared[3 * h - 3] = NativeCall("prepEM", h)
    OBVIOUS
  <2>1. h - 2 \in Nat /\ 3 * h - 5 \in 1 .. 3 * Population /\ 3 * h - 4 \in 1 .. 3 * Population
          /\ 3 * h - 3 \in 1 .. 3 * Population
    BY <1>1
  <2>2. /\ (3 * h - 5 - 1) \div 3 = h - 2 /\ (3 * h - 5 - 1) % 3 = 0
        /\ (3 * h - 4 - 1) \div 3 = h - 2 /\ (3 * h - 4 - 1) % 3 = 1
        /\ (3 * h - 3 - 1) \div 3 = h - 2 /\ (3 * h - 3 - 1) % 3 = 2
    BY <2>1
  <2>3. 2 + (h - 2) = h
    BY <2>1
  <2>4. \A k \in 1 .. 3 * Population : prepared[k] = prepare(2 + (k - 1) \div 3)[((k - 1) % 3) + 1]
    OBVIOUS
  <2>5. prepare(h)[0 + 1] = NativeCall("copyDai", 1) /\ prepare(h)[1 + 1] = NativeCall("randomizeFG", h)
        /\ prepare(h)[2 + 1] = NativeCall("prepEM", h)
    OBVIOUS
  <2> HIDE DEF prepared, prepare
  <2> QED BY <2>1, <2>2, <2>3, <2>4, <2>5
<1>8. \A h \in 1 .. Population + 1 : free[h] = NativeCall("freeMem", h)
  OBVIOUS
<1>9. \A h \in 1 .. Population : run[h] = NativeCall("runEM", h + 1)
  OBVIOUS
<1> HIDE DEF first, prepared, run, free, T, prepare
<1>10. PICK a : a = first \o prepared
  OBVIOUS
<1>11. /\ a \in Seq(T) /\ Len(a) = 3 * Population + 1 /\ a[1] = first[1]
       /\ \A k \in 1 .. 3 * Population : a[1 + k] = prepared[k]
  <2>1. a \in Seq(T) /\ Joins(a, first, prepared)
    BY <1>3, <1>4, <1>10, JoinedFacts
  <2> QED BY <1>1, <1>3, <1>4, <2>1 DEF Joins
<1>12. PICK b : b = a \o run
  OBVIOUS
<1>13. /\ b \in Seq(T) /\ Len(b) = 4 * Population + 1
       /\ \A k \in 1 .. 3 * Population + 1 : b[k] = a[k]
       /\ \A k \in 1 .. Population : b[3 * Population + 1 + k] = run[k]
  <2>1. b \in Seq(T) /\ Joins(b, a, run)
    BY <1>5, <1>11, <1>12, JoinedFacts
  <2> QED BY <1>1, <1>5, <1>11, <2>1 DEF Joins
<1>14. JavaMain = b \o free
  BY <1>2, <1>10, <1>12
<1>15. /\ JavaMain \in Seq(T) /\ Len(JavaMain) = 5 * Population + 2
       /\ \A k \in 1 .. 4 * Population + 1 : JavaMain[k] = b[k]
       /\ \A k \in 1 .. Population + 1 : JavaMain[4 * Population + 1 + k] = free[k]
  <2>1. JavaMain \in Seq(T) /\ Joins(JavaMain, b, free)
    BY <1>6, <1>13, <1>14, JoinedFacts
  <2> QED BY <1>1, <1>6, <1>13, <2>1 DEF Joins
<1>16. JavaMain \in Seq({JavaMain[k] : k \in 1 .. 5 * Population + 2})
  <2>1. PICK j : j = JavaMain
    OBVIOUS
  <2>2. j = [k \in 1 .. 5 * Population + 2 |-> j[k]] /\ 5 * Population + 2 \in Nat
    BY <1>1, <1>15, <2>1
  <2> QED BY <2>1, <2>2
<1>17. ASSUME NEW h \in 2 .. Population + 1
       PROVE  /\ JavaMain[3 * h - 4] = NativeCall("copyDai", 1)
              /\ JavaMain[3 * h - 3] = NativeCall("randomizeFG", h)
              /\ JavaMain[3 * h - 2] = NativeCall("prepEM", h)
              /\ JavaMain[3 * Population + h] = NativeCall("runEM", h)
  <2>1. ASSUME NEW k \in 1 .. 3 * Population PROVE JavaMain[1 + k] = prepared[k]
    <3>1. 1 + k \in 1 .. 3 * Population + 1 /\ 1 + k \in 1 .. 4 * Population + 1
      BY <1>1
    <3>2. a[1 + k] = prepared[k] /\ b[1 + k] = a[1 + k] /\ JavaMain[1 + k] = b[1 + k]
      BY <1>11, <1>13, <1>15, <3>1
    <3> QED BY <3>2
  <2>2. /\ 3 * h - 5 \in 1 .. 3 * Population /\ 3 * h - 4 \in 1 .. 3 * Population /\ 3 * h - 3 \in 1 .. 3 * Population
        /\ 1 + (3 * h - 5) = 3 * h - 4 /\ 1 + (3 * h - 4) = 3 * h - 3 /\ 1 + (3 * h - 3) = 3 * h - 2
    BY <1>1
  <2>3. h - 1 \in 1 .. Population /\ 3 * Population + 1 + (h - 1) = 3 * Population + h
          /\ 3 * Population + h \in 1 .. 4 * Population + 1 /\ (h - 1) + 1 = h
    BY <1>1
  <2>4. JavaMain[3 * Population + h] = NativeCall("runEM", h)
    BY <1>9, <1>13, <1>15, <2>3
  <2> QED BY <1>7, <2>1, <2>2, <2>4
<1>18. JavaMain[1] = NativeCall("createDai", 1)
  <2>1. 1 \in 1 .. 3 * Population + 1 /\ 1 \in 1 .. 4 * Population + 1
    BY <1>1
  <2>2. JavaMain[1] = b[1] /\ b[1] = a[1] /\ a[1] = first[1]
    BY <1>11, <1>13, <1>15, <2>1
  <2>3. first[1] = NativeCall("createDai", 1)
    BY <1>3
  <2> QED BY <2>2, <2>3
<1> QED BY <1>1, <1>8, <1>15, <1>16, <1>17, <1>18

(* Which call comes after k others.                                         *)
LEMMA CallAfter ==
    ASSUME NEW k \in 0 .. 5 * Population + 1
    PROVE  \/ k = 0
           \/ \E h \in 2 .. Population + 1 : k + 1 \in {3 * h - 4, 3 * h - 3, 3 * h - 2, 3 * Population + h}
           \/ \E h \in 1 .. Population + 1 : k + 1 = 4 * Population + 1 + h
<1>1. Population \in Nat /\ k \in Nat
  BY JavaMainIs
<1>2. CASE k \in 1 .. 3 * Population
  <2> DEFINE q == (k - 1) \div 3
             r == (k - 1) % 3
  <2>1. q \in Nat /\ r \in 0 .. 2 /\ k - 1 = 3 * q + r
    BY <1>1, <1>2
  <2> HIDE DEF q, r
  <2>2. q + 2 \in 2 .. Population + 1 /\ k + 1 \in {3 * (q + 2) - 4, 3 * (q + 2) - 3, 3 * (q + 2) - 2}
    BY <1>1, <1>2, <2>1
  <2> QED BY <2>2
<1>3. CASE k \in 3 * Population + 1 .. 4 * Population
  <2>1. k + 1 - 3 * Population \in 2 .. Population + 1 /\ k + 1 = 3 * Population + (k + 1 - 3 * Population)
    BY <1>1, <1>3
  <2> QED BY <2>1
<1>4. CASE k \in 4 * Population + 1 .. 5 * Population + 1
  <2>1. k - 4 * Population \in 1 .. Population + 1 /\ k + 1 = 4 * Population + 1 + (k - 4 * Population)
    BY <1>1, <1>4
  <2> QED BY <2>1
<1> QED BY <1>1, <1>2, <1>3, <1>4

(* What a population looks like after the first k calls of DaiControl.main.  *)
DrawnFrom(seed, n) == [seed |-> seed, drawn |-> n]

(* Whether the objects of handle h are still there: freeMem comes for one   *)
(* handle after the other, at the end.                                      *)
Lives(k, h) == IF k < 4 * Population + 1 + h THEN TRUE ELSE FALSE

(* The object behind handle h: the first has the graph of the file, the     *)
(* others a random one once randomizeFG was called, and an algorithm once   *)
(* prepEM was.                                                              *)
DataAt(k, h, seed) ==
    IF h = 1 THEN [fg |-> FromFile, alg |-> Null, live |-> Lives(k, 1)]
    ELSE [fg |-> IF 3 * h - 3 <= k THEN DrawnFrom(seed, h - 1) ELSE FromFile,
          alg |-> IF 3 * h - 2 <= k THEN h - 1 ELSE Unassigned,
          live |-> Lives(k, h)]

(* The EM object of handle i + 1, which has iterated once runEM was called. *)
AlgAt(k, i, seed) ==
    [fg |-> DrawnFrom(seed, i), iters |-> IF 3 * Population + i + 1 <= k THEN NumIterations ELSE 0,
     live |-> Lives(k, i + 1)]

(* The heap with d objects and a algorithms in it.                          *)
MemoryAt(k, d, a, seed) ==
    [data |-> [h \in 1 .. d |-> DataAt(k, h, seed)], algs |-> [i \in 1 .. a |-> AlgAt(k, i, seed)]]

(* What runEM reports of handle h.                                          *)
ResultOf(h, seed) ==
    [process |-> 0, handle |-> h, fg |-> DrawnFrom(seed, h - 1), asked |-> DrawnFrom(seed, h - 1), iters |-> NumIterations]

(* The handles that runEM was called for.                                   *)
Ran(k) == {h \in 2 .. Population + 1 : 3 * Population + h <= k}

(* How many handles were made, were given a graph and were prepared.        *)
CallsMade(k, d, r, a) ==
    /\ d \in 0 .. Population + 1 /\ r \in 0 .. Population + 1 /\ a \in 0 .. Population
    /\ d >= 1 <=> k >= 1
    /\ r >= 1 <=> k >= 1
    /\ \A h \in 2 .. Population + 1 :
          /\ h <= d <=> 3 * h - 4 <= k
          /\ h <= r <=> 3 * h - 3 <= k
          /\ h <= a + 1 <=> 3 * h - 2 <= k

(* f is a list of n members. This and the following operators stand for     *)
(* record and function expressions in lemmas, where the provers match them  *)
(* whole.                                                                   *)
Listed(f, n) == n \in Nat /\ f = [i \in 1 .. n |-> f[i]]

(* A DaiData on the heap.                                                   *)
Object(f, n, l) == [fg |-> f, alg |-> n, live |-> l]

(* An EMAlg on the heap.                                                    *)
Inference(f, n, l) == [fg |-> f, iters |-> n, live |-> l]

(* A DaiData that was freed.                                                *)
Gone(f, n) == [fg |-> f, alg |-> n, live |-> FALSE]

(* An EMAlg that prepEM has just made.                                      *)
Started(f) == [fg |-> f, iters |-> 0, live |-> TRUE]

(* f with x at h, the last place possibly new.                              *)
Replaced(f, n, h, x) == [i \in 1 .. n |-> IF i = h THEN x ELSE f[i]]

(* f with the object at h freed.                                            *)
Without(f, n, h) == [i \in 1 .. n |-> IF i = h THEN [f[i] EXCEPT !.live = FALSE] ELSE f[i]]

(* What appending to a list makes of it.                                    *)
LEMMA Lengthened ==
    ASSUME NEW d \in Nat, NEW f, f = [i \in 1 .. d |-> f[i]], NEW x
    PROVE  Append(f, x) = [i \in 1 .. d + 1 |-> IF i = d + 1 THEN x ELSE f[i]]
<1> DEFINE T == {f[i] : i \in 1 .. d} \cup {x}
<1>1. f \in Seq(T) /\ Len(f) = d
  <2>1. \A i \in 1 .. d : f[i] \in T
    OBVIOUS
  <2> HIDE DEF T
  <2> QED BY <2>1
<1> HIDE DEF T
<1>2. PICK g : g = Append(f, x)
  OBVIOUS
<1>3. g = [i \in 1 .. d + 1 |-> g[i]] /\ \A i \in 1 .. d + 1 : g[i] = IF i = d + 1 THEN x ELSE f[i]
  BY <1>1, <1>2
<1> QED BY <1>2, <1>3

(* What each call does to the memory of its process.                        *)
LEMMA RandomizedIs ==
    ASSUME NEW D, NEW A, NEW d, Listed(D, d), NEW h \in 1 .. d,
           NEW f, NEW n, NEW l, D[h] = Object(f, n, l), NEW x
    PROVE  randomizeFG([data |-> D, algs |-> A], h, x)
           = [data |-> Replaced(D, d, h, Object(x, n, l)), algs |-> A]
<1> USE DEF Listed, Object, Inference, Replaced, Started
<1>1. [D[h] EXCEPT !.fg = x] = [fg |-> x, alg |-> n, live |-> l]
  OBVIOUS
<1>2. [D EXCEPT ![h] = [D[h] EXCEPT !.fg = x]]
        = [i \in 1 .. d |-> IF i = h THEN [fg |-> x, alg |-> n, live |-> l] ELSE D[i]]
  BY <1>1
<1>3. randomizeFG([data |-> D, algs |-> A], h, x) = [data |-> [D EXCEPT ![h] = [D[h] EXCEPT !.fg = x]], algs |-> A]
  BY DEF randomizeFG
<1> QED BY <1>2, <1>3

(* prepEM: handle h gets the next algorithm, made for its own graph.        *)
LEMMA PreparedIs ==
    ASSUME NEW D, NEW A, NEW d, Listed(D, d), NEW h \in 1 .. d,
           NEW f, NEW n, NEW l, D[h] = Object(f, n, l),
           NEW a, Listed(A, a)
    PROVE  PreparedEM([data |-> D, algs |-> A], h)
           = [data |-> Replaced(D, d, h, Object(f, a + 1, l)), algs |-> Replaced(A, a + 1, a + 1, Started(f))]
<1> USE DEF Listed, Object, Inference, Replaced, Started
<1>1. PICK new : new = [fg |-> f, iters |-> 0, live |-> TRUE]
  OBVIOUS
<1>2. Len(A) = a
  OBVIOUS
<1>3. Append(A, new) = [i \in 1 .. a + 1 |-> IF i = a + 1 THEN new ELSE A[i]]
  BY Lengthened
<1>4. [D[h] EXCEPT !.alg = a + 1] = [fg |-> f, alg |-> a + 1, live |-> l]
  OBVIOUS
<1>5. [D EXCEPT ![h] = [D[h] EXCEPT !.alg = a + 1]]
        = [i \in 1 .. d |-> IF i = h THEN [fg |-> f, alg |-> a + 1, live |-> l] ELSE D[i]]
  BY <1>4
<1>6. PreparedEM([data |-> D, algs |-> A], h)
        = [algs |-> Append(A, new), data |-> [D EXCEPT ![h] = [D[h] EXCEPT !.alg = a + 1]]]
  <2>1. PICK e : e = [data |-> D, algs |-> A]
    OBVIOUS
  <2>2. e.data = D /\ e.algs = A /\ e.data[h].fg = f
    BY <2>1
  <2>3. PreparedEM(e, h) = [algs |-> Append(A, new), data |-> [D EXCEPT ![h].alg = a + 1]]
    BY <1>1, <1>2, <2>2 DEF PreparedEM
  <2>4. [D EXCEPT ![h].alg = a + 1] = [D EXCEPT ![h] = [D[h] EXCEPT !.alg = a + 1]]
    OBVIOUS
  <2> QED BY <2>1, <2>3, <2>4
<1> QED BY <1>1, <1>3, <1>5, <1>6

(* runEM: the algorithm of handle h, and no other, iterates.                *)
LEMMA RunIs ==
    ASSUME NEW D, NEW A, NEW h, NEW a, Listed(A, a), NEW n \in 1 .. a, D[h].alg = n,
           NEW f, NEW m, NEW l, A[n] = Inference(f, m, l)
    PROVE  runEM([data |-> D, algs |-> A], h)
           = [data |-> D, algs |-> Replaced(A, a, n, Inference(f, m + NumIterations, l))]
<1> USE DEF Listed, Object, Inference, Replaced, Started
<1>1. [A[n] EXCEPT !.iters = m + NumIterations] = [fg |-> f, iters |-> m + NumIterations, live |-> l]
  OBVIOUS
<1>2. [A EXCEPT ![n] = [A[n] EXCEPT !.iters = m + NumIterations]]
      = [i \in 1 .. a |-> IF i = n THEN [fg |-> f, iters |-> m + NumIterations, live |-> l] ELSE A[i]]
  BY <1>1
<1>3. runEM([data |-> D, algs |-> A], h)
        = [data |-> D, algs |-> [A EXCEPT ![n] = [A[n] EXCEPT !.iters = m + NumIterations]]]
  <2>1. PICK e : e = [data |-> D, algs |-> A]
    OBVIOUS
  <2>2. e.data = D /\ e.algs = A
    BY <2>1
  <2>3. runEM(e, h) = [data |-> D, algs |-> [A EXCEPT ![n].iters = @ + NumIterations]]
    BY <2>2 DEF runEM
  <2>4. [A EXCEPT ![n].iters = @ + NumIterations]
          = [A EXCEPT ![n] = [A[n] EXCEPT !.iters = A[n].iters + NumIterations]]
    OBVIOUS
  <2>5. A[n].iters = m
    OBVIOUS
  <2> QED BY <2>1, <2>3, <2>4, <2>5
<1> QED BY <1>2, <1>3

(* freeMem: the objects of handle h, and no others, are gone.               *)
LEMMA FreedIs ==
    ASSUME NEW D, NEW A, NEW d, Listed(D, d), NEW h \in 1 .. d,
           NEW f, NEW n, NEW l, D[h] = Object(f, n, l), NEW a, Listed(A, a)
    PROVE  freeMem([data |-> D, algs |-> A], h)
           = [data |-> Replaced(D, d, h, Gone(f, n)), algs |-> Without(A, a, n)]
<1> USE DEF Listed, Object, Inference, Replaced, Gone, Without
<1>1. \A x : [D[h] EXCEPT !.live = x] = [fg |-> f, alg |-> n, live |-> x]
  OBVIOUS
<1>2. [D[h] EXCEPT !.live = FALSE] = [fg |-> f, alg |-> n, live |-> FALSE]
  BY <1>1
<1>3. PICK new : new = [fg |-> f, alg |-> n, live |-> FALSE]
  OBVIOUS
<1>4. [D EXCEPT ![h] = new] = [i \in 1 .. d |-> IF i = h THEN new ELSE D[i]]
  OBVIOUS
<1>5. freeMem([data |-> D, algs |-> A], h)
      = [data |-> [D EXCEPT ![h] = [D[h] EXCEPT !.live = FALSE]],
         algs |-> [i \in DOMAIN A |-> IF i = n THEN [A[i] EXCEPT !.live = FALSE] ELSE A[i]]]
  <2>1. PICK e : e = [data |-> D, algs |-> A]
    OBVIOUS
  <2>2. e.data = D /\ e.algs = A /\ e.data[h].alg = n
    BY <2>1
  <2>3. freeMem(e, h) = [data |-> [D EXCEPT ![h].live = FALSE],
                         algs |-> [i \in DOMAIN A |-> IF i = n THEN [A[i] EXCEPT !.live = FALSE] ELSE A[i]]]
    BY <2>2 DEF freeMem
  <2>4. [D EXCEPT ![h].live = FALSE] = [D EXCEPT ![h] = [D[h] EXCEPT !.live = FALSE]]
    OBVIOUS
  <2> QED BY <2>1, <2>3, <2>4
<1>6. DOMAIN A = 1 .. a
  OBVIOUS
<1> QED BY <1>2, <1>3, <1>4, <1>5, <1>6

(* Calls that are not about a handle leave it as it was.                    *)
LEMMA DataStays ==
    ASSUME NEW k \in 0 .. 5 * Population + 1, NEW h \in 1 .. Population + 1, NEW seed,
           h # 1 => k + 1 # 3 * h - 3 /\ k + 1 # 3 * h - 2, k + 1 # 4 * Population + 1 + h
    PROVE  DataAt(k + 1, h, seed) = DataAt(k, h, seed)
<1>1. Population \in Nat /\ k \in Nat /\ h \in Nat
  BY JavaMainIs
<1>2. Lives(k + 1, h) = Lives(k, h)
  BY <1>1 DEF Lives
<1>3. CASE h = 1
  BY <1>2, <1>3 DEF DataAt
<1>4. CASE h # 1
  <2>1. (3 * h - 3 <= k <=> 3 * h - 3 <= k + 1) /\ (3 * h - 2 <= k <=> 3 * h - 2 <= k + 1)
    BY <1>1, <1>4
  <2> QED BY <1>2, <1>4, <2>1 DEF DataAt
<1> QED BY <1>3, <1>4

(* Only runEM and freeMem of a handle change what its algorithm should be   *)
(* like.                                                                    *)
LEMMA AlgStays ==
    ASSUME NEW k \in 0 .. 5 * Population + 1, NEW i \in 1 .. Population, NEW seed,
           k + 1 # 3 * Population + i + 1, k + 1 # 4 * Population + 2 + i
    PROVE  AlgAt(k + 1, i, seed) = AlgAt(k, i, seed)
<1>1. Population \in Nat /\ k \in Nat /\ i \in Nat
  BY JavaMainIs
<1>2. Lives(k + 1, i + 1) = Lives(k, i + 1)
  BY <1>1 DEF Lives
<1>3. 3 * Population + i + 1 <= k <=> 3 * Population + i + 1 <= k + 1
  BY <1>1
<1> QED BY <1>2, <1>3 DEF AlgAt

(* Only runEM adds a result.                                                *)
LEMMA RanStays ==
    ASSUME NEW k \in 0 .. 5 * Population + 1, \A h \in 2 .. Population + 1 : k + 1 # 3 * Population + h
    PROVE  Ran(k + 1) = Ran(k)
<1>1. Population \in Nat /\ k \in Nat
  BY JavaMainIs
<1>2. \A h \in 2 .. Population + 1 : 3 * Population + h <= k <=> 3 * Population + h <= k + 1
  BY <1>1
<1> QED BY <1>2 DEF Ran

(* The first call makes the first handle, on a heap with nothing in it.     *)
LEMMA CreateIs ==
    ASSUME NEW seed, NEW old
    PROVE  /\ CallsMade(1, 1, 1, 0)
           /\ \A d, a : CallsMade(0, d, 0, a) => createDai(MemoryAt(0, d, a, old)) = MemoryAt(1, 1, 0, seed)
           /\ Ran(0) = {} /\ Ran(1) = {}
<1>1. Population \in Nat
  BY JavaMainIs
<1>2. CallsMade(1, 1, 1, 0)
  BY <1>1 DEF CallsMade
<1>3. ASSUME NEW d, NEW a, CallsMade(0, d, 0, a)
      PROVE  createDai(MemoryAt(0, d, a, old)) = MemoryAt(1, 1, 0, seed)
  <2>1. d = 0 /\ a = 0
    <3>1. d \in Nat /\ a \in 0 .. Population /\ ~(d >= 1)
      BY <1>1, <1>3 DEF CallsMade
    <3>2. a >= 1 => 2 \in 2 .. Population + 1 /\ 2 <= a + 1
      BY <1>1, <3>1
    <3>3. ~(a >= 1)
      BY <1>3, <3>2 DEF CallsMade
    <3> QED BY <3>1, <3>3
  <2>2. MemoryAt(0, d, a, old) = [data |-> << >>, algs |-> << >>]
    BY <2>1 DEF MemoryAt
  <2>3. createDai(MemoryAt(0, d, a, old)) = [data |-> <<Data(FromFile, Null)>>, algs |-> << >>]
    BY <2>2 DEF createDai
  <2>6. DataAt(1, 1, seed) = Data(FromFile, Null)
    <3>1. Lives(1, 1) = TRUE
      BY <1>1 DEF Lives
    <3> QED BY <3>1 DEF DataAt, Data
  <2>7. [h \in 1 .. 1 |-> DataAt(1, h, seed)] = <<Data(FromFile, Null)>>
    BY <2>6
  <2>8. [i \in 1 .. 0 |-> AlgAt(1, i, seed)] = << >>
    OBVIOUS
  <2> QED BY <2>3, <2>7, <2>8 DEF MemoryAt
<1>4. Ran(0) = {} /\ Ran(1) = {}
  BY <1>1 DEF Ran
<1> QED BY <1>2, <1>3, <1>4

(* What the next call is decides which of the three counts goes up, and by  *)
(* one.                                                                     *)
LEMMA CallsGoOn ==
    ASSUME NEW k \in 1 .. 5 * Population + 1, NEW d, NEW r, NEW a, CallsMade(k, d, r, a)
    PROVE  /\ \A h \in 2 .. Population + 1 :
                 /\ k + 1 = 3 * h - 4 => d = h - 1 /\ CallsMade(k + 1, h, r, a)
                 /\ k + 1 = 3 * h - 3 => r = h - 1 /\ h <= d /\ CallsMade(k + 1, d, h, a)
                 /\ k + 1 = 3 * h - 2 => a + 1 = h - 1 /\ h <= d /\ h <= r /\ CallsMade(k + 1, d, r, a + 1)
           /\ k >= 3 * Population + 1 =>
                 d = Population + 1 /\ r = Population + 1 /\ a = Population /\ CallsMade(k + 1, d, r, a)
<1>1. Population \in Nat /\ k \in Nat /\ d \in Nat /\ r \in Nat /\ a \in Nat
      /\ d <= Population + 1 /\ r <= Population + 1 /\ a <= Population /\ d >= 1 /\ r >= 1
  BY JavaMainIs DEF CallsMade
<1>2. \A x \in 2 .. Population + 1 : (x <= d <=> 3 * x - 4 <= k) /\ (x <= r <=> 3 * x - 3 <= k)
        /\ (x <= a + 1 <=> 3 * x - 2 <= k)
  BY DEF CallsMade
<1>3. ASSUME NEW e \in 1 .. Population + 1, NEW s \in 1 .. Population + 1, NEW b \in 0 .. Population,
             \A x \in 2 .. Population + 1 :
                (x <= e <=> 3 * x - 4 <= k + 1) /\ (x <= s <=> 3 * x - 3 <= k + 1)
                  /\ (x <= b + 1 <=> 3 * x - 2 <= k + 1)
      PROVE  CallsMade(k + 1, e, s, b)
  BY <1>1, <1>3 DEF CallsMade
<1>4. ASSUME NEW h \in 2 .. Population + 1, k + 1 = 3 * h - 4 PROVE d = h - 1 /\ CallsMade(k + 1, h, r, a)
  <2>1. ~(h <= d)
    BY <1>1, <1>2, <1>4
  <2>2. h > 2 => h - 1 \in 2 .. Population + 1 /\ 3 * (h - 1) - 4 <= k
    BY <1>1, <1>4
  <2>3. d = h - 1
    <3>1. CASE h = 2
      BY <1>1, <2>1, <3>1
    <3>2. CASE h > 2
      <4>1. PICK x \in 2 .. Population + 1 : x = h - 1 /\ 3 * x - 4 <= k
        BY <2>2, <3>2
      <4>2. x <= d
        BY <1>2, <4>1
      <4> QED BY <1>1, <2>1, <4>1, <4>2
    <3> QED BY <3>1, <3>2
  <2>4. \A x \in 2 .. Population + 1 :
           (x <= h <=> 3 * x - 4 <= k + 1) /\ (x <= r <=> 3 * x - 3 <= k + 1) /\ (x <= a + 1 <=> 3 * x - 2 <= k + 1)
    BY <1>1, <1>2, <1>4
  <2>5. h \in 1 .. Population + 1 /\ r \in 1 .. Population + 1 /\ a \in 0 .. Population
    BY <1>1
  <2> QED BY <1>3, <2>3, <2>4, <2>5
<1>5. ASSUME NEW h \in 2 .. Population + 1, k + 1 = 3 * h - 3 PROVE r = h - 1 /\ h <= d /\ CallsMade(k + 1, d, h, a)
  <2>1. ~(h <= r)
    BY <1>1, <1>2, <1>5
  <2>2. h > 2 => h - 1 \in 2 .. Population + 1 /\ 3 * (h - 1) - 3 <= k
    BY <1>1, <1>5
  <2>3. r = h - 1 /\ h <= d
    BY <1>1, <1>2, <1>5, <2>1, <2>2
  <2>4. \A x \in 2 .. Population + 1 :
           (x <= d <=> 3 * x - 4 <= k + 1) /\ (x <= h <=> 3 * x - 3 <= k + 1) /\ (x <= a + 1 <=> 3 * x - 2 <= k + 1)
    BY <1>1, <1>2, <1>5
  <2>5. h \in 1 .. Population + 1 /\ d \in 1 .. Population + 1 /\ a \in 0 .. Population
    BY <1>1
  <2> QED BY <1>3, <2>3, <2>4, <2>5
<1>6. ASSUME NEW h \in 2 .. Population + 1, k + 1 = 3 * h - 2
      PROVE  a + 1 = h - 1 /\ h <= d /\ h <= r /\ CallsMade(k + 1, d, r, a + 1)
  <2>1. ~(h <= a + 1)
    BY <1>1, <1>2, <1>6
  <2>2. h > 2 => h - 1 \in 2 .. Population + 1 /\ 3 * (h - 1) - 2 <= k
    BY <1>1, <1>6
  <2>3. a + 1 = h - 1 /\ h <= d /\ h <= r
    BY <1>1, <1>2, <1>6, <2>1, <2>2
  <2>4. \A x \in 2 .. Population + 1 :
           (x <= d <=> 3 * x - 4 <= k + 1) /\ (x <= r <=> 3 * x - 3 <= k + 1)
             /\ (x <= (a + 1) + 1 <=> 3 * x - 2 <= k + 1)
    BY <1>1, <1>2, <1>6, <2>3
  <2>5. r \in 1 .. Population + 1 /\ d \in 1 .. Population + 1 /\ a + 1 \in 0 .. Population
    BY <1>1, <2>3
  <2> QED BY <1>3, <2>3, <2>4, <2>5
<1>7. ASSUME k >= 3 * Population + 1
      PROVE  d = Population + 1 /\ r = Population + 1 /\ a = Population /\ CallsMade(k + 1, d, r, a)
  <2>1. d = Population + 1 /\ r = Population + 1 /\ a = Population
    <3>1. CASE Population = 0
      BY <1>1, <3>1
    <3>2. CASE Population # 0
      <4>1. Population + 1 \in 2 .. Population + 1
        BY <1>1, <3>2
      <4> QED BY <1>1, <1>2, <1>7, <4>1
    <3> QED BY <3>1, <3>2
  <2>2. \A x \in 2 .. Population + 1 :
           (x <= d <=> 3 * x - 4 <= k + 1) /\ (x <= r <=> 3 * x - 3 <= k + 1) /\ (x <= a + 1 <=> 3 * x - 2 <= k + 1)
    BY <1>1, <1>7, <2>1
  <2>3. r \in 1 .. Population + 1 /\ d \in 1 .. Population + 1 /\ a \in 0 .. Population
    BY <1>1
  <2> QED BY <1>3, <2>1, <2>2, <2>3
<1> QED BY <1>4, <1>5, <1>6, <1>7

(* copyDai appends the object that the next call of the invariant           *)
(* describes.                                                               *)
LEMMA CopyIs ==
    ASSUME NEW k \in 1 .. 5 * Population + 1, NEW d, NEW r, NEW a, CallsMade(k, d, r, a), NEW seed,
           NEW h \in 2 .. Population + 1, k + 1 = 3 * h - 4
    PROVE  copyDai(MemoryAt(k, d, a, seed), 1) = MemoryAt(k + 1, h, a, seed)
<1>1. Population \in Nat /\ k \in Nat /\ h \in Nat /\ k \in 0 .. 5 * Population + 1
  BY JavaMainIs
<1>2. d = h - 1 /\ d \in Nat /\ 1 \in 1 .. d /\ a \in 0 .. Population /\ d + 1 = h
  <2>1. d = h - 1
    BY CallsGoOn
  <2>2. a \in 0 .. Population
    BY DEF CallsMade
  <2> QED BY <1>1, <2>1, <2>2
<1> DEFINE D == [x \in 1 .. d |-> DataAt(k, x, seed)]
<1>3. PICK new : new = Data(FromFile, Unassigned)
  OBVIOUS
<1>4. DataAt(k, 1, seed).fg = FromFile
  BY DEF DataAt
<1>5. copyDai(MemoryAt(k, d, a, seed), 1) = [data |-> Append(D, new), algs |-> [i \in 1 .. a |-> AlgAt(k, i, seed)]]
  <2> DEFINE A == [i \in 1 .. a |-> AlgAt(k, i, seed)]
  <2>1. PICK m : m = MemoryAt(k, d, a, seed)
    OBVIOUS
  <2>2. m = [data |-> D, algs |-> A]
    BY <2>1 DEF MemoryAt
  <2>3. D[1] = DataAt(k, 1, seed)
    BY <1>2
  <2>4. m.data[1].fg = FromFile /\ m.data = D
    BY <1>4, <2>2, <2>3
  <2>5. copyDai(m, 1) = [m EXCEPT !.data = Append(D, new)]
    BY <1>3, <2>4 DEF copyDai
  <2> HIDE DEF D, A
  <2>6. [m EXCEPT !.data = Append(D, new)] = [data |-> Append(D, new), algs |-> A]
    BY <2>2
  <2> QED BY <2>1, <2>5, <2>6 DEF A
<1>6. Append(D, new) = [i \in 1 .. d + 1 |-> IF i = d + 1 THEN new ELSE D[i]]
  <2>1. D = [i \in 1 .. d |-> D[i]]
    OBVIOUS
  <2> HIDE DEF D
  <2> QED BY <1>2, <2>1, Lengthened
<1>7. new = DataAt(k + 1, h, seed)
  <2>1. Lives(k + 1, h) = TRUE
    BY <1>1 DEF Lives
  <2>2. ~(3 * h - 3 <= k + 1) /\ ~(3 * h - 2 <= k + 1) /\ h # 1
    BY <1>1
  <2> QED BY <1>3, <2>1, <2>2 DEF DataAt, Data
<1>8. \A i \in 1 .. d : D[i] = DataAt(k + 1, i, seed)
  <2> SUFFICES ASSUME NEW i \in 1 .. d PROVE DataAt(k + 1, i, seed) = DataAt(k, i, seed)
    OBVIOUS
  <2>1. i \in 1 .. Population + 1 /\ k + 1 # 3 * i - 3 /\ k + 1 # 3 * i - 2 /\ k + 1 # 4 * Population + 1 + i
    BY <1>1, <1>2
  <2> QED BY <1>1, <2>1, DataStays
<1>9. \A i \in 1 .. a : AlgAt(k + 1, i, seed) = AlgAt(k, i, seed)
  <2> SUFFICES ASSUME NEW i \in 1 .. a PROVE AlgAt(k + 1, i, seed) = AlgAt(k, i, seed)
    OBVIOUS
  <2>1. i \in 1 .. Population /\ k + 1 # 3 * Population + i + 1 /\ k + 1 # 4 * Population + 2 + i
    BY <1>1, <1>2
  <2> QED BY <1>1, <2>1, AlgStays
<1>10. Append(D, new) = [i \in 1 .. h |-> DataAt(k + 1, i, seed)]
  <2> HIDE DEF D
  <2>1. \A i \in 1 .. h : (IF i = d + 1 THEN new ELSE D[i]) = DataAt(k + 1, i, seed)
    BY <1>2, <1>7, <1>8
  <2> QED BY <1>2, <1>6, <2>1
<1> HIDE DEF D
<1> QED BY <1>5, <1>9, <1>10 DEF MemoryAt

(* randomizeFG gives handle h the graph that is drawn next.                 *)
LEMMA RandomizeGoes ==
    ASSUME NEW k \in 1 .. 5 * Population + 1, NEW d, NEW r, NEW a, CallsMade(k, d, r, a), NEW seed,
           NEW h \in 2 .. Population + 1, k + 1 = 3 * h - 3
    PROVE  randomizeFG(MemoryAt(k, d, a, seed), h, DrawnFrom(seed, r)) = MemoryAt(k + 1, d, a, seed)
<1>1. Population \in Nat /\ k \in Nat /\ h \in Nat /\ k \in 0 .. 5 * Population + 1
  BY JavaMainIs
<1>2. d \in Nat /\ h \in 1 .. d /\ r = h - 1 /\ a \in 0 .. Population /\ d <= Population + 1
  <2>1. r = h - 1 /\ h <= d
    BY CallsGoOn
  <2>2. a \in 0 .. Population /\ d \in 0 .. Population + 1
    BY DEF CallsMade
  <2> QED BY <1>1, <2>1, <2>2
<1> DEFINE D == [x \in 1 .. d |-> DataAt(k, x, seed)]
           A == [i \in 1 .. a |-> AlgAt(k, i, seed)]
<1>3. MemoryAt(k, d, a, seed) = [data |-> D, algs |-> A] /\ Listed(D, d) /\ Listed(A, a)
  BY <1>2 DEF MemoryAt, Listed
<1>4. D[h] = Object(FromFile, Unassigned, TRUE)
  <2>1. D[h] = DataAt(k, h, seed)
    BY <1>2
  <2>2. Lives(k, h) = TRUE /\ ~(3 * h - 3 <= k) /\ ~(3 * h - 2 <= k) /\ h # 1
    BY <1>1 DEF Lives
  <2> QED BY <2>1, <2>2 DEF DataAt, Object
<1>5. DataAt(k + 1, h, seed) = [fg |-> DrawnFrom(seed, r), alg |-> Unassigned, live |-> TRUE]
  <2>1. Lives(k + 1, h) = TRUE /\ 3 * h - 3 <= k + 1 /\ ~(3 * h - 2 <= k + 1) /\ h # 1
    BY <1>1 DEF Lives
  <2> QED BY <1>2, <2>1 DEF DataAt
<1>6. \A i \in 1 .. d : i # h => DataAt(k + 1, i, seed) = D[i]
  <2> SUFFICES ASSUME NEW i \in 1 .. d, i # h PROVE DataAt(k + 1, i, seed) = DataAt(k, i, seed)
    OBVIOUS
  <2>1. i \in 1 .. Population + 1 /\ k + 1 # 3 * i - 3 /\ k + 1 # 3 * i - 2 /\ k + 1 # 4 * Population + 1 + i
    BY <1>1, <1>2
  <2> QED BY <1>1, <2>1, DataStays
<1>7. \A i \in 1 .. a : AlgAt(k + 1, i, seed) = A[i]
  <2> SUFFICES ASSUME NEW i \in 1 .. a PROVE AlgAt(k + 1, i, seed) = AlgAt(k, i, seed)
    OBVIOUS
  <2>1. i \in 1 .. Population /\ k + 1 # 3 * Population + i + 1 /\ k + 1 # 4 * Population + 2 + i
    BY <1>1, <1>2
  <2> QED BY <1>1, <2>1, AlgStays
<1> HIDE DEF D, A
<1>8. randomizeFG([data |-> D, algs |-> A], h, DrawnFrom(seed, r))
      = [data |-> [i \in 1 .. d |-> IF i = h THEN DataAt(k + 1, h, seed) ELSE D[i]], algs |-> A]
  <2>1. PICK l : l = TRUE
    OBVIOUS
  <2>2. D[h] = Object(FromFile, Unassigned, l)
    BY <1>4, <2>1
  <2>3. randomizeFG([data |-> D, algs |-> A], h, DrawnFrom(seed, r))
        = [data |-> Replaced(D, d, h, Object(DrawnFrom(seed, r), Unassigned, l)), algs |-> A]
    BY <1>2, <1>3, <2>2, RandomizedIs
  <2> QED BY <1>5, <2>1, <2>3 DEF Replaced, Object
<1>9. [i \in 1 .. d |-> IF i = h THEN DataAt(k + 1, h, seed) ELSE D[i]] = [i \in 1 .. d |-> DataAt(k + 1, i, seed)]
  BY <1>6
<1>10. A = [i \in 1 .. a |-> AlgAt(k + 1, i, seed)]
  BY <1>3, <1>7 DEF Listed
<1> QED BY <1>3, <1>8, <1>9, <1>10 DEF MemoryAt

(* prepEM comes when the graph of handle h is there, and makes algorithm h  *)
(* - 1.                                                                     *)
LEMMA PrepareGoes ==
    ASSUME NEW k \in 1 .. 5 * Population + 1, NEW d, NEW r, NEW a, CallsMade(k, d, r, a), NEW seed,
           NEW h \in 2 .. Population + 1, k + 1 = 3 * h - 2
    PROVE  PreparedEM(MemoryAt(k, d, a, seed), h) = MemoryAt(k + 1, d, a + 1, seed)
<1>1. Population \in Nat /\ k \in Nat /\ h \in Nat /\ k \in 0 .. 5 * Population + 1
  BY JavaMainIs
<1>2. d \in Nat /\ h \in 1 .. d /\ a \in Nat /\ a + 1 = h - 1 /\ a <= Population /\ d <= Population + 1
  <2>1. a + 1 = h - 1 /\ h <= d
    BY CallsGoOn
  <2>2. a \in 0 .. Population /\ d \in 0 .. Population + 1
    BY DEF CallsMade
  <2> QED BY <1>1, <2>1, <2>2
<1> DEFINE D == [x \in 1 .. d |-> DataAt(k, x, seed)]
           A == [i \in 1 .. a |-> AlgAt(k, i, seed)]
<1>3. MemoryAt(k, d, a, seed) = [data |-> D, algs |-> A] /\ Listed(D, d) /\ Listed(A, a)
  BY <1>2 DEF MemoryAt, Listed
<1>4. D[h] = Object(DrawnFrom(seed, h - 1), Unassigned, TRUE)
  <2>1. D[h] = DataAt(k, h, seed)
    BY <1>2
  <2>2. Lives(k, h) = TRUE /\ 3 * h - 3 <= k /\ ~(3 * h - 2 <= k) /\ h # 1
    BY <1>1 DEF Lives
  <2> QED BY <2>1, <2>2 DEF DataAt, Object
<1>5. DataAt(k + 1, h, seed) = [fg |-> DrawnFrom(seed, h - 1), alg |-> a + 1, live |-> TRUE]
  <2>1. Lives(k + 1, h) = TRUE /\ 3 * h - 3 <= k + 1 /\ 3 * h - 2 <= k + 1 /\ h # 1
    BY <1>1 DEF Lives
  <2> QED BY <1>2, <2>1 DEF DataAt
<1>6. AlgAt(k + 1, a + 1, seed) = [fg |-> DrawnFrom(seed, h - 1), iters |-> 0, live |-> TRUE]
  <2>1. Lives(k + 1, (a + 1) + 1) = TRUE /\ ~(3 * Population + (a + 1) + 1 <= k + 1)
    BY <1>1, <1>2 DEF Lives
  <2> QED BY <1>2, <2>1 DEF AlgAt
<1>7. \A i \in 1 .. d : i # h => DataAt(k + 1, i, seed) = D[i]
  <2> SUFFICES ASSUME NEW i \in 1 .. d, i # h PROVE DataAt(k + 1, i, seed) = DataAt(k, i, seed)
    OBVIOUS
  <2>1. i \in 1 .. Population + 1 /\ k + 1 # 3 * i - 3 /\ k + 1 # 3 * i - 2 /\ k + 1 # 4 * Population + 1 + i
    BY <1>1, <1>2
  <2> QED BY <1>1, <2>1, DataStays
<1>8. \A i \in 1 .. a : AlgAt(k + 1, i, seed) = A[i]
  <2> SUFFICES ASSUME NEW i \in 1 .. a PROVE AlgAt(k + 1, i, seed) = AlgAt(k, i, seed)
    OBVIOUS
  <2>1. i \in 1 .. Population /\ k + 1 # 3 * Population + i + 1 /\ k + 1 # 4 * Population + 2 + i
    BY <1>1, <1>2
  <2> QED BY <1>1, <2>1, AlgStays
<1> HIDE DEF D, A
<1>9. PreparedEM([data |-> D, algs |-> A], h)
      = [data |-> [i \in 1 .. d |-> IF i = h THEN DataAt(k + 1, h, seed) ELSE D[i]],
         algs |-> [i \in 1 .. a + 1 |-> IF i = a + 1 THEN AlgAt(k + 1, a + 1, seed) ELSE A[i]]]
  <2>1. PICK l, f, n : l = TRUE /\ f = DrawnFrom(seed, h - 1) /\ n = Unassigned
    OBVIOUS
  <2>2. D[h] = Object(f, n, l)
    BY <1>4, <2>1
  <2>3. PreparedEM([data |-> D, algs |-> A], h)
        = [data |-> Replaced(D, d, h, Object(f, a + 1, l)), algs |-> Replaced(A, a + 1, a + 1, Started(f))]
    <3>1. h \in 1 .. d /\ Listed(D, d) /\ Listed(A, a)
      BY <1>2, <1>3
    <3> QED BY <2>2, <3>1, PreparedIs
  <2> QED BY <1>5, <1>6, <2>1, <2>3 DEF Replaced, Object, Started
<1>10. [i \in 1 .. d |-> IF i = h THEN DataAt(k + 1, h, seed) ELSE D[i]] = [i \in 1 .. d |-> DataAt(k + 1, i, seed)]
  BY <1>7
<1>11. [i \in 1 .. a + 1 |-> IF i = a + 1 THEN AlgAt(k + 1, a + 1, seed) ELSE A[i]]
         = [i \in 1 .. a + 1 |-> AlgAt(k + 1, i, seed)]
  BY <1>2, <1>8
<1> QED BY <1>3, <1>9, <1>10, <1>11 DEF MemoryAt

(* The handle has been prepared, and its run has not been made.             *)
LEMMA RunGoes ==
    ASSUME NEW k \in 1 .. 5 * Population + 1, NEW d, NEW r, NEW a, CallsMade(k, d, r, a), NEW seed,
           NEW h \in 2 .. Population + 1, k + 1 = 3 * Population + h
    PROVE  /\ runEM(MemoryAt(k, d, a, seed), h) = MemoryAt(k + 1, d, a, seed)
           /\ MemoryAt(k, d, a, seed).data[h] = [fg |-> DrawnFrom(seed, h - 1), alg |-> h - 1, live |-> TRUE]
           /\ MemoryAt(k, d, a, seed).algs[h - 1] = [fg |-> DrawnFrom(seed, h - 1), iters |-> 0, live |-> TRUE]
           /\ MemoryAt(k + 1, d, a, seed).algs[h - 1].iters = NumIterations
           /\ h \in 1 .. d /\ h - 1 \in 1 .. a
<1>1. Population \in Nat /\ k \in Nat /\ h \in Nat /\ k \in 0 .. 5 * Population + 1 /\ k >= 3 * Population + 1
      /\ NumIterations \in Nat
  BY JavaMainIs, PrototypeAssumption
<1>2. d \in Nat /\ a \in Nat /\ d = Population + 1 /\ a = Population /\ h \in 1 .. d /\ h - 1 \in 1 .. a
  <2>1. d = Population + 1 /\ a = Population
    BY <1>1, CallsGoOn
  <2> QED BY <1>1, <2>1
<1> DEFINE D == [x \in 1 .. d |-> DataAt(k, x, seed)]
           A == [i \in 1 .. a |-> AlgAt(k, i, seed)]
<1>3. MemoryAt(k, d, a, seed) = [data |-> D, algs |-> A] /\ Listed(D, d) /\ Listed(A, a)
  BY <1>2 DEF MemoryAt, Listed
<1>4. D[h] = Object(DrawnFrom(seed, h - 1), h - 1, TRUE)
  <2>1. D[h] = DataAt(k, h, seed)
    BY <1>2
  <2>2. Lives(k, h) = TRUE /\ 3 * h - 3 <= k /\ 3 * h - 2 <= k /\ h # 1
    BY <1>1 DEF Lives
  <2> QED BY <2>1, <2>2 DEF DataAt, Object
<1>5. A[h - 1] = Inference(DrawnFrom(seed, h - 1), 0, TRUE)
  <2>1. A[h - 1] = AlgAt(k, h - 1, seed)
    BY <1>2
  <2>2. Lives(k, (h - 1) + 1) = TRUE /\ ~(3 * Population + (h - 1) + 1 <= k)
    BY <1>1 DEF Lives
  <2> QED BY <2>1, <2>2 DEF AlgAt, Inference
<1>6. AlgAt(k + 1, h - 1, seed) = [fg |-> DrawnFrom(seed, h - 1), iters |-> 0 + NumIterations, live |-> TRUE]
  <2>1. Lives(k + 1, (h - 1) + 1) = TRUE /\ 3 * Population + (h - 1) + 1 <= k + 1 /\ 0 + NumIterations = NumIterations
    BY <1>1 DEF Lives
  <2> QED BY <2>1 DEF AlgAt
<1>7. \A i \in 1 .. d : DataAt(k + 1, i, seed) = D[i]
  <2> SUFFICES ASSUME NEW i \in 1 .. d PROVE DataAt(k + 1, i, seed) = DataAt(k, i, seed)
    OBVIOUS
  <2>1. i \in 1 .. Population + 1 /\ k + 1 # 4 * Population + 1 + i
    BY <1>1, <1>2
  <2>2. i # 1 => k + 1 # 3 * i - 3 /\ k + 1 # 3 * i - 2
    BY <1>1, <1>2
  <2> QED BY <1>1, <2>1, <2>2, DataStays
<1>8. \A i \in 1 .. a : i # h - 1 => AlgAt(k + 1, i, seed) = A[i]
  <2> SUFFICES ASSUME NEW i \in 1 .. a, i # h - 1 PROVE AlgAt(k + 1, i, seed) = AlgAt(k, i, seed)
    OBVIOUS
  <2>1. i \in 1 .. Population /\ k + 1 # 3 * Population + i + 1 /\ k + 1 # 4 * Population + 2 + i
    BY <1>1, <1>2
  <2> QED BY <1>1, <2>1, AlgStays
<1> HIDE DEF D, A
<1>9. runEM([data |-> D, algs |-> A], h)
      = [data |-> D, algs |-> [i \in 1 .. a |-> IF i = h - 1 THEN AlgAt(k + 1, h - 1, seed) ELSE A[i]]]
  <2>1. D[h].alg = h - 1
    BY <1>4 DEF Object
  <2>2. PICK l : l = TRUE
    OBVIOUS
  <2>3. A[h - 1] = Inference(DrawnFrom(seed, h - 1), 0, l)
    BY <1>5, <2>2
  <2>4. runEM([data |-> D, algs |-> A], h)
        = [data |-> D, algs |-> Replaced(A, a, h - 1, Inference(DrawnFrom(seed, h - 1), 0 + NumIterations, l))]
    BY <1>2, <1>3, <2>1, <2>3, RunIs
  <2> QED BY <1>6, <2>2, <2>4 DEF Replaced, Inference
<1>10. D = [i \in 1 .. d |-> DataAt(k + 1, i, seed)]
  BY <1>3, <1>7 DEF Listed
<1>11. [i \in 1 .. a |-> IF i = h - 1 THEN AlgAt(k + 1, h - 1, seed) ELSE A[i]]
         = [i \in 1 .. a |-> AlgAt(k + 1, i, seed)]
  BY <1>8
<1>12. MemoryAt(k + 1, d, a, seed).algs[h - 1].iters = NumIterations
  <2>1. MemoryAt(k + 1, d, a, seed).algs[h - 1] = AlgAt(k + 1, h - 1, seed)
    BY <1>2 DEF MemoryAt
  <2> QED BY <1>1, <1>6, <2>1
<1>13. MemoryAt(k, d, a, seed).data = D /\ MemoryAt(k, d, a, seed).algs = A
  BY <1>3
<1> QED BY <1>2, <1>3, <1>4, <1>5, <1>9, <1>10, <1>11, <1>12, <1>13 DEF MemoryAt, Object, Inference

(* freeMem finds its objects there, and only these go.                      *)
LEMMA FreeGoes ==
    ASSUME NEW k \in 1 .. 5 * Population + 1, NEW d, NEW r, NEW a, CallsMade(k, d, r, a), NEW seed,
           NEW h \in 1 .. Population + 1, k + 1 = 4 * Population + 1 + h
    PROVE  /\ freeMem(MemoryAt(k, d, a, seed), h) = MemoryAt(k + 1, d, a, seed)
           /\ h \in 1 .. d /\ MemoryAt(k, d, a, seed).data[h].live
           /\ MemoryAt(k, d, a, seed).data[h].alg = h - 1
           /\ h # 1 => h - 1 \in 1 .. a /\ MemoryAt(k, d, a, seed).algs[h - 1].live
<1>1. Population \in Nat /\ k \in Nat /\ h \in Nat /\ k \in 0 .. 5 * Population + 1 /\ k >= 4 * Population + 1
      /\ k >= 3 * Population + 1
  BY JavaMainIs
<1>2. d \in Nat /\ a \in Nat /\ d = Population + 1 /\ a = Population /\ h \in 1 .. d /\ (h # 1 => h - 1 \in 1 .. a)
  <2>1. d = Population + 1 /\ a = Population
    BY <1>1, CallsGoOn
  <2> QED BY <1>1, <2>1
<1> DEFINE D == [x \in 1 .. d |-> DataAt(k, x, seed)]
           A == [i \in 1 .. a |-> AlgAt(k, i, seed)]
           f == IF h = 1 THEN FromFile ELSE DrawnFrom(seed, h - 1)
<1>3. MemoryAt(k, d, a, seed) = [data |-> D, algs |-> A] /\ Listed(D, d) /\ Listed(A, a)
  BY <1>2 DEF MemoryAt, Listed
<1>4. D[h] = [fg |-> f, alg |-> h - 1, live |-> TRUE]
  <2>1. D[h] = DataAt(k, h, seed)
    BY <1>2
  <2>2. Lives(k, h) = TRUE /\ (h # 1 => 3 * h - 3 <= k /\ 3 * h - 2 <= k)
          /\ (h = 1 => h - 1 = Null /\ Lives(k, 1) = TRUE)
    BY <1>1 DEF Lives, Null
  <2> QED BY <2>1, <2>2 DEF DataAt
<1>5. DataAt(k + 1, h, seed) = Gone(f, h - 1)
  <2>1. /\ Lives(k + 1, h) = FALSE /\ (h # 1 => 3 * h - 3 <= k + 1 /\ 3 * h - 2 <= k + 1)
        /\ (h = 1 => h - 1 = Null /\ Lives(k + 1, 1) = FALSE)
    BY <1>1 DEF Lives, Null
  <2> QED BY <2>1 DEF DataAt, Gone
<1>6. \A i \in 1 .. d : i # h => DataAt(k + 1, i, seed) = D[i]
  <2> SUFFICES ASSUME NEW i \in 1 .. d, i # h PROVE DataAt(k + 1, i, seed) = DataAt(k, i, seed)
    OBVIOUS
  <2>1. i \in 1 .. Population + 1 /\ k + 1 # 4 * Population + 1 + i
    BY <1>1, <1>2
  <2>2. i # 1 => k + 1 # 3 * i - 3 /\ k + 1 # 3 * i - 2
    BY <1>1, <1>2
  <2> QED BY <1>1, <2>1, <2>2, DataStays
<1>7. \A i \in 1 .. a : AlgAt(k + 1, i, seed) = IF i = h - 1 THEN [A[i] EXCEPT !.live = FALSE] ELSE A[i]
  <2> SUFFICES ASSUME NEW i \in 1 .. a
               PROVE  AlgAt(k + 1, i, seed) = IF i
                        = h - 1 THEN [AlgAt(k, i, seed) EXCEPT !.live = FALSE] ELSE AlgAt(k, i, seed)
    OBVIOUS
  <2>1. i \in 1 .. Population /\ i \in Nat
    BY <1>1, <1>2
  <2>2. CASE i # h - 1
    <3>1. k + 1 # 3 * Population + i + 1 /\ k + 1 # 4 * Population + 2 + i
      BY <1>1, <2>1, <2>2
    <3> QED BY <1>1, <2>1, <2>2, <3>1, AlgStays
  <2>3. CASE i = h - 1
    <3>1. Lives(k + 1, i + 1) = FALSE /\ 3 * Population + i + 1 <= k + 1 /\ 3 * Population + i + 1 <= k
      BY <1>1, <2>1, <2>3 DEF Lives
    <3>2. PICK l : l = Lives(k + 1, i + 1)
      OBVIOUS
    <3>3. [AlgAt(k, i, seed) EXCEPT !.live = l] = AlgAt(k + 1, i, seed)
      BY <3>1, <3>2 DEF AlgAt
    <3>4. [AlgAt(k, i, seed) EXCEPT !.live = FALSE] = [AlgAt(k, i, seed) EXCEPT !.live = l]
      BY <3>1, <3>2
    <3> QED BY <2>3, <3>3, <3>4
  <2> QED BY <2>2, <2>3
<1>8. MemoryAt(k, d, a, seed).data[h].live /\ MemoryAt(k, d, a, seed).data[h].alg = h - 1
  BY <1>3, <1>4
<1>9. ASSUME h # 1 PROVE MemoryAt(k, d, a, seed).algs[h - 1].live
  <2>1. MemoryAt(k, d, a, seed).algs[h - 1] = AlgAt(k, h - 1, seed)
    BY <1>2, <1>9 DEF MemoryAt
  <2>2. Lives(k, (h - 1) + 1) = TRUE
    BY <1>1 DEF Lives
  <2> QED BY <2>1, <2>2 DEF AlgAt
<1> HIDE DEF D, A, f
<1>10. freeMem([data |-> D, algs |-> A], h)
         = [data |-> Replaced(D, d, h, Gone(f, h - 1)), algs |-> Without(A, a, h - 1)]
  <2>1. PICK l : l = TRUE
    OBVIOUS
  <2>2. D[h] = Object(f, h - 1, l)
    BY <1>4, <2>1 DEF Object
  <2> QED BY <1>2, <1>3, <2>2, FreedIs
<1>11. Replaced(D, d, h, Gone(f, h - 1)) = [i \in 1 .. d |-> DataAt(k + 1, i, seed)]
  BY <1>5, <1>6 DEF Replaced
<1>12. Without(A, a, h - 1) = [i \in 1 .. a |-> AlgAt(k + 1, i, seed)]
  BY <1>7 DEF Without
<1>13. freeMem(MemoryAt(k, d, a, seed), h) = MemoryAt(k + 1, d, a, seed)
  BY <1>3, <1>10, <1>11, <1>12 DEF MemoryAt
<1> QED BY <1>2, <1>8, <1>9, <1>13

(* runEM of handle h is the one that adds its result.                       *)
LEMMA RanGoesOn ==
    ASSUME NEW k \in 1 .. 5 * Population + 1, NEW h \in 2 .. Population + 1, k + 1 = 3 * Population + h
    PROVE  Ran(k + 1) = Ran(k) \cup {h}
<1>1. Population \in Nat /\ k \in Nat /\ h \in Nat
  BY JavaMainIs
<1>2. \A x \in 2 .. Population + 1 : 3 * Population + x <= k + 1 <=> 3 * Population + x <= k \/ x = h
  BY <1>1
<1> QED BY <1>2 DEF Ran

(* What a native method does for its process.                               *)
LEMMA CallIs ==
    ASSUME NEW p, Native(p), NEW method, NEW h, Head(programs[p]) = NativeCall(method, h)
    PROVE  /\ programs' = [programs EXCEPT ![p] = Tail(programs[p])]
           /\ UNCHANGED <<failures, seconds>>
           /\ method = "createDai" =>
                 /\ memory' = [memory EXCEPT ![p] = createDai(memory[p])] /\ results' = results
                 /\ generators' = [generators EXCEPT ![p] = [seed |-> seconds, drawn |-> 1]]
           /\ method = "copyDai" =>
                 /\ memory' = [memory EXCEPT ![p] = copyDai(memory[p], h)] /\ results' = results
                 /\ generators' = [generators EXCEPT ![p] = generators[p]]
           /\ method = "randomizeFG" =>
                 /\ memory' = [memory EXCEPT ![p] = randomizeFG(memory[p], h, generators[p])] /\ results' = results
                 /\ generators' = [generators EXCEPT ![p] = [seed |-> generators[p].seed, drawn |-> generators[p].drawn + 1]]
           /\ method = "prepEM" =>
                 /\ memory' = [memory EXCEPT ![p] = PreparedEM(memory[p], h)] /\ results' = results
                 /\ generators' = [generators EXCEPT ![p] = generators[p]]
           /\ method = "runEM" =>
                 /\ memory' = [memory EXCEPT ![p] = runEM(memory[p], h)]
                 /\ generators' = [generators EXCEPT ![p] = generators[p]]
                 /\ results' = results \cup
                       {[process |-> p, handle |-> h, fg |-> memory[p].algs[memory[p].data[h].alg].fg,
                         asked |-> memory[p].data[h].fg,
                         iters |-> runEM(memory[p], h).algs[memory[p].data[h].alg].iters]}
           /\ method = "freeMem" =>
                 /\ memory' = [memory EXCEPT ![p] = freeMem(memory[p], h)] /\ results' = results
                 /\ generators' = [generators EXCEPT ![p] = generators[p]]
<1>1. Head(programs[p]).method = method /\ Head(programs[p]).handle = h
  BY DEF NativeCall
<1>2. /\ programs' = [programs EXCEPT ![p] = Tail(programs[p])] /\ UNCHANGED <<failures, seconds>>
  BY DEF Native
<1>3. ASSUME method = "createDai"
      PROVE  /\ memory' = [memory EXCEPT ![p] = createDai(memory[p])] /\ results' = results
             /\ generators' = [generators EXCEPT ![p] = [seed |-> seconds, drawn |-> 1]]
  BY <1>1, <1>3 DEF Native
<1>4. ASSUME method = "copyDai"
      PROVE  /\ memory' = [memory EXCEPT ![p] = copyDai(memory[p], h)] /\ results' = results
             /\ generators' = [generators EXCEPT ![p] = generators[p]]
  BY <1>1, <1>4 DEF Native
<1>5. ASSUME method = "randomizeFG"
      PROVE  /\ memory' = [memory EXCEPT ![p] = randomizeFG(memory[p], h, generators[p])] /\ results' = results
             /\ generators' = [generators EXCEPT ![p] = [seed |-> generators[p].seed, drawn |-> generators[p].drawn + 1]]
  BY <1>1, <1>5 DEF Native
<1>6. ASSUME method = "prepEM"
      PROVE  /\ memory' = [memory EXCEPT ![p] = PreparedEM(memory[p], h)] /\ results' = results
             /\ generators' = [generators EXCEPT ![p] = generators[p]]
  BY <1>1, <1>6 DEF Native
<1>7. ASSUME method = "runEM"
      PROVE  /\ memory' = [memory EXCEPT ![p] = runEM(memory[p], h)]
             /\ generators' = [generators EXCEPT ![p] = generators[p]]
             /\ results' = results \cup
                   {[process |-> p, handle |-> h, fg |-> memory[p].algs[memory[p].data[h].alg].fg,
                     asked |-> memory[p].data[h].fg,
                     iters |-> runEM(memory[p], h).algs[memory[p].data[h].alg].iters]}
  BY <1>1, <1>7 DEF Native
<1>8. ASSUME method = "freeMem"
      PROVE  /\ memory' = [memory EXCEPT ![p] = freeMem(memory[p], h)] /\ results' = results
             /\ generators' = [generators EXCEPT ![p] = generators[p]]
  BY <1>1, <1>8 DEF Native
<1> QED BY <1>2, <1>3, <1>4, <1>5, <1>6, <1>7, <1>8

(* How many calls DaiControl.main makes.                                    *)
JavaLength == 5 * Population + 2

(* After k calls, at the time that seeded the generator.                    *)
JavaState(k, d, r, a, seed) ==
    /\ k \in 0 .. JavaLength
    /\ CallsMade(k, d, r, a)
    /\ programs = [p \in {0} |-> SubSeq(JavaMain, k + 1, JavaLength)]
    /\ memory = [p \in {0} |-> MemoryAt(k, d, a, seed)]
    /\ generators = [p \in {0} |-> IF k = 0 THEN FromFile ELSE DrawnFrom(seed, r)]
    /\ results = {ResultOf(h, seed) : h \in Ran(k)}

(* The state of the program is that of some number of calls.                *)
JavaInv == \E k, d, r, a, seed : JavaState(k, d, r, a, seed)

(* Which call comes next, and what remains after it.                        *)
LEMMA JavaCalls ==
    ASSUME NEW k \in 0 .. JavaLength, programs = [p \in {0} |-> SubSeq(JavaMain, k + 1, JavaLength)]
    PROVE  /\ programs[0] = << >> <=> k = JavaLength
           /\ k < JavaLength =>
                 /\ Head(programs[0]) = JavaMain[k + 1]
                 /\ [programs EXCEPT ![0] = Tail(programs[0])]
                      = [p \in {0} |-> SubSeq(JavaMain, (k + 1) + 1, JavaLength)]
<1> DEFINE S == {JavaMain[i] : i \in 1 .. 5 * Population + 2}
<1>1. JavaMain \in Seq(S) /\ Len(JavaMain) = JavaLength
  BY JavaMainIs DEF JavaLength
<1>2. programs[0] = SubSeq(JavaMain, k + 1, JavaLength)
  OBVIOUS
<1> HIDE DEF S
<1>3. /\ programs[0] = << >> <=> k = JavaLength
      /\ k < JavaLength => Head(programs[0]) = JavaMain[k + 1]
                           /\ Tail(programs[0]) = SubSeq(JavaMain, (k + 1) + 1, JavaLength)
  BY <1>1, <1>2, Consumed
<1> QED BY <1>3

(* The first call seeds the generator.                                      *)
LEMMA JavaCreates ==
    ASSUME NEW d, NEW r, NEW a, NEW seed, JavaState(0, d, r, a, seed), Native(0)
    PROVE  JavaInv'
<1>1. Population \in Nat /\ 0 \in 0 .. JavaLength /\ 0 < JavaLength /\ 1 \in 0 .. JavaLength
        /\ JavaMain[0 + 1] = NativeCall("createDai", 1)
  BY JavaMainIs DEF JavaLength
<1>2. /\ CallsMade(0, d, r, a) /\ programs = [p \in {0} |-> SubSeq(JavaMain, 0 + 1, JavaLength)]
      /\ memory = [p \in {0} |-> MemoryAt(0, d, a, seed)] /\ generators = [p \in {0} |-> FromFile]
      /\ results = {ResultOf(h, seed) : h \in Ran(0)}
  BY DEF JavaState
<1>3. Head(programs[0]) = NativeCall("createDai", 1)
      /\ [programs EXCEPT ![0] = Tail(programs[0])] = [p \in {0} |-> SubSeq(JavaMain, 1 + 1, JavaLength)]
  <2>1. PICK k \in 0 .. JavaLength : k = 0 /\ k < JavaLength
    BY <1>1
  <2>2. programs = [p \in {0} |-> SubSeq(JavaMain, k + 1, JavaLength)]
    BY <1>2, <2>1
  <2>3. Head(programs[0]) = JavaMain[k + 1]
        /\ [programs EXCEPT ![0] = Tail(programs[0])] = [p \in {0} |-> SubSeq(JavaMain, (k + 1) + 1, JavaLength)]
    BY <2>1, <2>2, JavaCalls
  <2>4. k + 1 = 1 /\ 0 + 1 = 1
    BY <2>1
  <2> QED BY <1>1, <2>3, <2>4
<1>4. PICK t : t = seconds
  OBVIOUS
<1>5. /\ programs' = [p \in {0} |-> SubSeq(JavaMain, 1 + 1, JavaLength)]
      /\ memory' = [memory EXCEPT ![0] = createDai(memory[0])] /\ results' = results
      /\ generators' = [generators EXCEPT ![0] = DrawnFrom(t, 1)]
  <2>1. PICK x : x = "createDai"
    OBVIOUS
  <2>2. Head(programs[0]) = NativeCall(x, 1)
    BY <1>3, <2>1
  <2>3. programs' = [programs EXCEPT ![0] = Tail(programs[0])]
    BY <2>2, CallIs
  <2>4. x = "createDai" =>
           /\ memory' = [memory EXCEPT ![0] = createDai(memory[0])] /\ results' = results
           /\ generators' = [generators EXCEPT ![0] = [seed |-> seconds, drawn |-> 1]]
    BY <2>2, CallIs
  <2> QED BY <1>3, <1>4, <2>1, <2>3, <2>4 DEF DrawnFrom
<1>6. r = 0
  <2>1. r \in 0 .. Population + 1 /\ ~(r >= 1)
    BY <1>1, <1>2 DEF CallsMade
  <2> QED BY <1>1, <2>1
<1>7. /\ createDai(MemoryAt(0, d, a, seed)) = MemoryAt(1, 1, 0, t) /\ CallsMade(1, 1, 1, 0)
      /\ Ran(0) = {} /\ Ran(1) = {}
  BY <1>2, <1>6, CreateIs
<1>8. memory' = [p \in {0} |-> MemoryAt(1, 1, 0, t)] /\ generators' = [p \in {0} |-> DrawnFrom(t, 1)] /\ results' = {}
  BY <1>2, <1>5, <1>7
<1>9. JavaState(1, 1, 1, 0, t)'
  <2>1. {ResultOf(h, t) : h \in Ran(1)} = {}
    BY <1>7
  <2>2. (IF 1 = 0 THEN FromFile ELSE DrawnFrom(t, 1)) = DrawnFrom(t, 1)
    OBVIOUS
  <2> QED BY <1>1, <1>5, <1>7, <1>8, <2>1, <2>2 DEF JavaState
<1> QED BY <1>9 DEF JavaInv

(* What the state says to any later call.                                   *)
LEMMA JavaGoes ==
    ASSUME NEW k \in 1 .. JavaLength - 1, NEW d, NEW r, NEW a, NEW seed, JavaState(k, d, r, a, seed), Native(0),
           NEW method, NEW h, JavaMain[k + 1] = NativeCall(method, h)
    PROVE  /\ k + 1 \in 0 .. JavaLength /\ k \in 1 .. 5 * Population + 1 /\ k \in 0 .. 5 * Population + 1
           /\ CallsMade(k, d, r, a)
           /\ Head(programs[0]) = NativeCall(method, h)
           /\ programs' = [p \in {0} |-> SubSeq(JavaMain, (k + 1) + 1, JavaLength)]
           /\ memory = [p \in {0} |-> MemoryAt(k, d, a, seed)] /\ generators = [p \in {0} |-> DrawnFrom(seed, r)]
           /\ results = {ResultOf(x, seed) : x \in Ran(k)}
<1>1. /\ Population \in Nat /\ k \in 0 .. JavaLength /\ k < JavaLength /\ k # 0
      /\ k + 1 \in 0 .. JavaLength /\ k \in 1 .. 5 * Population + 1 /\ k \in 0 .. 5 * Population + 1
  BY JavaMainIs DEF JavaLength
<1>2. /\ CallsMade(k, d, r, a) /\ programs = [p \in {0} |-> SubSeq(JavaMain, k + 1, JavaLength)]
      /\ memory = [p \in {0} |-> MemoryAt(k, d, a, seed)] /\ generators = [p \in {0} |-> DrawnFrom(seed, r)]
      /\ results = {ResultOf(x, seed) : x \in Ran(k)}
  BY <1>1 DEF JavaState
<1>3. /\ Head(programs[0]) = JavaMain[k + 1]
      /\ [programs EXCEPT ![0] = Tail(programs[0])] = [p \in {0} |-> SubSeq(JavaMain, (k + 1) + 1, JavaLength)]
  BY <1>1, <1>2, JavaCalls
<1>4. programs' = [programs EXCEPT ![0] = Tail(programs[0])]
  BY DEF Native
<1> QED BY <1>1, <1>2, <1>3, <1>4

(* The state after a call is that of one call more.                         *)
LEMMA JavaArrives ==
    ASSUME NEW k \in 1 .. JavaLength, NEW d, NEW r, NEW a, NEW seed, CallsMade(k, d, r, a),
           programs' = [p \in {0} |-> SubSeq(JavaMain, k + 1, JavaLength)],
           memory' = [p \in {0} |-> MemoryAt(k, d, a, seed)],
           generators' = [p \in {0} |-> DrawnFrom(seed, r)],
           results' = {ResultOf(h, seed) : h \in Ran(k)}
    PROVE  JavaInv'
<1>1. k # 0 /\ k \in 0 .. JavaLength
  BY JavaMainIs DEF JavaLength
<1>2. JavaState(k, d, r, a, seed)'
  BY <1>1 DEF JavaState
<1> QED BY <1>2 DEF JavaInv

(* A call of copyDai.                                                       *)
LEMMA JavaCopies ==
    ASSUME NEW k \in 1 .. JavaLength - 1, NEW d, NEW r, NEW a, NEW seed, JavaState(k, d, r, a, seed), Native(0),
           NEW h \in 2 .. Population + 1, k + 1 = 3 * h - 4
    PROVE  JavaInv'
<1>1. PICK x : x = "copyDai"
  OBVIOUS
<1>2. JavaMain[k + 1] = NativeCall(x, 1)
  BY <1>1, JavaMainIs
<1>3. /\ k + 1 \in 0 .. JavaLength /\ k \in 1 .. 5 * Population + 1 /\ k \in 0 .. 5 * Population + 1
      /\ CallsMade(k, d, r, a)
      /\ Head(programs[0]) = NativeCall(x, 1)
      /\ programs' = [p \in {0} |-> SubSeq(JavaMain, (k + 1) + 1, JavaLength)]
      /\ memory = [p \in {0} |-> MemoryAt(k, d, a, seed)] /\ generators = [p \in {0} |-> DrawnFrom(seed, r)]
      /\ results = {ResultOf(y, seed) : y \in Ran(k)}
  BY <1>2, JavaGoes
<1>4. Population \in Nat /\ k \in Nat /\ h \in Nat /\ k + 1 \in 1 .. JavaLength
  BY <1>3, JavaMainIs DEF JavaLength
<1>5. memory[0] = MemoryAt(k, d, a, seed) /\ generators[0] = DrawnFrom(seed, r)
  BY <1>3
<1>6. x = "copyDai" =>
         /\ memory' = [memory EXCEPT ![0] = copyDai(memory[0], 1)] /\ results' = results
         /\ generators' = [generators EXCEPT ![0] = generators[0]]
  <2>1. Head(programs[0]) = NativeCall(x, 1)
    BY <1>3
  <2> QED BY <2>1, CallIs
<1>7. CallsMade(k + 1, h, r, a) /\ d = h - 1
  BY <1>3, <1>4, CallsGoOn
<1>8. copyDai(memory[0], 1) = MemoryAt(k + 1, h, a, seed)
  BY <1>3, <1>5, CopyIs
<1>9. Ran(k + 1) = Ran(k)
  <2>1. \A y \in 2 .. Population + 1 : k + 1 # 3 * Population + y
    BY <1>4
  <2> QED BY <1>3, <2>1, RanStays
<1>10. /\ memory' = [p \in {0} |-> MemoryAt(k + 1, h, a, seed)] /\ generators' = [p \in {0} |-> DrawnFrom(seed, r)]
       /\ results' = {ResultOf(y, seed) : y \in Ran(k + 1)}
  BY <1>1, <1>3, <1>5, <1>6, <1>7, <1>8, <1>9
<1> QED BY <1>3, <1>4, <1>7, <1>10, JavaArrives

(* A call of randomizeFG, which draws once.                                 *)
LEMMA JavaRandomizes ==
    ASSUME NEW k \in 1 .. JavaLength - 1, NEW d, NEW r, NEW a, NEW seed, JavaState(k, d, r, a, seed), Native(0),
           NEW h \in 2 .. Population + 1, k + 1 = 3 * h - 3
    PROVE  JavaInv'
<1>1. PICK x : x = "randomizeFG"
  OBVIOUS
<1>2. JavaMain[k + 1] = NativeCall(x, h)
  BY <1>1, JavaMainIs
<1>3. /\ k + 1 \in 0 .. JavaLength /\ k \in 1 .. 5 * Population + 1 /\ k \in 0 .. 5 * Population + 1
      /\ CallsMade(k, d, r, a)
      /\ Head(programs[0]) = NativeCall(x, h)
      /\ programs' = [p \in {0} |-> SubSeq(JavaMain, (k + 1) + 1, JavaLength)]
      /\ memory = [p \in {0} |-> MemoryAt(k, d, a, seed)] /\ generators = [p \in {0} |-> DrawnFrom(seed, r)]
      /\ results = {ResultOf(y, seed) : y \in Ran(k)}
  BY <1>2, JavaGoes
<1>4. Population \in Nat /\ k \in Nat /\ h \in Nat /\ k + 1 \in 1 .. JavaLength
  BY <1>3, JavaMainIs DEF JavaLength
<1>5. memory[0] = MemoryAt(k, d, a, seed) /\ generators[0] = DrawnFrom(seed, r)
  BY <1>3
<1>6. x = "randomizeFG" =>
         /\ memory' = [memory EXCEPT ![0] = randomizeFG(memory[0], h, generators[0])] /\ results' = results
         /\ generators' = [generators EXCEPT ![0] = [seed |-> generators[0].seed, drawn |-> generators[0].drawn + 1]]
  <2>1. Head(programs[0]) = NativeCall(x, h)
    BY <1>3
  <2> QED BY <2>1, CallIs
<1>7. CallsMade(k + 1, d, h, a) /\ r + 1 = h
  BY <1>3, <1>4, CallsGoOn
<1>8. randomizeFG(memory[0], h, generators[0]) = MemoryAt(k + 1, d, a, seed)
  BY <1>3, <1>5, RandomizeGoes
<1>9. Ran(k + 1) = Ran(k)
  <2>1. \A y \in 2 .. Population + 1 : k + 1 # 3 * Population + y
    BY <1>4
  <2> QED BY <1>3, <2>1, RanStays
<1>10. /\ memory' = [p \in {0} |-> MemoryAt(k + 1, d, a, seed)] /\ generators' = [p \in {0} |-> DrawnFrom(seed, h)]
       /\ results' = {ResultOf(y, seed) : y \in Ran(k + 1)}
  BY <1>1, <1>3, <1>5, <1>6, <1>7, <1>8, <1>9 DEF DrawnFrom
<1> QED BY <1>3, <1>4, <1>7, <1>10, JavaArrives

(* A call of prepEM.                                                        *)
LEMMA JavaPrepares ==
    ASSUME NEW k \in 1 .. JavaLength - 1, NEW d, NEW r, NEW a, NEW seed, JavaState(k, d, r, a, seed), Native(0),
           NEW h \in 2 .. Population + 1, k + 1 = 3 * h - 2
    PROVE  JavaInv'
<1>1. PICK x : x = "prepEM"
  OBVIOUS
<1>2. JavaMain[k + 1] = NativeCall(x, h)
  BY <1>1, JavaMainIs
<1>3. /\ k + 1 \in 0 .. JavaLength /\ k \in 1 .. 5 * Population + 1 /\ k \in 0 .. 5 * Population + 1
      /\ CallsMade(k, d, r, a)
      /\ Head(programs[0]) = NativeCall(x, h)
      /\ programs' = [p \in {0} |-> SubSeq(JavaMain, (k + 1) + 1, JavaLength)]
      /\ memory = [p \in {0} |-> MemoryAt(k, d, a, seed)] /\ generators = [p \in {0} |-> DrawnFrom(seed, r)]
      /\ results = {ResultOf(y, seed) : y \in Ran(k)}
  BY <1>2, JavaGoes
<1>4. Population \in Nat /\ k \in Nat /\ h \in Nat /\ k + 1 \in 1 .. JavaLength
  BY <1>3, JavaMainIs DEF JavaLength
<1>5. memory[0] = MemoryAt(k, d, a, seed) /\ generators[0] = DrawnFrom(seed, r)
  BY <1>3
<1>6. x = "prepEM" =>
         /\ memory' = [memory EXCEPT ![0] = PreparedEM(memory[0], h)] /\ results' = results
         /\ generators' = [generators EXCEPT ![0] = generators[0]]
  <2>1. Head(programs[0]) = NativeCall(x, h)
    BY <1>3
  <2> QED BY <2>1, CallIs
<1>7. CallsMade(k + 1, d, r, a + 1) /\ a + 1 = h - 1
  BY <1>3, <1>4, CallsGoOn
<1>8. PreparedEM(memory[0], h) = MemoryAt(k + 1, d, a + 1, seed)
  BY <1>3, <1>5, PrepareGoes
<1>9. Ran(k + 1) = Ran(k)
  <2>1. \A y \in 2 .. Population + 1 : k + 1 # 3 * Population + y
    BY <1>4
  <2> QED BY <1>3, <2>1, RanStays
<1>10. /\ memory' = [p \in {0} |-> MemoryAt(k + 1, d, a + 1, seed)]
            /\ generators' = [p \in {0} |-> DrawnFrom(seed, r)]
       /\ results' = {ResultOf(y, seed) : y \in Ran(k + 1)}
  BY <1>1, <1>3, <1>5, <1>6, <1>7, <1>8, <1>9
<1>11. PICK j, b : j = k + 1 /\ b = a + 1
  OBVIOUS
<1>12. /\ j \in 1 .. JavaLength /\ CallsMade(j, d, r, b)
            /\ programs' = [p \in {0} |-> SubSeq(JavaMain, j + 1, JavaLength)]
       /\ memory' = [p \in {0} |-> MemoryAt(j, d, b, seed)] /\ generators' = [p \in {0} |-> DrawnFrom(seed, r)]
       /\ results' = {ResultOf(y, seed) : y \in Ran(j)}
  BY <1>3, <1>4, <1>7, <1>10, <1>11
<1> QED BY <1>12, JavaArrives

(* A call of freeMem.                                                       *)
LEMMA JavaFrees ==
    ASSUME NEW k \in 1 .. JavaLength - 1, NEW d, NEW r, NEW a, NEW seed, JavaState(k, d, r, a, seed), Native(0),
           NEW h \in 1 .. Population + 1, k + 1 = 4 * Population + 1 + h
    PROVE  JavaInv'
<1>1. PICK x : x = "freeMem"
  OBVIOUS
<1>2. JavaMain[k + 1] = NativeCall(x, h)
  BY <1>1, JavaMainIs
<1>3. /\ k + 1 \in 0 .. JavaLength /\ k \in 1 .. 5 * Population + 1 /\ k \in 0 .. 5 * Population + 1
      /\ CallsMade(k, d, r, a)
      /\ Head(programs[0]) = NativeCall(x, h)
      /\ programs' = [p \in {0} |-> SubSeq(JavaMain, (k + 1) + 1, JavaLength)]
      /\ memory = [p \in {0} |-> MemoryAt(k, d, a, seed)] /\ generators = [p \in {0} |-> DrawnFrom(seed, r)]
      /\ results = {ResultOf(y, seed) : y \in Ran(k)}
  BY <1>2, JavaGoes
<1>4. Population \in Nat /\ k \in Nat /\ h \in Nat /\ k + 1 \in 1 .. JavaLength
  BY <1>3, JavaMainIs DEF JavaLength
<1>5. memory[0] = MemoryAt(k, d, a, seed) /\ generators[0] = DrawnFrom(seed, r)
  BY <1>3
<1>6. x = "freeMem" =>
         /\ memory' = [memory EXCEPT ![0] = freeMem(memory[0], h)] /\ results' = results
         /\ generators' = [generators EXCEPT ![0] = generators[0]]
  <2>1. Head(programs[0]) = NativeCall(x, h)
    BY <1>3
  <2> QED BY <2>1, CallIs
<1>7. CallsMade(k + 1, d, r, a) /\ d = Population + 1
  BY <1>3, <1>4, CallsGoOn
<1>8. freeMem(memory[0], h) = MemoryAt(k + 1, d, a, seed)
  BY <1>3, <1>5, FreeGoes
<1>9. Ran(k + 1) = Ran(k)
  <2>1. \A y \in 2 .. Population + 1 : k + 1 # 3 * Population + y
    BY <1>4
  <2> QED BY <1>3, <2>1, RanStays
<1>10. /\ memory' = [p \in {0} |-> MemoryAt(k + 1, d, a, seed)] /\ generators' = [p \in {0} |-> DrawnFrom(seed, r)]
       /\ results' = {ResultOf(y, seed) : y \in Ran(k + 1)}
  BY <1>1, <1>3, <1>5, <1>6, <1>7, <1>8, <1>9
<1> QED BY <1>3, <1>4, <1>7, <1>10, JavaArrives

(* A call of runEM, which adds a result with the graph that was asked for.  *)
LEMMA JavaRuns ==
    ASSUME NEW k \in 1 .. JavaLength - 1, NEW d, NEW r, NEW a, NEW seed, JavaState(k, d, r, a, seed), Native(0),
           NEW h \in 2 .. Population + 1, k + 1 = 3 * Population + h
    PROVE  JavaInv'
<1>1. PICK x : x = "runEM"
  OBVIOUS
<1>2. JavaMain[k + 1] = NativeCall(x, h)
  BY <1>1, JavaMainIs
<1>3. /\ k + 1 \in 0 .. JavaLength /\ k \in 1 .. 5 * Population + 1 /\ k \in 0 .. 5 * Population + 1
      /\ CallsMade(k, d, r, a)
      /\ Head(programs[0]) = NativeCall(x, h)
      /\ programs' = [p \in {0} |-> SubSeq(JavaMain, (k + 1) + 1, JavaLength)]
      /\ memory = [p \in {0} |-> MemoryAt(k, d, a, seed)] /\ generators = [p \in {0} |-> DrawnFrom(seed, r)]
      /\ results = {ResultOf(y, seed) : y \in Ran(k)}
  BY <1>2, JavaGoes
<1>4. Population \in Nat /\ k \in Nat /\ h \in Nat /\ k + 1 \in 1 .. JavaLength
  BY <1>3, JavaMainIs DEF JavaLength
<1>5. memory[0] = MemoryAt(k, d, a, seed) /\ generators[0] = DrawnFrom(seed, r)
  BY <1>3
<1>6. x = "runEM" =>
         /\ memory' = [memory EXCEPT ![0] = runEM(memory[0], h)]
         /\ generators' = [generators EXCEPT ![0] = generators[0]]
         /\ results' = results \cup
               {[process |-> 0, handle |-> h, fg |-> memory[0].algs[memory[0].data[h].alg].fg,
                 asked |-> memory[0].data[h].fg,
                 iters |-> runEM(memory[0], h).algs[memory[0].data[h].alg].iters]}
  <2>1. Head(programs[0]) = NativeCall(x, h)
    BY <1>3
  <2> QED BY <2>1, CallIs
<1>7. CallsMade(k + 1, d, r, a)
  BY <1>3, <1>4, CallsGoOn
<1>8. /\ runEM(memory[0], h) = MemoryAt(k + 1, d, a, seed)
      /\ memory[0].data[h] = [fg |-> DrawnFrom(seed, h - 1), alg |-> h - 1, live |-> TRUE]
      /\ memory[0].algs[h - 1] = [fg |-> DrawnFrom(seed, h - 1), iters |-> 0, live |-> TRUE]
      /\ MemoryAt(k + 1, d, a, seed).algs[h - 1].iters = NumIterations
  BY <1>3, <1>5, RunGoes
<1>9. results' = results \cup {ResultOf(h, seed)}
  <2>1. memory[0].data[h].alg = h - 1 /\ memory[0].data[h].fg = DrawnFrom(seed, h - 1)
          /\ memory[0].algs[h - 1].fg = DrawnFrom(seed, h - 1)
    BY <1>8
  <2> QED BY <1>1, <1>6, <1>8, <2>1 DEF ResultOf
<1>10. Ran(k + 1) = Ran(k) \cup {h}
  BY <1>3, RanGoesOn
<1>11. /\ memory' = [p \in {0} |-> MemoryAt(k + 1, d, a, seed)] /\ generators' = [p \in {0} |-> DrawnFrom(seed, r)]
       /\ results' = {ResultOf(y, seed) : y \in Ran(k + 1)}
  BY <1>1, <1>3, <1>5, <1>6, <1>8, <1>9, <1>10
<1> QED BY <1>3, <1>4, <1>7, <1>11, JavaArrives

(* Whichever call comes next, the state is again that of a number of calls. *)
LEMMA JavaStep ==
    ASSUME JavaInv, Native(0)
    PROVE  JavaInv'
<1>1. PICK k, d, r, a, seed : JavaState(k, d, r, a, seed)
  BY DEF JavaInv
<1>2. Population \in Nat /\ k \in 0 .. JavaLength /\ k # JavaLength /\ programs[0] # << >>
  <2>1. k \in 0 .. JavaLength /\ programs = [p \in {0} |-> SubSeq(JavaMain, k + 1, JavaLength)]
    BY <1>1 DEF JavaState
  <2>2. programs[0] # << >>
    BY DEF Native
  <2> QED BY <2>1, <2>2, JavaCalls, JavaMainIs
<1>3. CASE k = 0
  BY <1>1, <1>3, JavaCreates
<1>4. CASE k # 0
  <2>1. k \in 1 .. JavaLength - 1 /\ k \in 0 .. 5 * Population + 1
    BY <1>2, <1>4 DEF JavaLength
  <2>2. CASE \E h \in 2 .. Population + 1 : k + 1 \in {3 * h - 4, 3 * h - 3, 3 * h - 2, 3 * Population + h}
    <3>1. PICK h \in 2 .. Population + 1 : k + 1 \in {3 * h - 4, 3 * h - 3, 3 * h - 2, 3 * Population + h}
      BY <2>2
    <3>2. CASE k + 1 = 3 * h - 4
      BY <1>1, <2>1, <3>2, JavaCopies
    <3>3. CASE k + 1 = 3 * h - 3
      BY <1>1, <2>1, <3>3, JavaRandomizes
    <3>4. CASE k + 1 = 3 * h - 2
      BY <1>1, <2>1, <3>4, JavaPrepares
    <3>5. CASE k + 1 = 3 * Population + h
      BY <1>1, <2>1, <3>5, JavaRuns
    <3> QED BY <3>1, <3>2, <3>3, <3>4, <3>5
  <2>3. CASE \E h \in 1 .. Population + 1 : k + 1 = 4 * Population + 1 + h
    BY <1>1, <2>1, <2>3, JavaFrees
  <2> QED BY <1>4, <2>1, <2>2, <2>3, CallAfter
<1> QED BY <1>3, <1>4

(* What a native method needs to find behind its handle.                    *)
LEMMA DefinedWhen ==
    ASSUME NEW m, NEW method, NEW h, h \in DOMAIN m.data, m.data[h].live,
           method = "runEM" => m.data[h].alg \in DOMAIN m.algs /\ m.algs[m.data[h].alg].live,
           method = "freeMem" => m.data[h].alg = Null
             \/ (m.data[h].alg \in DOMAIN m.algs /\ m.algs[m.data[h].alg].live)
    PROVE  Defined(m, NativeCall(method, h))
<1>1. NativeCall(method, h).method = method /\ NativeCall(method, h).handle = h
  BY DEF NativeCall
<1>2. CASE method = "runEM"
  BY <1>1, <1>2 DEF Defined
<1>3. CASE method = "freeMem"
  BY <1>1, <1>3 DEF Defined
<1>4. CASE method # "runEM" /\ method # "freeMem"
  BY <1>1, <1>4 DEF Defined
<1> QED BY <1>2, <1>3, <1>4

(* Every call comes when what it relies on is there.                        *)
LEMMA JavaIsDefined ==
    ASSUME NEW k, NEW d, NEW r, NEW a, NEW seed, JavaState(k, d, r, a, seed), programs[0] # << >>
    PROVE  Defined(memory[0], Head(programs[0]))
<1>1. Population \in Nat /\ k \in 0 .. JavaLength /\ k # JavaLength
      /\ Head(programs[0]) = JavaMain[k + 1] /\ memory[0] = MemoryAt(k, d, a, seed) /\ CallsMade(k, d, r, a)
  <2>1. k \in 0 .. JavaLength /\ programs = [p \in {0} |-> SubSeq(JavaMain, k + 1, JavaLength)]
    BY DEF JavaState
  <2>2. k # JavaLength
    BY <2>1, JavaCalls
  <2>3. k < JavaLength
    BY <2>1, <2>2, JavaMainIs DEF JavaLength
  <2>4. Head(programs[0]) = JavaMain[k + 1]
    BY <2>1, <2>3, JavaCalls
  <2> QED BY <2>1, <2>2, <2>4, JavaMainIs DEF JavaState
<1>2. PICK m, call : m = memory[0] /\ call = Head(programs[0])
  OBVIOUS
<1>3. CASE k = 0
  <2>1. call.method = "createDai"
    BY <1>1, <1>2, <1>3, JavaMainIs DEF NativeCall
  <2>2. Defined(m, call)
    BY <2>1 DEF Defined
  <2> QED BY <1>2, <2>2
<1>4. CASE k # 0
  <2>1. k \in 1 .. 5 * Population + 1 /\ k \in Nat /\ k \in 0 .. 5 * Population + 1
    BY <1>1, <1>4 DEF JavaLength
  <2>2. m = MemoryAt(k, d, a, seed) /\ call = JavaMain[k + 1] /\ DOMAIN m.data = 1 .. d /\ DOMAIN m.algs = 1 .. a
    BY <1>1, <1>2 DEF MemoryAt
  <2>3. d \in Nat /\ a \in Nat /\ d >= 1
    BY <1>1, <2>1 DEF CallsMade
  <2>4. ASSUME NEW h \in 1 .. d, k < 4 * Population + 1 + h PROVE m.data[h].live
    <3>1. m.data[h] = DataAt(k, h, seed)
      BY <2>2, <2>4 DEF MemoryAt
    <3>2. Lives(k, h) = TRUE
      BY <2>4 DEF Lives
    <3>3. h = 1 => Lives(k, 1) = TRUE
      BY <3>2
    <3> QED BY <3>1, <3>2, <3>3 DEF DataAt
  <2>5. CASE \E h \in 2 .. Population + 1 : k + 1 \in {3 * h - 4, 3 * h - 3, 3 * h - 2, 3 * Population + h}
    <3>1. PICK h \in 2 .. Population + 1 : k + 1 \in {3 * h - 4, 3 * h - 3, 3 * h - 2, 3 * Population + h}
      BY <2>5
    <3>2. CASE k + 1 = 3 * h - 4
      <4>1. PICK x : x = "copyDai"
        OBVIOUS
      <4>5. call = NativeCall(x, 1)
        BY <4>1, <2>2, <3>2, JavaMainIs
      <4>2. 1 \in 1 .. d /\ m.data[1].live
        BY <1>1, <2>1, <2>3, <2>4, <3>2
      <4>3. Defined(m, NativeCall(x, 1))
        BY <2>2, <4>1, <4>2, DefinedWhen
      <4> QED BY <1>2, <4>5, <4>3
    <3>3. CASE k + 1 = 3 * h - 3
      <4>1. PICK x : x = "randomizeFG"
        OBVIOUS
      <4>5. call = NativeCall(x, h)
        BY <4>1, <2>2, <3>3, JavaMainIs
      <4>2. h <= d
        BY <1>1, <2>1, <3>3, CallsGoOn
      <4>3. h \in 1 .. d /\ k < 4 * Population + 1 + h
        BY <1>1, <2>1, <2>3, <3>3, <4>2
      <4>4. m.data[h].live
        BY <2>4, <4>3
      <4>6. Defined(m, NativeCall(x, h))
        BY <2>2, <4>1, <4>3, <4>4, DefinedWhen
      <4> QED BY <1>2, <4>5, <4>6
    <3>4. CASE k + 1 = 3 * h - 2
      <4>1. PICK x : x = "prepEM"
        OBVIOUS
      <4>5. call = NativeCall(x, h)
        BY <4>1, <2>2, <3>4, JavaMainIs
      <4>2. h <= d
        BY <1>1, <2>1, <3>4, CallsGoOn
      <4>3. h \in 1 .. d /\ k < 4 * Population + 1 + h
        BY <1>1, <2>1, <2>3, <3>4, <4>2
      <4>4. m.data[h].live
        BY <2>4, <4>3
      <4>6. Defined(m, NativeCall(x, h))
        BY <2>2, <4>1, <4>3, <4>4, DefinedWhen
      <4> QED BY <1>2, <4>5, <4>6
    <3>5. CASE k + 1 = 3 * Population + h
      <4>1. PICK x : x = "runEM"
        OBVIOUS
      <4>5. call = NativeCall(x, h)
        BY <4>1, <2>2, <3>5, JavaMainIs
      <4>2. /\ m.data[h] = [fg |-> DrawnFrom(seed, h - 1), alg |-> h - 1, live |-> TRUE]
            /\ m.algs[h - 1] = [fg |-> DrawnFrom(seed, h - 1), iters |-> 0, live |-> TRUE]
            /\ h \in 1 .. d /\ h - 1 \in 1 .. a
        <5>1. CallsMade(k, d, r, a) /\ k \in 1 .. 5 * Population + 1
          BY <1>1, <2>1
        <5>2. /\ MemoryAt(k, d, a, seed).data[h] = [fg |-> DrawnFrom(seed, h - 1), alg |-> h - 1, live |-> TRUE]
              /\ MemoryAt(k, d, a, seed).algs[h - 1] = [fg |-> DrawnFrom(seed, h - 1), iters |-> 0, live |-> TRUE]
              /\ h \in 1 .. d /\ h - 1 \in 1 .. a
          BY <3>5, <5>1, RunGoes
        <5> QED BY <2>2, <5>2
      <4>3. m.data[h].live /\ m.data[h].alg = h - 1 /\ m.algs[h - 1].live
        BY <4>2
      <4>4. h \in DOMAIN m.data /\ m.data[h].alg \in DOMAIN m.algs /\ m.algs[m.data[h].alg].live
        BY <2>2, <4>2, <4>3
      <4>6. Defined(m, NativeCall(x, h))
        BY <4>1, <4>3, <4>4, DefinedWhen
      <4> QED BY <1>2, <4>5, <4>6
    <3> QED BY <3>1, <3>2, <3>3, <3>4, <3>5
  <2>6. CASE \E h \in 1 .. Population + 1 : k + 1 = 4 * Population + 1 + h
    <3>1. PICK h \in 1 .. Population + 1 : k + 1 = 4 * Population + 1 + h
      BY <2>6
    <3>2. PICK x : x = "freeMem"
      OBVIOUS
    <3>5. call = NativeCall(x, h)
      BY <3>2, <2>2, <3>1, JavaMainIs
    <3>3. /\ h \in 1 .. d /\ m.data[h].live /\ m.data[h].alg = h - 1
          /\ h # 1 => h - 1 \in 1 .. a /\ m.algs[h - 1].live
      BY <1>1, <2>1, <2>2, <3>1, FreeGoes
    <3>4. h = 1 => m.data[h].alg = Null
      BY <3>3 DEF Null
    <3>6. h \in DOMAIN m.data /\ (m.data[h].alg = Null \/ (m.data[h].alg \in DOMAIN m.algs /\ m.algs[m.data[h].alg].live))
      BY <2>2, <3>3, <3>4
    <3>7. Defined(m, NativeCall(x, h))
      BY <3>2, <3>3, <3>6, DefinedWhen
    <3> QED BY <1>2, <3>5, <3>7
  <2> QED BY <1>4, <2>1, <2>5, <2>6, CallAfter
<1> QED BY <1>3, <1>4

(* The results of different handles are different.                          *)
LEMMA ResultsDiffer ==
    ASSUME NEW seed, NEW h \in Nat, NEW i \in Nat, ResultOf(h, seed).fg = ResultOf(i, seed).fg
    PROVE  h = i
<1>1. ResultOf(h, seed).fg.drawn = h - 1 /\ ResultOf(i, seed).fg.drawn = i - 1
  BY DEF ResultOf, DrawnFrom
<1> QED BY <1>1

(* After the last call nothing is left on the heap, and each copy has had   *)
(* its run.                                                                 *)
LEMMA JavaEnds ==
    ASSUME NEW d, NEW r, NEW a, NEW seed, JavaState(JavaLength, d, r, a, seed)
    PROVE  /\ \A n \in DOMAIN memory[0].data : ~memory[0].data[n].live
           /\ \A n \in DOMAIN memory[0].algs : ~memory[0].algs[n].live
           /\ Cardinality({x \in results : x.process = 0}) = Population
<1>1. Population \in Nat /\ memory[0] = MemoryAt(JavaLength, d, a, seed) /\ CallsMade(JavaLength, d, r, a)
      /\ results = {ResultOf(h, seed) : h \in Ran(JavaLength)} /\ d \in 0 .. Population + 1 /\ a \in 0 .. Population
  BY JavaMainIs DEF JavaState, CallsMade
<1>2. ASSUME NEW n \in DOMAIN memory[0].data PROVE ~memory[0].data[n].live
  <2>1. n \in 1 .. d /\ memory[0].data[n] = DataAt(JavaLength, n, seed)
    BY <1>1 DEF MemoryAt
  <2>2. Lives(JavaLength, n) = FALSE
    BY <1>1, <2>1 DEF Lives, JavaLength
  <2>3. n = 1 => Lives(JavaLength, 1) = FALSE
    BY <2>2
  <2> QED BY <2>1, <2>2, <2>3 DEF DataAt
<1>3. ASSUME NEW n \in DOMAIN memory[0].algs PROVE ~memory[0].algs[n].live
  <2>1. n \in 1 .. a /\ memory[0].algs[n] = AlgAt(JavaLength, n, seed)
    BY <1>1 DEF MemoryAt
  <2>2. Lives(JavaLength, n + 1) = FALSE
    BY <1>1, <2>1 DEF Lives, JavaLength
  <2> QED BY <2>1, <2>2 DEF AlgAt
<1>4. Ran(JavaLength) = 2 .. Population + 1
  BY <1>1 DEF Ran, JavaLength
<1> DEFINE f == [h \in 2 .. Population + 1 |-> ResultOf(h, seed)]
<1>5. {x \in results : x.process = 0} = results
  <2>1. \A h : ResultOf(h, seed).process = 0
    BY DEF ResultOf
  <2> QED BY <1>1, <2>1
<1>6. f \in Bijection(2 .. Population + 1, results)
  <2>1. \A h, i \in 2 .. Population + 1 : f[h] = f[i] => h = i
    <3> SUFFICES ASSUME NEW h \in 2 .. Population + 1, NEW i \in 2 .. Population + 1, f[h] = f[i] PROVE h = i
      OBVIOUS
    <3>1. ResultOf(h, seed).fg = ResultOf(i, seed).fg /\ h \in Nat /\ i \in Nat
      OBVIOUS
    <3> QED BY <3>1, ResultsDiffer
  <2>2. results = {f[h] : h \in 2 .. Population + 1}
    BY <1>1, <1>4
  <2> HIDE DEF f
  <2>3. f \in [2 .. Population + 1 -> results]
    BY <2>2 DEF f
  <2> QED BY <2>1, <2>2, <2>3 DEF Bijection, Injection, Surjection, IsInjective
<1>7. IsFiniteSet(2 .. Population + 1) /\ Cardinality(2 .. Population + 1) = Population
  <2>1. PICK n \in Int : n = Population + 1
    BY <1>1
  <2>2. IsFiniteSet(2 .. n) /\ Cardinality(2 .. n) = IF 2 > n THEN 0 ELSE n - 2 + 1
    BY FS_Interval
  <2> QED BY <1>1, <2>1, <2>2
<1>8. Cardinality(results) = Population
  <2>1. PICK S : S = 2 .. Population + 1
    OBVIOUS
  <2>2. ExistsBijection(S, results) /\ IsFiniteSet(S) /\ Cardinality(S) = Population
    BY <1>6, <1>7, <2>1 DEF ExistsBijection
  <2> HIDE DEF f
  <2>3. Cardinality(results) = Cardinality(S)
    BY <2>2, FS_Bijection
  <2> QED BY <2>2, <2>3
<1> QED BY <1>2, <1>3, <1>5, <1>8

(* No call meets an object that is not there, and results are of the graphs *)
(* asked for.                                                               *)
LEMMA JavaIsSound ==
    ASSUME JavaInv
    PROVE  HandlesAreSound
<1>1. PICK k, d, r, a, seed : JavaState(k, d, r, a, seed)
  BY DEF JavaInv
<1>2. DOMAIN programs = {0} /\ k \in 0 .. JavaLength /\ programs = [p \in {0} |-> SubSeq(JavaMain, k + 1, JavaLength)]
      /\ results = {ResultOf(h, seed) : h \in Ran(k)}
  BY <1>1 DEF JavaState
<1>3. programs[0] # << >> => Defined(memory[0], Head(programs[0]))
  BY <1>1, JavaIsDefined
<1>4. ASSUME programs[0] = << >>
      PROVE  /\ \A n \in DOMAIN memory[0].data : ~memory[0].data[n].live
             /\ \A n \in DOMAIN memory[0].algs : ~memory[0].algs[n].live
             /\ Cardinality({x \in results : x.process = 0}) = Population
  <2>1. k = JavaLength
    BY <1>2, <1>4, JavaCalls
  <2> QED BY <1>1, <2>1, JavaEnds
<1>5. ASSUME NEW x \in results, NEW y \in results
      PROVE  x.fg = x.asked /\ x.iters = NumIterations /\ (x.handle # y.handle => x.fg # y.fg)
  <2>1. PICK h \in Ran(k), i \in Ran(k) : x = ResultOf(h, seed) /\ y = ResultOf(i, seed)
    BY <1>2
  <2>2. h \in Nat /\ i \in Nat /\ x.handle = h /\ y.handle = i /\ x.fg = x.asked /\ x.iters = NumIterations
    BY <2>1 DEF Ran, ResultOf
  <2> QED BY <2>1, <2>2, ResultsDiffer
<1> SUFFICES ASSUME NEW p \in DOMAIN programs
             PROVE  /\ programs[p] # << >> => Defined(memory[p], Head(programs[p]))
                    /\ programs[p] = << >> =>
                          /\ \A n \in DOMAIN memory[p].data : ~memory[p].data[n].live
                          /\ \A n \in DOMAIN memory[p].algs : ~memory[p].algs[n].live
                          /\ Cardinality({x \in results : x.process = p}) = IF p = 0 THEN Population ELSE 1
                    /\ \A x, y \in results : x.process = p /\ y.process = p =>
                          x.fg = x.asked /\ x.iters = NumIterations /\ (x.handle # y.handle => x.fg # y.fg)
  BY DEF HandlesAreSound
<1>6. p = 0
  BY <1>2
<1> QED BY <1>3, <1>4, <1>5, <1>6

-----------------------------------------------------------------------------
(* What a map task holds after k of its calls, with the graph that was drawn *)
(* for it.                                                                 *)
Unfreed(k) == IF k < 5 THEN TRUE ELSE FALSE

(* The one handle of a map task.                                            *)
TaskData(k, g) ==
    IF k = 0 THEN << >>
    ELSE <<[fg |-> IF k >= 2 THEN g ELSE FromFile, alg |-> IF k >= 3 THEN 1 ELSE Null, live |-> Unfreed(k)]>>

(* And its algorithm, from prepEM on.                                       *)
TaskAlgs(k, g) ==
    IF k < 3 THEN << >>
    ELSE <<[fg |-> g, iters |-> IF k >= 4 THEN NumIterations ELSE 0, live |-> Unfreed(k)]>>

(* The heap of a map task after k of its calls.                             *)
TaskMemory(k, g) == [data |-> TaskData(k, g), algs |-> TaskAlgs(k, g)]

(* The result of a map task, once runEM was called.                         *)
TaskResults(p, k, g) ==
    IF k >= 4 THEN {[process |-> p, handle |-> 1, fg |-> g, asked |-> g, iters |-> NumIterations]} ELSE {}

(* What a process has reported.                                             *)
ResultsOf(p) == {r \in results : r.process = p}

(* A map task has made k calls, and none since it was last started anew.    *)
TaskState(p, k, g) ==
    /\ k \in 0 .. 5
    /\ programs[p] = SubSeq(DaiMapper, k + 1, 5)
    /\ memory[p] = TaskMemory(k, g)
    /\ ResultsOf(p) = TaskResults(p, k, g)

(* Every map task is somewhere in its program, independently of the others. *)
TasksInv ==
    /\ programs = [p \in 1 .. NumMaps |-> programs[p]]
    /\ memory = [p \in 1 .. NumMaps |-> memory[p]]
    /\ \A p \in 1 .. NumMaps : \E k, g : TaskState(p, k, g)

(* Which call of a map task comes next, and what remains after it.          *)
LEMMA TaskCalls ==
    ASSUME NEW k \in 0 .. 5, NEW s, s = SubSeq(DaiMapper, k + 1, 5)
    PROVE  /\ s = << >> <=> k = 5
           /\ k < 5 => Head(s) = DaiMapper[k + 1] /\ Tail(s) = SubSeq(DaiMapper, (k + 1) + 1, 5)
<1> DEFINE S == {NativeCall("createDai", 1), NativeCall("randomizeFG", 1), NativeCall("prepEM", 1),
                  NativeCall("runEM", 1), NativeCall("freeMem", 1)}
<1>1. DaiMapper \in Seq(S) /\ Len(DaiMapper) = 5
  BY DEF DaiMapper
<1> HIDE DEF S
<1>2. k \in 0 .. Len(DaiMapper) /\ s = SubSeq(DaiMapper, k + 1, Len(DaiMapper))
  BY <1>1
<1>3. /\ s = << >> <=> k = Len(DaiMapper)
      /\ k < Len(DaiMapper) => Head(s) = DaiMapper[k + 1] /\ Tail(s) = SubSeq(DaiMapper, (k + 1) + 1, Len(DaiMapper))
  BY <1>1, <1>2, Consumed
<1> QED BY <1>1, <1>3

(* At the start all calls remain.                                           *)
LEMMA TaskStarts == SubSeq(DaiMapper, 0 + 1, 5) = DaiMapper
<1> DEFINE S == {NativeCall("createDai", 1), NativeCall("randomizeFG", 1), NativeCall("prepEM", 1),
                  NativeCall("runEM", 1), NativeCall("freeMem", 1)}
<1>1. DaiMapper \in Seq(S) /\ Len(DaiMapper) = 5
  BY DEF DaiMapper
<1> HIDE DEF S
<1>2. SubSeq(DaiMapper, 1, Len(DaiMapper)) = DaiMapper
  BY <1>1, Consumed
<1>3. 0 + 1 = 1
  OBVIOUS
<1> QED BY <1>1, <1>2, <1>3

(* What appending makes of an empty list, and changing of a list of one.    *)
LEMMA Single ==
    ASSUME NEW x, NEW y
    PROVE  /\ Listed(<<x>>, 1) /\ Listed(<< >>, 0) /\ 1 \in 1 .. 1 /\ <<x>>[1] = x
           /\ Replaced(<<x>>, 1, 1, y) = <<y>> /\ Replaced(<< >>, 0 + 1, 0 + 1, y) = <<y>>
           /\ Without(<<x>>, 1, 1) = <<[x EXCEPT !.live = FALSE]>>
           /\ Append(<< >>, x) = <<x>>
<1>1. Listed(<<x>>, 1) /\ 1 \in 1 .. 1 /\ <<x>>[1] = x /\ Append(<< >>, x) = <<x>>
  BY DEF Listed
<1>2. Listed(<< >>, 0)
  BY DEF Listed
<1>3. Replaced(<<x>>, 1, 1, y) = <<y>>
  BY DEF Replaced
<1>4. Replaced(<< >>, 0 + 1, 0 + 1, y) = <<y>>
  BY DEF Replaced
<1>5. Without(<<x>>, 1, 1) = <<[x EXCEPT !.live = FALSE]>>
  <2>1. PICK f : f = <<x>>
    OBVIOUS
  <2>2. f[1] = x /\ \A i \in 1 .. 1 : i = 1
    BY <2>1
  <2>3. Without(f, 1, 1) = [i \in 1 .. 1 |-> [f[1] EXCEPT !.live = FALSE]]
    BY <2>2 DEF Without
  <2>4. \A z : [i \in 1 .. 1 |-> z] = <<z>>
    OBVIOUS
  <2>5. [i \in 1 .. 1 |-> [f[1] EXCEPT !.live = FALSE]] = <<[f[1] EXCEPT !.live = FALSE]>>
    BY <2>4
  <2> QED BY <2>1, <2>2, <2>3, <2>5
<1> QED BY <1>1, <1>2, <1>3, <1>4, <1>5

(* What each of the five calls makes of it.                                 *)
LEMMA TaskCreates == ASSUME NEW g, NEW h PROVE createDai(TaskMemory(0, g)) = TaskMemory(1, h)
<1>1. TaskMemory(0, g) = [data |-> << >>, algs |-> << >>]
  BY DEF TaskMemory, TaskData, TaskAlgs
<1>2. createDai(TaskMemory(0, g)) = [data |-> <<Data(FromFile, Null)>>, algs |-> << >>]
  BY <1>1 DEF createDai
<1> QED BY <1>2 DEF TaskMemory, TaskData, TaskAlgs, Unfreed, Data

(* The second call.                                                         *)
LEMMA TaskRandomizes == ASSUME NEW g, NEW h PROVE randomizeFG(TaskMemory(1, g), 1, h) = TaskMemory(2, h)
<1>1. PICK x, l, a : l = TRUE /\ a = << >> /\ x = Object(FromFile, Null, l)
  OBVIOUS
<1>2. TaskMemory(1, g) = [data |-> <<x>>, algs |-> a]
  BY <1>1 DEF TaskMemory, TaskData, TaskAlgs, Unfreed, Object
<1>3. PICK D : D = <<x>>
  OBVIOUS
<1>4. Listed(D, 1) /\ 1 \in 1 .. 1 /\ D[1] = Object(FromFile, Null, l)
  BY <1>1, <1>3, Single
<1>5. randomizeFG([data |-> D, algs |-> a], 1, h) = [data |-> Replaced(D, 1, 1, Object(h, Null, l)), algs |-> a]
  BY <1>4, RandomizedIs
<1>6. Replaced(D, 1, 1, Object(h, Null, l)) = <<Object(h, Null, l)>>
  BY <1>3, Single
<1>7. TaskMemory(2, h) = [data |-> <<Object(h, Null, l)>>, algs |-> a]
  BY <1>1 DEF TaskMemory, TaskData, TaskAlgs, Unfreed, Object
<1> QED BY <1>2, <1>3, <1>5, <1>6, <1>7

(* The third call.                                                          *)
LEMMA TaskPrepares == ASSUME NEW g PROVE PreparedEM(TaskMemory(2, g), 1) = TaskMemory(3, g)
<1>1. PICK x, l, a : l = TRUE /\ a = << >> /\ x = Object(g, Null, l)
  OBVIOUS
<1>2. TaskMemory(2, g) = [data |-> <<x>>, algs |-> a]
  BY <1>1 DEF TaskMemory, TaskData, TaskAlgs, Unfreed, Object
<1>3. PICK D : D = <<x>>
  OBVIOUS
<1>4. Listed(D, 1) /\ 1 \in 1 .. 1 /\ D[1] = Object(g, Null, l) /\ Listed(a, 0)
  BY <1>1, <1>3, Single
<1>5. PreparedEM([data |-> D, algs |-> a], 1)
      = [data |-> Replaced(D, 1, 1, Object(g, 0 + 1, l)), algs |-> Replaced(a, 0 + 1, 0 + 1, Started(g))]
  BY <1>4, PreparedIs
<1>6. Replaced(D, 1, 1, Object(g, 0 + 1, l)) = <<Object(g, 0 + 1, l)>>
        /\ Replaced(a, 0 + 1, 0 + 1, Started(g)) = <<Started(g)>>
  <2>1. \A y : Replaced(<<x>>, 1, 1, y) = <<y>> /\ Replaced(<< >>, 0 + 1, 0 + 1, y) = <<y>>
    BY Single
  <2> QED BY <1>1, <1>3, <2>1
<1>7. 0 + 1 = 1
  OBVIOUS
<1>8. TaskMemory(3, g) = [data |-> <<Object(g, 1, l)>>, algs |-> <<Started(g)>>]
  BY <1>1 DEF TaskMemory, TaskData, TaskAlgs, Unfreed, Object, Started
<1> QED BY <1>2, <1>3, <1>5, <1>6, <1>7, <1>8

(* The fourth call.                                                         *)
LEMMA TaskRuns ==
    ASSUME NEW g
    PROVE  /\ runEM(TaskMemory(3, g), 1) = TaskMemory(4, g)
           /\ TaskMemory(3, g).data[1].alg = 1 /\ TaskMemory(3, g).data[1].fg = g
           /\ TaskMemory(3, g).algs[1].fg = g /\ TaskMemory(4, g).algs[1].iters = NumIterations
<1>1. PICK x, y, l : l = TRUE /\ x = Object(g, 1, l) /\ y = Inference(g, 0, l)
  OBVIOUS
<1>2. TaskMemory(3, g) = [data |-> <<x>>, algs |-> <<y>>]
  BY <1>1 DEF TaskMemory, TaskData, TaskAlgs, Unfreed, Object, Inference
<1>3. PICK D, A : D = <<x>> /\ A = <<y>>
  OBVIOUS
<1>4. Listed(A, 1) /\ 1 \in 1 .. 1 /\ A[1] = Inference(g, 0, l) /\ D[1] = x
  BY <1>1, <1>3, Single
<1>5. D[1].alg = 1 /\ D[1].fg = g /\ A[1].fg = g
  BY <1>1, <1>4 DEF Object, Inference
<1>6. runEM([data |-> D, algs |-> A], 1)
        = [data |-> D, algs |-> Replaced(A, 1, 1, Inference(g, 0 + NumIterations, l))]
  BY <1>4, <1>5, RunIs
<1>7. Replaced(A, 1, 1, Inference(g, 0 + NumIterations, l)) = <<Inference(g, 0 + NumIterations, l)>>
  BY <1>3, Single
<1>8. 0 + NumIterations = NumIterations
  BY PrototypeAssumption
<1>9. TaskMemory(4, g) = [data |-> <<x>>, algs |-> <<Inference(g, NumIterations, l)>>]
  BY <1>1 DEF TaskMemory, TaskData, TaskAlgs, Unfreed, Object, Inference
<1>10. TaskMemory(4, g).algs[1].iters = NumIterations
  BY <1>9 DEF Inference
<1>11. TaskMemory(3, g).data = D /\ TaskMemory(3, g).algs = A
  BY <1>2, <1>3
<1> QED BY <1>2, <1>3, <1>5, <1>6, <1>7, <1>8, <1>9, <1>10, <1>11

(* The fifth call.                                                          *)
LEMMA TaskFrees == ASSUME NEW g PROVE freeMem(TaskMemory(4, g), 1) = TaskMemory(5, g)
<1>1. PICK x, y, l : l = TRUE /\ x = Object(g, 1, l) /\ y = Inference(g, NumIterations, l)
  OBVIOUS
<1>2. TaskMemory(4, g) = [data |-> <<x>>, algs |-> <<y>>]
  BY <1>1 DEF TaskMemory, TaskData, TaskAlgs, Unfreed, Object, Inference
<1>3. PICK D, A : D = <<x>> /\ A = <<y>>
  OBVIOUS
<1>4. Listed(A, 1) /\ Listed(D, 1) /\ 1 \in 1 .. 1 /\ D[1] = Object(g, 1, l)
  BY <1>1, <1>3, Single
<1>5. freeMem([data |-> D, algs |-> A], 1) = [data |-> Replaced(D, 1, 1, Gone(g, 1)), algs |-> Without(A, 1, 1)]
  BY <1>4, FreedIs
<1>6. Replaced(D, 1, 1, Gone(g, 1)) = <<Gone(g, 1)>> /\ Without(A, 1, 1) = <<[y EXCEPT !.live = FALSE]>>
  BY <1>3, Single
<1>7. PICK n : n = FALSE
  OBVIOUS
<1>8. [y EXCEPT !.live = n] = Inference(g, NumIterations, n)
  BY <1>1 DEF Inference
<1>9. [y EXCEPT !.live = FALSE] = [y EXCEPT !.live = n]
  BY <1>7
<1>10. TaskMemory(5, g) = [data |-> <<Gone(g, 1)>>, algs |-> <<Inference(g, NumIterations, n)>>]
  <2>1. PICK u : u = Unfreed(5)
    OBVIOUS
  <2>4. u = FALSE
    BY <2>1 DEF Unfreed
  <2>5. u = n
    BY <1>7, <2>4
  <2>6. Gone(g, 1) = Object(g, 1, u)
    BY <2>4 DEF Gone, Object
  <2>7. TaskData(5, g) = <<Object(g, 1, u)>>
    BY <2>1 DEF TaskData, Object
  <2>2. TaskData(5, g) = <<Gone(g, 1)>>
    BY <2>6, <2>7
  <2>8. TaskAlgs(5, g) = <<Inference(g, NumIterations, u)>>
    BY <2>1 DEF TaskAlgs, Inference
  <2>3. TaskAlgs(5, g) = <<Inference(g, NumIterations, n)>>
    BY <2>5, <2>8
  <2> QED BY <2>2, <2>3 DEF TaskMemory
<1> QED BY <1>2, <1>3, <1>5, <1>6, <1>8, <1>9, <1>10

(* One task has come to another place of its program, and the others stay   *)
(* where they are.                                                          *)
LEMMA TaskArrives ==
    ASSUME TasksInv, NEW p \in 1 .. NumMaps, NEW k \in 0 .. 5, NEW g,
           programs' = [programs EXCEPT ![p] = SubSeq(DaiMapper, k + 1, 5)],
           memory' = [memory EXCEPT ![p] = TaskMemory(k, g)],
           ResultsOf(p)' = TaskResults(p, k, g),
           \A q : q # p => ResultsOf(q)' = ResultsOf(q)
    PROVE  TasksInv'
<1>1. /\ programs' = [q \in 1 .. NumMaps |-> programs'[q]]
      /\ memory' = [q \in 1 .. NumMaps |-> memory'[q]]
  BY DEF TasksInv
<1>2. programs'[p] = SubSeq(DaiMapper, k + 1, 5) /\ memory'[p] = TaskMemory(k, g)
  BY DEF TasksInv
<1>3. TaskState(p, k, g)'
  BY <1>2 DEF TaskState
<1>4. ASSUME NEW q \in 1 .. NumMaps, q # p PROVE \E j, h : TaskState(q, j, h)'
  <2>1. PICK j, h : TaskState(q, j, h)
    BY DEF TasksInv
  <2>2. programs'[q] = programs[q] /\ memory'[q] = memory[q] /\ ResultsOf(q)' = ResultsOf(q)
    BY <1>4 DEF TasksInv
  <2>3. TaskState(q, j, h)'
    BY <2>1, <2>2 DEF TaskState
  <2> QED BY <2>3
<1>5. \A q \in 1 .. NumMaps : \E j, h : TaskState(q, j, h)'
  BY <1>3, <1>4
<1> QED BY <1>1, <1>5 DEF TasksInv

(* A call of a map task is one call more of that task.                      *)
LEMMA TaskStep ==
    ASSUME TasksInv, NEW p \in 1 .. NumMaps, Native(p)
    PROVE  TasksInv'
<1>1. PICK k, g : TaskState(p, k, g)
  BY DEF TasksInv
<1>2. /\ k \in 0 .. 5 /\ k < 5 /\ Head(programs[p]) = DaiMapper[k + 1]
      /\ Tail(programs[p]) = SubSeq(DaiMapper, (k + 1) + 1, 5)
      /\ memory[p] = TaskMemory(k, g) /\ ResultsOf(p) = TaskResults(p, k, g)
  <2>1. k \in 0 .. 5 /\ programs[p] = SubSeq(DaiMapper, k + 1, 5)
    BY <1>1 DEF TaskState
  <2>2. programs[p] # << >>
    BY DEF Native
  <2>3. k # 5
    BY <2>1, <2>2, TaskCalls
  <2>4. k < 5
    BY <2>1, <2>3
  <2> QED BY <1>1, <2>1, <2>4, TaskCalls DEF TaskState
<1>3. programs' = [programs EXCEPT ![p] = Tail(programs[p])]
  BY DEF Native
<1>4. CASE k = 0
  <2>1. PICK x, h : x = "createDai" /\ h = generators[p]
    OBVIOUS
  <2>2. Head(programs[p]) = NativeCall(x, 1)
    BY <1>2, <1>4, <2>1 DEF DaiMapper
  <2>3. x = "createDai" =>
           /\ memory' = [memory EXCEPT ![p] = createDai(memory[p])] /\ results' = results
           /\ generators' = [generators EXCEPT ![p] = [seed |-> seconds, drawn |-> 1]]
    BY <2>2, CallIs
  <2>4. createDai(TaskMemory(0, g)) = TaskMemory(1, g)
    BY TaskCreates
  <2>5. memory' = [memory EXCEPT ![p] = TaskMemory(1, g)] /\ results' = results
    BY <1>2, <1>4, <2>1, <2>3, <2>4
  <2>6. ResultsOf(p)' = TaskResults(p, 1, g) /\ \A q : ResultsOf(q)' = ResultsOf(q)
    BY <1>2, <1>4, <2>5 DEF ResultsOf, TaskResults
  <2>7. PICK j \in 0 .. 5 : j = k + 1 /\ j = 1
    BY <1>4
  <2>8. programs' = [programs EXCEPT ![p] = SubSeq(DaiMapper, j + 1, 5)]
    BY <1>2, <1>3, <2>7
  <2>9. /\ memory' = [memory EXCEPT ![p] = TaskMemory(j, g)] /\ ResultsOf(p)' = TaskResults(p, j, g)
        /\ \A q : q # p => ResultsOf(q)' = ResultsOf(q)
    BY <2>5, <2>6, <2>7
  <2> QED BY <2>8, <2>9, TaskArrives
<1>5. CASE k = 1
  <2>1. PICK x, h : x = "randomizeFG" /\ h = generators[p]
    OBVIOUS
  <2>2. Head(programs[p]) = NativeCall(x, 1)
    BY <1>2, <1>5, <2>1 DEF DaiMapper
  <2>3. x = "randomizeFG" =>
           /\ memory' = [memory EXCEPT ![p] = randomizeFG(memory[p], 1, generators[p])] /\ results' = results
           /\ generators' = [generators EXCEPT ![p] = [seed |-> generators[p].seed, drawn |-> generators[p].drawn + 1]]
    BY <2>2, CallIs
  <2>4. randomizeFG(TaskMemory(1, g), 1, h) = TaskMemory(2, h)
    BY TaskRandomizes
  <2>5. memory' = [memory EXCEPT ![p] = TaskMemory(2, h)] /\ results' = results
    BY <1>2, <1>5, <2>1, <2>3, <2>4
  <2>6. ResultsOf(p)' = TaskResults(p, 2, h) /\ \A q : ResultsOf(q)' = ResultsOf(q)
    BY <1>2, <1>5, <2>5 DEF ResultsOf, TaskResults
  <2>7. PICK j \in 0 .. 5 : j = k + 1 /\ j = 2
    BY <1>5
  <2>8. programs' = [programs EXCEPT ![p] = SubSeq(DaiMapper, j + 1, 5)]
    BY <1>2, <1>3, <2>7
  <2>9. /\ memory' = [memory EXCEPT ![p] = TaskMemory(j, h)] /\ ResultsOf(p)' = TaskResults(p, j, h)
        /\ \A q : q # p => ResultsOf(q)' = ResultsOf(q)
    BY <2>5, <2>6, <2>7
  <2> QED BY <2>8, <2>9, TaskArrives
<1>6. CASE k = 2
  <2>1. PICK x, h : x = "prepEM" /\ h = generators[p]
    OBVIOUS
  <2>2. Head(programs[p]) = NativeCall(x, 1)
    BY <1>2, <1>6, <2>1 DEF DaiMapper
  <2>3. x = "prepEM" =>
           /\ memory' = [memory EXCEPT ![p] = PreparedEM(memory[p], 1)] /\ results' = results
           /\ generators' = [generators EXCEPT ![p] = generators[p]]
    BY <2>2, CallIs
  <2>4. PreparedEM(TaskMemory(2, g), 1) = TaskMemory(3, g)
    BY TaskPrepares
  <2>5. memory' = [memory EXCEPT ![p] = TaskMemory(3, g)] /\ results' = results
    BY <1>2, <1>6, <2>1, <2>3, <2>4
  <2>6. ResultsOf(p)' = TaskResults(p, 3, g) /\ \A q : ResultsOf(q)' = ResultsOf(q)
    BY <1>2, <1>6, <2>5 DEF ResultsOf, TaskResults
  <2>7. PICK j \in 0 .. 5 : j = k + 1 /\ j = 3
    BY <1>6
  <2>8. programs' = [programs EXCEPT ![p] = SubSeq(DaiMapper, j + 1, 5)]
    BY <1>2, <1>3, <2>7
  <2>9. /\ memory' = [memory EXCEPT ![p] = TaskMemory(j, g)] /\ ResultsOf(p)' = TaskResults(p, j, g)
        /\ \A q : q # p => ResultsOf(q)' = ResultsOf(q)
    BY <2>5, <2>6, <2>7
  <2> QED BY <2>8, <2>9, TaskArrives
<1>7. CASE k = 3
  <2>1. PICK x, h : x = "runEM" /\ h = generators[p]
    OBVIOUS
  <2>2. Head(programs[p]) = NativeCall(x, 1)
    BY <1>2, <1>7, <2>1 DEF DaiMapper
  <2>3. x = "runEM" =>
           /\ memory' = [memory EXCEPT ![p] = runEM(memory[p], 1)]
           /\ generators' = [generators EXCEPT ![p] = generators[p]]
           /\ results' = results \cup
                 {[process |-> p, handle |-> 1, fg |-> memory[p].algs[memory[p].data[1].alg].fg,
                   asked |-> memory[p].data[1].fg,
                   iters |-> runEM(memory[p], 1).algs[memory[p].data[1].alg].iters]}
    BY <2>2, CallIs
  <2>4. /\ runEM(TaskMemory(3, g), 1) = TaskMemory(4, g)
        /\ TaskMemory(3, g).data[1].alg = 1 /\ TaskMemory(3, g).data[1].fg = g
        /\ TaskMemory(3, g).algs[1].fg = g /\ TaskMemory(4, g).algs[1].iters = NumIterations
    BY TaskRuns
  <2>5. /\ memory' = [memory EXCEPT ![p] = TaskMemory(4, g)]
        /\ results' = results \cup {[process |-> p, handle |-> 1, fg |-> g, asked |-> g, iters |-> NumIterations]}
    BY <1>2, <1>7, <2>1, <2>3, <2>4
  <2>6. ResultsOf(p)' = TaskResults(p, 4, g) /\ \A q : q # p => ResultsOf(q)' = ResultsOf(q)
    <3>1. ResultsOf(p) = {}
      BY <1>2, <1>7 DEF TaskResults
    <3>2. TaskResults(p, 4, g) = {[process |-> p, handle |-> 1, fg |-> g, asked |-> g, iters |-> NumIterations]}
      BY DEF TaskResults
    <3> QED BY <2>5, <3>1, <3>2 DEF ResultsOf
  <2>7. PICK j \in 0 .. 5 : j = k + 1 /\ j = 4
    BY <1>7
  <2>8. programs' = [programs EXCEPT ![p] = SubSeq(DaiMapper, j + 1, 5)]
    BY <1>2, <1>3, <2>7
  <2>9. /\ memory' = [memory EXCEPT ![p] = TaskMemory(j, g)] /\ ResultsOf(p)' = TaskResults(p, j, g)
        /\ \A q : q # p => ResultsOf(q)' = ResultsOf(q)
    BY <2>5, <2>6, <2>7
  <2> QED BY <2>8, <2>9, TaskArrives
<1>8. CASE k = 4
  <2>1. PICK x, h : x = "freeMem" /\ h = generators[p]
    OBVIOUS
  <2>2. Head(programs[p]) = NativeCall(x, 1)
    BY <1>2, <1>8, <2>1 DEF DaiMapper
  <2>3. x = "freeMem" =>
           /\ memory' = [memory EXCEPT ![p] = freeMem(memory[p], 1)] /\ results' = results
           /\ generators' = [generators EXCEPT ![p] = generators[p]]
    BY <2>2, CallIs
  <2>4. freeMem(TaskMemory(4, g), 1) = TaskMemory(5, g)
    BY TaskFrees
  <2>5. memory' = [memory EXCEPT ![p] = TaskMemory(5, g)] /\ results' = results
    BY <1>2, <1>8, <2>1, <2>3, <2>4
  <2>6. ResultsOf(p)' = TaskResults(p, 5, g) /\ \A q : ResultsOf(q)' = ResultsOf(q)
    BY <1>2, <1>8, <2>5 DEF ResultsOf, TaskResults
  <2>7. PICK j \in 0 .. 5 : j = k + 1 /\ j = 5
    BY <1>8
  <2>8. programs' = [programs EXCEPT ![p] = SubSeq(DaiMapper, j + 1, 5)]
    BY <1>2, <1>3, <2>7
  <2>9. /\ memory' = [memory EXCEPT ![p] = TaskMemory(j, g)] /\ ResultsOf(p)' = TaskResults(p, j, g)
        /\ \A q : q # p => ResultsOf(q)' = ResultsOf(q)
    BY <2>5, <2>6, <2>7
  <2> QED BY <2>8, <2>9, TaskArrives
<1> QED BY <1>2, <1>4, <1>5, <1>6, <1>7, <1>8

(* The task that is started again has no result yet.                        *)
LEMMA TaskFails ==
    ASSUME TasksInv, NEW p \in 1 .. NumMaps, Fail(p)
    PROVE  TasksInv'
<1>1. /\ programs' = [programs EXCEPT ![p] = DaiMapper] /\ memory' = [memory EXCEPT ![p] = NoObjects]
      /\ results' = {r \in results : r.process # p}
  BY DEF Fail
<1>2. TaskMemory(0, 0) = NoObjects
  BY DEF TaskMemory, TaskData, TaskAlgs, NoObjects
<1>3. ResultsOf(p)' = TaskResults(p, 0, 0) /\ \A q : q # p => ResultsOf(q)' = ResultsOf(q)
  BY <1>1 DEF ResultsOf, TaskResults
<1>4. programs' = [programs EXCEPT ![p] = SubSeq(DaiMapper, 0 + 1, 5)]
        /\ memory' = [memory EXCEPT ![p] = TaskMemory(0, 0)]
  BY <1>1, <1>2, TaskStarts
<1>5. PICK j, g : j \in 0 .. 5 /\ j = 0 /\ g = 0
  OBVIOUS
<1>6. /\ programs' = [programs EXCEPT ![p] = SubSeq(DaiMapper, j + 1, 5)]
           /\ memory' = [memory EXCEPT ![p] = TaskMemory(j, g)]
      /\ ResultsOf(p)' = TaskResults(p, j, g)
  BY <1>3, <1>4, <1>5
<1> QED BY <1>3, <1>5, <1>6, TaskArrives

(* Every call of a map task finds its objects there.                        *)
LEMMA TaskIsDefined ==
    ASSUME NEW k \in 0 .. 4, NEW g
    PROVE  Defined(TaskMemory(k, g), DaiMapper[k + 1])
<1>1. PICK m : m = TaskMemory(k, g)
  OBVIOUS
<1>2. CASE k = 0
  <2>1. DaiMapper[k + 1].method = "createDai"
    BY <1>2 DEF DaiMapper, NativeCall
  <2> QED BY <2>1 DEF Defined
<1>3. CASE k > 0
  <2>1. Unfreed(k) = TRUE
    BY DEF Unfreed
  <2>2. 1 \in DOMAIN m.data /\ m.data[1].live
    BY <1>1, <1>3, <2>1 DEF TaskMemory, TaskData
  <2>3. k >= 3 => m.data[1].alg = 1 /\ 1 \in DOMAIN m.algs /\ m.algs[1].live
    BY <1>1, <2>1 DEF TaskMemory, TaskData, TaskAlgs
  <2>4. PICK x \in {"randomizeFG", "prepEM", "runEM", "freeMem"} :
           DaiMapper[k + 1] = NativeCall(x, 1) /\ (x \in {"runEM", "freeMem"} => k >= 3)
    BY <1>3 DEF DaiMapper
  <2>5. Defined(m, NativeCall(x, 1))
    BY <2>2, <2>3, <2>4, DefinedWhen
  <2> QED BY <1>1, <2>4, <2>5
<1> QED BY <1>2, <1>3

(* So no task meets an object that is not there, and each that ends has     *)
(* reported its own run and freed everything.                               *)
LEMMA TasksAreSound ==
    ASSUME TasksInv
    PROVE  HandlesAreSound
<1> SUFFICES ASSUME NEW p \in DOMAIN programs
             PROVE  /\ programs[p] # << >> => Defined(memory[p], Head(programs[p]))
                    /\ programs[p] = << >> =>
                          /\ \A n \in DOMAIN memory[p].data : ~memory[p].data[n].live
                          /\ \A n \in DOMAIN memory[p].algs : ~memory[p].algs[n].live
                          /\ Cardinality({r \in results : r.process = p}) = IF p = 0 THEN Population ELSE 1
                    /\ \A x, y \in results : x.process = p /\ y.process = p =>
                          x.fg = x.asked /\ x.iters = NumIterations /\ (x.handle # y.handle => x.fg # y.fg)
  BY DEF HandlesAreSound
<1>1. p \in 1 .. NumMaps /\ p # 0
  BY DEF TasksInv
<1>2. PICK k, g : TaskState(p, k, g)
  BY <1>1 DEF TasksInv
<1>3. k \in 0 .. 5 /\ programs[p] = SubSeq(DaiMapper, k + 1, 5) /\ memory[p] = TaskMemory(k, g)
      /\ {r \in results : r.process = p} = TaskResults(p, k, g)
  BY <1>2 DEF TaskState, ResultsOf
<1>4. programs[p] # << >> => Defined(memory[p], Head(programs[p]))
  <2> SUFFICES ASSUME programs[p] # << >> PROVE Defined(memory[p], Head(programs[p]))
    OBVIOUS
  <2>1. k # 5
    BY <1>3, TaskCalls
  <2>2. k \in 0 .. 4 /\ k < 5
    BY <1>3, <2>1
  <2>3. Head(programs[p]) = DaiMapper[k + 1]
    BY <1>3, <2>2, TaskCalls
  <2> QED BY <1>3, <2>2, <2>3, TaskIsDefined
<1>5. ASSUME programs[p] = << >>
      PROVE  /\ \A n \in DOMAIN memory[p].data : ~memory[p].data[n].live
             /\ \A n \in DOMAIN memory[p].algs : ~memory[p].algs[n].live
             /\ Cardinality({r \in results : r.process = p}) = 1
  <2>1. k = 5
    BY <1>3, <1>5, TaskCalls
  <2>2. Unfreed(5) = FALSE
    BY DEF Unfreed
  <2>3. \A n \in DOMAIN TaskData(5, g) : ~TaskData(5, g)[n].live
    BY <2>2 DEF TaskData
  <2>4. \A n \in DOMAIN TaskAlgs(5, g) : ~TaskAlgs(5, g)[n].live
    BY <2>2 DEF TaskAlgs
  <2>5. memory[p].data = TaskData(5, g) /\ memory[p].algs = TaskAlgs(5, g)
    BY <1>3, <2>1 DEF TaskMemory
  <2>6. \E x : {r \in results : r.process = p} = {x}
    <3>1. TaskResults(p, k, g) = {[process |-> p, handle |-> 1, fg |-> g, asked |-> g, iters |-> NumIterations]}
      BY <2>1 DEF TaskResults
    <3> QED BY <1>3, <3>1
  <2>7. Cardinality({r \in results : r.process = p}) = 1
    BY <2>6, FS_Singleton
  <2> QED BY <2>3, <2>4, <2>5, <2>7
<1>6. ASSUME NEW x \in results, NEW y \in results, x.process = p, y.process = p
      PROVE  x.fg = x.asked /\ x.iters = NumIterations /\ (x.handle # y.handle => x.fg # y.fg)
  <2>1. x \in TaskResults(p, k, g) /\ y \in TaskResults(p, k, g)
    BY <1>3, <1>6
  <2>2. \A z \in TaskResults(p, k, g) : z.fg = z.asked /\ z.iters = NumIterations /\ z.handle = 1
    BY DEF TaskResults
  <2> QED BY <2>1, <2>2
<1> QED BY <1>1, <1>4, <1>5, <1>6

-----------------------------------------------------------------------------
(* One of the Java programs runs, or none.                                  *)
HandlesInv == programs = << >> \/ JavaInv \/ TasksInv

(* Both programs start with no call made.                                   *)
LEMMA HandlesBegin == HandlesInit => HandlesInv
<1> SUFFICES ASSUME HandlesInit PROVE HandlesInv
  OBVIOUS
<1>1. /\ programs = [p \in {0} |-> JavaMain] \/ programs = [p \in 1 .. NumMaps |-> DaiMapper]
      /\ memory = [p \in DOMAIN programs |-> NoObjects] /\ generators = [p \in DOMAIN programs |-> FromFile]
      /\ results = {}
  BY DEF HandlesInit
<1>2. CASE programs = [p \in {0} |-> JavaMain]
  <2>1. Population \in Nat /\ 0 \in 0 .. JavaLength
    BY JavaMainIs DEF JavaLength
  <2>2. SubSeq(JavaMain, 0 + 1, JavaLength) = JavaMain
    <3> DEFINE S == {JavaMain[k] : k \in 1 .. 5 * Population + 2}
    <3>1. JavaMain \in Seq(S) /\ Len(JavaMain) = JavaLength
      BY JavaMainIs DEF JavaLength
    <3> HIDE DEF S
    <3>2. SubSeq(JavaMain, 1, Len(JavaMain)) = JavaMain
      BY <2>1, <3>1, Consumed
    <3>3. 0 + 1 = 1
      OBVIOUS
    <3> QED BY <3>1, <3>2, <3>3
  <2>3. MemoryAt(0, 0, 0, 0) = NoObjects
    BY DEF MemoryAt, NoObjects
  <2>4. CallsMade(0, 0, 0, 0)
    BY <2>1 DEF CallsMade
  <2>5. {ResultOf(h, 0) : h \in Ran(0)} = {}
    <3>1. Ran(0) = {}
      BY <2>1 DEF Ran
    <3> QED BY <3>1
  <2>6. DOMAIN programs = {0}
    BY <1>2
  <2>7. JavaState(0, 0, 0, 0, 0)
    BY <1>1, <1>2, <2>1, <2>2, <2>3, <2>4, <2>5, <2>6 DEF JavaState
  <2> QED BY <2>7 DEF HandlesInv, JavaInv
<1>3. CASE programs = [p \in 1 .. NumMaps |-> DaiMapper]
  <2>1. TaskMemory(0, 0) = NoObjects
    BY DEF TaskMemory, TaskData, TaskAlgs, NoObjects
  <2>2. ASSUME NEW p \in 1 .. NumMaps PROVE TaskState(p, 0, 0)
    <3>1. programs[p] = DaiMapper /\ memory[p] = NoObjects
      BY <1>1, <1>3
    <3>2. ResultsOf(p) = TaskResults(p, 0, 0)
      BY <1>1 DEF ResultsOf, TaskResults
    <3> QED BY <2>1, <3>1, <3>2, TaskStarts DEF TaskState
  <2>3. programs = [p \in 1 .. NumMaps |-> programs[p]] /\ memory = [p \in 1 .. NumMaps |-> memory[p]]
    BY <1>1, <1>3
  <2>4. TasksInv
    BY <2>2, <2>3 DEF TasksInv
  <2> QED BY <2>4 DEF HandlesInv
<1> QED BY <1>1, <1>2, <1>3

(* Time passes, or the other program runs.                                  *)
LEMMA HandlesStay ==
    ASSUME HandlesInv, UNCHANGED <<programs, memory, generators, results>>
    PROVE  HandlesInv'
<1>1. CASE programs = << >>
  BY <1>1 DEF HandlesInv
<1>2. CASE JavaInv
  <2>1. PICK k, d, r, a, seed : JavaState(k, d, r, a, seed)
    BY <1>2 DEF JavaInv
  <2>2. JavaState(k, d, r, a, seed)'
    BY <2>1 DEF JavaState
  <2> QED BY <2>2 DEF HandlesInv, JavaInv
<1>3. CASE TasksInv
  <2>1. ASSUME NEW p \in 1 .. NumMaps PROVE \E k, g : TaskState(p, k, g)'
    <3>1. PICK k, g : TaskState(p, k, g)
      BY <1>3 DEF TasksInv
    <3>2. TaskState(p, k, g)'
      BY <3>1 DEF TaskState, ResultsOf
    <3> QED BY <3>2
  <2>2. TasksInv'
    BY <1>3, <2>1 DEF TasksInv
  <2> QED BY <2>2 DEF HandlesInv
<1> QED BY <1>1, <1>2, <1>3 DEF HandlesInv

(* Calls, failures and seconds keep the invariant.                          *)
LEMMA HandlesGoOn ==
    ASSUME HandlesInv, HandlesNext
    PROVE  HandlesInv'
<1>1. CASE \E p \in DOMAIN programs : Native(p) \/ Fail(p)
  <2>1. PICK p \in DOMAIN programs : Native(p) \/ Fail(p)
    BY <1>1
  <2>2. programs # << >>
    BY <2>1
  <2>3. CASE JavaInv
    <3>1. p = 0
      BY <2>3 DEF JavaInv, JavaState
    <3>2. ~Fail(p)
      BY <3>1 DEF Fail
    <3>3. JavaInv'
      BY <2>1, <2>3, <3>1, <3>2, JavaStep
    <3> QED BY <3>3 DEF HandlesInv
  <2>4. CASE TasksInv
    <3>1. p \in 1 .. NumMaps
      BY <2>4 DEF TasksInv
    <3>2. TasksInv'
      BY <2>1, <2>4, <3>1, TaskStep, TaskFails
    <3> QED BY <3>2 DEF HandlesInv
  <2> QED BY <2>2, <2>3, <2>4 DEF HandlesInv
<1>2. CASE NextSecond
  BY <1>2, HandlesStay DEF NextSecond
<1> QED BY <1>1, <1>2 DEF HandlesNext

(* The invariant implies the property.                                      *)
LEMMA HandlesSound == HandlesInv => HandlesAreSound
<1>1. CASE programs = << >>
  BY <1>1 DEF HandlesAreSound
<1>2. CASE JavaInv
  BY <1>2, JavaIsSound
<1>3. CASE TasksInv
  BY <1>3, TasksAreSound
<1> QED BY <1>1, <1>2, <1>3 DEF HandlesInv

(* Both halves, with nothing of the one while the other runs.               *)
PrototypesInv == PipesInv /\ (stage = "none" => NoPipes) /\ HandlesInv

(* Whatever the numbers of samples, mappers, maximisation steps, members of  *)
(* the population and map tasks are, and whichever of the tasks fail.        *)
THEOREM PrototypesAlwaysBehave == PrototypesSpec => []PrototypesBehave
<1>1. PrototypesInit => PrototypesInv
  <2>1. ASSUME PipesInit, NoHandles PROVE PrototypesInv
    <3>1. stage # "none"
      BY <2>1 DEF PipesInit
    <3>2. HandlesInv
      BY <2>1 DEF NoHandles, HandlesInv
    <3> QED BY <2>1, <3>1, <3>2, PipesBegin DEF PrototypesInv
  <2>2. ASSUME NoPipes, HandlesInit PROVE PrototypesInv
    BY <2>2, PipesBegin, HandlesBegin DEF PrototypesInv
  <2> QED BY <2>1, <2>2 DEF PrototypesInit
<1>2. PrototypesInv /\ [PrototypesNext]_prototypeVars => PrototypesInv'
  <2> SUFFICES ASSUME PrototypesInv, [PrototypesNext]_prototypeVars PROVE PrototypesInv'
    OBVIOUS
  <2>1. PipesInv /\ (stage = "none" => NoPipes) /\ HandlesInv
    BY DEF PrototypesInv
  <2>2. CASE PipesNext /\ UNCHANGED handleVars
    <3>1. PipesInv' /\ HandlesInv'
      <4>1. PipesInv'
        BY <2>1, <2>2, PipesGoOn
      <4>2. HandlesInv'
        BY <2>1, <2>2, HandlesStay DEF handleVars
      <4> QED BY <4>1, <4>2
    <3>2. stage' # "none"
      <4>1. CASE Map
        BY <4>1 DEF Map
      <4>2. CASE Reduce
        BY <4>2 DEF Reduce
      <4>3. CASE \E serial \in BOOLEAN : Test(serial)
        BY <4>3 DEF Test
      <4>4. CASE Compare
        BY <4>4 DEF Compare
      <4> QED BY <2>2, <4>1, <4>2, <4>3, <4>4 DEF PipesNext
    <3> QED BY <3>1, <3>2 DEF PrototypesInv
  <2>3. ASSUME UNCHANGED pipesVars PROVE PipesInv' /\ (stage' = "none" => NoPipes')
    <3>1. PipesInv'
      BY <2>1, <2>3, PipesStay
    <3>2. stage' = "none" => NoPipes'
      BY <2>1, <2>3 DEF pipesVars, NoPipes
    <3> QED BY <3>1, <3>2
  <2>4. CASE HandlesNext /\ UNCHANGED pipesVars
    BY <2>1, <2>3, <2>4, HandlesGoOn DEF PrototypesInv
  <2>5. CASE UNCHANGED prototypeVars
    <3>1. UNCHANGED pipesVars /\ UNCHANGED <<programs, memory, generators, results>>
      BY <2>5 DEF prototypeVars, handleVars
    <3> QED BY <2>1, <2>3, <3>1, HandlesStay DEF PrototypesInv
  <2> QED BY <2>2, <2>4, <2>5 DEF PrototypesNext
<1>3. PrototypesInv => PrototypesBehave
  BY PipesRound, HandlesSound DEF PrototypesInv, PrototypesBehave
<1> QED BY <1>1, <1>2, <1>3, PTL DEF PrototypesSpec
=============================================================================
