----------------------------- MODULE MCPrograms -----------------------------
(***************************************************************************)
(* The programs around the library, each on small inputs: the stand-alone    *)
(* ALEM program, the experiments with EM in their two versions, the          *)
(* prototypes of the MapReduce version, the generator of factor graphs, and   *)
(* the solver of the UAI challenge.  A behaviour is one execution of one      *)
(* program.                                                                *)
(***************************************************************************)
EXTENDS AlemLocal, UaiSolver, Experiments, Prototypes

CONSTANTS
    Programs,    \* those of the run
    p1, p2, p3   \* parameters, of rising likelihood

VARIABLES
    program,                   \* the one that runs
    request, creating, result  \* CreateFG

createVars == <<request, creating, result>>
vars == <<program, localVars, experimentVars, prototypeVars, createVars, solverVars>>

AllPrograms == {"alem", "experiments", "prototypes", "createfg", "uai"}
Generator == {"createfg"}

MCParams == {p1, p2, p3}
MCLik == [p \in MCParams |-> CASE p = p1 -> -30 [] p = p2 -> -20 [] OTHER -> -18]
MCStep == [p \in MCParams |-> CASE p = p1 -> {p1, p2} [] OTHER -> {p3}]

-----------------------------------------------------------------------------
Argument(number, first, mode, command) ==
    [number |-> number, first |-> first, mode |-> mode, samples |-> 3, command |-> command]

(* One command line for every way main branches.  The experiments have two    *)
(* sizes of samples, two trials of each, that may fall into one second.      *)
MCArguments == {
    Argument(3, "fg", "", ""), Argument(4, "-s", "", ""), Argument(4, "fg", "", ""),
    Argument(5, "-c", "", ""), Argument(5, "-s", "-all", "NULL"), Argument(6, "-s", "-noise", "hide"),
    Argument(6, "-s", "-random", "no paths"), Argument(5, "-random", "", ""),
    Argument(5, "-many_random", "", ""), Argument(5, "-all", "", ""), Argument(5, "-dot", "", "")}

Tab(n) == [samples |-> [t \in 1 .. n |-> [written |-> 1, number |-> t]], exists |-> TRUE]

(* The .tab file that is named, and another one that has too few samples,    *)
(* just enough by its number of lines, or enough.                           *)
MCTabs ==
    {[p \in {"given", "beside", "tab/", "hidden"} |->
         CASE p = "given" -> Tab(3) [] p = q -> Tab(n) [] OTHER -> [samples |-> << >>, exists |-> FALSE]] :
        n \in {1, 3, 4}, q \in {"beside", "tab/"}}

(* Shares of none to two samples, and a rest, for the first prototype.      *)
MCTabLines == 4 .. 9
MCMStepCounts == 1 .. 2

-----------------------------------------------------------------------------
Options == {"N", "n1", "n2", "n3", "d", "K", "k", "j", "prime", "ldpc", "noise", "beta",
            "mean_w", "mean_th", "sigma_w", "sigma_th", "min_w", "min_th", "max_w", "max_th"}

Plain == [type |-> "FULL", factors |-> "EXPGAUSS", states |-> 2, given |-> Options,
          N |-> 4, K |-> 3, k |-> 2, j |-> 2, d |-> 2, n1 |-> 2, n2 |-> 3, n3 |-> 1,
          prime |-> 7, ldpc |-> "SMALL", periodic |-> FALSE]

Types == {"FULL", "DREG", "LOOP", "TREE", "GRID", "GRID3D", "HOI", "LDPC"}

(* Every type with every kind of factor; every option left out; sizes around *)
(* those where a type changes its shape; groups of prime and other orders.   *)
MCRequests ==
    {[Plain EXCEPT !.type = t, !.factors = f, !.states = n] :
        t \in Types, f \in {"EXPGAUSS", "POTTS", "ISINGGAUSS", "ISINGUNIFORM"}, n \in {2, 3}}
    \cup {[Plain EXCEPT !.type = t, !.given = Options \ {x}] : t \in Types \cup {"RING"}, x \in Options}
    \cup {[Plain EXCEPT !.type = "GRID", !.n1 = a, !.n2 = b, !.periodic = p] : a \in 1 .. 3, b \in 1 .. 3, p \in BOOLEAN}
    \cup {[Plain EXCEPT !.type = t, !.N = n] : t \in {"LOOP", "TREE"}, n \in 1 .. 4}
    \cup {[Plain EXCEPT !.type = "HOI", !.K = K, !.k = k] : K \in 1 .. 3, k \in 1 .. 5}
    \cup {[Plain EXCEPT !.type = "LDPC", !.ldpc = "GROUP", !.prime = p, !.j = j, !.k = k] :
            p \in {1, 2, 3, 4, 5, 7}, j \in 1 .. 3, k \in {1, 2, 3, 6}}
    \cup {[Plain EXCEPT !.type = "LDPC", !.ldpc = "RANDOM", !.N = 3, !.K = 2, !.k = k] : k \in {2, 3}}

Cre == INSTANCE CreateFG WITH Requests <- MCRequests, status <- creating

-----------------------------------------------------------------------------
(* The programs that do not run have no state; for AlemLocal that is the one *)
(* in which it has ended, for UaiSolver one in which it has not begun.       *)
Init ==
    /\ program \in Programs
    /\ IF program = "alem" THEN LocalInit
       ELSE layers = [l \in Layer |-> << >>] /\ pc = "done" /\ todo = {} /\ layer = 0 /\ index = 0 /\ runsTerminated = 0
    /\ IF program = "experiments" THEN ExperimentInit
       ELSE version = "none" /\ calls = << >> /\ tabs = << >> /\ tabsWritten = 0 /\ now = 0 /\ generator = << >> /\ fg = << >>
            /\ slots = << >> /\ evidence = << >> /\ trials = << >> /\ rows = {}
    /\ IF program = "prototypes" THEN PrototypesInit ELSE NoPipes /\ NoHandles
    /\ IF program = "createfg" THEN Cre!Init ELSE request = << >> /\ creating = "" /\ result = << >>
    /\ SolverInit /\ (program # "uai" => task = "PR" /\ ~couldBeGrid)

Next ==
    /\ UNCHANGED program
    /\ \/ /\ program = "alem" /\ LocalNext
          /\ UNCHANGED <<experimentVars, prototypeVars, createVars, solverVars>>
       \/ /\ program = "experiments" /\ ExperimentNext
          /\ UNCHANGED <<localVars, prototypeVars, createVars, solverVars>>
       \/ /\ program = "prototypes" /\ PrototypesNext
          /\ UNCHANGED <<localVars, experimentVars, createVars, solverVars>>
       \/ /\ program = "createfg" /\ Cre!Next
          /\ UNCHANGED <<localVars, experimentVars, prototypeVars, solverVars>>
       \/ /\ program = "uai" /\ SolverNext
          /\ UNCHANGED <<localVars, experimentVars, prototypeVars, createVars>>

(* The loop of AlemLocal keeps running.                                     *)
Spec == Init /\ [][Next]_vars /\ WF_localVars(LocalNext)

-----------------------------------------------------------------------------
(* CreateFG: what is generated is what the options say.                      *)
GeneratedAsAsked == program = "createfg" => Cre!GeneratedAsAsked

(* The usage of createfg: an LDPC factor graph has k bits in each check and  *)
(* j checks around each bit.                                               *)
LdpcIsRegular == program = "createfg" => Cre!LdpcIsRegular

=============================================================================
