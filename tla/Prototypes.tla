----------------------------- MODULE Prototypes -----------------------------
(***************************************************************************)
(* The two earlier versions of the MapReduce program.                        *)
(*                                                                         *)
(* Pipes (mapreduce/src/daicontrol.cpp): main deals the samples to mappers,  *)
(* iterates map and reduce in one process until the likelihood stays, and    *)
(* then compares two runs of libDAI's EM with each other, one of which       *)
(* passes its statistics through an archive.  Samples are numbers; a         *)
(* maximisation step holds how often the pseudo-counts and each sample are   *)
(* in its statistics, and what it begins with; a graph is the list of the    *)
(* statistics that it was made from.                                        *)
(*                                                                         *)
(* Native methods for Java programs (mapreduce_jni_attempt/daicontrol.cpp):  *)
(* a handle is the address of an EM_Data, which the program must prepare     *)
(* before it runs it and free once.  The programs are DaiControl.main, one   *)
(* process with a population of handles, and the map tasks of DaiReduce2     *)
(* (hadoop/), each a process with one.  A graph is the draw of the random    *)
(* generator that it was made from.                                         *)
(***************************************************************************)
EXTENDS Integers, SequencesExt

CONSTANTS
    TabLines,        \* the numbers of lines that dat/tab may have, two of them the header
    MStepCounts,     \* the numbers of maximisation steps that dat/em may have
    NumMappers,      \* numMappers
    MaxIter,         \* EM_MAX_ITER
    Population,      \* POPULATION
    NumMaps,         \* nMaps
    NumIterations,   \* numIter
    MaxFailures,     \* bound on the map tasks that fail
    MaxSeconds       \* bound on the clock

(* A file of samples has at least its header.                              *)
ASSUME PrototypeAssumption ==
    /\ TabLines # {} /\ IsFiniteSet(TabLines) /\ \A lines \in TabLines : lines \in Nat /\ lines >= 2
    /\ MStepCounts \subseteq Nat
    /\ NumMappers \in Nat \ {0}
    /\ {Population, NumMaps, NumIterations} \subseteq Nat

VARIABLES
    stage,     \* "map", "test", "passed", "failed"
    shares,    \* evidencePerMapper
    dat,       \* datForMapper: [iter, likelihood, fg, msteps]
    emitted,   \* datForReducer
    tests,     \* the two runs of testEM, without and with the archive
    enough,    \* history: after how many iterations libDAI's EM converges
    programs,  \* of each process: the native calls it has yet to make
    memory,    \* of each process: EM_Data objects and inference objects
    generators,  \* of each process: the random generator of the library
    results,   \* the likelihoods that runEM returned, with what they are of
    failures, seconds

pipesVars == <<stage, shares, dat, emitted, tests, enough>>
handleVars == <<programs, memory, generators, results, failures, seconds>>
prototypeVars == <<pipesVars, handleVars>>

Sample == 1 .. Max(TabLines) - 2

Seen(samples) == [s \in Sample |-> IF s \in ToSet(samples) THEN 1 ELSE 0]

(* The maximisation steps of dat/em, where estimate has left _stats as       *)
(* _initial_stats.                                                         *)
Begun(initial) == [prior |-> initial, seen |-> Seen(<< >>), initial |-> initial]

Initial == Begun(1)

Added(f, g) == [s \in Sample |-> f[s] + g[s]]

(* main's dealing of the lines: the first sample, which is line 2, is left   *)
(* out, and so is what remains when every mapper has its number.            *)
Dealt(lines) ==
    LET each == (lines - 2) \div NumMappers
    IN  [i \in 1 .. NumMappers |->
            LET left == lines - 3 - (i - 1) * each
            IN  [k \in 1 .. IF each <= left THEN each ELSE left |-> 1 + (i - 1) * each + k]]

(* EM_estep for every maximisation step, none of which changes the graph;    *)
(* the likelihood is that of the last.                                     *)
hadoop_iterate(msteps, samples) ==
    [msteps |-> [j \in DOMAIN msteps |-> [msteps[j] EXCEPT !.seen = Added(@, Seen(samples))]],
     likelihood |-> Seen(samples)]

mapper(n, samples) == hadoop_iterate([j \in 1 .. n |-> Initial], samples)

(* Mutant of Merged: the pseudo-counts are added as well.                   *)
MergedWhole(mine, other) ==
    [prior |-> mine.prior + other.prior, seen |-> Added(mine.seen, other.seen), initial |-> mine.initial]

(* addExpectations of one maximisation step to another's.                   *)
Merged(mine, other) ==
    [prior |-> mine.prior + other.prior - other.initial, seen |-> Added(mine.seen, other.seen), initial |-> mine.initial]

Times(n, f) == [s \in Sample |-> n * f[s]]

(* The likelihood of an input is added once for each maximisation step.      *)
em_reduce(in) ==
    LET n == Len(in[1].msteps)
        sum[k \in DOMAIN in] ==
            IF k = 1 THEN in[1]
            ELSE [msteps |-> [j \in 1 .. n |-> Merged(sum[k - 1].msteps[j], in[k].msteps[j])],
                  likelihood |-> Added(sum[k - 1].likelihood, Times(n, in[k].likelihood))]
    IN  sum[Len(in)]

PipesInit ==
    /\ \E lines \in TabLines :
          /\ stage = IF NumMappers > lines - 2 THEN "failed" ELSE "map"
          /\ shares = Dealt(lines)
          /\ \E n \in MStepCounts : \E m \in 3 .. MaxIter :
                /\ dat = [iter |-> 0, likelihood |-> Seen(<< >>), fg |-> << >>, msteps |-> n]
                /\ enough = m
    /\ emitted = << >>
    /\ tests = [serial \in BOOLEAN |-> [fg |-> << >>, msteps |-> [j \in 1 .. dat.msteps |-> Initial]]]

Map ==
    /\ stage = "map" /\ Len(emitted) < NumMappers
    /\ emitted' = Append(emitted, mapper(dat.msteps, shares[Len(emitted) + 1]))
    /\ UNCHANGED <<stage, shares, dat, tests, enough>>

(* emHasSatisfiedTermConditions, where the likelihoods decide.              *)
Satisfied(iter) ==
    IF iter >= MaxIter THEN {TRUE} ELSE IF iter < 3 THEN {FALSE} ELSE BOOLEAN

Reduce ==
    /\ stage = "map" /\ Len(emitted) = NumMappers
    /\ LET out == em_reduce(emitted)
       IN  dat' = [dat EXCEPT !.iter = @ + 1, !.likelihood = out.likelihood, !.fg = Append(@, out.msteps)]
    /\ emitted' = << >>
    /\ \E satisfied \in Satisfied(dat.iter + 1) : stage' = IF satisfied THEN "test" ELSE "map"
    /\ UNCHANGED <<shares, tests, enough>>

(* Mutant of Archived: _initial_stats is not stored.                        *)
ArchivedStats(mstep) == [prior |-> mstep.prior, seen |-> mstep.seen, initial |-> 0]

(* What an archive stores of a maximisation step, and has read again.        *)
Archived(mstep) == [prior |-> mstep.prior, seen |-> mstep.seen, initial |-> mstep.initial]

AllSamples == [k \in Sample |-> k]

(* One iteration of testEM.                                                *)
Test(serial) ==
    /\ stage = "test" /\ Len(tests[serial].fg) < enough
    /\ serial => Len(tests[FALSE].fg) = enough
    /\ LET e == hadoop_iterate(tests[serial].msteps, AllSamples).msteps
           m == IF serial THEN [j \in DOMAIN e |-> Archived(e[j])] ELSE e
       IN  tests' = [tests EXCEPT ![serial] =
                        [fg |-> Append(@.fg, m), msteps |-> [j \in DOMAIN m |-> Begun(m[j].initial)]]]
    /\ UNCHANGED <<stage, shares, dat, emitted, enough>>

Compare ==
    /\ stage = "test" /\ \A serial \in BOOLEAN : Len(tests[serial].fg) = enough
    /\ stage' = IF tests[TRUE].fg = tests[FALSE].fg THEN "passed" ELSE "failed"
    /\ UNCHANGED <<shares, dat, emitted, tests, enough>>

(* The other version is the one that is used.                              *)
NoPipes ==
    /\ stage = "none" /\ shares = << >> /\ emitted = << >> /\ tests = << >> /\ enough = 0
    /\ dat = [iter |-> 0, likelihood |-> << >>, fg |-> << >>, msteps |-> 0]

PipesNext == Map \/ Reduce \/ (\E serial \in BOOLEAN : Test(serial)) \/ Compare

-----------------------------------------------------------------------------
DealtSamples == UNION {ToSet(shares[i]) : i \in DOMAIN shares}

(* However the samples are dealt, no sample is dealt twice, all mappers but  *)
(* the last have equally many, and a round of map and reduce learns from     *)
(* each sample dealt once and from the pseudo-counts once, as one iteration  *)
(* over these samples would; its likelihood is theirs when the               *)
(* specification has one maximisation step.  The archive changes nothing.    *)
RoundIsOneIteration ==
    LET once == [s \in Sample |-> IF s \in DealtSamples THEN 1 ELSE 0]
    IN  /\ \A i, k \in DOMAIN shares : i # k => ToSet(shares[i]) \cap ToSet(shares[k]) = {}
        /\ \A i \in DOMAIN shares : Len(shares[i]) - Len(shares[1]) \in IF i = NumMappers THEN {-1, 0} ELSE {0}
        /\ \A n \in DOMAIN dat.fg : \A j \in DOMAIN dat.fg[n] : dat.fg[n][j].prior = 1 /\ dat.fg[n][j].seen = once
        /\ dat.msteps = 1 /\ dat.iter > 0 => dat.likelihood = once
        /\ dat.iter > 0 => stage # "failed"

-----------------------------------------------------------------------------
FromFile == [seed |-> 0, drawn |-> 0]

NativeCall(method, handle) == [method |-> method, handle |-> handle]

(* The life of each copy in DaiControl.main, handle 1 being the original.    *)
JavaMain ==
    LET prepare(h) == <<NativeCall("copyDai", 1), NativeCall("randomizeFG", h), NativeCall("prepEM", h)>>
    IN  <<NativeCall("createDai", 1)>>
        \o [k \in 1 .. 3 * Population |-> prepare(2 + (k - 1) \div 3)[((k - 1) % 3) + 1]]
        \o [i \in 1 .. Population |-> NativeCall("runEM", i + 1)]
        \o [i \in 1 .. Population + 1 |-> NativeCall("freeMem", i)]

(* DaiMapper.map.                                                          *)
DaiMapper ==
    <<NativeCall("createDai", 1), NativeCall("randomizeFG", 1), NativeCall("prepEM", 1),
      NativeCall("runEM", 1), NativeCall("freeMem", 1)>>

NoObjects == [data |-> << >>, algs |-> << >>]

(* Either DaiControl or a job of DaiReduce2.                                *)
HandlesInit ==
    /\ programs \in {[p \in {0} |-> JavaMain], [p \in 1 .. NumMaps |-> DaiMapper]}
    /\ memory = [p \in DOMAIN programs |-> NoObjects]
    /\ generators = [p \in DOMAIN programs |-> FromFile]
    /\ results = {} /\ failures = 0 /\ seconds = 1

(* _infAlg and _em, which are made and deleted together: NULL, the number of *)
(* the inference object, or what happens to be there.                       *)
Null == 0
Unassigned == -1

Data(fg, alg) == [fg |-> fg, alg |-> alg, live |-> TRUE]

PreparedEM(m, h) ==
    [algs |-> Append(m.algs, [fg |-> m.data[h].fg, iters |-> 0, live |-> TRUE]),
     data |-> [m.data EXCEPT ![h].alg = Len(m.algs) + 1]]

(* Mutant of createDai: prepEM is called as well, as it once was.            *)
createDaiPrepared(m) == PreparedEM([m EXCEPT !.data = Append(@, Data(FromFile, Null))], Len(m.data) + 1)

createDai(m) == [m EXCEPT !.data = Append(@, Data(FromFile, Null))]

(* "only copies evidence, em file, and fg": the pointers are not assigned.   *)
copyDai(m, h) == [m EXCEPT !.data = Append(@, Data(m.data[h].fg, Unassigned))]

randomizeFG(m, h, fg) == [data |-> [m.data EXCEPT ![h].fg = fg], algs |-> m.algs]

runEM(m, h) == [data |-> m.data, algs |-> [m.algs EXCEPT ![m.data[h].alg].iters = @ + NumIterations]]

freeMem(m, h) ==
    [data |-> [m.data EXCEPT ![h].live = FALSE],
     algs |-> [a \in DOMAIN m.algs |->
                  IF a = m.data[h].alg THEN [m.algs[a] EXCEPT !.live = FALSE] ELSE m.algs[a]]]

(* What a call relies on.                                                  *)
Defined(m, call) ==
    call.method # "createDai" =>
        /\ call.handle \in DOMAIN m.data /\ m.data[call.handle].live
        /\ LET alg == m.data[call.handle].alg
           IN  CASE call.method = "runEM" -> alg \in DOMAIN m.algs /\ m.algs[alg].live
                 [] call.method = "freeMem" -> alg = Null \/ (alg \in DOMAIN m.algs /\ m.algs[alg].live)
                 [] OTHER -> TRUE

Native(p) ==
    /\ programs[p] # << >> /\ Defined(memory[p], Head(programs[p]))
    /\ programs' = [programs EXCEPT ![p] = Tail(@)]
    /\ LET call == Head(programs[p])
           m == memory[p]
           h == call.handle
       IN  /\ memory' = [memory EXCEPT ![p] =
                  CASE call.method = "createDai" -> createDai(m)
                    [] call.method = "copyDai" -> copyDai(m, h)
                    [] call.method = "randomizeFG" -> randomizeFG(m, h, generators[p])
                    [] call.method = "prepEM" -> PreparedEM(m, h)
                    [] call.method = "runEM" -> runEM(m, h)
                    [] call.method = "freeMem" -> freeMem(m, h)]
           /\ generators' = [generators EXCEPT ![p] =
                  CASE call.method = "createDai" -> [seed |-> seconds, drawn |-> 1]
                    [] call.method = "randomizeFG" -> [seed |-> @.seed, drawn |-> @.drawn + 1]
                    [] OTHER -> @]
           /\ results' = IF call.method = "runEM"
                         THEN results \cup {[process |-> p, handle |-> h, fg |-> m.algs[m.data[h].alg].fg,
                                             asked |-> m.data[h].fg, iters |-> runEM(m, h).algs[m.data[h].alg].iters]}
                         ELSE results
    /\ UNCHANGED <<failures, seconds>>

(* A map task fails, and the framework starts it again.                     *)
Fail(p) ==
    /\ p > 0 /\ programs[p] # << >> /\ failures < MaxFailures
    /\ failures' = failures + 1
    /\ programs' = [programs EXCEPT ![p] = DaiMapper]
    /\ memory' = [memory EXCEPT ![p] = NoObjects]
    /\ results' = {r \in results : r.process # p}
    /\ UNCHANGED <<generators, seconds>>

NextSecond ==
    /\ seconds < MaxSeconds /\ \E p \in DOMAIN programs : programs[p] # << >>
    /\ seconds' = seconds + 1
    /\ UNCHANGED <<programs, memory, generators, results, failures>>

NoHandles ==
    /\ programs = << >> /\ memory = << >> /\ generators = << >> /\ results = {}
    /\ failures = 0 /\ seconds = 1

HandlesNext == (\E p \in DOMAIN programs : Native(p) \/ Fail(p)) \/ NextSecond

-----------------------------------------------------------------------------
(* No call meets a pointer that was never assigned or whose object is gone;  *)
(* a process that ends has freed all it made, and each handle has had one    *)
(* result, of its own graph and of as many iterations as were asked for; the *)
(* members of a population start from different graphs.                     *)
HandlesAreSound ==
    \A p \in DOMAIN programs :
        /\ programs[p] # << >> => Defined(memory[p], Head(programs[p]))
        /\ programs[p] = << >> =>
              /\ \A n \in DOMAIN memory[p].data : ~memory[p].data[n].live
              /\ \A n \in DOMAIN memory[p].algs : ~memory[p].algs[n].live
              /\ Cardinality({r \in results : r.process = p}) = IF p = 0 THEN Population ELSE 1
        /\ \A r, s \in results : r.process = p /\ s.process = p =>
              /\ r.fg = r.asked /\ r.iters = NumIterations
              /\ r.handle # s.handle => r.fg # s.fg

-----------------------------------------------------------------------------
(* One of the two versions runs.                                           *)
PrototypesInit == (PipesInit /\ NoHandles) \/ (NoPipes /\ HandlesInit)

PrototypesNext ==
    \/ PipesNext /\ UNCHANGED handleVars
    \/ HandlesNext /\ UNCHANGED pipesVars

PrototypesSpec == PrototypesInit /\ [][PrototypesNext]_prototypeVars

(* A round of map and reduce is one iteration of EM on the samples dealt, and *)
(* handles are used only between their making and their end, by a process    *)
(* that frees them all.                                                    *)
PrototypesBehave == RoundIsOneIteration /\ HandlesAreSound

=============================================================================
