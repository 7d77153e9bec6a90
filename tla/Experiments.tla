---------------------------- MODULE Experiments -----------------------------
(***************************************************************************)
(* The programs that measure expectation maximisation, param_sharing/src/   *)
(* param_sharing.cpp and its double in mapreduce_jni_attempt/daicontrol.cpp: *)
(* main takes the arguments apart into calls, a call prepares a graph and    *)
(* samples and learns from them, in one trial or in many, which run in       *)
(* parallel.  In the double (version "jni") one thread makes the trials one   *)
(* after another, and samples are drawn for every size anew.                *)
(*                                                                         *)
(* A graph is what has become of the one in the file, a sample a member of  *)
(* the list that one run of the Gibbs sampler has written.                  *)
(***************************************************************************)
EXTENDS Integers, SequencesExt

CONSTANTS
    Arguments,                               \* of main: [number, first, mode, samples, command]
    Tabs,                                    \* the .tab files there may be at first
    InitSamples, MaxSamples, SamplesDelta,   \* EM_INIT_SAMPLES, EM_MAX_SAMPLES, EM_SAMPLES_DELTA
    Trials,                                  \* RANDOM_EM_TRIALS
    MaxEMIters,                                \* EMAlg::MAX_ITERS_DEFAULT
    MaxTime                                  \* bound on `now'

(* Where a .tab file is: named on the command line, beside the graph, in     *)
(* the directory tab/, or written by the command that hides samples.        *)
TabPlaces == {"given", "beside", "tab/", "hidden"}

ASSUME ExperimentAssumption ==
    /\ \A a \in Arguments : a.number \in Nat /\ a.samples \in Nat
    /\ Tabs \subseteq [TabPlaces -> [samples : Seq([written : Nat, number : Nat]), exists : BOOLEAN]]
    /\ {InitSamples, MaxSamples} \subseteq Nat /\ InitSamples <= MaxSamples
    /\ {SamplesDelta, Trials} \subseteq Nat \ {0}

VARIABLES
    version,    \* which of the two programs runs
    calls,      \* those that main has yet to make, the current one first
    tabs,       \* the .tab files: the samples in each place, or Absent
    tabsWritten,    \* how many .tab files have been written so far
    now,        \* the clock, in seconds
    generator,  \* the random generator that all threads share
    fg,         \* the graph the call has prepared
    slots,      \* the graphs of the trials
    evidence,   \* the samples the call has read
    trials,     \* where each trial is
    rows        \* the results

experimentVars == <<version, calls, tabs, tabsWritten, now, generator, fg, slots, evidence, trials, rows>>

Absent == [samples |-> << >>, exists |-> FALSE]

Empty == [written |-> 0, number |-> 0]

Original == [init |-> 0, by |-> << >>, seed |-> 0, drawn |-> 0, times |-> 0]

(* randomize_fg, uniformize_fg and noise_fg, by a trial or before all (trial  *)
(* <<0, 0>>): noise is added to what is       *)
(* there, the others start anew.                                           *)
Changed(g, init, by, from) ==
    CASE init \in {1, 3} -> [init |-> init, by |-> by, seed |-> from.seed, drawn |-> from.drawn,
                             times |-> IF init = 3 THEN g.times + 1 ELSE 1]
      [] init = 2 -> [init |-> 2, by |-> by, seed |-> 0, drawn |-> 0, times |-> 1]
      [] OTHER -> g

Call(does, init, command) == [does |-> does, init |-> init, command |-> command, n |-> InitSamples]

InitOf(option) ==
    CASE option = "-random" -> 1 [] option = "-uniform" -> 2 [] option = "-noise" -> 3

(* main, by the number of arguments.                                        *)
main(a) ==
    CASE a.number = 3 /\ a.first \notin {"-dot", "0"} -> <<[Call("generateTab", 0, "none") EXCEPT !.n = a.samples]>>
      [] a.number = 4 /\ a.first = "-s" -> <<Call("throw", 0, "none")>>  \* a string made from NULL
      [] a.number = 4 /\ a.first # "-s" -> <<Call("doEm", 0, "none")>>
      [] a.number >= 5 /\ a.first = "-c" -> <<Call("compareEM", 0, "none")>>
      [] a.number >= 5 /\ a.first = "-s" /\ a.mode = "-all" -> [k \in 1 .. 4 |-> Call("doEmSamples", k - 1, a.command)]
      [] a.number >= 5 /\ a.first = "-s" /\ a.mode \in {"-random", "-uniform", "-noise"} ->
            <<Call("doEmSamples", InitOf(a.mode), a.command)>>
      [] a.number >= 5 /\ a.first \in {"-random", "-uniform", "-noise"} -> <<Call("doEm", InitOf(a.first), "none")>>
      [] a.number >= 5 /\ a.first \in {"-all", "-many_random"} -> <<Call("doRandomEM", 1, "none")>>
      [] OTHER -> << >>

(* main of the double: -all learns from the four ways to start, one after another.*)
jniMain(a) ==
    CASE a.number >= 5 /\ a.first = "-all" -> [k \in 1 .. 4 |-> Call("doEm", k - 1, "none")]
      [] OTHER -> main(a)

-----------------------------------------------------------------------------
Samples(k, n) == [samples |-> [t \in 1 .. n |-> [written |-> k, number |-> t]], exists |-> TRUE]

(* generateTab into a place; nothing but the place and the number matters.  *)
generateTab(place, n) ==
    /\ tabs' = [tabs EXCEPT ![place] = Samples(tabsWritten + 1, n)]
    /\ tabsWritten' = tabsWritten + 1

count_lines(place) == 2 + Len(tabs[place].samples)

(* The .tab file that doEmSamples reads, and the one it writes before that:  *)
(* what is too small is generated anew beside the graph, even if it is in    *)
(* tab/.                                                                   *)
TabIn == IF tabs["beside"].exists THEN "beside" ELSE "tab/"

TooSmall == tabs[TabIn].exists => count_lines(TabIn) < MaxSamples

TabOut == IF tabs[TabIn].exists THEN "beside" ELSE TabIn

Resized(samples, n) ==
    [t \in 1 .. n |-> IF t <= Len(samples) THEN samples[t] ELSE Empty] \o << >>

SampleSizes == {InitSamples + d * SamplesDelta : d \in 0 .. (MaxSamples - InitSamples) \div SamplesDelta}

(* Where a trial of doEmSamples puts its results.                           *)
Cell(t) == ((t[1] - InitSamples) \div SamplesDelta) * Trials + t[2] - 1

Cells == ((MaxSamples - InitSamples) \div SamplesDelta + 1) * Trials

Seeded == [seed |-> now, drawn |-> 0]

Drawn == [generator EXCEPT !.drawn = @ + 1]

ExperimentInit ==
    /\ version \in {"param_sharing", "jni"}
    /\ \E a \in Arguments : calls = IF version = "jni" THEN jniMain(a) ELSE main(a)
    /\ tabs \in Tabs
    /\ tabsWritten = Cardinality({p \in TabPlaces : tabs[p].exists})
    /\ now = 1 /\ generator = [seed |-> 0, drawn |-> 0]
    /\ fg = Original /\ slots = << >> /\ evidence = << >> /\ trials = << >> /\ rows = {}

Current == Head(calls)

Starting(does) == calls # << >> /\ trials = << >> /\ Current.does = does

GenerateTab ==
    /\ Starting("generateTab")
    /\ generateTab("beside", Current.n)
    /\ calls' = Tail(calls)
    /\ UNCHANGED <<now, generator, fg, slots, evidence, trials, rows>>

(* The graph is changed before the first trial.                             *)
Prepared(init) ==
    /\ fg' = Changed(Original, init, <<0, 0>>, Seeded)
    /\ generator' = [Seeded EXCEPT !.drawn = IF init \in {1, 3} THEN 1 ELSE 0]

(* An exception that nobody catches.                                        *)
Throw ==
    /\ Starting("throw")
    /\ calls' = << >>
    /\ UNCHANGED <<tabs, tabsWritten, now, generator, fg, slots, evidence, trials, rows>>

(* doEm: one trial, on the graph and the samples given.                      *)
StartEm ==
    /\ Starting("doEm")
    /\ Prepared(Current.init)
    /\ evidence' = tabs["given"].samples
    /\ trials' = [t \in {<<1, 1>>} |-> "ready"]
    /\ slots' = [t \in DOMAIN trials' |-> fg']
    /\ UNCHANGED <<calls, tabs, tabsWritten, now, rows>>

(* doRandomEM: trials on clones of the graph.                               *)
StartRandomEM ==
    /\ Starting("doRandomEM")
    /\ generator' = Seeded /\ fg' = Original
    /\ evidence' = tabs["given"].samples
    /\ trials' = [t \in {<<n, 1>> : n \in 1 .. Trials} |-> "begin"]
    /\ slots' = [t \in DOMAIN trials' |-> Original]
    /\ UNCHANGED <<calls, tabs, tabsWritten, now, rows>>

(* doEmSamples up to its parallel loop: a command may hide values of the    *)
(* samples; one without the two paths is an exception.                      *)
StartSamples ==
    /\ Starting("doEmSamples")
    /\ Prepared(Current.init)
    /\ LET made == IF TooSmall THEN [tabs EXCEPT ![TabOut] = Samples(tabsWritten + 1, MaxSamples)] ELSE tabs
       IN  /\ tabs' = IF Current.command = "hide" THEN [made EXCEPT !["hidden"] = made[TabIn]] ELSE made
           /\ evidence' = made[TabIn].samples
    /\ tabsWritten' = IF TooSmall THEN tabsWritten + 1 ELSE tabsWritten
    /\ trials' = IF Current.command = "no paths" THEN << >> ELSE [t \in SampleSizes \X (1 .. Trials) |-> "begin"]
    /\ calls' = IF Current.command = "no paths" THEN << >> ELSE calls
    /\ slots' = [t \in DOMAIN trials' |-> Original]
    /\ UNCHANGED <<now, rows>>

(* One round of compareEM: new samples, and two specifications.             *)
StartComparison ==
    /\ Starting("compareEM")
    /\ generateTab("beside", Current.n)
    /\ fg' = Original
    /\ evidence' = tabs'["beside"].samples
    /\ trials' = [t \in {Current.n} \X {1, 2} |-> "ready"]
    /\ slots' = [t \in DOMAIN trials' |-> Original]
    /\ UNCHANGED <<calls, now, generator, rows>>

-----------------------------------------------------------------------------
(* Mutant of Slot: fg is shared by the threads.                             *)
SharedSlot(t) == CHOOSE first \in DOMAIN slots : \A u \in DOMAIN slots : first[1] < u[1] \/ (first[1] = u[1] /\ first[2] <= u[2])

(* private(fg), and an InfAlg of each trial.                                *)
Slot(t) == t

(* The trials of one thread, and two comparisons, follow each other.         *)
TurnOf(t) == \A k \in 1 .. t[2] - 1 : trials[<<t[1], k>>] = "done"

Advance(t, from, to) ==
    /\ t \in DOMAIN trials /\ trials[t] = from /\ TurnOf(t)
    /\ trials' = [trials EXCEPT ![t] = to]

BeginTrial(t) ==
    /\ Advance(t, "begin", IF Current.init \in {1, 3} THEN "cloned" ELSE "ready")
    /\ slots' = [slots EXCEPT ![Slot(t)] = fg]
    /\ UNCHANGED <<calls, tabs, tabsWritten, now, generator, fg, evidence, rows>>

(* randomize_fg and noise_fg begin by seeding the generator of all threads. *)
Seed(t) ==
    /\ Advance(t, "cloned", "seeded")
    /\ generator' = Seeded
    /\ UNCHANGED <<calls, tabs, tabsWritten, now, fg, slots, evidence, rows>>

Randomize(t) ==
    /\ Advance(t, "seeded", "ready")
    /\ slots' = [slots EXCEPT ![Slot(t)] = Changed(@, Current.init, t, generator)]
    /\ generator' = Drawn
    /\ UNCHANGED <<calls, tabs, tabsWritten, now, fg, evidence, rows>>

(* What is written about a trial: the iterations, with the graph compared    *)
(* with the original.                                                      *)
Result(t, iters) ==
    [does |-> Current.does, init |-> Current.init, trial |-> t, iters |-> iters,
     cell |-> IF Current.does = "doEmSamples" THEN Cell(t) ELSE 0,
     start |-> slots[Slot(t)], reference |-> Original,
     samples |-> IF Current.does = "doEmSamples" THEN Resized(evidence, t[1]) ELSE evidence]

(* The loop of a trial.                                                     *)
Learn(t) ==
    /\ Advance(t, "ready", "done")
    /\ \E iters \in 3 .. MaxEMIters : rows' = rows \cup {Result(t, iters)}
    /\ UNCHANGED <<calls, tabs, tabsWritten, now, generator, fg, slots, evidence>>

(* The call returns, or compareEM goes on with more samples.                *)
EndTrials ==
    /\ trials # << >> /\ \A t \in DOMAIN trials : trials[t] = "done"
    /\ calls' = IF Current.does = "compareEM" /\ Current.n + SamplesDelta <= MaxSamples
                THEN [calls EXCEPT ![1].n = @ + SamplesDelta]
                ELSE Tail(calls)
    /\ trials' = << >> /\ slots' = << >>
    /\ UNCHANGED <<tabs, tabsWritten, now, generator, fg, evidence, rows>>

Tick ==
    /\ now < MaxTime /\ calls # << >>
    /\ now' = now + 1
    /\ UNCHANGED <<calls, tabs, tabsWritten, generator, fg, slots, evidence, trials, rows>>

ParamNext ==
    \/ GenerateTab \/ Throw \/ StartEm \/ StartRandomEM \/ StartSamples \/ StartComparison
    \/ \E t \in DOMAIN trials : BeginTrial(t) \/ Seed(t) \/ Randomize(t) \/ Learn(t)
    \/ EndTrials \/ Tick

-----------------------------------------------------------------------------
(***************************************************************************)
(* What the double defines otherwise.                                      *)
(***************************************************************************)

(* randomize_fg and uniformize_fg leave the seed alone, noise_fg takes the    *)
(* time; what became of the graph, and of the generator.                     *)
JniChanged(g, init, by) ==
    LET from == IF init = 3 THEN Seeded ELSE generator
    IN  [fg |-> Changed(g, init, by, from),
         generator |-> [from EXCEPT !.drawn = @ + IF init \in {1, 3} THEN 1 ELSE 0]]

(* generateTab, to whatever file.                                           *)
JniGenerated(n) == Samples(tabsWritten + 1, n)

(* doEmSamples up to its loop; randomize_fg uses the generator that          *)
(* doEmSamples has seeded.                                                 *)
JniStartSamples ==
    /\ Starting("doEmSamples")
    /\ Prepared(Current.init)
    /\ trials' = [t \in SampleSizes \X {1} |-> "begin"]
    /\ slots' = [t \in DOMAIN trials' |-> Original]
    /\ UNCHANGED <<calls, tabs, tabsWritten, now, evidence, rows>>

JniTurn(t) == trials[t] = "begin" /\ \A u \in DOMAIN trials : u[1] < t[1] => trials[u] = "done"

(* A trial of doRandomEM seeds the generator and randomises a clone.         *)
BeginRandomTrial(t) ==
    /\ Current.does = "doRandomEM" /\ JniTurn(t)
    /\ generator' = [Seeded EXCEPT !.drawn = 1]
    /\ slots' = [slots EXCEPT ![t] = Changed(fg, 1, t, Seeded)]
    /\ trials' = [trials EXCEPT ![t] = "ready"]
    /\ UNCHANGED <<calls, tabs, tabsWritten, now, fg, evidence, rows>>

(* Mutant of SamplesOf: what is there already is read again.                *)
SamplesFound(n) ==
    IF Current.command = "NULL" /\ tabs["beside"].exists
    THEN [tabs |-> tabs, evidence |-> tabs["beside"].samples]
    ELSE [tabs |-> [tabs EXCEPT !["beside"] = JniGenerated(n)], evidence |-> JniGenerated(n).samples]

(* A command works on files that are named for the number of samples, and    *)
(* are removed once they have been read.                                   *)
SamplesOf(n) ==
    [tabs |-> IF Current.command = "NULL" THEN [tabs EXCEPT !["beside"] = JniGenerated(n)] ELSE tabs,
     evidence |-> JniGenerated(n).samples]

(* A trial of doEmSamples changes a clone of what has been changed before,   *)
(* and draws its samples.                                                  *)
BeginSamples(t) ==
    /\ Current.does = "doEmSamples" /\ JniTurn(t)
    /\ LET changed == JniChanged(fg, IF Current.init = 2 THEN 0 ELSE Current.init, t)
       IN  /\ slots' = [slots EXCEPT ![t] = changed.fg]
           /\ generator' = [changed.generator EXCEPT !.drawn = @ + 1]
    /\ tabs' = SamplesOf(t[1]).tabs
    /\ evidence' = SamplesOf(t[1]).evidence
    /\ tabsWritten' = tabsWritten + 1
    /\ IF Current.command = "no paths"
       THEN calls' = << >> /\ trials' = << >>
       ELSE UNCHANGED calls /\ trials' = [trials EXCEPT ![t] = "ready"]
    /\ UNCHANGED <<now, fg, rows>>

(* What is written about a trial: the iterations, with the graph compared    *)
(* with the original.                                                      *)
JniResult(t, iters) ==
    [does |-> Current.does, init |-> Current.init, trial |-> t, iters |-> iters, cell |-> 0,
     start |-> slots[t], reference |-> Original, samples |-> evidence]

JniLearn(t) ==
    /\ trials[t] = "ready" /\ (Current.does = "compareEM" => TurnOf(t))
    /\ \E iters \in 3 .. MaxEMIters : rows' = rows \cup {JniResult(t, iters)}
    /\ trials' = [trials EXCEPT ![t] = "done"]
    /\ UNCHANGED <<calls, tabs, tabsWritten, now, generator, fg, slots, evidence>>

JniNext ==
    \/ GenerateTab \/ Throw \/ StartEm \/ StartRandomEM \/ JniStartSamples \/ StartComparison
    \/ \E t \in DOMAIN trials : BeginRandomTrial(t) \/ BeginSamples(t) \/ JniLearn(t)
    \/ EndTrials \/ Tick

ExperimentNext ==
    /\ UNCHANGED version
    /\ \/ version = "param_sharing" /\ ParamNext
       \/ version = "jni" /\ JniNext

ExperimentSpec == ExperimentInit /\ [][ExperimentNext]_experimentVars

-----------------------------------------------------------------------------
RowsOf(does, init) == {r \in rows : r.does = does /\ r.init = init}

(* The results of an experiment can be compared with each other: however     *)
(* its trials interleave, each started from a graph made for it, in the way  *)
(* that was asked for; the samples of any two are a prefix of one list, but  *)
(* for those compareEM has had written for one size; and every result is in  *)
(* the one place where that of its trial is looked for.                     *)
ResultsMatch ==
    /\ \A r \in rows :
          /\ r.start.init = r.init
          /\ r.does = "doRandomEM" => r.start.by = r.trial
          /\ r.does = "doEmSamples" /\ r.init \in {1, 3} => r.start.by = r.trial
          /\ r.does \in {"doEmSamples", "compareEM"} => Len(r.samples) = r.trial[1]
          /\ r.cell \in 0 .. Cells - 1
    /\ \A r, s \in rows : r.does = s.does /\ r.init = s.init =>
          /\ r.trial = s.trial => r = s
          /\ r.does = "doEmSamples" =>
                (r.cell = s.cell <=> r.trial = s.trial) /\ (IsPrefix(r.samples, s.samples) \/ IsPrefix(s.samples, r.samples))
          /\ r.does = "compareEM" /\ r.trial[1] = s.trial[1] => r.samples = s.samples /\ r.start = s.start
    /\ (trials # << >> /\ \A t \in DOMAIN trials : trials[t] = "done") =>
          \A t \in DOMAIN trials : \E r \in RowsOf(Current.does, Current.init) : r.trial = t

(* Each size has samples of its own, exactly as many, and a graph of its     *)
(* own; random graphs of two sizes differ, even within one second.          *)
SizesAreIndependent ==
    \A r \in RowsOf("doEmSamples", 0) \cup RowsOf("doEmSamples", 1) \cup RowsOf("doEmSamples", 2) \cup RowsOf("doEmSamples", 3) :
        /\ Len(r.samples) = r.trial[1]
        /\ r.start.init = r.init
        /\ \A s \in RowsOf("doEmSamples", r.init) : s.trial # r.trial =>
              /\ ToSet(r.samples) \cap ToSet(s.samples) = {}
              /\ r.init = 1 => <<r.start.seed, r.start.drawn>> # <<s.start.seed, s.start.drawn>>

(* Whatever order the threads make them in, the results of the trials of a   *)
(* call can be compared (randomize_fg, doRandomEM, doEmSamples, compareEM).   *)
TrialsAreComparable == IF version = "jni" THEN SizesAreIndependent ELSE ResultsMatch
=============================================================================
