------------------------- MODULE MapReduceJobProofs -------------------------
(***************************************************************************)
(* Whatever tasks are retried, and in whatever order the lines arrive, a    *)
(* job makes one iteration of every run on the whole evidence.             *)
(*                                                                         *)
(* The argument has three parts.  A reducer that reads grouped input        *)
(* reduces whole groups, each once (ReducerHolds).  The lines that arrive   *)
(* at a reducer are those of its runs from every shard, each once           *)
(* (Delivered).  So every group holds one line of each shard, in some       *)
(* order, and the sums over it do not depend on that order.                *)
(***************************************************************************)
EXTENDS MapReduceJob, SequenceTheorems, FiniteSetTheorems, TLAPS

-----------------------------------------------------------------------------
(* g is the lines of L from position a to position b.                       *)
Spans(L, g, a, b) ==
    /\ a \in 1 .. Len(L) /\ b \in a .. Len(L)
    /\ Len(g) = b - a + 1
    /\ \A i \in 1 .. Len(g) : g[i] = L[a + i - 1]

(* g is all the lines of one key. *)
Whole(L, g) ==
    \E a, b \in 1 .. Len(L) :
        /\ Spans(L, g, a, b)
        /\ \A i \in 1 .. Len(L) : L[i].key = L[a].key <=> i \in a .. b

(* A reducer that has read p lines of L collects in d those of the last key *)
(* so far;                                                                 *)
Collecting(L, p, d) ==
    /\ p = 0 => d = << >>
    /\ p > 0 => \E a \in 1 .. p :
                   /\ Spans(L, d, a, p)
                   /\ \A i \in 1 .. p : L[i].key = L[p].key <=> i \in a .. p

(* the groups R, each whole and each once, are those of all other keys, or, *)
(* in the end, of all.                                                     *)
Reduced(L, p, busy, R) ==
    /\ \A n \in 1 .. Len(R) : /\ Whole(L, R[n])
                              /\ \E i \in 1 .. p : L[i].key = R[n][1].key
                              /\ busy => R[n][1].key # L[p].key
    /\ \A m, n \in 1 .. Len(R) : R[m][1].key = R[n][1].key => m = n
    /\ \A i \in 1 .. p : \/ busy /\ L[i].key = L[p].key
                         \/ \E n \in 1 .. Len(R) : R[n][1].key = L[i].key

Reducer(L, p, d, o, busy, R) ==
    /\ p \in 0 .. Len(L)
    /\ ~busy => p = Len(L)
    /\ Collecting(L, p, d)
    /\ Reduced(L, p, busy, R)
    /\ Len(o) = Len(R)
    /\ \A n \in 1 .. Len(R) : o[n] \in EmReduce(R[n])

-----------------------------------------------------------------------------
(* Nothing is read yet. *)
LEMMA ReducerStarts ==
    ASSUME NEW L \in Seq(Line)
    PROVE  Reducer(L, 0, << >>, << >>, TRUE, << >>)
BY DEF Reducer, Collecting, Reduced

(* The lines collected, when there are any. *)
LEMMA CollectedFacts ==
    ASSUME NEW L \in Seq(Line), NEW p \in 0 .. Len(L), NEW d \in Seq(Line), Collecting(L, p, d), d # << >>
    PROVE  /\ p \in 1 .. Len(L) /\ Len(d) > 0
           /\ d[Len(d)] = L[p] /\ d[1].key = L[p].key
           /\ \E a \in 1 .. p : /\ Spans(L, d, a, p)
                                /\ L[a].key = L[p].key
                                /\ \A i \in 1 .. p : L[i].key = L[p].key <=> i \in a .. p
<1>1. p > 0 /\ p \in 1 .. Len(L)
  BY DEF Collecting
<1>2. PICK a \in 1 .. p : /\ Spans(L, d, a, p)
                          /\ \A i \in 1 .. p : L[i].key = L[p].key <=> i \in a .. p
  BY <1>1 DEF Collecting
<1>3. Len(d) = p - a + 1 /\ \A i \in 1 .. Len(d) : d[i] = L[a + i - 1]
  BY <1>2 DEF Spans
<1>4. 1 \in 1 .. Len(d) /\ Len(d) \in 1 .. Len(d) /\ a + 1 - 1 = a /\ a + Len(d) - 1 = p
  BY <1>1, <1>3
<1>5. d[1] = L[a] /\ d[Len(d)] = L[p]
  BY <1>3, <1>4
<1>6. L[a].key = L[p].key
  BY <1>1, <1>2
<1>7. QED
  BY <1>1, <1>2, <1>4, <1>5, <1>6

(* With grouped input, the lines of a key that is over are a whole group,   *)
(* of a key that no group has had.                                         *)
LEMMA GroupIsWhole ==
    ASSUME NEW L \in Seq(Line), Grouped(L), NEW p \in 0 .. Len(L), NEW d \in Seq(Line),
           Collecting(L, p, d), d # << >>,
           p = Len(L) \/ (p < Len(L) /\ L[p + 1].key # L[p].key)
    PROVE  Whole(L, d)
<1>1. PICK a \in 1 .. p : /\ Spans(L, d, a, p)
                          /\ L[a].key = L[p].key
                          /\ \A i \in 1 .. p : L[i].key = L[p].key <=> i \in a .. p
  BY CollectedFacts
<1>2. p \in 1 .. Len(L) /\ a \in 1 .. Len(L) /\ Len(L) \in Nat
  BY CollectedFacts
<1>3. ASSUME NEW i \in 1 .. Len(L), i > p PROVE L[i].key # L[a].key /\ i \notin a .. p
  <2>1. p # Len(L) /\ i \in Int /\ p \in Int
    BY <1>2, <1>3
  <2>2. L[p + 1].key # L[p].key
    BY <2>1
  <2>3. p + 1 \in p .. i /\ p < i /\ p \in DOMAIN L /\ i \in DOMAIN L
    BY <1>2, <1>3
  <2>4. L[p].key = L[i].key => L[p + 1].key = L[p].key
    BY <2>3 DEF Grouped
  <2>5. i \notin a .. p
    BY <1>2, <1>3
  <2> QED BY <1>1, <2>2, <2>4, <2>5
<1>4. \A i \in 1 .. Len(L) : i \in 1 .. p \/ i > p
  BY <1>2
<1>5. \A i \in 1 .. Len(L) : L[i].key = L[a].key <=> i \in a .. p
  BY <1>1, <1>3, <1>4
<1>6. QED
  BY <1>1, <1>2, <1>5 DEF Whole

(* Once a key is over, no later line has it or the key of an earlier group. *)
LEMMA KeyIsNew ==
    ASSUME NEW L \in Seq(Line), Grouped(L), NEW p \in 1 .. Len(L), p < Len(L), L[p + 1].key # L[p].key
    PROVE  \A i \in 1 .. p : L[i].key # L[p + 1].key
<1> SUFFICES ASSUME NEW i \in 1 .. p, L[i].key = L[p + 1].key PROVE FALSE
  OBVIOUS
<1>1. i \in DOMAIN L /\ p + 1 \in DOMAIN L /\ i < p + 1 /\ p \in i .. p + 1
  OBVIOUS
<1>2. L[p].key = L[i].key
  BY <1>1 DEF Grouped
<1>3. QED
  BY <1>2

(* Reading the first line. *)
LEMMA FirstIsRead ==
    ASSUME NEW L \in Seq(Line), NEW p \in Nat, p < Len(L), NEW o, NEW R \in Seq(Seq(Line)),
           Reducer(L, p, << >>, o, TRUE, R)
    PROVE  Reducer(L, p + 1, <<L[p + 1]>>, o, TRUE, R)
<1> DEFINE d == <<L[p + 1]>>
<1>1. p = 0
  <2> SUFFICES ASSUME p > 0 PROVE FALSE
    OBVIOUS
  <2>1. PICK a \in 1 .. p : Len(<< >>) = p - a + 1
    BY DEF Reducer, Collecting, Spans
  <2>2. Len(<< >>) = 0
    OBVIOUS
  <2> QED BY <2>1, <2>2
<1>2. Len(R) = 0 /\ Len(o) = Len(R)
  <2>1. ASSUME Len(R) > 0 PROVE FALSE
    <3>1. 1 \in 1 .. Len(R)
      BY <2>1
    <3>2. \E i \in 1 .. p : L[i].key = R[1][1].key
      BY <3>1 DEF Reducer, Reduced
    <3> QED BY <1>1, <3>2
  <2>2. Len(R) \in Nat
    OBVIOUS
  <2> QED BY <2>1, <2>2 DEF Reducer
<1>3. Len(d) = 1 /\ d[1] = L[1] /\ Len(L) \in Nat /\ 1 <= Len(L)
  BY <1>1
<1> HIDE DEF d
<1>4. Spans(L, d, 1, 1)
  BY <1>3 DEF Spans
<1>5. Collecting(L, p + 1, d)
  BY <1>1, <1>4 DEF Collecting
<1>6. Reduced(L, p + 1, TRUE, R)
  BY <1>1, <1>2 DEF Reduced
<1>7. QED
  <2>1. p + 1 \in 0 .. Len(L) /\ Len(o) = Len(R)
    BY <1>1, <1>2, <1>3
  <2>2. \A n \in 1 .. Len(R) : o[n] \in EmReduce(R[n])
    BY DEF Reducer
  <2>3. Reducer(L, p + 1, d, o, TRUE, R)
    BY <1>5, <1>6, <2>1, <2>2 DEF Reducer
  <2> QED BY <2>3 DEF d

(* Reading a line of the key that is being collected. *)
LEMMA SameIsRead ==
    ASSUME NEW L \in Seq(Line), Grouped(L), NEW p \in Nat, p < Len(L),
           NEW d \in Seq(Line), d # << >>, NEW o, NEW R \in Seq(Seq(Line)),
           Reducer(L, p, d, o, TRUE, R), d[Len(d)].key = L[p + 1].key
    PROVE  Reducer(L, p + 1, Append(d, L[p + 1]), o, TRUE, R)
<1> DEFINE e == Append(d, L[p + 1])
<1>1. /\ p \in 1 .. Len(L) /\ d[Len(d)] = L[p] /\ Len(L) \in Nat
      /\ \E a \in 1 .. p : /\ Spans(L, d, a, p)
                           /\ \A i \in 1 .. p : L[i].key = L[p].key <=> i \in a .. p
  BY CollectedFacts DEF Reducer
<1>2. L[p + 1].key = L[p].key
  BY <1>1
<1>3. PICK a \in 1 .. p : /\ Spans(L, d, a, p)
                          /\ \A i \in 1 .. p : L[i].key = L[p].key <=> i \in a .. p
  BY <1>1
<1>4. Len(d) = p - a + 1 /\ \A i \in 1 .. Len(d) : d[i] = L[a + i - 1]
  BY <1>3 DEF Spans
<1>5. Len(e) = Len(d) + 1 /\ e[Len(d) + 1] = L[p + 1] /\ \A i \in 1 .. Len(d) : e[i] = d[i]
  BY AppendProperties
<1> HIDE DEF e
<1>6. Len(e) = (p + 1) - a + 1
  BY <1>4, <1>5
<1>7. ASSUME NEW i \in 1 .. Len(e) PROVE e[i] = L[a + i - 1]
  <2>1. i \in 1 .. Len(d) \/ (i = Len(d) + 1 /\ a + i - 1 = p + 1)
    BY <1>1, <1>4, <1>6
  <2> QED BY <1>4, <1>5, <2>1
<1>8. Spans(L, e, a, p + 1)
  BY <1>1, <1>6, <1>7 DEF Spans
<1>9. \A i \in 1 .. p + 1 : L[i].key = L[p + 1].key <=> i \in a .. p + 1
  <2>1. \A i \in 1 .. p + 1 : i \in 1 .. p \/ i = p + 1
    BY <1>1
  <2> QED BY <1>1, <1>2, <1>3, <2>1
<1>10. Collecting(L, p + 1, e)
  BY <1>1, <1>8, <1>9 DEF Collecting
<1>11. Reduced(L, p + 1, TRUE, R)
  <2>1. Reduced(L, p, TRUE, R)
    BY DEF Reducer
  <2>2. 1 .. p + 1 = (1 .. p) \cup {p + 1}
    BY <1>1
  <2> QED BY <1>2, <2>1, <2>2 DEF Reduced
<1>12. QED
  <2>1. p + 1 \in 0 .. Len(L)
    BY <1>1
  <2>2. Len(o) = Len(R) /\ \A n \in 1 .. Len(R) : o[n] \in EmReduce(R[n])
    BY DEF Reducer
  <2>3. Reducer(L, p + 1, e, o, TRUE, R)
    BY <1>10, <1>11, <2>1, <2>2 DEF Reducer
  <2> QED BY <2>3 DEF e

(* Every line up to p has gone into a run of o.                             *)
AllWritten(L, p, o, R) ==
    /\ Len(o) = Len(R)
    /\ \A n \in 1 .. Len(R) : /\ Whole(L, R[n])
                              /\ \E i \in 1 .. p : L[i].key = R[n][1].key
                              /\ o[n] \in EmReduce(R[n])
    /\ \A m, n \in 1 .. Len(R) : R[m][1].key = R[n][1].key => m = n
    /\ \A i \in 1 .. p : \E n \in 1 .. Len(R) : R[n][1].key = L[i].key

(* The group collected is reduced and joins those that are.                 *)
LEMMA GroupIsReduced ==
    ASSUME NEW L \in Seq(Line), Grouped(L), NEW p \in 0 .. Len(L),
           NEW d \in Seq(Line), d # << >>, NEW o \in Seq(EMdata), NEW R \in Seq(Seq(Line)),
           Reducer(L, p, d, o, TRUE, R),
           p = Len(L) \/ (p < Len(L) /\ L[p + 1].key # L[p].key),
           NEW run \in EmReduce(d)
    PROVE  AllWritten(L, p, Append(o, run), Append(R, d))
<1> DEFINE Q == Append(R, d)
           u == Append(o, run)
           N == Len(R)
<1>1. p \in 1 .. Len(L) /\ d[1].key = L[p].key /\ Collecting(L, p, d) /\ Reduced(L, p, TRUE, R)
  BY CollectedFacts DEF Reducer
<1>2. N \in Nat /\ Len(o) = N /\ \A n \in 1 .. N : o[n] \in EmReduce(R[n])
  BY DEF Reducer
<1>3. Len(Q) = N + 1 /\ Q[N + 1] = d /\ \A n \in 1 .. N : Q[n] = R[n]
  BY AppendProperties
<1>4. Len(u) = N + 1 /\ u[N + 1] = run /\ \A n \in 1 .. N : u[n] = o[n]
  <2>1. Len(u) = Len(o) + 1 /\ u[Len(o) + 1] = run /\ \A n \in 1 .. Len(o) : u[n] = o[n]
    OBVIOUS
  <2> QED BY <1>2, <2>1
<1>5. Whole(L, d)
  BY <1>1, GroupIsWhole
<1> HIDE DEF Q, u, N
<1>6. \A n \in 1 .. N + 1 : n \in 1 .. N \/ n = N + 1
  BY <1>2
<1>7. N + 1 \in 1 .. N + 1 /\ \A n \in 1 .. N : n \in 1 .. N + 1
  BY <1>2
<1>8. /\ \A n \in 1 .. N : /\ Whole(L, R[n])
                           /\ \E i \in 1 .. p : L[i].key = R[n][1].key
                           /\ R[n][1].key # L[p].key
      /\ \A m, n \in 1 .. N : R[m][1].key = R[n][1].key => m = n
      /\ \A i \in 1 .. p : L[i].key = L[p].key \/ \E n \in 1 .. N : R[n][1].key = L[i].key
  BY <1>1 DEF Reduced, N
<1>9. \A n \in 1 .. N + 1 : Whole(L, Q[n]) /\ u[n] \in EmReduce(Q[n])
  BY <1>2, <1>3, <1>4, <1>5, <1>6, <1>8
<1>10. \A n \in 1 .. N + 1 : \E i \in 1 .. p : L[i].key = Q[n][1].key
  <2> TAKE n \in 1 .. N + 1
  <2>1. CASE n = N + 1
    <3>1. p \in 1 .. p /\ Q[n] = d
      BY <1>1, <1>3, <2>1
    <3> QED BY <1>1, <3>1
  <2>2. CASE n \in 1 .. N
    <3>1. Q[n] = R[n] /\ \E i \in 1 .. p : L[i].key = R[n][1].key
      BY <1>3, <1>8, <2>2
    <3> QED BY <3>1
  <2> QED BY <1>6, <2>1, <2>2
<1>11. ASSUME NEW m \in 1 .. N + 1, NEW n \in 1 .. N + 1, Q[m][1].key = Q[n][1].key PROVE m = n
  <2>1. Q[N + 1][1].key = L[p].key
    BY <1>1, <1>3
  <2>2. \A k \in 1 .. N : Q[k][1].key = R[k][1].key /\ Q[k][1].key # L[p].key
    BY <1>3, <1>8
  <2>3. CASE m = N + 1
    BY <1>6, <1>11, <2>1, <2>2, <2>3
  <2>4. CASE n = N + 1
    BY <1>6, <1>11, <2>1, <2>2, <2>4
  <2>5. CASE m \in 1 .. N /\ n \in 1 .. N
    BY <1>8, <1>11, <2>2, <2>5
  <2> QED BY <1>6, <2>3, <2>4, <2>5
<1>12. \A i \in 1 .. p : \E n \in 1 .. N + 1 : Q[n][1].key = L[i].key
  <2> TAKE i \in 1 .. p
  <2>1. CASE L[i].key = L[p].key
    <3>1. Q[N + 1][1].key = L[i].key
      BY <1>1, <1>3, <2>1
    <3> QED BY <1>7, <3>1
  <2>2. CASE L[i].key # L[p].key
    <3>1. PICK n \in 1 .. N : R[n][1].key = L[i].key
      BY <1>8, <2>2
    <3>2. Q[n][1].key = L[i].key
      BY <1>3, <3>1
    <3> QED BY <1>7, <3>2
  <2> QED BY <2>1, <2>2
<1>13. QED
  <2>1. AllWritten(L, p, u, Q)
    BY <1>3, <1>4, <1>9, <1>10, <1>11, <1>12 DEF AllWritten
  <2> QED BY <2>1 DEF Q, u

(* Reading a line of another key. *)
LEMMA OtherIsRead ==
    ASSUME NEW L \in Seq(Line), Grouped(L), NEW p \in Nat, p < Len(L),
           NEW d \in Seq(Line), d # << >>, NEW o \in Seq(EMdata), NEW R \in Seq(Seq(Line)),
           Reducer(L, p, d, o, TRUE, R), d[Len(d)].key # L[p + 1].key,
           NEW run \in EmReduce(d)
    PROVE  Reducer(L, p + 1, <<L[p + 1]>>, Append(o, run), TRUE, Append(R, d))
<1> DEFINE Q == Append(R, d)
           u == Append(o, run)
           e == <<L[p + 1]>>
<1>1. p \in 1 .. Len(L) /\ d[Len(d)] = L[p]
  BY CollectedFacts DEF Reducer
<1>2. L[p + 1].key # L[p].key
  BY <1>1
<1>3. AllWritten(L, p, u, Q)
  <2>1. p \in 0 .. Len(L) /\ (p = Len(L) \/ (p < Len(L) /\ L[p + 1].key # L[p].key))
    BY <1>1, <1>2
  <2> QED BY <2>1, GroupIsReduced
<1>4. Len(e) = 1 /\ e[1] = L[p + 1] /\ p + 1 \in 1 .. Len(L) /\ p + 1 \in 0 .. Len(L)
  OBVIOUS
<1> HIDE DEF Q, u, e
<1>5. \A i \in 1 .. p : L[i].key # L[p + 1].key
  BY <1>1, <1>2, KeyIsNew
<1>6. \A i \in 1 .. p + 1 : i \in 1 .. p \/ i = p + 1
  BY <1>1
<1>7. Collecting(L, p + 1, e)
  <2>1. Spans(L, e, p + 1, p + 1)
    BY <1>1, <1>4 DEF Spans
  <2>2. \A i \in 1 .. p + 1 : L[i].key = L[p + 1].key <=> i \in p + 1 .. p + 1
    BY <1>1, <1>5, <1>6
  <2>3. p + 1 \in 1 .. p + 1 /\ p + 1 > 0
    BY <1>1
  <2>4. \E a \in 1 .. p + 1 : /\ Spans(L, e, a, p + 1)
                              /\ \A i \in 1 .. p + 1 : L[i].key = L[p + 1].key <=> i \in a .. p + 1
    BY <2>1, <2>2, <2>3
  <2>5. p + 1 # 0
    BY <2>3
  <2> QED BY <2>4, <2>5 DEF Collecting
<1>8. Reduced(L, p + 1, TRUE, Q)
  <2>1. \A i \in 1 .. p : i \in 1 .. p + 1
    BY <1>1
  <2>2. \A n \in 1 .. Len(Q) : Q[n][1].key # L[p + 1].key
    BY <1>3, <1>5 DEF AllWritten
  <2> QED BY <1>3, <1>6, <2>1, <2>2 DEF Reduced, AllWritten
<1>9. Reducer(L, p + 1, e, u, TRUE, Q)
  BY <1>3, <1>4, <1>7, <1>8 DEF Reducer, AllWritten
<1>10. QED
  BY <1>9 DEF Q, u, e

(* The end of the input. *)
LEMMA EndIsReached ==
    ASSUME NEW L \in Seq(Line), Grouped(L), NEW d \in Seq(Line),
           NEW o \in Seq(EMdata), NEW R \in Seq(Seq(Line)),
           Reducer(L, Len(L), d, o, TRUE, R)
    PROVE  /\ d = << >> => Reducer(L, Len(L), d, o, FALSE, R)
           /\ d # << >> => \A run \in EmReduce(d) :
                              Reducer(L, Len(L), d, Append(o, run), FALSE, Append(R, d))
<1> DEFINE p == Len(L)
<1>1. p \in Nat /\ p \in 0 .. Len(L) /\ Collecting(L, p, d) /\ Reduced(L, p, TRUE, R)
  <2>1. p \in Nat /\ p \in 0 .. Len(L)
    OBVIOUS
  <2> QED BY <2>1 DEF Reducer
<1>2. CASE d = << >>
  <2>1. p = 0
    <3> SUFFICES ASSUME p > 0 PROVE FALSE
      BY <1>1
    <3>1. PICK a \in 1 .. p : Len(d) = p - a + 1
      BY <1>1 DEF Collecting, Spans
    <3>2. Len(d) = 0
      BY <1>2
    <3> QED BY <1>1, <3>1, <3>2
  <2> HIDE DEF p
  <2>2. Reduced(L, p, FALSE, R)
    BY <1>1, <2>1 DEF Reduced
  <2>3. Reducer(L, p, d, o, TRUE, R)
    BY DEF p
  <2>4. Reducer(L, p, d, o, FALSE, R)
    <3>1. p = Len(L)
      BY DEF p
    <3> QED BY <1>1, <2>2, <2>3, <3>1 DEF Reducer
  <2> QED BY <1>2, <2>4 DEF p
<1>3. ASSUME d # << >>, NEW run \in EmReduce(d)
      PROVE  Reducer(L, p, d, Append(o, run), FALSE, Append(R, d))
  <2> DEFINE Q == Append(R, d)
             u == Append(o, run)
  <2>1. AllWritten(L, p, u, Q)
    BY <1>1, <1>3, GroupIsReduced
  <2> HIDE DEF Q, u, p
  <2>2. Reduced(L, p, FALSE, Q)
    BY <2>1 DEF Reduced, AllWritten
  <2>3. p = Len(L)
    BY DEF p
  <2>4. Reducer(L, p, d, u, FALSE, Q)
    BY <1>1, <2>1, <2>2, <2>3 DEF Reducer, AllWritten
  <2> QED BY <2>4 DEF Q, u
<1>4. QED
  BY <1>2, <1>3

-----------------------------------------------------------------------------
(* The lines that are for reducer r: of each of its runs one from each       *)
(* shard; L has each once.                                                 *)
Delivered(L, r) ==
    /\ Grouped(L)
    /\ \A i \in 1 .. Len(L) : \E n \in DOMAIN Dat, s \in Shards :
          Partition(Dat[n].bnID) = r /\ L[i] = MapRecord(Dat[n], s)
    /\ \A n \in DOMAIN Dat, s \in Shards :
          Partition(Dat[n].bnID) = r => \E i \in 1 .. Len(L) : L[i] = MapRecord(Dat[n], s)
    /\ \A i, j \in 1 .. Len(L) : L[i] = L[j] => i = j

(* The group g holds the line of run n from each shard, shard h[i] at i.     *)
FromAllShards(g, n, h) ==
    /\ h \in Bijection(1 .. Len(g), Shards)
    /\ \A i \in 1 .. Len(g) : g[i] = MapRecord(Dat[n], h[i])

(* What is in the line of a run.                                           *)
LEMMA RecordFacts ==
    ASSUME NEW n \in DOMAIN Dat, NEW s \in Shards
    PROVE  /\ Dat[n] \in EMdata
           /\ MapRecord(Dat[n], s) \in Line
           /\ MapRecord(Dat[n], s).key = Dat[n].bnID
           /\ MapRecord(Dat[n], s).stats = ShardStats(s)
           /\ MapRecord(Dat[n], s).run =
                 [Dat[n] EXCEPT !.lastLikelihood = Dat[n].likelihood, !.likelihood = ShardLik[Dat[n].fg][s]]
           /\ MapRecord(Dat[n], s).run \in EMdata
           /\ ShardLik[Dat[n].fg][s] \in Int
<1>1. Dat[n] \in EMdata
  BY JobAssumption
<1>2. Dat[n].bnID \in Nat /\ Dat[n].fg \in Params /\ Dat[n].likelihood \in Int
  BY <1>1 DEF EMdata
<1>3. ShardLik[Dat[n].fg][s] \in Int
  BY <1>2, EMStepsAssumption
<1> DEFINE run == [Dat[n] EXCEPT !.lastLikelihood = Dat[n].likelihood, !.likelihood = ShardLik[Dat[n].fg][s]]
<1>4. run \in EMdata
  BY <1>1, <1>2, <1>3 DEF EMdata
<1>5. ShardStats(s) \in Stats
  BY DEF ShardStats, Stats
<1>6. MapRecord(Dat[n], s) = [key |-> Dat[n].bnID, run |-> run, stats |-> ShardStats(s)]
  BY DEF MapRecord
<1> HIDE DEF run
<1>7. MapRecord(Dat[n], s) \in Line
  BY <1>2, <1>4, <1>5, <1>6 DEF Line
<1>8. /\ MapRecord(Dat[n], s).key = Dat[n].bnID
      /\ MapRecord(Dat[n], s).stats = ShardStats(s)
      /\ MapRecord(Dat[n], s).run = run
  BY <1>6
<1>9. QED
  BY <1>1, <1>3, <1>4, <1>7, <1>8 DEF run

(* The line tells the run and the shard.                                   *)
LEMMA RecordsDiffer ==
    ASSUME NEW m \in DOMAIN Dat, NEW n \in DOMAIN Dat, NEW s \in Shards, NEW t \in Shards
    PROVE  /\ MapRecord(Dat[m], s).key = MapRecord(Dat[n], t).key => m = n
           /\ MapRecord(Dat[m], s) = MapRecord(Dat[n], t) => m = n /\ s = t
<1>1. MapRecord(Dat[m], s).key = MapRecord(Dat[n], t).key => m = n
  <2>1. MapRecord(Dat[m], s).key = Dat[m].bnID /\ MapRecord(Dat[n], t).key = Dat[n].bnID
    BY DEF MapRecord
  <2> QED BY <2>1, JobAssumption
<1>2. ShardStats(s) = ShardStats(t) => s = t
  <2> SUFFICES ASSUME ShardStats(s) = ShardStats(t) PROVE s = t
    OBVIOUS
  <2>1. ShardStats(s).counts[s] = 1 /\ ShardStats(t).counts[s] = IF s = t THEN 1 ELSE 0
    BY DEF ShardStats
  <2> QED BY <2>1
<1>3. MapRecord(Dat[m], s).stats = ShardStats(s) /\ MapRecord(Dat[n], t).stats = ShardStats(t)
  BY RecordFacts
<1>4. QED
  BY <1>1, <1>2, <1>3

(* A whole group of what is delivered comes from all shards.                *)
LEMMA GroupFacts ==
    ASSUME NEW L \in Seq(Line), NEW r, Delivered(L, r), NEW g \in Seq(Line), Whole(L, g)
    PROVE  \E n \in DOMAIN Dat : /\ Partition(Dat[n].bnID) = r
                                 /\ \E h : FromAllShards(g, n, h)
<1>1. PICK a \in 1 .. Len(L), b \in 1 .. Len(L) :
         Spans(L, g, a, b) /\ \A i \in 1 .. Len(L) : L[i].key = L[a].key <=> i \in a .. b
  BY DEF Whole
<1>2. PICK n \in DOMAIN Dat, s0 \in Shards : Partition(Dat[n].bnID) = r /\ L[a] = MapRecord(Dat[n], s0)
  BY DEF Delivered
<1>3. /\ b \in a .. Len(L) /\ a \in Nat /\ b \in Nat /\ Len(L) \in Nat
      /\ Len(g) = b - a + 1
      /\ \A i \in 1 .. Len(g) : g[i] = L[a + i - 1]
  BY <1>1 DEF Spans
<1>4. \A i \in 1 .. Len(g) : a + i - 1 \in 1 .. Len(L) /\ a + i - 1 \in a .. b
  BY <1>3
<1>5. ASSUME NEW i \in 1 .. Len(g) PROVE \E s \in Shards : g[i] = MapRecord(Dat[n], s)
  <2>1. PICK m \in DOMAIN Dat, s \in Shards : L[a + i - 1] = MapRecord(Dat[m], s)
    <3>1. \A k \in 1 .. Len(L) : \E m \in DOMAIN Dat, s \in Shards : L[k] = MapRecord(Dat[m], s)
      BY DEF Delivered
    <3>2. a + i - 1 \in 1 .. Len(L)
      BY <1>4
    <3> QED BY <3>1, <3>2
  <2>2. L[a + i - 1].key = L[a].key
    BY <1>1, <1>4
  <2>3. m = n
    BY <1>2, <2>1, <2>2, RecordsDiffer
  <2> QED BY <1>3, <2>1, <2>3
<1> DEFINE h == [i \in 1 .. Len(g) |-> CHOOSE s \in Shards : g[i] = MapRecord(Dat[n], s)]
<1>6. \A i \in 1 .. Len(g) : h[i] \in Shards /\ g[i] = MapRecord(Dat[n], h[i])
  BY <1>5
<1>7. h \in [1 .. Len(g) -> Shards]
  BY <1>6
<1> HIDE DEF h
<1>8. ASSUME NEW i \in 1 .. Len(g), NEW j \in 1 .. Len(g), h[i] = h[j] PROVE i = j
  <2>1. L[a + i - 1] = L[a + j - 1]
    BY <1>3, <1>6, <1>8
  <2>2. a + i - 1 = a + j - 1
    BY <1>4, <2>1 DEF Delivered
  <2> QED BY <1>3, <2>2
<1>9. ASSUME NEW s \in Shards PROVE \E i \in 1 .. Len(g) : h[i] = s
  <2>1. PICK k \in 1 .. Len(L) : L[k] = MapRecord(Dat[n], s)
    BY <1>2 DEF Delivered
  <2>2. L[k].key = L[a].key
    <3>1. MapRecord(Dat[n], s).key = Dat[n].bnID /\ MapRecord(Dat[n], s0).key = Dat[n].bnID
      BY RecordFacts
    <3> QED BY <1>2, <2>1, <3>1
  <2>3. k \in a .. b
    BY <1>1, <2>2
  <2>4. k - a + 1 \in 1 .. Len(g) /\ a + (k - a + 1) - 1 = k
    BY <1>3, <2>3
  <2>5. MapRecord(Dat[n], h[k - a + 1]) = MapRecord(Dat[n], s)
    BY <1>3, <1>6, <2>1, <2>4
  <2>6. h[k - a + 1] = s
    BY <1>6, <2>4, <2>5, RecordsDiffer
  <2> QED BY <2>4, <2>6
<1>10. h \in Bijection(1 .. Len(g), Shards)
  BY <1>7, <1>8, <1>9 DEF Bijection, Injection, Surjection, IsInjective
<1>11. QED
  BY <1>2, <1>6, <1>10 DEF FromAllShards

(* Merging adds the counts of every shard once, and the pseudo-counts once. *)
LEMMA MergedIsComplete ==
    ASSUME NEW g \in Seq(Line), NEW n \in DOMAIN Dat, NEW h, FromAllShards(g, n, h)
    PROVE  Len(g) > 0 /\ MergedStats(g) = CompleteStats
<1> DEFINE N == Len(g)
<1>1. /\ h \in [1 .. N -> Shards] /\ N \in Nat
      /\ \A i, j \in 1 .. N : h[i] = h[j] => i = j
      /\ \A s \in Shards : \E i \in 1 .. N : h[i] = s
  BY DEF FromAllShards, Bijection, Injection, Surjection, IsInjective
<1>2. N > 0
  <2>1. PICK s \in Shards : TRUE
    BY EMStepsAssumption
  <2>2. \E i \in 1 .. N : h[i] = s
    BY <1>1
  <2> QED BY <1>1, <2>2
<1>3. \A i \in 1 .. N : g[i].stats = ShardStats(h[i])
  <2> TAKE i \in 1 .. N
  <2>1. h[i] \in Shards
    BY <1>1
  <2>2. g[i] = MapRecord(Dat[n], h[i])
    BY DEF FromAllShards
  <2>3. MapRecord(Dat[n], h[i]).stats = ShardStats(h[i])
    BY <2>1, RecordFacts
  <2> QED BY <2>2, <2>3
<1> HIDE DEF N
<1> DEFINE seen(i, t) == IF \E j \in 1 .. i : h[j] = t THEN 1 ELSE 0
           upto(i) == [prior |-> 1, counts |-> [t \in Shards |-> seen(i, t)]]
           IsMerged(m) == m = [i \in 1 .. N |->
                             IF i = 1 THEN g[1].stats ELSE AddExpectations(m[i - 1], g[i].stats)]
<1>4. upto(1) = g[1].stats
  <2>1. 1 \in 1 .. N /\ \A t : seen(1, t) = IF t = h[1] THEN 1 ELSE 0
    BY <1>1, <1>2
  <2>2. g[1].stats = [prior |-> 1, counts |-> [t \in Shards |-> IF t = h[1] THEN 1 ELSE 0]]
    BY <1>3, <2>1 DEF ShardStats
  <2> HIDE DEF seen
  <2> QED BY <2>1, <2>2
<1>5. ASSUME NEW i \in 1 .. N, i # 1 PROVE upto(i) = AddExpectations(upto(i - 1), g[i].stats)
  <2>1. i - 1 \in Nat /\ 1 .. i = (1 .. i - 1) \cup {i} /\ \A j \in 1 .. i - 1 : j \in 1 .. N /\ j # i
    BY <1>1, <1>5
  <2>2. \A j \in 1 .. i - 1 : h[j] # h[i]
    BY <1>1, <2>1
  <2>3. \A t : seen(i, t) = seen(i - 1, t) + (IF t = h[i] THEN 1 ELSE 0)
    <3> TAKE t
    <3>1. CASE t = h[i]
      <4>1. seen(i, t) = 1 /\ seen(i - 1, t) = 0
        BY <2>1, <2>2, <3>1
      <4> HIDE DEF seen
      <4> QED BY <3>1, <4>1
    <3>2. CASE t # h[i]
      <4>1. (\E j \in 1 .. i : h[j] = t) <=> (\E j \in 1 .. i - 1 : h[j] = t)
        BY <2>1, <3>2
      <4>2. seen(i, t) = seen(i - 1, t) /\ seen(i - 1, t) \in Int
        BY <4>1
      <4> HIDE DEF seen
      <4> QED BY <3>2, <4>2
    <3> QED BY <3>1, <3>2
  <2>4. g[i].stats = [prior |-> 1, counts |-> [t \in Shards |-> IF t = h[i] THEN 1 ELSE 0]]
    BY <1>3 DEF ShardStats
  <2> HIDE DEF seen
  <2>5. AddExpectations(upto(i - 1), g[i].stats) =
           [prior |-> 1 + (1 - 1), counts |-> [t \in Shards |-> seen(i - 1, t) + (IF t = h[i] THEN 1 ELSE 0)]]
    BY <2>4 DEF AddExpectations
  <2> QED BY <2>3, <2>5
<1> DEFINE w == [i \in 1 .. N |-> upto(i)]
<1>6. IsMerged(w)
  <2>1. \A i \in 1 .. N : i # 1 => i - 1 \in 1 .. N
    BY <1>1
  <2> HIDE DEF upto
  <2>2. \A i \in 1 .. N : i # 1 => w[i - 1] = upto(i - 1)
    BY <2>1
  <2>3. \A i \in 1 .. N : upto(i) = IF i = 1 THEN g[1].stats ELSE AddExpectations(w[i - 1], g[i].stats)
    BY <1>4, <1>5, <2>2
  <2> QED BY <2>3
<1>7. MergedStats(g) = (CHOOSE m : IsMerged(m))[N]
  BY DEF MergedStats, N
<1>8. IsMerged(CHOOSE m : IsMerged(m))
  <2> HIDE DEF IsMerged, w
  <2> QED BY <1>6
<1>9. ASSUME NEW m, IsMerged(m) PROVE m[N] = upto(N)
  <2> DEFINE P == {i \in Nat : i \in 1 .. N => m[i] = upto(i)}
  <2>1. \A i \in 1 .. N : m[i] = IF i = 1 THEN g[1].stats ELSE AddExpectations(m[i - 1], g[i].stats)
    BY <1>9
  <2> HIDE DEF IsMerged, upto
  <2>2. 0 \in P
    OBVIOUS
  <2>3. ASSUME NEW i \in Nat, i \in P PROVE i + 1 \in P
    <3> SUFFICES ASSUME i + 1 \in 1 .. N PROVE m[i + 1] = upto(i + 1)
      OBVIOUS
    <3>1. CASE i = 0
      <4>1. m[1] = g[1].stats /\ i + 1 = 1
        BY <2>1, <3>1
      <4> QED BY <1>4, <4>1
    <3>2. CASE i # 0
      <4>1. i \in 1 .. N /\ (i + 1) - 1 = i /\ i + 1 # 1
        BY <1>1, <3>2
      <4>2. m[i] = upto(i)
        BY <2>3, <4>1
      <4>3. m[i + 1] = AddExpectations(m[i], g[i + 1].stats)
        BY <2>1, <4>1
      <4>4. upto(i + 1) = AddExpectations(upto(i), g[i + 1].stats)
        BY <1>5, <4>1
      <4> QED BY <4>2, <4>3, <4>4
    <3> QED BY <3>1, <3>2
  <2>4. Nat \subseteq P
    <3> HIDE DEF P
    <3> QED BY <2>2, <2>3, SetInduction
  <2> QED BY <1>1, <1>2, <2>4
<1>10. upto(N) = CompleteStats
  <2>1. \A t \in Shards : seen(N, t) = 1
    BY <1>1
  <2> HIDE DEF seen
  <2> QED BY <2>1 DEF CompleteStats
<1>11. QED
  <2> HIDE DEF IsMerged, upto
  <2> QED BY <1>2, <1>7, <1>8, <1>9, <1>10 DEF N

(* sum holds the likelihood of the first lines of g.                        *)
AddsUp(g, sum) ==
    /\ sum[0] = 0
    /\ \A i \in 1 .. Len(g) : sum[i] = sum[i - 1] + g[i].run.likelihood
    /\ SumLikelihood(g) = sum[Len(g)]
    /\ SumLikelihood(g) \in Int

(* The loop of em_reduce over the likelihoods adds them up.                 *)
LEMMA LikelihoodAddsUp ==
    ASSUME NEW g \in Seq(Line)
    PROVE  \E sum : AddsUp(g, sum)
<1> DEFINE N == Len(g)
           f == [i \in 1 .. N |-> g[i].run.likelihood]
           IsSum(s) == s = [i \in 0 .. N |-> IF i = 0 THEN 0 ELSE s[i - 1] + g[i].run.likelihood]
<1>1. N \in Nat /\ \A i \in 1 .. N : f[i] \in Int /\ f[i] = g[i].run.likelihood
  <2>1. N \in Nat /\ \A i \in 1 .. N : g[i] \in Line
    OBVIOUS
  <2>2. \A l \in Line : l.run.likelihood \in Int
    BY DEF Line, EMdata
  <2> QED BY <2>1, <2>2
<1>2. IsFiniteSet(1 .. N)
  BY <1>1, FS_Interval
<1> HIDE DEF N, f
<1>3. PICK mu : Additive(mu, f, 1 .. N)
  BY <1>1, <1>2, AdditiveExists
<1> DEFINE w == [i \in 0 .. N |-> mu[1 .. i]]
<1>4. IsSum(w)
  <2>1. ASSUME NEW i \in 0 .. N PROVE w[i] = IF i = 0 THEN 0 ELSE w[i - 1] + g[i].run.likelihood
    <3>1. CASE i = 0
      <4>1. 1 .. i = {} /\ w[i] = mu[1 .. i]
        BY <3>1
      <4> QED BY <1>3, <3>1, <4>1 DEF Additive
    <3>2. CASE i # 0
      <4>1. i \in 1 .. N /\ i - 1 \in 0 .. N
        BY <1>1, <3>2
      <4>2. w[i] = mu[1 .. i] /\ w[i - 1] = mu[1 .. (i - 1)]
        BY <4>1
      <4>3. (1 .. i) \ {i} = 1 .. (i - 1) /\ i \in 1 .. i /\ 1 .. i \in SUBSET (1 .. N)
            /\ 1 .. (i - 1) \in SUBSET (1 .. N)
        BY <1>1, <4>1
      <4>4. mu[1 .. i] = f[i] + mu[1 .. (i - 1)] /\ mu[1 .. (i - 1)] \in Int
        <5> DEFINE T == 1 .. i
                   U == 1 .. (i - 1)
        <5>1. T \in SUBSET (1 .. N) /\ U \in SUBSET (1 .. N) /\ i \in T /\ T \ {i} = U
          BY <4>3
        <5> HIDE DEF T, U
        <5>2. mu[T] = f[i] + mu[T \ {i}] /\ mu[U] \in Int
          BY <1>3, <5>1 DEF Additive
        <5>3. mu[T] = f[i] + mu[U] /\ mu[U] \in Int
          BY <5>1, <5>2
        <5> QED BY <5>3 DEF T, U
      <4> HIDE DEF w
      <4> QED BY <1>1, <3>2, <4>1, <4>2, <4>4
    <3> QED BY <3>1, <3>2
  <2>2. w = [i \in 0 .. N |-> w[i]]
    OBVIOUS
  <2> HIDE DEF w
  <2> QED BY <2>1, <2>2
<1> DEFINE sum == CHOOSE s : IsSum(s)
<1>5. IsSum(sum)
  <2> HIDE DEF IsSum, w
  <2> QED BY <1>4
<1>6. SumLikelihood(g) = sum[N]
  BY DEF SumLikelihood, N
<1> HIDE DEF sum
<1>7. sum[0] = 0 /\ \A i \in 1 .. N : sum[i] = sum[i - 1] + g[i].run.likelihood
  <2>1. 0 \in 0 .. N /\ \A i \in 1 .. N : i \in 0 .. N /\ i # 0
    BY <1>1
  <2>2. \A i \in 0 .. N : sum[i] = IF i = 0 THEN 0 ELSE sum[i - 1] + g[i].run.likelihood
    BY <1>5
  <2> QED BY <2>1, <2>2
<1>8. sum[N] \in Int
  <2> DEFINE P == {i \in Nat : i <= N => sum[i] \in Int}
  <2>1. 0 \in P
    BY <1>7
  <2>2. ASSUME NEW i \in Nat, i \in P PROVE i + 1 \in P
    <3> SUFFICES ASSUME i + 1 <= N PROVE sum[i + 1] \in Int
      OBVIOUS
    <3>1. i + 1 \in 1 .. N /\ (i + 1) - 1 = i
      BY <1>1
    <3>2. sum[i] \in Int /\ f[i + 1] \in Int /\ f[i + 1] = g[i + 1].run.likelihood
      BY <1>1, <2>2, <3>1
    <3>3. sum[i + 1] = sum[i] + g[i + 1].run.likelihood
      BY <1>7, <3>1
    <3> QED BY <3>2, <3>3
  <2>3. Nat \subseteq P
    <3> HIDE DEF P
    <3> QED BY <2>1, <2>2, SetInduction
  <2> QED BY <1>1, <2>3
<1>9. QED
  BY <1>6, <1>7, <1>8 DEF AddsUp, N

(* A line of each shard, in any order: the likelihood of all the evidence.  *)
LEMMA LikelihoodIsWhole ==
    ASSUME NEW g \in Seq(Line), NEW n \in DOMAIN Dat, NEW h, FromAllShards(g, n, h)
    PROVE  SumLikelihood(g) = Round!TotalLik(Dat[n].fg)
<1> DEFINE N == Len(g)
           f == ShardLik[Dat[n].fg]
<1>1. PICK sum : AddsUp(g, sum)
  BY LikelihoodAddsUp
<1>2. N \in Nat /\ h \in Bijection(1 .. N, Shards) /\ h \in [1 .. N -> Shards]
  BY DEF FromAllShards, Bijection, Injection
<1>3. \A s \in Shards : f[s] \in Int
  BY RecordFacts
<1>4. \A i \in 1 .. N : g[i].run.likelihood = f[h[i]]
  <2> TAKE i \in 1 .. N
  <2>1. h[i] \in Shards /\ g[i] = MapRecord(Dat[n], h[i]) /\ Dat[n] \in EMdata
    BY <1>2, RecordFacts DEF FromAllShards
  <2>2. g[i].run = [Dat[n] EXCEPT !.lastLikelihood = Dat[n].likelihood,
                                  !.likelihood = ShardLik[Dat[n].fg][h[i]]]
    BY <2>1 DEF MapRecord
  <2> QED BY <2>1, <2>2 DEF EMdata
<1>5. sum[0] = 0 /\ \A i \in 1 .. N : sum[i] = sum[i - 1] + f[h[i]]
  BY <1>1, <1>4 DEF AddsUp
<1>6. IsFiniteSet(Shards)
  BY EMStepsAssumption
<1>7. sum[N] = SumOver(f, Shards)
  <2> HIDE DEF N, f
  <2> QED BY <1>2, <1>3, <1>5, <1>6, SumInAnyOrder
<1>8. SumOver(f, Shards) = Round!TotalLik(Dat[n].fg)
  BY DEF Round!TotalLik, SumOver, Round!SumOver
<1>9. QED
  BY <1>1, <1>7, <1>8 DEF AddsUp, N

(* em_reduce makes runs, with the identity of the first line's.             *)
LEMMA ReducedRuns ==
    ASSUME NEW g \in Seq(Line), Len(g) > 0
    PROVE  \A run \in EmReduce(g) : run \in EMdata /\ run.bnID = g[1].run.bnID
<1> DEFINE first == g[1].run
<1>1. first \in EMdata /\ Head(g).run = first
  <2>1. g[1] \in Line /\ Head(g) = g[1]
    OBVIOUS
  <2> QED BY <2>1 DEF Line
<1>2. SumLikelihood(g) \in Int
  BY LikelihoodAddsUp DEF AddsUp
<1>3. \A fg \in Maximize(first.fg, MergedStats(g)) : fg \in Params
  <2>1. first.fg \in Params
    BY <1>1 DEF EMdata
  <2> HIDE DEF first
  <2> QED BY <2>1, EMStepsAssumption DEF Maximize
<1> HIDE DEF first
<1>4. TAKE run \in EmReduce(g)
<1>5. CASE IsConverged(first)
  <2>1. run = [first EXCEPT !.alemItersActive = @ + 1]
    BY <1>1, <1>5 DEF EmReduce
  <2>2. run \in EMdata /\ run.bnID = first.bnID
    BY <1>1, <2>1 DEF EMdata
  <2> QED BY <2>2 DEF first
<1>6. CASE ~IsConverged(first)
  <2>1. PICK fg \in Maximize(first.fg, MergedStats(g)) :
           run = [first EXCEPT !.fg = fg, !.likelihood = SumLikelihood(g),
                               !.iter = @ + 1, !.alemItersActive = first.iter + 1]
    BY <1>1, <1>6 DEF EmReduce
  <2>2. fg \in Params
    BY <1>3
  <2>3. first.iter \in Nat
    BY <1>1 DEF EMdata
  <2>4. \A k \in Nat : k + 1 \in Nat
    OBVIOUS
  <2>5. run.bnID = first.bnID
    BY <1>1, <2>1 DEF EMdata
  <2>6. run \in EMdata
    BY <1>1, <1>2, <2>1, <2>2, <2>3, <2>4 DEF EMdata
  <2> QED BY <2>5, <2>6 DEF first
<1>7. QED
  BY <1>5, <1>6

(* What em_reduce makes of a group from all shards is what a round promises *)
(* of its run.                                                             *)
LEMMA ReducedAsPromised ==
    ASSUME NEW g \in Seq(Line), NEW n \in DOMAIN Dat, NEW h, FromAllShards(g, n, h)
    PROVE  EmReduce(g) \subseteq Round!RoundOutcomes(Dat[n])
<1> DEFINE s == h[1]
           seen == [Dat[n] EXCEPT !.lastLikelihood = Dat[n].likelihood, !.likelihood = ShardLik[Dat[n].fg][s]]
<1>1. MergedStats(g) = CompleteStats /\ Len(g) > 0
  BY MergedIsComplete
<1>2. s \in Shards /\ g[1] = MapRecord(Dat[n], s)
  <2>1. 1 \in 1 .. Len(g)
    BY <1>1
  <2> QED BY <2>1 DEF FromAllShards, Bijection, Injection
<1>3. Dat[n] \in EMdata /\ Head(g).run = seen
  <2>1. Dat[n] \in EMdata
    BY <1>2, RecordFacts
  <2>2. Head(g) = g[1] /\ g[1].run = seen
    BY <1>1, <1>2 DEF MapRecord
  <2> QED BY <2>1, <2>2
<1>4. seen.fg = Dat[n].fg /\ seen.iter = Dat[n].iter
  BY <1>3 DEF EMdata
<1>5. Maximize(Dat[n].fg, MergedStats(g)) = MStep[Dat[n].fg]
  BY <1>1 DEF Maximize
<1>6. SumLikelihood(g) = Round!TotalLik(Dat[n].fg)
  BY LikelihoodIsWhole
<1>7. EmReduce(g) = Round!OutcomesSeenBy(Dat[n], s)
  <2> DEFINE next(fg) == [seen EXCEPT !.fg = fg, !.likelihood = Round!TotalLik(Dat[n].fg),
                                      !.iter = @ + 1, !.alemItersActive = Dat[n].iter + 1]
             rested == [seen EXCEPT !.alemItersActive = @ + 1]
             made(fg) == [seen EXCEPT !.fg = fg, !.likelihood = SumLikelihood(g),
                                      !.iter = @ + 1, !.alemItersActive = seen.iter + 1]
             fgs == Maximize(seen.fg, MergedStats(g))
  <2>1. Round!OutcomesSeenBy(Dat[n], s) =
           IF IsConverged(seen) THEN {rested} ELSE {next(fg) : fg \in MStep[Dat[n].fg]}
    BY DEF Round!OutcomesSeenBy, Round!IsConverged, IsConverged, Round!Magnitude, Magnitude
  <2>2. EmReduce(g) = IF IsConverged(seen) THEN {rested} ELSE {made(fg) : fg \in fgs}
    <3> HIDE DEF seen
    <3> QED BY <1>3 DEF EmReduce
  <2> HIDE DEF seen
  <2>3. fgs = MStep[Dat[n].fg] /\ \A fg : made(fg) = next(fg)
    BY <1>4, <1>5, <1>6
  <2> HIDE DEF made, next, fgs, rested
  <2>4. {made(fg) : fg \in fgs} = {next(fg) : fg \in MStep[Dat[n].fg]}
    BY <2>3
  <2>5. EmReduce(g) = IF IsConverged(seen) THEN {rested} ELSE {next(fg) : fg \in MStep[Dat[n].fg]}
    BY <2>2, <2>4
  <2> QED BY <2>1, <2>5
<1>8. QED
  <2> HIDE DEF s
  <2> QED BY <1>2, <1>7 DEF Round!RoundOutcomes

-----------------------------------------------------------------------------
(* The mappers have written the lines of the first runs, and those that are *)
(* done the lines of all.                                                  *)
MappersFit ==
    /\ emitted \in [Shards -> Seq(Line)]
    /\ mapped \subseteq Shards
    /\ \A s \in Shards : /\ Len(emitted[s]) <= Len(Dat)
                         /\ \A n \in 1 .. Len(emitted[s]) : emitted[s][n] = MapRecord(Dat[n], s)
                         /\ s \in mapped => Len(emitted[s]) = Len(Dat)

(* Whatever order the sort makes of the lines, the reducers get each once.  *)
LEMMA ShuffleDelivers ==
    ASSUME MappersFit, mapped = Shards, NEW r \in Reducers, NEW L \in Inputs(r)
    PROVE  L \in Seq(Line) /\ Delivered(L, r)
<1> DEFINE A == Arriving(r)
           N == Cardinality(A)
<1>1. PICK order \in [1 .. N -> A] : IsInjective(order) /\ Grouped(InOrder(order)) /\ L = InOrder(order)
  BY DEF Inputs
<1>2. /\ \A s \in Shards : emitted[s] \in Seq(Line) /\ Len(emitted[s]) = Len(Dat)
      /\ \A s \in Shards : \A n \in 1 .. Len(Dat) : emitted[s][n] = MapRecord(Dat[n], s)
      /\ emitted \in [Shards -> Seq(Line)]
  BY DEF MappersFit
<1>3. DOMAIN Dat = 1 .. Len(Dat) /\ \A s \in Shards : DOMAIN emitted[s] = 1 .. Len(Dat)
  <2>1. \A s \in Shards : DOMAIN emitted[s] = 1 .. Len(emitted[s])
    BY <1>2, LenProperties
  <2>2. DOMAIN Dat = 1 .. Len(Dat)
    BY JobAssumption, LenProperties
  <2> QED BY <1>2, <2>1, <2>2
<1>4. /\ \A q \in A : /\ q[1] \in Shards /\ q[2] \in DOMAIN Dat /\ q = <<q[1], q[2]>>
                      /\ Partition(Dat[q[2]].bnID) = r
                      /\ emitted[q[1]][q[2]] = MapRecord(Dat[q[2]], q[1])
      /\ \A s \in Shards, n \in DOMAIN Dat : Partition(Dat[n].bnID) = r => <<s, n>> \in A
  <2>1. A \subseteq UNION {{s} \X DOMAIN emitted[s] : s \in Shards}
    BY DEF Arriving
  <2>2. \A q \in UNION {{s} \X DOMAIN emitted[s] : s \in Shards} :
            q[1] \in Shards /\ q[2] \in DOMAIN Dat /\ q = <<q[1], q[2]>>
    BY <1>3
  <2>3. \A s \in Shards, n \in DOMAIN Dat : <<s, n>> \in UNION {{t} \X DOMAIN emitted[t] : t \in Shards}
    BY <1>3
  <2>4. \A s \in Shards, n \in DOMAIN Dat : /\ emitted[s][n] = MapRecord(Dat[n], s)
                                            /\ emitted[s][n].key = Dat[n].bnID
    <3> TAKE s \in Shards, n \in DOMAIN Dat
    <3>1. emitted[s][n] = MapRecord(Dat[n], s)
      BY <1>2, <1>3
    <3>2. MapRecord(Dat[n], s).key = Dat[n].bnID
      BY RecordFacts
    <3> QED BY <3>1, <3>2
  <2>5. \A q \in A : Partition(emitted[q[1]][q[2]].key) = r
    BY DEF Arriving
  <2>6. \A s \in Shards, n \in DOMAIN Dat : Partition(Dat[n].bnID) = r => <<s, n>> \in A
    <3> TAKE s \in Shards, n \in DOMAIN Dat
    <3>1. <<s, n>>[1] = s /\ <<s, n>>[2] = n
      OBVIOUS
    <3> QED BY <2>3, <2>4, <3>1 DEF Arriving
  <2> HIDE DEF A
  <2> QED BY <2>1, <2>2, <2>4, <2>5, <2>6
<1>5. IsFiniteSet(A) /\ N \in Nat
  <2>1. IsFiniteSet(Entries(emitted))
    BY <1>2, EMStepsAssumption, EntriesFacts
  <2>2. A \in SUBSET Entries(emitted)
    <3>1. DOMAIN emitted = Shards
      BY <1>2
    <3> QED BY <3>1 DEF Arriving, Entries
  <2> HIDE DEF A
  <2> QED BY <2>1, <2>2, FS_Subset, FS_CardinalityType
<1> HIDE DEF A
<1>6. order \in Surjection(1 .. N, A)
  <2>1. order \in Injection(1 .. N, A)
    BY <1>1 DEF Injection
  <2>2. IsFiniteSet(1 .. N) /\ Cardinality(1 .. N) = N
    BY <1>5, FS_Interval
  <2> QED BY <1>5, <2>1, <2>2, FS_Injection
<1>7. \A i, j \in 1 .. N : order[i] = order[j] => i = j
  BY <1>1 DEF IsInjective
<1>8. \A q \in A : \E i \in 1 .. N : order[i] = q
  BY <1>6 DEF Surjection
<1> HIDE DEF N
<1>9. \A i \in 1 .. N : /\ order[i] \in A
                        /\ L[i] = MapRecord(Dat[order[i][2]], order[i][1])
                        /\ L[i] \in Line
  <2> TAKE i \in 1 .. N
  <2>1. order[i] \in A
    BY <1>1
  <2>2. L[i] = emitted[order[i][1]][order[i][2]]
    BY <1>1 DEF InOrder
  <2>3. L[i] = MapRecord(Dat[order[i][2]], order[i][1])
    BY <1>4, <2>1, <2>2
  <2>4. MapRecord(Dat[order[i][2]], order[i][1]) \in Line
    BY <1>4, <2>1, RecordFacts
  <2> QED BY <2>1, <2>3, <2>4
<1>10. DOMAIN L = 1 .. N /\ L \in [1 .. N -> Line]
  <2>1. DOMAIN L = 1 .. N /\ L = [i \in 1 .. N |-> L[i]]
    BY <1>1 DEF InOrder
  <2> QED BY <1>9, <2>1
<1>11. L \in Seq(Line) /\ Len(L) = N
  BY <1>5, <1>10, SeqDef, LenProperties
<1>12. \A i \in 1 .. N : \E n \in DOMAIN Dat, s \in Shards :
           Partition(Dat[n].bnID) = r /\ L[i] = MapRecord(Dat[n], s)
  BY <1>4, <1>9
<1>13. ASSUME NEW n \in DOMAIN Dat, NEW s \in Shards, Partition(Dat[n].bnID) = r
       PROVE  \E i \in 1 .. N : L[i] = MapRecord(Dat[n], s)
  <2>1. PICK i \in 1 .. N : order[i] = <<s, n>>
    BY <1>4, <1>8, <1>13
  <2>2. order[i][1] = s /\ order[i][2] = n
    BY <2>1
  <2> QED BY <1>9, <2>2
<1>14. ASSUME NEW i \in 1 .. N, NEW j \in 1 .. N, L[i] = L[j] PROVE i = j
  <2>1. order[i] \in A /\ order[j] \in A
    BY <1>9
  <2>2. order[i][1] = order[j][1] /\ order[i][2] = order[j][2]
    BY <1>4, <1>9, <1>14, <2>1, RecordsDiffer
  <2>3. order[i] = order[j]
    BY <1>4, <2>1, <2>2
  <2> QED BY <1>7, <2>3
<1>15. Grouped(L)
  BY <1>1
<1>16. QED
  BY <1>11, <1>12, <1>13, <1>14, <1>15 DEF Delivered

-----------------------------------------------------------------------------
(* A group, and the run it is reduced to.                                  *)
LEMMA GroupIsServed ==
    ASSUME NEW L \in Seq(Line), NEW r, Delivered(L, r), NEW g \in Seq(Line), Whole(L, g)
    PROVE  /\ Len(g) > 0 /\ MergedStats(g) = CompleteStats
           /\ \E n \in DOMAIN Dat :
                 /\ Partition(Dat[n].bnID) = r
                 /\ g[1].key = Dat[n].bnID
                 /\ \A run \in EmReduce(g) : /\ run \in EMdata
                                             /\ run.bnID = Dat[n].bnID
                                             /\ run \in Round!RoundOutcomes(Dat[n])
<1>1. PICK n \in DOMAIN Dat : Partition(Dat[n].bnID) = r /\ \E h : FromAllShards(g, n, h)
  BY GroupFacts
<1>2. PICK h : FromAllShards(g, n, h)
  BY <1>1
<1>3. Len(g) > 0 /\ MergedStats(g) = CompleteStats
  BY <1>2, MergedIsComplete
<1>4. PICK s \in Shards : g[1] = MapRecord(Dat[n], s)
  <2>1. 1 \in 1 .. Len(g)
    BY <1>3
  <2> QED BY <1>2, <2>1 DEF FromAllShards, Bijection, Injection
<1>5. g[1].key = Dat[n].bnID /\ g[1].run.bnID = Dat[n].bnID
  <2>1. Dat[n] \in EMdata
    BY <1>4, RecordFacts
  <2>2. g[1].run = [Dat[n] EXCEPT !.lastLikelihood = Dat[n].likelihood,
                                  !.likelihood = ShardLik[Dat[n].fg][s]]
    BY <1>4 DEF MapRecord
  <2>3. g[1].run.bnID = Dat[n].bnID
    BY <2>1, <2>2 DEF EMdata
  <2> QED BY <1>4, <2>3, RecordFacts
<1>6. \A run \in EmReduce(g) : run \in EMdata /\ run.bnID = Dat[n].bnID
  BY <1>3, <1>5, ReducedRuns
<1>7. \A run \in EmReduce(g) : run \in Round!RoundOutcomes(Dat[n])
  BY <1>2, ReducedAsPromised
<1>8. QED
  BY <1>1, <1>3, <1>5, <1>6, <1>7

(* o holds what a round promises of every run of reducer r, once each.      *)
Serves(o, r) ==
    /\ \A m \in 1 .. Len(o) : \E n \in DOMAIN Dat :
          /\ Partition(Dat[n].bnID) = r
          /\ o[m].bnID = Dat[n].bnID
          /\ o[m] \in Round!RoundOutcomes(Dat[n])
    /\ \A n \in DOMAIN Dat : Partition(Dat[n].bnID) = r =>
          \E m \in 1 .. Len(o) : o[m].bnID = Dat[n].bnID
    /\ \A l, m \in 1 .. Len(o) : o[l].bnID = o[m].bnID => l = m

(* A reducer that has ended has served its runs.                            *)
LEMMA EndedReducerServes ==
    ASSUME NEW L \in Seq(Line), NEW r, Delivered(L, r), NEW p \in Nat, NEW d, NEW o,
           NEW R \in Seq(Seq(Line)), Reducer(L, p, d, o, FALSE, R)
    PROVE  Serves(o, r)
<1>1. p = Len(L) /\ Reduced(L, p, FALSE, R) /\ Len(o) = Len(R) /\ Len(R) \in Nat
      /\ \A m \in 1 .. Len(R) : o[m] \in EmReduce(R[m])
  <2>1. Len(R) \in Nat
    OBVIOUS
  <2>2. p = Len(L) /\ Reduced(L, p, FALSE, R)
    BY DEF Reducer
  <2>3. Len(o) = Len(R) /\ \A m \in 1 .. Len(R) : o[m] \in EmReduce(R[m])
    BY DEF Reducer
  <2> QED BY <2>1, <2>2, <2>3
<1>2. /\ \A m \in 1 .. Len(R) : R[m] \in Seq(Line) /\ Whole(L, R[m])
      /\ \A l, m \in 1 .. Len(R) : R[l][1].key = R[m][1].key => l = m
      /\ \A i \in 1 .. p : \E m \in 1 .. Len(R) : R[m][1].key = L[i].key
  BY <1>1 DEF Reduced
<1>3. \A m \in 1 .. Len(R) : \E n \in DOMAIN Dat :
          /\ Partition(Dat[n].bnID) = r
          /\ R[m][1].key = Dat[n].bnID
          /\ o[m].bnID = Dat[n].bnID
          /\ o[m] \in Round!RoundOutcomes(Dat[n])
  <2> TAKE m \in 1 .. Len(R)
  <2>1. PICK n \in DOMAIN Dat :
           /\ Partition(Dat[n].bnID) = r
           /\ R[m][1].key = Dat[n].bnID
           /\ \A run \in EmReduce(R[m]) : /\ run \in EMdata
                                          /\ run.bnID = Dat[n].bnID
                                          /\ run \in Round!RoundOutcomes(Dat[n])
    BY <1>2, GroupIsServed
  <2> QED BY <1>1, <2>1
<1>4. \A m \in 1 .. Len(R) : o[m].bnID = R[m][1].key
  BY <1>3
<1>5. ASSUME NEW n \in DOMAIN Dat, Partition(Dat[n].bnID) = r
      PROVE  \E m \in 1 .. Len(R) : o[m].bnID = Dat[n].bnID
  <2>1. PICK s \in Shards : TRUE
    BY EMStepsAssumption
  <2>2. PICK i \in 1 .. Len(L) : L[i] = MapRecord(Dat[n], s)
    BY <1>5 DEF Delivered
  <2>3. L[i].key = Dat[n].bnID
    BY <2>2, RecordFacts
  <2> QED BY <1>1, <1>2, <1>4, <2>3
<1>6. \A l, m \in 1 .. Len(R) : o[l].bnID = o[m].bnID => l = m
  BY <1>2, <1>4
<1>7. QED
  BY <1>1, <1>3, <1>5, <1>6 DEF Serves

-----------------------------------------------------------------------------
ReducersTyped ==
    /\ lines \in [Reducers -> Seq(Line)]
    /\ pos \in [Reducers -> Nat]
    /\ dats \in [Reducers -> Seq(Line)]
    /\ out \in [Reducers -> Seq(EMdata)]
    /\ running \in [Reducers -> BOOLEAN]
    /\ reduced \in [Reducers -> Seq(Seq(Line))]

ReducerFits(r) == Reducer(lines[r], pos[r], dats[r], out[r], running[r], reduced[r])

Idle(r) == pos[r] = 0 /\ dats[r] = << >> /\ out[r] = << >> /\ running[r] /\ reduced[r] = << >>

(* The inductive invariant of a job. *)
JobInv ==
    /\ MappersFit
    /\ ReducersTyped
    /\ \A r \in Reducers : ReducerFits(r)
    /\ phase = "map" => \A r \in Reducers : Idle(r)
    /\ phase # "map" => \A r \in Reducers : Delivered(lines[r], r)
    /\ phase = "done" => outTmp = Concatenated(out) /\ \A r \in Reducers : ~running[r]

LEMMA JobInvStarts == JobInit => JobInv
<1> SUFFICES ASSUME JobInit PROVE JobInv
  OBVIOUS
<1>1. << >> \in Seq(Line) /\ << >> \in Seq(EMdata) /\ << >> \in Seq(Seq(Line)) /\ Len(<< >>) = 0
  OBVIOUS
<1>2. MappersFit
  <2>1. Len(Dat) \in Nat
    BY JobAssumption
  <2>2. emitted \in [Shards -> Seq(Line)] /\ mapped = {} /\ \A s \in Shards : Len(emitted[s]) = 0
    BY <1>1 DEF JobInit
  <2> QED BY <2>1, <2>2 DEF MappersFit
<1>3. ReducersTyped
  BY <1>1 DEF JobInit, StartReducers, ReducersTyped
<1>4. \A r \in Reducers : ReducerFits(r)
  <2> TAKE r \in Reducers
  <2>1. Reducer(lines[r], 0, << >>, << >>, TRUE, << >>)
    BY <1>3, ReducerStarts DEF ReducersTyped
  <2> QED BY <2>1 DEF JobInit, StartReducers, ReducerFits
<1>5. phase = "map" /\ \A r \in Reducers : Idle(r)
  BY DEF JobInit, StartReducers, Idle
<1>6. QED
  BY <1>2, <1>3, <1>4, <1>5 DEF JobInv

(* The mappers leave the reducers as they are. *)
LEMMA ReducersKept ==
    ASSUME JobInv, UNCHANGED reduceVars
    PROVE  /\ ReducersTyped'
           /\ \A r \in Reducers : ReducerFits(r)'
           /\ \A r \in Reducers : Idle(r) => Idle(r)'
           /\ \A r \in Reducers : Delivered(lines[r], r) => Delivered(lines[r], r)'
<1>1. /\ lines' = lines /\ pos' = pos /\ dats' = dats
      /\ out' = out /\ running' = running /\ reduced' = reduced
  BY DEF reduceVars
<1>2. ReducersTyped'
  BY <1>1 DEF JobInv, ReducersTyped
<1>3. \A r \in Reducers : ReducerFits(r)'
  BY <1>1 DEF JobInv, ReducerFits
<1>4. \A r \in Reducers : Idle(r) => Idle(r)'
  BY <1>1 DEF Idle
<1>5. \A r \in Reducers : Delivered(lines[r], r) => Delivered(lines[r], r)'
  BY <1>1 DEF Delivered
<1>6. QED
  BY <1>2, <1>3, <1>4, <1>5

(* A mapper writes, ends or fails. *)
LEMMA MapKeepsInv ==
    ASSUME JobInv, NEW s \in Shards, Emit(s) \/ MapDone(s) \/ MapCrash(s)
    PROVE  JobInv'
<1>1. phase = "map" /\ phase' = "map" /\ UNCHANGED reduceVars /\ s \notin mapped
  BY DEF Emit, MapDone, MapCrash
<1>2. /\ emitted \in [Shards -> Seq(Line)] /\ mapped \subseteq Shards /\ Len(Dat) \in Nat
      /\ emitted[s] \in Seq(Line) /\ Len(emitted[s]) \in Nat
      /\ \A t \in Shards : /\ Len(emitted[t]) <= Len(Dat)
                           /\ \A n \in 1 .. Len(emitted[t]) : emitted[t][n] = MapRecord(Dat[n], t)
                           /\ t \in mapped => Len(emitted[t]) = Len(Dat)
  BY JobAssumption DEF JobInv, MappersFit
<1>3. MappersFit'
  <2>1. CASE Emit(s)
    <3> DEFINE k == Len(emitted[s]) + 1
               l == MapRecord(Dat[k], s)
               e == Append(emitted[s], l)
    <3>1. k \in DOMAIN Dat /\ k <= Len(Dat) /\ k \in Nat
      BY <1>2, <2>1, JobAssumption DEF Emit
    <3>2. l \in Line
      <4> HIDE DEF k
      <4> QED BY <3>1, RecordFacts
    <3>3. emitted' = [emitted EXCEPT ![s] = e] /\ mapped' = mapped
      BY <2>1 DEF Emit
    <3> HIDE DEF l
    <3>4. e \in Seq(Line) /\ Len(e) = k /\ e[k] = l /\ \A n \in 1 .. Len(emitted[s]) : e[n] = emitted[s][n]
      BY <1>2, <3>2, AppendProperties
    <3> HIDE DEF e
    <3>5. emitted' \in [Shards -> Seq(Line)] /\ emitted'[s] = e /\ \A t \in Shards : t # s => emitted'[t] = emitted[t]
      BY <1>2, <3>3, <3>4
    <3>6. \A n \in 1 .. k : n = k \/ n \in 1 .. Len(emitted[s])
      BY <1>2
    <3>7. \A n \in 1 .. k : e[n] = MapRecord(Dat[n], s)
      BY <1>2, <3>4, <3>6 DEF l
    <3> HIDE DEF k
    <3> QED BY <1>1, <1>2, <3>1, <3>3, <3>4, <3>5, <3>7 DEF MappersFit
  <2>2. CASE MapDone(s)
    <3>1. mapped' = mapped \cup {s} /\ emitted' = emitted /\ Len(emitted[s]) = Len(Dat)
      BY <2>2 DEF MapDone
    <3> QED BY <1>2, <3>1 DEF MappersFit
  <2>3. CASE MapCrash(s)
    <3>1. emitted' = [emitted EXCEPT ![s] = << >>] /\ mapped' = mapped
      BY <2>3 DEF MapCrash
    <3>2. emitted' \in [Shards -> Seq(Line)] /\ Len(emitted'[s]) = 0 /\ \A t \in Shards : t # s => emitted'[t] = emitted[t]
      BY <1>2, <3>1
    <3> QED BY <1>1, <1>2, <3>1, <3>2 DEF MappersFit
  <2> QED BY <2>1, <2>2, <2>3
<1>4. \A r \in Reducers : Idle(r)
  BY <1>1 DEF JobInv
<1>5. QED
  BY <1>1, <1>3, <1>4, ReducersKept DEF JobInv

(* The lines are dealt to the reducers. *)
LEMMA ShuffleKeepsInv ==
    ASSUME JobInv, Shuffle
    PROVE  JobInv'
<1>1. phase = "map" /\ phase' = "reduce" /\ mapped = Shards /\ MappersFit /\ ReducersTyped
  BY DEF JobInv, Shuffle
<1>2. lines' \in [Reducers -> Seq(Line)] /\ \A r \in Reducers : lines'[r] \in Seq(Line) /\ Delivered(lines'[r], r)
  <2>1. PICK inputs \in {[r \in Reducers |-> Inputs(r)]} :
          \E ls \in [Reducers -> UNION {inputs[r] : r \in Reducers}] :
             (\A r \in Reducers : ls[r] \in inputs[r]) /\ lines' = ls
    BY DEF Shuffle
  <2>2. PICK ls \in [Reducers -> UNION {inputs[r] : r \in Reducers}] :
             (\A r \in Reducers : ls[r] \in inputs[r]) /\ lines' = ls
    BY <2>1
  <2>3. \A r \in Reducers : lines'[r] \in Inputs(r)
    BY <2>1, <2>2
  <2>4. \A r \in Reducers : lines'[r] \in Seq(Line) /\ Delivered(lines'[r], r)
    BY <1>1, <2>3, ShuffleDelivers
  <2>5. lines' = [r \in Reducers |-> lines'[r]]
    BY <2>2
  <2> QED BY <2>4, <2>5
<1>3. UNCHANGED <<emitted, mapped, pos, dats, out, running, reduced>>
  BY DEF Shuffle
<1>4. MappersFit' /\ ReducersTyped'
  BY <1>1, <1>2, <1>3 DEF MappersFit, ReducersTyped
<1>5. \A r \in Reducers : ReducerFits(r)'
  <2> TAKE r \in Reducers
  <2>1. /\ pos'[r] = 0 /\ dats'[r] = << >> /\ out'[r] = << >> /\ running'[r] = TRUE /\ reduced'[r] = << >>
    <3>1. Idle(r) /\ running[r] \in BOOLEAN
      BY <1>1 DEF JobInv, ReducersTyped
    <3> QED BY <1>3, <3>1 DEF Idle
  <2>2. Reducer(lines'[r], 0, << >>, << >>, TRUE, << >>)
    BY <1>2, ReducerStarts
  <2> QED BY <2>1, <2>2 DEF ReducerFits
<1>6. QED
  BY <1>1, <1>2, <1>4, <1>5 DEF JobInv

(* What changes at one reducer only. *)
OnlyAt(r) ==
    /\ lines' = lines
    /\ \A q \in Reducers \ {r} : /\ pos'[q] = pos[q] /\ dats'[q] = dats[q] /\ out'[q] = out[q]
                                 /\ running'[q] = running[q] /\ reduced'[q] = reduced[q]

(* One reducer moves on as its loop may. *)
LEMMA ReducerMoves ==
    ASSUME JobInv, phase = "reduce", UNCHANGED <<phase, emitted, mapped, outTmp, lines>>,
           NEW r \in Reducers, NEW p \in Nat, NEW d \in Seq(Line), NEW o \in Seq(EMdata),
           NEW busy \in BOOLEAN, NEW R \in Seq(Seq(Line)),
           pos' = [pos EXCEPT ![r] = p], dats' = [dats EXCEPT ![r] = d],
           out' = [out EXCEPT ![r] = o], running' = [running EXCEPT ![r] = busy],
           reduced' = [reduced EXCEPT ![r] = R],
           Reducer(lines[r], p, d, o, busy, R)
    PROVE  JobInv' /\ OnlyAt(r)
<1>1. /\ lines \in [Reducers -> Seq(Line)] /\ pos \in [Reducers -> Nat] /\ dats \in [Reducers -> Seq(Line)]
      /\ out \in [Reducers -> Seq(EMdata)] /\ running \in [Reducers -> BOOLEAN]
      /\ reduced \in [Reducers -> Seq(Seq(Line))]
  BY DEF JobInv, ReducersTyped
<1>2. ReducersTyped'
  BY <1>1 DEF ReducersTyped
<1>3. OnlyAt(r)
  BY <1>1 DEF OnlyAt
<1>4. pos'[r] = p /\ dats'[r] = d /\ out'[r] = o /\ running'[r] = busy /\ reduced'[r] = R
  BY <1>1
<1>5. \A q \in Reducers : ReducerFits(q)'
  <2> TAKE q \in Reducers
  <2>1. CASE q = r
    BY <1>4, <2>1 DEF ReducerFits
  <2>2. CASE q # r
    <3>1. ReducerFits(q)
      BY DEF JobInv
    <3> QED BY <1>3, <2>2, <3>1 DEF OnlyAt, ReducerFits
  <2> QED BY <2>1, <2>2
<1>6. MappersFit'
  BY DEF JobInv, MappersFit
<1>7. \A q \in Reducers : Delivered(lines[q], q)'
  BY DEF JobInv, Delivered
<1>8. QED
  BY <1>2, <1>3, <1>5, <1>6, <1>7 DEF JobInv

(* A reducer takes a step of its loop. *)
LEMMA ReduceKeepsInv ==
    ASSUME JobInv, NEW r \in Reducers, Reduce(r)
    PROVE  JobInv' /\ OnlyAt(r)
<1> DEFINE L == lines[r]
           p == pos[r]
           d == dats[r]
           o == out[r]
           R == reduced[r]
           l == L[p + 1]
<1>1. phase = "reduce" /\ UNCHANGED <<phase, emitted, mapped, outTmp, lines>>
  BY DEF Reduce, ReduceStep, ReadFirst, ReadSame, ReadOther, Finish
<1>2. /\ lines \in [Reducers -> Seq(Line)] /\ pos \in [Reducers -> Nat] /\ dats \in [Reducers -> Seq(Line)]
      /\ out \in [Reducers -> Seq(EMdata)] /\ running \in [Reducers -> BOOLEAN]
      /\ reduced \in [Reducers -> Seq(Seq(Line))]
  BY DEF JobInv, ReducersTyped
<1>3. /\ L \in Seq(Line) /\ p \in Nat /\ d \in Seq(Line) /\ o \in Seq(EMdata) /\ R \in Seq(Seq(Line))
      /\ Delivered(L, r) /\ Grouped(L) /\ Len(L) \in Nat
  BY <1>1, <1>2 DEF JobInv, Delivered
<1>4. running[r] = TRUE /\ Reducer(L, p, d, o, TRUE, R)
  <2>1. running[r] = TRUE
    BY <1>2 DEF Reduce, ReduceStep, ReadFirst, ReadSame, ReadOther, Finish, HasLine
  <2> QED BY <2>1 DEF JobInv, ReducerFits
<1>5. /\ out = [out EXCEPT ![r] = o] /\ running = [running EXCEPT ![r] = TRUE]
      /\ reduced = [reduced EXCEPT ![r] = R] /\ pos = [pos EXCEPT ![r] = p] /\ dats = [dats EXCEPT ![r] = d]
  BY <1>2, <1>4
<1>6. ASSUME d # << >>
      PROVE  Last(d) = d[Len(d)] /\ \A run \in EmReduce(d) : run \in EMdata
  BY <1>3, <1>6, ReducedRuns DEF Last
<1>7. ASSUME p < Len(L) PROVE l \in Line
  BY <1>3, <1>7
<1>8. \A run \in EMdata : Append(o, run) \in Seq(EMdata)
  BY <1>3
<1>9. Append(R, d) \in Seq(Seq(Line))
  BY <1>3
<1> DEFINE e == Append(R, d)
<1>10. CASE ReadFirst(r)
  <2>1. p < Len(L) /\ d = << >> /\ out' = out /\ running' = running /\ reduced' = reduced
        /\ dats' = [dats EXCEPT ![r] = <<l>>] /\ pos' = [pos EXCEPT ![r] = p + 1]
    BY <1>2, <1>10 DEF ReadFirst, HasLine, Accept, Line1
  <2>2. <<l>> \in Seq(Line) /\ p + 1 \in Nat
    BY <1>3, <1>7, <2>1
  <2>3. Reducer(L, p + 1, <<l>>, o, TRUE, R)
    BY <1>3, <1>4, <2>1, FirstIsRead
  <2> HIDE DEF l
  <2> QED BY <1>1, <1>3, <1>5, <2>1, <2>2, <2>3, ReducerMoves
<1>11. CASE ReadSame(r)
  <2>1. p < Len(L) /\ d # << >> /\ out' = out /\ running' = running /\ reduced' = reduced
        /\ dats' = [dats EXCEPT ![r] = Append(d, l)] /\ pos' = [pos EXCEPT ![r] = p + 1]
        /\ Last(d).key = l.key
    BY <1>2, <1>11 DEF ReadSame, HasLine, Accept, Line1
  <2>2. Append(d, l) \in Seq(Line) /\ p + 1 \in Nat
    BY <1>3, <1>7, <2>1
  <2>3. Reducer(L, p + 1, Append(d, l), o, TRUE, R)
    BY <1>3, <1>4, <1>6, <2>1, SameIsRead
  <2> HIDE DEF l
  <2> QED BY <1>1, <1>3, <1>5, <2>1, <2>2, <2>3, ReducerMoves
<1>12. CASE ReadOther(r)
  <2>1. p < Len(L) /\ d # << >> /\ running' = running
        /\ dats' = [dats EXCEPT ![r] = <<l>>] /\ pos' = [pos EXCEPT ![r] = p + 1]
        /\ Last(d).key # l.key
    BY <1>2, <1>12 DEF ReadOther, HasLine, Accept, Line1
  <2>2. PICK run \in EmReduce(d) : /\ out' = [out EXCEPT ![r] = Append(o, run)]
                                   /\ reduced' = [reduced EXCEPT ![r] = e]
    BY <1>2, <1>12 DEF ReadOther, WriteReduced
  <2>3. <<l>> \in Seq(Line) /\ p + 1 \in Nat /\ Append(o, run) \in Seq(EMdata)
    BY <1>3, <1>6, <1>7, <1>8, <2>1
  <2>4. Reducer(L, p + 1, <<l>>, Append(o, run), TRUE, e)
    BY <1>3, <1>4, <1>6, <2>1, OtherIsRead
  <2> HIDE DEF l, e
  <2> QED BY <1>1, <1>3, <1>5, <1>9, <2>1, <2>2, <2>3, <2>4, ReducerMoves DEF e
<1>13. CASE Finish(r)
  <2>1. p = Len(L) /\ running' = [running EXCEPT ![r] = FALSE] /\ pos' = pos /\ dats' = dats
    BY <1>2, <1>13 DEF Finish
  <2>2. /\ d = << >> => Reducer(L, p, d, o, FALSE, R)
        /\ d # << >> => \A run \in EmReduce(d) : Reducer(L, p, d, Append(o, run), FALSE, e)
    BY <1>3, <1>4, <2>1, EndIsReached
  <2>3. CASE d = << >>
    <3>1. out' = out /\ reduced' = reduced
      BY <1>13, <2>3 DEF Finish
    <3> QED BY <1>1, <1>3, <1>5, <2>1, <2>2, <2>3, <3>1, ReducerMoves
  <2>4. CASE d # << >>
    <3>1. PICK run \in EmReduce(d) : /\ out' = [out EXCEPT ![r] = Append(o, run)]
                                     /\ reduced' = [reduced EXCEPT ![r] = e]
      BY <1>2, <1>13, <2>4 DEF Finish, WriteReduced
    <3>2. Append(o, run) \in Seq(EMdata)
      BY <1>6, <1>8, <2>4
    <3> HIDE DEF e
    <3> QED BY <1>1, <1>3, <1>5, <1>9, <2>1, <2>2, <2>4, <3>1, <3>2, ReducerMoves DEF e
  <2> QED BY <2>3, <2>4
<1>14. QED
  BY <1>10, <1>11, <1>12, <1>13 DEF Reduce, ReduceStep

(* A reducer fails and starts again. *)
LEMMA ReduceCrashKeepsInv ==
    ASSUME JobInv, NEW r \in Reducers, ReduceCrash(r)
    PROVE  JobInv' /\ OnlyAt(r)
<1>1. /\ phase = "reduce" /\ UNCHANGED <<phase, emitted, mapped, outTmp, lines>> /\ running' = running
      /\ pos' = [pos EXCEPT ![r] = 0] /\ dats' = [dats EXCEPT ![r] = << >>]
      /\ out' = [out EXCEPT ![r] = << >>] /\ reduced' = [reduced EXCEPT ![r] = << >>]
  BY DEF ReduceCrash, ReducerReset
<1>2. running \in [Reducers -> BOOLEAN] /\ lines[r] \in Seq(Line)
  BY DEF JobInv, ReducersTyped
<1>3. running = [running EXCEPT ![r] = TRUE]
  BY <1>2 DEF ReduceCrash
<1>4. << >> \in Seq(Line) /\ << >> \in Seq(EMdata) /\ << >> \in Seq(Seq(Line)) /\ 0 \in Nat
  OBVIOUS
<1>5. Reducer(lines[r], 0, << >>, << >>, TRUE, << >>)
  BY <1>2, ReducerStarts
<1>6. QED
  BY <1>1, <1>3, <1>4, <1>5, ReducerMoves

(* What the reducers wrote is put together. *)
LEMMA CollectKeepsInv ==
    ASSUME JobInv, Collect
    PROVE  JobInv'
<1>1. /\ phase = "reduce" /\ phase' = "done" /\ outTmp' = Concatenated(out)
      /\ UNCHANGED <<emitted, mapped>> /\ UNCHANGED reduceVars
      /\ out' = out /\ running' = running /\ \A r \in Reducers : ~running[r]
  BY DEF Collect, reduceVars
<1>2. MappersFit'
  BY <1>1 DEF JobInv, MappersFit
<1>3. \A r \in Reducers : Delivered(lines[r], r)
  BY <1>1 DEF JobInv
<1>4. ReducersTyped' /\ (\A r \in Reducers : ReducerFits(r)') /\ \A r \in Reducers : Delivered(lines[r], r)'
  BY <1>1, <1>3, ReducersKept
<1>5. QED
  BY <1>1, <1>2, <1>4 DEF JobInv

LEMMA JobInvStutters ==
    ASSUME JobInv, UNCHANGED jobVars
    PROVE  JobInv'
<1>1. /\ phase' = phase /\ emitted' = emitted /\ mapped' = mapped /\ outTmp' = outTmp
      /\ out' = out /\ running' = running /\ UNCHANGED reduceVars
  BY DEF jobVars, reduceVars
<1>2. MappersFit'
  BY <1>1 DEF JobInv, MappersFit
<1>3. QED
  BY <1>1, <1>2, ReducersKept DEF JobInv

(* Whatever fails and is retried, every job is in such a state.             *)
THEOREM JobInvHolds == JobSpec => []JobInv
<1>1. JobInit => JobInv
  BY JobInvStarts
<1>2. JobInv /\ [JobNext]_jobVars => JobInv'
  BY MapKeepsInv, ShuffleKeepsInv, ReduceKeepsInv, ReduceCrashKeepsInv, CollectKeepsInv, JobInvStutters
     DEF JobNext
<1>3. QED
  BY <1>1, <1>2, PTL DEF JobSpec

-----------------------------------------------------------------------------
(* Every group that reaches an M-step, at any time of any job, holds the    *)
(* counts of each shard and the pseudo-counts exactly once: in             *)
(* dai_reduce.cpp the loop that calls em_reduce, with                      *)
(* collectSufficientStatistics.                                            *)
THEOREM StatsAreComplete == JobSpec => []StatsComplete
<1>1. JobInv => StatsComplete
  <2> SUFFICES ASSUME JobInv, NEW r \in Reducers, NEW n \in DOMAIN reduced[r]
               PROVE  MergedStats(reduced[r][n]) = CompleteStats
    BY DEF StatsComplete
  <2>1. lines[r] \in Seq(Line) /\ reduced[r] \in Seq(Seq(Line)) /\ n \in 1 .. Len(reduced[r])
    BY DEF JobInv, ReducersTyped
  <2>2. reduced[r][n] \in Seq(Line) /\ Whole(lines[r], reduced[r][n])
    BY <2>1 DEF JobInv, ReducerFits, Reducer, Reduced
  <2>3. phase # "map"
    <3>1. reduced[r] # << >>
      BY <2>1
    <3> QED BY <3>1 DEF JobInv, Idle
  <2>4. Delivered(lines[r], r)
    BY <2>3 DEF JobInv
  <2> QED BY <2>1, <2>2, <2>4, GroupIsServed
<1>2. QED
  BY <1>1, JobInvHolds, PTL

(* Reducers that have ended have served their runs.                         *)
LEMMA EndedHaveServed ==
    ASSUME JobInv, phase # "map", NEW r \in Reducers, ~running[r]
    PROVE  out[r] \in Seq(EMdata) /\ Serves(out[r], r)
<1>1. /\ lines[r] \in Seq(Line) /\ pos[r] \in Nat /\ out[r] \in Seq(EMdata) /\ running[r] = FALSE
      /\ reduced[r] \in Seq(Seq(Line))
  BY DEF JobInv, ReducersTyped
<1>2. Reducer(lines[r], pos[r], dats[r], out[r], FALSE, reduced[r]) /\ Delivered(lines[r], r)
  BY <1>1 DEF JobInv, ReducerFits
<1>3. QED
  BY <1>1, <1>2, EndedReducerServes

(* A job hands on one successor of every run, whatever was retried.         *)
THEOREM RunsArePreserved == JobSpec => []RunsPreserved
<1>1. JobInv => RunsPreserved
  <2> SUFFICES ASSUME JobInv, phase = "done"
               PROVE  /\ Len(outTmp) = Len(Dat)
                      /\ \A n \in DOMAIN Dat : \E m \in DOMAIN outTmp : outTmp[m].bnID = Dat[n].bnID
    BY DEF RunsPreserved
  <2> DEFINE S == Entries(out)
             N == Cardinality(S)
  <2>1. outTmp = Concatenated(out) /\ out \in [Reducers -> Seq(EMdata)]
    BY DEF JobInv, ReducersTyped
  <2>2. \A r \in Reducers : Serves(out[r], r)
    BY EndedHaveServed DEF JobInv
  <2>3. Reducers \subseteq Int /\ IsFiniteSet(Reducers)
    BY ReducersAssumption
  <2>4. N \in Nat /\ outTmp \in Seq(EMdata) /\ DOMAIN outTmp = 1 .. N
    BY <2>1, <2>3, ConcatenationFacts
  <2>5. PICK at : ComesFrom(out, at)
    BY <2>1, <2>3, ConcatenationFacts
  <2>6. /\ IsFiniteSet(S)
        /\ \A p \in S : p[1] \in Reducers /\ p[2] \in 1 .. Len(out[p[1]]) /\ p = <<p[1], p[2]>>
        /\ \A r \in Reducers : \A m \in 1 .. Len(out[r]) : <<r, m>> \in S
    <3>1. IsFiniteSet(S)
      BY <2>1, <2>3, EntriesFacts
    <3>2. \A p \in S : p[1] \in Reducers /\ p[2] \in 1 .. Len(out[p[1]]) /\ p = <<p[1], p[2]>>
      BY <2>1, <2>3, EntriesFacts
    <3>3. \A r \in Reducers : \A m \in 1 .. Len(out[r]) : <<r, m>> \in S
      BY <2>1, <2>3, EntriesFacts
    <3> QED BY <3>1, <3>2, <3>3
  <2> HIDE DEF S, N
  <2> DEFINE id(p) == out[p[1]][p[2]].bnID
             g == [p \in S |-> CHOOSE n \in DOMAIN Dat : Partition(Dat[n].bnID) = p[1] /\ id(p) = Dat[n].bnID]
  <2>7. \A p \in S : \E n \in DOMAIN Dat : Partition(Dat[n].bnID) = p[1] /\ id(p) = Dat[n].bnID
    BY <2>2, <2>6 DEF Serves
  <2>8. \A p \in S : g[p] \in DOMAIN Dat /\ Partition(Dat[g[p]].bnID) = p[1] /\ id(p) = Dat[g[p]].bnID
    <3> HIDE DEF id
    <3> QED BY <2>7
  <2>9. g \in [S -> DOMAIN Dat]
    <3>1. g = [p \in S |-> g[p]]
      OBVIOUS
    <3> HIDE DEF g
    <3> QED BY <2>8, <3>1
  <2> HIDE DEF g
  <2>10. ASSUME NEW p \in S, NEW q \in S, g[p] = g[q] PROVE p = q
    <3>1. p[1] = q[1] /\ id(p) = id(q)
      BY <2>8, <2>10
    <3>2. p[2] = q[2]
      <4>1. p[1] \in Reducers /\ p[2] \in 1 .. Len(out[p[1]]) /\ q[2] \in 1 .. Len(out[p[1]])
        BY <2>6, <3>1
      <4> QED BY <2>2, <3>1, <4>1 DEF Serves
    <3> QED BY <2>6, <3>1, <3>2
  <2>11. ASSUME NEW n \in DOMAIN Dat PROVE \E p \in S : g[p] = n /\ id(p) = Dat[n].bnID
    <3>1. Partition(Dat[n].bnID) \in Reducers
      BY JobAssumption
    <3> DEFINE r == Partition(Dat[n].bnID)
    <3>2. PICK m \in 1 .. Len(out[r]) : out[r][m].bnID = Dat[n].bnID
      BY <2>2, <3>1 DEF Serves
    <3> DEFINE p == <<r, m>>
    <3>3. p \in S /\ id(p) = Dat[n].bnID
      BY <2>6, <3>1, <3>2
    <3>4. g[p] = n
      <4>1. g[p] \in DOMAIN Dat /\ Dat[g[p]].bnID = Dat[n].bnID
        BY <2>8, <3>3
      <4> QED BY <4>1, JobAssumption
    <3> QED BY <3>3, <3>4
  <2>12. Cardinality(DOMAIN Dat) = N
    <3>1. g \in Bijection(S, DOMAIN Dat)
      BY <2>9, <2>10, <2>11 DEF Bijection, Injection, Surjection, IsInjective
    <3>2. ExistsBijection(S, DOMAIN Dat)
      BY <3>1 DEF ExistsBijection
    <3> QED BY <2>6, <3>2, FS_Bijection DEF N
  <2>13. Len(outTmp) = Len(Dat)
    <3>1. DOMAIN Dat = 1 .. Len(Dat) /\ Len(Dat) \in Nat
      BY JobAssumption
    <3>2. Cardinality(1 .. Len(Dat)) = Len(Dat)
      <4> DEFINE k == Len(Dat)
      <4>1. k \in Nat
        BY <3>1
      <4> HIDE DEF k
      <4>2. Cardinality(1 .. k) = k
        BY <4>1, FS_Interval
      <4> QED BY <4>2 DEF k
    <3>3. Len(outTmp) = N
      BY <2>4
    <3> QED BY <2>12, <3>1, <3>2, <3>3
  <2>14. ASSUME NEW n \in DOMAIN Dat PROVE \E m \in DOMAIN outTmp : outTmp[m].bnID = Dat[n].bnID
    <3>1. PICK p \in S : id(p) = Dat[n].bnID
      BY <2>11
    <3>2. PICK m \in 1 .. N : at[m] = p
      BY <2>5 DEF ComesFrom, Bijection, Surjection, S, N
    <3>3. outTmp[m] = out[at[m][1]][at[m][2]]
      BY <2>1, <2>5 DEF ComesFrom, S, N
    <3> QED BY <2>4, <3>1, <3>2, <3>3
  <2> QED BY <2>13, <2>14
<1>2. QED
  BY <1>1, JobInvHolds, PTL

-----------------------------------------------------------------------------
(* When a reducer ends, its runs advance together. *)
LEMMA FinishAdvances ==
    ASSUME JobInv, JobInv', phase = "reduce", phase' = "reduce", NEW r \in Reducers,
           OnlyAt(r), running[r], ~running'[r], out'[r] # << >>
    PROVE  Round!Advance
<1> DEFINE o == out'[r]
           ns == {n \in DOMAIN Dat : Partition(Dat[n].bnID) = r}
<1>1. o \in Seq(EMdata) /\ Serves(o, r) /\ Len(o) \in Nat /\ Len(o) > 0 /\ DOMAIN o = 1 .. Len(o)
  <2>1. /\ lines'[r] \in Seq(Line) /\ pos'[r] \in Nat /\ o \in Seq(EMdata) /\ running'[r] = FALSE
        /\ reduced'[r] \in Seq(Seq(Line))
    BY DEF JobInv, ReducersTyped
  <2>2. Reducer(lines'[r], pos'[r], dats'[r], o, FALSE, reduced'[r])
    BY <2>1 DEF JobInv, ReducerFits
  <2>3. Delivered(lines'[r], r)
    BY DEF JobInv, OnlyAt
  <2>4. Serves(o, r)
    <3> HIDE DEF o
    <3> QED BY <2>1, <2>2, <2>3, EndedReducerServes
  <2> QED BY <2>1, <2>4
<1>2. Committed' = Committed \cup Range(o)
  <2>1. {q \in Reducers : ~running'[q]} = {q \in Reducers : ~running[q]} \cup {r}
    BY DEF OnlyAt
  <2>2. \A q \in Reducers : ~running[q] => out'[q] = out[q]
    BY DEF OnlyAt
  <2> QED BY <2>1, <2>2 DEF Committed
<1> HIDE DEF o
<1>3. \A m, n \in DOMAIN Dat : Dat[m].bnID = Dat[n].bnID => m = n
  BY JobAssumption
<1>4. ns \subseteq Round!Waiting
  <2> SUFFICES ASSUME NEW n \in DOMAIN Dat, Partition(Dat[n].bnID) = r, NEW c \in Committed
               PROVE  c.bnID # Dat[n].bnID
    BY DEF Round!Waiting
  <2>1. PICK q \in Reducers : ~running[q] /\ c \in Range(out[q])
    BY DEF Committed
  <2>2. out[q] \in Seq(EMdata) /\ Serves(out[q], q)
    BY <2>1, EndedHaveServed
  <2>3. PICK m \in 1 .. Len(out[q]) : c = out[q][m]
    BY <2>1, <2>2 DEF Range
  <2>4. PICK k \in DOMAIN Dat : Partition(Dat[k].bnID) = q /\ c.bnID = Dat[k].bnID
    BY <2>2, <2>3 DEF Serves
  <2> QED BY <1>3, <2>1, <2>4
<1>5. /\ \A m \in 1 .. Len(o) : \E n \in ns : o[m].bnID = Dat[n].bnID /\ o[m] \in Round!RoundOutcomes(Dat[n])
      /\ \A n \in ns : \E m \in 1 .. Len(o) : o[m].bnID = Dat[n].bnID
      /\ \A l, m \in 1 .. Len(o) : o[l].bnID = o[m].bnID => l = m
  BY <1>1 DEF Serves
<1>6. ns # {} /\ \A n \in ns : n \in DOMAIN Dat
  <2>1. 1 \in 1 .. Len(o)
    BY <1>1
  <2> QED BY <1>5, <2>1
<1> HIDE DEF ns
<1> DEFINE place(n) == CHOOSE m \in 1 .. Len(o) : o[m].bnID = Dat[n].bnID
           f == [n \in ns |-> o[place(n)]]
<1>7. \A n \in ns : place(n) \in 1 .. Len(o) /\ o[place(n)].bnID = Dat[n].bnID
  BY <1>5
<1> HIDE DEF place
<1>8. \A n \in ns : f[n] \in Round!RoundOutcomes(Dat[n])
  BY <1>3, <1>5, <1>6, <1>7
<1>9. Range(f) = Range(o)
  <2>1. \A n \in ns : f[n] \in Range(o)
    BY <1>1, <1>7 DEF Range
  <2>2. ASSUME NEW m \in 1 .. Len(o) PROVE \E n \in ns : f[n] = o[m]
    <3>1. PICK n \in ns : o[m].bnID = Dat[n].bnID
      BY <1>5
    <3>2. place(n) = m
      BY <1>5, <1>7, <3>1
    <3> QED BY <3>2
  <2>3. DOMAIN f = ns
    OBVIOUS
  <2> HIDE DEF f
  <2> QED BY <1>1, <2>1, <2>2, <2>3 DEF Range
<1>10. f \in [ns -> UNION {Round!RoundOutcomes(Dat[n]) : n \in ns}]
  <2>1. f = [n \in ns |-> f[n]]
    OBVIOUS
  <2> HIDE DEF f
  <2> QED BY <1>8, <2>1
<1>11. Committed' = Committed \cup Round!Range(f)
  BY <1>2, <1>9 DEF Round!Range, Range
<1> HIDE DEF f
<1>12. QED
  BY <1>4, <1>6, <1>8, <1>10, <1>11 DEF Round!Advance

(* Nothing that a reducer does before it ends shows.                        *)
LEMMA RunningHidden ==
    ASSUME NEW r \in Reducers, OnlyAt(r), running[r], running'[r]
    PROVE  Committed' = Committed
<1>1. {q \in Reducers : ~running'[q]} = {q \in Reducers : ~running[q]}
  BY DEF OnlyAt
<1>2. \A q \in Reducers : ~running[q] => out'[q] = out[q]
  BY DEF OnlyAt
<1>3. QED
  BY <1>1, <1>2 DEF Committed

(* Every step of a job is a step of the round that it implements, or is not *)
(* seen.                                                                   *)
LEMMA JobStepsAreRoundSteps ==
    ASSUME JobInv, JobInv', [JobNext]_jobVars
    PROVE  [Round!Advance]_Committed
<1>1. CASE UNCHANGED <<out, running>>
  BY <1>1 DEF Committed
<1>2. CASE Shuffle \/ Collect \/ UNCHANGED jobVars
  <2>1. UNCHANGED <<out, running>>
    BY <1>2 DEF Shuffle, Collect, jobVars, reduceVars
  <2> QED BY <1>1, <2>1
<1>3. ASSUME NEW s \in Shards, Emit(s) \/ MapDone(s) \/ MapCrash(s)
      PROVE  [Round!Advance]_Committed
  <2>1. UNCHANGED <<out, running>>
    BY <1>3 DEF Emit, MapDone, MapCrash, reduceVars
  <2> QED BY <1>1, <2>1
<1>4. ASSUME NEW r \in Reducers, ReduceCrash(r) PROVE [Round!Advance]_Committed
  <2>1. OnlyAt(r) /\ running[r] /\ running'[r]
    BY <1>4, ReduceCrashKeepsInv DEF ReduceCrash
  <2> QED BY <2>1, RunningHidden
<1>5. ASSUME NEW r \in Reducers, Reduce(r) PROVE [Round!Advance]_Committed
  <2>1. OnlyAt(r) /\ phase = "reduce" /\ phase' = "reduce"
    BY <1>5, ReduceKeepsInv DEF Reduce
  <2>2. running[r] /\ running' \in [Reducers -> BOOLEAN]
    BY <1>5 DEF Reduce, ReduceStep, ReadFirst, ReadSame, ReadOther, Finish, HasLine, JobInv, ReducersTyped
  <2>3. CASE running'[r]
    BY <2>1, <2>2, <2>3, RunningHidden
  <2>4. CASE ~running'[r] /\ out'[r] # << >>
    BY <2>1, <2>2, <2>4, FinishAdvances
  <2>5. CASE ~running'[r] /\ out'[r] = << >>
    <3>1. {q \in Reducers : ~running'[q]} = {q \in Reducers : ~running[q]} \cup {r}
      BY <2>1, <2>2, <2>5 DEF OnlyAt
    <3>2. \A q \in Reducers : ~running[q] => out'[q] = out[q]
      BY <2>1, <2>2 DEF OnlyAt
    <3>3. Range(out'[r]) = {}
      BY <2>5 DEF Range
    <3>4. Committed' = Committed
      BY <3>1, <3>2, <3>3 DEF Committed
    <3> QED BY <3>4
  <2> QED BY <2>3, <2>4, <2>5
<1>6. QED
  BY <1>2, <1>3, <1>4, <1>5 DEF JobNext

(* A job implements one iteration of every run on the whole evidence: how   *)
(* the work was shared, in which order the lines arrived and what was      *)
(* retried does not show in what the reducers commit.  (ImplementsRound    *)
(* adds that every run does advance.)                                      *)
THEOREM JobImplementsRound == JobSpec => Round!RoundInit /\ [][Round!Advance]_Committed
<1>1. JobInit => Round!RoundInit
  <2> SUFFICES ASSUME JobInit PROVE Committed = {}
    BY DEF Round!RoundInit
  <2>1. {q \in Reducers : ~running[q]} = {}
    BY DEF JobInit, StartReducers
  <2> QED BY <2>1 DEF Committed
<1>2. JobInv /\ JobInv' /\ [JobNext]_jobVars => [Round!Advance]_Committed
  BY JobStepsAreRoundSteps
<1>3. QED
  BY <1>1, <1>2, JobInvHolds, PTL DEF JobSpec
=============================================================================
