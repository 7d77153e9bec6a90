------------------------------ MODULE CreateFG ------------------------------
(***************************************************************************)
(* The program that generates factor graphs, utils/createfg.cpp: it checks   *)
(* the options, makes a random graph of the type asked for, some types again *)
(* and again until it will do, and prints the factors on it.                *)
(*                                                                         *)
(* A factor is the set of its variables, the first having label 0, and what  *)
(* it is for; the tables are left out.                                     *)
(***************************************************************************)
EXTENDS Integers, FiniteSetsExt, SequencesExt

CONSTANT Requests  \* records of the options, `given' being those on the command line

VARIABLES
    request,
    status,  \* "checking", "generating", "done", "error", "aborted"
    result   \* the factors printed

createVars == <<request, status, result>>

AL == INSTANCE GraphAL WITH MaxNodes <- 0, MaxEdges <- 0, MaxSide <- 0, nb <- << >>

Pairwise == {"FULL", "DREG", "LOOP", "TREE", "GRID", "GRID3D"}

(* What NEED_ARG asks for.                                                 *)
Needed(r) ==
    LET size == CASE r.type = "GRID" -> {"n1", "n2"}
                  [] r.type = "GRID3D" -> {"n1", "n2", "n3"}
                  [] r.type = "DREG" -> {"N", "d"}
                  [] OTHER -> {"N"}
        strength == CASE r.factors = "ISINGGAUSS" -> {"mean_w", "mean_th", "sigma_w", "sigma_th"}
                      [] r.factors = "ISINGUNIFORM" -> {"min_w", "min_th", "max_w", "max_th"}
                      [] OTHER -> {"beta"}
    IN  CASE r.type \in Pairwise -> size \cup strength
          [] r.type = "HOI" -> {"N", "K", "k", "beta"}
          [] r.type = "LDPC" ->
                {"ldpc", "noise"} \cup CASE r.ldpc = "RANDOM" -> {"N", "K", "k", "j"}
                                         [] r.ldpc = "GROUP" -> {"prime", "k", "j"}
                                         [] OTHER -> {}
          [] OTHER -> {}

(* Returns TRUE for 1 as well.                                             *)
isPrime(n) == \A m \in 2 .. n - 1 : n % m # 0

Wrong(r) ==
    \/ r.factors = "POTTS" /\ r.type = "HOI"
    \/ r.factors \in {"ISINGGAUSS", "ISINGUNIFORM"} /\ (r.states # 2 \/ r.type = "HOI")
    \/ ~(Needed(r) \subseteq r.given)
    \/ r.type \notin Pairwise \cup {"HOI", "LDPC"}
    \/ r.type = "LDPC" /\ r.ldpc = "RANDOM" /\ r.N * r.j # r.K * r.k
    \/ r.type = "LDPC" /\ r.ldpc = "GROUP" /\ (~isPrime(r.prime) \/ (r.prime - 1) % r.j # 0 \/ (r.prime - 1) % r.k # 0)

-----------------------------------------------------------------------------
(* The edges of a graph as createFG meets them.                             *)
PairsOf(lists) ==
    FlattenSeq([n \in DOMAIN lists |->
        LET later == SelectSeq(lists[n], LAMBDA e : n < e.node)
        IN  [k \in DOMAIN later |-> {n - 1, later[k].node - 1}]])

(* Any graph in which each variable has d others.                           *)
RegularPairs(n, d) ==
    {SelectSeq(PairsOf(AL!createGraphFull(n)), LAMBDA pair : pair \in edges) :
        edges \in {es \in SUBSET kSubset(2, 0 .. n - 1) : \A i \in 0 .. n - 1 : Cardinality({e \in es : i \in e}) = d}}

PairwiseGraphs(r) ==
    CASE r.type = "FULL" -> {PairsOf(AL!createGraphFull(r.N))}
      [] r.type = "LOOP" -> {PairsOf(AL!createGraphLoop(r.N))}
      [] r.type = "TREE" -> {PairsOf(tree) : tree \in AL!Trees(r.N)}
      [] r.type = "GRID" -> {PairsOf(AL!createGraphGrid(<<r.n1, r.n2>>, r.periodic))}
      [] r.type = "GRID3D" -> {PairsOf(AL!createGraphGrid(<<r.n1, r.n2, r.n3>>, r.periodic))}
      [] r.type = "DREG" -> RegularPairs(r.N, r.d)

Made(kind, sets) == [k \in DOMAIN sets |-> [kind |-> kind, vars |-> sets[k]]] \o << >>

Singletons(n) == [i \in 1 .. n |-> {i - 1}]

(* createFG: one factor for each pair, and for the Ising types one for each  *)
(* variable.                                                               *)
createFG(r, pairs, n) ==
    Made("pair", pairs)
    \o IF r.factors \in {"ISINGGAUSS", "ISINGUNIFORM"} THEN Made("single", Singletons(n)) ELSE << >>

NrVars(r) ==
    CASE r.type = "GRID" -> r.n1 * r.n2
      [] r.type = "GRID3D" -> r.n1 * r.n2 * r.n3
      [] r.type = "LDPC" /\ r.ldpc = "GROUP" -> r.prime * r.k
      [] r.type = "LDPC" /\ r.ldpc = "SMALL" -> 4
      [] OTHER -> r.N

(* isConnected of a graph of n variables and the factors on `sets'.         *)
IsConnected(n, sets) ==
    LET reached[k \in 0 .. n] ==
            IF k = 0 THEN {0}
            ELSE LET before == reached[k - 1]
                 IN  before \cup UNION {vs \in Range(sets) : vs \cap before # {}}
    IN  reached[n] = 0 .. n - 1 /\ {} \notin Range(sets)

-----------------------------------------------------------------------------
powmod(x, n, p) == FoldLeft(LAMBDA y, m : (x * y) % p, 1, [m \in 1 .. n |-> m])

(* The order of x in GF(p), p being prime.                                  *)
order(x, p) == Min({n \in 1 .. p - 1 : powmod(x, n, p) = 1})

(* Mutant of ElementOfOrder: an earlier power may be one as well.           *)
ElementWithPower(n, p) == Min({p} \cup {x \in 2 .. p - 1 : powmod(x, n, p) = 1})

(* The first element of order n from 2 on, or p.                            *)
ElementOfOrder(n, p) == Min({p} \cup {x \in 2 .. p - 1 : order(x, p) = n})

Small == <<{0, 1, 2}, {0, 1, 3}, {0, 2, 3}, {1, 2, 3}>>

GroupStructured(p, j, k) ==
    LET a == ElementOfOrder(k, p)
        b == ElementOfOrder(j, p)
        P(s, t) == (powmod(b, s, p) * powmod(a, t, p)) % p
    IN  [c \in 1 .. p * j |->
            LET s == (c - 1) \div p
            IN  {t * p + m : <<t, m>> \in {<<t, m>> \in (0 .. k - 1) \X (0 .. p - 1) : s * p + ((m + P(s, t)) % p) = c - 1}}]

(* createRandomBipartiteGraph: how often each bit meets each check after the *)
(* shuffle; an edge is made once.                                          *)
RandomBipartite(r) ==
    LET meetings == {m \in [(0 .. r.N - 1) \X (1 .. r.K) -> 0 .. Min({r.j, r.k})] :
                        /\ \A i \in 0 .. r.N - 1 : SumFunction([c \in 1 .. r.K |-> m[i, c]]) = r.j
                        /\ \A c \in 1 .. r.K : SumFunction([i \in 0 .. r.N - 1 |-> m[i, c]]) = r.k}
    IN  {[c \in 1 .. r.K |-> {i \in 0 .. r.N - 1 : m[i, c] > 0}] : m \in meetings}

ChecksOf(r) ==
    CASE r.ldpc = "SMALL" -> {Small}
      [] r.ldpc = "GROUP" -> {GroupStructured(r.prime, r.j, r.k)}
      [] r.ldpc = "RANDOM" -> RandomBipartite(r)

Degrees(r) == IF r.ldpc = "SMALL" THEN [j |-> 3, k |-> 3] ELSE [j |-> r.j, k |-> r.k]

Regular(r, checks) ==
    /\ \A i \in 0 .. NrVars(r) - 1 : Cardinality({c \in DOMAIN checks : i \in checks[c]}) = Degrees(r).j
    /\ \A c \in DOMAIN checks : Cardinality(checks[c]) = Degrees(r).k

Init == request \in Requests /\ status = "checking" /\ result = << >>

(* DAI_ASSERT in createGroupStructuredLDPCGraph.                            *)
Aborts(r) ==
    /\ r.type = "LDPC" /\ r.ldpc = "GROUP"
    /\ ElementOfOrder(r.k, r.prime) = r.prime \/ ElementOfOrder(r.j, r.prime) = r.prime
    /\ r.prime # 1

Check ==
    /\ status = "checking"
    /\ status' = IF Wrong(request) THEN "error" ELSE IF Aborts(request) THEN "aborted" ELSE "generating"
    /\ UNCHANGED <<request, result>>

Generating(type) == status = "generating" /\ request.type = type

GeneratePairwise ==
    /\ status = "generating" /\ request.type \in Pairwise
    /\ \E pairs \in PairwiseGraphs(request) : result' = createFG(request, pairs, NrVars(request))
    /\ status' = "done"
    /\ UNCHANGED request

(* createHOIFG makes K factors of k variables each, if there are as many;    *)
(* main calls it until the graph is connected.                             *)
GenerateHOI ==
    /\ Generating("HOI") /\ request.k <= request.N
    /\ \E sets \in [1 .. request.K -> kSubset(request.k, 0 .. request.N - 1)] :
          IF IsConnected(request.N, sets)
          THEN result' = Made("interaction", sets) /\ status' = "done"
          ELSE UNCHANGED <<result, status>>
    /\ UNCHANGED request

(* The loop ends with a graph that is regular or connected.  A check with    *)
(* fewer than k bits gets what is behind the end of its list.               *)
GenerateLDPC ==
    /\ Generating("LDPC")
    /\ \E checks \in ChecksOf(request) :
          LET k == Degrees(request).k
              bits == NrVars(request)
              short == {c \in DOMAIN checks : Cardinality(checks[c]) < k}
          IN  IF Regular(request, checks) \/ IsConnected(bits, checks)
              THEN /\ \E behind \in [short -> SUBSET (0 .. bits)] :
                        /\ \A c \in short : Cardinality(behind[c]) <= k - Cardinality(checks[c])
                        /\ result' = Made("check", [c \in DOMAIN checks |->
                                                       checks[c] \cup IF c \in short THEN behind[c] ELSE {}])
                                     \o Made("likelihood", Singletons(bits))
                   /\ status' = "done"
              ELSE UNCHANGED <<result, status>>
    /\ UNCHANGED request

Next == Check \/ GeneratePairwise \/ GenerateHOI \/ GenerateLDPC

-----------------------------------------------------------------------------
FactorsFor(kind) == SelectSeq(result, LAMBDA f : f.kind = kind)

Sets(kind) == [n \in DOMAIN FactorsFor(kind) |-> FactorsFor(kind)[n].vars]

FactorsAt(kind, i) == {n \in DOMAIN Sets(kind) : i \in Sets(kind)[n]}

Bits == 0 .. NrVars(request) - 1

(* What the usage says of LDPC codes: "with <k> bits per check and <j>       *)
(* checks per bit" (createfg.cpp:407).                                     *)
LdpcIsRegular ==
    status = "done" /\ request.type = "LDPC" =>
        /\ \A n \in DOMAIN Sets("check") : Cardinality(Sets("check")[n]) = Degrees(request).k
        /\ \A i \in Bits : Cardinality(FactorsAt("check", i)) = Degrees(request).j

(* What is printed is of the type asked for: pairs of the right number and   *)
(* shape, none twice; interactions of k variables that leave none apart; an  *)
(* LDPC code from a group (or the small one) regular, and two checks of one  *)
(* from a group of prime order have at most one bit in common.               *)
GeneratedAsAsked ==
    LET r == request
        pairs == Sets("pair")
        degree(i) == Cardinality(FactorsAt("pair", i))
        crossing(side, periodic) == IF periodic /\ side > 2 THEN side ELSE side - 1
    IN  status = "done" =>
        /\ r.type \in Pairwise =>
              /\ IsInjective(pairs) /\ \A n \in DOMAIN pairs : Cardinality(pairs[n]) = 2
              /\ Len(result) - Len(pairs) \in IF r.factors \in {"EXPGAUSS", "POTTS"} THEN {0} ELSE {NrVars(r)}
              /\ r.type # "DREG" => IsConnected(NrVars(r), pairs)
        /\ r.type = "FULL" => \A i \in Bits : degree(i) = r.N - 1
        /\ r.type = "DREG" => \A i \in Bits : degree(i) = r.d
        /\ r.type = "LOOP" /\ r.N > 2 => \A i \in Bits : degree(i) = 2
        /\ r.type = "TREE" => Len(pairs) = r.N - 1
        /\ r.type = "GRID" => Len(pairs) = crossing(r.n1, r.periodic) * r.n2 + r.n1 * crossing(r.n2, r.periodic)
        /\ r.type = "HOI" =>
              /\ Len(result) = r.K /\ \A n \in DOMAIN result : Cardinality(result[n].vars) = r.k
              /\ IsConnected(r.N, Sets("interaction"))
        /\ r.type = "LDPC" /\ r.ldpc # "RANDOM" => LdpcIsRegular
        /\ r.type = "LDPC" /\ r.ldpc = "GROUP" /\ r.prime > 1 =>
              \A m, n \in DOMAIN Sets("check") : m # n => Cardinality(Sets("check")[m] \cap Sets("check")[n]) <= 1
=============================================================================
