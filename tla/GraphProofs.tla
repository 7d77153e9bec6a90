----------------------------- MODULE GraphProofs -----------------------------
(***************************************************************************)
(* Proofs about the graphs of libDAI.                                      *)
(*                                                                         *)
(* First, a bipartite graph under any operations (BipartiteGraph): its      *)
(* neighbour lists stay consistent, and behind them the operations are     *)
(* those of a Multigraph.  eraseEdge takes the first entry for the other    *)
(* node from either list.  That these are the two ends of one edge is       *)
(* because parallel edges are in the same order in both lists, which the   *)
(* invariant has to say.                                                   *)
(*                                                                         *)
(* Then, the random regular graph of createGraphRegular (RegularGraph): the *)
(* points of a node and its neighbours together are always its degree.      *)
(*                                                                         *)
(* Last, directed graphs (DAG): no operation closes a cycle, which is shown *)
(* by ranks that rise along the edges.  So no worklist of a walk comes      *)
(* twice, every walk ends, and it has met what can be reached.             *)
(***************************************************************************)
EXTENDS BipartiteGraph, RegularGraph, DAG, Enumerations

(* What is used of the type of neighbour lists.                            *)
Lists(l) ==
    /\ Len(l) \in Nat /\ DOMAIN l = 1 .. Len(l)
    /\ \A n \in 1 .. Len(l) :
          /\ Len(l[n]) \in Nat /\ DOMAIN l[n] = 1 .. Len(l[n])
          /\ \A k \in 1 .. Len(l[n]) : l[n][k] \in Neighbor

(* Parallel edges are met in the same order from either side.               *)
InOrder(l) ==
    \A n \in 1 .. Len(l) : \A i, k \in 1 .. Len(l[n]) :
        i < k /\ l[n][i].node = l[n][k].node => l[n][i].dual < l[n][k].dual

(* The entry at the other end of entry k of list n.                         *)
Mirrored(l1, l2, n, k) ==
    /\ l1[n][k].iter = k
    /\ l1[n][k].node \in 1 .. Len(l2)
    /\ l1[n][k].dual \in 1 .. Len(l2[l1[n][k].node])
    /\ l2[l1[n][k].node][l1[n][k].dual].node = n
    /\ l2[l1[n][k].node][l1[n][k].dual].dual = k

AllMirrored(l1, l2) == \A n \in 1 .. Len(l1) : \A k \in 1 .. Len(l1[n]) : Mirrored(l1, l2, n, k)

Paired(l1, l2) ==
    /\ Lists(l1) /\ Lists(l2)
    /\ AllMirrored(l1, l2) /\ AllMirrored(l2, l1)
    /\ InOrder(l1) /\ InOrder(l2)

GraphInv(g) == g \in Graph /\ Paired(g.nb1, g.nb2)

-----------------------------------------------------------------------------
LEMMA MakesSeq ==
    ASSUME NEW T, NEW n \in Nat, NEW f, f = [k \in 1 .. n |-> f[k]], \A k \in 1 .. n : f[k] \in T
    PROVE  f \in Seq(T) /\ Len(f) = n
<1>1. f \in [1 .. n -> T]
  OBVIOUS
<1>2. f \in Seq(T)
  BY <1>1, SeqDef
<1>3. DOMAIN f = 1 .. n
  BY <1>1
<1>4. Len(f) \in Nat /\ DOMAIN f = 1 .. Len(f)
  BY <1>2, LenProperties
<1>5. Len(f) = n
  BY <1>3, <1>4
<1> QED BY <1>2, <1>5

LEMMA FixedIsSame == ASSUME NEW T, NEW s \in Seq(T) PROVE Fixed(s) = s
BY ConcatEmptySeq DEF Fixed

LEMMA AppendFacts ==
    ASSUME NEW T, NEW s \in Seq(T), NEW x \in T
    PROVE  /\ Append(s, x) \in Seq(T) /\ Len(s) \in Nat /\ Len(Append(s, x)) = Len(s) + 1
           /\ \A k \in 1 .. Len(s) : Append(s, x)[k] = s[k]
           /\ Append(s, x)[Len(s) + 1] = x
OBVIOUS

LEMMA SeqsAreLists ==
    ASSUME NEW l \in Seq(Seq(Neighbor))
    PROVE  Lists(l)
<1>1. Len(l) \in Nat /\ DOMAIN l = 1 .. Len(l)
  BY LenProperties
<1>2. ASSUME NEW n \in 1 .. Len(l)
      PROVE  Len(l[n]) \in Nat /\ DOMAIN l[n] = 1 .. Len(l[n]) /\ \A k \in 1 .. Len(l[n]) : l[n][k] \in Neighbor
  <2>1. l[n] \in Seq(Neighbor)
    BY ElementOfSeq
  <2> QED BY <2>1, LenProperties
<1> QED BY <1>1, <1>2 DEF Lists

(* A graph is made of its lists.                                           *)
LEMMA GraphFacts ==
    ASSUME NEW g \in Graph
    PROVE  /\ g = [nb1 |-> g.nb1, nb2 |-> g.nb2]
           /\ g.nb1 \in Seq(Seq(Neighbor)) /\ g.nb2 \in Seq(Seq(Neighbor))
           /\ Lists(g.nb1) /\ Lists(g.nb2)
           /\ Flip(g) \in Graph /\ Flip(Flip(g)) = g
           /\ Flip(g).nb1 = g.nb2 /\ Flip(g).nb2 = g.nb1
<1>1. g = [nb1 |-> g.nb1, nb2 |-> g.nb2] /\ g.nb1 \in Seq(Seq(Neighbor)) /\ g.nb2 \in Seq(Seq(Neighbor))
  BY DEF Graph
<1>2. Lists(g.nb1) /\ Lists(g.nb2)
  BY <1>1, SeqsAreLists
<1>3. Flip(g) = [nb1 |-> g.nb2, nb2 |-> g.nb1]
  BY DEF Flip
<1>4. Flip(g).nb1 = g.nb2 /\ Flip(g).nb2 = g.nb1
  BY <1>3
<1>5. Flip(g) \in Graph
  BY <1>1, <1>3 DEF Graph
<1>6. Flip(Flip(g)) = [nb1 |-> g.nb1, nb2 |-> g.nb2]
  BY <1>4 DEF Flip
<1> QED BY <1>1, <1>2, <1>4, <1>5, <1>6

LEMMA GraphMade ==
    ASSUME NEW l1 \in Seq(Seq(Neighbor)), NEW l2 \in Seq(Seq(Neighbor)), NEW g, g = [nb1 |-> l1, nb2 |-> l2]
    PROVE  g \in Graph /\ g.nb1 = l1 /\ g.nb2 = l2
BY DEF Graph

LEMMA PairedFlipped == ASSUME NEW l1, NEW l2, Paired(l1, l2) PROVE Paired(l2, l1)
BY DEF Paired

LEMMA FlippedInv == ASSUME NEW g, GraphInv(g) PROVE GraphInv(Flip(g))
<1>1. g \in Graph /\ Paired(g.nb2, g.nb1)
  BY PairedFlipped DEF GraphInv
<1>2. Flip(g) \in Graph /\ Flip(g).nb1 = g.nb2 /\ Flip(g).nb2 = g.nb1
  BY <1>1, GraphFacts
<1> QED BY <1>1, <1>2 DEF GraphInv

(* The fields of an entry.                                                 *)
LEMMA EntryFields ==
    ASSUME NEW l, Lists(l), NEW n \in 1 .. Len(l), NEW k \in 1 .. Len(l[n])
    PROVE  /\ l[n][k].iter \in Nat /\ l[n][k].node \in Nat /\ l[n][k].dual \in Nat
           /\ l[n][k] = [iter |-> l[n][k].iter, node |-> l[n][k].node, dual |-> l[n][k].dual]
<1>1. l[n][k] \in Neighbor
  BY DEF Lists
<1> QED BY <1>1 DEF Neighbor

LEMMA MirrorOf ==
    ASSUME NEW l1, NEW l2, AllMirrored(l1, l2), NEW n \in 1 .. Len(l1), NEW k \in 1 .. Len(l1[n])
    PROVE  Mirrored(l1, l2, n, k)
BY DEF AllMirrored

LEMMA IterIs ==
    ASSUME NEW l1, NEW l2, AllMirrored(l1, l2), NEW n \in 1 .. Len(l1), NEW k \in 1 .. Len(l1[n])
    PROVE  l1[n][k].iter = k
<1>1. Mirrored(l1, l2, n, k)
  BY MirrorOf
<1> QED BY <1>1 DEF Mirrored

(* If the parallel edges are in order on one side they are on the other.    *)
LEMMA OrderMirrors ==
    ASSUME NEW l1, NEW l2, Lists(l1), Lists(l2), AllMirrored(l1, l2), AllMirrored(l2, l1), InOrder(l1)
    PROVE  InOrder(l2)
<1> SUFFICES ASSUME NEW n \in 1 .. Len(l2), NEW i \in 1 .. Len(l2[n]), NEW k \in 1 .. Len(l2[n]),
                    i < k, l2[n][i].node = l2[n][k].node
             PROVE  l2[n][i].dual < l2[n][k].dual
  BY DEF InOrder
<1> DEFINE m == l2[n][i].node
           p == l2[n][i].dual
           q == l2[n][k].dual
<1>1. m \in 1 .. Len(l1) /\ p \in 1 .. Len(l1[m]) /\ l1[m][p].node = n /\ l1[m][p].dual = i
  <2>1. Mirrored(l2, l1, n, i)
    BY MirrorOf
  <2> QED BY <2>1 DEF Mirrored
<1>2. q \in 1 .. Len(l1[m]) /\ l1[m][q].node = n /\ l1[m][q].dual = k
  <2>1. Mirrored(l2, l1, n, k)
    BY MirrorOf
  <2> QED BY <2>1 DEF Mirrored
<1>3. Len(l1[m]) \in Nat /\ Len(l2[n]) \in Nat
  BY <1>1 DEF Lists
<1> HIDE DEF m, p, q
<1>4. p # q
  BY <1>1, <1>2, <1>3
<1>5. ~(q < p)
  <2>1. q < p => l1[m][q].dual < l1[m][p].dual
    BY <1>1, <1>2 DEF InOrder
  <2> QED BY <1>1, <1>2, <1>3, <2>1
<1>6. p < q
  BY <1>1, <1>2, <1>3, <1>4, <1>5
<1> QED BY <1>6 DEF p, q

LEMMA PairedBy ==
    ASSUME NEW l1, NEW l2, Lists(l1), Lists(l2), AllMirrored(l1, l2), AllMirrored(l2, l1),
           InOrder(l1) \/ InOrder(l2)
    PROVE  Paired(l1, l2)
BY OrderMirrors DEF Paired

-----------------------------------------------------------------------------
(* m has all entries of l, where they were.                                 *)
Extends(m, l) ==
    /\ Len(l) <= Len(m)
    /\ \A n \in 1 .. Len(l) :
          /\ Len(l[n]) <= Len(m[n])
          /\ \A k \in 1 .. Len(l[n]) : m[n][k] = l[n][k]

IsOld(l, n, k) == n \in 1 .. Len(l) /\ k \in 1 .. Len(l[n])

(* What was mirrored stays so when entries are added; thus only the new     *)
(* ones have to be looked at.                                              *)
LEMMA OldStayMirrored ==
    ASSUME NEW l1, NEW l2, NEW m1, NEW m2, Lists(l1), Lists(l2), Lists(m1), Lists(m2),
           Extends(m1, l1), Extends(m2, l2), AllMirrored(l1, l2),
           \A n \in 1 .. Len(m1) : \A k \in 1 .. Len(m1[n]) : ~IsOld(l1, n, k) => Mirrored(m1, m2, n, k)
    PROVE  AllMirrored(m1, m2)
<1> SUFFICES ASSUME NEW n \in 1 .. Len(m1), NEW k \in 1 .. Len(m1[n]), IsOld(l1, n, k)
             PROVE  Mirrored(m1, m2, n, k)
  BY DEF AllMirrored
<1>1. n \in 1 .. Len(l1) /\ k \in 1 .. Len(l1[n])
  BY DEF IsOld
<1>2. Mirrored(l1, l2, n, k)
  BY <1>1, MirrorOf
<1>3. m1[n][k] = l1[n][k]
  BY <1>1 DEF Extends
<1> DEFINE q == l1[n][k].node
           e == l1[n][k].dual
<1>4. q \in 1 .. Len(l2) /\ e \in 1 .. Len(l2[q]) /\ l2[q][e].node = n /\ l2[q][e].dual = k /\ l1[n][k].iter = k
  BY <1>2 DEF Mirrored
<1>5. Len(l2) \in Nat /\ Len(m2) \in Nat /\ Len(l2) <= Len(m2)
  BY DEF Lists, Extends
<1> HIDE DEF q, e
<1>6. q \in 1 .. Len(m2)
  BY <1>4, <1>5
<1>7. Len(l2[q]) \in Nat /\ Len(m2[q]) \in Nat /\ Len(l2[q]) <= Len(m2[q]) /\ m2[q][e] = l2[q][e]
  BY <1>4, <1>6 DEF Lists, Extends
<1>8. e \in 1 .. Len(m2[q])
  BY <1>4, <1>7
<1> QED BY <1>3, <1>4, <1>6, <1>7, <1>8 DEF q, e, Mirrored

LEMMA ExtendsItself == ASSUME NEW l, Lists(l) PROVE Extends(l, l)
BY DEF Lists, Extends

(* A list at the end, or an entry at the end of a list.                     *)
WithList(l, s, m) ==
    /\ m \in Seq(Seq(Neighbor)) /\ Lists(m) /\ Extends(m, l)
    /\ Len(m) = Len(l) + 1 /\ m[Len(l) + 1] = s
    /\ \A n \in 1 .. Len(l) : m[n] = l[n]

LEMMA NodeExtends ==
    ASSUME NEW l \in Seq(Seq(Neighbor)), NEW s \in Seq(Neighbor)
    PROVE  WithList(l, s, Append(l, s))
<1> DEFINE m == Append(l, s)
<1>1. /\ m \in Seq(Seq(Neighbor)) /\ Len(l) \in Nat /\ Len(m) = Len(l) + 1 /\ m[Len(l) + 1] = s
      /\ \A n \in 1 .. Len(l) : m[n] = l[n]
  <2> DEFINE T == Seq(Neighbor)
  <2>1. s \in T /\ l \in Seq(T)
    OBVIOUS
  <2> HIDE DEF T
  <2>2. m \in Seq(T) /\ Len(l) \in Nat /\ Len(m) = Len(l) + 1 /\ m[Len(l) + 1] = s
    BY <2>1, AppendFacts
  <2>3. \A n \in 1 .. Len(l) : m[n] = l[n]
    BY <2>1, AppendFacts
  <2> QED BY <2>2, <2>3 DEF T
<1> HIDE DEF m
<1>2. Lists(m) /\ Lists(l)
  BY <1>1, SeqsAreLists
<1>3. Extends(m, l)
  BY <1>1, <1>2 DEF Extends, Lists
<1>4. WithList(l, s, m)
  BY <1>1, <1>2, <1>3 DEF WithList
<1> QED BY <1>4 DEF m

WithEntry(l, n, x, m) ==
    /\ m \in Seq(Seq(Neighbor)) /\ Lists(m) /\ Extends(m, l) /\ Len(m) = Len(l)
    /\ Len(m[n]) = Len(l[n]) + 1 /\ m[n][Len(l[n]) + 1] = x
    /\ \A a \in 1 .. Len(l) : a # n => m[a] = l[a]

LEMMA EntryExtends ==
    ASSUME NEW l \in Seq(Seq(Neighbor)), NEW n \in 1 .. Len(l), NEW x \in Neighbor,
           NEW m, m = [l EXCEPT ![n] = Append(l[n], x)]
    PROVE  WithEntry(l, n, x, m)
<1>1. l[n] \in Seq(Neighbor) /\ Lists(l)
  BY ElementOfSeq, SeqsAreLists
<1> DEFINE s == Append(l[n], x)
<1>2. s \in Seq(Neighbor) /\ Len(s) = Len(l[n]) + 1 /\ s[Len(l[n]) + 1] = x /\ Len(l[n]) \in Nat
      /\ \A k \in 1 .. Len(l[n]) : s[k] = l[n][k]
  BY <1>1, AppendFacts
<1> HIDE DEF s
<1>3. m = [l EXCEPT ![n] = s]
  BY DEF s
<1>4. /\ m \in Seq(Seq(Neighbor)) /\ Len(m) = Len(l)
      /\ \A a \in 1 .. Len(l) : m[a] = IF a = n THEN s ELSE l[a]
  <2> DEFINE T == Seq(Neighbor)
  <2>1. s \in T /\ l \in Seq(T)
    BY <1>2
  <2> HIDE DEF T
  <2>2. [l EXCEPT ![n] = s] \in Seq(T) /\ Len([l EXCEPT ![n] = s]) = Len(l)
    BY <2>1, ExceptSeq
  <2>3. \A a \in 1 .. Len(l) : [l EXCEPT ![n] = s][a] = IF a = n THEN s ELSE l[a]
    BY <2>1, ExceptSeq
  <2> QED BY <1>3, <2>2, <2>3 DEF T
<1>5. Lists(m)
  BY <1>4, SeqsAreLists
<1>6. Extends(m, l)
  BY <1>1, <1>2, <1>4 DEF Extends, Lists
<1> QED BY <1>2, <1>4, <1>5, <1>6 DEF WithEntry

LEMMA NodeAdded == ASSUME NEW g, GraphInv(g) PROVE GraphInv(WithNode1(g))
<1> DEFINE none == << >>
           m == Append(g.nb1, none)
<1>1. /\ g = [nb1 |-> g.nb1, nb2 |-> g.nb2]
      /\ g.nb1 \in Seq(Seq(Neighbor)) /\ g.nb2 \in Seq(Seq(Neighbor)) /\ Lists(g.nb1) /\ Lists(g.nb2)
  BY GraphFacts DEF GraphInv
<1>2. none \in Seq(Neighbor) /\ Len(none) = 0
  OBVIOUS
<1> HIDE DEF none
<1>3. WithList(g.nb1, none, m)
  BY <1>1, <1>2, NodeExtends
<1>5. WithNode1(g) = [nb1 |-> m, nb2 |-> g.nb2]
  <2>1. WithNode1(g) = [g EXCEPT !.nb1 = m]
    BY DEF WithNode1, none
  <2> HIDE DEF m
  <2> QED BY <1>1, <2>1
<1> HIDE DEF m
<1>4. /\ m \in Seq(Seq(Neighbor)) /\ Lists(m) /\ Extends(m, g.nb1)
      /\ Len(m) = Len(g.nb1) + 1 /\ m[Len(g.nb1) + 1] = none
      /\ \A n \in 1 .. Len(g.nb1) : m[n] = g.nb1[n]
  BY <1>3 DEF WithList
<1>6. WithNode1(g) \in Graph /\ WithNode1(g).nb1 = m /\ WithNode1(g).nb2 = g.nb2
  BY <1>1, <1>4, <1>5, GraphMade
<1>7. Extends(g.nb2, g.nb2) /\ AllMirrored(g.nb1, g.nb2) /\ AllMirrored(g.nb2, g.nb1) /\ InOrder(g.nb2)
  BY <1>1, ExtendsItself DEF GraphInv, Paired
<1>8. \A n \in 1 .. Len(m) : \A k \in 1 .. Len(m[n]) : IsOld(g.nb1, n, k)
  <2> SUFFICES ASSUME NEW n \in 1 .. Len(m), NEW k \in 1 .. Len(m[n]) PROVE IsOld(g.nb1, n, k)
    OBVIOUS
  <2>1. n # Len(g.nb1) + 1
    BY <1>2, <1>4
  <2>2. n \in 1 .. Len(g.nb1)
    BY <1>1, <1>4, <2>1 DEF Lists
  <2> QED BY <1>4, <2>2 DEF IsOld
<1>9. AllMirrored(m, g.nb2)
  BY <1>1, <1>4, <1>7, <1>8, OldStayMirrored
<1>10. \A n \in 1 .. Len(g.nb2) : \A k \in 1 .. Len(g.nb2[n]) : IsOld(g.nb2, n, k)
  BY DEF IsOld
<1>11. AllMirrored(g.nb2, m)
  BY <1>1, <1>4, <1>7, <1>10, OldStayMirrored
<1> QED BY <1>1, <1>4, <1>6, <1>7, <1>9, <1>11, PairedBy DEF GraphInv

(* One half of an edge between n1 and n2 at the end of either list.          *)
Half(l1, l2, n1, n2) == [iter |-> Len(l1[n1]) + 1, node |-> n2, dual |-> Len(l2[n2]) + 1]

LEMMA HalvesMirrored ==
    ASSUME NEW l1, NEW l2, NEW m1, NEW m2, Lists(l1), Lists(l2), AllMirrored(l1, l2),
           NEW n1 \in 1 .. Len(l1), NEW n2 \in 1 .. Len(l2),
           WithEntry(l1, n1, Half(l1, l2, n1, n2), m1), WithEntry(l2, n2, Half(l2, l1, n2, n1), m2)
    PROVE  AllMirrored(m1, m2)
<1>1. /\ Lists(m1) /\ Lists(m2) /\ Extends(m1, l1) /\ Extends(m2, l2) /\ Len(m1) = Len(l1) /\ Len(m2) = Len(l2)
      /\ Len(m1[n1]) = Len(l1[n1]) + 1 /\ m1[n1][Len(l1[n1]) + 1] = Half(l1, l2, n1, n2)
      /\ Len(m2[n2]) = Len(l2[n2]) + 1 /\ m2[n2][Len(l2[n2]) + 1] = Half(l2, l1, n2, n1)
      /\ \A a \in 1 .. Len(l1) : a # n1 => m1[a] = l1[a]
  BY DEF WithEntry
<1>2. Len(l1[n1]) \in Nat /\ Len(l2[n2]) \in Nat
  BY DEF Lists
<1>3. ASSUME NEW n \in 1 .. Len(m1), NEW k \in 1 .. Len(m1[n]), ~IsOld(l1, n, k) PROVE Mirrored(m1, m2, n, k)
  <2>1. n \in 1 .. Len(l1) /\ ~(k \in 1 .. Len(l1[n]))
    BY <1>1, <1>3 DEF IsOld
  <2>2. n = n1
    BY <1>1, <2>1
  <2>3. k = Len(l1[n1]) + 1
    BY <1>1, <1>2, <2>1, <2>2
  <2>4. Len(l2[n2]) + 1 \in 1 .. Len(m2[n2])
    BY <1>1, <1>2
  <2> DEFINE x == m1[n1][Len(l1[n1]) + 1]
             y == m2[n2][Len(l2[n2]) + 1]
  <2>5. /\ x.iter = Len(l1[n1]) + 1 /\ x.node = n2 /\ x.dual = Len(l2[n2]) + 1
        /\ y.node = n1 /\ y.dual = Len(l1[n1]) + 1
    BY <1>1 DEF Half
  <2>6. n2 \in 1 .. Len(m2)
    BY <1>1
  <2> QED BY <2>2, <2>3, <2>4, <2>5, <2>6 DEF Mirrored
<1> QED BY <1>1, <1>3, OldStayMirrored

LEMMA HalfInOrder ==
    ASSUME NEW l1, NEW l2, NEW m1, Lists(l1), Lists(l2), AllMirrored(l1, l2), InOrder(l1),
           NEW n1 \in 1 .. Len(l1), NEW n2 \in 1 .. Len(l2), WithEntry(l1, n1, Half(l1, l2, n1, n2), m1)
    PROVE  InOrder(m1)
<1>1. /\ Len(m1) = Len(l1) /\ Extends(m1, l1)
      /\ Len(m1[n1]) = Len(l1[n1]) + 1 /\ m1[n1][Len(l1[n1]) + 1] = Half(l1, l2, n1, n2)
      /\ \A a \in 1 .. Len(l1) : a # n1 => m1[a] = l1[a]
  BY DEF WithEntry
<1>2. Len(l1[n1]) \in Nat /\ Len(l2[n2]) \in Nat
  BY DEF Lists
<1> SUFFICES ASSUME NEW n \in 1 .. Len(m1), NEW i \in 1 .. Len(m1[n]), NEW k \in 1 .. Len(m1[n]),
                    i < k, m1[n][i].node = m1[n][k].node
             PROVE  m1[n][i].dual < m1[n][k].dual
  BY DEF InOrder
<1>3. CASE n # n1
  BY <1>1, <1>3 DEF InOrder
<1>4. CASE n = n1 /\ k # Len(l1[n1]) + 1
  <2>1. i \in 1 .. Len(l1[n1]) /\ k \in 1 .. Len(l1[n1])
    BY <1>1, <1>2, <1>4
  <2>2. m1[n][i] = l1[n1][i] /\ m1[n][k] = l1[n1][k]
    BY <1>1, <1>4, <2>1 DEF Extends
  <2> QED BY <2>1, <2>2 DEF InOrder
<1>5. CASE n = n1 /\ k = Len(l1[n1]) + 1
  <2>1. i \in 1 .. Len(l1[n1])
    BY <1>1, <1>2, <1>5
  <2>2. m1[n][i] = l1[n1][i] /\ m1[n][k].node = n2 /\ m1[n][k].dual = Len(l2[n2]) + 1
    BY <1>1, <1>5, <2>1 DEF Extends, Half
  <2>3. Mirrored(l1, l2, n1, i)
    BY <2>1, MirrorOf
  <2>4. l1[n1][i].dual \in 1 .. Len(l2[n2])
    BY <2>2, <2>3 DEF Mirrored
  <2> DEFINE d == l1[n1][i].dual
             e == Len(l2[n2])
  <2>5. m1[n][i].dual = d /\ m1[n][k].dual = e + 1 /\ d \in 1 .. e /\ e \in Nat
    BY <1>2, <2>2, <2>4
  <2> HIDE DEF d, e
  <2> QED BY <2>5
<1> QED BY <1>3, <1>4, <1>5

(* The graph with one more edge.                                           *)
EdgeMade(g, n1, n2, h) ==
    /\ h \in Graph
    /\ WithEntry(g.nb1, n1, Half(g.nb1, g.nb2, n1, n2), h.nb1)
    /\ WithEntry(g.nb2, n2, Half(g.nb2, g.nb1, n2, n1), h.nb2)

LEMMA EdgeIsMade ==
    ASSUME NEW g, g \in Graph, NEW n1 \in 1 .. Len(g.nb1), NEW n2 \in 1 .. Len(g.nb2), NEW check \in BOOLEAN
    PROVE  WithEdge(g, n1, n2, check) = g \/ EdgeMade(g, n1, n2, WithEdge(g, n1, n2, check))
<1> DEFINE x1 == Half(g.nb1, g.nb2, n1, n2)
           x2 == Half(g.nb2, g.nb1, n2, n1)
           m1 == [g.nb1 EXCEPT ![n1] = Append(g.nb1[n1], x1)]
           m2 == [g.nb2 EXCEPT ![n2] = Append(g.nb2[n2], x2)]
           h == [nb1 |-> m1, nb2 |-> m2]
<1>1. /\ g.nb1 \in Seq(Seq(Neighbor)) /\ g.nb2 \in Seq(Seq(Neighbor))
      /\ Len(g.nb1[n1]) \in Nat /\ Len(g.nb2[n2]) \in Nat /\ n1 \in Nat /\ n2 \in Nat
  <2>1. Lists(g.nb1) /\ Lists(g.nb2)
    BY GraphFacts
  <2> QED BY <2>1, GraphFacts DEF Lists
<1>2. x1 \in Neighbor /\ x2 \in Neighbor
  <2> DEFINE a == Len(g.nb1[n1])
             b == Len(g.nb2[n2])
  <2>1. x1 = [iter |-> a + 1, node |-> n2, dual |-> b + 1] /\ x2 = [iter |-> b + 1, node |-> n1, dual |-> a + 1]
    BY DEF Half
  <2>2. a \in Nat /\ b \in Nat
    BY <1>1
  <2> HIDE DEF a, b, x1, x2
  <2>3. a + 1 \in Nat /\ b + 1 \in Nat
    BY <2>2
  <2> QED BY <1>1, <2>1, <2>3 DEF Neighbor
<1>3. WithEdge(g, n1, n2, check) = g \/ WithEdge(g, n1, n2, check) = h
  BY DEF WithEdge, Half
<1> HIDE DEF x1, x2
<1>4. WithEntry(g.nb1, n1, x1, m1)
  BY <1>1, <1>2, EntryExtends
<1>5. WithEntry(g.nb2, n2, x2, m2)
  BY <1>1, <1>2, EntryExtends
<1> HIDE DEF m1, m2
<1>6. h \in Graph /\ h.nb1 = m1 /\ h.nb2 = m2
  BY <1>4, <1>5, GraphMade DEF WithEntry
<1> HIDE DEF h
<1>7. EdgeMade(g, n1, n2, h)
  BY <1>4, <1>5, <1>6 DEF EdgeMade, x1, x2
<1> QED BY <1>3, <1>7

LEMMA EdgeAdded ==
    ASSUME NEW g, GraphInv(g), NEW n1 \in 1 .. Len(g.nb1), NEW n2 \in 1 .. Len(g.nb2),
           NEW h, EdgeMade(g, n1, n2, h)
    PROVE  GraphInv(h)
<1>1. Lists(g.nb1) /\ Lists(g.nb2) /\ AllMirrored(g.nb1, g.nb2) /\ AllMirrored(g.nb2, g.nb1) /\ InOrder(g.nb1)
  BY DEF GraphInv, Paired
<1>2. WithEntry(g.nb1, n1, Half(g.nb1, g.nb2, n1, n2), h.nb1) /\ WithEntry(g.nb2, n2, Half(g.nb2, g.nb1, n2, n1), h.nb2)
  BY DEF EdgeMade
<1>3. AllMirrored(h.nb1, h.nb2)
  BY <1>1, <1>2, HalvesMirrored
<1>4. AllMirrored(h.nb2, h.nb1)
  BY <1>1, <1>2, HalvesMirrored
<1>5. InOrder(h.nb1)
  BY <1>1, <1>2, HalfInOrder
<1>6. Lists(h.nb1) /\ Lists(h.nb2)
  BY <1>2 DEF WithEntry
<1> QED BY <1>3, <1>4, <1>5, <1>6, PairedBy DEF GraphInv, EdgeMade

-----------------------------------------------------------------------------
(* When element k has been taken out: where element i was, and where element *)
(* j is now.                                                               *)
Old(i, k) == IF i < k THEN i ELSE i + 1

New(j, k) == IF j > k THEN j - 1 ELSE j

LEMMA OldAndNew ==
    ASSUME NEW L \in Nat, NEW k \in 1 .. L
    PROVE  /\ \A j \in 1 .. L : j # k => New(j, k) \in 1 .. L - 1 /\ Old(New(j, k), k) = j
           /\ \A i \in 1 .. L - 1 : Old(i, k) \in 1 .. L /\ Old(i, k) # k /\ New(Old(i, k), k) = i
           /\ \A i, j \in 1 .. L - 1 : i < j => Old(i, k) < Old(j, k)
           /\ \A i, j \in 1 .. L : i # k /\ j # k /\ i < j => New(i, k) < New(j, k)
BY DEF Old, New

(* m is l without entry k of list n; duals of entries for node q are those   *)
(* after its entry d has gone.                                             *)
Pos(a, n, i, k) == IF a = n THEN Old(i, k) ELSE i

DualIn(x, q, d) == IF x.node = q THEN New(x.dual, d) ELSE x.dual

Shrunk(l, m, n, k, q, d) ==
    /\ Len(m) = Len(l)
    /\ \A a \in 1 .. Len(l) :
          /\ Len(m[a]) = IF a = n THEN Len(l[a]) - 1 ELSE Len(l[a])
          /\ \A i \in 1 .. Len(m[a]) :
                /\ m[a][i].iter = i
                /\ m[a][i].node = l[a][Pos(a, n, i, k)].node
                /\ m[a][i].dual = DualIn(l[a][Pos(a, n, i, k)], q, d)

(* Where an entry is now; and the entry i of m[a], which was at j.           *)
Now(a, n, j, k) == IF a = n THEN New(j, k) ELSE j

WasAt(l, m, n, k, q, d, a, i, j) ==
    /\ a \in 1 .. Len(l) /\ Len(l[a]) \in Nat
    /\ j \in 1 .. Len(l[a]) /\ ~(a = n /\ j = k)
    /\ i = Now(a, n, j, k)
    /\ m[a][i].iter = i
    /\ m[a][i].node = l[a][j].node
    /\ m[a][i].dual = DualIn(l[a][j], q, d)

LEMMA ShrunkEntry ==
    ASSUME NEW l, NEW m, Lists(l), NEW n \in 1 .. Len(l), NEW k \in 1 .. Len(l[n]), NEW q, NEW d,
           Shrunk(l, m, n, k, q, d), NEW a \in 1 .. Len(m), NEW i \in 1 .. Len(m[a])
    PROVE  WasAt(l, m, n, k, q, d, a, i, Pos(a, n, i, k))
<1>1. a \in 1 .. Len(l) /\ Len(l[a]) \in Nat
  BY DEF Shrunk, Lists
<1>2. m[a][i].iter = i /\ m[a][i].node = l[a][Pos(a, n, i, k)].node /\ m[a][i].dual = DualIn(l[a][Pos(a, n, i, k)], q, d)
  BY <1>1 DEF Shrunk
<1>3. Len(m[a]) = IF a = n THEN Len(l[a]) - 1 ELSE Len(l[a])
  BY <1>1 DEF Shrunk
<1>4. CASE a = n
  <2>1. i \in 1 .. Len(l[a]) - 1 /\ k \in 1 .. Len(l[a]) /\ Pos(a, n, i, k) = Old(i, k)
    BY <1>3, <1>4 DEF Pos
  <2>2. Old(i, k) \in 1 .. Len(l[a]) /\ Old(i, k) # k /\ New(Old(i, k), k) = i
    BY <1>1, <2>1, OldAndNew
  <2> QED BY <1>1, <1>2, <1>4, <2>1, <2>2 DEF WasAt, Now
<1>5. CASE a # n
  BY <1>1, <1>2, <1>3, <1>5 DEF Pos, WasAt, Now
<1> QED BY <1>4, <1>5

IsAt(m, n, k, a, i, j) == i \in 1 .. Len(m[a]) /\ Pos(a, n, i, k) = j

LEMMA ShrunkPlace ==
    ASSUME NEW l, NEW m, Lists(l), NEW n \in 1 .. Len(l), NEW k \in 1 .. Len(l[n]), NEW q, NEW d,
           Shrunk(l, m, n, k, q, d), NEW a \in 1 .. Len(l), NEW j \in 1 .. Len(l[a]), ~(a = n /\ j = k)
    PROVE  IsAt(m, n, k, a, Now(a, n, j, k), j)
<1>1. Len(l[a]) \in Nat /\ Len(m[a]) = IF a = n THEN Len(l[a]) - 1 ELSE Len(l[a])
  BY DEF Shrunk, Lists
<1>2. CASE a = n
  <2>1. k \in 1 .. Len(l[a]) /\ j # k
    BY <1>2
  <2>2. New(j, k) \in 1 .. Len(l[a]) - 1 /\ Old(New(j, k), k) = j
    BY <1>1, <2>1, OldAndNew
  <2> QED BY <1>1, <1>2, <2>2 DEF Pos, IsAt, Now
<1>3. CASE a # n
  BY <1>1, <1>3 DEF Pos, IsAt, Now
<1> QED BY <1>2, <1>3

(* An entry and the one at the other end of its edge.                       *)
Ends(l1, l2, n, k, q, d) ==
    /\ n \in 1 .. Len(l1) /\ k \in 1 .. Len(l1[n]) /\ q \in 1 .. Len(l2) /\ d \in 1 .. Len(l2[q])
    /\ l1[n][k].node = q /\ l1[n][k].dual = d
    /\ l2[q][d].node = n /\ l2[q][d].dual = k

LEMMA EndsOf ==
    ASSUME NEW l1, NEW l2, AllMirrored(l1, l2), NEW n \in 1 .. Len(l1), NEW k \in 1 .. Len(l1[n])
    PROVE  Ends(l1, l2, n, k, l1[n][k].node, l1[n][k].dual)
<1>1. Mirrored(l1, l2, n, k)
  BY MirrorOf
<1> QED BY <1>1 DEF Mirrored, Ends

LEMMA ShrunkMirrored ==
    ASSUME NEW l1, NEW l2, NEW m1, NEW m2, Lists(l1), Lists(l2), AllMirrored(l1, l2),
           NEW n, NEW k, NEW q, NEW d, Ends(l1, l2, n, k, q, d),
           Shrunk(l1, m1, n, k, q, d), Shrunk(l2, m2, q, d, n, k)
    PROVE  AllMirrored(m1, m2)
<1> SUFFICES ASSUME NEW a \in 1 .. Len(m1), NEW i \in 1 .. Len(m1[a]) PROVE Mirrored(m1, m2, a, i)
  BY DEF AllMirrored
<1>0. n \in 1 .. Len(l1) /\ k \in 1 .. Len(l1[n]) /\ q \in 1 .. Len(l2) /\ d \in 1 .. Len(l2[q])
  BY DEF Ends
<1> DEFINE j == Pos(a, n, i, k)
           b == l1[a][j].node
           e == l1[a][j].dual
           f == Now(b, q, e, d)
<1>1. WasAt(l1, m1, n, k, q, d, a, i, j)
  BY <1>0, ShrunkEntry
<1> HIDE DEF j
<1>2. /\ a \in 1 .. Len(l1) /\ j \in 1 .. Len(l1[a]) /\ ~(a = n /\ j = k) /\ i = Now(a, n, j, k)
      /\ m1[a][i].iter = i /\ m1[a][i].node = b /\ m1[a][i].dual = f
  BY <1>1 DEF WasAt, DualIn, Now
<1>3. Ends(l1, l2, a, j, b, e)
  BY <1>2, EndsOf
<1> HIDE DEF b, e
<1>4. b \in 1 .. Len(l2) /\ e \in 1 .. Len(l2[b]) /\ l2[b][e].node = a /\ l2[b][e].dual = j
  BY <1>3 DEF Ends
<1>5. ~(b = q /\ e = d)
  BY <1>2, <1>4 DEF Ends
<1>6. IsAt(m2, q, d, b, f, e)
  BY <1>0, <1>4, <1>5, ShrunkPlace
<1>7. Len(m2) = Len(l2) /\ b \in 1 .. Len(m2)
  BY <1>4 DEF Shrunk
<1> HIDE DEF f
<1>8. f \in 1 .. Len(m2[b]) /\ Pos(b, q, f, d) = e
  BY <1>6 DEF IsAt
<1>9. WasAt(l2, m2, q, d, n, k, b, f, e)
  BY <1>0, <1>7, <1>8, ShrunkEntry
<1>10. m2[b][f].node = a /\ m2[b][f].dual = i
  BY <1>2, <1>4, <1>9 DEF WasAt, DualIn, Now
<1> QED BY <1>2, <1>7, <1>8, <1>10 DEF Mirrored

LEMMA ShrunkInOrder ==
    ASSUME NEW l1, NEW l2, NEW m1, Lists(l1), Lists(l2), AllMirrored(l1, l2), InOrder(l1),
           NEW n, NEW k, NEW q, NEW d, Ends(l1, l2, n, k, q, d), Shrunk(l1, m1, n, k, q, d)
    PROVE  InOrder(m1)
<1> SUFFICES ASSUME NEW a \in 1 .. Len(m1), NEW i \in 1 .. Len(m1[a]), NEW j \in 1 .. Len(m1[a]),
                    i < j, m1[a][i].node = m1[a][j].node
             PROVE  m1[a][i].dual < m1[a][j].dual
  BY DEF InOrder
<1>0. n \in 1 .. Len(l1) /\ k \in 1 .. Len(l1[n]) /\ q \in 1 .. Len(l2) /\ d \in 1 .. Len(l2[q])
  BY DEF Ends
<1> DEFINE x == Pos(a, n, i, k)
           y == Pos(a, n, j, k)
           b == l1[a][x].node
           e == l1[a][x].dual
           f == l1[a][y].dual
<1>9. WasAt(l1, m1, n, k, q, d, a, i, x) /\ WasAt(l1, m1, n, k, q, d, a, j, y)
  BY <1>0, ShrunkEntry
<1>1. /\ a \in 1 .. Len(l1) /\ x \in 1 .. Len(l1[a]) /\ ~(a = n /\ x = k) /\ Len(l1[a]) \in Nat
      /\ m1[a][i].node = b /\ m1[a][i].dual = DualIn(l1[a][x], q, d)
  BY <1>9 DEF WasAt
<1>2. /\ y \in 1 .. Len(l1[a]) /\ ~(a = n /\ y = k)
      /\ m1[a][j].node = l1[a][y].node /\ m1[a][j].dual = DualIn(l1[a][y], q, d)
  BY <1>9 DEF WasAt
<1>3. x < y
  <2>1. CASE a = n
    <3>1. i \in 1 .. Len(l1[a]) - 1 /\ j \in 1 .. Len(l1[a]) - 1 /\ k \in 1 .. Len(l1[a])
      BY <1>0, <1>1, <2>1 DEF Shrunk
    <3>2. Old(i, k) < Old(j, k)
      BY <1>1, <3>1, OldAndNew
    <3> QED BY <2>1, <3>2 DEF Pos
  <2>2. CASE a # n
    BY <2>2 DEF Pos
  <2> QED BY <2>1, <2>2
<1> HIDE DEF x, y
<1>4. l1[a][y].node = b /\ e < f
  BY <1>1, <1>2, <1>3 DEF InOrder
<1>5. Ends(l1, l2, a, x, b, e) /\ Ends(l1, l2, a, y, b, f)
  BY <1>1, <1>2, <1>4, EndsOf
<1>6. CASE b = q
  <2>1. m1[a][i].dual = New(e, d) /\ m1[a][j].dual = New(f, d)
    BY <1>1, <1>2, <1>4, <1>6 DEF DualIn
  <2> HIDE DEF b, e, f
  <2>2. e \in 1 .. Len(l2[q]) /\ f \in 1 .. Len(l2[q]) /\ e # d /\ f # d
    BY <1>1, <1>2, <1>5, <1>6 DEF Ends
  <2>3. Len(l2[q]) \in Nat
    BY <1>0 DEF Lists
  <2>4. New(e, d) < New(f, d)
    <3>1. d \in 1 .. Len(l2[q]) /\ e < f
      BY <1>0, <1>4
    <3> DEFINE L == Len(l2[q])
    <3>2. L \in Nat /\ d \in 1 .. L /\ e \in 1 .. L /\ f \in 1 .. L
      BY <2>2, <2>3, <3>1
    <3> HIDE DEF L
    <3> QED BY <2>2, <3>1, <3>2, OldAndNew
  <2> QED BY <2>1, <2>4
<1>7. CASE b # q
  <2>1. m1[a][i].dual = e /\ m1[a][j].dual = f
    BY <1>1, <1>2, <1>4, <1>7 DEF DualIn
  <2> HIDE DEF b, e, f
  <2> QED BY <1>4, <2>1
<1> QED BY <1>6, <1>7

-----------------------------------------------------------------------------
(* The two changes that WithoutEntry makes.                                *)
Cut(list, k) ==
    [j \in 1 .. Len(list) - 1 |-> IF j < k THEN list[j] ELSE [list[j + 1] EXCEPT !.iter = j]]

Behind(list, k, b, i) == {j \in k + 1 .. Len(list) : list[j].node = b /\ list[j].dual = i}

Relinked(l, list, k) ==
    [b \in DOMAIN l |-> [i \in DOMAIN l[b] |->
        IF Behind(list, k, b, i) = {} THEN l[b][i]
        ELSE [l[b][i] EXCEPT !.dual = Max(Behind(list, k, b, i)) - 1]]]

LEMMA CutFacts ==
    ASSUME NEW list \in Seq(Neighbor), NEW k \in 1 .. Len(list), \A j \in 1 .. Len(list) : list[j].iter = j
    PROVE  /\ Cut(list, k) \in Seq(Neighbor) /\ Len(Cut(list, k)) = Len(list) - 1
           /\ \A j \in 1 .. Len(list) - 1 :
                 Cut(list, k)[j] = [iter |-> j, node |-> list[Old(j, k)].node, dual |-> list[Old(j, k)].dual]
<1> DEFINE c == Cut(list, k)
           N == Len(list) - 1
<1>1. Len(list) \in Nat /\ N \in Nat /\ \A j \in 1 .. Len(list) : list[j] \in Neighbor
  <2>1. Len(list) \in Nat
    BY LenProperties
  <2> QED BY <2>1, ElementOfSeq
<1>2. c = [j \in 1 .. N |-> IF j < k THEN list[j] ELSE [list[j + 1] EXCEPT !.iter = j]]
  BY DEF Cut
<1>3. ASSUME NEW j \in 1 .. N
      PROVE  /\ c[j] = [iter |-> j, node |-> list[Old(j, k)].node, dual |-> list[Old(j, k)].dual]
             /\ c[j] \in Neighbor
  <2>1. Old(j, k) \in 1 .. Len(list) /\ j \in Nat
    BY <1>1 DEF Old
  <2> DEFINE x == list[Old(j, k)]
  <2>2. x \in Neighbor
    BY <1>1, <2>1
  <2>3. c[j] = IF j < k THEN x ELSE [x EXCEPT !.iter = j]
    BY <1>2 DEF Old
  <2>4. j < k => x.iter = j
    BY <1>1 DEF Old
  <2> HIDE DEF x, c
  <2>5. c[j] = [iter |-> j, node |-> x.node, dual |-> x.dual]
    BY <2>2, <2>3, <2>4 DEF Neighbor
  <2>6. c[j] \in Neighbor
    BY <2>1, <2>2, <2>5 DEF Neighbor
  <2> QED BY <2>5, <2>6 DEF x
<1> HIDE DEF N
<1>4. c = [j \in 1 .. N |-> c[j]]
  BY <1>2
<1> HIDE DEF c
<1>5. c \in Seq(Neighbor) /\ Len(c) = N
  BY <1>1, <1>3, <1>4, MakesSeq
<1> QED BY <1>3, <1>5 DEF c, N

LEMMA MaxOfOne == ASSUME NEW x \in Nat PROVE Max({x}) = x
BY DEF Max

(* What becomes of an entry if there is at most one entry behind that wants  *)
(* to change it.                                                           *)
AtMostOne(l, list, k) ==
    \A b \in 1 .. Len(l) : \A i \in 1 .. Len(l[b]) :
        Behind(list, k, b, i) = {} \/ \E x \in Nat \ {0} : Behind(list, k, b, i) = {x}

IsRelinked(l, list, k, r) ==
    /\ r \in Seq(Seq(Neighbor)) /\ Len(r) = Len(l)
    /\ \A b \in 1 .. Len(l) :
          /\ Len(r[b]) = Len(l[b])
          /\ \A i \in 1 .. Len(l[b]) :
                /\ r[b][i].iter = l[b][i].iter /\ r[b][i].node = l[b][i].node
                /\ Behind(list, k, b, i) = {} => r[b][i].dual = l[b][i].dual
                /\ \A x \in Nat : Behind(list, k, b, i) = {x} => r[b][i].dual = x - 1

LEMMA RelinkedFacts ==
    ASSUME NEW l \in Seq(Seq(Neighbor)), NEW list, NEW k, AtMostOne(l, list, k)
    PROVE  IsRelinked(l, list, k, Relinked(l, list, k))
<1> DEFINE r == Relinked(l, list, k)
<1>1. Lists(l)
  BY SeqsAreLists
<1>2. r = [b \in 1 .. Len(l) |-> r[b]]
  BY <1>1 DEF Relinked, Lists
<1>3. ASSUME NEW b \in 1 .. Len(l), NEW i \in 1 .. Len(l[b])
      PROVE  /\ r[b][i] \in Neighbor
             /\ r[b][i].iter = l[b][i].iter /\ r[b][i].node = l[b][i].node
             /\ Behind(list, k, b, i) = {} => r[b][i].dual = l[b][i].dual
             /\ \A x \in Nat : Behind(list, k, b, i) = {x} => r[b][i].dual = x - 1
  <2> DEFINE B == Behind(list, k, b, i)
             y == l[b][i]
  <2>1. y \in Neighbor
    BY <1>1 DEF Lists
  <2>2. r[b][i] = IF B = {} THEN y ELSE [y EXCEPT !.dual = Max(B) - 1]
    <3>1. b \in DOMAIN l /\ i \in DOMAIN l[b]
      BY <1>1 DEF Lists
    <3> QED BY <3>1 DEF Relinked
  <2>3. B = {} \/ \E x \in Nat \ {0} : B = {x}
    BY DEF AtMostOne
  <2> HIDE DEF B, y, r
  <2>4. CASE B = {}
    <3>1. \A x \in Nat : B # {x}
      BY <2>4
    <3> QED BY <2>1, <2>2, <2>4, <3>1 DEF B, y
  <2>5. ASSUME NEW x \in Nat \ {0}, B = {x}
        PROVE  /\ r[b][i] \in Neighbor
               /\ r[b][i].iter = y.iter /\ r[b][i].node = y.node
               /\ r[b][i].dual = x - 1
    <3>1. Max(B) = x /\ B # {} /\ x - 1 \in Nat
      BY <2>5, MaxOfOne
    <3>2. r[b][i] = [y EXCEPT !.dual = x - 1]
      BY <2>2, <3>1
    <3> QED BY <2>1, <3>1, <3>2 DEF Neighbor
  <2>6. CASE B # {}
    <3>1. PICK x \in Nat \ {0} : B = {x}
      BY <2>3, <2>6
    <3>2. \A z \in Nat : B = {z} => z = x
      BY <3>1
    <3> QED BY <2>5, <2>6, <3>1, <3>2 DEF B, y
  <2> QED BY <2>4, <2>6
<1>4. ASSUME NEW b \in 1 .. Len(l) PROVE r[b] = [i \in 1 .. Len(l[b]) |-> r[b][i]]
  <2>1. b \in DOMAIN l /\ DOMAIN l[b] = 1 .. Len(l[b])
    BY <1>1 DEF Lists
  <2> QED BY <2>1 DEF Relinked
<1> HIDE DEF r
<1>5. ASSUME NEW b \in 1 .. Len(l) PROVE r[b] \in Seq(Neighbor) /\ Len(r[b]) = Len(l[b])
  <2> DEFINE s == r[b]
             N == Len(l[b])
  <2>1. N \in Nat /\ s = [i \in 1 .. N |-> s[i]]
    BY <1>1, <1>4 DEF Lists
  <2>2. \A i \in 1 .. N : s[i] \in Neighbor
    BY <1>3
  <2> HIDE DEF s, N
  <2>3. s \in Seq(Neighbor) /\ Len(s) = N
    BY <2>1, <2>2, MakesSeq
  <2> QED BY <2>3 DEF s, N
<1>6. r \in Seq(Seq(Neighbor)) /\ Len(r) = Len(l)
  <2>1. Len(l) \in Nat
    BY <1>1 DEF Lists
  <2> QED BY <1>2, <1>5, <2>1, MakesSeq
<1>7. IsRelinked(l, list, k, r)
  BY <1>3, <1>5, <1>6 DEF IsRelinked
<1> QED BY <1>7 DEF r

(* The graph after the first half of an edge has gone: entry k of list n.    *)
CutInHalf(l1, l2, p1, p2, n, k) ==
    /\ p1 \in Seq(Seq(Neighbor)) /\ Len(p1) = Len(l1)
    /\ p2 \in Seq(Seq(Neighbor)) /\ Len(p2) = Len(l2)
    /\ \A a \in 1 .. Len(l1) : a # n => p1[a] = l1[a]
    /\ Len(p1[n]) = Len(l1[n]) - 1
    /\ \A j \in 1 .. Len(l1[n]) - 1 :
          p1[n][j] = [iter |-> j, node |-> l1[n][Old(j, k)].node, dual |-> l1[n][Old(j, k)].dual]
    /\ \A b \in 1 .. Len(l2) :
          /\ Len(p2[b]) = Len(l2[b])
          /\ \A i \in 1 .. Len(l2[b]) :
                /\ p2[b][i].iter = i /\ p2[b][i].node = l2[b][i].node
                /\ p2[b][i].dual = DualIn(l2[b][i], n, k)

(* A list of l cut at k.                                                   *)
CutOut(l, p, n, k) ==
    /\ p \in Seq(Seq(Neighbor)) /\ Len(p) = Len(l)
    /\ \A a \in 1 .. Len(l) : a # n => p[a] = l[a]
    /\ Len(p[n]) = Len(l[n]) - 1
    /\ \A j \in 1 .. Len(l[n]) - 1 :
          p[n][j] = [iter |-> j, node |-> l[n][Old(j, k)].node, dual |-> l[n][Old(j, k)].dual]

LEMMA CutIsOut ==
    ASSUME NEW l \in Seq(Seq(Neighbor)), NEW n \in 1 .. Len(l), NEW k \in 1 .. Len(l[n]),
           \A j \in 1 .. Len(l[n]) : l[n][j].iter = j
    PROVE  CutOut(l, [l EXCEPT ![n] = Cut(l[n], k)], n, k)
<1> DEFINE T == Seq(Neighbor)
           list == l[n]
           c == Cut(list, k)
           p == [l EXCEPT ![n] = c]
<1>1. list \in T /\ l \in Seq(T)
  BY ElementOfSeq
<1>2. c \in T /\ Len(c) = Len(list) - 1
  BY <1>1, CutFacts
<1>3. \A j \in 1 .. Len(list) - 1 :
         c[j] = [iter |-> j, node |-> list[Old(j, k)].node, dual |-> list[Old(j, k)].dual]
  <2> HIDE DEF c, list
  <2>1. k \in 1 .. Len(list) /\ \A j \in 1 .. Len(list) : list[j].iter = j
    BY DEF list
  <2> QED BY <1>1, <2>1, CutFacts DEF c
<1> HIDE DEF T, c, list
<1>4. p \in Seq(T) /\ Len(p) = Len(l)
  BY <1>1, <1>2, ExceptSeq
<1>5. \A a \in 1 .. Len(l) : p[a] = IF a = n THEN c ELSE l[a]
  BY <1>1, <1>2, ExceptSeq
<1> HIDE DEF p
<1>6. CutOut(l, p, n, k)
  BY <1>2, <1>3, <1>4, <1>5 DEF CutOut, T, list
<1> QED BY <1>6 DEF p, c, list

LEMMA FirstHalf ==
    ASSUME NEW l1 \in Seq(Seq(Neighbor)), NEW l2 \in Seq(Seq(Neighbor)),
           AllMirrored(l1, l2), AllMirrored(l2, l1), NEW n \in 1 .. Len(l1), NEW k \in 1 .. Len(l1[n])
    PROVE  CutInHalf(l1, l2, [l1 EXCEPT ![n] = Cut(l1[n], k)], Relinked(l2, l1[n], k), n, k)
<1> DEFINE p1 == [l1 EXCEPT ![n] = Cut(l1[n], k)]
           p2 == Relinked(l2, l1[n], k)
           far(b, i) == IF l2[b][i].node = n /\ l2[b][i].dual > k THEN {l2[b][i].dual} ELSE {}
<1>1. Lists(l1) /\ Lists(l2)
  BY SeqsAreLists
<1>2. \A j \in 1 .. Len(l1[n]) : l1[n][j].iter = j
  BY IterIs
<1>3. CutOut(l1, p1, n, k)
  BY <1>2, CutIsOut
<1>4. Len(l1[n]) \in Nat
  BY <1>1 DEF Lists
<1>5. ASSUME NEW b \in 1 .. Len(l2), NEW i \in 1 .. Len(l2[b])
      PROVE  /\ Behind(l1[n], k, b, i) = far(b, i)
             /\ far(b, i) = {} \/ \E x \in Nat \ {0} : far(b, i) = {x}
             /\ l2[b][i].dual \in Nat
  <2> DEFINE x == l2[b][i].dual
  <2>1. Ends(l2, l1, b, i, l2[b][i].node, x)
    BY EndsOf
  <2>2. x \in Nat \ {0}
    <3>1. l2[b][i].node \in 1 .. Len(l1) /\ x \in 1 .. Len(l1[l2[b][i].node])
      BY <2>1 DEF Ends
    <3> HIDE DEF x
    <3> QED BY ONLY <3>1
  <2>3. ASSUME NEW j \in Behind(l1[n], k, b, i) PROVE j \in far(b, i)
    <3>1. j \in 1 .. Len(l1[n]) /\ j > k /\ l1[n][j].node = b /\ l1[n][j].dual = i
      BY <1>4 DEF Behind
    <3>2. Ends(l1, l2, n, j, b, i)
      BY <3>1, EndsOf
    <3> QED BY <3>1, <3>2 DEF Ends
  <2>4. ASSUME NEW j \in far(b, i) PROVE j \in Behind(l1[n], k, b, i)
    <3>1. l2[b][i].node = n /\ x > k /\ j = x
      BY <2>4
    <3> HIDE DEF x
    <3>2. x \in 1 .. Len(l1[n]) /\ l1[n][x].node = b /\ l1[n][x].dual = i
      BY <2>1, <3>1 DEF Ends
    <3>3. x \in k + 1 .. Len(l1[n])
      BY <1>4, <3>1, <3>2
    <3> QED BY <3>1, <3>2, <3>3 DEF Behind
  <2>5. far(b, i) = {} \/ far(b, i) = {x}
    OBVIOUS
  <2> HIDE DEF far
  <2> QED BY <2>2, <2>3, <2>4, <2>5
<1>6. AtMostOne(l2, l1[n], k)
  <2> HIDE DEF far
  <2> QED BY <1>5 DEF AtMostOne
<1>7. IsRelinked(l2, l1[n], k, p2)
  BY <1>6, RelinkedFacts
<1> HIDE DEF p1, p2
<1>8. p2 \in Seq(Seq(Neighbor)) /\ Len(p2) = Len(l2) /\ \A b \in 1 .. Len(l2) : Len(p2[b]) = Len(l2[b])
  BY <1>7 DEF IsRelinked
<1>10. ASSUME NEW b \in 1 .. Len(l2), NEW i \in 1 .. Len(l2[b])
       PROVE  /\ p2[b][i].iter = i /\ p2[b][i].node = l2[b][i].node
              /\ p2[b][i].dual = DualIn(l2[b][i], n, k)
  <2>1. l2[b][i].iter = i
    BY IterIs
  <2>2. /\ p2[b][i].node = l2[b][i].node /\ p2[b][i].iter = l2[b][i].iter
        /\ Behind(l1[n], k, b, i) = {} => p2[b][i].dual = l2[b][i].dual
        /\ \A x \in Nat : Behind(l1[n], k, b, i) = {x} => p2[b][i].dual = x - 1
    BY <1>7 DEF IsRelinked
  <2> DEFINE y == l2[b][i]
  <2>3. y.dual \in Nat /\ Behind(l1[n], k, b, i) = IF y.node = n /\ y.dual > k THEN {y.dual} ELSE {}
    BY <1>5
  <2> HIDE DEF y
  <2>4. p2[b][i].dual = IF y.node = n /\ y.dual > k THEN y.dual - 1 ELSE y.dual
    BY <2>2, <2>3 DEF y
  <2>5. p2[b][i].dual = DualIn(y, n, k)
    BY <2>4 DEF DualIn, New
  <2> QED BY <2>1, <2>2, <2>5 DEF y
<1>11. CutInHalf(l1, l2, p1, p2, n, k)
  BY <1>3, <1>8, <1>10 DEF CutOut, CutInHalf
<1> QED BY <1>11 DEF p1, p2

LEMMA SecondHalf ==
    ASSUME NEW l1, NEW l2, Lists(l1), Lists(l2), AllMirrored(l1, l2), AllMirrored(l2, l1),
           NEW n, NEW k, NEW q, NEW d, Ends(l1, l2, n, k, q, d),
           NEW p1, NEW p2, CutInHalf(l1, l2, p1, p2, n, k),
           NEW r1, NEW r2, r1 = Relinked(p1, p2[q], d), r2 = [p2 EXCEPT ![q] = Cut(p2[q], d)]
    PROVE  /\ r1 \in Seq(Seq(Neighbor)) /\ r2 \in Seq(Seq(Neighbor))
           /\ Shrunk(l1, r1, n, k, q, d) /\ Shrunk(l2, r2, q, d, n, k)
<1>0. n \in 1 .. Len(l1) /\ k \in 1 .. Len(l1[n]) /\ q \in 1 .. Len(l2) /\ d \in 1 .. Len(l2[q])
  BY DEF Ends
<1>1. /\ p1 \in Seq(Seq(Neighbor)) /\ Len(p1) = Len(l1) /\ p2 \in Seq(Seq(Neighbor)) /\ Len(p2) = Len(l2)
      /\ \A b \in 1 .. Len(l2) : Len(p2[b]) = Len(l2[b])
  BY DEF CutInHalf
<1>2. \A b \in 1 .. Len(l2) : \A i \in 1 .. Len(l2[b]) :
         /\ p2[b][i].iter = i /\ p2[b][i].node = l2[b][i].node
         /\ p2[b][i].dual = DualIn(l2[b][i], n, k)
  BY DEF CutInHalf
<1>3. Len(l1[n]) \in Nat /\ Len(l2[q]) \in Nat
  BY <1>0 DEF Lists
(* How p1 looks from l1.                                                   *)
<1>4. ASSUME NEW a \in 1 .. Len(p1)
      PROVE  /\ Len(p1[a]) = IF a = n THEN Len(l1[a]) - 1 ELSE Len(l1[a])
             /\ \A i \in 1 .. Len(p1[a]) :
                   /\ p1[a][i].iter = i
                   /\ Pos(a, n, i, k) \in 1 .. Len(l1[a]) /\ i = Now(a, n, Pos(a, n, i, k), k)
                   /\ ~(a = n /\ Pos(a, n, i, k) = k)
                   /\ p1[a][i].node = l1[a][Pos(a, n, i, k)].node
                   /\ p1[a][i].dual = l1[a][Pos(a, n, i, k)].dual
  <2>1. CASE a # n
    <3>1. a \in 1 .. Len(l1) /\ p1[a] = l1[a]
      BY <1>1, <2>1 DEF CutInHalf
    <3>2. \A i \in 1 .. Len(p1[a]) : Pos(a, n, i, k) = i /\ Now(a, n, i, k) = i /\ p1[a][i].iter = i
      BY <2>1, <3>1, IterIs DEF Pos, Now
    <3>3. ASSUME NEW i \in 1 .. Len(p1[a])
          PROVE  /\ p1[a][i].iter = i
                 /\ Pos(a, n, i, k) \in 1 .. Len(l1[a]) /\ i = Now(a, n, Pos(a, n, i, k), k)
                 /\ ~(a = n /\ Pos(a, n, i, k) = k)
                 /\ p1[a][i].node = l1[a][Pos(a, n, i, k)].node
                 /\ p1[a][i].dual = l1[a][Pos(a, n, i, k)].dual
      <4>1. Pos(a, n, i, k) = i /\ Now(a, n, i, k) = i /\ p1[a][i].iter = i
        BY <3>2
      <4>2. i \in 1 .. Len(l1[a])
        BY <3>1
      <4> QED BY <2>1, <3>1, <4>1, <4>2
    <3>4. Len(p1[a]) = IF a = n THEN Len(l1[a]) - 1 ELSE Len(l1[a])
      BY <2>1, <3>1
    <3> QED BY ONLY <3>3, <3>4
  <2>2. CASE a = n
    <3>1. Len(p1[n]) = Len(l1[n]) - 1
      BY DEF CutInHalf
    <3>2. ASSUME NEW i \in 1 .. Len(l1[n]) - 1
          PROVE  /\ Pos(a, n, i, k) = Old(i, k) /\ Old(i, k) \in 1 .. Len(l1[n]) /\ Old(i, k) # k
                 /\ i = Now(a, n, Old(i, k), k)
                 /\ p1[n][i] = [iter |-> i, node |-> l1[n][Old(i, k)].node, dual |-> l1[n][Old(i, k)].dual]
      <4>1. Old(i, k) \in 1 .. Len(l1[n]) /\ Old(i, k) # k /\ New(Old(i, k), k) = i
        BY <1>0, <1>3, OldAndNew
      <4>2. p1[n][i] = [iter |-> i, node |-> l1[n][Old(i, k)].node, dual |-> l1[n][Old(i, k)].dual]
        BY DEF CutInHalf
      <4> QED BY <2>2, <4>1, <4>2 DEF Pos, Now
    <3>3. ASSUME NEW i \in 1 .. Len(p1[a])
          PROVE  /\ p1[a][i].iter = i
                 /\ Pos(a, n, i, k) \in 1 .. Len(l1[a]) /\ i = Now(a, n, Pos(a, n, i, k), k)
                 /\ ~(a = n /\ Pos(a, n, i, k) = k)
                 /\ p1[a][i].node = l1[a][Pos(a, n, i, k)].node
                 /\ p1[a][i].dual = l1[a][Pos(a, n, i, k)].dual
      <4>1. i \in 1 .. Len(l1[n]) - 1
        BY <2>2, <3>1
      <4>2. /\ Pos(a, n, i, k) = Old(i, k) /\ Old(i, k) \in 1 .. Len(l1[n]) /\ Old(i, k) # k
            /\ i = Now(a, n, Old(i, k), k)
            /\ p1[n][i] = [iter |-> i, node |-> l1[n][Old(i, k)].node, dual |-> l1[n][Old(i, k)].dual]
        BY <3>2, <4>1
      <4> QED BY <2>2, <4>2
    <3>4. Len(p1[a]) = IF a = n THEN Len(l1[a]) - 1 ELSE Len(l1[a])
      BY <2>2, <3>1
    <3> QED BY ONLY <3>3, <3>4
  <2> QED BY <2>1, <2>2
(* Who wants to change an entry of p1.                                     *)
<1>5. ASSUME NEW a \in 1 .. Len(p1), NEW i \in 1 .. Len(p1[a])
      PROVE  /\ p1[a][i].dual \in Nat \ {0}
             /\ Behind(p2[q], d, a, i) =
                IF p1[a][i].node = q /\ p1[a][i].dual > d THEN {p1[a][i].dual} ELSE {}
  <2> DEFINE j == Pos(a, n, i, k)
             x == l1[a][j].dual
             far == IF p1[a][i].node = q /\ x > d THEN {x} ELSE {}
  <2>1. /\ a \in 1 .. Len(l1) /\ j \in 1 .. Len(l1[a]) /\ i = Now(a, n, j, k) /\ ~(a = n /\ j = k)
        /\ p1[a][i].node = l1[a][j].node /\ p1[a][i].dual = x
    BY <1>1, <1>4
  <2> HIDE DEF j
  <2>2. Ends(l1, l2, a, j, l1[a][j].node, x)
    BY <2>1, EndsOf
  <2>3. x \in Nat \ {0}
    <3>1. l1[a][j].node \in 1 .. Len(l2) /\ x \in 1 .. Len(l2[l1[a][j].node])
      BY <2>2 DEF Ends
    <3>2. Len(l2[l1[a][j].node]) \in Nat
      BY <3>1 DEF Lists
    <3> HIDE DEF x
    <3> QED BY <3>1, <3>2
  <2>4. ASSUME NEW y \in Behind(p2[q], d, a, i) PROVE y \in far
    <3>1. y \in 1 .. Len(l2[q]) /\ y > d /\ p2[q][y].node = a /\ p2[q][y].dual = i
      <4>1. y \in d + 1 .. Len(p2[q]) /\ p2[q][y].node = a /\ p2[q][y].dual = i
        BY DEF Behind
      <4>2. Len(p2[q]) = Len(l2[q]) /\ d \in 1 .. Len(l2[q])
        BY <1>0, <1>1
      <4> QED BY <1>3, <4>1, <4>2
    <3>2. l2[q][y].node = a /\ i = DualIn(l2[q][y], n, k)
      BY <1>0, <1>2, <3>1
    <3> DEFINE z == l2[q][y].dual
    <3>3. Ends(l2, l1, q, y, a, z)
      BY <1>0, <3>1, <3>2, EndsOf
    <3>4. i = Now(a, n, z, k)
      BY <3>2 DEF DualIn, Now
    <3> HIDE DEF z
    <3>5. z \in 1 .. Len(l1[a]) /\ l1[a][z].node = q /\ l1[a][z].dual = y
      BY <3>3 DEF Ends
    <3>6. ~(a = n /\ z = k)
      BY <1>3, <3>1, <3>5 DEF Ends
    <3>7. z = j
      <4>1. CASE a = n
        <5>1. z # k /\ j # k /\ z \in 1 .. Len(l1[n]) /\ j \in 1 .. Len(l1[n]) /\ k \in 1 .. Len(l1[n])
          BY <1>0, <2>1, <3>5, <3>6, <4>1
        <5>2. New(z, k) = New(j, k)
          BY <2>1, <3>4, <4>1 DEF Now
        <5>3. Old(New(z, k), k) = z /\ Old(New(j, k), k) = j
          BY <1>3, <5>1, OldAndNew
        <5> QED BY <5>2, <5>3
      <4>2. CASE a # n
        BY <2>1, <3>4, <4>2 DEF Now
      <4> QED BY <4>1, <4>2
    <3> QED BY <2>1, <3>1, <3>5, <3>7
  <2>5. ASSUME NEW y \in far PROVE y \in Behind(p2[q], d, a, i)
    <3>1. y = x /\ x > d /\ l1[a][j].node = q
      BY <2>1, <2>5
    <3> HIDE DEF x
    <3>2. x \in 1 .. Len(l2[q]) /\ l2[q][x].node = a /\ l2[q][x].dual = j
      BY <2>2, <3>1 DEF Ends
    <3>3. p2[q][x].node = a /\ p2[q][x].dual = i
      <4>1. p2[q][x].node = l2[q][x].node /\ p2[q][x].dual = DualIn(l2[q][x], n, k)
        BY <1>0, <1>2, <3>2
      <4> QED BY <2>1, <3>2, <4>1 DEF DualIn, Now
    <3>4. x \in d + 1 .. Len(p2[q])
      <4>1. Len(p2[q]) = Len(l2[q]) /\ d \in 1 .. Len(l2[q])
        BY <1>0, <1>1
      <4> QED BY <1>3, <3>1, <3>2, <4>1
    <3> QED BY <3>1, <3>3, <3>4 DEF Behind
  <2> HIDE DEF far
  <2>6. Behind(p2[q], d, a, i) = far
    BY <2>4, <2>5
  <2> QED BY <2>1, <2>3, <2>6 DEF far
<1>6. AtMostOne(p1, p2[q], d)
  BY <1>5 DEF AtMostOne
<1>7. IsRelinked(p1, p2[q], d, r1)
  BY <1>1, <1>6, RelinkedFacts
<1>8. Shrunk(l1, r1, n, k, q, d)
  <2>1. Len(r1) = Len(l1)
    BY <1>1, <1>7 DEF IsRelinked
  <2>2. ASSUME NEW a \in 1 .. Len(l1)
        PROVE  Len(r1[a]) = IF a = n THEN Len(l1[a]) - 1 ELSE Len(l1[a])
    <3>1. Len(r1[a]) = Len(p1[a])
      BY <1>1, <1>7 DEF IsRelinked
    <3> QED BY <1>1, <1>4, <3>1
  <2>3. ASSUME NEW a \in 1 .. Len(l1), NEW i \in 1 .. Len(r1[a])
        PROVE  /\ r1[a][i].iter = i
               /\ r1[a][i].node = l1[a][Pos(a, n, i, k)].node
               /\ r1[a][i].dual = DualIn(l1[a][Pos(a, n, i, k)], q, d)
    <3>1. a \in 1 .. Len(p1) /\ i \in 1 .. Len(p1[a])
      BY <1>1, <1>7 DEF IsRelinked
    <3> DEFINE x == p1[a][i]
               y == l1[a][Pos(a, n, i, k)]
    <3>2. x.iter = i /\ x.node = y.node /\ x.dual = y.dual
      BY <1>4, <3>1
    <3>3. /\ r1[a][i].iter = x.iter /\ r1[a][i].node = x.node
          /\ Behind(p2[q], d, a, i) = {} => r1[a][i].dual = x.dual
          /\ \A z \in Nat : Behind(p2[q], d, a, i) = {z} => r1[a][i].dual = z - 1
      BY <1>7, <3>1 DEF IsRelinked
    <3>4. x.dual \in Nat \ {0} /\ Behind(p2[q], d, a, i) = IF x.node = q /\ x.dual > d THEN {x.dual} ELSE {}
      BY <1>5, <3>1
    <3> HIDE DEF x, y
    <3>5. r1[a][i].dual = IF x.node = q /\ x.dual > d THEN x.dual - 1 ELSE x.dual
      BY <3>3, <3>4
    <3>6. r1[a][i].dual = DualIn(y, q, d)
      BY <3>2, <3>5 DEF DualIn, New
    <3> QED BY <3>2, <3>3, <3>6 DEF y
  <2> QED BY <2>1, <2>2, <2>3 DEF Shrunk
<1>9. CutOut(p2, r2, q, d)
  <2>1. q \in 1 .. Len(p2) /\ d \in 1 .. Len(p2[q])
    BY <1>0, <1>1
  <2>2. \A j \in 1 .. Len(p2[q]) : p2[q][j].iter = j
    BY <1>0, <1>1, <1>2
  <2> QED BY <1>1, <2>1, <2>2, CutIsOut
<1>10. Shrunk(l2, r2, q, d, n, k)
  <2>1. Len(r2) = Len(l2)
    BY <1>1, <1>9 DEF CutOut
  <2>2. ASSUME NEW b \in 1 .. Len(l2), b # q
        PROVE  /\ Len(r2[b]) = Len(l2[b])
               /\ \A i \in 1 .. Len(r2[b]) :
                     /\ r2[b][i].iter = i
                     /\ r2[b][i].node = l2[b][Pos(b, q, i, d)].node
                     /\ r2[b][i].dual = DualIn(l2[b][Pos(b, q, i, d)], n, k)
    <3>1. r2[b] = p2[b]
      BY <1>1, <1>9, <2>2 DEF CutOut
    <3> QED BY <1>1, <1>2, <2>2, <3>1 DEF Pos
  <2>3. Len(r2[q]) = Len(l2[q]) - 1
    BY <1>0, <1>1, <1>9 DEF CutOut
  <2>4. ASSUME NEW i \in 1 .. Len(l2[q]) - 1
        PROVE  /\ r2[q][i].iter = i
               /\ r2[q][i].node = l2[q][Pos(q, q, i, d)].node
               /\ r2[q][i].dual = DualIn(l2[q][Pos(q, q, i, d)], n, k)
    <3>1. Pos(q, q, i, d) = Old(i, d) /\ Old(i, d) \in 1 .. Len(l2[q])
      BY <1>0, <1>3, OldAndNew DEF Pos
    <3>2. r2[q][i] = [iter |-> i, node |-> p2[q][Old(i, d)].node, dual |-> p2[q][Old(i, d)].dual]
      BY <1>0, <1>1, <1>9 DEF CutOut
    <3>3. p2[q][Old(i, d)].node = l2[q][Old(i, d)].node /\ p2[q][Old(i, d)].dual = DualIn(l2[q][Old(i, d)], n, k)
      BY <1>0, <1>2, <3>1
    <3> QED BY <3>1, <3>2, <3>3
  <2> QED BY <2>1, <2>2, <2>3, <2>4 DEF Shrunk
<1> QED BY <1>7, <1>8, <1>9, <1>10 DEF IsRelinked, CutOut

LEMMA MinFacts ==
    ASSUME NEW K, NEW L \in Nat, K \subseteq 1 .. L, K # {}
    PROVE  Min(K) \in K /\ \A x \in K : Min(K) <= x
<1>1. IsFiniteSet(K) /\ K \subseteq Int
  <2>1. IsFiniteSet(1 .. L)
    BY FS_Interval
  <2>2. IsFiniteSet(K)
    BY <2>1, FS_Subset
  <2> QED BY <2>2
<1>2. Cardinality(K) \in Nat /\ Cardinality(K) # 0
  BY <1>1, FS_CardinalityType, FS_EmptySet
<1> DEFINE N == Cardinality(K)
           a == Ascending(K)
<1>3. a \in [1 .. N -> K] /\ \A k \in K : \E n \in 1 .. N : a[n] = k
  BY <1>1, AscendingFacts
<1>4. \A i, j \in 1 .. N : i < j => a[i] < a[j]
  BY <1>1, AscendingFacts
<1> HIDE DEF a, N
<1>5. a[1] \in K /\ \A x \in K : a[1] <= x
  <2>1. N \in Nat /\ 1 \in 1 .. N
    BY <1>2 DEF N
  <2>2. ASSUME NEW x \in K PROVE a[1] <= x
    <3>1. PICK n \in 1 .. N : a[n] = x
      BY <1>3
    <3>2. n = 1 \/ 1 < n
      BY <2>1
    <3>3. a[1] \in Int
      BY <1>1, <1>3, <2>1
    <3>4. CASE n = 1
      BY <3>1, <3>3, <3>4
    <3>5. CASE 1 < n
      <4>1. a[1] < a[n]
        BY <1>4, <2>1, <3>5
      <4> QED BY <1>1, <3>1, <3>3, <4>1
    <3> QED BY <3>2, <3>4, <3>5
  <2> QED BY <1>3, <2>1, <2>2
<1>6. \E y \in K : \A x \in K : y <= x
  BY <1>5
<1> QED BY <1>6 DEF Min

LEMMA EntryOut ==
    ASSUME NEW g, NEW n, NEW k
    PROVE  WithoutEntry(g, n, k) = [nb1 |-> [g.nb1 EXCEPT ![n] = Cut(g.nb1[n], k)],
                                    nb2 |-> Relinked(g.nb2, g.nb1[n], k)]
BY DEF WithoutEntry, Cut, Relinked, Behind

(* The graph without the edge that entry k of node n and entry d of node q   *)
(* stand for.                                                              *)
EdgeTaken(g, h, n, k, q, d) ==
    /\ h \in Graph
    /\ Ends(g.nb1, g.nb2, n, k, q, d)
    /\ Shrunk(g.nb1, h.nb1, n, k, q, d)
    /\ Shrunk(g.nb2, h.nb2, q, d, n, k)

LEMMA EdgeIsTaken ==
    ASSUME NEW g, GraphInv(g), NEW n1 \in 1 .. Len(g.nb1), NEW n2 \in 1 .. Len(g.nb2)
    PROVE  WithoutEdge(g, n1, n2) = g
           \/ \E k : \E d : EdgeTaken(g, WithoutEdge(g, n1, n2), n1, k, n2, d)
<1> DEFINE l1 == g.nb1
           l2 == g.nb2
           found == PositionsOf(l1[n1], n2)
           others == PositionsOf(l2[n2], n1)
           p == WithoutHalfEdge(g, n1, n2)
           h == WithoutEdge(g, n1, n2)
<1>1. /\ l1 \in Seq(Seq(Neighbor)) /\ l2 \in Seq(Seq(Neighbor)) /\ g = [nb1 |-> l1, nb2 |-> l2]
      /\ Flip(g) \in Graph /\ Flip(Flip(g)) = g /\ Flip(g).nb1 = l2 /\ Flip(g).nb2 = l1
  BY GraphFacts DEF GraphInv
<1>2. Lists(l1) /\ Lists(l2) /\ AllMirrored(l1, l2) /\ AllMirrored(l2, l1) /\ InOrder(l2)
  BY DEF GraphInv, Paired
<1>3. found = {k \in 1 .. Len(l1[n1]) : l1[n1][k].node = n2} /\ Len(l1[n1]) \in Nat
  BY <1>2 DEF PositionsOf, Lists
<1>4. others = {k \in 1 .. Len(l2[n2]) : l2[n2][k].node = n1} /\ Len(l2[n2]) \in Nat
  BY <1>2 DEF PositionsOf, Lists
<1>5. \A y \in others : l2[n2][y].dual \in found
  <2> TAKE y \in others
  <2>1. y \in 1 .. Len(l2[n2]) /\ l2[n2][y].node = n1
    BY <1>4
  <2>2. Ends(l2, l1, n2, y, n1, l2[n2][y].dual)
    BY <1>2, <2>1, EndsOf
  <2> QED BY <1>3, <2>2 DEF Ends
<1>6. p = IF found = {} THEN g ELSE WithoutEntry(g, n1, Min(found))
  BY DEF WithoutHalfEdge
<1>7. h = Flip(WithoutHalfEdge(Flip(p), n2, n1))
  BY DEF WithoutEdge
<1> HIDE DEF found, others, p, h, l1, l2
<1>8. CASE found = {}
  <2>1. p = g /\ others = {}
    BY <1>5, <1>6, <1>8
  <2>2. WithoutHalfEdge(Flip(g), n2, n1) = Flip(g)
    <3>1. PositionsOf(Flip(g).nb1[n2], n1) = {}
      BY <1>1, <2>1 DEF others
    <3> QED BY <3>1 DEF WithoutHalfEdge
  <2> QED BY <1>1, <1>7, <2>1, <2>2 DEF h
<1>9. CASE found # {}
  <2> DEFINE k == Min(found)
             d == l1[n1][k].dual
             p1 == [l1 EXCEPT ![n1] = Cut(l1[n1], k)]
             p2 == Relinked(l2, l1[n1], k)
             r1 == Relinked(p1, p2[n2], d)
             r2 == [p2 EXCEPT ![n2] = Cut(p2[n2], d)]
  <2>1. k \in found /\ \A x \in found : k <= x
    BY <1>3, <1>9, MinFacts
  <2>2. k \in 1 .. Len(l1[n1]) /\ l1[n1][k].node = n2
    BY <1>3, <2>1
  <2> HIDE DEF k
  <2>3. Ends(l1, l2, n1, k, n2, d)
    BY <1>2, <2>2, EndsOf DEF l1
  <2>4. p = [nb1 |-> p1, nb2 |-> p2]
    <3>1. p = WithoutEntry(g, n1, k)
      BY <1>6, <1>9 DEF k
    <3> QED BY <3>1, EntryOut DEF l1, l2
  <2>5. CutInHalf(l1, l2, p1, p2, n1, k)
    BY <1>1, <1>2, <2>2, FirstHalf DEF l1
  <2> HIDE DEF d, p1, p2
  <2>6. Flip(p) = [nb1 |-> p2, nb2 |-> p1]
    BY <2>4 DEF Flip
  <2>7. PositionsOf(p2[n2], n1) = others
    <3>1. p2 \in Seq(Seq(Neighbor)) /\ n2 \in 1 .. Len(p2) /\ Len(p2[n2]) = Len(l2[n2])
      BY <2>5 DEF CutInHalf, l2
    <3>2. Lists(p2)
      BY <3>1, SeqsAreLists
    <3>3. DOMAIN p2[n2] = 1 .. Len(l2[n2])
      BY <3>1, <3>2 DEF Lists
    <3>4. \A i \in 1 .. Len(l2[n2]) : p2[n2][i].node = l2[n2][i].node
      BY <2>5 DEF CutInHalf, l2
    <3> QED BY <1>4, <3>3, <3>4 DEF PositionsOf
  <2>8. d \in others /\ \A y \in others : d <= y
    <3>1. d \in 1 .. Len(l2[n2]) /\ l2[n2][d].node = n1 /\ l2[n2][d].dual = k
      BY <2>3 DEF Ends
    <3>2. ASSUME NEW y \in others PROVE d <= y
      <4>1. y \in 1 .. Len(l2[n2]) /\ l2[n2][y].node = n1 /\ k <= l2[n2][y].dual
        BY <1>4, <1>5, <2>1
      <4>2. y < d => l2[n2][y].dual < k
        BY <1>2, <3>1, <4>1 DEF InOrder, l2
      <4>3. l2[n2][y].dual \in 1 .. Len(l1[n1])
        BY <1>3, <1>5
      <4> QED BY <1>3, <1>4, <2>2, <3>1, <4>1, <4>2, <4>3
    <3> QED BY <1>4, <3>1, <3>2
  <2>9. Min(others) = d
    <3>1. others \subseteq 1 .. Len(l2[n2]) /\ others # {}
      BY <1>4, <2>8
    <3>2. Min(others) \in others /\ \A x \in others : Min(others) <= x
      BY <1>4, <3>1, MinFacts
    <3>3. Min(others) <= d /\ d <= Min(others)
      BY <2>8, <3>2
    <3>4. Min(others) \in Nat /\ d \in Nat
      BY <1>4, <2>8, <3>2
    <3> QED BY <3>3, <3>4
  <2>10. h = [nb1 |-> r1, nb2 |-> r2]
    <3>1. WithoutHalfEdge(Flip(p), n2, n1) = WithoutEntry(Flip(p), n2, d)
      <4>1. PositionsOf(Flip(p).nb1[n2], n1) = others /\ others # {}
        BY <2>6, <2>7, <2>8
      <4> QED BY <2>9, <4>1 DEF WithoutHalfEdge
    <3>2. WithoutEntry(Flip(p), n2, d) = [nb1 |-> r2, nb2 |-> r1]
      BY <2>6, EntryOut
    <3> QED BY <1>7, <3>1, <3>2 DEF Flip
  <2> HIDE DEF r1, r2
  <2>11. r1 \in Seq(Seq(Neighbor)) /\ r2 \in Seq(Seq(Neighbor)) /\ Shrunk(l1, r1, n1, k, n2, d) /\ Shrunk(l2, r2, n2, d, n1, k)
    BY <1>2, <2>3, <2>5, SecondHalf DEF r1, r2
  <2>12. h \in Graph /\ h.nb1 = r1 /\ h.nb2 = r2
    BY <2>10, <2>11, GraphMade
  <2>13. EdgeTaken(g, h, n1, k, n2, d)
    BY <2>3, <2>11, <2>12 DEF EdgeTaken, l1, l2
  <2> QED BY <2>13 DEF h
<1> QED BY <1>8, <1>9

LEMMA EdgeErased ==
    ASSUME NEW g, GraphInv(g), NEW h, NEW n, NEW k, NEW q, NEW d, EdgeTaken(g, h, n, k, q, d)
    PROVE  GraphInv(h)
<1>1. /\ Lists(g.nb1) /\ Lists(g.nb2) /\ AllMirrored(g.nb1, g.nb2) /\ AllMirrored(g.nb2, g.nb1) /\ InOrder(g.nb1)
  BY DEF GraphInv, Paired
<1>2. /\ h \in Graph /\ Ends(g.nb1, g.nb2, n, k, q, d)
      /\ Shrunk(g.nb1, h.nb1, n, k, q, d) /\ Shrunk(g.nb2, h.nb2, q, d, n, k)
  BY DEF EdgeTaken
<1>3. Ends(g.nb2, g.nb1, q, d, n, k)
  BY <1>2 DEF Ends
<1>4. AllMirrored(h.nb1, h.nb2)
  BY <1>1, <1>2, ShrunkMirrored
<1>5. AllMirrored(h.nb2, h.nb1)
  BY <1>1, <1>2, <1>3, ShrunkMirrored
<1>6. InOrder(h.nb1)
  BY <1>1, <1>2, ShrunkInOrder
<1>7. Lists(h.nb1) /\ Lists(h.nb2)
  BY <1>2, GraphFacts
<1> QED BY <1>2, <1>4, <1>5, <1>6, <1>7, PairedBy DEF GraphInv

-----------------------------------------------------------------------------
(* The neighbours of a new node: where b is among them, and how often it has *)
(* been met at position k.                                                 *)
Places(ns, b) == {k \in DOMAIN ns : ns[k] = b}

Rank(ns, k) == Cardinality({i \in 1 .. k : ns[i] = ns[k]})

Ranked(ns, b) ==
    LET C == Cardinality(Places(ns, b))
        A == Ascending(Places(ns, b))
    IN  /\ C \in Nat /\ DOMAIN A = 1 .. C
        /\ \A i \in 1 .. C : A[i] \in 1 .. Len(ns) /\ ns[A[i]] = b /\ Rank(ns, A[i]) = i
        /\ \A i, j \in 1 .. C : i < j => A[i] < A[j]
        /\ \A k \in 1 .. Len(ns) : ns[k] = b => Rank(ns, k) \in 1 .. C /\ A[Rank(ns, k)] = k

LEMMA RankFacts ==
    ASSUME NEW M, NEW ns \in Seq(M), NEW b
    PROVE  Ranked(ns, b)
<1> DEFINE K == Places(ns, b)
           C == Cardinality(K)
           A == Ascending(K)
<1>1. Len(ns) \in Nat /\ DOMAIN ns = 1 .. Len(ns) /\ K = {k \in 1 .. Len(ns) : ns[k] = b}
  BY LenProperties DEF Places
<1>2. IsFiniteSet(K) /\ K \subseteq Int
  <2>1. IsFiniteSet(1 .. Len(ns))
    BY <1>1, FS_Interval
  <2>2. IsFiniteSet(K)
    BY <1>1, <2>1, FS_Subset
  <2> QED BY <1>1, <2>2
<1> HIDE DEF K
<1>3. C \in Nat /\ A \in [1 .. C -> K] /\ \A k \in K : \E n \in 1 .. C : A[n] = k
  BY <1>2, AscendingFacts
<1>4. \A i, j \in 1 .. C : i < j => A[i] < A[j]
  BY <1>2, AscendingFacts
<1>5. \A n \in 1 .. C : Cardinality({i \in K : i <= A[n]}) = n
  BY <1>2, AscendingRank
<1> HIDE DEF A, C
<1>6. ASSUME NEW k \in K PROVE Rank(ns, k) = Cardinality({i \in K : i <= k})
  <2>1. {i \in 1 .. k : ns[i] = ns[k]} = {i \in K : i <= k}
    BY <1>1
  <2> QED BY <2>1 DEF Rank
<1>7. ASSUME NEW i \in 1 .. C PROVE A[i] \in K /\ Rank(ns, A[i]) = i
  <2>1. A[i] \in K
    BY <1>3
  <2> QED BY <1>5, <1>6, <2>1
<1>8. ASSUME NEW k \in K PROVE Rank(ns, k) \in 1 .. C /\ A[Rank(ns, k)] = k
  <2>1. PICK n \in 1 .. C : A[n] = k
    BY <1>3
  <2>2. Rank(ns, k) = n
    BY <1>7, <2>1
  <2> QED BY <2>1, <2>2
<1>9. \A i \in 1 .. C : A[i] \in 1 .. Len(ns) /\ ns[A[i]] = b /\ Rank(ns, A[i]) = i
  BY <1>1, <1>7
<1>10. \A k \in 1 .. Len(ns) : ns[k] = b => Rank(ns, k) \in 1 .. C /\ A[Rank(ns, k)] = k
  BY <1>1, <1>8
<1>11. DOMAIN A = 1 .. C
  BY <1>3
<1> QED BY <1>3, <1>4, <1>9, <1>10, <1>11 DEF Ranked, A, C, K

(* The graph with one more node, which has the neighbours ns.               *)
LinkedMade(l1, l2, ns, m1, m2) ==
    LET new == Len(l1) + 1
    IN  /\ m1 \in Seq(Seq(Neighbor)) /\ Len(m1) = new
        /\ \A a \in 1 .. Len(l1) : m1[a] = l1[a]
        /\ Len(m1[new]) = Len(ns)
        /\ \A k \in 1 .. Len(ns) :
              m1[new][k] = [iter |-> k, node |-> ns[k], dual |-> Len(l2[ns[k]]) + Rank(ns, k)]
        /\ m2 \in Seq(Seq(Neighbor)) /\ Len(m2) = Len(l2)
        /\ \A b \in 1 .. Len(l2) :
              /\ Len(m2[b]) = Len(l2[b]) + Cardinality(Places(ns, b))
              /\ \A i \in 1 .. Len(l2[b]) : m2[b][i] = l2[b][i]
              /\ \A i \in 1 .. Cardinality(Places(ns, b)) :
                    m2[b][Len(l2[b]) + i] =
                        [iter |-> Len(l2[b]) + i, node |-> new, dual |-> Ascending(Places(ns, b))[i]]

LEMMA LinkedMirrored ==
    ASSUME NEW l1, NEW l2, NEW m1, NEW m2, Lists(l1), Lists(l2), Lists(m1), Lists(m2),
           AllMirrored(l1, l2), AllMirrored(l2, l1),
           NEW ns \in Seq(1 .. Len(l2)), LinkedMade(l1, l2, ns, m1, m2)
    PROVE  AllMirrored(m1, m2) /\ AllMirrored(m2, m1)
<1> DEFINE new == Len(l1) + 1
<1>1. /\ Len(m1) = new /\ Len(m1[new]) = Len(ns) /\ Len(m2) = Len(l2)
      /\ \A a \in 1 .. Len(l1) : m1[a] = l1[a]
  BY DEF LinkedMade
<1>2. \A k \in 1 .. Len(ns) :
         m1[new][k] = [iter |-> k, node |-> ns[k], dual |-> Len(l2[ns[k]]) + Rank(ns, k)]
  BY DEF LinkedMade
<1>3. \A b \in 1 .. Len(l2) :
         /\ Len(m2[b]) = Len(l2[b]) + Cardinality(Places(ns, b))
         /\ \A i \in 1 .. Len(l2[b]) : m2[b][i] = l2[b][i]
  BY DEF LinkedMade
<1>4. ASSUME NEW b \in 1 .. Len(l2), NEW i \in 1 .. Cardinality(Places(ns, b))
      PROVE  m2[b][Len(l2[b]) + i] =
                 [iter |-> Len(l2[b]) + i, node |-> new, dual |-> Ascending(Places(ns, b))[i]]
  BY DEF LinkedMade
<1>5. Len(l1) \in Nat /\ Len(l2) \in Nat /\ \A b \in 1 .. Len(l2) : Len(l2[b]) \in Nat
  BY DEF Lists
<1>6. \A b : Ranked(ns, b)
  BY RankFacts
<1>7. \A k \in 1 .. Len(ns) : ns[k] \in 1 .. Len(l2)
  BY ElementOfSeq
<1>8. Extends(m1, l1)
  BY <1>1, <1>5 DEF Extends, Lists
<1>9. Extends(m2, l2)
  <2>1. \A b \in 1 .. Len(l2) : Len(l2[b]) <= Len(m2[b])
    <3> TAKE b \in 1 .. Len(l2)
    <3>1. Ranked(ns, b)
      BY <1>6
    <3>2. Cardinality(Places(ns, b)) \in Nat
      BY <3>1 DEF Ranked
    <3> QED BY <1>3, <1>5, <3>2
  <2> QED BY <1>1, <1>3, <1>5, <2>1 DEF Extends
<1>10. ASSUME NEW k \in 1 .. Len(ns) PROVE Mirrored(m1, m2, new, k)
  <2> DEFINE b == ns[k]
             r == Rank(ns, k)
             C == Cardinality(Places(ns, b))
             A == Ascending(Places(ns, b))
  <2>1. b \in 1 .. Len(l2)
    BY <1>7
  <2>2. Ranked(ns, b)
    BY <1>6
  <2>3. r \in 1 .. C /\ A[r] = k /\ C \in Nat
    BY <2>2 DEF Ranked
  <2>4. m1[new][k] = [iter |-> k, node |-> b, dual |-> Len(l2[b]) + r]
    BY <1>2
  <2> HIDE DEF b, new, r
  <2>5. m2[b][Len(l2[b]) + r] = [iter |-> Len(l2[b]) + r, node |-> new, dual |-> k]
    BY <1>4, <2>1, <2>3
  <2>6. Len(l2[b]) + r \in 1 .. Len(m2[b])
    <3>1. Len(l2[b]) \in Nat /\ Len(m2[b]) = Len(l2[b]) + C
      BY <1>3, <1>5, <2>1
    <3> HIDE DEF C
    <3> QED BY <2>3, <3>1
  <2> QED BY <1>1, <2>1, <2>4, <2>5, <2>6 DEF Mirrored
<1>11. ASSUME NEW b \in 1 .. Len(l2), NEW i \in 1 .. Cardinality(Places(ns, b))
       PROVE  Mirrored(m2, m1, b, Len(l2[b]) + i)
  <2> DEFINE x == Ascending(Places(ns, b))[i]
  <2>1. Ranked(ns, b)
    BY <1>6
  <2>2. x \in 1 .. Len(ns) /\ ns[x] = b /\ Rank(ns, x) = i
    BY <2>1 DEF Ranked
  <2>3. m2[b][Len(l2[b]) + i] = [iter |-> Len(l2[b]) + i, node |-> new, dual |-> x]
    BY <1>4
  <2> HIDE DEF x
  <2>4. m1[new][x] = [iter |-> x, node |-> b, dual |-> Len(l2[b]) + i]
    BY <1>2, <2>2
  <2>5. new \in 1 .. Len(m1)
    BY <1>1, <1>5
  <2> HIDE DEF new
  <2> QED BY <1>1, <2>2, <2>3, <2>4, <2>5 DEF Mirrored
<1>12. ASSUME NEW a \in 1 .. Len(m1), NEW k \in 1 .. Len(m1[a]), ~IsOld(l1, a, k) PROVE Mirrored(m1, m2, a, k)
  <2>1. a = new
    BY <1>1, <1>5, <1>12 DEF IsOld
  <2> QED BY <1>1, <1>10, <2>1
<1>13. ASSUME NEW b \in 1 .. Len(m2), NEW i \in 1 .. Len(m2[b]), ~IsOld(l2, b, i) PROVE Mirrored(m2, m1, b, i)
  <2>1. b \in 1 .. Len(l2)
    BY <1>1
  <2> DEFINE L == Len(l2[b])
             C == Cardinality(Places(ns, b))
  <2>2. L \in Nat /\ Len(m2[b]) = L + C /\ ~(i \in 1 .. L)
    BY <1>3, <1>5, <1>13, <2>1 DEF IsOld
  <2>3. Ranked(ns, b)
    BY <1>6
  <2>4. C \in Nat
    BY <2>3 DEF Ranked
  <2> HIDE DEF C, L
  <2>5. i - L \in 1 .. C /\ i = L + (i - L)
    BY <2>2, <2>4
  <2> QED BY <1>11, <2>1, <2>5 DEF C, L
<1>14. AllMirrored(m1, m2)
  BY <1>8, <1>9, <1>12, OldStayMirrored
<1>15. AllMirrored(m2, m1)
  BY <1>8, <1>9, <1>13, OldStayMirrored
<1> QED BY <1>14, <1>15

LEMMA LinkedInOrder ==
    ASSUME NEW l1, NEW l2, NEW m1, NEW m2, Lists(l1), Lists(l2), AllMirrored(l2, l1), InOrder(l2),
           NEW ns \in Seq(1 .. Len(l2)), LinkedMade(l1, l2, ns, m1, m2)
    PROVE  InOrder(m2)
<1> SUFFICES ASSUME NEW b \in 1 .. Len(m2), NEW i \in 1 .. Len(m2[b]), NEW k \in 1 .. Len(m2[b]),
                    i < k, m2[b][i].node = m2[b][k].node
             PROVE  m2[b][i].dual < m2[b][k].dual
  BY DEF InOrder
<1> DEFINE new == Len(l1) + 1
           L == Len(l2[b])
           C == Cardinality(Places(ns, b))
           A == Ascending(Places(ns, b))
<1>1. b \in 1 .. Len(l2) /\ Len(l1) \in Nat /\ L \in Nat
  BY DEF LinkedMade, Lists
<1>2. /\ Len(m2[b]) = L + C
      /\ \A j \in 1 .. L : m2[b][j] = l2[b][j]
      /\ \A j \in 1 .. C : m2[b][L + j] = [iter |-> L + j, node |-> new, dual |-> A[j]]
  BY <1>1 DEF LinkedMade
<1>3. Ranked(ns, b)
  BY RankFacts
<1>4. C \in Nat /\ \A j, l \in 1 .. C : j < l => A[j] < A[l]
  BY <1>3 DEF Ranked
<1>5. \A j \in 1 .. L : m2[b][j].node \in 1 .. Len(l1)
  <2> TAKE j \in 1 .. L
  <2>1. Mirrored(l2, l1, b, j)
    BY <1>1, MirrorOf
  <2> QED BY <1>2, <2>1 DEF Mirrored
<1>6. CASE i \in 1 .. L /\ k \in 1 .. L
  <2>1. m2[b][i] = l2[b][i] /\ m2[b][k] = l2[b][k]
    BY <1>2, <1>6
  <2> QED BY <1>1, <1>6, <2>1 DEF InOrder
<1> HIDE DEF L, C, A
<1>7. CASE i \in 1 .. L /\ k \notin 1 .. L
  <2>1. k - L \in 1 .. C /\ k = L + (k - L)
    BY <1>1, <1>2, <1>4, <1>7
  <2>2. m2[b][k].node = new
    <3> DEFINE j == k - L
    <3>1. j \in 1 .. C /\ k = L + j
      BY <2>1
    <3> HIDE DEF j
    <3>2. m2[b][L + j] = [iter |-> L + j, node |-> new, dual |-> A[j]]
      BY <1>2, <3>1, Zenon
    <3> HIDE DEF new
    <3> QED BY <3>1, <3>2
  <2>3. m2[b][i].node \in 1 .. Len(l1)
    BY <1>5, <1>7
  <2> QED BY <1>1, <2>2, <2>3
<1>8. CASE i \notin 1 .. L
  <2>1. i - L \in 1 .. C /\ i = L + (i - L) /\ k - L \in 1 .. C /\ k = L + (k - L) /\ i - L < k - L
    BY <1>1, <1>2, <1>4, <1>8
  <2>2. \A j \in 1 .. C : m2[b][L + j].dual = A[j]
    <3> TAKE j \in 1 .. C
    <3>1. m2[b][L + j] = [iter |-> L + j, node |-> new, dual |-> A[j]]
      BY <1>2, Zenon
    <3> QED BY <3>1
  <2>3. m2[b][i].dual = A[i - L] /\ m2[b][k].dual = A[k - L]
    <3> DEFINE x == i - L
               y == k - L
    <3>1. x \in 1 .. C /\ y \in 1 .. C /\ i = L + x /\ k = L + y
      BY <2>1
    <3> HIDE DEF x, y
    <3>2. m2[b][i].dual = A[x] /\ m2[b][k].dual = A[y]
      BY <2>2, <3>1
    <3> QED BY <3>2 DEF x, y
  <2> QED BY <1>4, <2>1, <2>3
<1> QED BY <1>6, <1>7, <1>8

LEMMA LinkedIsMade ==
    ASSUME NEW g, g \in Graph, NEW ns \in Seq(1 .. Len(g.nb2))
    PROVE  LET h == WithLinkedNode1(g, ns)
           IN  h \in Graph /\ LinkedMade(g.nb1, g.nb2, ns, h.nb1, h.nb2)
<1> DEFINE l1 == g.nb1
           l2 == g.nb2
           new == Len(l1) + 1
           N == Len(ns)
           s == [k \in 1 .. N |-> [iter |-> k, node |-> ns[k], dual |-> Len(l2[ns[k]]) + Rank(ns, k)]]
           C(b) == Cardinality(Places(ns, b))
           A(b) == Ascending(Places(ns, b))
           t(b) == [i \in 1 .. C(b) |->
                      [iter |-> Len(l2[ns[A(b)[i]]]) + Rank(ns, A(b)[i]), node |-> new, dual |-> A(b)[i]]]
           m1 == Append(l1, s)
           m2 == [b \in 1 .. Len(l2) |-> l2[b] \o t(b)]
           h == WithLinkedNode1(g, ns)
<1>1. /\ l1 \in Seq(Seq(Neighbor)) /\ l2 \in Seq(Seq(Neighbor)) /\ DOMAIN l2 = 1 .. Len(l2)
      /\ Len(l1) \in Nat /\ Len(l2) \in Nat /\ \A b \in 1 .. Len(l2) : Len(l2[b]) \in Nat /\ l2[b] \in Seq(Neighbor)
  <2>1. Lists(l1) /\ Lists(l2) /\ l1 \in Seq(Seq(Neighbor)) /\ l2 \in Seq(Seq(Neighbor))
    BY GraphFacts
  <2> QED BY <2>1, ElementOfSeq DEF Lists
<1>2. N \in Nat /\ DOMAIN ns = 1 .. N /\ \A k \in 1 .. N : ns[k] \in 1 .. Len(l2)
  BY LenProperties, ElementOfSeq
<1>3. \A b : Ranked(ns, b)
  BY RankFacts
<1>4. \A b : C(b) \in Nat /\ DOMAIN A(b) = 1 .. C(b)
  BY <1>3 DEF Ranked
<1>5. ASSUME NEW b, NEW i \in 1 .. C(b) PROVE A(b)[i] \in 1 .. N /\ ns[A(b)[i]] = b /\ Rank(ns, A(b)[i]) = i
  <2>1. Ranked(ns, b)
    BY <1>3
  <2> QED BY <2>1 DEF Ranked
<1>6. \A k \in 1 .. N : Rank(ns, k) \in Nat
  <2> TAKE k \in 1 .. N
  <2>1. Ranked(ns, ns[k])
    BY <1>3
  <2>2. Rank(ns, k) \in 1 .. C(ns[k]) /\ C(ns[k]) \in Nat
    BY <2>1 DEF Ranked
  <2> QED BY <2>2
<1>7. h = [nb1 |-> Append(l1, Fixed(s)), nb2 |-> Fixed([b \in DOMAIN l2 |-> l2[b] \o t(b)])]
  <2>1. \A b : [i \in DOMAIN A(b) |->
            [iter |-> Len(l2[ns[A(b)[i]]]) + Rank(ns, A(b)[i]), node |-> new, dual |-> A(b)[i]]] = t(b)
    BY <1>4
  <2>2. h = [nb1 |-> Append(l1, Fixed([k \in DOMAIN ns |->
                       [iter |-> k, node |-> ns[k], dual |-> Len(l2[ns[k]]) + Rank(ns, k)]])),
             nb2 |-> Fixed([b \in DOMAIN l2 |-> l2[b] \o [i \in DOMAIN A(b) |->
                       [iter |-> Len(l2[ns[A(b)[i]]]) + Rank(ns, A(b)[i]), node |-> new, dual |-> A(b)[i]]]])]
    BY DEF WithLinkedNode1, Places, Rank
  <2> HIDE DEF t, A, new
  <2> QED BY <1>2, <2>1, <2>2
<1> HIDE DEF A, C, h
<1>8. s \in Seq(Neighbor) /\ Len(s) = N
  <2>1. \A k \in 1 .. N : s[k] \in Neighbor
    <3> TAKE k \in 1 .. N
    <3>1. ns[k] \in 1 .. Len(l2) /\ Rank(ns, k) \in Nat
      BY <1>2, <1>6
    <3>2. Len(l2[ns[k]]) \in Nat
      BY <1>1, <3>1
    <3>3. ns[k] \in Nat /\ k \in Nat
      BY <1>1, <1>2, <3>1
    <3>4. Len(l2[ns[k]]) + Rank(ns, k) \in Nat
      <4> DEFINE x == Len(l2[ns[k]])
                 y == Rank(ns, k)
      <4>1. x \in Nat /\ y \in Nat
        BY <3>1, <3>2
      <4> HIDE DEF x, y
      <4>2. x + y \in Nat
        BY <4>1
      <4> QED BY <4>2 DEF x, y
    <3> QED BY <3>3, <3>4 DEF Neighbor
  <2>2. s = [k \in 1 .. N |-> s[k]]
    OBVIOUS
  <2> HIDE DEF s, N
  <2> QED BY <1>2, <2>1, <2>2, MakesSeq
<1>9. ASSUME NEW b \in 1 .. Len(l2)
      PROVE  /\ t(b) \in Seq(Neighbor) /\ Len(t(b)) = C(b)
             /\ \A i \in 1 .. C(b) : t(b)[i] = [iter |-> Len(l2[b]) + i, node |-> new, dual |-> A(b)[i]]
  <2>1. \A i \in 1 .. C(b) : t(b)[i] = [iter |-> Len(l2[b]) + i, node |-> new, dual |-> A(b)[i]]
    BY <1>5
  <2>2. \A i \in 1 .. C(b) : t(b)[i] \in Neighbor
    <3> TAKE i \in 1 .. C(b)
    <3> DEFINE x == A(b)[i]
               y == Len(l2[b])
    <3>1. x \in 1 .. N /\ y \in Nat /\ new \in Nat /\ C(b) \in Nat
      <4>1. x \in 1 .. N
        BY <1>5
      <4>2. y \in Nat /\ C(b) \in Nat
        BY <1>1, <1>4
      <4>3. new \in Nat
        BY <1>1
      <4> QED BY <4>1, <4>2, <4>3
    <3>2. t(b)[i] = [iter |-> y + i, node |-> new, dual |-> x]
      BY <2>1
    <3> HIDE DEF t, new, x, y
    <3>3. x \in Nat /\ y + i \in Nat
      BY <1>2, <3>1
    <3> QED BY <3>1, <3>2, <3>3 DEF Neighbor
  <2>3. t(b) = [i \in 1 .. C(b) |-> t(b)[i]] /\ C(b) \in Nat
    BY <1>4
  <2> DEFINE u == t(b)
             c == C(b)
  <2>4. c \in Nat /\ u = [i \in 1 .. c |-> u[i]] /\ \A i \in 1 .. c : u[i] \in Neighbor
    BY <2>2, <2>3
  <2> HIDE DEF u, c
  <2>5. u \in Seq(Neighbor) /\ Len(u) = c
    BY <2>4, MakesSeq
  <2> QED BY <2>1, <2>5 DEF u, c
<1> HIDE DEF t
<1>10. ASSUME NEW b \in 1 .. Len(l2)
       PROVE  /\ m2[b] \in Seq(Neighbor) /\ Len(m2[b]) = Len(l2[b]) + C(b)
              /\ \A i \in 1 .. Len(l2[b]) : m2[b][i] = l2[b][i]
              /\ \A i \in 1 .. C(b) : m2[b][Len(l2[b]) + i] = t(b)[i]
  <2> DEFINE u == l2[b]
             v == t(b)
             c == C(b)
  <2>1. m2[b] = u \o v
    OBVIOUS
  <2>2. u \in Seq(Neighbor) /\ v \in Seq(Neighbor) /\ Len(u) \in Nat /\ Len(v) = c /\ c \in Nat
    BY <1>1, <1>4, <1>9
  <2> HIDE DEF u, v, c, m2
  <2>3. u \o v \in Seq(Neighbor) /\ Len(u \o v) = Len(u) + c
    BY <2>2, ConcatProperties
  <2>4. \A i \in 1 .. Len(u) + c : (u \o v)[i] = IF i <= Len(u) THEN u[i] ELSE v[i - Len(u)]
    BY <2>2, ConcatProperties
  <2>5. \A i \in 1 .. Len(u) : (u \o v)[i] = u[i]
    BY <2>2, <2>4
  <2>6. ASSUME NEW i \in 1 .. c PROVE (u \o v)[Len(u) + i] = v[i]
    <3> DEFINE j == Len(u) + i
    <3>1. j \in 1 .. Len(u) + c /\ ~(j <= Len(u)) /\ j - Len(u) = i
      BY <2>2
    <3> HIDE DEF j
    <3>2. (u \o v)[j] = v[i]
      BY <2>4, <3>1
    <3> QED BY <3>2 DEF j
  <2> QED BY <2>1, <2>3, <2>5, <2>6 DEF u, v, c
<1>11. m2 \in Seq(Seq(Neighbor)) /\ Len(m2) = Len(l2)
  <2>1. m2 = [b \in 1 .. Len(l2) |-> m2[b]]
    OBVIOUS
  <2> HIDE DEF m2
  <2> QED BY <1>1, <1>10, <2>1, MakesSeq
<1>12. h = [nb1 |-> m1, nb2 |-> m2]
  <2>1. Fixed(s) = s
    BY <1>8, FixedIsSame
  <2>2. [b \in DOMAIN l2 |-> l2[b] \o t(b)] = m2
    BY <1>1
  <2>3. Fixed(m2) = m2
    <3> HIDE DEF m2
    <3> QED BY <1>11, FixedIsSame
  <2> HIDE DEF s
  <2> QED BY <1>7, <2>1, <2>2, <2>3
<1>13. \A k \in 1 .. N : s[k] = [iter |-> k, node |-> ns[k], dual |-> Len(l2[ns[k]]) + Rank(ns, k)]
  OBVIOUS
<1> HIDE DEF s
<1>14. WithList(l1, s, m1)
  BY <1>1, <1>8, NodeExtends
<1> HIDE DEF m1, m2
<1>15. h \in Graph /\ h.nb1 = m1 /\ h.nb2 = m2
  <2>1. m1 \in Seq(Seq(Neighbor))
    BY <1>14 DEF WithList
  <2> QED BY <1>11, <1>12, <2>1, GraphMade
<1>16. LinkedMade(l1, l2, ns, m1, m2)
  <2>1. /\ m1 \in Seq(Seq(Neighbor)) /\ Len(m1) = new /\ m1[new] = s
        /\ \A a \in 1 .. Len(l1) : m1[a] = l1[a]
    BY <1>14 DEF WithList
  <2>2. /\ m2 \in Seq(Seq(Neighbor)) /\ Len(m2) = Len(l2)
    BY <1>11
  <2>3. \A b \in 1 .. Len(l2) :
              /\ Len(m2[b]) = Len(l2[b]) + C(b)
              /\ \A i \in 1 .. Len(l2[b]) : m2[b][i] = l2[b][i]
              /\ \A i \in 1 .. C(b) :
                    m2[b][Len(l2[b]) + i] = [iter |-> Len(l2[b]) + i, node |-> new, dual |-> A(b)[i]]
    <3> HIDE DEF new
    <3> QED BY <1>9, <1>10
  <2> QED BY <1>8, <1>13, <2>1, <2>2, <2>3 DEF LinkedMade, A, C
<1> QED BY <1>15, <1>16 DEF h

LEMMA LinkedNodeAdded ==
    ASSUME NEW g, GraphInv(g), NEW ns \in Seq(1 .. Len(g.nb2)),
           NEW h, h \in Graph, LinkedMade(g.nb1, g.nb2, ns, h.nb1, h.nb2)
    PROVE  GraphInv(h)
<1>1. /\ Lists(g.nb1) /\ Lists(g.nb2) /\ AllMirrored(g.nb1, g.nb2) /\ AllMirrored(g.nb2, g.nb1) /\ InOrder(g.nb2)
  BY DEF GraphInv, Paired
<1>2. Lists(h.nb1) /\ Lists(h.nb2)
  BY GraphFacts
<1>3. AllMirrored(h.nb1, h.nb2) /\ AllMirrored(h.nb2, h.nb1)
  BY <1>1, <1>2, LinkedMirrored
<1>4. InOrder(h.nb2)
  BY <1>1, LinkedInOrder
<1> QED BY <1>2, <1>3, <1>4, PairedBy DEF GraphInv

-----------------------------------------------------------------------------
(* What of a list stays when node n goes, and where.                        *)
Kept(list, n) == {k \in DOMAIN list : list[k].node # n}

KeptRank(list, k, n) == Cardinality({i \in 1 .. k : list[i].node # n})

KeptInOrder(list, n) ==
    LET C == Cardinality(Kept(list, n))
        A == Ascending(Kept(list, n))
    IN  /\ C \in Nat /\ DOMAIN A = 1 .. C
        /\ \A i \in 1 .. C : A[i] \in 1 .. Len(list) /\ list[A[i]].node # n /\ KeptRank(list, A[i], n) = i
        /\ \A i, j \in 1 .. C : i < j => A[i] < A[j]
        /\ \A k \in 1 .. Len(list) : list[k].node # n =>
              KeptRank(list, k, n) \in 1 .. C /\ A[KeptRank(list, k, n)] = k

LEMMA KeptFacts ==
    ASSUME NEW list, Len(list) \in Nat, DOMAIN list = 1 .. Len(list), NEW n
    PROVE  KeptInOrder(list, n)
<1> DEFINE N == Len(list)
           K == Kept(list, n)
           C == Cardinality(K)
           A == Ascending(K)
<1>1. K = {k \in 1 .. N : list[k].node # n} /\ N \in Nat
  BY DEF Kept
<1> HIDE DEF N
<1>2. IsFiniteSet(K) /\ K \subseteq Int
  <2>1. IsFiniteSet(1 .. N)
    BY <1>1, FS_Interval
  <2>2. IsFiniteSet(K)
    BY <1>1, <2>1, FS_Subset
  <2> QED BY <1>1, <2>2
<1> HIDE DEF K
<1>3. C \in Nat /\ A \in [1 .. C -> K] /\ \A k \in K : \E i \in 1 .. C : A[i] = k
  BY <1>2, AscendingFacts
<1>4. \A i, j \in 1 .. C : i < j => A[i] < A[j]
  BY <1>2, AscendingFacts
<1>5. \A i \in 1 .. C : Cardinality({k \in K : k <= A[i]}) = i
  BY <1>2, AscendingRank
<1> HIDE DEF A, C
<1>6. ASSUME NEW k \in K PROVE KeptRank(list, k, n) = Cardinality({i \in K : i <= k})
  <2>1. {i \in 1 .. k : list[i].node # n} = {i \in K : i <= k}
    BY <1>1
  <2> QED BY <2>1 DEF KeptRank
<1>7. ASSUME NEW i \in 1 .. C PROVE A[i] \in K /\ KeptRank(list, A[i], n) = i
  <2>1. A[i] \in K
    BY <1>3
  <2> QED BY <1>5, <1>6, <2>1
<1>8. ASSUME NEW k \in K PROVE KeptRank(list, k, n) \in 1 .. C /\ A[KeptRank(list, k, n)] = k
  <2>1. PICK i \in 1 .. C : A[i] = k
    BY <1>3
  <2>2. KeptRank(list, k, n) = i
    BY <1>7, <2>1
  <2> QED BY <2>1, <2>2
<1>9. \A i \in 1 .. C : A[i] \in 1 .. N /\ list[A[i]].node # n /\ KeptRank(list, A[i], n) = i
  BY <1>1, <1>7
<1>10. \A k \in 1 .. N : list[k].node # n => KeptRank(list, k, n) \in 1 .. C /\ A[KeptRank(list, k, n)] = k
  BY <1>1, <1>8
<1>11. DOMAIN A = 1 .. C
  BY <1>3
<1> QED BY <1>3, <1>4, <1>9, <1>10, <1>11 DEF KeptInOrder, A, C, K, N

(* The graph without node n.                                               *)
NodeTaken(l1, l2, n, m1, m2) ==
    /\ m1 \in Seq(Seq(Neighbor)) /\ Len(m1) = Len(l1) - 1
    /\ \A a \in 1 .. Len(l1) - 1 :
          /\ Len(m1[a]) = Len(l1[Old(a, n)])
          /\ \A j \in 1 .. Len(l1[Old(a, n)]) :
                LET x == l1[Old(a, n)][j]
                IN  m1[a][j] = [iter |-> j, node |-> x.node, dual |-> KeptRank(l2[x.node], x.dual, n)]
    /\ m2 \in Seq(Seq(Neighbor)) /\ Len(m2) = Len(l2)
    /\ \A b \in 1 .. Len(l2) :
          /\ Len(m2[b]) = Cardinality(Kept(l2[b], n))
          /\ \A i \in 1 .. Cardinality(Kept(l2[b], n)) :
                LET y == l2[b][Ascending(Kept(l2[b], n))[i]]
                IN  m2[b][i] = [iter |-> i, node |-> New(y.node, n), dual |-> y.dual]

LEMMA TakenMirrored ==
    ASSUME NEW l1, NEW l2, NEW m1, NEW m2, Lists(l1), Lists(l2), AllMirrored(l1, l2), AllMirrored(l2, l1),
           NEW n \in 1 .. Len(l1), NodeTaken(l1, l2, n, m1, m2)
    PROVE  AllMirrored(m1, m2) /\ AllMirrored(m2, m1)
<1> DEFINE K(b) == Kept(l2[b], n)
           C(b) == Cardinality(K(b))
           A(b) == Ascending(K(b))
           R(b, k) == KeptRank(l2[b], k, n)
<1>1. Len(m1) = Len(l1) - 1 /\ Len(m2) = Len(l2) /\ Len(l1) \in Nat
  BY DEF NodeTaken, Lists
<1>2. ASSUME NEW a \in 1 .. Len(l1) - 1
      PROVE  /\ Len(m1[a]) = Len(l1[Old(a, n)])
             /\ \A j \in 1 .. Len(l1[Old(a, n)]) :
                   m1[a][j] = [iter |-> j, node |-> l1[Old(a, n)][j].node,
                               dual |-> R(l1[Old(a, n)][j].node, l1[Old(a, n)][j].dual)]
  BY DEF NodeTaken
<1>3. ASSUME NEW b \in 1 .. Len(l2)
      PROVE  /\ Len(m2[b]) = C(b)
             /\ \A i \in 1 .. C(b) :
                   m2[b][i] = [iter |-> i, node |-> New(l2[b][A(b)[i]].node, n), dual |-> l2[b][A(b)[i]].dual]
  BY DEF NodeTaken
<1>4. ASSUME NEW b \in 1 .. Len(l2)
      PROVE  /\ C(b) \in Nat
             /\ \A i \in 1 .. C(b) : A(b)[i] \in 1 .. Len(l2[b]) /\ l2[b][A(b)[i]].node # n /\ R(b, A(b)[i]) = i
             /\ \A k \in 1 .. Len(l2[b]) : l2[b][k].node # n => R(b, k) \in 1 .. C(b) /\ A(b)[R(b, k)] = k
  <2>1. KeptInOrder(l2[b], n)
    BY KeptFacts DEF Lists
  <2> QED BY <2>1 DEF KeptInOrder
<1> HIDE DEF K, C, A, R
<1>5. \A a \in 1 .. Len(l1) - 1 : Old(a, n) \in 1 .. Len(l1) /\ Old(a, n) # n /\ New(Old(a, n), n) = a
  BY <1>1, OldAndNew
<1>6. \A c \in 1 .. Len(l1) : c # n => New(c, n) \in 1 .. Len(l1) - 1 /\ Old(New(c, n), n) = c
  BY <1>1, OldAndNew
<1>7. ASSUME NEW a \in 1 .. Len(m1), NEW j \in 1 .. Len(m1[a]) PROVE Mirrored(m1, m2, a, j)
  <2> DEFINE c == Old(a, n)
             b == l1[c][j].node
             e == l1[c][j].dual
             f == R(b, e)
  <2>1. c \in 1 .. Len(l1) /\ c # n /\ New(c, n) = a
    BY <1>1, <1>5
  <2>2. j \in 1 .. Len(l1[c]) /\ m1[a][j] = [iter |-> j, node |-> b, dual |-> f]
    BY <1>1, <1>2
  <2> HIDE DEF c
  <2>3. Ends(l1, l2, c, j, b, e)
    BY <2>1, <2>2, EndsOf
  <2> HIDE DEF b, e
  <2>4. b \in 1 .. Len(l2) /\ e \in 1 .. Len(l2[b]) /\ l2[b][e].node = c /\ l2[b][e].dual = j
    BY <2>3 DEF Ends
  <2>5. f \in 1 .. C(b) /\ A(b)[f] = e
    BY <1>4, <2>1, <2>4
  <2> HIDE DEF f
  <2>6. f \in 1 .. Len(m2[b]) /\ m2[b][f] = [iter |-> f, node |-> a, dual |-> j]
    BY <1>3, <2>1, <2>4, <2>5
  <2>7. m1[a][j].iter = j /\ m1[a][j].node = b /\ m1[a][j].dual = f
    BY <2>2
  <2>8. b \in 1 .. Len(m2) /\ m2[b][f].node = a /\ m2[b][f].dual = j
    BY <1>1, <2>4, <2>6
  <2> QED BY <2>6, <2>7, <2>8 DEF Mirrored
<1>8. ASSUME NEW b \in 1 .. Len(m2), NEW i \in 1 .. Len(m2[b]) PROVE Mirrored(m2, m1, b, i)
  <2> DEFINE k == A(b)[i]
             c == l2[b][k].node
             e == l2[b][k].dual
             a == New(c, n)
  <2>1. b \in 1 .. Len(l2) /\ i \in 1 .. C(b)
    BY <1>1, <1>3
  <2>2. k \in 1 .. Len(l2[b]) /\ c # n /\ R(b, k) = i
    BY <1>4, <2>1
  <2>3. m2[b][i] = [iter |-> i, node |-> a, dual |-> e]
    BY <1>3, <2>1
  <2> HIDE DEF k
  <2>4. Ends(l2, l1, b, k, c, e)
    BY <2>1, <2>2, EndsOf
  <2> HIDE DEF c, e
  <2>5. c \in 1 .. Len(l1) /\ e \in 1 .. Len(l1[c]) /\ l1[c][e].node = b /\ l1[c][e].dual = k
    BY <2>4 DEF Ends
  <2>6. a \in 1 .. Len(l1) - 1 /\ Old(a, n) = c
    BY <1>6, <2>2, <2>5
  <2> HIDE DEF a
  <2>7. e \in 1 .. Len(m1[a]) /\ m1[a][e] = [iter |-> e, node |-> b, dual |-> i]
    BY <1>2, <2>2, <2>5, <2>6
  <2>8. m2[b][i].iter = i /\ m2[b][i].node = a /\ m2[b][i].dual = e
    BY <2>3
  <2>9. a \in 1 .. Len(m1) /\ m1[a][e].node = b /\ m1[a][e].dual = i
    BY <1>1, <2>6, <2>7
  <2> QED BY <2>7, <2>8, <2>9 DEF Mirrored
<1> QED BY <1>7, <1>8 DEF AllMirrored

LEMMA TakenInOrder ==
    ASSUME NEW l1, NEW l2, NEW m1, NEW m2, Lists(l1), Lists(l2), AllMirrored(l2, l1), InOrder(l2),
           NEW n \in 1 .. Len(l1), NodeTaken(l1, l2, n, m1, m2)
    PROVE  InOrder(m2)
<1> SUFFICES ASSUME NEW b \in 1 .. Len(m2), NEW i \in 1 .. Len(m2[b]), NEW k \in 1 .. Len(m2[b]),
                    i < k, m2[b][i].node = m2[b][k].node
             PROVE  m2[b][i].dual < m2[b][k].dual
  BY DEF InOrder
<1> DEFINE C == Cardinality(Kept(l2[b], n))
           A == Ascending(Kept(l2[b], n))
           c == l2[b][A[i]].node
           d == l2[b][A[k]].node
<1>1. b \in 1 .. Len(l2) /\ Len(l1) \in Nat
  BY DEF NodeTaken, Lists
<1>2. Len(m2[b]) = C
  BY <1>1 DEF NodeTaken
<1>3. KeptInOrder(l2[b], n)
  BY <1>1, KeptFacts DEF Lists
<1>4. /\ A[i] \in 1 .. Len(l2[b]) /\ A[k] \in 1 .. Len(l2[b]) /\ A[i] < A[k] /\ c # n /\ d # n
  BY <1>2, <1>3 DEF KeptInOrder
<1>5. /\ m2[b][i] = [iter |-> i, node |-> New(c, n), dual |-> l2[b][A[i]].dual]
      /\ m2[b][k] = [iter |-> k, node |-> New(d, n), dual |-> l2[b][A[k]].dual]
  BY <1>1, <1>2 DEF NodeTaken
<1> HIDE DEF C, A
<1>6. c \in 1 .. Len(l1) /\ d \in 1 .. Len(l1)
  <2>1. Mirrored(l2, l1, b, A[i]) /\ Mirrored(l2, l1, b, A[k])
    BY <1>1, <1>4, MirrorOf
  <2> QED BY <2>1 DEF Mirrored
<1> HIDE DEF c, d
<1>7. New(c, n) = New(d, n)
  BY <1>5
<1>8. c = d
  <2>1. Old(New(c, n), n) = c /\ Old(New(d, n), n) = d
    BY <1>1, <1>4, <1>6, OldAndNew
  <2> QED BY <1>7, <2>1
<1>9. l2[b][A[i]].dual < l2[b][A[k]].dual
  <2> DEFINE x == A[i]
             y == A[k]
  <2>1. x \in 1 .. Len(l2[b]) /\ y \in 1 .. Len(l2[b]) /\ x < y /\ l2[b][x].node = l2[b][y].node
    BY <1>4, <1>8 DEF c, d
  <2> HIDE DEF x, y
  <2>2. l2[b][x].dual < l2[b][y].dual
    BY <1>1, <2>1 DEF InOrder
  <2> QED BY <2>2 DEF x, y
<1> QED BY <1>5, <1>9

(* The entries that eraseNode1 finds to be dual to an entry: there is one.   *)
Partners(l, n1, j) ==
    {p \in UNION {{n2} \X DOMAIN l[n2] : n2 \in DOMAIN l} :
        l[p[1]][p[2]].node = n1 /\ l[p[1]][p[2]].dual = j}

LEMMA OnePartner ==
    ASSUME NEW l1, NEW l2, Lists(l1), Lists(l2), AllMirrored(l1, l2), AllMirrored(l2, l1),
           NEW a \in 1 .. Len(l1), NEW j \in 1 .. Len(l1[a])
    PROVE  Partners(l2, a, j) = {<<l1[a][j].node, l1[a][j].dual>>}
<1> DEFINE b == l1[a][j].node
           e == l1[a][j].dual
<1>1. Ends(l1, l2, a, j, b, e)
  BY EndsOf
<1> HIDE DEF b, e
<1>2. b \in 1 .. Len(l2) /\ e \in 1 .. Len(l2[b]) /\ l2[b][e].node = a /\ l2[b][e].dual = j
  BY <1>1 DEF Ends
<1>3. DOMAIN l2 = 1 .. Len(l2) /\ \A c \in 1 .. Len(l2) : DOMAIN l2[c] = 1 .. Len(l2[c])
  BY DEF Lists
<1>4. <<b, e>> \in Partners(l2, a, j)
  <2>1. b \in DOMAIN l2 /\ e \in DOMAIN l2[b]
    BY <1>2, <1>3
  <2>2. <<b, e>> \in {b} \X DOMAIN l2[b]
    BY <2>1
  <2>3. <<b, e>> \in UNION {{n2} \X DOMAIN l2[n2] : n2 \in DOMAIN l2}
    BY <2>1, <2>2
  <2> QED BY <1>2, <2>3 DEF Partners
<1>5. ASSUME NEW p \in Partners(l2, a, j) PROVE p = <<b, e>>
  <2>1. p \in UNION {{n2} \X DOMAIN l2[n2] : n2 \in DOMAIN l2} /\ l2[p[1]][p[2]].node = a /\ l2[p[1]][p[2]].dual = j
    BY DEF Partners
  <2>2. PICK c \in DOMAIN l2 : p \in {c} \X DOMAIN l2[c]
    BY <2>1
  <2>3. PICK f \in DOMAIN l2[c] : p = <<c, f>>
    BY <2>2
  <2>4. c \in 1 .. Len(l2) /\ f \in 1 .. Len(l2[c]) /\ l2[c][f].node = a /\ l2[c][f].dual = j
    BY <1>3, <2>1, <2>3
  <2>5. Ends(l2, l1, c, f, a, j)
    BY <2>4, EndsOf
  <2>6. l1[a][j].node = c /\ l1[a][j].dual = f
    BY <2>5 DEF Ends
  <2> QED BY <2>3, <2>6 DEF b, e
<1>6. Partners(l2, a, j) = {<<b, e>>}
  BY <1>4, <1>5
<1> QED BY <1>6 DEF b, e

LEMMA MovedFacts ==
    ASSUME NEW m \in Neighbor, NEW k \in Nat, NEW n \in Nat
    PROVE  /\ MovedUp(m, k, n) = [iter |-> k, node |-> New(m.node, n), dual |-> m.dual]
           /\ MovedUp(m, k, n) \in Neighbor
<1>1. m = [iter |-> m.iter, node |-> m.node, dual |-> m.dual] /\ m.node \in Nat /\ m.dual \in Nat
  BY DEF Neighbor
<1>2. MovedUp(m, k, n) = [m EXCEPT !.iter = k, !.node = New(m.node, n)]
  BY DEF MovedUp, New
<1>3. New(m.node, n) \in Nat
  BY <1>1 DEF New
<1> DEFINE x == New(m.node, n)
<1> HIDE DEF x
<1>4. MovedUp(m, k, n) = [iter |-> k, node |-> x, dual |-> m.dual]
  BY <1>1, <1>2 DEF x
<1>5. MovedUp(m, k, n) \in Neighbor
  BY <1>1, <1>3, <1>4 DEF Neighbor, x
<1> QED BY <1>4, <1>5 DEF x

(* A list of the other side without the entries for node n.                 *)
Rest(list, n) ==
    [k \in DOMAIN AtPositions(list, Kept(list, n)) |-> MovedUp(AtPositions(list, Kept(list, n))[k], k, n)]

LEMMA RestFacts ==
    ASSUME NEW list \in Seq(Neighbor), NEW n \in Nat
    PROVE  /\ Rest(list, n) \in Seq(Neighbor) /\ Len(Rest(list, n)) = Cardinality(Kept(list, n))
           /\ \A i \in 1 .. Cardinality(Kept(list, n)) :
                 LET y == list[Ascending(Kept(list, n))[i]]
                 IN  Rest(list, n)[i] = [iter |-> i, node |-> New(y.node, n), dual |-> y.dual]
<1> DEFINE K == Kept(list, n)
           C == Cardinality(K)
           s == AtPositions(list, K)
           u == Rest(list, n)
<1>1. K \subseteq DOMAIN list /\ DOMAIN list = 1 .. Len(list)
  BY LenProperties DEF Kept
<1> HIDE DEF K
<1>2. C \in Nat /\ DOMAIN s = 1 .. C
  BY <1>1, PositionsFacts
<1>3. \A i \in 1 .. C : s[i] = list[Ascending(K)[i]]
  BY <1>1, PositionsFacts
<1>4. Ascending(K) \in [1 .. C -> K]
  BY <1>1, PositionsFacts
<1>5. \A i \in 1 .. C : s[i] \in Neighbor
  <2> TAKE i \in 1 .. C
  <2>1. Ascending(K)[i] \in 1 .. Len(list)
    BY <1>1, <1>4
  <2> HIDE DEF s, C
  <2> QED BY <1>3, <2>1, ElementOfSeq
<1>6. u = [k \in 1 .. C |-> MovedUp(s[k], k, n)]
  BY <1>2 DEF Rest, K
<1> HIDE DEF s, C, u
<1>7. ASSUME NEW i \in 1 .. C
      PROVE  u[i] = [iter |-> i, node |-> New(s[i].node, n), dual |-> s[i].dual] /\ u[i] \in Neighbor
  <2>1. s[i] \in Neighbor /\ i \in Nat /\ u[i] = MovedUp(s[i], i, n)
    BY <1>2, <1>5, <1>6
  <2> QED BY <2>1, MovedFacts
<1>8. u = [k \in 1 .. C |-> u[k]]
  BY <1>6
<1>9. u \in Seq(Neighbor) /\ Len(u) = C
  BY <1>2, <1>7, <1>8, MakesSeq
<1> QED BY <1>3, <1>7, <1>9 DEF u, C, K

(* A list of the side of node n with the new duals.                         *)
Redirected(l1, l2, a, n) ==
    [j \in DOMAIN l1[a] |->
        IF a = n \/ Partners(l2, a, j) = {} THEN l1[a][j]
        ELSE [l1[a][j] EXCEPT !.dual = LET p == CHOOSE p \in Partners(l2, a, j) : TRUE
                                       IN  KeptRank(l2[p[1]], p[2], n)]]

LEMMA RedirectedFacts ==
    ASSUME NEW l1, NEW l2, Lists(l1), Lists(l2), AllMirrored(l1, l2), AllMirrored(l2, l1),
           NEW n \in 1 .. Len(l1), NEW a \in 1 .. Len(l1)
    PROVE  /\ Redirected(l1, l2, a, n) \in Seq(Neighbor) /\ Len(Redirected(l1, l2, a, n)) = Len(l1[a])
           /\ a # n => \A j \in 1 .. Len(l1[a]) :
                 LET x == l1[a][j]
                 IN  Redirected(l1, l2, a, n)[j] =
                        [iter |-> j, node |-> x.node, dual |-> KeptRank(l2[x.node], x.dual, n)]
<1> DEFINE u == Redirected(l1, l2, a, n)
           N == Len(l1[a])
<1>1. N \in Nat /\ DOMAIN l1[a] = 1 .. N /\ \A j \in 1 .. N : l1[a][j] \in Neighbor
  BY DEF Lists
<1>2. u = [j \in 1 .. N |-> u[j]]
  BY <1>1 DEF Redirected
<1>3. ASSUME NEW j \in 1 .. N
      PROVE  /\ u[j] \in Neighbor
             /\ a # n => u[j] = [iter |-> j, node |-> l1[a][j].node,
                                 dual |-> KeptRank(l2[l1[a][j].node], l1[a][j].dual, n)]
  <2> DEFINE x == l1[a][j]
             b == x.node
             e == x.dual
             P == Partners(l2, a, j)
             r == KeptRank(l2[b], e, n)
  <2>1. x = [iter |-> x.iter, node |-> b, dual |-> e] /\ x \in Neighbor /\ b \in Nat /\ e \in Nat
    BY <1>1 DEF Neighbor
  <2>2. x.iter = j
    BY IterIs
  <2>3. P = {<<b, e>>}
    BY OnePartner
  <2>4. u[j] = IF a = n \/ P = {} THEN x
               ELSE [x EXCEPT !.dual = LET p == CHOOSE p \in P : TRUE IN KeptRank(l2[p[1]], p[2], n)]
    BY <1>1 DEF Redirected
  <2>5. Ends(l1, l2, a, j, b, e)
    BY EndsOf
  <2>6. b \in 1 .. Len(l2) /\ e \in 1 .. Len(l2[b]) /\ l2[b][e].node = a
    BY <2>5 DEF Ends
  <2> HIDE DEF u, P, x
  <2>7. CASE a = n
    BY <2>1, <2>4, <2>7
  <2>8. CASE a # n
    <3>1. KeptInOrder(l2[b], n)
      BY <2>6, KeptFacts DEF Lists
    <3>2. r \in 1 .. Cardinality(Kept(l2[b], n))
      BY <2>6, <2>8, <3>1 DEF KeptInOrder
    <3> DEFINE p == CHOOSE p \in P : TRUE
    <3>3. P # {} /\ p = <<b, e>>
      BY <2>3
    <3>8. u[j] = [x EXCEPT !.dual = KeptRank(l2[p[1]], p[2], n)]
      BY <2>4, <2>8, <3>3
    <3> HIDE DEF p
    <3>9. p[1] = b /\ p[2] = e
      BY <3>3
    <3>4. u[j] = [x EXCEPT !.dual = r]
      BY <3>8, <3>9
    <3> HIDE DEF b, e, r
    <3>5. u[j] = [iter |-> j, node |-> b, dual |-> r]
      BY <2>1, <2>2, <3>4
    <3>6. r \in Nat /\ j \in Nat
      BY <3>2
    <3>7. u[j] \in Neighbor
      BY <2>1, <3>5, <3>6 DEF Neighbor
    <3> QED BY <3>5, <3>7 DEF b, e, r, x
  <2> QED BY <2>7, <2>8
<1> HIDE DEF u, N
<1>4. u \in Seq(Neighbor) /\ Len(u) = N
  BY <1>1, <1>2, <1>3, MakesSeq
<1> QED BY <1>3, <1>4 DEF u, N

LEMMA NodeIsTaken ==
    ASSUME NEW g, GraphInv(g), NEW n \in 1 .. Len(g.nb1)
    PROVE  LET h == WithoutNode1(g, n) IN h \in Graph /\ NodeTaken(g.nb1, g.nb2, n, h.nb1, h.nb2)
<1> DEFINE l1 == g.nb1
           l2 == g.nb2
           T == Seq(Neighbor)
           r == [a \in 1 .. Len(l1) |-> Redirected(l1, l2, a, n)]
           m1 == RemoveAt(r, n)
           m2 == [b \in 1 .. Len(l2) |-> Rest(l2[b], n)]
           h == WithoutNode1(g, n)
<1>1. /\ l1 \in Seq(Seq(Neighbor)) /\ l2 \in Seq(Seq(Neighbor)) /\ Lists(l1) /\ Lists(l2)
      /\ AllMirrored(l1, l2) /\ AllMirrored(l2, l1)
  BY GraphFacts DEF GraphInv, Paired
<1>2. /\ Len(l1) \in Nat /\ DOMAIN l1 = 1 .. Len(l1) /\ Len(l2) \in Nat /\ DOMAIN l2 = 1 .. Len(l2) /\ n \in Nat
      /\ \A b \in 1 .. Len(l2) : l2[b] \in T
  BY <1>1, ElementOfSeq DEF Lists
<1>3. h = [nb1 |-> RemoveAt(Fixed([a \in DOMAIN l1 |-> Fixed(Redirected(l1, l2, a, n))]), n),
           nb2 |-> Fixed([b \in DOMAIN l2 |-> Fixed(Rest(l2[b], n))])]
  BY DEF WithoutNode1, Redirected, Rest, Partners, Kept, KeptRank
<1> HIDE DEF h, T, l1, l2
<1>4. ASSUME NEW a \in 1 .. Len(l1)
      PROVE  /\ Redirected(l1, l2, a, n) \in T /\ Len(Redirected(l1, l2, a, n)) = Len(l1[a])
             /\ a # n => \A j \in 1 .. Len(l1[a]) :
                   Redirected(l1, l2, a, n)[j] =
                      [iter |-> j, node |-> l1[a][j].node, dual |-> KeptRank(l2[l1[a][j].node], l1[a][j].dual, n)]
  BY <1>1, RedirectedFacts DEF T, l1
<1>5. ASSUME NEW b \in 1 .. Len(l2)
      PROVE  /\ Rest(l2[b], n) \in T /\ Len(Rest(l2[b], n)) = Cardinality(Kept(l2[b], n))
             /\ \A i \in 1 .. Cardinality(Kept(l2[b], n)) :
                   Rest(l2[b], n)[i] = [iter |-> i, node |-> New(l2[b][Ascending(Kept(l2[b], n))[i]].node, n),
                                        dual |-> l2[b][Ascending(Kept(l2[b], n))[i]].dual]
  <2>1. l2[b] \in Seq(Neighbor)
    BY <1>2 DEF T
  <2> QED BY <1>2, <2>1, RestFacts DEF T
<1>6. r \in Seq(T) /\ Len(r) = Len(l1)
  <2>1. \A a \in 1 .. Len(l1) : r[a] \in T
    BY <1>4
  <2>2. r = [a \in 1 .. Len(l1) |-> r[a]]
    OBVIOUS
  <2> HIDE DEF r
  <2> QED BY <1>2, <2>1, <2>2, MakesSeq
<1>7. m2 \in Seq(T) /\ Len(m2) = Len(l2)
  <2>1. \A b \in 1 .. Len(l2) : m2[b] \in T
    BY <1>5
  <2>2. m2 = [b \in 1 .. Len(l2) |-> m2[b]]
    OBVIOUS
  <2> HIDE DEF m2
  <2> QED BY <1>2, <2>1, <2>2, MakesSeq
<1>8. h = [nb1 |-> m1, nb2 |-> m2]
  <2>1. [a \in DOMAIN l1 |-> Fixed(Redirected(l1, l2, a, n))] = r
    <3>1. \A a \in 1 .. Len(l1) : Fixed(Redirected(l1, l2, a, n)) = Redirected(l1, l2, a, n)
      BY <1>4, FixedIsSame DEF T
    <3> QED BY <1>2, <3>1
  <2>2. [b \in DOMAIN l2 |-> Fixed(Rest(l2[b], n))] = m2
    <3>1. \A b \in 1 .. Len(l2) : Fixed(Rest(l2[b], n)) = Rest(l2[b], n)
      BY <1>5, FixedIsSame DEF T
    <3> QED BY <1>2, <3>1
  <2>3. Fixed(r) = r
    <3> HIDE DEF r
    <3> QED BY <1>6, FixedIsSame
  <2>4. Fixed(m2) = m2
    <3> HIDE DEF m2
    <3> QED BY <1>7, FixedIsSame
  <2> QED BY <1>3, <2>1, <2>2, <2>3, <2>4
<1>9. m1 \in Seq(T) /\ Len(m1) = Len(l1) - 1 /\ \A a \in 1 .. Len(l1) - 1 : m1[a] = r[Old(a, n)]
  <2>1. n \in 1 .. Len(r)
    BY <1>6 DEF l1
  <2> HIDE DEF r
  <2>2. m1 \in Seq(T) /\ Len(m1) = Len(r) - 1
    BY <1>6, <2>1, RemoveAtProperties
  <2>3. \A a \in 1 .. n - 1 : m1[a] = r[a]
    BY <1>6, <2>1, RemoveAtProperties
  <2>4. \A a \in n .. Len(r) - 1 : m1[a] = r[a + 1]
    BY <1>6, <2>1, RemoveAtProperties
  <2>5. \A a \in 1 .. Len(l1) - 1 : m1[a] = r[Old(a, n)]
    <3> TAKE a \in 1 .. Len(l1) - 1
    <3>1. CASE a < n
      <4>1. a \in 1 .. n - 1 /\ Old(a, n) = a
        BY <1>2, <3>1 DEF Old
      <4> QED BY <2>3, <4>1
    <3>2. CASE ~(a < n)
      <4>1. a \in n .. Len(r) - 1 /\ Old(a, n) = a + 1
        BY <1>2, <1>6, <3>2 DEF Old
      <4> QED BY <2>4, <4>1
    <3> QED BY <3>1, <3>2
  <2> QED BY <1>6, <2>2, <2>5
<1>10. ASSUME NEW a \in 1 .. Len(l1) - 1
       PROVE  /\ Len(m1[a]) = Len(l1[Old(a, n)])
              /\ \A j \in 1 .. Len(l1[Old(a, n)]) :
                    m1[a][j] = [iter |-> j, node |-> l1[Old(a, n)][j].node,
                                dual |-> KeptRank(l2[l1[Old(a, n)][j].node], l1[Old(a, n)][j].dual, n)]
  <2>1. Old(a, n) \in 1 .. Len(l1) /\ Old(a, n) # n
    BY <1>2, OldAndNew DEF l1
  <2>2. m1[a] = Redirected(l1, l2, Old(a, n), n)
    BY <1>9, <2>1
  <2> HIDE DEF m1
  <2> QED BY <1>4, <2>1, <2>2
<1>11. \A b \in 1 .. Len(l2) : m2[b] = Rest(l2[b], n)
  OBVIOUS
<1> HIDE DEF m1, m2
<1>12. NodeTaken(l1, l2, n, m1, m2)
  <2>1. \A b \in 1 .. Len(l2) :
          /\ Len(m2[b]) = Cardinality(Kept(l2[b], n))
          /\ \A i \in 1 .. Cardinality(Kept(l2[b], n)) :
                m2[b][i] = [iter |-> i, node |-> New(l2[b][Ascending(Kept(l2[b], n))[i]].node, n),
                            dual |-> l2[b][Ascending(Kept(l2[b], n))[i]].dual]
    BY <1>5, <1>11
  <2> QED BY <1>7, <1>9, <1>10, <2>1 DEF NodeTaken, T
<1>13. h \in Graph /\ h.nb1 = m1 /\ h.nb2 = m2
  BY <1>7, <1>8, <1>9, GraphMade DEF T
<1> QED BY <1>12, <1>13 DEF h, l1, l2

LEMMA NodeErased ==
    ASSUME NEW g, GraphInv(g), NEW n \in 1 .. Len(g.nb1),
           NEW h, h \in Graph, NodeTaken(g.nb1, g.nb2, n, h.nb1, h.nb2)
    PROVE  GraphInv(h)
<1>1. /\ Lists(g.nb1) /\ Lists(g.nb2) /\ AllMirrored(g.nb1, g.nb2) /\ AllMirrored(g.nb2, g.nb1) /\ InOrder(g.nb2)
  BY DEF GraphInv, Paired
<1>2. Lists(h.nb1) /\ Lists(h.nb2)
  BY GraphFacts
<1>3. AllMirrored(h.nb1, h.nb2) /\ AllMirrored(h.nb2, h.nb1)
  BY <1>1, TakenMirrored
<1>4. InOrder(h.nb2)
  BY <1>1, TakenInOrder
<1> QED BY <1>2, <1>3, <1>4, PairedBy DEF GraphInv

-----------------------------------------------------------------------------
LEMMA NodesAre ==
    ASSUME NEW g, g \in Graph
    PROVE  DOMAIN g.nb1 = 1 .. Len(g.nb1) /\ DOMAIN g.nb2 = 1 .. Len(g.nb2)
<1>1. Lists(g.nb1) /\ Lists(g.nb2)
  BY GraphFacts
<1> QED BY <1>1 DEF Lists

LEMMA UnlinkedFacts ==
    ASSUME NEW nr1 \in Nat, NEW nr2 \in Nat
    PROVE  LET g == Unlinked(nr1, nr2)
           IN  /\ GraphInv(g) /\ Len(g.nb1) = nr1 /\ Len(g.nb2) = nr2
               /\ \A n \in 1 .. nr1 : Len(g.nb1[n]) = 0
<1> DEFINE none == << >>
           l1 == [n \in 1 .. nr1 |-> none]
           l2 == [n \in 1 .. nr2 |-> none]
           g == Unlinked(nr1, nr2)
<1>1. g = [nb1 |-> l1, nb2 |-> l2]
  BY DEF Unlinked
<1>2. none \in Seq(Neighbor) /\ Len(none) = 0
  OBVIOUS
<1>3. \A n \in 1 .. nr1 : l1[n] = none
  OBVIOUS
<1>4. \A n \in 1 .. nr2 : l2[n] = none
  OBVIOUS
<1>5. l1 = [n \in 1 .. nr1 |-> l1[n]] /\ l2 = [n \in 1 .. nr2 |-> l2[n]]
  OBVIOUS
<1> HIDE DEF none, l1, l2, g
<1> DEFINE T == Seq(Neighbor)
<1>12. none \in T
  BY <1>2
<1> HIDE DEF T
<1>6. l1 \in Seq(Seq(Neighbor)) /\ Len(l1) = nr1
  <2>1. l1 \in Seq(T) /\ Len(l1) = nr1
    BY <1>3, <1>5, <1>12, MakesSeq
  <2> QED BY <2>1 DEF T
<1>7. l2 \in Seq(Seq(Neighbor)) /\ Len(l2) = nr2
  <2>1. l2 \in Seq(T) /\ Len(l2) = nr2
    BY <1>4, <1>5, <1>12, MakesSeq
  <2> QED BY <2>1 DEF T
<1>8. g \in Graph /\ g.nb1 = l1 /\ g.nb2 = l2
  BY <1>1, <1>6, <1>7, GraphMade
<1>9. Lists(l1) /\ Lists(l2)
  BY <1>6, <1>7, SeqsAreLists
<1>10. AllMirrored(l1, l2) /\ AllMirrored(l2, l1) /\ InOrder(l1)
  BY <1>2, <1>3, <1>4, <1>6, <1>7 DEF AllMirrored, InOrder
<1>11. GraphInv(g)
  BY <1>8, <1>9, <1>10, PairedBy DEF GraphInv
<1> QED BY <1>2, <1>3, <1>6, <1>7, <1>8, <1>11 DEF g

LEMMA NeighborsAreSeq ==
    ASSUME NEW M, NEW bound, NEW ns \in BoundedSeq(M, bound)
    PROVE  ns \in Seq(M)
<1>1. PICK m \in 0 .. bound : ns \in [1 .. m -> M]
  BY DEF BoundedSeq, SeqOf
<1>2. m \in Nat
  OBVIOUS
<1> QED BY <1>1, <1>2, SeqDef

(* What one operation of the graph does, g being the graph before and h the  *)
(* one after it.                                                           *)
NodeAdds(g, h) == h = WithNode1(g)

LinkedAdds(g, h) ==
    \E ns \in Seq(1 .. Len(g.nb2)) : h \in Graph /\ LinkedMade(g.nb1, g.nb2, ns, h.nb1, h.nb2)

NodeErases(g, h, n) ==
    n \in 1 .. Len(g.nb1) /\ h \in Graph /\ NodeTaken(g.nb1, g.nb2, n, h.nb1, h.nb2)

EdgeAdds(g, h, n1, n2) ==
    n1 \in 1 .. Len(g.nb1) /\ n2 \in 1 .. Len(g.nb2) /\ EdgeMade(g, n1, n2, h)

EdgeErases(g, h, n1, n2) ==
    n1 \in 1 .. Len(g.nb1) /\ n2 \in 1 .. Len(g.nb2) /\ \E k : \E d : EdgeTaken(g, h, n1, k, n2, d)

GraphChanges(g, h) ==
  /\ h \in Graph
  /\ \/ h = g
     \/ NodeAdds(g, h) \/ NodeAdds(Flip(g), Flip(h))
     \/ LinkedAdds(g, h) \/ LinkedAdds(Flip(g), Flip(h))
     \/ \E n : NodeErases(g, h, n)
     \/ \E n : NodeErases(Flip(g), Flip(h), n)
     \/ \E n1 : \E n2 : EdgeAdds(g, h, n1, n2)
     \/ \E n1 : \E n2 : EdgeErases(g, h, n1, n2)

LEMMA LinkingIsOne ==
    ASSUME NEW g, g \in Graph, NEW bound, NEW ns \in BoundedSeq(DOMAIN g.nb2, bound)
    PROVE  LinkedAdds(g, WithLinkedNode1(g, ns)) /\ WithLinkedNode1(g, ns) \in Graph
<1>1. ns \in Seq(1 .. Len(g.nb2))
  BY NodesAre, NeighborsAreSeq
<1> DEFINE h == WithLinkedNode1(g, ns)
<1>2. h \in Graph /\ LinkedMade(g.nb1, g.nb2, ns, h.nb1, h.nb2)
  BY <1>1, LinkedIsMade
<1> HIDE DEF h
<1>3. LinkedAdds(g, h)
  BY <1>1, <1>2 DEF LinkedAdds
<1> QED BY <1>2, <1>3 DEF h

LEMMA ErasingIsOne ==
    ASSUME NEW g, GraphInv(g), NEW n \in 1 .. Len(g.nb1)
    PROVE  NodeErases(g, WithoutNode1(g, n), n) /\ WithoutNode1(g, n) \in Graph
<1> DEFINE h == WithoutNode1(g, n)
<1>1. h \in Graph /\ NodeTaken(g.nb1, g.nb2, n, h.nb1, h.nb2)
  BY NodeIsTaken
<1> HIDE DEF h
<1>2. NodeErases(g, h, n)
  BY <1>1 DEF NodeErases
<1> QED BY <1>1, <1>2 DEF h

LEMMA AddingIsOne ==
    ASSUME NEW g, GraphInv(g)
    PROVE  NodeAdds(g, WithNode1(g)) /\ WithNode1(g) \in Graph
BY NodeAdded DEF NodeAdds, GraphInv

(* Every step is one of them.                                              *)
LEMMA StepChanges ==
    ASSUME GraphInv(graph), GraphNext
    PROVE  GraphChanges(graph, graph')
<1>1. graph \in Graph /\ Flip(graph) \in Graph /\ GraphInv(Flip(graph))
  BY GraphFacts, FlippedInv DEF GraphInv
<1>2. DOMAIN graph.nb1 = 1 .. Len(graph.nb1) /\ DOMAIN graph.nb2 = 1 .. Len(graph.nb2)
  BY <1>1, NodesAre
<1>3. Flip(graph).nb1 = graph.nb2 /\ Flip(graph).nb2 = graph.nb1
  BY <1>1, GraphFacts
<1>4. CASE AddNode1
  <2>1. graph' = WithNode1(graph)
    BY <1>4 DEF AddNode1
  <2>2. NodeAdds(graph, graph') /\ graph' \in Graph
    BY <2>1, AddingIsOne
  <2> QED BY <2>2 DEF GraphChanges
<1>5. CASE AddNode2
  <2> DEFINE h == WithNode1(Flip(graph))
  <2>1. graph' = Flip(h)
    BY <1>5 DEF AddNode2, WithNode2
  <2>2. NodeAdds(Flip(graph), h) /\ h \in Graph
    BY <1>1, AddingIsOne
  <2> HIDE DEF h
  <2>3. Flip(graph') = h /\ graph' \in Graph
    BY <2>1, <2>2, GraphFacts
  <2> QED BY <2>2, <2>3 DEF GraphChanges
<1>6. CASE AddLinkedNode1
  <2>1. PICK ns \in BoundedSeq(DOMAIN graph.nb2, MaxEdges - NrEdges(graph)) : graph' = WithLinkedNode1(graph, ns)
    BY <1>6 DEF AddLinkedNode1
  <2>2. LinkedAdds(graph, WithLinkedNode1(graph, ns)) /\ WithLinkedNode1(graph, ns) \in Graph
    BY <1>1, LinkingIsOne
  <2> QED BY <2>1, <2>2 DEF GraphChanges
<1>7. CASE AddLinkedNode2
  <2>1. PICK ns \in BoundedSeq(DOMAIN graph.nb1, MaxEdges - NrEdges(graph)) : graph' = WithLinkedNode2(graph, ns)
    BY <1>7 DEF AddLinkedNode2
  <2> DEFINE h == WithLinkedNode1(Flip(graph), ns)
  <2>2. graph' = Flip(h)
    BY <2>1 DEF WithLinkedNode2
  <2>3. LinkedAdds(Flip(graph), h) /\ h \in Graph
    BY <1>1, <1>3, LinkingIsOne
  <2> HIDE DEF h
  <2>4. Flip(graph') = h /\ graph' \in Graph
    BY <2>2, <2>3, GraphFacts
  <2> QED BY <2>3, <2>4 DEF GraphChanges
<1>8. ASSUME NEW n1 \in DOMAIN graph.nb1, EraseNode1(n1) PROVE GraphChanges(graph, graph')
  <2>1. graph' = WithoutNode1(graph, n1)
    BY <1>8 DEF EraseNode1
  <2>2. NodeErases(graph, WithoutNode1(graph, n1), n1) /\ WithoutNode1(graph, n1) \in Graph
    BY <1>2, ErasingIsOne
  <2> QED BY <2>1, <2>2 DEF GraphChanges
<1>9. ASSUME NEW n2 \in DOMAIN graph.nb2, EraseNode2(n2) PROVE GraphChanges(graph, graph')
  <2> DEFINE h == WithoutNode1(Flip(graph), n2)
  <2>1. graph' = Flip(h)
    BY <1>9 DEF EraseNode2, WithoutNode2
  <2>2. NodeErases(Flip(graph), h, n2) /\ h \in Graph
    BY <1>1, <1>2, <1>3, ErasingIsOne
  <2> HIDE DEF h
  <2>3. Flip(graph') = h /\ graph' \in Graph
    BY <2>1, <2>2, GraphFacts
  <2> QED BY <2>2, <2>3 DEF GraphChanges
<1>10. ASSUME NEW n1 \in DOMAIN graph.nb1, NEW n2 \in DOMAIN graph.nb2, EraseEdge(n1, n2)
       PROVE  GraphChanges(graph, graph')
  <2>1. graph' = WithoutEdge(graph, n1, n2)
    BY <1>10 DEF EraseEdge
  <2>2. n1 \in 1 .. Len(graph.nb1) /\ n2 \in 1 .. Len(graph.nb2)
    BY <1>2
  <2>3. graph' = graph \/ \E k : \E d : EdgeTaken(graph, graph', n1, k, n2, d)
    BY <2>1, <2>2, EdgeIsTaken
  <2>4. graph' = graph \/ EdgeErases(graph, graph', n1, n2)
    BY <2>2, <2>3 DEF EdgeErases
  <2>5. graph' \in Graph
    BY <1>1, <2>3 DEF EdgeTaken
  <2> QED BY <2>4, <2>5 DEF GraphChanges
<1>11. ASSUME NEW n1 \in DOMAIN graph.nb1, NEW n2 \in DOMAIN graph.nb2, NEW check \in BOOLEAN,
              AddEdge(n1, n2, check)
       PROVE  GraphChanges(graph, graph')
  <2>1. graph' = WithEdge(graph, n1, n2, check)
    BY <1>11 DEF AddEdge
  <2>2. n1 \in 1 .. Len(graph.nb1) /\ n2 \in 1 .. Len(graph.nb2)
    BY <1>2
  <2>3. graph' = graph \/ EdgeMade(graph, n1, n2, graph')
    BY <1>1, <2>1, <2>2, EdgeIsMade
  <2>4. graph' = graph \/ EdgeAdds(graph, graph', n1, n2)
    BY <2>2, <2>3 DEF EdgeAdds
  <2>5. graph' \in Graph
    BY <1>1, <2>3 DEF EdgeMade
  <2> QED BY <2>4, <2>5 DEF GraphChanges
<1> QED BY <1>4, <1>5, <1>6, <1>7, <1>8, <1>9, <1>10, <1>11 DEF GraphNext

LEMMA ChangesKeepInv ==
    ASSUME NEW g, GraphInv(g), NEW h, GraphChanges(g, h)
    PROVE  GraphInv(h)
<1>1. GraphInv(Flip(g))
  BY FlippedInv
<1>2. ASSUME NEW f, NEW k, GraphInv(f), NodeAdds(f, k) PROVE GraphInv(k)
  BY <1>2, NodeAdded DEF NodeAdds
<1>3. ASSUME NEW f, NEW k, GraphInv(f), LinkedAdds(f, k) PROVE GraphInv(k)
  BY <1>3, LinkedNodeAdded DEF LinkedAdds
<1>4. ASSUME NEW f, NEW k, NEW n, GraphInv(f), NodeErases(f, k, n) PROVE GraphInv(k)
  BY <1>4, NodeErased DEF NodeErases
<1>5. ASSUME NEW n1, NEW n2, EdgeAdds(g, h, n1, n2) PROVE GraphInv(h)
  BY <1>5, EdgeAdded DEF EdgeAdds
<1>6. ASSUME NEW n1, NEW n2, EdgeErases(g, h, n1, n2) PROVE GraphInv(h)
  BY <1>6, EdgeErased DEF EdgeErases
<1>7. GraphInv(Flip(h)) => GraphInv(h)
  <2>1. Flip(Flip(h)) = h
    BY GraphFacts DEF GraphChanges
  <2> QED BY <2>1, FlippedInv
<1> QED BY <1>1, <1>2, <1>3, <1>4, <1>5, <1>6, <1>7 DEF GraphChanges

-----------------------------------------------------------------------------
LEMMA MirroredAreLinked ==
    ASSUME NEW l1, NEW l2, Lists(l1), Lists(l2), AllMirrored(l1, l2)
    PROVE  Linked(l1, l2)
<1> SUFFICES ASSUME NEW n \in 1 .. Len(l1), NEW k \in 1 .. Len(l1[n])
             PROVE  LET m == l1[n][k]
                    IN  /\ m.iter = k
                        /\ m.node \in DOMAIN l2
                        /\ m.dual \in DOMAIN l2[m.node]
                        /\ l2[m.node][m.dual].node = n
                        /\ l2[m.node][m.dual].dual = k
  BY DEF Linked, Lists
<1>1. Mirrored(l1, l2, n, k)
  BY MirrorOf
<1> QED BY <1>1 DEF Mirrored, Lists

(* The inductive invariant: the lists are consistent and parallel edges are  *)
(* in the same order on either side.                                       *)
THEOREM GraphInvHolds == GraphSpec => []GraphInv(graph)
<1>1. GraphInit => GraphInv(graph)
  <2> SUFFICES ASSUME NEW nr1 \in 0 .. MaxNodes, NEW nr2 \in 0 .. MaxNodes, graph = Unlinked(nr1, nr2)
               PROVE  GraphInv(graph)
    BY DEF GraphInit
  <2>1. nr1 \in Nat /\ nr2 \in Nat
    OBVIOUS
  <2> QED BY <2>1, UnlinkedFacts
<1>2. GraphInv(graph) /\ [GraphNext]_graph => GraphInv(graph)'
  BY StepChanges, ChangesKeepInv
<1> QED BY <1>1, <1>2, PTL DEF GraphSpec

(* After any sequence of the operations that add and erase nodes and edges,  *)
(* of any length and on a graph of any size, what checkConsistency asserts   *)
(* holds: every entry knows its position, and the entries of an edge are     *)
(* dual to each other.                                                     *)
THEOREM ListsStayConsistent == GraphSpec => []ListsConsistent
<1>1. GraphInv(graph) => ListsConsistent
  BY MirroredAreLinked DEF GraphInv, Paired, ListsConsistent
<1> QED BY <1>1, GraphInvHolds, PTL

-----------------------------------------------------------------------------
(* How many edges there are between two nodes.                              *)
Count(g) ==
    [e \in (DOMAIN g.nb1) \X (DOMAIN g.nb2) |->
        Cardinality({k \in DOMAIN g.nb1[e[1]] : g.nb1[e[1]][k].node = e[2]})]

Pairs(g) == (1 .. Len(g.nb1)) \X (1 .. Len(g.nb2))

Counts(g) ==
    /\ Count(g) \in [Pairs(g) -> Nat]
    /\ \A a \in 1 .. Len(g.nb1) : \A b \in 1 .. Len(g.nb2) :
          /\ IsFiniteSet(PositionsOf(g.nb1[a], b))
          /\ Count(g)[<<a, b>>] = Cardinality(PositionsOf(g.nb1[a], b))

LEMMA PositionsAre ==
    ASSUME NEW l, Lists(l), NEW a \in 1 .. Len(l), NEW b
    PROVE  /\ PositionsOf(l[a], b) = {k \in 1 .. Len(l[a]) : l[a][k].node = b}
           /\ IsFiniteSet(PositionsOf(l[a], b)) /\ Len(l[a]) \in Nat
<1>1. Len(l[a]) \in Nat /\ DOMAIN l[a] = 1 .. Len(l[a])
  BY DEF Lists
<1>2. PositionsOf(l[a], b) = {k \in 1 .. Len(l[a]) : l[a][k].node = b}
  BY <1>1 DEF PositionsOf
<1>3. IsFiniteSet(1 .. Len(l[a]))
  BY <1>1, FS_Interval
<1>4. IsFiniteSet(PositionsOf(l[a], b))
  <2>1. PositionsOf(l[a], b) \in SUBSET (1 .. Len(l[a]))
    BY <1>2
  <2> QED BY <1>3, <2>1, FS_Subset
<1> QED BY <1>1, <1>2, <1>4

LEMMA CountFacts == ASSUME NEW g, g \in Graph PROVE Counts(g)
<1>1. Lists(g.nb1)
  BY GraphFacts
<1>2. Count(g) = [e \in Pairs(g) |-> Cardinality(PositionsOf(g.nb1[e[1]], e[2]))]
  BY NodesAre DEF Count, Pairs, PositionsOf
<1>3. ASSUME NEW a \in 1 .. Len(g.nb1), NEW b \in 1 .. Len(g.nb2)
      PROVE  /\ IsFiniteSet(PositionsOf(g.nb1[a], b)) /\ Cardinality(PositionsOf(g.nb1[a], b)) \in Nat
             /\ Count(g)[<<a, b>>] = Cardinality(PositionsOf(g.nb1[a], b))
  <2>1. IsFiniteSet(PositionsOf(g.nb1[a], b))
    BY <1>1, PositionsAre
  <2>2. Cardinality(PositionsOf(g.nb1[a], b)) \in Nat
    BY <2>1, FS_CardinalityType
  <2>3. <<a, b>> \in Pairs(g)
    BY DEF Pairs
  <2> QED BY <1>2, <2>1, <2>2, <2>3
<1>4. Count(g) \in [Pairs(g) -> Nat]
  <2>1. \A e \in Pairs(g) : Cardinality(PositionsOf(g.nb1[e[1]], e[2])) \in Nat
    BY <1>3 DEF Pairs
  <2> QED BY <1>2, <2>1
<1> QED BY <1>3, <1>4 DEF Counts

(* Where the same entries are there are the same edges.                     *)
LEMMA SameCount ==
    ASSUME NEW g, g \in Graph, NEW h, h \in Graph,
           NEW a \in 1 .. Len(g.nb1), NEW b \in 1 .. Len(g.nb2),
           NEW c \in 1 .. Len(h.nb1), NEW d \in 1 .. Len(h.nb2),
           PositionsOf(h.nb1[c], d) = PositionsOf(g.nb1[a], b)
    PROVE  Count(h)[<<c, d>>] = Count(g)[<<a, b>>]
BY CountFacts DEF Counts

LEMMA SameSize ==
    ASSUME NEW S, NEW T, IsFiniteSet(S), NEW f \in [S -> T],
           \A x, y \in S : f[x] = f[y] => x = y, \A y \in T : \E x \in S : f[x] = y
    PROVE  Cardinality(T) = Cardinality(S)
<1>1. f \in Injection(S, T) /\ f \in Surjection(S, T)
  BY DEF Injection, Surjection, IsInjective
<1>2. ExistsBijection(S, T)
  BY <1>1 DEF ExistsBijection, Bijection
<1> QED BY <1>2, FS_Bijection

(* What the operations do to the numbers of edges.                          *)
AddsNode(g, h) ==
    /\ \/ Len(h.nb1) = Len(g.nb1) + 1 /\ Len(h.nb2) = Len(g.nb2)
       \/ Len(h.nb1) = Len(g.nb1) /\ Len(h.nb2) = Len(g.nb2) + 1
    /\ Count(h) \in [Pairs(h) -> Nat]
    /\ \A e \in Pairs(g) : Count(h)[e] = Count(g)[e]

LEMMA NodeCounts ==
    ASSUME NEW g, g \in Graph, NEW h, h \in Graph,
           \/ Len(h.nb1) = Len(g.nb1) + 1 /\ Len(h.nb2) = Len(g.nb2)
           \/ Len(h.nb1) = Len(g.nb1) /\ Len(h.nb2) = Len(g.nb2) + 1,
           \A a \in 1 .. Len(g.nb1) : \A b \in 1 .. Len(g.nb2) : PositionsOf(h.nb1[a], b) = PositionsOf(g.nb1[a], b)
    PROVE  AddsNode(g, h)
<1>1. Lists(g.nb1) /\ Lists(g.nb2) /\ Lists(h.nb1) /\ Lists(h.nb2)
  BY GraphFacts
<1>2. \A a \in 1 .. Len(g.nb1) : \A b \in 1 .. Len(g.nb2) : a \in 1 .. Len(h.nb1) /\ b \in 1 .. Len(h.nb2)
  BY <1>1 DEF Lists
<1>3. \A a \in 1 .. Len(g.nb1) : \A b \in 1 .. Len(g.nb2) : Count(h)[<<a, b>>] = Count(g)[<<a, b>>]
  <2> TAKE a \in 1 .. Len(g.nb1)
  <2> TAKE b \in 1 .. Len(g.nb2)
  <2>1. a \in 1 .. Len(h.nb1) /\ b \in 1 .. Len(h.nb2) /\ PositionsOf(h.nb1[a], b) = PositionsOf(g.nb1[a], b)
    BY <1>2
  <2> QED BY <2>1, SameCount
<1>4. Count(h) \in [Pairs(h) -> Nat]
  BY CountFacts DEF Counts
<1> QED BY <1>3, <1>4 DEF AddsNode, Pairs

LEMMA NodeAddsOne ==
    ASSUME NEW g, GraphInv(g), NEW h, h \in Graph, NodeAdds(g, h) \/ NodeAdds(Flip(g), Flip(h))
    PROVE  AddsNode(g, h)
<1> DEFINE none == << >>
<1>1. ASSUME NEW f, f \in Graph, NEW k, k \in Graph, NodeAdds(f, k)
      PROVE  /\ Len(k.nb1) = Len(f.nb1) + 1 /\ k.nb2 = f.nb2
             /\ \A a \in 1 .. Len(f.nb1) : k.nb1[a] = f.nb1[a]
  <2>1. f = [nb1 |-> f.nb1, nb2 |-> f.nb2] /\ f.nb1 \in Seq(Seq(Neighbor))
    BY <1>1, GraphFacts
  <2> DEFINE m == Append(f.nb1, none)
  <2>2. k = [f EXCEPT !.nb1 = m]
    BY <1>1 DEF NodeAdds, WithNode1
  <2>3. WithList(f.nb1, none, m)
    <3>1. none \in Seq(Neighbor)
      OBVIOUS
    <3> HIDE DEF none
    <3> QED BY <2>1, <3>1, NodeExtends
  <2> HIDE DEF m
  <2>4. k.nb1 = m /\ k.nb2 = f.nb2
    BY <2>1, <2>2
  <2> QED BY <2>3, <2>4 DEF WithList
<1> HIDE DEF none
<1>2. g \in Graph /\ Flip(g) \in Graph /\ Flip(h) \in Graph
      /\ Flip(g).nb1 = g.nb2 /\ Flip(g).nb2 = g.nb1 /\ Flip(h).nb1 = h.nb2 /\ Flip(h).nb2 = h.nb1
  BY GraphFacts DEF GraphInv
<1>3. CASE NodeAdds(g, h)
  <2>1. /\ Len(h.nb1) = Len(g.nb1) + 1 /\ h.nb2 = g.nb2
        /\ \A a \in 1 .. Len(g.nb1) : h.nb1[a] = g.nb1[a]
    BY <1>1, <1>2, <1>3
  <2> QED BY <1>2, <2>1, NodeCounts
<1>4. CASE NodeAdds(Flip(g), Flip(h))
  <2>1. Len(h.nb2) = Len(g.nb2) + 1 /\ h.nb1 = g.nb1
    BY <1>1, <1>2, <1>4
  <2> QED BY <1>2, <2>1, NodeCounts
<1> QED BY <1>3, <1>4

LEMMA LinkedAddsOne ==
    ASSUME NEW g, GraphInv(g), NEW h, h \in Graph, LinkedAdds(g, h) \/ LinkedAdds(Flip(g), Flip(h))
    PROVE  AddsNode(g, h)
<1>1. g \in Graph /\ Flip(g) \in Graph /\ Flip(h) \in Graph
      /\ Flip(g).nb1 = g.nb2 /\ Flip(g).nb2 = g.nb1 /\ Flip(h).nb1 = h.nb2 /\ Flip(h).nb2 = h.nb1
      /\ Lists(g.nb1) /\ Lists(g.nb2) /\ Lists(h.nb1)
  BY GraphFacts DEF GraphInv
<1>2. CASE LinkedAdds(g, h)
  <2>1. PICK ns \in Seq(1 .. Len(g.nb2)) : LinkedMade(g.nb1, g.nb2, ns, h.nb1, h.nb2)
    BY <1>2 DEF LinkedAdds
  <2>2. /\ Len(h.nb1) = Len(g.nb1) + 1 /\ Len(h.nb2) = Len(g.nb2)
        /\ \A a \in 1 .. Len(g.nb1) : h.nb1[a] = g.nb1[a]
    BY <2>1 DEF LinkedMade
  <2> QED BY <1>1, <2>2, NodeCounts
<1>3. CASE LinkedAdds(Flip(g), Flip(h))
  <2>1. PICK ns \in Seq(1 .. Len(g.nb1)) : LinkedMade(g.nb2, g.nb1, ns, h.nb2, h.nb1)
    BY <1>1, <1>3 DEF LinkedAdds
  <2> DEFINE new == Len(g.nb2) + 1
  <2>2. Len(h.nb2) = new /\ Len(h.nb1) = Len(g.nb1)
    BY <2>1 DEF LinkedMade
  <2>3. ASSUME NEW a \in 1 .. Len(g.nb1), NEW b \in 1 .. Len(g.nb2)
        PROVE  PositionsOf(h.nb1[a], b) = PositionsOf(g.nb1[a], b)
    <3> DEFINE L == Len(g.nb1[a])
               C == Cardinality(Places(ns, a))
    <3>1. /\ Len(h.nb1[a]) = L + C
          /\ \A i \in 1 .. L : h.nb1[a][i] = g.nb1[a][i]
      BY <2>1 DEF LinkedMade
    <3>2. \A i \in 1 .. C : h.nb1[a][L + i].node = new
      <4> TAKE i \in 1 .. C
      <4>1. h.nb1[a][L + i] = [iter |-> L + i, node |-> new, dual |-> Ascending(Places(ns, a))[i]]
        BY <2>1, Zenon DEF LinkedMade
      <4> QED BY <4>1
    <3>3. Ranked(ns, a)
      BY RankFacts
    <3>4. C \in Nat
      BY <3>3 DEF Ranked
    <3>5. /\ PositionsOf(g.nb1[a], b) = {i \in 1 .. L : g.nb1[a][i].node = b} /\ L \in Nat
          /\ PositionsOf(h.nb1[a], b) = {i \in 1 .. Len(h.nb1[a]) : h.nb1[a][i].node = b}
      <4>1. a \in 1 .. Len(h.nb1)
        BY <2>2
      <4>2. DOMAIN g.nb1[a] = 1 .. L /\ L \in Nat
        BY <1>1 DEF Lists
      <4>3. DOMAIN h.nb1[a] = 1 .. Len(h.nb1[a])
        BY <1>1, <4>1 DEF Lists
      <4> HIDE DEF L
      <4> QED BY <4>2, <4>3 DEF PositionsOf
    <3>6. b # new
      BY <1>1 DEF Lists
    <3> HIDE DEF C, L, new
    <3>7. ASSUME NEW i \in 1 .. L + C PROVE i \in 1 .. L \/ h.nb1[a][i].node = new
      <4>1. CASE i \notin 1 .. L
        <5> DEFINE j == i - L
        <5>1. j \in 1 .. C /\ i = L + j
          BY <3>4, <3>5, <4>1
        <5> HIDE DEF j
        <5> QED BY <3>2, <5>1
      <4> QED BY <4>1
    <3>8. 1 .. L \subseteq 1 .. L + C
      BY <3>4, <3>5
    <3>9. ASSUME NEW i PROVE i \in PositionsOf(h.nb1[a], b) <=> i \in PositionsOf(g.nb1[a], b)
      <4>1. CASE i \in 1 .. L
        BY <3>1, <3>5, <3>8, <4>1
      <4>2. CASE i \notin 1 .. L
        BY <3>1, <3>5, <3>6, <3>7, <4>2
      <4> QED BY <4>1, <4>2
    <3> QED BY <3>9
  <2> QED BY <1>1, <2>2, <2>3, NodeCounts
<1> QED BY <1>2, <1>3

(* Elsewhere nothing changes. *)
OthersKeep(g, h, n1, n2) ==
    /\ Len(h.nb1) = Len(g.nb1) /\ Len(h.nb2) = Len(g.nb2)
    /\ \A e \in Pairs(g) \ {<<n1, n2>>} : Count(h)[e] = Count(g)[e]

LEMMA OthersCount ==
    ASSUME NEW g, g \in Graph, NEW h, h \in Graph, NEW n1, NEW n2,
           Len(h.nb1) = Len(g.nb1), Len(h.nb2) = Len(g.nb2),
           \A a \in 1 .. Len(g.nb1) : \A b \in 1 .. Len(g.nb2) :
              ~(a = n1 /\ b = n2) => Count(h)[<<a, b>>] = Count(g)[<<a, b>>]
    PROVE  OthersKeep(g, h, n1, n2)
<1>1. ASSUME NEW e \in Pairs(g) \ {<<n1, n2>>} PROVE Count(h)[e] = Count(g)[e]
  <2>1. PICK a \in 1 .. Len(g.nb1), b \in 1 .. Len(g.nb2) : e = <<a, b>>
    BY DEF Pairs
  <2> QED BY <1>1, <2>1
<1> QED BY <1>1 DEF OthersKeep

AddsEdge(g, h, n1, n2) ==
    OthersKeep(g, h, n1, n2) /\ Count(h)[<<n1, n2>>] = Count(g)[<<n1, n2>>] + 1

LEMMA EdgeAddsOne ==
    ASSUME NEW g, GraphInv(g), NEW h, h \in Graph, NEW n1, NEW n2, EdgeAdds(g, h, n1, n2)
    PROVE  AddsEdge(g, h, n1, n2)
<1>1. g \in Graph /\ n1 \in 1 .. Len(g.nb1) /\ n2 \in 1 .. Len(g.nb2)
  BY DEF EdgeAdds, GraphInv
<1> DEFINE L == Len(g.nb1[n1])
<1>2. Lists(g.nb1) /\ Lists(h.nb1)
  BY <1>1, GraphFacts
<1>3. /\ Len(h.nb1) = Len(g.nb1) /\ Len(h.nb2) = Len(g.nb2)
      /\ Len(h.nb1[n1]) = L + 1 /\ h.nb1[n1][L + 1].node = n2
      /\ \A k \in 1 .. L : h.nb1[n1][k] = g.nb1[n1][k]
      /\ \A a \in 1 .. Len(g.nb1) : a # n1 => h.nb1[a] = g.nb1[a]
  <2>1. /\ WithEntry(g.nb1, n1, Half(g.nb1, g.nb2, n1, n2), h.nb1)
        /\ WithEntry(g.nb2, n2, Half(g.nb2, g.nb1, n2, n1), h.nb2)
    BY DEF EdgeAdds, EdgeMade
  <2>2. h.nb1[n1][L + 1] = Half(g.nb1, g.nb2, n1, n2) /\ Extends(h.nb1, g.nb1)
    BY <2>1 DEF WithEntry
  <2>3. h.nb1[n1][L + 1].node = n2
    BY <2>2 DEF Half
  <2> QED BY <1>1, <2>1, <2>2, <2>3 DEF WithEntry, Extends
<1>4. L \in Nat /\ DOMAIN g.nb1[n1] = 1 .. L /\ DOMAIN h.nb1[n1] = 1 .. L + 1
  BY <1>1, <1>2, <1>3 DEF Lists
<1> HIDE DEF L
<1>5. L + 1 \notin 1 .. L /\ 1 .. L + 1 = (1 .. L) \cup {L + 1}
  BY <1>4
<1>6. ASSUME NEW b
      PROVE  PositionsOf(h.nb1[n1], b) =
             IF b = n2 THEN PositionsOf(g.nb1[n1], b) \cup {L + 1} ELSE PositionsOf(g.nb1[n1], b)
  BY <1>3, <1>4, <1>5 DEF PositionsOf
<1>7. ASSUME NEW a \in 1 .. Len(g.nb1), NEW b \in 1 .. Len(g.nb2), ~(a = n1 /\ b = n2)
      PROVE  Count(h)[<<a, b>>] = Count(g)[<<a, b>>]
  <2>1. a \in 1 .. Len(h.nb1) /\ b \in 1 .. Len(h.nb2)
    BY <1>3
  <2>2. PositionsOf(h.nb1[a], b) = PositionsOf(g.nb1[a], b)
    BY <1>3, <1>6, <1>7
  <2>3. Count(g)[<<a, b>>] = Cardinality(PositionsOf(g.nb1[a], b))
    BY <1>1, CountFacts DEF Counts
  <2>4. Count(h)[<<a, b>>] = Cardinality(PositionsOf(h.nb1[a], b))
    BY <2>1, CountFacts DEF Counts
  <2> QED BY ONLY <2>2, <2>3, <2>4
<1>8. OthersKeep(g, h, n1, n2)
  BY <1>1, <1>3, <1>7, OthersCount
<1>9. Count(h)[<<n1, n2>>] = Count(g)[<<n1, n2>>] + 1
  <2>1. n1 \in 1 .. Len(h.nb1) /\ n2 \in 1 .. Len(h.nb2)
    BY <1>1, <1>3
  <2>2. Counts(g) /\ Counts(h)
    BY <1>1, CountFacts
  <2>3. /\ Count(g)[<<n1, n2>>] = Cardinality(PositionsOf(g.nb1[n1], n2)) /\ IsFiniteSet(PositionsOf(g.nb1[n1], n2))
        /\ Count(h)[<<n1, n2>>] = Cardinality(PositionsOf(h.nb1[n1], n2))
    BY <1>1, <2>1, <2>2 DEF Counts
  <2>4. PositionsOf(h.nb1[n1], n2) = PositionsOf(g.nb1[n1], n2) \cup {L + 1}
    BY <1>6
  <2>5. L + 1 \notin PositionsOf(g.nb1[n1], n2)
    BY <1>4, <1>5 DEF PositionsOf
  <2> QED BY <2>3, <2>4, <2>5, FS_AddElement
<1> QED BY <1>8, <1>9 DEF AddsEdge

ErasesEdge(g, h, n1, n2) ==
    /\ OthersKeep(g, h, n1, n2)
    /\ Count(g)[<<n1, n2>>] > 0 /\ Count(h)[<<n1, n2>>] = Count(g)[<<n1, n2>>] - 1

LEMMA EdgeErasesOne ==
    ASSUME NEW g, GraphInv(g), NEW h, h \in Graph, NEW n1, NEW n2, EdgeErases(g, h, n1, n2)
    PROVE  ErasesEdge(g, h, n1, n2)
<1>1. g \in Graph /\ n1 \in 1 .. Len(g.nb1) /\ n2 \in 1 .. Len(g.nb2)
  BY DEF EdgeErases, GraphInv
<1>2. PICK k, d : EdgeTaken(g, h, n1, k, n2, d)
  BY DEF EdgeErases
<1> DEFINE L == Len(g.nb1[n1])
<1>3. Lists(g.nb1) /\ Lists(h.nb1)
  BY <1>1, GraphFacts
<1>4. /\ k \in 1 .. L /\ g.nb1[n1][k].node = n2
      /\ Len(h.nb1) = Len(g.nb1) /\ Len(h.nb2) = Len(g.nb2)
      /\ \A a \in 1 .. Len(g.nb1) :
            /\ Len(h.nb1[a]) = IF a = n1 THEN L - 1 ELSE Len(g.nb1[a])
            /\ \A i \in 1 .. Len(h.nb1[a]) : h.nb1[a][i].node = g.nb1[a][Pos(a, n1, i, k)].node
  BY <1>2 DEF EdgeTaken, Ends, Shrunk
<1>5. L \in Nat /\ DOMAIN g.nb1[n1] = 1 .. L /\ DOMAIN h.nb1[n1] = 1 .. L - 1
      /\ \A i \in 1 .. L - 1 : h.nb1[n1][i].node = g.nb1[n1][Old(i, k)].node
  BY <1>1, <1>3, <1>4 DEF Lists, Pos
<1>6. ASSUME NEW a \in 1 .. Len(g.nb1), a # n1, NEW b PROVE PositionsOf(h.nb1[a], b) = PositionsOf(g.nb1[a], b)
  <2>1. DOMAIN g.nb1[a] = 1 .. Len(g.nb1[a]) /\ DOMAIN h.nb1[a] = 1 .. Len(g.nb1[a])
    BY <1>3, <1>4, <1>6 DEF Lists
  <2>2. \A i \in 1 .. Len(g.nb1[a]) : h.nb1[a][i].node = g.nb1[a][i].node
    BY <1>4, <1>6 DEF Pos
  <2> QED BY <2>1, <2>2 DEF PositionsOf
<1> HIDE DEF L
<1>7. ASSUME NEW b
      PROVE  Cardinality(PositionsOf(h.nb1[n1], b)) = Cardinality(PositionsOf(g.nb1[n1], b) \ {k})
  <2> DEFINE S == PositionsOf(h.nb1[n1], b)
             T == PositionsOf(g.nb1[n1], b) \ {k}
             f == [i \in S |-> Old(i, k)]
  <2>1. S = {i \in 1 .. L - 1 : g.nb1[n1][Old(i, k)].node = b} /\ T = {j \in 1 .. L : g.nb1[n1][j].node = b /\ j # k}
    BY <1>5 DEF PositionsOf
  <2>2. IsFiniteSet(S)
    <3>1. n1 \in 1 .. Len(h.nb1)
      BY <1>1, <1>4
    <3> QED BY <1>3, <3>1, PositionsAre
  <2>3. /\ \A j \in 1 .. L : j # k => New(j, k) \in 1 .. L - 1 /\ Old(New(j, k), k) = j
        /\ \A i \in 1 .. L - 1 : Old(i, k) \in 1 .. L /\ Old(i, k) # k /\ New(Old(i, k), k) = i
    BY <1>4, <1>5, OldAndNew
  <2> HIDE DEF S, T
  <2>4. f \in [S -> T]
    BY <2>1, <2>3
  <2>5. \A x, y \in S : f[x] = f[y] => x = y
    BY <2>1, <2>3
  <2>6. \A y \in T : \E x \in S : f[x] = y
    <3> TAKE y \in T
    <3>1. New(y, k) \in S /\ Old(New(y, k), k) = y
      BY <2>1, <2>3
    <3> QED BY <3>1
  <2> HIDE DEF f
  <2>7. Cardinality(T) = Cardinality(S)
    BY <2>2, <2>4, <2>5, <2>6, SameSize
  <2> QED BY <2>7 DEF S, T
<1>8. Counts(g) /\ Counts(h)
  BY <1>1, CountFacts
<1>9. ASSUME NEW a \in 1 .. Len(g.nb1), NEW b \in 1 .. Len(g.nb2), ~(a = n1 /\ b = n2)
      PROVE  Count(h)[<<a, b>>] = Count(g)[<<a, b>>]
  <2>1. a \in 1 .. Len(h.nb1) /\ b \in 1 .. Len(h.nb2)
    BY <1>4
  <2>2. CASE a # n1
    <3>1. PositionsOf(h.nb1[a], b) = PositionsOf(g.nb1[a], b)
      BY <1>6, <2>2
    <3>2. Count(g)[<<a, b>>] = Cardinality(PositionsOf(g.nb1[a], b))
      BY <1>8 DEF Counts
    <3>3. Count(h)[<<a, b>>] = Cardinality(PositionsOf(h.nb1[a], b))
      BY <1>8, <2>1 DEF Counts
    <3> QED BY ONLY <3>1, <3>2, <3>3
  <2>3. CASE a = n1
    <3>1. k \notin PositionsOf(g.nb1[n1], b)
      BY <1>4, <1>9, <2>3 DEF PositionsOf
    <3>2. PositionsOf(g.nb1[n1], b) \ {k} = PositionsOf(g.nb1[n1], b)
      BY <3>1
    <3>3. Cardinality(PositionsOf(h.nb1[n1], b)) = Cardinality(PositionsOf(g.nb1[n1], b))
      BY <1>7, <3>2
    <3> QED BY <1>8, <2>1, <2>3, <3>3 DEF Counts
  <2> QED BY <2>2, <2>3
<1>10. OthersKeep(g, h, n1, n2)
  BY <1>1, <1>4, <1>9, OthersCount
<1>11. Count(g)[<<n1, n2>>] > 0 /\ Count(h)[<<n1, n2>>] = Count(g)[<<n1, n2>>] - 1
  <2> DEFINE P == PositionsOf(g.nb1[n1], n2)
  <2>1. k \in P
    BY <1>4, <1>5 DEF PositionsOf
  <2>2. IsFiniteSet(P) /\ Count(g)[<<n1, n2>>] = Cardinality(P)
    BY <1>1, <1>8 DEF Counts
  <2>3. Count(h)[<<n1, n2>>] = Cardinality(P \ {k})
    BY <1>1, <1>4, <1>7, <1>8 DEF Counts
  <2> HIDE DEF P
  <2>4. Cardinality(P \ {k}) = Cardinality(P) - 1
    BY <2>1, <2>2, FS_RemoveElement
  <2>5. Cardinality(P) \in Nat /\ Cardinality(P) # 0
    BY <2>1, <2>2, FS_CardinalityType, FS_EmptySet
  <2> QED BY <2>2, <2>3, <2>4, <2>5
<1> QED BY <1>10, <1>11 DEF ErasesEdge

ErasesNode1(g, h, n) ==
    /\ Len(h.nb1) = Len(g.nb1) - 1 /\ Len(h.nb2) = Len(g.nb2)
    /\ Count(h) = [e \in Pairs(h) |-> Count(g)[<<Old(e[1], n), e[2]>>]]

ErasesNode2(g, h, n) ==
    /\ Len(h.nb1) = Len(g.nb1) /\ Len(h.nb2) = Len(g.nb2) - 1
    /\ Count(h) = [e \in Pairs(h) |-> Count(g)[<<e[1], Old(e[2], n)>>]]

LEMMA NodeErasesOne1 ==
    ASSUME NEW g, GraphInv(g), NEW h, h \in Graph, NEW n, NodeErases(g, h, n)
    PROVE  ErasesNode1(g, h, n)
<1>1. g \in Graph /\ n \in 1 .. Len(g.nb1) /\ NodeTaken(g.nb1, g.nb2, n, h.nb1, h.nb2)
  BY DEF NodeErases, GraphInv
<1>2. Lists(g.nb1) /\ Lists(h.nb1) /\ Len(g.nb1) \in Nat
  BY <1>1, GraphFacts DEF Lists
<1>3. /\ Len(h.nb1) = Len(g.nb1) - 1 /\ Len(h.nb2) = Len(g.nb2)
      /\ \A a \in 1 .. Len(g.nb1) - 1 : Old(a, n) \in 1 .. Len(g.nb1)
  BY <1>1, <1>2, OldAndNew DEF NodeTaken
<1>4. ASSUME NEW a \in 1 .. Len(g.nb1) - 1, NEW b \in 1 .. Len(g.nb2)
      PROVE  Count(h)[<<a, b>>] = Count(g)[<<Old(a, n), b>>]
  <2> DEFINE c == Old(a, n)
             L == Len(g.nb1[c])
  <2>1. /\ Len(h.nb1[a]) = L
        /\ \A j \in 1 .. L :
              h.nb1[a][j] = [iter |-> j, node |-> g.nb1[c][j].node,
                             dual |-> KeptRank(g.nb2[g.nb1[c][j].node], g.nb1[c][j].dual, n)]
    BY <1>1, Zenon DEF NodeTaken
  <2>2. c \in 1 .. Len(g.nb1) /\ a \in 1 .. Len(h.nb1) /\ b \in 1 .. Len(h.nb2)
    BY <1>3
  <2> HIDE DEF c
  <2>3. DOMAIN g.nb1[c] = 1 .. L /\ DOMAIN h.nb1[a] = 1 .. Len(h.nb1[a])
    BY <1>2, <2>2 DEF Lists
  <2> HIDE DEF L
  <2>4. ASSUME NEW j \in 1 .. L PROVE h.nb1[a][j].node = g.nb1[c][j].node
    <3>1. h.nb1[a][j] = [iter |-> j, node |-> g.nb1[c][j].node,
                         dual |-> KeptRank(g.nb2[g.nb1[c][j].node], g.nb1[c][j].dual, n)]
      BY <2>1, Zenon
    <3> QED BY <3>1
  <2>5. PositionsOf(h.nb1[a], b) = PositionsOf(g.nb1[c], b)
    BY <2>1, <2>3, <2>4 DEF PositionsOf
  <2>6. Count(h)[<<a, b>>] = Count(g)[<<c, b>>]
    BY <1>1, <2>2, <2>5, SameCount
  <2> QED BY <2>6 DEF c
<1>5. Count(h) \in [Pairs(h) -> Nat]
  BY CountFacts DEF Counts
<1>6. ASSUME NEW e \in Pairs(h) PROVE Count(h)[e] = Count(g)[<<Old(e[1], n), e[2]>>]
  <2>1. PICK a \in 1 .. Len(g.nb1) - 1, b \in 1 .. Len(g.nb2) : e = <<a, b>>
    BY <1>3 DEF Pairs
  <2>2. e[1] = a /\ e[2] = b
    BY <2>1
  <2> QED BY <1>4, <2>1, <2>2
<1>7. Count(h) = [e \in Pairs(h) |-> Count(g)[<<Old(e[1], n), e[2]>>]]
  <2> DEFINE f == Count(h)
             D == Pairs(h)
             v(e) == Count(g)[<<Old(e[1], n), e[2]>>]
  <2>1. f \in [D -> Nat] /\ \A e \in D : f[e] = v(e)
    BY <1>5, <1>6
  <2> HIDE DEF f, D, v
  <2>2. f = [e \in D |-> v(e)]
    BY <2>1
  <2> QED BY <2>2 DEF f, D, v
<1> QED BY <1>3, <1>7 DEF ErasesNode1

LEMMA NodeErasesOne2 ==
    ASSUME NEW g, GraphInv(g), NEW h, h \in Graph, NEW n, NodeErases(Flip(g), Flip(h), n)
    PROVE  ErasesNode2(g, h, n)
<1>1. /\ g \in Graph /\ n \in 1 .. Len(g.nb2) /\ NodeTaken(g.nb2, g.nb1, n, h.nb2, h.nb1)
      /\ AllMirrored(g.nb1, g.nb2)
  <2>1. /\ Flip(g).nb1 = g.nb2 /\ Flip(g).nb2 = g.nb1 /\ Flip(h).nb1 = h.nb2 /\ Flip(h).nb2 = h.nb1
    BY GraphFacts DEF GraphInv
  <2> QED BY <2>1 DEF NodeErases, GraphInv, Paired
<1>2. Lists(g.nb1) /\ Lists(g.nb2) /\ Lists(h.nb1) /\ Lists(h.nb2) /\ Len(g.nb2) \in Nat
  BY <1>1, GraphFacts DEF Lists
<1>3. /\ Len(h.nb1) = Len(g.nb1) /\ Len(h.nb2) = Len(g.nb2) - 1
      /\ \A m \in 1 .. Len(g.nb2) - 1 : Old(m, n) \in 1 .. Len(g.nb2) /\ Old(m, n) # n /\ New(Old(m, n), n) = m
      /\ \A c \in 1 .. Len(g.nb2) : c # n => Old(New(c, n), n) = c
  BY <1>1, <1>2, OldAndNew DEF NodeTaken
<1>4. Counts(g) /\ Counts(h)
  BY <1>1, CountFacts
<1>5. ASSUME NEW a \in 1 .. Len(g.nb1), NEW m \in 1 .. Len(g.nb2) - 1
      PROVE  Count(h)[<<a, m>>] = Count(g)[<<a, Old(m, n)>>]
  <2> DEFINE list == g.nb1[a]
             C == Cardinality(Kept(list, n))
             A == Ascending(Kept(list, n))
             b == Old(m, n)
             S == PositionsOf(h.nb1[a], m)
             T == PositionsOf(list, b)
             f == [i \in S |-> A[i]]
  <2>1. /\ Len(h.nb1[a]) = C
        /\ \A i \in 1 .. C : h.nb1[a][i] = [iter |-> i, node |-> New(list[A[i]].node, n), dual |-> list[A[i]].dual]
    BY <1>1, Zenon DEF NodeTaken
  <2>2. Len(list) \in Nat /\ DOMAIN list = 1 .. Len(list)
    BY <1>2 DEF Lists
  <2>3. \A k \in 1 .. Len(list) : list[k].node \in 1 .. Len(g.nb2)
    <3> TAKE k \in 1 .. Len(list)
    <3>1. Mirrored(g.nb1, g.nb2, a, k)
      <4>1. AllMirrored(g.nb1, g.nb2)
        BY <1>1
      <4> QED BY <4>1 DEF AllMirrored
    <3> QED BY <3>1 DEF Mirrored
  <2>4. a \in 1 .. Len(h.nb1) /\ m \in 1 .. Len(h.nb2) /\ DOMAIN h.nb1[a] = 1 .. C
    BY <1>2, <1>3, <2>1 DEF Lists
  <2>5. b \in 1 .. Len(g.nb2) /\ b # n /\ New(b, n) = m
    BY <1>3
  <2> HIDE DEF list
  <2>6. KeptInOrder(list, n)
    BY <2>2, KeptFacts
  <2>7. /\ C \in Nat
        /\ \A i \in 1 .. C : A[i] \in 1 .. Len(list) /\ list[A[i]].node # n /\ KeptRank(list, A[i], n) = i
        /\ \A k \in 1 .. Len(list) : list[k].node # n =>
              KeptRank(list, k, n) \in 1 .. C /\ A[KeptRank(list, k, n)] = k
    BY <2>6 DEF KeptInOrder
  <2> HIDE DEF C, A
  <2>8. \A i \in 1 .. C : h.nb1[a][i].node = m <=> list[A[i]].node = b
    <3> TAKE i \in 1 .. C
    <3>1. h.nb1[a][i].node = New(list[A[i]].node, n)
      <4>1. h.nb1[a][i] = [iter |-> i, node |-> New(list[A[i]].node, n), dual |-> list[A[i]].dual]
        BY <2>1, Zenon
      <4> QED BY <4>1
    <3>2. list[A[i]].node \in 1 .. Len(g.nb2) /\ list[A[i]].node # n
      BY <2>3, <2>7
    <3> QED BY <1>3, <2>5, <3>1, <3>2
  <2> HIDE DEF b
  <2>9. S = {i \in 1 .. C : list[A[i]].node = b} /\ T = {k \in 1 .. Len(list) : list[k].node = b}
    <3>1. S = {i \in 1 .. C : h.nb1[a][i].node = m}
      BY <2>4 DEF PositionsOf
    <3> QED BY <2>2, <2>8, <3>1 DEF PositionsOf
  <2>10. IsFiniteSet(S)
    BY <1>2, <2>4, PositionsAre
  <2> HIDE DEF S, T
  <2>11. f \in [S -> T]
    BY <2>7, <2>9
  <2>12. \A x, y \in S : f[x] = f[y] => x = y
    <3> TAKE x \in S, y \in S
    <3>1. KeptRank(list, A[x], n) = x /\ KeptRank(list, A[y], n) = y
      BY <2>7, <2>9
    <3> QED BY <3>1
  <2>13. \A y \in T : \E x \in S : f[x] = y
    <3> TAKE y \in T
    <3>1. y \in 1 .. Len(list) /\ list[y].node = b
      BY <2>9
    <3>2. KeptRank(list, y, n) \in 1 .. C /\ A[KeptRank(list, y, n)] = y
      BY <2>5, <2>7, <3>1
    <3>3. KeptRank(list, y, n) \in S
      BY <2>9, <3>1, <3>2
    <3> QED BY <3>2, <3>3
  <2> HIDE DEF f
  <2>14. Cardinality(T) = Cardinality(S)
    BY <2>10, <2>11, <2>12, <2>13, SameSize
  <2>15. Count(h)[<<a, m>>] = Cardinality(S)
    BY <1>4, <2>4 DEF Counts, S
  <2>16. Count(g)[<<a, b>>] = Cardinality(T)
    BY <1>4, <2>5 DEF Counts, T, list
  <2> QED BY <2>14, <2>15, <2>16 DEF b
<1>6. ASSUME NEW e \in Pairs(h) PROVE Count(h)[e] = Count(g)[<<e[1], Old(e[2], n)>>]
  <2>1. PICK a \in 1 .. Len(g.nb1), m \in 1 .. Len(g.nb2) - 1 : e = <<a, m>>
    BY <1>3 DEF Pairs
  <2>2. e[1] = a /\ e[2] = m
    BY <2>1
  <2> QED BY <1>5, <2>1, <2>2
<1>7. Count(h) = [e \in Pairs(h) |-> Count(g)[<<e[1], Old(e[2], n)>>]]
  <2> DEFINE f == Count(h)
             D == Pairs(h)
             v(e) == Count(g)[<<e[1], Old(e[2], n)>>]
  <2>1. f \in [D -> Nat] /\ \A e \in D : f[e] = v(e)
    BY <1>4, <1>6 DEF Counts
  <2> HIDE DEF f, D, v
  <2>2. f = [e \in D |-> v(e)]
    BY <2>1
  <2> QED BY <2>2 DEF f, D, v
<1> QED BY <1>3, <1>7 DEF ErasesNode2

-----------------------------------------------------------------------------
(* The operations are those of the Multigraph.                              *)
LEMMA EdgeCountsAre == EdgeCounts = Count(graph) /\ EdgeCounts' = Count(graph')
BY DEF EdgeCounts, Edges, Count

LEMMA CountedPairs ==
    ASSUME NEW g, g \in Graph
    PROVE  DOMAIN Count(g) = Pairs(g) /\ Count(g) \in [Pairs(g) -> Nat]
<1>1. Count(g) \in [Pairs(g) -> Nat]
  BY CountFacts DEF Counts
<1> QED BY <1>1

LEMMA StepsAreAbstract ==
    ASSUME GraphInv(graph), GraphChanges(graph, graph')
    PROVE  [Abstract!Next]_<<Len(graph.nb1), Len(graph.nb2), EdgeCounts>>
<1>1. graph \in Graph /\ graph' \in Graph
  BY DEF GraphInv, GraphChanges
<1>2. /\ EdgeCounts = Count(graph) /\ EdgeCounts' = Count(graph')
      /\ DOMAIN Count(graph) = Pairs(graph) /\ Count(graph') \in [Pairs(graph') -> Nat]
  BY <1>1, EdgeCountsAre, CountedPairs
<1>3. CASE graph' = graph
  BY <1>2, <1>3
<1>4. CASE AddsNode(graph, graph')
  <2>1. Abstract!AddNode
    BY <1>2, <1>4 DEF AddsNode, Pairs, Abstract!AddNode, Abstract!Counted
  <2> QED BY <2>1 DEF Abstract!Next
<1>5. ASSUME NEW n1 \in 1 .. Len(graph.nb1), NEW n2 \in 1 .. Len(graph.nb2), AddsEdge(graph, graph', n1, n2)
      PROVE  Abstract!Next
  <2>1. Abstract!AddEdge(n1, n2)
    BY <1>2, <1>5 DEF AddsEdge, OthersKeep, Abstract!AddEdge, Abstract!Elsewhere
  <2> QED BY <2>1 DEF Abstract!Next
<1>6. ASSUME NEW n1 \in 1 .. Len(graph.nb1), NEW n2 \in 1 .. Len(graph.nb2), ErasesEdge(graph, graph', n1, n2)
      PROVE  Abstract!Next
  <2>1. Abstract!EraseEdge(n1, n2)
    BY <1>2, <1>6 DEF ErasesEdge, OthersKeep, Abstract!EraseEdge, Abstract!Elsewhere
  <2> QED BY <2>1 DEF Abstract!Next
<1>7. ASSUME NEW n \in 1 .. Len(graph.nb1), ErasesNode1(graph, graph', n) PROVE Abstract!Next
  <2>1. Abstract!EraseNode1(n)
    BY <1>2, <1>7 DEF ErasesNode1, Pairs, Old, Abstract!EraseNode1, Abstract!Former
  <2> QED BY <2>1 DEF Abstract!Next
<1>8. ASSUME NEW n \in 1 .. Len(graph.nb2), ErasesNode2(graph, graph', n) PROVE Abstract!Next
  <2>1. Abstract!EraseNode2(n)
    BY <1>2, <1>8 DEF ErasesNode2, Pairs, Old, Abstract!EraseNode2, Abstract!Former
  <2> QED BY <2>1 DEF Abstract!Next
<1>9. CASE NodeAdds(graph, graph') \/ NodeAdds(Flip(graph), Flip(graph'))
  BY <1>1, <1>4, <1>9, NodeAddsOne
<1>10. CASE LinkedAdds(graph, graph') \/ LinkedAdds(Flip(graph), Flip(graph'))
  BY <1>1, <1>4, <1>10, LinkedAddsOne
<1>11. ASSUME NEW n, NodeErases(graph, graph', n) PROVE Abstract!Next
  <2>1. n \in 1 .. Len(graph.nb1)
    BY <1>11 DEF NodeErases
  <2>2. ErasesNode1(graph, graph', n)
    BY <1>1, <1>11, NodeErasesOne1
  <2> QED BY <1>7, <2>1, <2>2
<1>12. ASSUME NEW n, NodeErases(Flip(graph), Flip(graph'), n) PROVE Abstract!Next
  <2>1. n \in 1 .. Len(graph.nb2)
    BY <1>1, <1>12, GraphFacts DEF NodeErases
  <2>2. ErasesNode2(graph, graph', n)
    BY <1>1, <1>12, NodeErasesOne2
  <2> QED BY <1>8, <2>1, <2>2
<1>13. ASSUME NEW n1, NEW n2, EdgeAdds(graph, graph', n1, n2) PROVE Abstract!Next
  <2>1. n1 \in 1 .. Len(graph.nb1) /\ n2 \in 1 .. Len(graph.nb2)
    BY <1>13 DEF EdgeAdds
  <2>2. AddsEdge(graph, graph', n1, n2)
    BY <1>1, <1>13, EdgeAddsOne
  <2> QED BY <1>5, <2>1, <2>2
<1>14. ASSUME NEW n1, NEW n2, EdgeErases(graph, graph', n1, n2) PROVE Abstract!Next
  <2>1. n1 \in 1 .. Len(graph.nb1) /\ n2 \in 1 .. Len(graph.nb2)
    BY <1>14 DEF EdgeErases
  <2>2. ErasesEdge(graph, graph', n1, n2)
    BY <1>1, <1>14, EdgeErasesOne
  <2> QED BY <1>6, <2>1, <2>2
<1> QED BY <1>3, <1>9, <1>10, <1>11, <1>12, <1>13, <1>14 DEF GraphChanges

(* Any sequence of the operations, on a graph of any size, does to the nodes *)
(* and the numbers of edges between them what a Multigraph says: an erased   *)
(* node takes its own edges along and no other, the nodes behind it move up  *)
(* by one, and an edge is added or erased one at a time.                    *)
THEOREM ListsAreAMultigraph == GraphSpec => ImplementsMultigraph
<1>1. GraphInit => Abstract!Init
  <2> SUFFICES ASSUME NEW nr1 \in 0 .. MaxNodes, NEW nr2 \in 0 .. MaxNodes, graph = Unlinked(nr1, nr2)
               PROVE  Abstract!Init
    BY DEF GraphInit
  <2>1. nr1 \in Nat /\ nr2 \in Nat
    OBVIOUS
  <2>2. /\ GraphInv(graph) /\ Len(graph.nb1) = nr1 /\ Len(graph.nb2) = nr2
        /\ \A n \in 1 .. nr1 : Len(graph.nb1[n]) = 0
    BY <2>1, UnlinkedFacts
  <2>3. graph \in Graph /\ Lists(graph.nb1)
    BY <2>2 DEF GraphInv, Paired
  <2>4. Counts(graph)
    BY <2>3, CountFacts
  <2>5. ASSUME NEW a \in 1 .. nr1, NEW b \in 1 .. nr2 PROVE Count(graph)[<<a, b>>] = 0
    <3>1. DOMAIN graph.nb1[a] = 1 .. 0
      BY <2>2, <2>3 DEF Lists
    <3>2. PositionsOf(graph.nb1[a], b) = {}
      BY <3>1 DEF PositionsOf
    <3> QED BY <2>2, <2>4, <3>2, FS_EmptySet DEF Counts
  <2>6. Count(graph) = [e \in (1 .. nr1) \X (1 .. nr2) |-> 0]
    <3> DEFINE f == Count(graph)
               D == (1 .. nr1) \X (1 .. nr2)
    <3>1. f \in [D -> Nat]
      BY <2>2, <2>4 DEF Counts, Pairs
    <3>2. ASSUME NEW e \in D PROVE f[e] = 0
      <4>1. PICK a \in 1 .. nr1, b \in 1 .. nr2 : e = <<a, b>>
        OBVIOUS
      <4> QED BY <2>5, <4>1
    <3> HIDE DEF f, D
    <3>3. f = [e \in D |-> 0]
      BY <3>1, <3>2
    <3> QED BY <3>3 DEF f, D
  <2> QED BY <2>1, <2>2, <2>6, EdgeCountsAre DEF Abstract!Init
<1>2. GraphInv(graph) /\ [GraphNext]_graph => [Abstract!Next]_<<Len(graph.nb1), Len(graph.nb2), EdgeCounts>>
  <2> SUFFICES ASSUME GraphInv(graph), [GraphNext]_graph
               PROVE  [Abstract!Next]_<<Len(graph.nb1), Len(graph.nb2), EdgeCounts>>
    OBVIOUS
  <2>1. GraphChanges(graph, graph')
    <3>1. CASE GraphNext
      BY <3>1, StepChanges
    <3>2. CASE UNCHANGED graph
      BY <3>2 DEF GraphChanges, GraphInv
    <3> QED BY <3>1, <3>2
  <2> QED BY <2>1, StepsAreAbstract
<1> QED BY <1>1, <1>2, GraphInvHolds, PTL DEF GraphSpec, ImplementsMultigraph, Abstract!Spec

-----------------------------------------------------------------------------
(* Random regular graphs                                                    *)

NodeSet == 0 .. Nodes - 1

PointsOf(n) == {i \in unpaired : Group(i) = n}

(* The edges join two nodes, and every node has its degree in unpaired      *)
(* points and neighbours; a graph that is ready has the degrees.            *)
RegularInv ==
    Degree > 0 =>
        /\ unpaired \subseteq Points
        /\ \A e \in pairing : \E m, n \in NodeSet : m # n /\ e = {m, n}
        /\ \A n \in NodeSet : Cardinality(PointsOf(n)) + Cardinality(Neighbors(n)) = Degree
        /\ ready => \A n \in NodeSet : Cardinality(Neighbors(n)) = Degree

LEMMA QuotientIs ==
    ASSUME NEW i \in Nat, NEW n \in Nat, NEW k \in Nat \ {0}
    PROVE  i \div k = n <=> n * k <= i /\ i < n * k + k
<1> DEFINE q == i \div k
           r == i % k
<1>1. q \in Nat /\ r \in 0 .. k - 1 /\ i = q * k + r
  OBVIOUS
<1> HIDE DEF q, r
<1>2. n * k \in Nat /\ q * k \in Nat
  BY <1>1
<1>3. q < n => q * k + k <= n * k
  <2>1. ASSUME q < n PROVE q * k + k <= n * k
    <3>1. PICK c \in Nat : n = q + 1 + c
      <4>1. n - q - 1 \in Nat /\ n = q + 1 + (n - q - 1)
        BY <1>1, <2>1
      <4>2. QED
        BY <4>1
    <3>2. n * k = q * k + k + c * k /\ c * k \in Nat
      BY <1>1, <3>1
    <3>3. QED
      BY <1>2, <3>2
  <2>2. QED
    BY <2>1
<1>4. n < q => n * k + k <= q * k
  <2>1. ASSUME n < q PROVE n * k + k <= q * k
    <3>1. PICK c \in Nat : q = n + 1 + c
      <4>1. q - n - 1 \in Nat /\ q = n + 1 + (q - n - 1)
        BY <1>1, <2>1
      <4>2. QED
        BY <4>1
    <3>2. q * k = n * k + k + c * k /\ c * k \in Nat
      BY <1>1, <3>1
    <3>3. QED
      BY <1>2, <3>2
  <2>2. QED
    BY <2>1
<1>5. q = n <=> n * k <= i /\ i < n * k + k
  BY <1>1, <1>2, <1>3, <1>4
<1>6. QED
  BY <1>5 DEF q

(* Each node has Degree points.                                             *)
LEMMA GroupsHaveDegree ==
    ASSUME Degree > 0
    PROVE  /\ \A n \in NodeSet : IsFiniteSet({i \in Points : Group(i) = n}) /\ Cardinality({i \in Points : Group(i) = n}) = Degree
           /\ \A i \in Points : Group(i) \in NodeSet
           /\ IsFiniteSet(Points)
<1>1. Nodes \in Nat /\ Degree \in Nat \ {0} /\ Nodes * Degree \in Nat
  BY RegularAssumption
<1>2. ASSUME NEW n \in NodeSet
      PROVE  IsFiniteSet({i \in Points : Group(i) = n}) /\ Cardinality({i \in Points : Group(i) = n}) = Degree
  <2>1. n \in Nat /\ n < Nodes /\ n * Degree \in Nat
    BY <1>1 DEF NodeSet
  <2>2. n * Degree + Degree <= Nodes * Degree
    <3>1. PICK c \in Nat : Nodes = n + 1 + c
      <4>1. Nodes - n - 1 \in Nat /\ Nodes = n + 1 + (Nodes - n - 1)
        BY <1>1, <2>1
      <4>2. QED
        BY <4>1
    <3>2. Nodes * Degree = n * Degree + Degree + c * Degree /\ c * Degree \in Nat
      BY <1>1, <2>1, <3>1
    <3>3. QED
      BY <1>1, <2>1, <3>2
  <2>3. {i \in Points : Group(i) = n} = n * Degree .. n * Degree + Degree - 1
    <3>1. \A i \in Nat : Group(i) = n <=> n * Degree <= i /\ i < n * Degree + Degree
      BY <1>1, <2>1, QuotientIs DEF Group
    <3>2. ASSUME NEW i \in Int PROVE i \in Points /\ Group(i) = n <=> i \in n * Degree .. n * Degree + Degree - 1
      BY <1>1, <2>1, <2>2, <3>1 DEF Points
    <3>3. \A i \in Points : i \in Int
      BY DEF Points
    <3>4. QED
      BY <3>2, <3>3
  <2>4. IsFiniteSet(n * Degree .. n * Degree + Degree - 1)
        /\ Cardinality(n * Degree .. n * Degree + Degree - 1) = Degree
    <3>1. n * Degree \in Int /\ n * Degree + Degree - 1 \in Int
      BY <1>1, <2>1
    <3>2. n * Degree <= n * Degree + Degree - 1
      BY <1>1, <2>1
    <3>3. (n * Degree + Degree - 1) - (n * Degree) + 1 = Degree
      BY <1>1, <2>1
    <3>4. QED
      BY <3>1, <3>2, <3>3, FS_Interval
  <2>5. QED
    BY <2>3, <2>4
<1>3. ASSUME NEW i \in Points PROVE Group(i) \in NodeSet
  <2>1. i \in Nat /\ i < Nodes * Degree
    BY <1>1 DEF Points
  <2>2. Group(i) \in Nat /\ Group(i) * Degree <= i
    <3>1. i \div Degree \in Nat
      BY <1>1, <2>1
    <3>2. QED
      BY <1>1, <2>1, <3>1, QuotientIs DEF Group
  <2>3. Group(i) < Nodes
    <3>1. SUFFICES ASSUME Group(i) >= Nodes PROVE FALSE
      BY <1>1, <2>2
    <3>2. PICK c \in Nat : Group(i) = Nodes + c
      <4>1. Group(i) - Nodes \in Nat /\ Group(i) = Nodes + (Group(i) - Nodes)
        BY <1>1, <2>2, <3>1
      <4>2. QED
        BY <4>1
    <3>3. Group(i) * Degree = Nodes * Degree + c * Degree /\ c * Degree \in Nat
      BY <1>1, <3>2
    <3>4. QED
      BY <1>1, <2>1, <2>2, <3>3
  <2>4. QED
    BY <1>1, <2>2, <2>3 DEF NodeSet
<1>4. IsFiniteSet(Points)
  BY <1>1, FS_Interval DEF Points
<1>5. QED
  BY <1>2, <1>3, <1>4

LEMMA NeighborsAreFinite ==
    ASSUME NEW n
    PROVE  IsFiniteSet(Neighbors(n)) /\ Cardinality(Neighbors(n)) \in Nat
<1>1. IsFiniteSet(NodeSet)
  BY RegularAssumption, FS_Interval DEF NodeSet
<1>2. Neighbors(n) \subseteq NodeSet
  BY DEF Neighbors, NodeSet
<1>3. QED
  BY <1>1, <1>2, FS_Subset, FS_CardinalityType

(* Where an attempt begins, each node has all its points and no neighbour.   *)
LEMMA AttemptBegins ==
    ASSUME unpaired' = Points, pairing' = {}, Degree > 0, ~ready'
    PROVE  RegularInv'
<1>1. \A n \in NodeSet : Neighbors(n)' = {} /\ PointsOf(n)' = {i \in Points : Group(i) = n}
  BY DEF Neighbors, PointsOf
<1>2. \A n \in NodeSet : Cardinality(PointsOf(n)') + Cardinality(Neighbors(n)') = Degree
  <2>1. Cardinality({}) = 0 /\ Degree \in Nat
    BY FS_EmptySet, RegularAssumption
  <2>2. QED
    BY <1>1, <2>1, GroupsHaveDegree
<1>3. QED
  BY <1>2 DEF RegularInv

LEMMA PairKeepsInv ==
    ASSUME RegularInv, Degree > 0, NEW i \in unpaired, NEW j \in unpaired, Pair(i, j)
    PROVE  RegularInv'
<1> DEFINE a == Group(i)
           b == Group(j)
<1>1. /\ unpaired \subseteq Points /\ i \in Points /\ j \in Points
      /\ \A n \in NodeSet : Cardinality(PointsOf(n)) + Cardinality(Neighbors(n)) = Degree
  BY DEF RegularInv
<1>2. a \in NodeSet /\ b \in NodeSet /\ a # b /\ {a, b} \notin pairing
  BY <1>1, GroupsHaveDegree DEF Pair, Suitable
<1>3. /\ pairing' = pairing \cup {{a, b}} /\ unpaired' = unpaired \ {i, j} /\ ~ready /\ ready' = ready
  BY DEF Pair
<1>4. \A n \in NodeSet : IsFiniteSet(PointsOf(n)) /\ Cardinality(PointsOf(n)) \in Nat
  <2>1. \A n \in NodeSet : PointsOf(n) \subseteq Points
    BY <1>1 DEF PointsOf
  <2>2. QED
    BY <2>1, GroupsHaveDegree, FS_Subset, FS_CardinalityType
<1>5. Group(i) = a /\ Group(j) = b
  OBVIOUS
<1> HIDE DEF a, b
<1>6. ASSUME NEW n \in NodeSet, NEW m \in NodeSet, NEW p \in unpaired, n # m, {n, m} = {a, b}, Group(p) = n,
             \A q \in {i, j} : q = p \/ Group(q) = m, p \in {i, j}
      PROVE  Cardinality(PointsOf(n)') + Cardinality(Neighbors(n)') = Degree
  <2>1. PointsOf(n)' = PointsOf(n) \ {p} /\ p \in PointsOf(n)
    BY <1>3, <1>6 DEF PointsOf
  <2>2. Neighbors(n)' = Neighbors(n) \cup {m}
    <3>1. ASSUME NEW k PROVE k \in Neighbors(n)' <=> k \in Neighbors(n) \/ k = m
      <4>1. k \in Neighbors(n)' <=> k \in NodeSet /\ ({n, k} \in pairing \/ {n, k} = {a, b}) /\ k # n
        BY <1>3 DEF Neighbors, NodeSet
      <4>2. {n, k} = {a, b} /\ k # n <=> k = m
        BY <1>6
      <4>3. QED
        BY <1>6, <4>1, <4>2 DEF Neighbors, NodeSet
    <3>2. QED
      BY <3>1
  <2>3. m \notin Neighbors(n)
    BY <1>2, <1>6 DEF Neighbors
  <2>4. Cardinality(PointsOf(n)') = Cardinality(PointsOf(n)) - 1
    BY <1>4, <2>1, FS_RemoveElement
  <2>5. Cardinality(Neighbors(n)') = Cardinality(Neighbors(n)) + 1
    BY <2>2, <2>3, NeighborsAreFinite, FS_AddElement
  <2>6. QED
    BY <1>1, <1>4, <2>4, <2>5, NeighborsAreFinite
<1>7. ASSUME NEW n \in NodeSet, n \notin {a, b}
      PROVE  Cardinality(PointsOf(n)') + Cardinality(Neighbors(n)') = Degree
  <2>1. PointsOf(n)' = PointsOf(n)
    BY <1>3, <1>5, <1>7 DEF PointsOf
  <2>2. Neighbors(n)' = Neighbors(n)
    <3>1. \A k : {n, k} # {a, b}
      BY <1>7
    <3>2. QED
      BY <1>3, <3>1 DEF Neighbors
  <2>3. QED
    BY <1>1, <2>1, <2>2
<1>8. \A n \in NodeSet : Cardinality(PointsOf(n)') + Cardinality(Neighbors(n)') = Degree
  <2>1. Cardinality(PointsOf(a)') + Cardinality(Neighbors(a)') = Degree
    BY <1>2, <1>5, <1>6
  <2>2. Cardinality(PointsOf(b)') + Cardinality(Neighbors(b)') = Degree
    BY <1>2, <1>5, <1>6
  <2>3. QED
    BY <1>7, <2>1, <2>2
<1>9. unpaired' \subseteq Points /\ \A e \in pairing' : \E m, n \in NodeSet : m # n /\ e = {m, n}
  BY <1>1, <1>2, <1>3 DEF RegularInv
<1>10. QED
  BY <1>3, <1>8, <1>9 DEF RegularInv

(* A node without unpaired points has its neighbours.                       *)
LEMMA AllPaired ==
    ASSUME RegularInv, Degree > 0, unpaired = {}
    PROVE  \A n \in NodeSet : Cardinality(Neighbors(n)) = Degree
<1>1. \A n \in NodeSet : PointsOf(n) = {}
  BY DEF PointsOf
<1>2. \A n \in NodeSet : 0 + Cardinality(Neighbors(n)) = Degree
  BY <1>1, FS_EmptySet DEF RegularInv
<1>3. QED
  BY <1>2, NeighborsAreFinite

LEMMA RegularStarts == RegularInit => RegularInv
<1> SUFFICES ASSUME RegularInit, Degree > 0
             PROVE  RegularInv
  BY DEF RegularInv
<1>1. \A n \in NodeSet : Neighbors(n) = {} /\ PointsOf(n) = {i \in Points : Group(i) = n}
  BY DEF Neighbors, PointsOf, RegularInit
<1>2. \A n \in NodeSet : Cardinality(PointsOf(n)) + Cardinality(Neighbors(n)) = Degree
  <2>1. Cardinality({}) = 0 /\ Degree \in Nat
    BY FS_EmptySet, RegularAssumption
  <2>2. QED
    BY <1>1, <2>1, GroupsHaveDegree
<1>3. ~ready
  <2>1. Degree # 0
    OBVIOUS
  <2>2. QED
    BY <2>1, Zenon DEF RegularInit
<1>4. QED
  BY <1>2, <1>3 DEF RegularInv, RegularInit

LEMMA RegularStep == RegularInv /\ [RegularNext]_regularVars => RegularInv' /\ (Degree > 0 /\ Finish => ready')
<1> SUFFICES ASSUME RegularInv, [RegularNext]_regularVars, Degree > 0
             PROVE  RegularInv' /\ (Finish => ready')
  BY DEF RegularInv
<1>1. ASSUME Finish PROVE ready' /\ RegularInv'
  <2>1. \A n \in NodeSet : Cardinality(Neighbors(n)) = Degree
    BY <1>1, AllPaired DEF Finish
  <2>2. ready' /\ UNCHANGED <<unpaired, pairing>>
    BY <1>1, <2>1 DEF Finish, NodeSet
  <2>3. QED
    BY <2>1, <2>2 DEF RegularInv, PointsOf, Neighbors
<1>2. ASSUME Restart PROVE RegularInv'
  <2>1. unpaired' = Points /\ pairing' = {} /\ ~ready'
    BY <1>2 DEF Restart
  <2>2. QED
    BY <2>1, AttemptBegins
<1>3. ASSUME NEW i \in unpaired, NEW j \in unpaired, Pair(i, j) PROVE RegularInv'
  BY <1>3, PairKeepsInv
<1>4. ASSUME UNCHANGED regularVars PROVE RegularInv'
  BY <1>4 DEF regularVars, RegularInv, PointsOf, Neighbors
<1>5. QED
  BY <1>1, <1>2, <1>3, <1>4 DEF RegularNext

(* Whatever points are joined, each node has as many unpaired points as it    *)
(* lacks neighbours, for any number of nodes and any degree.                 *)
THEOREM PointsComeToBeNeighbors == RegularSpec => []PointsAreNeighborsToCome
<1>1. RegularInv => PointsAreNeighborsToCome
  BY DEF RegularInv, PointsAreNeighborsToCome, PointsOf, NodeSet
<1>2. QED
  BY <1>1, RegularStarts, RegularStep, PTL DEF RegularSpec

(* The check of the degrees in createGraphRegular never fails: only an        *)
(* attempt that gets stuck is repeated.                                     *)
THEOREM DegreeCheckNeverFails == RegularSpec => [][Degree > 0 /\ Finish => ready']_regularVars
<1>1. RegularInv /\ [RegularNext]_regularVars => [Degree > 0 /\ Finish => ready']_regularVars
  BY RegularStep
<1>2. QED
  BY <1>1, RegularStarts, RegularStep, PTL DEF RegularSpec

-----------------------------------------------------------------------------
(* Directed graphs: the walks.                                              *)

(* next is followed from `first' on.                                        *)
Iterates(f, T, first, next) ==
    f[0] = first /\ \A k \in 1 .. T : f[k] = next[f[k - 1]]

LEMMA IterationExists ==
    ASSUME NEW T \in Nat, NEW W, NEW first \in W, NEW next \in [W -> W]
    PROVE  \E f \in [0 .. T -> W] : Iterates(f, T, first, next)
<1> DEFINE P == {t \in Nat : \E f \in [0 .. t -> W] : Iterates(f, t, first, next)}
<1>1. 0 \in P
  <2> DEFINE f == [k \in 0 .. 0 |-> first]
  <2>1. f \in [0 .. 0 -> W] /\ f[0] = first /\ \A k \in 1 .. 0 : f[k] = next[f[k - 1]]
    OBVIOUS
  <2> HIDE DEF f
  <2>2. Iterates(f, 0, first, next)
    BY <2>1 DEF Iterates
  <2> QED BY <2>1, <2>2
<1>2. ASSUME NEW t \in Nat, t \in P PROVE t + 1 \in P
  <2>1. PICK f \in [0 .. t -> W] : Iterates(f, t, first, next)
    BY <1>2
  <2> DEFINE g == [k \in 0 .. t + 1 |-> IF k = t + 1 THEN next[f[t]] ELSE f[k]]
  <2>2. g \in [0 .. t + 1 -> W]
    OBVIOUS
  <2>3. g[0] = f[0]
    OBVIOUS
  <2>4. ASSUME NEW k \in 1 .. t + 1 PROVE g[k] = next[g[k - 1]]
    <3>1. k - 1 \in 0 .. t /\ g[k - 1] = f[k - 1]
      OBVIOUS
    <3>2. CASE k = t + 1
      <4>1. g[k] = next[f[t]] /\ k - 1 = t
        BY <3>2
      <4> QED BY <3>1, <4>1
    <3>3. CASE k # t + 1
      <4>1. k \in 1 .. t /\ g[k] = f[k]
        BY <3>3
      <4>2. f[k] = next[f[k - 1]]
        BY <2>1, <4>1 DEF Iterates
      <4> QED BY <3>1, <4>1, <4>2
    <3> QED BY <3>2, <3>3
  <2> HIDE DEF g
  <2>5. Iterates(g, t + 1, first, next)
    BY <2>1, <2>3, <2>4 DEF Iterates
  <2> QED BY <2>2, <2>5
<1>3. Nat \subseteq P
  <2> HIDE DEF P
  <2> QED BY <1>1, <1>2, SetInduction
<1> QED BY <1>3

-----------------------------------------------------------------------------
(* Edges lead to higher ranks.                                              *)
Rises(N, rank, after) ==
    /\ rank \in [1 .. N -> Nat]
    /\ \A a \in 1 .. N : \A b \in after[a] : rank[a] < rank[b]

(* The nodes that come directly after each of N nodes.                      *)
IsRelation(N, after) == N \in Nat /\ after \in [1 .. N -> SUBSET (1 .. N)]

Closed(S, after) == \A a \in S : after[a] \subseteq S

Worklists(N) == [todo : SUBSET (1 .. N), met : SUBSET (1 .. N)]

(* One turn.                                                               *)
Turned(w, after) == IF w.todo = {} THEN w ELSE Worked(w, after)

(* The worklist as it goes from turn to turn.                               *)
Walk(f, T, N, n, after) ==
    /\ f \in [0 .. T -> Worklists(N)]
    /\ f[0] = [todo |-> {n}, met |-> {}]
    /\ \A k \in 1 .. T : f[k] = Turned(f[k - 1], after)

LEMMA LeastOf ==
    ASSUME NEW S, S \subseteq Nat, S # {}
    PROVE  Min(S) \in S
<1>1. \E x \in S : \A y \in S : x <= y
  BY LeastNumber
<1> QED BY <1>1 DEF Min

LEMMA TurnFacts ==
    ASSUME NEW N, NEW after, IsRelation(N, after), NEW w \in Worklists(N), w.todo # {}
    PROVE  /\ Min(w.todo) \in w.todo
           /\ Turned(w, after).todo = (w.todo \cup after[Min(w.todo)]) \ {Min(w.todo)}
           /\ Turned(w, after).met = w.met \cup {Min(w.todo)}
           /\ Turned(w, after) \in Worklists(N)
<1>1. w.todo \subseteq 1 .. N /\ w.met \subseteq 1 .. N
  BY DEF Worklists
<1>2. Min(w.todo) \in w.todo
  <2>1. w.todo \subseteq Nat
    BY <1>1
  <2> QED BY <2>1, LeastOf
<1> DEFINE m == Min(w.todo)
<1>3. Turned(w, after) = [todo |-> (w.todo \cup after[m]) \ {m}, met |-> w.met \cup {m}]
  BY DEF Turned, Worked
<1>4. m \in 1 .. N /\ after[m] \subseteq 1 .. N
  BY <1>1, <1>2 DEF IsRelation
<1> HIDE DEF m
<1>5. Turned(w, after) \in Worklists(N)
  BY <1>1, <1>3, <1>4 DEF Worklists
<1> QED BY <1>2, <1>3, <1>5 DEF m

LEMMA TurnsAreWorklists ==
    ASSUME NEW N, NEW after, IsRelation(N, after), NEW w \in Worklists(N)
    PROVE  Turned(w, after) \in Worklists(N)
<1>1. CASE w.todo = {}
  BY <1>1 DEF Turned
<1>2. CASE w.todo # {}
  BY <1>2, TurnFacts
<1> QED BY <1>1, <1>2

(* How many turns Met grants.                                              *)
Turns(N) == Cardinality(SUBSET (1 .. N))

LEMMA TurnsAre ==
    ASSUME NEW N \in Nat
    PROVE  Turns(N) \in Nat /\ IsFiniteSet(SUBSET (1 .. N))
<1>1. IsFiniteSet(1 .. N)
  BY FS_Interval
<1>2. IsFiniteSet(SUBSET (1 .. N))
  BY <1>1, FS_SUBSET
<1> QED BY <1>2, FS_CardinalityType DEF Turns

(* Met is where such a walk ends.                                           *)
LEMMA MetIsAWalk ==
    ASSUME NEW N, NEW after, IsRelation(N, after), NEW n \in 1 .. N
    PROVE  \E f : Walk(f, Turns(N), N, n, after) /\ Met(n, after) = f[Turns(N)].met
<1> DEFINE D == 1 .. N
           T == Turns(N)
           W == Worklists(N)
           w0 == [todo |-> {n}, met |-> {}]
           next == [w \in W |-> Turned(w, after)]
           IsRec(turn) == turn = [k \in 0 .. T |->
                             IF k = 0 THEN [todo |-> {n}, met |-> {}]
                             ELSE LET prev == turn[k - 1] IN IF prev.todo = {} THEN prev ELSE Worked(prev, after)]
<1>1. DOMAIN after = D
  BY DEF IsRelation
<1>2. T \in Nat
  BY TurnsAre DEF IsRelation
<1>3. Met(n, after) = (CHOOSE turn : IsRec(turn))[T].met
  BY <1>1 DEF Met, Turns
<1> HIDE DEF T
<1>4. w0 \in W
  BY DEF Worklists
<1>5. next \in [W -> W]
  BY TurnsAreWorklists
<1>6. PICK f \in [0 .. T -> W] : Iterates(f, T, w0, next)
  <2> HIDE DEF w0, next, W
  <2> QED BY <1>2, <1>4, <1>5, IterationExists
<1>7. \A turn : IsRec(turn) => turn[0] = w0 /\ \A k \in 1 .. T : turn[k] = Turned(turn[k - 1], after)
  <2> SUFFICES ASSUME NEW turn, IsRec(turn)
               PROVE  turn[0] = w0 /\ \A k \in 1 .. T : turn[k] = Turned(turn[k - 1], after)
    OBVIOUS
  <2>1. \A k \in 0 .. T : turn[k] = IF k = 0 THEN w0 ELSE Turned(turn[k - 1], after)
    BY DEF Turned
  <2> HIDE DEF IsRec, w0
  <2> QED BY <1>2, <2>1
<1>8. IsRec(f)
  <2>1. \A k \in 0 .. T : f[k] = IF k = 0 THEN w0 ELSE Turned(f[k - 1], after)
    <3> SUFFICES ASSUME NEW k \in 0 .. T PROVE f[k] = IF k = 0 THEN w0 ELSE Turned(f[k - 1], after)
      OBVIOUS
    <3> HIDE DEF w0, W
    <3>1. CASE k = 0
      BY <1>6, <3>1 DEF Iterates
    <3>2. CASE k # 0
      <4>1. k \in 1 .. T /\ k - 1 \in 0 .. T
        BY <1>2, <3>2
      <4>2. f[k] = next[f[k - 1]] /\ f[k - 1] \in W
        BY <1>6, <4>1 DEF Iterates
      <4> QED BY <3>2, <4>2
    <3> QED BY <3>1, <3>2
  <2>2. f = [k \in 0 .. T |-> f[k]]
    OBVIOUS
  <2> QED BY <2>1, <2>2 DEF Turned
<1>9. PICK g : IsRec(g) /\ g = CHOOSE turn : IsRec(turn)
  <2> HIDE DEF IsRec
  <2> QED BY <1>8
<1>10. g[0] = w0 /\ \A k \in 1 .. T : g[k] = Turned(g[k - 1], after)
  <2> HIDE DEF IsRec, w0
  <2> QED BY <1>7, <1>9
<1>11. g \in [0 .. T -> W]
  <2>1. g = [k \in 0 .. T |-> g[k]]
    BY <1>9
  <2> DEFINE P == {k \in Nat : k <= T => g[k] \in W}
  <2> HIDE DEF W, w0
  <2>2. 0 \in P
    BY <1>4, <1>10
  <2>3. ASSUME NEW k \in Nat, k \in P PROVE k + 1 \in P
    <3> SUFFICES ASSUME k + 1 <= T PROVE g[k + 1] \in W
      OBVIOUS
    <3>1. g[k] \in W /\ k + 1 \in 1 .. T
      BY <1>2, <2>3
    <3>2. g[k + 1] = Turned(g[k], after)
      <4>1. (k + 1) - 1 = k
        OBVIOUS
      <4> QED BY <1>10, <3>1, <4>1
    <3> QED BY <3>1, <3>2, TurnsAreWorklists DEF W
  <2>4. Nat \subseteq P
    <3> HIDE DEF P
    <3> QED BY <2>2, <2>3, SetInduction
  <2>5. \A k \in 0 .. T : g[k] \in W
    BY <2>4
  <2> QED BY <2>1, <2>5
<1>12. Walk(g, T, N, n, after)
  <2> HIDE DEF D, IsRec
  <2> QED BY <1>10, <1>11 DEF Walk
<1>13. QED
  <2> HIDE DEF IsRec, D
  <2>1. Walk(g, T, N, n, after) /\ Met(n, after) = g[T].met
    BY <1>3, <1>9, <1>12
  <2> QED BY <2>1 DEF D, T

(* A node that no node of the window leads to stays away once it is away.    *)
LEMMA StaysAway ==
    ASSUME NEW T \in Nat, NEW N, NEW after, IsRelation(N, after), NEW n \in 1 .. N,
           NEW f, Walk(f, T, N, n, after),
           NEW i \in 0 .. T, NEW j \in 0 .. T, i <= j, NEW v, v \notin f[i].todo,
           \A k \in i .. j : f[k].todo # {} /\ (k < j => v \notin after[Min(f[k].todo)])
    PROVE  v \notin f[j].todo
<1> DEFINE P == {d \in Nat : i + d <= j => v \notin f[i + d].todo}
<1>1. 0 \in P
  <2>1. i + 0 = i
    OBVIOUS
  <2> QED BY <2>1
<1>2. ASSUME NEW d \in Nat, d \in P PROVE d + 1 \in P
  <2> SUFFICES ASSUME i + (d + 1) <= j PROVE v \notin f[i + (d + 1)].todo
    OBVIOUS
  <2> DEFINE k == i + d
  <2>1. k \in i .. j /\ k < j /\ k + 1 \in 1 .. T /\ k \in 0 .. T /\ (k + 1) - 1 = k /\ i + (d + 1) = k + 1
    OBVIOUS
  <2>2. v \notin f[k].todo
    BY <1>2, <2>1
  <2> HIDE DEF k
  <2>3. f[k + 1] = Turned(f[k], after) /\ f[k] \in Worklists(N)
    BY <2>1 DEF Walk
  <2>4. f[k + 1].todo = (f[k].todo \cup after[Min(f[k].todo)]) \ {Min(f[k].todo)}
    BY <2>1, <2>3, TurnFacts
  <2> QED BY <2>1, <2>2, <2>4
<1>3. Nat \subseteq P
  <2> HIDE DEF P
  <2> QED BY <1>1, <1>2, SetInduction
<1>4. j - i \in P /\ i + (j - i) = j
  BY <1>3
<1> QED BY <1>4

(* The same worklist twice, and never an empty one.                         *)
Repeats(f, T, i, j) ==
    /\ i \in 0 .. T /\ j \in 0 .. T /\ i < j
    /\ f[i].todo = f[j].todo
    /\ \A k \in 0 .. T : f[k].todo # {}

(* Where edges lead to higher ranks no worklist comes twice, but for the      *)
(* empty one: the node of least rank that is taken out in between would have *)
(* to come back.                                                           *)
LEMMA NoWorklistTwice ==
    ASSUME NEW T \in Nat, NEW N, NEW after, IsRelation(N, after), NEW n \in 1 .. N,
           NEW rank, Rises(N, rank, after),
           NEW f, Walk(f, T, N, n, after),
           NEW i \in 0 .. T, NEW j \in 0 .. T, Repeats(f, T, i, j)
    PROVE  FALSE
<1> DEFINE first(k) == Min(f[k].todo)
           taken == {first(k) : k \in i .. j - 1}
           ranks == {rank[v] : v \in taken}
<1>0. i < j /\ f[i].todo = f[j].todo /\ \A k \in 0 .. T : f[k].todo # {}
  BY DEF Repeats
<1>1. \A k \in 0 .. T : first(k) \in f[k].todo /\ first(k) \in 1 .. N
  <2> SUFFICES ASSUME NEW k \in 0 .. T PROVE first(k) \in f[k].todo /\ first(k) \in 1 .. N
    OBVIOUS
  <2>1. f[k] \in Worklists(N) /\ f[k].todo # {}
    BY <1>0 DEF Walk
  <2>2. first(k) \in f[k].todo /\ f[k].todo \subseteq 1 .. N
    BY <2>1, TurnFacts DEF Worklists
  <2> QED BY <2>2
<1>2. PICK r \in ranks : \A q \in ranks : r <= q
  <2>1. ranks \subseteq Nat
    <3>1. \A k \in i .. j - 1 : first(k) \in 1 .. N
      BY <1>1
    <3> HIDE DEF first
    <3>2. \A k \in i .. j - 1 : rank[first(k)] \in Nat
      BY <3>1 DEF Rises
    <3> QED BY <3>2
  <2>2. i \in i .. j - 1
    BY <1>0
  <2>3. rank[first(i)] \in ranks
    BY <2>2
  <2> HIDE DEF ranks
  <2>4. ranks # {}
    BY <2>3
  <2> QED BY <2>1, <2>4, LeastNumber
<1>3. PICK t \in i .. j - 1 : rank[first(t)] = r
  BY <1>2
<1> DEFINE v == first(t)
<1>4. \A k \in i .. j - 1 : v \notin after[first(k)]
  <2> SUFFICES ASSUME NEW k \in i .. j - 1, v \in after[first(k)] PROVE FALSE
    OBVIOUS
  <2>1. first(k) \in 1 .. N /\ k \in 0 .. T
    BY <1>1
  <2>2. rank[first(k)] < rank[v]
    <3> HIDE DEF first
    <3> QED BY <2>1 DEF Rises
  <2>3. rank[v] <= rank[first(k)]
    <3>1. rank[first(k)] \in ranks
      OBVIOUS
    <3> HIDE DEF first, ranks
    <3> QED BY <1>2, <1>3, <3>1
  <2>4. rank[v] \in Nat /\ rank[first(k)] \in Nat
    <3>1. v \in 1 .. N
      BY <1>1, <1>3
    <3> HIDE DEF v, first
    <3> QED BY <2>1, <3>1 DEF Rises
  <2> HIDE DEF v, first
  <2> QED BY <2>2, <2>3, <2>4
<1>5. t + 1 \in 0 .. T /\ t + 1 <= j /\ t \in 0 .. T /\ i <= t /\ (t + 1) - 1 = t /\ t + 1 \in 1 .. T
  BY <1>0
<1> HIDE DEF taken, ranks
<1>6. v \notin f[t + 1].todo
  <2>1. f[t + 1] = Turned(f[t], after) /\ f[t] \in Worklists(N) /\ f[t].todo # {}
    BY <1>0, <1>5 DEF Walk
  <2> DEFINE w == f[t]
  <2>2. Turned(w, after).todo = (w.todo \cup after[Min(w.todo)]) \ {Min(w.todo)}
    <3>1. w \in Worklists(N) /\ w.todo # {}
      BY <2>1
    <3> HIDE DEF w
    <3> QED BY <3>1, TurnFacts
  <2> QED BY <2>1, <2>2
<1>7. v \notin f[j].todo
  <2>1. \A k \in t + 1 .. j : f[k].todo # {} /\ (k < j => v \notin after[Min(f[k].todo)])
    <3> SUFFICES ASSUME NEW k \in t + 1 .. j PROVE f[k].todo # {} /\ (k < j => v \notin after[first(k)])
      OBVIOUS
    <3>1. k \in 0 .. T /\ (k < j => k \in i .. j - 1)
      OBVIOUS
    <3> HIDE DEF v, first
    <3> QED BY <1>0, <1>4, <3>1
  <2> HIDE DEF v
  <2> QED BY <1>5, <1>6, <2>1, StaysAway
<1>8. v \notin f[t].todo
  <2>1. v \notin f[i].todo
    <3> HIDE DEF v
    <3> QED BY <1>0, <1>7
  <2>2. \A k \in i .. t : f[k].todo # {} /\ (k < t => v \notin after[Min(f[k].todo)])
    <3> SUFFICES ASSUME NEW k \in i .. t PROVE f[k].todo # {} /\ (k < t => v \notin after[first(k)])
      OBVIOUS
    <3>1. k \in 0 .. T /\ (k < t => k \in i .. j - 1)
      OBVIOUS
    <3> HIDE DEF v, first
    <3> QED BY <1>0, <1>4, <3>1
  <2>3. t \in 0 .. T /\ i <= t
    BY <1>5
  <2> HIDE DEF v, first
  <2> QED BY <2>1, <2>2, <2>3, StaysAway
<1> QED BY <1>1, <1>5, <1>8

LEMMA WalkEnds ==
    ASSUME NEW N, NEW after, IsRelation(N, after), NEW n \in 1 .. N,
           NEW rank, Rises(N, rank, after),
           NEW T, T = Turns(N),
           NEW f, Walk(f, T, N, n, after)
    PROVE  f[T].todo = {}
<1> DEFINE D == 1 .. N
<1>1. IsFiniteSet(SUBSET D) /\ T \in Nat
  BY TurnsAre DEF IsRelation
<1>2. SUFFICES ASSUME f[T].todo # {} PROVE FALSE
  BY <1>1
<1>3. \A k \in 0 .. T : f[k].todo # {}
  <2> DEFINE P == {d \in Nat : d <= T => f[T - d].todo # {}}
  <2>1. 0 \in P
    <3>1. T - 0 = T
      BY <1>1
    <3> QED BY <1>2, <3>1
  <2>2. ASSUME NEW d \in Nat, d \in P PROVE d + 1 \in P
    <3> SUFFICES ASSUME d + 1 <= T PROVE f[T - (d + 1)].todo # {}
      OBVIOUS
    <3>1. T - d \in 1 .. T /\ (T - d) - 1 = T - (d + 1)
      BY <1>1
    <3>2. f[T - d].todo # {}
      BY <1>1, <2>2
    <3>3. f[T - d] = Turned(f[T - (d + 1)], after)
      BY <3>1 DEF Walk
    <3> QED BY <3>2, <3>3 DEF Turned
  <2>3. Nat \subseteq P
    <3> HIDE DEF P
    <3> QED BY <2>1, <2>2, SetInduction
  <2>4. ASSUME NEW k \in 0 .. T PROVE f[k].todo # {}
    <3>1. T - k \in Nat /\ T - (T - k) = k /\ T - k <= T
      BY <1>1
    <3>2. T - k \in P
      BY <2>3, <3>1
    <3> QED BY <3>1, <3>2
  <2> QED BY <2>4
<1>4. \E i, j \in 0 .. T : i # j /\ f[i].todo = f[j].todo
  <2> DEFINE todo == [k \in 0 .. T |-> f[k].todo]
  <2>1. todo \in [0 .. T -> SUBSET D]
    <3>1. \A k \in 0 .. T : f[k] \in Worklists(N)
      BY DEF Walk
    <3> QED BY <3>1 DEF Worklists
  <2>2. IsFiniteSet(0 .. T) /\ Cardinality(0 .. T) = T + 1
    <3>1. IsFiniteSet(0 .. T) /\ Cardinality(0 .. T) = IF 0 > T THEN 0 ELSE T - 0 + 1
      BY <1>1, FS_Interval
    <3> QED BY <1>1, <3>1
  <2>3. Cardinality(SUBSET D) < Cardinality(0 .. T)
    <3>1. Cardinality(SUBSET D) = T
      BY DEF Turns
    <3> HIDE DEF D
    <3> QED BY <1>1, <2>2, <3>1
  <2>4. \E i, j \in 0 .. T : i # j /\ todo[i] = todo[j]
    <3> HIDE DEF todo, D
    <3> QED BY <1>1, <2>1, <2>2, <2>3, FS_PigeonHole
  <2> QED BY <2>4
<1>5. PICK i \in 0 .. T, j \in 0 .. T : i # j /\ f[i].todo = f[j].todo
  BY <1>4
<1> HIDE DEF D
<1>6. ASSUME NEW p \in 0 .. T, NEW q \in 0 .. T, p < q, f[p].todo = f[q].todo PROVE FALSE
  <2>1. Repeats(f, T, p, q)
    BY <1>3, <1>6 DEF Repeats
  <2>2. T \in Nat
    BY <1>1
  <2> QED BY <2>1, <2>2, NoWorklistTwice
<1>7. i < j \/ j < i
  BY <1>1, <1>5
<1> QED BY <1>5, <1>6, <1>7

(* What holds of the worklist in every turn.                                *)
Searches(w, n, after) ==
    /\ n \in w.todo \cup w.met
    /\ \A a \in w.met : after[a] \subseteq w.todo \cup w.met
    /\ \A S : n \in S /\ Closed(S, after) => w.todo \cup w.met \subseteq S

LEMMA TurnSearches ==
    ASSUME NEW N, NEW after, IsRelation(N, after), NEW n, NEW w \in Worklists(N), Searches(w, n, after)
    PROVE  Searches(Turned(w, after), n, after)
<1>1. CASE w.todo = {}
  BY <1>1 DEF Turned
<1>2. CASE w.todo # {}
  <2> DEFINE m == Min(w.todo)
             u == Turned(w, after)
  <2>1. m \in w.todo /\ u.todo = (w.todo \cup after[m]) \ {m} /\ u.met = w.met \cup {m}
    BY <1>2, TurnFacts
  <2> HIDE DEF m, u
  <2>2. u.todo \cup u.met = w.todo \cup w.met \cup after[m]
    BY <2>1
  <2>3. \A a \in u.met : after[a] \subseteq u.todo \cup u.met
    BY <2>1, <2>2 DEF Searches
  <2>4. ASSUME NEW S, n \in S, Closed(S, after) PROVE u.todo \cup u.met \subseteq S
    <3>1. w.todo \cup w.met \subseteq S
      BY <2>4 DEF Searches
    <3>2. m \in S /\ after[m] \subseteq S
      BY <2>1, <2>4, <3>1 DEF Closed
    <3> QED BY <2>2, <3>1, <3>2
  <2>5. n \in u.todo \cup u.met
    BY <2>2 DEF Searches
  <2>6. Searches(u, n, after)
    BY <2>3, <2>4, <2>5 DEF Searches
  <2> QED BY <2>6 DEF u
<1> QED BY <1>1, <1>2

(* In a graph without cycles, Met are the nodes that can be reached.         *)
LEMMA MetIsReached ==
    ASSUME NEW N, NEW after, IsRelation(N, after), NEW n \in 1 .. N, NEW rank, Rises(N, rank, after)
    PROVE  /\ n \in Met(n, after) /\ Met(n, after) \subseteq 1 .. N
           /\ Closed(Met(n, after), after)
           /\ \A S : n \in S /\ Closed(S, after) => Met(n, after) \subseteq S
<1> DEFINE T == Turns(N)
<1>1. PICK f : Walk(f, T, N, n, after) /\ Met(n, after) = f[T].met
  BY MetIsAWalk
<1>2. T \in Nat
  BY TurnsAre DEF IsRelation
<1>3. f[T].todo = {}
  BY <1>1, WalkEnds
<1> HIDE DEF T
<1> DEFINE P == {k \in Nat : k <= T => f[k] \in Worklists(N) /\ Searches(f[k], n, after)}
<1>4. 0 \in P
  <2>1. f[0] = [todo |-> {n}, met |-> {}] /\ f[0] \in Worklists(N)
    <3>1. 0 \in 0 .. T
      BY <1>2
    <3>2. f[0] = [todo |-> {n}, met |-> {}] /\ f \in [0 .. T -> Worklists(N)]
      BY <1>1 DEF Walk
    <3> QED BY <3>1, <3>2
  <2>2. Searches(f[0], n, after)
    BY <2>1 DEF Searches
  <2> QED BY <2>1, <2>2
<1>5. ASSUME NEW k \in Nat, k \in P PROVE k + 1 \in P
  <2> SUFFICES ASSUME k + 1 <= T PROVE f[k + 1] \in Worklists(N) /\ Searches(f[k + 1], n, after)
    OBVIOUS
  <2>1. f[k] \in Worklists(N) /\ Searches(f[k], n, after)
    BY <1>2, <1>5
  <2>2. k + 1 \in 1 .. T /\ (k + 1) - 1 = k /\ k + 1 \in 0 .. T
    BY <1>2
  <2>3. f[k + 1] = Turned(f[k], after) /\ f[k + 1] \in Worklists(N)
    BY <1>1, <2>2 DEF Walk
  <2> QED BY <2>1, <2>3, TurnSearches
<1>6. Nat \subseteq P
  <2> HIDE DEF P
  <2> QED BY <1>4, <1>5, SetInduction
<1>7. f[T] \in Worklists(N) /\ Searches(f[T], n, after)
  BY <1>2, <1>6
<1> DEFINE M == f[T].met
<1>8. M \subseteq 1 .. N
  BY <1>7 DEF Worklists
<1>9. f[T].todo \cup M = M
  BY <1>3
<1> HIDE DEF M
<1>10. n \in M /\ Closed(M, after) /\ \A S : n \in S /\ Closed(S, after) => M \subseteq S
  BY <1>7, <1>9 DEF Searches, Closed, M
<1> QED BY <1>1, <1>8, <1>10 DEF M

-----------------------------------------------------------------------------
(* What reaches what.  Here after and before are converse to each other.     *)
Converse(N, after, before) ==
    \A a, b \in 1 .. N : b \in after[a] <=> a \in before[b]

(* Everything that is reached ranks higher.                                *)
LEMMA ReachedRankHigher ==
    ASSUME NEW N, NEW after, IsRelation(N, after), NEW n \in 1 .. N, NEW rank, Rises(N, rank, after)
    PROVE  \A m \in Met(n, after) : m # n => rank[n] < rank[m]
<1> DEFINE S == {m \in 1 .. N : m = n \/ rank[n] < rank[m]}
<1>1. Closed(S, after)
  <2> SUFFICES ASSUME NEW a \in S, NEW b \in after[a] PROVE b \in S
    BY DEF Closed
  <2>1. b \in 1 .. N /\ rank[a] < rank[b] /\ rank[a] \in Nat /\ rank[b] \in Nat /\ rank[n] \in Nat
    BY DEF IsRelation, Rises
  <2> QED BY <2>1
<1>2. n \in S
  OBVIOUS
<1> HIDE DEF S
<1>3. Met(n, after) \subseteq S
  BY <1>1, <1>2, MetIsReached
<1> QED BY <1>3 DEF S

LEMMA FirstStep ==
    ASSUME NEW N, NEW after, IsRelation(N, after), NEW n \in 1 .. N, NEW rank, Rises(N, rank, after)
    PROVE  Met(n, after) \ {n} = after[n] \cup UNION {Met(m, after) \ {m} : m \in after[n]}
<1> DEFINE U == UNION {Met(m, after) : m \in after[n]}
           M == Met(n, after)
<1>1. after[n] \subseteq 1 .. N
  BY DEF IsRelation
<1>2. \A m \in after[n] : m \in Met(m, after) /\ Met(m, after) \subseteq 1 .. N /\ Closed(Met(m, after), after)
  BY <1>1, MetIsReached
<1>3. M \subseteq {n} \cup U
  <2>1. Closed({n} \cup U, after)
    <3> SUFFICES ASSUME NEW a \in {n} \cup U, NEW b \in after[a] PROVE b \in U
      BY DEF Closed
    <3>1. CASE a = n
      BY <1>2, <3>1
    <3>2. CASE a \in U
      <4>1. PICK m \in after[n] : a \in Met(m, after)
        BY <3>2
      <4>2. b \in Met(m, after)
        BY <1>2, <4>1 DEF Closed
      <4> QED BY <4>2
    <3> QED BY <3>1, <3>2
  <2> HIDE DEF U
  <2> QED BY <2>1, MetIsReached
<1>4. U \subseteq M
  <2> SUFFICES ASSUME NEW m \in after[n] PROVE Met(m, after) \subseteq M
    OBVIOUS
  <2>1. n \in M /\ Closed(M, after)
    BY MetIsReached
  <2> HIDE DEF M
  <2>2. m \in M /\ m \in 1 .. N
    BY <1>1, <2>1 DEF Closed
  <2> QED BY <2>1, <2>2, MetIsReached
<1>5. n \notin U
  <2> SUFFICES ASSUME NEW m \in after[n], n \in Met(m, after) PROVE FALSE
    OBVIOUS
  <2>1. m \in 1 .. N /\ rank[n] < rank[m] /\ rank[n] \in Nat /\ rank[m] \in Nat
    BY <1>1 DEF Rises
  <2>2. n # m => rank[m] < rank[n]
    BY <2>1, ReachedRankHigher
  <2> QED BY <2>1, <2>2
<1>6. U = after[n] \cup UNION {Met(m, after) \ {m} : m \in after[n]}
  BY <1>2
<1>7. M \ {n} = U
  <2> HIDE DEF U, M
  <2> QED BY <1>3, <1>4, <1>5
<1> QED BY <1>6, <1>7

LEMMA WayBack ==
    ASSUME NEW N, NEW after, NEW before, IsRelation(N, after), IsRelation(N, before), Converse(N, after, before),
           NEW rank, Rises(N, rank, after), NEW knar, Rises(N, knar, before),
           NEW n \in 1 .. N, NEW m \in Met(n, after)
    PROVE  n \in Met(m, before)
<1> DEFINE S == {a \in 1 .. N : n \in Met(a, before)}
<1>1. n \in S
  BY MetIsReached
<1>2. Closed(S, after)
  <2> SUFFICES ASSUME NEW a \in S, NEW b \in after[a] PROVE b \in S
    BY DEF Closed
  <2>1. a \in 1 .. N /\ b \in 1 .. N /\ n \in Met(a, before)
    BY DEF IsRelation
  <2>2. a \in before[b]
    BY <2>1 DEF Converse
  <2>3. b \in Met(b, before) /\ Closed(Met(b, before), before)
    BY <2>1, MetIsReached
  <2>4. a \in Met(b, before)
    BY <2>2, <2>3 DEF Closed
  <2>5. Met(a, before) \subseteq Met(b, before)
    BY <2>1, <2>3, <2>4, MetIsReached
  <2> QED BY <2>1, <2>5
<1> HIDE DEF S
<1>3. Met(n, after) \subseteq S
  BY <1>1, <1>2, MetIsReached
<1> QED BY <1>3 DEF S

-----------------------------------------------------------------------------
(* The component of a node under a symmetric relation.                      *)
Grows(f, T, first, near) ==
    f[0] = first /\ \A k \in 1 .. T : f[k] = f[k - 1] \cup {b \in DOMAIN near : near[b] \cap f[k - 1] # {}}

IsComponent(C, N, first, near) ==
    /\ first \subseteq C /\ C \subseteq 1 .. N
    /\ \A b \in 1 .. N : near[b] \cap C # {} => b \in C
    /\ \A S : first \subseteq S /\ (\A b \in 1 .. N : near[b] \cap S # {} => b \in S) => C \subseteq S

(* In as many rounds as there are nodes, the component is complete.          *)
LEMMA ComponentIsComplete ==
    ASSUME NEW N, NEW near, IsRelation(N, near), NEW first, first \subseteq 1 .. N, first # {},
           NEW f, Grows(f, N, first, near)
    PROVE  IsComponent(f[N], N, first, near)
<1> DEFINE D == 1 .. N
           more(c) == c \cup {b \in D : near[b] \cap c # {}}
           Full(k) == more(f[k]) = f[k]
           P == {k \in Nat : k <= N =>
                    /\ first \subseteq f[k] /\ f[k] \subseteq D
                    /\ Full(k) \/ Cardinality(f[k]) > k
                    /\ \A S : first \subseteq S /\ (\A b \in D : near[b] \cap S # {} => b \in S) => f[k] \subseteq S}
<1>1. N \in Nat /\ DOMAIN near = D /\ IsFiniteSet(D)
  BY FS_Interval DEF IsRelation
<1>2. f[0] = first /\ \A k \in 1 .. N : f[k] = more(f[k - 1])
  BY <1>1 DEF Grows
<1>3. \A c \in SUBSET D : IsFiniteSet(c) /\ Cardinality(c) \in Nat
  BY <1>1, FS_Subset, FS_CardinalityType
<1>4. 0 \in P
  <2>1. first \in SUBSET D /\ first # {}
    OBVIOUS
  <2>2. Cardinality(first) > 0
    <3> HIDE DEF D
    <3> QED BY <1>3, <2>1, FS_EmptySet
  <2> QED BY <1>2, <2>1, <2>2
<1>5. ASSUME NEW k \in Nat, k \in P PROVE k + 1 \in P
  <2> SUFFICES ASSUME k + 1 <= N PROVE k + 1 \in P
    OBVIOUS
  <2> DEFINE c == f[k]
             d == f[k + 1]
  <2>1. /\ first \subseteq c /\ c \subseteq D
        /\ Full(k) \/ Cardinality(c) > k
        /\ \A S : first \subseteq S /\ (\A b \in D : near[b] \cap S # {} => b \in S) => c \subseteq S
    BY <1>1, <1>5
  <2>2. d = more(c)
    <3>1. k + 1 \in 1 .. N /\ (k + 1) - 1 = k
      BY <1>1
    <3> QED BY <1>2, <3>1
  <2>3. first \subseteq d /\ d \subseteq D /\ c \subseteq d
    BY <2>1, <2>2
  <2>4. ASSUME NEW S, first \subseteq S, \A b \in D : near[b] \cap S # {} => b \in S PROVE d \subseteq S
    <3>1. c \subseteq S
      BY <2>1, <2>4
    <3> QED BY <2>2, <2>4, <3>1
  <2>5. Full(k + 1) \/ Cardinality(d) > k + 1
    <3>1. CASE c = d
      BY <2>2, <3>1
    <3>2. CASE c # d
      <4>1. ~Full(k)
        BY <2>2, <3>2
      <4>2. Cardinality(c) > k /\ IsFiniteSet(d) /\ Cardinality(d) \in Nat /\ Cardinality(c) \in Nat
        BY <1>3, <2>1, <2>3, <4>1
      <4>3. Cardinality(c) < Cardinality(d)
        BY <2>3, <3>2, <4>2, FS_Subset
      <4> QED BY <4>2, <4>3
    <3> QED BY <3>1, <3>2
  <2> QED BY <2>3, <2>4, <2>5
<1>6. Nat \subseteq P
  <2> HIDE DEF P
  <2> QED BY <1>4, <1>5, SetInduction
<1>7. /\ first \subseteq f[N] /\ f[N] \subseteq D
      /\ Full(N) \/ Cardinality(f[N]) > N
      /\ \A S : first \subseteq S /\ (\A b \in D : near[b] \cap S # {} => b \in S) => f[N] \subseteq S
  BY <1>1, <1>6
<1>8. Full(N)
  <2>1. Cardinality(f[N]) <= Cardinality(D)
    BY <1>1, <1>7, FS_Subset
  <2>2. Cardinality(D) = N
    <3>1. Cardinality(D) = IF 1 > N THEN 0 ELSE N - 1 + 1
      BY <1>1, FS_Interval
    <3> QED BY <1>1, <3>1
  <2>3. Cardinality(f[N]) \in Nat
    BY <1>3, <1>7
  <2> HIDE DEF Full
  <2> QED BY <1>1, <1>7, <2>1, <2>2, <2>3
<1> QED BY <1>7, <1>8 DEF IsComponent

-----------------------------------------------------------------------------
(* The edges of a directed graph, from its lists.                           *)
ChOf(g) == [a \in DOMAIN g.nb1 |-> NodesOf(g.nb1[a])]

PaOf(g) == [a \in DOMAIN g.nb2 |-> NodesOf(g.nb2[a])]

(* As many nodes on either side, and no cycle.                              *)
Acyclic(g) ==
    /\ Len(g.nb1) = Len(g.nb2)
    /\ \E rank : Rises(Len(g.nb1), rank, ChOf(g))

DAGInv(g) == GraphInv(g) /\ Acyclic(g)

(* The nodes of a list, under what the graph counts.                        *)
LEMMA EdgesAreCounted ==
    ASSUME NEW g, g \in Graph
    PROVE  \A a \in 1 .. Len(g.nb1) : \A b \in 1 .. Len(g.nb2) : b \in ChOf(g)[a] <=> Count(g)[<<a, b>>] # 0
<1> SUFFICES ASSUME NEW a \in 1 .. Len(g.nb1), NEW b \in 1 .. Len(g.nb2)
             PROVE  b \in ChOf(g)[a] <=> Count(g)[<<a, b>>] # 0
  OBVIOUS
<1> DEFINE P == PositionsOf(g.nb1[a], b)
<1>1. b \in ChOf(g)[a] <=> P # {}
  BY NodesAre DEF ChOf, NodesOf, PositionsOf
<1>2. IsFiniteSet(P) /\ Count(g)[<<a, b>>] = Cardinality(P)
  BY CountFacts DEF Counts
<1> HIDE DEF P
<1> QED BY <1>1, <1>2, FS_EmptySet

LEMMA ListsAreRelation ==
    ASSUME NEW l1, NEW l2, Lists(l1), Lists(l2), AllMirrored(l1, l2), Len(l1) = Len(l2)
    PROVE  IsRelation(Len(l1), [a \in DOMAIN l1 |-> NodesOf(l1[a])])
<1>1. DOMAIN l1 = 1 .. Len(l1) /\ Len(l1) \in Nat
  BY DEF Lists
<1>2. ASSUME NEW a \in 1 .. Len(l1) PROVE NodesOf(l1[a]) \subseteq 1 .. Len(l1)
  <2> SUFFICES ASSUME NEW k \in DOMAIN l1[a] PROVE l1[a][k].node \in 1 .. Len(l1)
    BY DEF NodesOf
  <2>1. k \in 1 .. Len(l1[a])
    BY DEF Lists
  <2>2. Mirrored(l1, l2, a, k)
    BY <2>1, MirrorOf
  <2> QED BY <2>2 DEF Mirrored
<1> QED BY <1>1, <1>2 DEF IsRelation

LEMMA WayThere ==
    ASSUME NEW l1, NEW l2, Lists(l1), Lists(l2), AllMirrored(l1, l2),
           NEW a \in 1 .. Len(l1), NEW b, b \in NodesOf(l1[a])
    PROVE  a \in NodesOf(l2[b])
<1>1. PICK k \in 1 .. Len(l1[a]) : l1[a][k].node = b
  BY DEF NodesOf, Lists
<1>2. Mirrored(l1, l2, a, k)
  BY MirrorOf
<1> DEFINE d == l1[a][k].dual
<1>3. b \in 1 .. Len(l2) /\ d \in 1 .. Len(l2[b]) /\ l2[b][d].node = a
  BY <1>1, <1>2 DEF Mirrored
<1> HIDE DEF d
<1>4. d \in DOMAIN l2[b]
  BY <1>3 DEF Lists
<1> QED BY <1>3, <1>4 DEF NodesOf

(* Parents and children are converse to each other.                         *)
LEMMA EdgesAreRelations ==
    ASSUME NEW g, GraphInv(g), Len(g.nb1) = Len(g.nb2)
    PROVE  /\ IsRelation(Len(g.nb1), ChOf(g)) /\ IsRelation(Len(g.nb1), PaOf(g))
           /\ Converse(Len(g.nb1), ChOf(g), PaOf(g)) /\ Converse(Len(g.nb1), PaOf(g), ChOf(g))
<1>1. /\ Lists(g.nb1) /\ Lists(g.nb2) /\ AllMirrored(g.nb1, g.nb2) /\ AllMirrored(g.nb2, g.nb1)
      /\ DOMAIN g.nb1 = 1 .. Len(g.nb1) /\ DOMAIN g.nb2 = 1 .. Len(g.nb1)
  BY NodesAre DEF GraphInv, Paired
<1>2. IsRelation(Len(g.nb1), ChOf(g)) /\ IsRelation(Len(g.nb1), PaOf(g))
  BY <1>1, ListsAreRelation DEF ChOf, PaOf
<1>3. ASSUME NEW a \in 1 .. Len(g.nb1), NEW b \in 1 .. Len(g.nb1)
      PROVE  b \in ChOf(g)[a] <=> a \in PaOf(g)[b]
  <2>1. ChOf(g)[a] = NodesOf(g.nb1[a]) /\ PaOf(g)[b] = NodesOf(g.nb2[b])
    BY <1>1 DEF ChOf, PaOf
  <2>2. b \in NodesOf(g.nb1[a]) => a \in NodesOf(g.nb2[b])
    BY <1>1, WayThere
  <2>3. a \in NodesOf(g.nb2[b]) => b \in NodesOf(g.nb1[a])
    BY <1>1, WayThere
  <2> QED BY <2>1, <2>2, <2>3
<1> QED BY <1>2, <1>3 DEF Converse

-----------------------------------------------------------------------------
(* Ranks can be taken from 1 .. N, and turned around.                       *)
LEMMA SmallRanks ==
    ASSUME NEW N, NEW after, IsRelation(N, after), NEW rank, Rises(N, rank, after)
    PROVE  \E r \in [1 .. N -> 1 .. N] : Rises(N, r, after)
<1> DEFINE D == 1 .. N
           below(a) == {b \in D : rank[b] <= rank[a]}
           r == [a \in D |-> Cardinality(below(a))]
<1>1. N \in Nat /\ IsFiniteSet(D)
  BY FS_Interval DEF IsRelation
<1>2. Cardinality(D) = N
  <2>1. Cardinality(D) = IF 1 > N THEN 0 ELSE N - 1 + 1
    BY <1>1, FS_Interval
  <2> QED BY <1>1, <2>1
<1>3. rank \in [D -> Nat] /\ \A a \in D : \A b \in after[a] : b \in D /\ rank[a] < rank[b]
  BY DEF Rises, IsRelation
<1> HIDE DEF D
<1>4. ASSUME NEW a \in D PROVE IsFiniteSet(below(a)) /\ Cardinality(below(a)) \in 1 .. N /\ a \in below(a)
  <2>1. below(a) \in SUBSET D /\ a \in below(a)
    BY <1>3
  <2> HIDE DEF below
  <2>2. IsFiniteSet(below(a)) /\ Cardinality(below(a)) <= N
    BY <1>1, <1>2, <2>1, FS_Subset
  <2>3. Cardinality(below(a)) \in Nat /\ Cardinality(below(a)) # 0
    BY <2>1, <2>2, FS_CardinalityType, FS_EmptySet
  <2> QED BY <1>1, <2>1, <2>2, <2>3
<1>5. ASSUME NEW a \in D, NEW b \in after[a] PROVE Cardinality(below(a)) < Cardinality(below(b))
  <2>1. b \in D /\ rank[a] < rank[b] /\ \A c \in D : rank[c] \in Nat
    BY <1>3
  <2>2. below(a) \in SUBSET below(b) /\ b \in below(b) /\ b \notin below(a)
    BY <2>1
  <2> HIDE DEF below
  <2>3. IsFiniteSet(below(b)) /\ Cardinality(below(a)) \in Nat /\ Cardinality(below(b)) \in Nat
    BY <1>4, <2>1
  <2>4. Cardinality(below(a)) <= Cardinality(below(b)) /\ Cardinality(below(a)) # Cardinality(below(b))
    BY <2>2, <2>3, FS_Subset
  <2> QED BY <2>3, <2>4
<1> HIDE DEF below
<1>6. r \in [D -> 1 .. N] /\ \A a \in D : r[a] = Cardinality(below(a))
  BY <1>4
<1> HIDE DEF r
<1>7. Rises(N, r, after)
  <2>1. r \in [1 .. N -> Nat]
    BY <1>1, <1>6 DEF D
  <2>2. ASSUME NEW a \in D, NEW b \in after[a] PROVE r[a] < r[b]
    BY <1>3, <1>5, <1>6
  <2> QED BY <2>1, <2>2 DEF Rises, D
<1> QED BY <1>6, <1>7 DEF D

LEMMA RanksTurned ==
    ASSUME NEW N, NEW after, NEW before, IsRelation(N, after), IsRelation(N, before), Converse(N, before, after),
           NEW rank, Rises(N, rank, after)
    PROVE  \E knar : Rises(N, knar, before)
<1>1. PICK r \in [1 .. N -> 1 .. N] : Rises(N, r, after)
  BY SmallRanks
<1> DEFINE k == [a \in 1 .. N |-> N - r[a]]
<1>2. N \in Nat
  BY DEF IsRelation
<1>3. k \in [1 .. N -> Nat] /\ \A a \in 1 .. N : k[a] = N - r[a] /\ r[a] \in Nat
  BY <1>1, <1>2
<1> HIDE DEF k
<1>4. ASSUME NEW a \in 1 .. N, NEW b \in before[a] PROVE k[a] < k[b]
  <2>1. b \in 1 .. N
    BY DEF IsRelation
  <2>2. a \in after[b]
    BY <2>1 DEF Converse
  <2>3. r[b] < r[a]
    BY <1>1, <2>1, <2>2 DEF Rises
  <2> QED BY <1>2, <1>3, <2>1, <2>3
<1>5. Rises(N, k, before)
  BY <1>3, <1>4 DEF Rises
<1> QED BY <1>5

-----------------------------------------------------------------------------
(* What the operations do to the edges.                                     *)
SameEdges(g, h) == \A a, b \in 1 .. Len(g.nb1) : b \in ChOf(h)[a] <=> b \in ChOf(g)[a]

LEMMA NodeKeepsEdges ==
    ASSUME NEW g, g \in Graph, NEW h, h \in Graph, AddsNode(g, h),
           NEW a \in 1 .. Len(g.nb1), NEW b \in 1 .. Len(g.nb2)
    PROVE  b \in ChOf(h)[a] <=> b \in ChOf(g)[a]
<1>1. Lists(g.nb1) /\ Lists(g.nb2)
  BY GraphFacts
<1>2. a \in 1 .. Len(h.nb1) /\ b \in 1 .. Len(h.nb2)
  BY <1>1 DEF AddsNode, Lists
<1>3. <<a, b>> \in Pairs(g)
  BY DEF Pairs
<1>4. Count(h)[<<a, b>>] = Count(g)[<<a, b>>]
  BY <1>3 DEF AddsNode
<1> QED BY <1>2, <1>4, EdgesAreCounted

LEMMA OthersKeepEdges ==
    ASSUME NEW g, g \in Graph, NEW h, h \in Graph, NEW n1, NEW n2, OthersKeep(g, h, n1, n2),
           NEW a \in 1 .. Len(g.nb1), NEW b \in 1 .. Len(g.nb2), ~(a = n1 /\ b = n2)
    PROVE  b \in ChOf(h)[a] <=> b \in ChOf(g)[a]
<1>1. a \in 1 .. Len(h.nb1) /\ b \in 1 .. Len(h.nb2)
  BY DEF OthersKeep
<1>2. <<a, b>> \in Pairs(g) \ {<<n1, n2>>}
  BY DEF Pairs
<1>3. Count(h)[<<a, b>>] = Count(g)[<<a, b>>]
  BY <1>2 DEF OthersKeep
<1> QED BY <1>1, <1>3, EdgesAreCounted

(* A rank for each node, none above their number.                           *)
LEMMA RanksOf ==
    ASSUME NEW g, DAGInv(g)
    PROVE  /\ Len(g.nb1) \in Nat /\ Len(g.nb2) = Len(g.nb1) /\ IsRelation(Len(g.nb1), ChOf(g))
           /\ \E r \in [1 .. Len(g.nb1) -> 1 .. Len(g.nb1)] : Rises(Len(g.nb1), r, ChOf(g))
<1>1. IsRelation(Len(g.nb1), ChOf(g))
  BY EdgesAreRelations DEF DAGInv, Acyclic
<1>2. PICK rank : Rises(Len(g.nb1), rank, ChOf(g))
  BY DEF DAGInv, Acyclic
<1> QED BY <1>1, <1>2, SmallRanks DEF DAGInv, Acyclic, IsRelation

(* A new node gets a rank above all others: it has no children.              *)
LEMMA DAGNodeAdded ==
    ASSUME NEW g, DAGInv(g), NEW bound, NEW parents \in BoundedSeq(DOMAIN g.nb1, bound)
    PROVE  DAGInv(WithNode1(WithLinkedNode2(g, parents)))
<1> DEFINE f == WithLinkedNode1(Flip(g), parents)
           N == Len(g.nb1)
<1>1. g \in Graph /\ GraphInv(g)
  BY DEF DAGInv, GraphInv
<1>2. Flip(g) \in Graph /\ GraphInv(Flip(g)) /\ Flip(g).nb1 = g.nb2 /\ Flip(g).nb2 = g.nb1
  BY <1>1, GraphFacts, FlippedInv
<1>3. LinkedAdds(Flip(g), f) /\ f \in Graph
  BY <1>2, LinkingIsOne
<1>4. PICK h : h = Flip(f)
  OBVIOUS
<1>5. h = WithLinkedNode2(g, parents)
  BY <1>4 DEF WithLinkedNode2
<1> HIDE DEF f
<1>6. h \in Graph /\ Flip(h) = f /\ GraphInv(h) /\ Len(h.nb2) = Len(g.nb2) + 1 /\ Len(h.nb1) = Len(g.nb1)
  <2>1. h \in Graph /\ Flip(h) = f /\ h.nb1 = f.nb2 /\ h.nb2 = f.nb1
    BY <1>3, <1>4, GraphFacts
  <2>2. PICK ns \in Seq(1 .. Len(Flip(g).nb2)) : LinkedMade(Flip(g).nb1, Flip(g).nb2, ns, f.nb1, f.nb2)
    BY <1>3 DEF LinkedAdds
  <2>3. GraphInv(f)
    BY <1>2, <1>3, <2>2, LinkedNodeAdded
  <2>4. Len(f.nb1) = Len(g.nb2) + 1 /\ Len(f.nb2) = Len(g.nb1)
    BY <1>2, <2>2 DEF LinkedMade
  <2> QED BY <1>4, <2>1, <2>3, <2>4, FlippedInv
<1>7. AddsNode(g, h)
  BY <1>1, <1>3, <1>6, LinkedAddsOne
<1>8. PICK k : k = WithNode1(h)
  OBVIOUS
<1>9. NodeAdds(h, k) /\ k \in Graph /\ GraphInv(k)
  BY <1>6, <1>8, AddingIsOne, NodeAdded
<1>10. AddsNode(h, k)
  BY <1>6, <1>9, NodeAddsOne
<1>11. PICK r \in [1 .. N -> 1 .. N] : Rises(N, r, ChOf(g))
  BY RanksOf
<1>12. N \in Nat /\ Len(g.nb2) = N
  BY RanksOf
<1>13. Len(k.nb1) = N + 1 /\ k.nb2 = h.nb2 /\ k.nb1[N + 1] = << >>
  <2> DEFINE none == << >>
             m == Append(h.nb1, none)
  <2>1. none \in Seq(Neighbor)
    OBVIOUS
  <2>2. h = [nb1 |-> h.nb1, nb2 |-> h.nb2] /\ h.nb1 \in Seq(Seq(Neighbor))
    BY <1>6, GraphFacts
  <2>3. k = [h EXCEPT !.nb1 = m]
    BY <1>8 DEF WithNode1
  <2> HIDE DEF none
  <2>4. WithList(h.nb1, none, m)
    BY <2>1, <2>2, NodeExtends
  <2> HIDE DEF m
  <2>5. k.nb1 = m /\ k.nb2 = h.nb2
    BY <2>2, <2>3
  <2> QED BY <1>6, <2>4, <2>5 DEF WithList, none
<1>14. Len(k.nb2) = N + 1
  BY <1>6, <1>12, <1>13
<1>15. IsRelation(N + 1, ChOf(k))
  BY <1>9, <1>13, <1>14, EdgesAreRelations
<1> HIDE DEF N
<1>16. ChOf(k)[N + 1] = {}
  <2>1. N + 1 \in DOMAIN k.nb1
    BY <1>9, <1>12, <1>13, NodesAre
  <2> QED BY <1>13, <2>1 DEF ChOf, NodesOf
<1>17. ASSUME NEW a \in 1 .. N, NEW b \in 1 .. N PROVE b \in ChOf(k)[a] <=> b \in ChOf(g)[a]
  <2>1. a \in 1 .. Len(g.nb1) /\ b \in 1 .. Len(g.nb2)
    BY <1>12 DEF N
  <2>2. a \in 1 .. Len(h.nb1) /\ b \in 1 .. Len(h.nb2)
    BY <1>6, <1>12 DEF N
  <2>3. b \in ChOf(h)[a] <=> b \in ChOf(g)[a]
    BY <1>1, <1>6, <1>7, <2>1, NodeKeepsEdges
  <2>4. b \in ChOf(k)[a] <=> b \in ChOf(h)[a]
    BY <1>6, <1>9, <1>10, <2>2, NodeKeepsEdges
  <2> QED BY <2>3, <2>4
<1> DEFINE s == [a \in 1 .. N + 1 |-> IF a = N + 1 THEN N + 1 ELSE r[a]]
<1>18. s \in [1 .. N + 1 -> Nat] /\ s[N + 1] = N + 1 /\ \A a \in 1 .. N : s[a] = r[a] /\ r[a] \in 1 .. N
  BY <1>11, <1>12
<1> HIDE DEF s
<1>19. ASSUME NEW a \in 1 .. N + 1, NEW b \in ChOf(k)[a] PROVE s[a] < s[b]
  <2>1. b \in 1 .. N + 1
    BY <1>15 DEF IsRelation
  <2>2. a \in 1 .. N
    BY <1>12, <1>16
  <2>3. CASE b = N + 1
    BY <1>12, <1>18, <2>2, <2>3
  <2>4. CASE b # N + 1
    <3>1. b \in 1 .. N
      BY <1>12, <2>1, <2>4
    <3>2. r[a] < r[b]
      BY <1>11, <1>17, <2>2, <3>1 DEF Rises
    <3> QED BY <1>18, <2>2, <3>1, <3>2
  <2> QED BY <2>3, <2>4
<1>20. Rises(N + 1, s, ChOf(k))
  BY <1>18, <1>19 DEF Rises
<1> QED BY <1>5, <1>8, <1>9, <1>13, <1>14, <1>20 DEF DAGInv, Acyclic

(* Whoever can be reached from the edge's head is lifted above the rest.     *)
LEMMA DAGEdgeAdded ==
    ASSUME NEW g, DAGInv(g), NEW n1 \in 1 .. Len(g.nb1), NEW n2 \in 1 .. Len(g.nb1),
           n1 \notin Met(n2, ChOf(g))
    PROVE  DAGInv(WithEdge(g, n1, n2, FALSE))
<1> DEFINE N == Len(g.nb1)
           M == Met(n2, ChOf(g))
<1>1. PICK h : h = WithEdge(g, n1, n2, FALSE)
  OBVIOUS
<1>2. g \in Graph /\ GraphInv(g) /\ N \in Nat /\ Len(g.nb2) = N /\ IsRelation(N, ChOf(g))
  BY RanksOf DEF DAGInv, GraphInv
<1>3. PICK r \in [1 .. N -> 1 .. N] : Rises(N, r, ChOf(g))
  BY RanksOf
<1>4. h = g \/ EdgeMade(g, n1, n2, h)
  BY <1>1, <1>2, EdgeIsMade
<1>5. CASE h = g
  BY <1>1, <1>5
<1>6. CASE EdgeMade(g, n1, n2, h)
  <2>1. EdgeAdds(g, h, n1, n2) /\ h \in Graph
    BY <1>2, <1>6 DEF EdgeAdds, EdgeMade
  <2>2. GraphInv(h) /\ OthersKeep(g, h, n1, n2)
    BY <1>2, <1>6, <2>1, EdgeAdded, EdgeAddsOne DEF AddsEdge
  <2>3. Len(h.nb1) = N /\ Len(h.nb2) = N
    BY <1>2, <2>2 DEF OthersKeep
  <2>4. IsRelation(N, ChOf(h))
    BY <2>2, <2>3, EdgesAreRelations
  <2>5. n2 \in M /\ Closed(M, ChOf(g)) /\ n1 \notin M
    BY <1>2, <1>3, MetIsReached
  <2>6. ASSUME NEW a \in 1 .. N, NEW b \in 1 .. N, ~(a = n1 /\ b = n2) PROVE b \in ChOf(h)[a] <=> b \in ChOf(g)[a]
    BY <1>2, <2>1, <2>2, <2>6, OthersKeepEdges
  <2> HIDE DEF N, M
  <2> DEFINE s == [a \in 1 .. N |-> IF a \in M THEN r[a] + N ELSE r[a]]
  <2>7. s \in [1 .. N -> Nat] /\ \A a \in 1 .. N : r[a] \in 1 .. N /\ s[a] = IF a \in M THEN r[a] + N ELSE r[a]
    <3>1. N \in Nat
      BY <1>2
    <3>2. ASSUME NEW a \in 1 .. N PROVE r[a] \in 1 .. N /\ r[a] \in Nat /\ r[a] + N \in Nat
      <4>1. r[a] \in 1 .. N
        BY <1>3
      <4> QED BY <3>1, <4>1
    <3> QED BY <3>2
  <2> HIDE DEF s
  <2>8. ASSUME NEW a \in 1 .. N, NEW b \in ChOf(h)[a] PROVE s[a] < s[b]
    <3>1. b \in 1 .. N
      BY <2>4 DEF IsRelation
    <3>2. CASE a = n1 /\ b = n2
      <4>1. s[n1] = r[n1] /\ s[n2] = r[n2] + N /\ r[n1] \in 1 .. N /\ r[n2] \in 1 .. N
        BY <2>5, <2>7, <3>1, <3>2
      <4> QED BY <1>2, <3>2, <4>1
    <3>3. CASE ~(a = n1 /\ b = n2)
      <4>1. b \in ChOf(g)[a]
        BY <2>6, <3>1, <3>3
      <4>2. r[a] < r[b]
        BY <1>3, <4>1 DEF Rises
      <4>3. a \in M => b \in M
        BY <2>5, <4>1 DEF Closed
      <4>4. /\ s[a] = IF a \in M THEN r[a] + N ELSE r[a]
            /\ s[b] = IF b \in M THEN r[b] + N ELSE r[b]
            /\ r[a] \in 1 .. N /\ r[b] \in 1 .. N
        BY <2>7, <3>1
      <4>5. N \in Nat
        BY <1>2
      <4>6. CASE a \in M
        BY <4>2, <4>3, <4>4, <4>5, <4>6
      <4>7. CASE a \notin M /\ b \in M
        BY <4>2, <4>4, <4>5, <4>7
      <4>8. CASE a \notin M /\ b \notin M
        BY <4>2, <4>4, <4>8
      <4> QED BY <4>6, <4>7, <4>8
    <3> QED BY <3>2, <3>3
  <2>9. Rises(N, s, ChOf(h))
    BY <2>7, <2>8 DEF Rises
  <2> QED BY <1>1, <2>2, <2>3, <2>9 DEF DAGInv, Acyclic
<1> QED BY <1>4, <1>5, <1>6

LEMMA DAGEdgeErased ==
    ASSUME NEW g, DAGInv(g), NEW n1 \in 1 .. Len(g.nb1), NEW n2 \in 1 .. Len(g.nb1)
    PROVE  DAGInv(WithoutEdge(g, n1, n2))
<1> DEFINE N == Len(g.nb1)
<1>1. PICK h : h = WithoutEdge(g, n1, n2)
  OBVIOUS
<1>2. g \in Graph /\ GraphInv(g) /\ N \in Nat /\ Len(g.nb2) = N /\ IsRelation(N, ChOf(g))
  BY RanksOf DEF DAGInv, GraphInv
<1>3. PICK r \in [1 .. N -> 1 .. N] : Rises(N, r, ChOf(g))
  BY RanksOf
<1>4. h = g \/ \E k : \E d : EdgeTaken(g, h, n1, k, n2, d)
  BY <1>1, <1>2, EdgeIsTaken
<1>5. CASE h = g
  BY <1>1, <1>5
<1>6. CASE h # g
  <2>1. PICK k, d : EdgeTaken(g, h, n1, k, n2, d)
    BY <1>4, <1>6
  <2>2. EdgeErases(g, h, n1, n2) /\ h \in Graph
    BY <1>2, <2>1 DEF EdgeErases, EdgeTaken
  <2>3. GraphInv(h) /\ ErasesEdge(g, h, n1, n2)
    BY <1>2, <2>1, <2>2, EdgeErased, EdgeErasesOne
  <2>4. Len(h.nb1) = N /\ Len(h.nb2) = N /\ OthersKeep(g, h, n1, n2)
    BY <1>2, <2>3 DEF OthersKeep, ErasesEdge
  <2>5. IsRelation(N, ChOf(h))
    BY <2>3, <2>4, EdgesAreRelations
  <2>6. ASSUME NEW a \in 1 .. N, NEW b \in ChOf(h)[a] PROVE b \in ChOf(g)[a]
    <3>1. b \in 1 .. N
      BY <2>5 DEF IsRelation
    <3>2. CASE a = n1 /\ b = n2
      <4>1. Count(g)[<<n1, n2>>] # 0
        <5>1. <<n1, n2>> \in Pairs(g)
          BY <1>2 DEF Pairs
        <5>2. Count(g)[<<n1, n2>>] \in Nat
          BY <1>2, <5>1, CountedPairs
        <5> QED BY <2>3, <5>2 DEF ErasesEdge
      <4> QED BY <1>2, <3>2, <4>1, EdgesAreCounted
    <3>3. CASE ~(a = n1 /\ b = n2)
      BY <1>2, <2>2, <2>4, <3>1, <3>3, <2>6, OthersKeepEdges
    <3> QED BY <3>2, <3>3
  <2>7. Rises(N, r, ChOf(h))
    BY <1>3, <2>6 DEF Rises
  <2> QED BY <1>1, <2>3, <2>4, <2>7 DEF DAGInv, Acyclic
<1> QED BY <1>5, <1>6

LEMMA DAGNodeErased ==
    ASSUME NEW g, DAGInv(g), NEW n \in 1 .. Len(g.nb1)
    PROVE  DAGInv(WithoutDAGNode(g, n))
<1> DEFINE N == Len(g.nb1)
<1>1. g \in Graph /\ GraphInv(g) /\ N \in Nat /\ Len(g.nb2) = N /\ IsRelation(N, ChOf(g))
  BY RanksOf DEF DAGInv, GraphInv
<1>2. PICK r \in [1 .. N -> 1 .. N] : Rises(N, r, ChOf(g))
  BY RanksOf
<1>3. PICK h : h = WithoutNode1(g, n)
  OBVIOUS
<1>4. NodeErases(g, h, n) /\ h \in Graph
  BY <1>1, <1>3, ErasingIsOne
<1>5. GraphInv(h) /\ ErasesNode1(g, h, n)
  BY <1>1, <1>4, NodeErased, NodeErasesOne1 DEF NodeErases
<1>6. Len(h.nb1) = N - 1 /\ Len(h.nb2) = N
  BY <1>1, <1>5 DEF ErasesNode1
<1> DEFINE f == WithoutNode1(Flip(h), n)
<1>7. Flip(h) \in Graph /\ GraphInv(Flip(h)) /\ Flip(h).nb1 = h.nb2 /\ Flip(h).nb2 = h.nb1
  BY <1>4, <1>5, GraphFacts, FlippedInv
<1>8. NodeErases(Flip(h), f, n) /\ f \in Graph
  <2>1. n \in 1 .. Len(Flip(h).nb1)
    BY <1>6, <1>7
  <2> QED BY <1>7, <2>1, ErasingIsOne
<1>9. PICK k : k = Flip(f)
  OBVIOUS
<1>10. k = WithoutDAGNode(g, n)
  BY <1>3, <1>9 DEF WithoutDAGNode, WithoutNode2
<1> HIDE DEF f
<1>11. GraphInv(f)
  BY <1>7, <1>8, NodeErased DEF NodeErases
<1>12. k \in Graph /\ GraphInv(k) /\ Flip(k) = f
  BY <1>8, <1>9, <1>11, GraphFacts, FlippedInv
<1>13. ErasesNode2(h, k, n)
  BY <1>5, <1>8, <1>12, NodeErasesOne2
<1>14. Len(k.nb1) = N - 1 /\ Len(k.nb2) = N - 1
  BY <1>6, <1>13 DEF ErasesNode2
<1>15. IsRelation(N - 1, ChOf(k))
  BY <1>12, <1>14, EdgesAreRelations
<1>16. \A a, b \in 1 .. N - 1 : Old(a, n) \in 1 .. N /\ Old(b, n) \in 1 .. N
  BY <1>1, OldAndNew
<1>17. ASSUME NEW a \in 1 .. N - 1, NEW b \in ChOf(k)[a] PROVE b \in 1 .. N - 1 /\ Old(b, n) \in ChOf(g)[Old(a, n)]
  <2>1. b \in 1 .. N - 1
    BY <1>15 DEF IsRelation
  <2>2. <<a, b>> \in Pairs(k) /\ <<a, Old(b, n)>> \in Pairs(h)
    BY <1>6, <1>14, <1>16, <2>1 DEF Pairs
  <2>3. Count(k)[<<a, b>>] = Count(h)[<<a, Old(b, n)>>]
    BY <1>13, <2>2 DEF ErasesNode2
  <2>4. Count(h)[<<a, Old(b, n)>>] = Count(g)[<<Old(a, n), Old(b, n)>>]
    BY <1>5, <2>2 DEF ErasesNode1
  <2>5. Count(k)[<<a, b>>] # 0
    BY <1>12, <1>14, <2>1, EdgesAreCounted
  <2>6. Old(a, n) \in 1 .. Len(g.nb1) /\ Old(b, n) \in 1 .. Len(g.nb2)
    BY <1>1, <1>16, <2>1
  <2> QED BY <1>1, <2>1, <2>3, <2>4, <2>5, <2>6, EdgesAreCounted
<1> HIDE DEF N
<1> DEFINE s == [a \in 1 .. N - 1 |-> r[Old(a, n)]]
<1>18. s \in [1 .. N - 1 -> Nat] /\ \A a \in 1 .. N - 1 : s[a] = r[Old(a, n)]
  BY <1>1, <1>2, <1>16
<1> HIDE DEF s
<1>19. ASSUME NEW a \in 1 .. N - 1, NEW b \in ChOf(k)[a] PROVE s[a] < s[b]
  <2>1. b \in 1 .. N - 1 /\ Old(b, n) \in ChOf(g)[Old(a, n)] /\ Old(a, n) \in 1 .. N
    BY <1>16, <1>17
  <2>2. r[Old(a, n)] < r[Old(b, n)]
    BY <1>2, <2>1 DEF Rises
  <2> QED BY <1>18, <2>1, <2>2
<1>20. Rises(N - 1, s, ChOf(k))
  BY <1>18, <1>19 DEF Rises
<1> QED BY <1>10, <1>12, <1>14, <1>20 DEF DAGInv, Acyclic

LEMMA DAGStarts == DAGInit => DAGInv(dag)
<1> SUFFICES ASSUME NEW n \in 0 .. MaxDAGNodes, dag = Unlinked(n, n) PROVE DAGInv(dag)
  BY DEF DAGInit
<1>1. n \in Nat
  OBVIOUS
<1>2. GraphInv(dag) /\ Len(dag.nb1) = n /\ Len(dag.nb2) = n /\ \A a \in 1 .. n : Len(dag.nb1[a]) = 0
  BY <1>1, UnlinkedFacts
<1>3. ASSUME NEW a \in 1 .. n PROVE ChOf(dag)[a] = {}
  <2>1. a \in DOMAIN dag.nb1 /\ DOMAIN dag.nb1[a] = 1 .. 0
    BY <1>2 DEF GraphInv, Paired, Lists
  <2>2. DOMAIN dag.nb1[a] = {}
    BY <2>1
  <2> QED BY <2>1, <2>2 DEF ChOf, NodesOf
<1> DEFINE rank == [a \in 1 .. n |-> 0]
<1>4. rank \in [1 .. n -> Nat]
  OBVIOUS
<1> HIDE DEF rank
<1>5. Rises(n, rank, ChOf(dag))
  BY <1>3, <1>4 DEF Rises
<1> QED BY <1>2, <1>5 DEF DAGInv, Acyclic

LEMMA DAGSteps ==
    ASSUME DAGInv(dag), DAGNext
    PROVE  DAGInv(dag')
<1>1. DOMAIN dag.nb1 = 1 .. Len(dag.nb1) /\ dag \in Graph
  BY NodesAre DEF DAGInv, GraphInv
<1>2. CASE AddDAGNode
  BY <1>2, DAGNodeAdded DEF AddDAGNode
<1>3. ASSUME NEW n \in DOMAIN dag.nb1, EraseDAGNode(n) PROVE DAGInv(dag')
  BY <1>1, <1>3, DAGNodeErased DEF EraseDAGNode
<1>4. \A n1, n2 : existsDirectedPath(n2, n1) <=> n1 \in Met(n2, ChOf(dag))
  BY DEF existsDirectedPath, ChOf, ch
<1>5. ASSUME NEW n1 \in DOMAIN dag.nb1, NEW n2 \in DOMAIN dag.nb1, AddDAGEdge(n1, n2) PROVE DAGInv(dag')
  <2>1. CASE Allowed(n1, n2) /\ n1 # n2
    <3>1. dag' = WithEdge(dag, n1, n2, FALSE)
      BY <1>5, <2>1 DEF AddDAGEdge
    <3>2. n1 \notin Met(n2, ChOf(dag))
      BY <1>4, <2>1 DEF Allowed
    <3> QED BY <1>1, <3>1, <3>2, DAGEdgeAdded
  <2>2. CASE ~(Allowed(n1, n2) /\ n1 # n2)
    BY <1>5, <2>2 DEF AddDAGEdge
  <2> QED BY <2>1, <2>2
<1>6. ASSUME NEW n1 \in DOMAIN dag.nb1, NEW n2 \in DOMAIN dag.nb1, AddDAGEdgeUnchecked(n1, n2) PROVE DAGInv(dag')
  <2>1. dag' = WithEdge(dag, n1, n2, FALSE)
    BY <1>6 DEF AddDAGEdgeUnchecked
  <2>2. n1 \notin Met(n2, ChOf(dag))
    BY <1>6 DEF AddDAGEdgeUnchecked, descendants, ChOf, ch
  <2> QED BY <1>1, <2>1, <2>2, DAGEdgeAdded
<1>7. ASSUME NEW n1 \in DOMAIN dag.nb1, NEW n2 \in DOMAIN dag.nb1, EraseDAGEdge(n1, n2) PROVE DAGInv(dag')
  BY <1>1, <1>7, DAGEdgeErased DEF EraseDAGEdge
<1> QED BY <1>2, <1>3, <1>5, <1>6, <1>7 DEF DAGNext

(* The inductive invariant: consistent lists, as many nodes on either side,  *)
(* and ranks that rise along the edges.                                    *)
THEOREM DAGInvHolds == DAGSpec => []DAGInv(dag)
<1>1. DAGInv(dag) /\ [DAGNext]_dag => DAGInv(dag)'
  BY DAGSteps
<1> QED BY <1>1, DAGStarts, PTL DEF DAGSpec

(* After any sequence of operations on nodes and edges, whatever the number  *)
(* of nodes, the parents and children of a DAG are dual to each other and   *)
(* there is no cycle: addEdge refuses every edge that would close one, and  *)
(* erasing a node leaves none behind when the numbers move up.             *)
THEOREM DAGsStayAcyclic == DAGSpec => []AcyclicAndConsistent
<1>1. ASSUME DAGInv(dag) PROVE AcyclicAndConsistent
  <2>1. /\ Lists(dag.nb1) /\ Lists(dag.nb2) /\ AllMirrored(dag.nb1, dag.nb2) /\ AllMirrored(dag.nb2, dag.nb1)
        /\ dag \in Graph
    BY <1>1 DEF DAGInv, GraphInv, Paired
  <2>2. Linked(dag.nb1, dag.nb2) /\ Linked(dag.nb2, dag.nb1)
    BY <2>1, MirroredAreLinked
  <2>3. PICK r \in [1 .. Len(dag.nb1) -> 1 .. Len(dag.nb1)] : Rises(Len(dag.nb1), r, ChOf(dag))
    BY <1>1, RanksOf
  <2>4. DOMAIN dag.nb1 = 1 .. Len(dag.nb1)
    BY <2>1, NodesAre
  <2>5. ASSUME NEW n \in DOMAIN dag.nb1, NEW m \in ch(n) PROVE r[n] < r[m]
    BY <2>3, <2>4 DEF Rises, ChOf, ch
  <2> QED BY <2>2, <2>3, <2>4, <2>5 DEF AcyclicAndConsistent
<1> QED BY <1>1, DAGInvHolds, PTL

-----------------------------------------------------------------------------
(* isConnected, of a component that has been computed.                      *)
NearOf(g) == [a \in DOMAIN g.nb1 |-> PaOf(g)[a] \cup ChOf(g)[a]]

Separates(N, near, part) == \A n \in part : near[n] \subseteq part

LEMMA FallsApart ==
    ASSUME NEW N, NEW near, IsRelation(N, near), Converse(N, near, near), 1 <= N,
           NEW f, Grows(f, N, {1}, near)
    PROVE  f[N] = 1 .. N <=> \A part \in (SUBSET (1 .. N)) \ {{}, 1 .. N} : ~Separates(N, near, part)
<1> DEFINE D == 1 .. N
           C == f[N]
<1>1. N \in Nat /\ {1} \subseteq D /\ {1} # {} /\ near \in [D -> SUBSET D]
  BY DEF IsRelation
<1>2. /\ {1} \subseteq C /\ C \subseteq D
      /\ \A b \in D : near[b] \cap C # {} => b \in C
      /\ \A S : {1} \subseteq S /\ (\A b \in D : near[b] \cap S # {} => b \in S) => C \subseteq S
  <2>1. PICK first : first = {1}
    OBVIOUS
  <2>2. first \subseteq 1 .. N /\ first # {} /\ Grows(f, N, first, near)
    BY <1>1, <2>1
  <2>3. IsComponent(f[N], N, first, near)
    BY <2>2, ComponentIsComplete
  <2> QED BY <2>1, <2>3 DEF IsComponent
<1> HIDE DEF C
<1>3. \A a, b \in D : b \in near[a] => a \in near[b]
  BY DEF Converse
<1> HIDE DEF D
<1>4. ASSUME NEW part \in SUBSET D, Separates(N, near, part), NEW b \in D, near[b] \cap part # {} PROVE b \in part
  <2>1. PICK c \in part : c \in near[b]
    BY <1>4
  <2>2. b \in near[c] /\ near[c] \subseteq part
    BY <1>3, <1>4, <2>1 DEF Separates
  <2> QED BY <2>2
<1>5. ASSUME C = D, NEW part \in SUBSET D, part # {}, part # D, Separates(N, near, part) PROVE FALSE
  <2>1. CASE 1 \in part
    <3>1. C \subseteq part
      BY <1>2, <1>4, <1>5, <2>1
    <3> QED BY <1>5, <3>1
  <2>2. CASE 1 \notin part
    <3>1. \A b \in D : near[b] \cap (D \ part) # {} => b \in D \ part
      BY <1>5 DEF Separates
    <3>2. {1} \subseteq D \ part
      BY <1>1, <2>2
    <3>3. C \subseteq D \ part
      BY <1>2, <3>1, <3>2
    <3> QED BY <1>5, <3>3
  <2> QED BY <2>1, <2>2
<1>6. ASSUME C # D PROVE C \in (SUBSET D) \ {{}, D} /\ Separates(N, near, C)
  <2>1. C \in (SUBSET D) \ {{}, D}
    BY <1>2, <1>6
  <2>2. ASSUME NEW n \in C, NEW b \in near[n] PROVE b \in C
    <3>1. n \in D /\ b \in D
      BY <1>1, <1>2
    <3>2. n \in near[b]
      BY <1>3, <3>1
    <3> QED BY <1>2, <3>1, <3>2
  <2> QED BY <2>1, <2>2 DEF Separates
<1>7. C = D <=> \A part \in (SUBSET D) \ {{}, D} : ~Separates(N, near, part)
  BY <1>5, <1>6
<1> QED BY <1>7 DEF C, D

LEMMA NearIsSymmetric ==
    ASSUME NEW g, DAGInv(g)
    PROVE  /\ NearOf(g) = [a \in 1 .. Len(g.nb1) |-> PaOf(g)[a] \cup ChOf(g)[a]]
           /\ IsRelation(Len(g.nb1), NearOf(g)) /\ Converse(Len(g.nb1), NearOf(g), NearOf(g))
<1>1. /\ IsRelation(Len(g.nb1), ChOf(g)) /\ IsRelation(Len(g.nb1), PaOf(g))
      /\ Converse(Len(g.nb1), ChOf(g), PaOf(g)) /\ DOMAIN g.nb1 = 1 .. Len(g.nb1)
  BY EdgesAreRelations, NodesAre DEF DAGInv, Acyclic, GraphInv
<1>2. NearOf(g) = [a \in 1 .. Len(g.nb1) |-> PaOf(g)[a] \cup ChOf(g)[a]]
  BY <1>1 DEF NearOf
<1>3. IsRelation(Len(g.nb1), NearOf(g))
  BY <1>1, <1>2 DEF IsRelation
<1>4. Converse(Len(g.nb1), NearOf(g), NearOf(g))
  BY <1>1, <1>2 DEF Converse
<1> QED BY <1>2, <1>3, <1>4

(* The component that isConnected computes.                                 *)
LEMMA ComponentGrows ==
    ASSUME DAGInv(dag), Len(dag.nb1) # 0
    PROVE  \E f : /\ Grows(f, Len(dag.nb1), {1}, NearOf(dag))
                  /\ isConnected <=> dag.nb1 = << >> \/ f[Len(dag.nb1)] = 1 .. Len(dag.nb1)
<1> DEFINE N == Len(dag.nb1)
           D == DOMAIN dag.nb1
           W == SUBSET (1 .. N)
           more(c) == c \cup {n \in D : (pa(n) \cup ch(n)) \cap c # {}}
           next == [c \in W |-> more(c)]
           IsRec(component) == component = [k \in 0 .. Len(dag.nb1) |->
               IF k = 0 THEN {1}
               ELSE LET prev == component[k - 1]
                    IN  prev \cup {n \in DOMAIN dag.nb1 : (pa(n) \cup ch(n)) \cap prev # {}}]
<1>1. N \in Nat /\ D = 1 .. N /\ N # 0 /\ 1 \in 1 .. N
  BY RanksOf, NodesAre DEF DAGInv, GraphInv
<1>2. isConnected <=> dag.nb1 = << >> \/ (CHOOSE component : IsRec(component))[N] = 1 .. N
  <2>1. isConnected <=> dag.nb1 = << >> \/ (CHOOSE component : IsRec(component))[N] = D
    BY DEF isConnected
  <2> HIDE DEF IsRec, D
  <2> QED BY <1>1, <2>1
<1> HIDE DEF N
<1>3. {1} \in W
  BY <1>1
<1>4. next \in [W -> W]
  <2> SUFFICES ASSUME NEW c \in W PROVE more(c) \in W
    OBVIOUS
  <2> HIDE DEF D
  <2> QED BY <1>1
<1> HIDE DEF D
<1>5. PICK first : first = {1}
  OBVIOUS
<1>6. PICK f \in [0 .. N -> W] : Iterates(f, N, first, next)
  <2> HIDE DEF next, W
  <2> QED BY <1>1, <1>3, <1>4, <1>5, IterationExists
<1>7. \A c : IsRec(c) <=> /\ c = [k \in 0 .. N |-> c[k]]
                         /\ \A k \in 0 .. N : c[k] = IF k = 0 THEN {1} ELSE more(c[k - 1])
  BY DEF N, D
<1>8. \A c : IsRec(c) => c[0] = {1} /\ \A k \in 1 .. N : c[k] = more(c[k - 1])
  <2> HIDE DEF IsRec, more
  <2> QED BY <1>1, <1>7
<1>9. IsRec(f)
  <2>1. \A k \in 0 .. N : f[k] = IF k = 0 THEN {1} ELSE more(f[k - 1])
    <3> SUFFICES ASSUME NEW k \in 0 .. N PROVE f[k] = IF k = 0 THEN {1} ELSE more(f[k - 1])
      OBVIOUS
    <3> HIDE DEF W, more
    <3>1. CASE k = 0
      BY <1>5, <1>6, <3>1 DEF Iterates
    <3>2. CASE k # 0
      <4>1. k \in 1 .. N /\ k - 1 \in 0 .. N
        BY <1>1, <3>2
      <4>2. f[k] = next[f[k - 1]] /\ f[k - 1] \in W
        BY <1>6, <4>1 DEF Iterates
      <4> QED BY <3>2, <4>2
    <3> QED BY <3>1, <3>2
  <2>2. f = [k \in 0 .. N |-> f[k]]
    OBVIOUS
  <2> HIDE DEF IsRec, more
  <2> QED BY <1>7, <2>1, <2>2
<1>10. PICK c : IsRec(c) /\ c = CHOOSE component : IsRec(component)
  <2> HIDE DEF IsRec
  <2> QED BY <1>9
<1>11. c[0] = {1} /\ \A k \in 1 .. N : c[k] = more(c[k - 1])
  <2> HIDE DEF IsRec, more
  <2> QED BY <1>8, <1>10
<1>12. Grows(c, N, {1}, NearOf(dag))
  <2>1. DOMAIN NearOf(dag) = D /\ \A n \in D : NearOf(dag)[n] = pa(n) \cup ch(n)
    <3>1. DOMAIN dag.nb2 = D
      BY <1>1, RanksOf, NodesAre DEF DAGInv, GraphInv, N
    <3> QED BY <3>1 DEF NearOf, PaOf, ChOf, pa, ch, D
  <2>2. \A prev : more(prev) = prev \cup {b \in DOMAIN NearOf(dag) : NearOf(dag)[b] \cap prev # {}}
    BY <2>1
  <2> HIDE DEF more
  <2> QED BY <1>11, <2>2 DEF Grows
<1>13. isConnected <=> dag.nb1 = << >> \/ c[N] = 1 .. N
  <2> HIDE DEF IsRec
  <2> QED BY <1>2, <1>10
<1> QED BY <1>12, <1>13 DEF N

LEMMA ConnectedUnlessApart ==
    ASSUME DAGInv(dag)
    PROVE  isConnected <=> \A part \in (SUBSET DOMAIN dag.nb1) \ {{}, DOMAIN dag.nb1} :
                              \E n \in part : (pa(n) \cup ch(n)) \ part # {}
<1> DEFINE N == Len(dag.nb1)
           near == NearOf(dag)
<1>1. N \in Nat /\ DOMAIN dag.nb1 = 1 .. N /\ DOMAIN dag.nb2 = 1 .. N
  BY RanksOf, NodesAre DEF DAGInv, GraphInv
<1>2. IsRelation(N, near) /\ Converse(N, near, near)
  BY NearIsSymmetric
<1>3. \A n \in 1 .. N : near[n] = pa(n) \cup ch(n)
  BY <1>1, NearIsSymmetric DEF ChOf, PaOf, pa, ch
<1>4. ASSUME NEW part \in SUBSET (1 .. N)
      PROVE  (\E n \in part : (pa(n) \cup ch(n)) \ part # {}) <=> ~Separates(N, near, part)
  BY <1>3 DEF Separates
<1>5. CASE N = 0
  <2>1. 1 .. N = {}
    BY <1>5
  <2>2. dag.nb1 = << >>
    BY <1>5, GraphFacts, EmptySeq DEF DAGInv, GraphInv
  <2>3. (SUBSET DOMAIN dag.nb1) \ {{}, DOMAIN dag.nb1} = {}
    BY <1>1, <2>1
  <2> QED BY <2>2, <2>3 DEF isConnected
<1>6. CASE N # 0
  <2>1. PICK f : /\ Grows(f, N, {1}, near)
                 /\ isConnected <=> dag.nb1 = << >> \/ f[N] = 1 .. N
    BY <1>6, ComponentGrows
  <2>2. f[N] = 1 .. N <=> \A part \in (SUBSET (1 .. N)) \ {{}, 1 .. N} : ~Separates(N, near, part)
    BY <1>1, <1>2, <1>6, <2>1, FallsApart
  <2>3. dag.nb1 # << >>
    BY <1>6
  <2>4. isConnected <=> \A part \in (SUBSET (1 .. N)) \ {{}, 1 .. N} : ~Separates(N, near, part)
    BY <2>1, <2>2, <2>3
  <2> QED BY <1>1, <1>4, <2>4
<1> QED BY <1>5, <1>6

(* On every directed graph that can come about, of any size, the worklists   *)
(* of ancestors, descendants and existsDirectedPath find the nodes that can *)
(* be reached and no others, and isConnected is right.                      *)
THEOREM DAGWalksStayRight == DAGSpec => []DAGWalksAreRight
<1>1. ASSUME DAGInv(dag) PROVE DAGWalksAreRight
  <2> DEFINE N == Len(dag.nb1)
             C == ChOf(dag)
             P == PaOf(dag)
  <2>1. DOMAIN dag.nb1 = 1 .. N /\ DOMAIN dag.nb2 = 1 .. N
    BY <1>1, RanksOf, NodesAre DEF DAGInv, GraphInv
  <2>2. IsRelation(N, C) /\ IsRelation(N, P) /\ Converse(N, C, P) /\ Converse(N, P, C)
    BY <1>1, EdgesAreRelations DEF DAGInv, Acyclic
  <2>3. PICK rank : Rises(N, rank, C)
    BY <1>1 DEF DAGInv, Acyclic
  <2>4. PICK knar : Rises(N, knar, P)
    BY <2>2, <2>3, RanksTurned
  <2>5. \A n : ancestors(n) = Met(n, P) \ {n} /\ descendants(n) = Met(n, C) \ {n}
    BY DEF ancestors, descendants, PaOf, ChOf, pa, ch
  <2>6. \A n \in 1 .. N : pa(n) = P[n]
    BY <2>1 DEF PaOf, pa
  <2> HIDE DEF N, C, P
  <2>7. ASSUME NEW n \in 1 .. N PROVE ancestors(n) = pa(n) \cup UNION {ancestors(m) : m \in pa(n)}
    <3>1. Met(n, P) \ {n} = P[n] \cup UNION {Met(m, P) \ {m} : m \in P[n]}
      BY <2>2, <2>4, FirstStep
    <3> QED BY <2>5, <2>6, <3>1
  <2>8. ASSUME NEW n \in 1 .. N PROVE descendants(n) = {m \in 1 .. N : n \in ancestors(m)}
    <3>1. Met(n, C) \subseteq 1 .. N
      BY <2>2, <2>3, MetIsReached
    <3>2. ASSUME NEW m \in 1 .. N PROVE m \in Met(n, C) <=> n \in Met(m, P)
      <4>1. m \in Met(n, C) => n \in Met(m, P)
        BY <2>2, <2>3, <2>4, WayBack
      <4>2. n \in Met(m, P) => m \in Met(n, C)
        BY <2>2, <2>3, <2>4, WayBack
      <4> QED BY <4>1, <4>2
    <3> QED BY <2>5, <3>1, <3>2
  <2> QED BY <1>1, <2>1, <2>7, <2>8, ConnectedUnlessApart DEF DAGWalksAreRight
<1> QED BY <1>1, DAGInvHolds, PTL

(* Both together.                                                          *)
THEOREM DAGsStayRight == DAGSpec => []DAGIsRight
BY DAGsStayAcyclic, DAGWalksStayRight, PTL DEF DAGIsRight

=============================================================================
