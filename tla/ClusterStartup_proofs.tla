----------------------- MODULE ClusterStartup_proofs -----------------------
(***************************************************************************)
(* Proofs about the start of a cluster, for clusters of every size.        *)
(*                                                                         *)
(* The first part is about the topologies: what the recursive functions of *)
(* Topology compute, what the groups of the tree are, and that a server    *)
(* waits for as many connections as clients make.  The second part is the  *)
(* inductive invariant of ClusterStartup and the two properties it gives;  *)
(* the third is about Configuration, which decides which topologies start; *)
(* the last proves that each node, from the options alone, starts its part *)
(* of the topology they ask for.                                           *)
(***************************************************************************)
EXTENDS ClusterStartup, Configuration, SequenceTheorems, FiniteSetTheorems, WellFoundedInduction, TLAPS

(* A set of natural numbers that is not empty has a least element. It      *)
(* stands in for induction: the proofs below take a least counterexample.  *)
LEMMA LeastElement ==
  ASSUME NEW T \in SUBSET Nat, T # {}
  PROVE  \E x \in T : \A y \in T : x <= y
<1> DEFINE R == OpToRel(<, Nat)
<1>1. IsWellFoundedOn(R, Nat)
  BY NatLessThanWellFounded
<1>2. \A x, y \in Nat : y < x => <<y, x>> \in R
  BY DEF OpToRel
<1> HIDE DEF R
<1>3. PICK x \in T : \A y \in T : ~(<<y, x>> \in R)
  BY <1>1, WFMin
<1>4. ASSUME NEW y \in T PROVE x <= y
  <2>1. x \in Nat /\ y \in Nat
    OBVIOUS
  <2>2. ~(y < x)
    BY <1>2, <1>3, <2>1
  <2>3. QED
    BY <2>1, <2>2
<1>5. QED
  BY <1>3, <1>4

(* What the quotients and remainders of the topology code are.             *)
LEMMA DivMod ==
  ASSUME NEW a \in Nat, NEW b \in Nat \ {0}
  PROVE  a \div b \in Nat /\ a % b \in 0 .. b - 1 /\ a = b * (a \div b) + (a % b)
  OBVIOUS

(* A number written as a multiple of b and a remainder has only that       *)
(* quotient and that remainder.                                            *)
LEMMA DivModUnique ==
  ASSUME NEW b \in Nat \ {0}, NEW q \in Nat, NEW r \in 0 .. b - 1
  PROVE  (b * q + r) \div b = q /\ (b * q + r) % b = r
  OBVIOUS

(* What the local functions of IsTreeSize and Steps are defined to be. *)
Divides(f, S, B, w) == f = [v \in S |-> v \in B \/ (v % w = 0 /\ f[v \div w])]

(* A function defined by recursion on the quotient exists: it is the       *)
(* characteristic function of the least set closed under the recursion. The *)
(* CHOOSE that a recursive function definition stands for therefore has a  *)
(* witness.                                                                *)
LEMMA FixedPoint ==
  ASSUME NEW S \in SUBSET Nat, NEW B, NEW w \in Nat \ {0},
         \A v \in S : v % w = 0 => v \div w \in S
  PROVE  \E f : Divides(f, S, B, w)
<1> DEFINE Closed(Q) == \A v \in S : v \in B \/ (v % w = 0 /\ v \div w \in Q) => v \in Q
           P == {v \in S : \A Q \in SUBSET S : Closed(Q) => v \in Q}
           f == [v \in S |-> v \in P]
<1>1. Closed(P)
  <2> SUFFICES ASSUME NEW v \in S, v \in B \/ (v % w = 0 /\ v \div w \in P),
                      NEW Q \in SUBSET S, Closed(Q)
               PROVE  v \in Q
    OBVIOUS
  <2>1. QED
    OBVIOUS
<1>2. ASSUME NEW v \in P, v \notin B, ~(v % w = 0 /\ v \div w \in P) PROVE FALSE
  <2> DEFINE Q == P \ {v}
  <2>1. Q \in SUBSET S /\ v \notin Q
    OBVIOUS
  <2>2. Closed(Q)
    <3> SUFFICES ASSUME NEW u \in S, u \in B \/ (u % w = 0 /\ u \div w \in Q)
                 PROVE  u \in Q
      OBVIOUS
    <3>1. u \in P
      BY <1>1
    <3>2. u # v
      BY <1>2
    <3>3. QED
      BY <3>1, <3>2
  <2>3. QED
    BY <2>1, <2>2
<1>3. \A v \in S : v \in P <=> v \in B \/ (v % w = 0 /\ v \div w \in P)
  BY <1>1, <1>2
<1> HIDE DEF P
<1>4. \A v \in S : (v \in P) = (v \in B \/ (v % w = 0 /\ f[v \div w]))
  <2> SUFFICES ASSUME NEW v \in S
               PROVE  (v \in P) = (v \in B \/ (v % w = 0 /\ f[v \div w]))
    OBVIOUS
  <2>1. CASE v % w = 0
    <3>1. f[v \div w] = (v \div w \in P)
      BY <2>1
    <3>2. v \in P <=> v \in B \/ v \div w \in P
      BY <1>3, <2>1
    <3> HIDE DEF f
    <3>3. (v % w = 0 /\ f[v \div w]) <=> v \div w \in P
      BY <2>1, <3>1, Zenon
    <3>4. \A x \in BOOLEAN : (x <=> v \div w \in P) => (v \in P) = (v \in B \/ x)
      BY <3>2
    <3>5. (v % w = 0 /\ f[v \div w]) \in BOOLEAN
      BY Zenon
    <3>6. QED
      BY <3>3, <3>4, <3>5, Zenon
  <2>2. CASE v % w # 0
    BY <1>3, <2>2
  <2>3. QED
    BY <2>1, <2>2
<1>5. f = [v \in S |-> v \in B \/ (v % w = 0 /\ f[v \div w])]
  BY <1>4
<1>6. QED
  BY <1>5 DEF Divides

(* n is divided into windows of w groups of s nodes. *)
Fits(n, s, w) == \E q \in Nat : n = (s * w) * q

(* Members of F but 1 are multiples of w, and their quotients are in F;    *)
(* members of G may also be w.                                             *)
Powers(F, n, w) == \A s \in 1 .. n : s \in F => s = 1 \/ (s % w = 0 /\ s \div w \in F)
Sizes(G, n, w) == \A v \in 1 .. n : v \in G => v = 1 \/ v = w \/ (v % w = 0 /\ v \div w \in G)
AllDivide(F, G, n, w) ==
  \A s, v \in 1 .. n : s \in F /\ v \in G /\ s < v => Fits(v, s, w)

(* A step of the tree (a power of w) below a size made of w-fold groups    *)
(* divides that size into whole windows of w groups. By a least            *)
(* counterexample: dividing both by w gives a smaller one.                 *)
LEMMA PowersDivide ==
  ASSUME NEW n \in Nat, NEW w \in Nat, w >= 2, NEW F, NEW G, Powers(F, n, w), Sizes(G, n, w)
  PROVE  AllDivide(F, G, n, w)
<1> USE DEF Powers, Sizes, AllDivide, Fits
<1> DEFINE Multiple(s, v) == \E q \in Nat : v = (s * w) * q
           T == {s \in 1 .. n : \E v \in 1 .. n : s \in F /\ v \in G /\ s < v /\ ~Multiple(s, v)}
<1>0. \A a \in Nat : a \div w \in Nat /\ a = w * (a \div w) + (a % w)
  <2> TAKE a \in Nat
  <2>1. w \in Nat \ {0}
    OBVIOUS
  <2>2. QED
    BY <2>1, DivMod
<1>1. SUFFICES ASSUME T # {} PROVE FALSE
  OBVIOUS
<1>2. PICK s \in T : \A r \in T : s <= r
  <2>1. T \in SUBSET Nat
    OBVIOUS
  <2> HIDE DEF T
  <2>2. QED
    BY <1>1, <2>1, LeastElement
<1>3. PICK v \in 1 .. n : s \in F /\ v \in G /\ s < v /\ ~Multiple(s, v)
  BY <1>2
<1>4. s \in 1 .. n /\ s \in Nat /\ v \in Nat
  OBVIOUS
<1>5. CASE s = 1
  <2>1. (v = w * (v \div w) /\ v \div w \in Nat) \/ v = w * 1
    <3>1. v = w \/ v % w = 0
      BY <1>3, <1>4, <1>5
    <3>2. v \div w \in Nat /\ v = w * (v \div w) + (v % w)
      BY <1>4, <1>0
    <3>3. QED
      BY <3>1, <3>2
  <2>2. PICK q \in Nat : v = w * q
    BY <2>1
  <2>3. v = (s * w) * q
    BY <2>2, <1>5
  <2>4. QED
    BY <2>3, <1>3
<1>6. CASE s # 1
  <2>1. s % w = 0 /\ s \div w \in F
    BY <1>3, <1>4, <1>6
  <2>2. PICK r \in Nat : r = s \div w /\ s = w * r
    BY <2>1, <1>4, <1>0
  <2>3. r >= 1 /\ r < s
    BY <2>2, <1>4
  <2>4. s >= w
    BY <2>2, <2>3
  <2>5. v % w = 0 /\ v \div w \in G
    BY <1>3, <1>4, <2>4
  <2>6. PICK u \in Nat : u = v \div w /\ v = w * u
    BY <2>5, <1>4, <1>0
  <2>7. r < u /\ u <= v
    <3>1. w * r < w * u
      BY <1>3, <2>2, <2>6
    <3>2. r < u
      BY <3>1
    <3>3. u <= w * u
      OBVIOUS
    <3>4. QED
      BY <3>2, <3>3, <2>6
  <2>8. r \in 1 .. n /\ u \in 1 .. n /\ r \in F /\ u \in G
    BY <2>1, <2>2, <2>3, <2>5, <2>6, <2>7, <1>4
  <2>9. r \notin T
    <3> HIDE DEF T
    <3>1. QED
      BY <1>2, <1>4, <2>3
  <2>10. Multiple(r, u)
    BY <2>7, <2>8, <2>9
  <2>11. PICK q \in Nat : u = (r * w) * q
    BY <2>10
  <2>12. v = (s * w) * q
    <3>1. v = w * ((r * w) * q)
      BY <2>6, <2>11
    <3>2. w * ((r * w) * q) = ((w * r) * w) * q
      OBVIOUS
    <3>3. QED
      BY <3>1, <3>2, <2>2
  <2>13. QED
    BY <2>12, <1>3
<1>7. QED
  BY <1>5, <1>6

(* The functions themselves. *)
IsPower(f, n, w) == f = [s \in 1 .. n |-> s = 1 \/ (s % w = 0 /\ f[s \div w])]
IsSize(f, n, w) == f = [v \in 0 .. n |-> v = 0 \/ v = w \/ (v % w = 0 /\ f[v \div w])]

(* Steps and IsTreeSize, which the set-up of the tree topology computes by *)
(* dividing by w, with their recursive functions named.                    *)
LEMMA Unfold ==
  ASSUME NEW n \in Nat, NEW w \in Nat
  PROVE  /\ Steps(n, w) = {s \in 1 .. n - 1 : (CHOOSE f : IsPower(f, n, w))[s]}
         /\ IsTreeSize(n, w) <=> (CHOOSE f : IsSize(f, n, w))[n]
<1>1. Steps(n, w) = {s \in 1 .. n - 1 : (CHOOSE f : IsPower(f, n, w))[s]}
  BY DEF Steps, IsPower
<1>2. IsTreeSize(n, w) <=> (CHOOSE f : IsSize(f, n, w))[n]
  BY DEF IsTreeSize, IsSize
<1>3. QED
  BY <1>1, <1>2

(* Dividing by w stays in the domain of the recursive functions.           *)
LEMMA QuotientInRange ==
  ASSUME NEW n \in Nat, NEW w \in Nat, w >= 2, NEW v \in 0 .. n, v % w = 0
  PROVE  v \div w \in 0 .. n /\ (v # 0 => v \div w \in 1 .. n)
<1>1. v \in Nat /\ w \in Nat \ {0}
  OBVIOUS
<1>2. PICK q \in Nat : q = v \div w /\ v = w * q
  BY <1>1, DivMod
<1>3. q <= w * q /\ (v # 0 => q # 0)
  BY <1>2
<1>4. QED
  BY <1>2, <1>3

(* The recursive functions in Steps and IsTreeSize satisfy their           *)
(* definitions.                                                            *)
LEMMA FunctionsExist ==
  ASSUME NEW n \in Nat, NEW w \in Nat, w >= 2
  PROVE  (\E f : IsPower(f, n, w)) /\ (\E f : IsSize(f, n, w))
<1>0. w \in Nat \ {0}
  OBVIOUS
<1>1. \E f : IsPower(f, n, w)
  <2> DEFINE S == 1 .. n
  <2>1. S \in SUBSET Nat /\ \A v \in S : v % w = 0 => v \div w \in S
    BY QuotientInRange
  <2> HIDE DEF S
  <2>2. PICK f : Divides(f, S, {1}, w)
    BY <2>1, <1>0, FixedPoint
  <2>3. f = [s \in S |-> s = 1 \/ (s % w = 0 /\ f[s \div w])]
    BY <2>2 DEF Divides
  <2>4. QED
    BY <2>3 DEF IsPower, S
<1>2. \E f : IsSize(f, n, w)
  <2> DEFINE S == 0 .. n
  <2>1. S \in SUBSET Nat /\ \A v \in S : v % w = 0 => v \div w \in S
    BY QuotientInRange
  <2> HIDE DEF S
  <2>2. PICK f : Divides(f, S, {0, w}, w)
    BY <2>1, <1>0, FixedPoint
  <2>3. f = [v \in S |-> v = 0 \/ v = w \/ (v % w = 0 /\ f[v \div w])]
    BY <2>2 DEF Divides
  <2>4. QED
    BY <2>3 DEF IsSize, S
<1>3. QED
  BY <1>1, <1>2

(* For a size that Configuration accepts for the tree, every step divides  *)
(* the cluster, and every larger step, into whole windows.                 *)
LEMMA TreeSteps ==
  ASSUME NEW n \in Nat \ {0}, NEW w \in Nat, w >= 2, IsTreeSize(n, w)
  PROVE  /\ \A s \in Steps(n, w) : s \in 1 .. n - 1 /\ Fits(n, s, w)
         /\ \A s, t \in Steps(n, w) : s < t => Fits(t, s, w)
<1>1. PICK f : IsPower(f, n, w) /\ Steps(n, w) = {s \in 1 .. n - 1 : f[s]}
  BY FunctionsExist, Unfold
<1>2. PICK g : IsSize(g, n, w) /\ g[n]
  BY FunctionsExist, Unfold
<1> DEFINE F == {s \in 1 .. n : f[s]}
           G == {v \in 0 .. n : g[v]}
<1>3. ASSUME NEW s \in 1 .. n, s \in F PROVE s = 1 \/ (s % w = 0 /\ s \div w \in F)
  <2>1. f[s] = (s = 1 \/ (s % w = 0 /\ f[s \div w]))
    BY <1>1, Zenon DEF IsPower
  <2>2. s = 1 \/ (s % w = 0 /\ f[s \div w])
    BY <1>3, <2>1, Zenon
  <2>3. s \in 0 .. n /\ s # 0
    OBVIOUS
  <2>4. s % w = 0 => s \div w \in 1 .. n
    BY <2>3, QuotientInRange
  <2>5. QED
    BY <2>2, <2>4, Zenon
<1>4. ASSUME NEW v \in 1 .. n, v \in G PROVE v = 1 \/ v = w \/ (v % w = 0 /\ v \div w \in G)
  <2>1. v \in 0 .. n /\ v # 0
    OBVIOUS
  <2>2. g[v] = (v = 0 \/ v = w \/ (v % w = 0 /\ g[v \div w]))
    BY <1>2, <2>1, Zenon DEF IsSize
  <2>3. v = w \/ (v % w = 0 /\ g[v \div w])
    BY <1>4, <2>1, <2>2, Zenon
  <2>4. v % w = 0 => v \div w \in 0 .. n
    BY <2>1, QuotientInRange
  <2>5. QED
    BY <2>3, <2>4, Zenon
<1>5. n \in 1 .. n /\ n \in G /\ n \in Nat /\ \A s \in Steps(n, w) : s \in 1 .. n - 1 /\ s \in 1 .. n /\ s \in F
  BY <1>1, <1>2
<1> HIDE DEF F, G
<1>6. Powers(F, n, w) /\ Sizes(G, n, w) /\ Sizes(F, n, w)
  BY <1>3, <1>4, Zenon DEF Powers, Sizes
<1>7. AllDivide(F, G, n, w) /\ AllDivide(F, F, n, w)
  BY <1>5, <1>6, PowersDivide
<1>8. \A s \in Steps(n, w) : s < n
  BY <1>5
<1>9. QED
  BY <1>5, <1>7, <1>8 DEF AllDivide

(* Window a, member b, offset c. *)
Place(s, w, a, b, c) == (s * w) * a + b * s + c
Row(s, w, a, c) == {Place(s, w, a, m, c) : m \in 0 .. w - 1}

(* A member and an offset stay within a window of w groups of s nodes.     *)
LEMMA Bound ==
  ASSUME NEW s \in Nat \ {0}, NEW w \in Nat \ {0}, NEW b \in 0 .. w - 1, NEW c \in 0 .. s - 1
  PROVE  b * s + c \in 0 .. s * w - 1
<1>1. PICK d \in Nat : w = b + 1 + d
  <2>1. w - b - 1 \in Nat /\ w = b + 1 + (w - b - 1)
    OBVIOUS
  <2>2. QED
    BY <2>1
<1>2. s * w = b * s + s + s * d
  BY <1>1
<1>3. s * d \in Nat /\ b * s \in Nat
  OBVIOUS
<1>4. QED
  BY <1>2, <1>3

(* What the remainders in the sub-group computation are for a node given by *)
(* its window, member and offset.                                          *)
LEMMA PlaceFacts ==
  ASSUME NEW s \in Nat \ {0}, NEW w \in Nat \ {0}, NEW a \in Nat, NEW b \in 0 .. w - 1, NEW c \in 0 .. s - 1,
         NEW i, i = Place(s, w, a, b, c)
  PROVE  /\ i \in Nat
         /\ i % (s * w) = b * s + c
         /\ i % s = c
         /\ i - (i % (s * w)) = (s * w) * a
<1>1. s * w \in Nat \ {0} /\ b * s + c \in 0 .. s * w - 1 /\ (s * w) * a \in Nat
  <2>1. s * w # 0 /\ s * w \in Nat
    OBVIOUS
  <2>2. b * s + c \in 0 .. s * w - 1
    BY Bound
  <2>3. QED
    BY <2>1, <2>2
<1>2. i = (s * w) * a + (b * s + c)
  BY <1>1 DEF Place
<1>3. i % (s * w) = b * s + c
  <2> DEFINE M == s * w   r == b * s + c
  <2>1. M \in Nat \ {0} /\ r \in 0 .. M - 1 /\ i = M * a + r
    BY <1>1, <1>2
  <2> HIDE DEF M, r
  <2>2. i % M = r
    BY <2>1, DivModUnique
  <2>3. QED
    BY <2>2 DEF M, r
<1>4. i % s = c
  <2> DEFINE q == w * a + b
  <2>1. i = s * q + c /\ q \in Nat
    BY <1>2
  <2> HIDE DEF q
  <2>2. QED
    BY <2>1, DivModUnique
<1>5. QED
  <2> DEFINE X == (s * w) * a   r == b * s + c
  <2>1. X \in Nat /\ r \in Nat /\ i = X + r /\ i % (s * w) = r
    BY <1>1, <1>2, <1>3
  <2>2. i \in Nat /\ i - (i % (s * w)) = X
    <3> HIDE DEF X, r
    <3>1. QED
      BY <2>1
  <2>3. QED
    BY <2>2, <1>3, <1>4

(* Every node is in some window, as some member, at some offset.           *)
LEMMA HasPlace ==
  ASSUME NEW s \in Nat \ {0}, NEW w \in Nat \ {0}, NEW i \in Nat
  PROVE  \E a \in Nat, b \in 0 .. w - 1, c \in 0 .. s - 1 : i = Place(s, w, a, b, c)
<1>1. PICK p \in Nat, c \in 0 .. s - 1 : i = s * p + c
  BY DivMod
<1>2. PICK a \in Nat, b \in 0 .. w - 1 : p = w * a + b
  BY DivMod
<1>3. i = Place(s, w, a, b, c)
  BY <1>1, <1>2 DEF Place
<1>4. QED
  BY <1>3

(* The sub-group that the code builds for a node at a step is the row of   *)
(* its window at its offset, and lies within the cluster.                  *)
LEMMA GroupIsRow ==
  ASSUME NEW s \in Nat \ {0}, NEW w \in Nat \ {0}, NEW n, Fits(n, s, w),
         NEW a \in Nat, NEW b \in 0 .. w - 1, NEW c \in 0 .. s - 1, NEW i, i = Place(s, w, a, b, c), i < n
  PROVE  SubGroup(n, w, i, s) = Row(s, w, a, c) /\ Row(s, w, a, c) \subseteq Nodes(n)
<1> PICK q \in Nat : n = (s * w) * q
  BY DEF Fits
<1>1. i \in Nat /\ i - (i % (s * w)) = (s * w) * a /\ i % s = c
  BY PlaceFacts
<1>2. ASSUME NEW m \in 0 .. w - 1
      PROVE  /\ (s * w) * a + m * s < n
             /\ Place(s, w, a, m, c) \in 0 .. n - 1
  <2> DEFINE M == s * w   X == M * a   Y == m * s   r == b * s + c
  <2>1. M \in Nat \ {0} /\ X \in Nat /\ Y \in Nat /\ r \in Nat
    OBVIOUS
  <2>2. Y + c \in 0 .. M - 1
    BY Bound
  <2>3. X + r = i
    BY DEF Place
  <2>4. Place(s, w, a, m, c) = X + Y + c
    BY DEF Place
  <2>5. n = M * q /\ n \in Nat
    OBVIOUS
  <2>6. a < q
    <3> HIDE DEF M, r
    <3>1. M * a < M * q
      BY <2>1, <2>3, <2>5
    <3>2. QED
      BY <3>1, <2>1
  <2>7. X + M <= n
    <3>1. PICK d \in Nat : q = a + 1 + d
      <4>1. q - a - 1 \in Nat /\ q = a + 1 + (q - a - 1)
        BY <2>6
      <4>2. QED
        BY <4>1
    <3> HIDE DEF M
    <3>2. M * q = M * a + M + M * d /\ M * d \in Nat
      BY <3>1, <2>1
    <3>3. QED
      BY <3>2, <2>1, <2>5
  <2> HIDE DEF M, X, Y, r
  <2>8. X + Y < n /\ X + Y + c \in 0 .. n - 1
    BY <2>1, <2>2, <2>5, <2>7
  <2>9. QED
    BY <2>4, <2>8 DEF X, Y, M
<1>3. SubGroup(n, w, i, s) = {(s * w) * a + m * s + c : m \in {k \in 0 .. w - 1 : (s * w) * a + k * s < n}}
  BY <1>1 DEF SubGroup
<1>4. {k \in 0 .. w - 1 : (s * w) * a + k * s < n} = 0 .. w - 1
  BY <1>2
<1>5. SubGroup(n, w, i, s) = Row(s, w, a, c)
  BY <1>3, <1>4, Zenon DEF Row, Place
<1>6. Row(s, w, a, c) \subseteq Nodes(n)
  BY <1>2, Zenon DEF Row, Nodes
<1>7. QED
  BY <1>5, <1>6

(* At every step a node is in its own group, the group has only nodes of   *)
(* the cluster, and all its members compute the same group.                *)
LEMMA Groups ==
  ASSUME NEW n \in Nat \ {0}, NEW w \in Nat, w >= 2, IsTreeSize(n, w),
         NEW i \in Nodes(n), NEW s \in Steps(n, w)
  PROVE  /\ i \in SubGroup(n, w, i, s)
         /\ SubGroup(n, w, i, s) \subseteq Nodes(n)
         /\ \A j \in SubGroup(n, w, i, s) : SubGroup(n, w, j, s) = SubGroup(n, w, i, s)
<1>1. s \in Nat \ {0} /\ w \in Nat \ {0} /\ i \in Nat /\ i < n /\ n \in Nat
  <2>1. s \in 1 .. n - 1
    BY TreeSteps
  <2>2. QED
    BY <2>1 DEF Nodes
<1>2. Fits(n, s, w)
  BY TreeSteps
<1>3. PICK a \in Nat, b \in 0 .. w - 1, c \in 0 .. s - 1 : i = Place(s, w, a, b, c)
  BY <1>1, HasPlace
<1>4. SubGroup(n, w, i, s) = Row(s, w, a, c) /\ Row(s, w, a, c) \subseteq Nodes(n)
  BY <1>1, <1>2, <1>3, GroupIsRow
<1>5. i \in Row(s, w, a, c)
  BY <1>3 DEF Row
<1>6. ASSUME NEW j \in Row(s, w, a, c) PROVE SubGroup(n, w, j, s) = Row(s, w, a, c)
  <2>1. PICK m \in 0 .. w - 1 : j = Place(s, w, a, m, c)
    BY DEF Row
  <2>2. j < n
    BY <1>4, <1>6, <1>1 DEF Nodes
  <2>3. QED
    BY <1>1, <1>2, <2>1, <2>2, GroupIsRow
<1>7. QED
  BY <1>4, <1>5, <1>6

(* A tree peer is another member of the group of some step.                *)
LEMMA PeerIs ==
  ASSUME NEW n, NEW w, NEW i, NEW j
  PROVE  j \in TreePeers(n, w, i) <=> \E s \in Steps(n, w) : j \in SubGroup(n, w, i, s) /\ j # i
<1>1. j \in TreePeers(n, w, i) <=> \E s \in DOMAIN SubGroups(n, w, i) : j \in SubGroups(n, w, i)[s]
  BY DEF TreePeers, Range
<1>2. QED
  BY <1>1 DEF SubGroups

(* Being a tree peer is symmetric: the server of the one and the client of *)
(* the other agree that there is a connection.                             *)
LEMMA PeersSymmetric ==
  ASSUME NEW n \in Nat \ {0}, NEW w \in Nat, w >= 2, IsTreeSize(n, w), NEW i \in Nodes(n)
  PROVE  /\ TreePeers(n, w, i) \subseteq Nodes(n)
         /\ \A j \in Nodes(n) : j \in TreePeers(n, w, i) <=> i \in TreePeers(n, w, j)
<1>1. TreePeers(n, w, i) \subseteq Nodes(n)
  BY PeerIs, Groups
<1>2. ASSUME NEW k \in Nodes(n), NEW j \in Nodes(n), j \in TreePeers(n, w, k)
      PROVE  k \in TreePeers(n, w, j)
  <2>1. PICK s \in Steps(n, w) : j \in SubGroup(n, w, k, s) /\ j # k
    BY <1>2, PeerIs
  <2>2. k \in SubGroup(n, w, k, s) /\ SubGroup(n, w, j, s) = SubGroup(n, w, k, s)
    BY <2>1, Groups
  <2>3. QED
    BY <2>1, <2>2, PeerIs
<1>3. QED
  BY <1>1, <1>2

(* The ring neighbour that the search through the other nodes finds is the *)
(* next node, and node 0 for the last one.                                 *)
LEMMA RingSuccessor ==
  ASSUME NEW n \in Nat \ {0, 1}, NEW i \in Nodes(n)
  PROVE  RingNext(n, i) = IF i < n - 1 THEN i + 1 ELSE 0
<1> DEFINE after == {j \in Others(n, i) : i < j}
           least(S) == CHOOSE j \in S : \A k \in S : j <= k
<1>0. i \in Nat /\ i <= n - 1
  BY DEF Nodes
<1>a. \A S \in SUBSET Nat : \A x \in S : (\A k \in S : x <= k) => least(S) = x
  <2> SUFFICES ASSUME NEW S \in SUBSET Nat, NEW x \in S, \A k \in S : x <= k PROVE least(S) = x
    OBVIOUS
  <2>1. least(S) \in S /\ \A k \in S : least(S) <= k
    <3>1. \E j \in S : \A k \in S : j <= k
      OBVIOUS
    <3>2. QED
      BY <3>1, Zenon
  <2>2. PICK l \in S : l = least(S) /\ \A k \in S : l <= k
    BY <2>1, Zenon
  <2>3. l \in Nat /\ x \in Nat /\ l <= x /\ x <= l
    BY <2>2
  <2>4. l = x
    BY <2>3
  <2>5. QED
    BY <2>2, <2>4, Zenon
<1>1. after \in SUBSET Nat /\ Others(n, i) \in SUBSET Nat
  BY DEF Others, Nodes
<1> HIDE DEF least
<1>2. CASE i < n - 1
  <2>1. i + 1 \in after /\ \A k \in after : i + 1 <= k
    BY <1>2, <1>0 DEF Others, Nodes
  <2> HIDE DEF after
  <2>2. least(after) = i + 1 /\ after # {}
    BY <2>1, <1>1, <1>a
  <2>3. QED
    BY <2>2, <1>2, Zenon DEF RingNext, after, least
<1>3. CASE ~(i < n - 1)
  <2>1. after = {} /\ 0 \in Others(n, i) /\ \A k \in Others(n, i) : 0 <= k
    BY <1>3, <1>0 DEF Others, Nodes
  <2>2. least(Others(n, i)) = 0
    BY <2>1, <1>1, <1>a
  <2> HIDE DEF after
  <2>3. QED
    BY <2>1, <2>2, <1>3, Zenon DEF RingNext, after, least
<1>4. QED
  BY <1>2, <1>3

(* The nodes whose clients connect to j.                                   *)
Senders(topo, n, w, j) == {i \in Nodes(n) : j \in Targets(topo, n, w, i)}

(* A cluster of n has n nodes.                                             *)
LEMMA FiniteNodes ==
  ASSUME NEW n \in Nat
  PROVE  IsFiniteSet(Nodes(n)) /\ Cardinality(Nodes(n)) = n
<1>1. 0 \in Int /\ n - 1 \in Int
  OBVIOUS
<1>2. IsFiniteSet(0 .. n - 1) /\ Cardinality(0 .. n - 1) = IF 0 > n - 1 THEN 0 ELSE (n - 1) - 0 + 1
  BY <1>1, FS_Interval
<1>3. QED
  BY <1>2 DEF Nodes

(* A node has n - 1 others.                                                *)
LEMMA CountOthers ==
  ASSUME NEW n \in Nat, NEW j \in Nodes(n)
  PROVE  Cardinality(Others(n, j)) = n - 1
  BY FiniteNodes, FS_RemoveElement DEF Others

(* In the ring one node connects to node j: its predecessor.               *)
LEMMA RingSenders ==
  ASSUME NEW n \in Nat \ {0, 1}, NEW w, NEW j \in Nodes(n)
  PROVE  Senders("ring", n, w, j) = {IF j = 0 THEN n - 1 ELSE j - 1}
<1>1. \A i \in Nodes(n) : Targets("ring", n, w, i) = {IF i < n - 1 THEN i + 1 ELSE 0}
  BY RingSuccessor, Zenon DEF Targets
<1>2. \A i \in Nodes(n) : j \in Targets("ring", n, w, i) <=> i = (IF j = 0 THEN n - 1 ELSE j - 1)
  BY <1>1 DEF Nodes
<1>3. (IF j = 0 THEN n - 1 ELSE j - 1) \in Nodes(n)
  BY DEF Nodes
<1>4. QED
  BY <1>2, <1>3 DEF Senders

(* The children that a node of a heap of n nodes has, whoever knows it. *)
Children(n, o) == {i \in Nodes(n) : i # 0 /\ i \div 2 = o}

(* The downstream links the code computes for a node are its children in   *)
(* the heap, except for the middle node of an odd cluster, which the       *)
(* comparison with n / 2 leaves without any.                               *)
LEMMA DownstreamChildren ==
  ASSUME NEW n \in Nat \ {0, 1}, NEW o \in Nodes(n)
  PROVE  /\ 2 * o # n - 1 \/ o = 0 => Downstream(n, o) = Children(n, o)
         /\ 2 * o = n - 1 => Downstream(n, o) = {}
<1>1. CASE o = 0
  <2>1. Downstream(n, o) = {1}
    BY <1>1 DEF Downstream
  <2>2. Children(n, o) = {1}
    BY <1>1 DEF Children, Nodes
  <2>3. QED
    BY <2>1, <2>2, <1>1
<1>2. CASE o # 0 /\ o < n \div 2
  <2>1. Downstream(n, o) = {2 * o, 2 * o + 1}
    BY <1>2 DEF Downstream
  <2>2. \A i \in Nat : i # 0 /\ i \div 2 = o <=> i = 2 * o \/ i = 2 * o + 1
    BY <1>2 DEF Nodes
  <2>3. 2 * o \in Nodes(n) /\ 2 * o + 1 \in Nodes(n) /\ 2 * o # n - 1
    BY <1>2 DEF Nodes
  <2>4. Children(n, o) = {2 * o, 2 * o + 1}
    <3>1. \A i \in Nodes(n) : i \in Nat
      BY DEF Nodes
    <3>2. QED
      BY <2>2, <2>3, <3>1, Zenon DEF Children
  <2>5. QED
    BY <2>1, <2>3, <2>4
<1>3. CASE o # 0 /\ ~(o < n \div 2)
  <2>1. Downstream(n, o) = {}
    BY <1>3 DEF Downstream
  <2>2. 2 * o # n - 1 => 2 * o >= n
    BY <1>3 DEF Nodes
  <2>3. 2 * o >= n => Children(n, o) = {}
    BY DEF Children, Nodes
  <2>4. QED
    BY <2>1, <2>2, <2>3, <1>3
<1>4. QED
  BY <1>1, <1>2, <1>3

(* A node connects, in either tree, to the node whose child it is; the     *)
(* second tree is the mirror image of the first.                           *)
LEMMA UpperChildren ==
  ASSUME NEW n \in Nat \ {0, 1}, NEW i \in Nodes(n), NEW j \in Nodes(n)
  PROVE  /\ j \in TreeUpper(n, 1, i) <=> i \in Children(n, j)
         /\ j \in TreeUpper(n, 2, i) <=> Mirror(n, i) \in Children(n, Mirror(n, j))
         /\ TreeUpper(n, 1, i) \subseteq Nodes(n) /\ TreeUpper(n, 2, i) \subseteq Nodes(n)
<1>1. \A k \in Nodes(n) : Mirror(n, k) \in Nodes(n) /\ Mirror(n, Mirror(n, k)) = k
  BY DEF Mirror, Nodes
<1>2. ASSUME NEW k \in Nodes(n)
      PROVE  Upper(k) \subseteq Nodes(n) /\ \A o : o \in Upper(k) <=> k \in Children(n, o)
  <2>1. k \div 2 \in Nodes(n)
    BY DEF Nodes
  <2>2. QED
    BY <2>1 DEF Upper, Children
<1>3. TreeUpper(n, 1, i) = Upper(i) /\ TreeUpper(n, 2, i) = {Mirror(n, o) : o \in Upper(Mirror(n, i))}
  BY DEF TreeUpper
<1>4. j \in TreeUpper(n, 2, i) <=> Mirror(n, j) \in Upper(Mirror(n, i))
  BY <1>1, <1>2, <1>3
<1>5. QED
  BY <1>1, <1>2, <1>3, <1>4

(* The number of connections a node of the double tree waits for is that of *)
(* the nodes that connect to it, or 0 at the middle of an odd cluster.     *)
LEMMA DoubleTreeSenders ==
  ASSUME NEW n \in Nat \ {0, 1}, NEW w, NEW j \in Nodes(n)
  PROVE  \/ NumSenders("dbt", n, w, j) = Cardinality(Senders("dbt", n, w, j))
         \/ 2 * j = n - 1 /\ NumSenders("dbt", n, w, j) = 0
<1> DEFINE m == Mirror(n, j)
           Far == Children(n, m)
           Near == Children(n, j)
           Image == {Mirror(n, i) : i \in Far}
<1>0. m \in Nodes(n) /\ m = n - 1 - j /\ j \in Nat /\ j <= n - 1
  BY DEF Mirror, Nodes
<1>1. TreeDownstream(n, 1, j) = Downstream(n, j)
      /\ TreeDownstream(n, 2, j) = {Mirror(n, o) : o \in Downstream(n, m)}
  BY DEF TreeDownstream
<1>2. NumSenders("dbt", n, w, j) =
        Cardinality(TreeDownstream(n, 1, j)) + Cardinality(TreeDownstream(n, 2, j))
  BY DEF NumSenders
<1>3. \A k \in Nodes(n) : Mirror(n, k) \in Nodes(n) /\ Mirror(n, Mirror(n, k)) = k
  BY DEF Mirror, Nodes
<1>4. CASE j # 0 /\ m # 0 /\ 2 * j = n - 1
  <2>1. 2 * m = n - 1
    BY <1>0, <1>4
  <2>2. TreeDownstream(n, 1, j) = {} /\ TreeDownstream(n, 2, j) = {}
    BY <1>0, <1>1, <1>4, <2>1, DownstreamChildren
  <2>3. QED
    BY <1>2, <1>4, <2>2, FS_EmptySet
<1>5. CASE ~(j # 0 /\ m # 0 /\ 2 * j = n - 1)
  <2>1. (2 * j # n - 1 \/ j = 0) /\ (2 * m # n - 1 \/ m = 0)
    BY <1>0, <1>5
  <2>2. TreeDownstream(n, 1, j) = Near /\ TreeDownstream(n, 2, j) = Image
    BY <1>0, <1>1, <2>1, DownstreamChildren
  <2>3. Senders("dbt", n, w, j) = Near \cup Image
    <3>1. \A i \in Nodes(n) : j \in Targets("dbt", n, w, i) <=> i \in Near \/ Mirror(n, i) \in Far
      <4>1. \A i \in Nodes(n) : Targets("dbt", n, w, i) = TreeUpper(n, 1, i) \cup TreeUpper(n, 2, i)
        BY DEF Targets
      <4>2. QED
        BY <4>1, UpperChildren
    <3>2. Near \subseteq Nodes(n) /\ Far \subseteq Nodes(n)
      BY DEF Children
    <3> HIDE DEF Near, Far
    <3>3. \A i \in Nodes(n) : Mirror(n, i) \in Far <=> i \in Image
      BY <3>2, <1>3
    <3>4. Image \subseteq Nodes(n)
      BY <3>2, <1>3
    <3> HIDE DEF Image
    <3>5. QED
      BY <3>1, <3>2, <3>3, <3>4 DEF Senders
  <2>4. Near \cap Image = {}
    <3>1. SUFFICES ASSUME NEW i \in Near, i \in Image PROVE FALSE
      OBVIOUS
    <3>2. i \in Nodes(n) /\ i \div 2 = j
      BY DEF Children
    <3>3. PICK o \in Nodes(n) : i = Mirror(n, o) /\ o \div 2 = m
      BY <3>1 DEF Children
    <3>4. QED
      BY <3>2, <3>3, <1>0 DEF Mirror, Nodes
  <2>5. IsFiniteSet(Near) /\ IsFiniteSet(Image)
    <3>1. Near \subseteq Nodes(n) /\ Image \subseteq Nodes(n)
      BY <1>3 DEF Children
    <3> HIDE DEF Near, Image
    <3>2. QED
      BY <3>1, FiniteNodes, FS_Subset
  <2> HIDE DEF Near, Image
  <2>6. Cardinality(Near \cup Image) = Cardinality(Near) + Cardinality(Image) - Cardinality({})
    BY <2>4, <2>5, FS_Union
  <2>7. Cardinality({}) = 0 /\ Cardinality(Near) \in Nat /\ Cardinality(Image) \in Nat
    BY <2>5, FS_EmptySet, FS_CardinalityType
  <2>8. NumSenders("dbt", n, w, j) = Cardinality(Senders("dbt", n, w, j))
    <3>1. PICK p \in Nat, q \in Nat : p = Cardinality(Near) /\ q = Cardinality(Image)
      BY <2>7, Zenon
    <3>2. NumSenders("dbt", n, w, j) = p + q
      BY <1>2, <2>2, <3>1, Zenon
    <3>3. Cardinality(Near \cup Image) = p + q
      BY <2>6, <2>7, <3>1
    <3>4. QED
      BY <2>3, <3>2, <3>3, Zenon
  <2>9. QED
    BY <2>8
<1>6. QED
  BY <1>4, <1>5

(* What Configuration lets through. *)
Startable(topo, n, w) ==
  /\ topo \in Topologies /\ n \in Nat \ {0, 1} /\ w \in Nat
  /\ topo = "tree" => w >= 2 /\ IsTreeSize(n, w)

(* Every client connects to a node that runs a server.                     *)
LEMMA TargetsAreServers ==
  ASSUME NEW topo, NEW n, NEW w, Startable(topo, n, w), NEW i \in Nodes(n)
  PROVE  Targets(topo, n, w, i) \subseteq Servers(topo, n) /\ Servers(topo, n) \subseteq Nodes(n)
<1>0. n \in Nat \ {0, 1} /\ w \in Nat /\ n \in Nat /\ 0 \in Nodes(n)
  BY DEF Startable, Nodes
<1>1. topo # "server-client" => Servers(topo, n) = Nodes(n)
  BY DEF Servers
<1>2. CASE topo = "full-mesh"
  BY <1>1, <1>2 DEF Targets, Others
<1>3. CASE topo = "ring"
  <2>1. RingNext(n, i) \in Nodes(n)
    BY <1>0, RingSuccessor DEF Nodes
  <2>2. QED
    BY <1>1, <1>3, <2>1 DEF Targets
<1>4. CASE topo = "tree"
  <2>1. n \in Nat \ {0} /\ w >= 2 /\ IsTreeSize(n, w)
    BY <1>0, <1>4 DEF Startable
  <2>2. TreePeers(n, w, i) \subseteq Nodes(n)
    BY <1>0, <2>1, PeersSymmetric
  <2>3. QED
    BY <1>1, <1>4, <2>2 DEF Targets
<1>5. CASE topo = "dbt"
  <2>1. TreeUpper(n, 1, i) \subseteq Nodes(n) /\ TreeUpper(n, 2, i) \subseteq Nodes(n)
    BY <1>0, UpperChildren
  <2>2. QED
    BY <1>1, <1>5, <2>1 DEF Targets
<1>6. CASE topo = "server-client"
  BY <1>0, <1>6 DEF Targets, Servers
<1>7. QED
  BY <1>2, <1>3, <1>4, <1>5, <1>6 DEF Startable, Topologies

(* For every topology and every cluster size that Configuration accepts,   *)
(* the number of connections that a server waits for before it starts      *)
(* (num_senders) is the number of nodes whose clients connect to it; the *)
(* one exception is the middle node of a double tree with an odd number of *)
(* nodes, which waits for none.                                            *)
THEOREM SendersCounted ==
  ASSUME NEW topo, NEW n, NEW w, Startable(topo, n, w), NEW j \in Servers(topo, n)
  PROVE  \/ NumSenders(topo, n, w, j) = Cardinality(Senders(topo, n, w, j))
         \/ topo = "dbt" /\ 2 * j = n - 1 /\ NumSenders(topo, n, w, j) = 0
<1>0. n \in Nat \ {0, 1} /\ w \in Nat /\ n \in Nat /\ 0 \in Nodes(n)
  BY DEF Startable, Nodes
<1>1. j \in Nodes(n)
  BY <1>0 DEF Servers
<1>2. CASE topo = "full-mesh"
  <2>1. Senders(topo, n, w, j) = Others(n, j)
    BY <1>2, <1>1 DEF Senders, Targets, Others
  <2>2. QED
    BY <1>2, <1>0, <1>1, <2>1, CountOthers DEF NumSenders
<1>3. CASE topo = "ring"
  <2>1. Cardinality(Senders(topo, n, w, j)) = 1
    <3>1. PICK x : Senders(topo, n, w, j) = {x}
      <4>1. Senders("ring", n, w, j) = {IF j = 0 THEN n - 1 ELSE j - 1}
        BY <1>0, <1>1, RingSenders
      <4>2. QED
        BY <4>1, <1>3
    <3>2. QED
      BY <3>1, FS_Singleton
  <2>2. QED
    BY <1>3, <2>1 DEF NumSenders
<1>4. CASE topo = "tree"
  <2>1. n \in Nat \ {0} /\ w >= 2 /\ IsTreeSize(n, w)
    BY <1>0, <1>4 DEF Startable
  <2>2. /\ TreePeers(n, w, j) \subseteq Nodes(n)
        /\ \A i \in Nodes(n) : i \in TreePeers(n, w, j) <=> j \in TreePeers(n, w, i)
    BY <1>0, <1>1, <2>1, PeersSymmetric
  <2>3. Senders(topo, n, w, j) = TreePeers(n, w, j)
    BY <1>4, <2>2 DEF Senders, Targets
  <2>4. QED
    BY <1>4, <2>3 DEF NumSenders
<1>5. CASE topo = "dbt"
  BY <1>0, <1>1, <1>5, DoubleTreeSenders
<1>6. CASE topo = "server-client"
  <2>1. j = 0
    BY <1>6 DEF Servers
  <2>2. Senders(topo, n, w, j) = Others(n, j)
    BY <1>6, <1>1, <2>1 DEF Senders, Targets, Others
  <2>3. QED
    BY <1>6, <1>0, <1>1, <2>2, CountOthers DEF NumSenders
<1>7. QED
  BY <1>2, <1>3, <1>4, <1>5, <1>6 DEF Startable, Topologies

(* A row has w nodes.                                                      *)
LEMMA RowCount ==
  ASSUME NEW s \in Nat \ {0}, NEW w \in Nat \ {0}, NEW a \in Nat, NEW c \in 0 .. s - 1
  PROVE  Cardinality(Row(s, w, a, c)) = w
<1> DEFINE D == 0 .. w - 1
           f == [m \in D |-> Place(s, w, a, m, c)]
<1>1. ASSUME NEW k \in D, NEW m \in D, Place(s, w, a, k, c) = Place(s, w, a, m, c) PROVE k = m
  <2>1. PICK x \in Nat, y \in Nat, z \in Nat : x = (s * w) * a /\ y = k * s /\ z = m * s
    OBVIOUS
  <2>2. y = z
    BY <1>1, <2>1 DEF Place
  <2>3. k * s = m * s
    BY <2>1, <2>2
  <2>4. QED
    BY <2>3
<1>2. f \in Bijection(D, Row(s, w, a, c))
  <2> HIDE DEF D
  <2>1. f \in [D -> Row(s, w, a, c)]
    BY DEF Row, D
  <2>2. \A x, y \in D : f[x] = f[y] => x = y
    BY <1>1
  <2>3. \A r \in Row(s, w, a, c) : \E m \in D : f[m] = r
    BY DEF Row, D
  <2>4. QED
    BY <2>1, <2>2, <2>3 DEF Bijection, Injection, Surjection, IsInjective
<1>3. IsFiniteSet(D) /\ Cardinality(D) = w
  <2>1. 0 \in Int /\ w - 1 \in Int
    OBVIOUS
  <2>2. IsFiniteSet(0 .. w - 1) /\ Cardinality(0 .. w - 1) = IF 0 > w - 1 THEN 0 ELSE (w - 1) - 0 + 1
    BY <2>1, FS_Interval
  <2>3. QED
    BY <2>2
<1> HIDE DEF D, f
<1>4. QED
  BY <1>2, <1>3, FS_Bijection DEF ExistsBijection

(* Rows of different steps have at most one node in common.                *)
LEMMA RowsMeetOnce ==
  ASSUME NEW s \in Nat \ {0}, NEW t \in Nat \ {0}, NEW w \in Nat \ {0}, Fits(t, s, w),
         NEW a \in Nat, NEW c \in 0 .. s - 1, NEW d \in Nat, NEW g \in 0 .. t - 1,
         NEW m, m \in Row(s, w, a, c), m \in Row(t, w, d, g),
         NEW x, x \in Row(s, w, a, c), x \in Row(t, w, d, g)
  PROVE  x = m
<1> PICK b \in 0 .. w - 1, b1 \in 0 .. w - 1, e \in 0 .. w - 1, e1 \in 0 .. w - 1 :
      /\ m = Place(s, w, a, b, c) /\ m = Place(t, w, d, e, g)
      /\ x = Place(s, w, a, b1, c) /\ x = Place(t, w, d, e1, g)
  BY DEF Row
<1>1. PICK q \in Nat : t = (s * w) * q
  BY DEF Fits
<1> DEFINE M == s * w
<1>2. b * s + c \in 0 .. M - 1 /\ b1 * s + c \in 0 .. M - 1 /\ M \in Nat \ {0}
  <2>1. M \in Nat \ {0}
    OBVIOUS
  <2>2. QED
    BY <2>1, Bound
<1>3. PICK X \in Nat, r \in 0 .. M - 1, r1 \in 0 .. M - 1 : m = X + r /\ x = X + r1
  <2>1. PICK X \in Nat : X = M * a
    OBVIOUS
  <2>2. m = X + (b * s + c) /\ x = X + (b1 * s + c)
    BY <2>1 DEF Place
  <2>3. QED
    BY <1>2, <2>2
<1>4. PICK Y \in Nat : m = Y + e * t + g /\ x = Y + e1 * t + g
  BY DEF Place
<1> DEFINE k == (e1 - e) * q
<1>5. x - m = M * k /\ k \in Int
  <2>1. x - m = e1 * t - e * t
    <3>1. PICK y \in Nat, z \in Nat : y = e1 * t /\ z = e * t
      OBVIOUS
    <3>2. QED
      BY <1>4, <3>1
  <2>2. e1 * t - e * t = (e1 - e) * t
    OBVIOUS
  <2>3. (e1 - e) * (M * q) = M * ((e1 - e) * q)
    OBVIOUS
  <2>4. QED
    BY <1>1, <2>1, <2>2, <2>3
<1> HIDE DEF M, k
<1>6. r1 - r = M * k
  BY <1>3, <1>5
<1>7. k < 1 /\ k > -1
  <2>1. ASSUME k >= 1 PROVE M * k >= M
    BY <1>2, <1>5, <2>1
  <2>2. ASSUME k <= -1 PROVE M * k <= -M
    BY <1>2, <1>5, <2>2
  <2>3. QED
    BY <1>2, <1>3, <1>5, <1>6, <2>1, <2>2
<1>8. M * k = 0
  BY <1>2, <1>5, <1>7
<1>9. QED
  BY <1>3, <1>6, <1>8

(* For every size that Configuration accepts for the tree and every step of *)
(* the reduction: a node is in its group, the group has w nodes, all       *)
(* members agree on who they are, and the groups of different steps share  *)
(* no peer. (The property TreeGroupsAgree of the Configuration module, for *)
(* clusters of any size.)                                                  *)
THEOREM TreeGroupsAgreeEverywhere ==
  ASSUME NEW n \in Nat \ {0}, NEW w \in Nat, w >= 2, IsTreeSize(n, w),
         NEW m \in Nodes(n), NEW s \in Steps(n, w)
  PROVE  /\ m \in SubGroup(n, w, m, s)
         /\ Cardinality(SubGroup(n, w, m, s)) = w
         /\ \A j \in SubGroup(n, w, m, s) : SubGroup(n, w, j, s) = SubGroup(n, w, m, s)
         /\ \A t \in Steps(n, w) \ {s} : SubGroups(n, w, m)[s] \cap SubGroups(n, w, m)[t] = {}
<1>0. w \in Nat \ {0} /\ m \in Nat /\ m < n
  BY DEF Nodes
<1>1. \A u \in Steps(n, w) : u \in Nat \ {0} /\ Fits(n, u, w)
  BY TreeSteps
<1>2. \A u \in Steps(n, w) : \E a \in Nat, b \in 0 .. w - 1, c \in 0 .. u - 1 :
        m = Place(u, w, a, b, c) /\ SubGroup(n, w, m, u) = Row(u, w, a, c)
  <2> TAKE u \in Steps(n, w)
  <2>1. u \in Nat \ {0} /\ Fits(n, u, w)
    BY <1>1
  <2>2. PICK a \in Nat, b \in 0 .. w - 1, c \in 0 .. u - 1 : m = Place(u, w, a, b, c)
    BY <1>0, <2>1, HasPlace
  <2>3. SubGroup(n, w, m, u) = Row(u, w, a, c)
    BY <1>0, <2>1, <2>2, GroupIsRow
  <2>4. QED
    BY <2>2, <2>3
<1>3. Cardinality(SubGroup(n, w, m, s)) = w
  BY <1>0, <1>1, <1>2, RowCount
<1>4. ASSUME NEW u \in Steps(n, w), NEW t \in Steps(n, w), u < t,
             NEW x \in SubGroup(n, w, m, u), x \in SubGroup(n, w, m, t)
      PROVE  x = m
  <2>1. PICK a \in Nat, b \in 0 .. w - 1, c \in 0 .. u - 1 :
          m = Place(u, w, a, b, c) /\ SubGroup(n, w, m, u) = Row(u, w, a, c)
    BY <1>2
  <2>2. PICK d \in Nat, e \in 0 .. w - 1, g \in 0 .. t - 1 :
          m = Place(t, w, d, e, g) /\ SubGroup(n, w, m, t) = Row(t, w, d, g)
    BY <1>2
  <2>3. m \in Row(u, w, a, c) /\ m \in Row(t, w, d, g) /\ x \in Row(u, w, a, c) /\ x \in Row(t, w, d, g)
    BY <1>4, <2>1, <2>2 DEF Row
  <2>4. u \in Nat \ {0} /\ t \in Nat \ {0} /\ Fits(t, u, w)
    BY <1>1, <1>4, TreeSteps
  <2>5. QED
    BY <1>0, <2>3, <2>4, RowsMeetOnce
<1>5. ASSUME NEW t \in Steps(n, w), t # s, NEW x \in SubGroup(n, w, m, s), x \in SubGroup(n, w, m, t)
      PROVE  x = m
  <2>1. s < t \/ t < s
    BY <1>1, <1>5
  <2>2. QED
    BY <1>4, <1>5, <2>1
<1>6. \A t \in Steps(n, w) \ {s} : SubGroups(n, w, m)[s] \cap SubGroups(n, w, m)[t] = {}
  BY <1>5 DEF SubGroups
<1>7. QED
  BY <1>3, <1>6, Groups

(* For every even cluster size: an edge of either tree of the double tree  *)
(* is known at both of its ends, and no node has children in both trees,   *)
(* which is what balances the load of the two trees.                       *)
THEOREM DoubleTreeEdges ==
  ASSUME NEW n \in Nat \ {0, 1}, n % 2 = 0
  PROVE  /\ \A t \in {1, 2}, i, j \in Nodes(n) : j \in TreeUpper(n, t, i) <=> i \in TreeDownstream(n, t, j)
         /\ \A i \in Nodes(n) : TreeDownstream(n, 1, i) = {} \/ TreeDownstream(n, 2, i) = {}
<1>1. \A k \in Nodes(n) : Mirror(n, k) \in Nodes(n) /\ Mirror(n, Mirror(n, k)) = k
  BY DEF Mirror, Nodes
<1>2. \A o \in Nodes(n) : Downstream(n, o) = Children(n, o)
  <2>1. \A o \in Nodes(n) : 2 * o # n - 1
    BY DEF Nodes
  <2>2. QED
    BY <2>1, DownstreamChildren
<1>3. \A j \in Nodes(n) : /\ TreeDownstream(n, 1, j) = Downstream(n, j)
                          /\ TreeDownstream(n, 2, j) = {Mirror(n, o) : o \in Downstream(n, Mirror(n, j))}
  BY DEF TreeDownstream
<1>4. ASSUME NEW i \in Nodes(n), NEW j \in Nodes(n)
      PROVE  /\ j \in TreeUpper(n, 1, i) <=> i \in TreeDownstream(n, 1, j)
             /\ j \in TreeUpper(n, 2, i) <=> i \in TreeDownstream(n, 2, j)
  <2>1. Children(n, Mirror(n, j)) \subseteq Nodes(n)
    BY DEF Children
  <2>2. i \in {Mirror(n, o) : o \in Children(n, Mirror(n, j))} <=> Mirror(n, i) \in Children(n, Mirror(n, j))
    BY <1>1, <2>1
  <2>3. QED
    BY <1>1, <1>2, <1>3, <2>2, UpperChildren
<1>5. ASSUME NEW i \in Nodes(n) PROVE TreeDownstream(n, 1, i) = {} \/ TreeDownstream(n, 2, i) = {}
  <2>1. CASE i < n \div 2
    <3>1. Mirror(n, i) # 0 /\ ~(Mirror(n, i) < n \div 2)
      BY <2>1 DEF Mirror, Nodes
    <3>2. Downstream(n, Mirror(n, i)) = {}
      BY <3>1 DEF Downstream
    <3>3. QED
      BY <1>3, <3>2
  <2>2. CASE ~(i < n \div 2)
    <3>1. i # 0
      BY <2>2 DEF Nodes
    <3>2. Downstream(n, i) = {}
      BY <2>2, <3>1 DEF Downstream
    <3>3. QED
      BY <1>3, <3>2
  <2>3. QED
    BY <2>1, <2>2
<1>6. QED
  BY <1>4, <1>5

-----------------------------------------------------------------------------
(* The inductive invariant. *)

(* Every command line is one that Configuration lets the nodes start with. *)
AllStartable == \A c \in Configs : Startable(c.topo, c.n, c.w)

(* The sequence has no repetition.                                         *)
Distinct(s) == \A j, k \in DOMAIN s : s[j] = s[k] => j = k

(* Where the server thread and a client of a node can be.                  *)
ServerPlaces == {"off", "starting", "none", "accept", "init", "run"}
ClientPlaces == {"off", "connecting", "connected", "running"}

(* What the variables hold.                                                *)
Types ==
  /\ config \in Configs
  /\ server \in [N -> ServerPlaces]
  /\ DOMAIN client = N
  /\ \A i \in N : client[i] \in [TargetsOf(i) -> ClientPlaces]
  /\ backlog \in [N -> Seq(N)]
  /\ sess \in [N -> Seq(N)]
  /\ up \in [N -> SUBSET N]
  /\ aborted \subseteq N

(* Node i's client has got through to server j. *)
Came(i, j) == j \in TargetsOf(i) /\ client[i][j] \in {"connected", "running"}

(* Each client that got through is in one of the server's queues, once. *)
QueuesOK(j) ==
  /\ Distinct(sess[j]) /\ Distinct(backlog[j])
  /\ Range(sess[j]) \cap Range(backlog[j]) = {}
  /\ \A i \in N : i \in Range(sess[j]) \cup Range(backlog[j]) <=> Came(i, j)

(* Only nodes with a server come as far as listening; the accept loop ends *)
(* with all senders accepted, and the sessions are then initialised in     *)
(* order.                                                                  *)
ServerOK(j) ==
  /\ server[j] \notin {"off", "none"} => IsServer(j)
  /\ server[j] = "off" => \A t \in TargetsOf(j) : client[j][t] = "off"
  /\ server[j] \in {"init", "run"} =>
       /\ config.single_recv
       /\ backlog[j] = << >>
       /\ \A i \in N : j \in TargetsOf(i) => Came(i, j)
  /\ config.single_recv =>
       /\ server[j] \notin {"init", "run"} => up[j] = {}
       /\ IsFiniteSet(up[j])
       /\ server[j] = "init" =>
            /\ Cardinality(up[j]) < Len(sess[j])
            /\ up[j] = {sess[j][k] : k \in 1 .. Cardinality(up[j])}

(* A process without a server ends because its server did, or before it    *)
(* got through.                                                            *)
AbortOK ==
  \A i \in aborted : ~IsServer(i) =>
    \/ \E s \in aborted : IsServer(s)
    \/ \E j \in TargetsOf(i) : client[i][j] = "connecting"

(* The inductive invariant.                                                *)
IInv == Types /\ (\A j \in N : QueuesOK(j) /\ ServerOK(j)) /\ AbortOK

(* The empty queue, and the head of one that is not empty.                 *)
LEMMA EmptyRange ==
  /\ Range(<< >>) = {} /\ Distinct(<< >>)
  /\ \A S : \A s \in Seq(S) : s # << >> => Head(s) \in Range(s) /\ Head(s) \in S
  /\ \A S : \A s \in Seq(S) : Range(s) \subseteq S
  BY DEF Range, Distinct

(* What a queue holds after one more arrived.                              *)
LEMMA AppendRange ==
  ASSUME NEW S, NEW s \in Seq(S), NEW e \in S
  PROVE  /\ Append(s, e) \in Seq(S)
         /\ Range(Append(s, e)) = Range(s) \cup {e}
         /\ Distinct(s) /\ e \notin Range(s) => Distinct(Append(s, e))
<1> DEFINE t == Append(s, e)
<1>1. /\ t \in Seq(S)
      /\ Len(t) = Len(s) + 1
      /\ \A i \in 1 .. Len(s) : t[i] = s[i]
      /\ t[Len(s) + 1] = e
  BY AppendProperties
<1>2. DOMAIN s = 1 .. Len(s) /\ DOMAIN t = 1 .. Len(s) + 1 /\ Len(s) \in Nat
  BY <1>1, LenProperties
<1> HIDE DEF t
<1>3. Range(t) = Range(s) \cup {e}
  BY <1>1, <1>2 DEF Range
<1>4. ASSUME Distinct(s), e \notin Range(s) PROVE Distinct(t)
  BY <1>1, <1>2, <1>4 DEF Range, Distinct
<1>5. QED
  BY <1>1, <1>3, <1>4 DEF t

(* What a queue holds after its head was taken.                            *)
LEMMA TailRange ==
  ASSUME NEW S, NEW s \in Seq(S), s # << >>, Distinct(s)
  PROVE  /\ Tail(s) \in Seq(S)
         /\ Head(s) \in S /\ Head(s) \in Range(s)
         /\ Range(Tail(s)) = Range(s) \ {Head(s)}
         /\ Distinct(Tail(s))
<1> DEFINE t == Tail(s)
<1>1. /\ t \in Seq(S) /\ Head(s) \in S /\ Head(s) = s[1]
      /\ Len(t) = Len(s) - 1
      /\ \A i \in 1 .. Len(t) : t[i] = s[i + 1]
  BY HeadTailProperties
<1>2. DOMAIN s = 1 .. Len(s) /\ DOMAIN t = 1 .. Len(s) - 1 /\ Len(s) \in Nat \ {0}
  BY <1>1, LenProperties, EmptySeq
<1> HIDE DEF t
<1>3. ASSUME NEW e \in Range(t) PROVE e \in Range(s) /\ e # Head(s)
  <2>1. PICK k \in 1 .. Len(s) - 1 : e = t[k]
    BY <1>2 DEF Range
  <2>2. k + 1 \in DOMAIN s /\ e = s[k + 1] /\ 1 \in DOMAIN s /\ k + 1 # 1
    BY <1>1, <1>2, <2>1
  <2>3. QED
    BY <1>1, <2>2 DEF Range, Distinct
<1>4. ASSUME NEW e \in Range(s), e # Head(s) PROVE e \in Range(t)
  <2>1. PICK k \in 1 .. Len(s) : e = s[k]
    BY <1>2 DEF Range
  <2>2. k - 1 \in 1 .. Len(t) /\ t[k - 1] = s[k]
    BY <2>1, <1>1, <1>2, <1>4
  <2>3. QED
    BY <2>1, <2>2, <1>1, <1>2 DEF Range
<1>5. ASSUME NEW j \in DOMAIN t, NEW k \in DOMAIN t, t[j] = t[k] PROVE j = k
  <2>1. j \in Nat /\ k \in Nat /\ j + 1 \in DOMAIN s /\ k + 1 \in DOMAIN s /\ s[j + 1] = s[k + 1]
    BY <1>1, <1>2, <1>5
  <2>2. j + 1 = k + 1
    BY <2>1 DEF Distinct
  <2>3. QED
    BY <2>1, <2>2
<1>6. Head(s) \in Range(s)
  BY <1>1, <1>2 DEF Range
<1>7. Range(t) = Range(s) \ {Head(s)}
  BY <1>3, <1>4
<1>8. Distinct(t)
  BY <1>5 DEF Distinct
<1>9. QED
  BY <1>1, <1>6, <1>7, <1>8 DEF t

(* A queue without repetitions is as long as it has elements. *)
LEMMA DistinctCount ==
  ASSUME NEW S, NEW s \in Seq(S), Distinct(s)
  PROVE  IsFiniteSet(Range(s)) /\ Cardinality(Range(s)) = Len(s)
<1>1. Len(s) \in Nat /\ DOMAIN s = 1 .. Len(s) /\ s \in [1 .. Len(s) -> Range(s)]
  BY LenProperties DEF Range
<1>2. s \in Bijection(1 .. Len(s), Range(s))
  BY <1>1 DEF Distinct, Range, Bijection, Injection, Surjection, IsInjective
<1>3. IsFiniteSet(1 .. Len(s)) /\ Cardinality(1 .. Len(s)) = Len(s)
  BY <1>1, FS_Interval
<1>4. QED
  BY <1>2, <1>3, FS_Bijection DEF ExistsBijection

(* What the topology lemmas say of the configuration the cluster was       *)
(* started with.                                                           *)
LEMMA ConfigFacts ==
  ASSUME AllStartable, config \in Configs
  PROVE  /\ IsFiniteSet(N)
         /\ config.single_recv \in BOOLEAN
         /\ \A i \in N : TargetsOf(i) \subseteq N
         /\ \A i \in N : \A j \in TargetsOf(i) : IsServer(j)
         /\ \A j \in N : IsServer(j) => \/ num_senders(j) = 0
                                       \/ num_senders(j) = Cardinality({i \in N : j \in TargetsOf(i)})
         /\ config.topo = "tree" => \A i, j \in N : j \in TargetsOf(i) => i \in GroupTable[config][j]
         /\ \A i \in N : ~IsServer(i) => \A j, k \in TargetsOf(i) : j = k
<1> DEFINE topo == config.topo  n == config.n  w == config.w
<1>1. Startable(topo, n, w)
  BY DEF AllStartable
<1>2. n \in Nat /\ n \in Nat \ {0} /\ w \in Nat
  BY <1>1 DEF Startable
<1>3. \A i \in N : TargetsOf(i) = Targets(topo, n, w, i)
  BY DEF TargetsOf, TargetTable, N
<1>4. \A j \in N : num_senders(j) = NumSenders(topo, n, w, j)
  BY DEF num_senders, SenderTable, N
<1>5. config.topo = "tree" => \A j \in N : GroupTable[config][j] = TreePeers(n, w, j)
  BY DEF GroupTable, N
<1>6. N = Nodes(n) /\ \A j : IsServer(j) <=> j \in Servers(topo, n)
  BY DEF N, IsServer
<1> HIDE DEF topo, n, w
<1>7. IsFiniteSet(N) /\ config.single_recv \in BOOLEAN
  BY <1>2, <1>6, FiniteNodes, ConfigAssumption
<1>8. \A i \in N : TargetsOf(i) \subseteq Servers(topo, n) /\ Servers(topo, n) \subseteq N
  BY <1>1, <1>3, <1>6, TargetsAreServers
<1>9. ASSUME NEW j \in N, IsServer(j)
      PROVE  \/ num_senders(j) = 0
             \/ num_senders(j) = Cardinality({i \in N : j \in TargetsOf(i)})
  <2>1. {i \in N : j \in TargetsOf(i)} = Senders(topo, n, w, j)
    BY <1>3, <1>6 DEF Senders
  <2>2. QED
    BY <1>1, <1>4, <1>6, <1>9, <2>1, SendersCounted
<1>10. ASSUME config.topo = "tree", NEW i \in N, NEW j \in N, j \in TargetsOf(i)
       PROVE  i \in GroupTable[config][j]
  <2>1. w >= 2 /\ IsTreeSize(n, w) /\ topo = "tree"
    BY <1>1, <1>10 DEF Startable, topo
  <2>2. j \in TreePeers(n, w, i)
    BY <1>3, <1>10, <2>1 DEF Targets
  <2>3. i \in TreePeers(n, w, j)
    BY <1>2, <1>6, <2>1, <2>2, PeersSymmetric
  <2>4. QED
    BY <1>5, <1>10, <2>3
<1>11. ASSUME NEW i \in N, ~IsServer(i) PROVE \A j, k \in TargetsOf(i) : j = k
  <2>1. topo = "server-client"
    BY <1>6, <1>11 DEF Servers
  <2>2. TargetsOf(i) = {0} \ {i}
    BY <1>3, <2>1 DEF Targets
  <2>3. QED
    BY <2>2
<1>12. QED
  BY <1>6, <1>7, <1>8, <1>9, <1>10, <1>11

(* The invariant holds before any node is launched.                        *)
LEMMA InitIInv ==
  ASSUME AllStartable, Init
  PROVE  IInv
<1>1. config \in Configs
  BY DEF Init
<1>2. Types
  <2>1. backlog \in [N -> Seq(N)] /\ sess \in [N -> Seq(N)]
    BY DEF Init
  <2>2. QED
    BY <1>1, <2>1 DEF Init, Types, ServerPlaces, ClientPlaces
<1>3. ASSUME NEW j \in N PROVE QueuesOK(j)
  <2>1. sess[j] = << >> /\ backlog[j] = << >>
    BY DEF Init
  <2>2. \A i \in N : ~Came(i, j)
    BY DEF Init, Came
  <2>3. QED
    BY <2>1, <2>2, EmptyRange DEF QueuesOK
<1>4. ASSUME NEW j \in N PROVE ServerOK(j)
  <2>1. server[j] = "off" /\ up[j] = {} /\ \A t \in TargetsOf(j) : client[j][t] = "off"
    BY DEF Init
  <2>2. QED
    BY <2>1, FS_EmptySet DEF ServerOK
<1>5. AbortOK
  BY DEF Init, AbortOK
<1>6. QED
  BY <1>2, <1>3, <1>4, <1>5 DEF IInv

(* No step changes the command line, so none changes the topology.         *)
LEMMA SameConfig ==
  ASSUME config' = config
  PROVE  /\ N' = N
         /\ \A i : TargetsOf(i)' = TargetsOf(i) /\ num_senders(i)' = num_senders(i)
         /\ \A j : IsServer(j)' <=> IsServer(j)
  BY DEF N, TargetsOf, num_senders, IsServer

(* One client of one node moves.                                           *)
Moved(i, j, v) == client' = [client EXCEPT ![i][j] = v]

(* It alone has changed.                                                   *)
LEMMA ClientMoves ==
  ASSUME Types, NEW i \in N, NEW j \in TargetsOf(i), NEW v \in ClientPlaces,
         Moved(i, j, v), config' = config
  PROVE  /\ DOMAIN client' = N
         /\ \A a \in N : client'[a] \in [TargetsOf(a) -> ClientPlaces]
         /\ client'[i][j] = v
         /\ \A a \in N : \A b \in TargetsOf(a) : a # i \/ b # j => client'[a][b] = client[a][b]
<1>0. client' = [client EXCEPT ![i][j] = v]
  BY DEF Moved
<1>1. client[i] \in [TargetsOf(i) -> ClientPlaces] /\ DOMAIN client = N
  BY DEF Types
<1>2. client'[i] = [client[i] EXCEPT ![j] = v] /\ \A a \in N : a # i => client'[a] = client[a]
  BY <1>0, <1>1
<1>3. client'[i] \in [TargetsOf(i) -> ClientPlaces] /\ client'[i][j] = v
      /\ \A b \in TargetsOf(i) : b # j => client'[i][b] = client[i][b]
  BY <1>1, <1>2
<1>4. \A a \in N : client[a] \in [TargetsOf(a) -> ClientPlaces]
  BY DEF Types
<1>5. DOMAIN client' = N
  BY <1>0, <1>1
<1>6. QED
  BY <1>2, <1>3, <1>4, <1>5

(* A step that leaves server j and the clients that got through to it. *)
LEMMA QueuesKept ==
  ASSUME NEW j, QueuesOK(j), config' = config, sess'[j] = sess[j], backlog'[j] = backlog[j],
         \A i \in N : Came(i, j)' <=> Came(i, j)
  PROVE  QueuesOK(j)'
  BY SameConfig DEF QueuesOK

(* A step that leaves server j, and takes no arrived client from it, keeps *)
(* what is known of the server.                                            *)
LEMMA ServerKept ==
  ASSUME NEW j \in N, ServerOK(j), config' = config, sess'[j] = sess[j], backlog'[j] = backlog[j],
         server'[j] = server[j], up'[j] = up[j],
         \A i \in N : Came(i, j) => Came(i, j)',
         server[j] = "off" => \A t \in TargetsOf(j) : client'[j][t] = client[j][t]
  PROVE  ServerOK(j)'
  BY SameConfig DEF ServerOK

(* A step that ends no process and leaves the connecting clients of ended  *)
(* processes keeps what is known of those.                                 *)
LEMMA AbortKept ==
  ASSUME AbortOK, config' = config, aborted' = aborted,
         \A i \in aborted : \A j \in TargetsOf(i) :
           client[i][j] = "connecting" => client'[i][j] = "connecting"
  PROVE  AbortOK'
  BY SameConfig DEF AbortOK

(* Starting a node: its server thread and its clients.                     *)
LEMMA LaunchIInv ==
  ASSUME AllStartable, IInv, NEW i \in N, Launch(i)
  PROVE  IInv'
<1>0. Types /\ (\A j \in N : QueuesOK(j) /\ ServerOK(j)) /\ AbortOK /\ config' = config
  BY DEF IInv, Launch
<1> USE <1>0, SameConfig
<1>1. /\ server[i] = "off"
      /\ UNCHANGED <<config, backlog, sess, up, aborted>>
      /\ server' = [server EXCEPT ![i] = IF IsServer(i) THEN "starting" ELSE "none"]
      /\ client' = [client EXCEPT ![i] = [j \in TargetsOf(i) |-> "connecting"]]
  BY DEF Launch
<1>2. /\ server' \in [N -> ServerPlaces]
      /\ server'[i] = IF IsServer(i) THEN "starting" ELSE "none"
      /\ \A j \in N : j # i => server'[j] = server[j]
  BY <1>1 DEF Types, ServerPlaces
<1>3. /\ DOMAIN client' = N
      /\ \A a \in N : a # i => client'[a] = client[a]
      /\ client'[i] = [j \in TargetsOf(i) |-> "connecting"]
  BY <1>1 DEF Types
<1>4. ASSUME NEW a \in N PROVE client'[a] \in [TargetsOf(a) -> ClientPlaces]
  <2>1. client[a] \in [TargetsOf(a) -> ClientPlaces]
    BY DEF Types
  <2>2. [j \in TargetsOf(i) |-> "connecting"] \in [TargetsOf(i) -> ClientPlaces]
    BY DEF ClientPlaces
  <2>3. QED
    BY <1>3, <2>1, <2>2
<1>5. Types'
  BY <1>1, <1>2, <1>3, <1>4 DEF Types
<1>6. \A a, j \in N : Came(a, j)' <=> Came(a, j)
  <2>1. \A t \in TargetsOf(i) : client[i][t] = "off" /\ client'[i][t] = "connecting"
    BY <1>1, <1>3 DEF ServerOK
  <2>2. \A j \in N : ~Came(i, j) /\ ~Came(i, j)'
    BY <2>1 DEF Came
  <2>3. QED
    BY <1>3, <2>2 DEF Came
<1>7. ASSUME NEW j \in N PROVE QueuesOK(j)'
  BY <1>1, <1>6, QueuesKept
<1>8. ASSUME NEW j \in N PROVE ServerOK(j)'
  <2>1. CASE j # i
    BY <1>1, <1>2, <1>3, <1>6, <2>1, ServerKept
  <2>2. CASE j = i
    <3>1. server'[j] \in {"starting", "none"} /\ (server'[j] = "starting" => IsServer(j)')
      BY <1>2, <2>2
    <3>2. up'[j] = up[j] /\ config'.single_recv = config.single_recv
          /\ (config.single_recv => up[j] = {} /\ IsFiniteSet(up[j]))
      BY <1>1, <2>2, FS_EmptySet DEF ServerOK
    <3>3. QED
      BY <3>1, <3>2 DEF ServerOK
  <2>3. QED
    BY <2>1, <2>2
<1>9. AbortOK'
  <2>1. \A a \in aborted : \A j \in TargetsOf(a) :
          client[a][j] = "connecting" => client'[a][j] = "connecting"
    BY <1>3 DEF Types
  <2>2. QED
    BY <2>1, <1>1, AbortKept
<1>10. QED
  BY <1>5, <1>7, <1>8, <1>9 DEF IInv

(* The server listens.                                                     *)
LEMMA ListenIInv ==
  ASSUME AllStartable, IInv, NEW i \in N, Listen(i)
  PROVE  IInv'
<1>0. Types /\ (\A j \in N : QueuesOK(j) /\ ServerOK(j)) /\ AbortOK /\ config' = config
  BY DEF IInv, Listen
<1> USE <1>0, SameConfig
<1>1. /\ server[i] = "starting" /\ server' = [server EXCEPT ![i] = "accept"]
      /\ UNCHANGED <<config, client, backlog, sess, up, aborted>>
  BY DEF Listen
<1>2. /\ server' \in [N -> ServerPlaces]
      /\ server'[i] = "accept"
      /\ \A j \in N : j # i => server'[j] = server[j]
  BY <1>1 DEF Types, ServerPlaces
<1>3. Types'
  BY <1>1, <1>2 DEF Types
<1>4. \A a, j \in N : Came(a, j)' <=> Came(a, j)
  BY <1>1 DEF Came
<1>5. ASSUME NEW j \in N PROVE QueuesOK(j)'
  BY <1>1, <1>4, QueuesKept
<1>6. ASSUME NEW j \in N PROVE ServerOK(j)'
  <2>1. CASE j # i
    BY <1>1, <1>2, <1>4, <2>1, ServerKept
  <2>2. CASE j = i
    BY <1>1, <1>2, <2>2 DEF ServerOK
  <2>3. QED
    BY <2>1, <2>2
<1>7. AbortOK'
  BY <1>1, AbortKept
<1>8. QED
  BY <1>3, <1>5, <1>6, <1>7 DEF IInv

(* A client connects: it joins the backlog.                                *)
LEMMA ConnectIInv ==
  ASSUME AllStartable, IInv, NEW i \in N, NEW j \in TargetsOf(i), Connect(i, j)
  PROVE  IInv'
<1>0. Types /\ (\A k \in N : QueuesOK(k) /\ ServerOK(k)) /\ AbortOK /\ config' = config
  BY DEF IInv, Connect
<1> USE <1>0, SameConfig
<1>1. /\ i \notin aborted /\ client[i][j] = "connecting"
      /\ client' = [client EXCEPT ![i][j] = "connected"]
      /\ backlog' = [backlog EXCEPT ![j] = Append(@, i)]
      /\ UNCHANGED <<config, server, sess, up, aborted>>
  BY DEF Connect, Alive
<1>2. j \in N
  BY ConfigFacts DEF Types
<1>3. "connected" \in ClientPlaces
  BY DEF ClientPlaces
<1>4. /\ DOMAIN client' = N
      /\ \A a \in N : client'[a] \in [TargetsOf(a) -> ClientPlaces]
      /\ client'[i][j] = "connected"
      /\ \A a \in N : \A b \in TargetsOf(a) : a # i \/ b # j => client'[a][b] = client[a][b]
  <2>1. Moved(i, j, "connected")
    BY <1>1 DEF Moved
  <2> HIDE <1>0, SameConfig
  <2>2. Types /\ config' = config
    BY <1>0
  <2>3. QED
    BY <2>1, <2>2, <1>3, ClientMoves
<1>5. ~Came(i, j) /\ Came(i, j)' /\ \A a, b \in N : a # i \/ b # j => (Came(a, b)' <=> Came(a, b))
  BY <1>1, <1>4 DEF Came
<1>6. backlog[j] \in Seq(N) /\ Distinct(backlog[j]) /\ i \notin Range(backlog[j]) /\ i \notin Range(sess[j])
  BY <1>2, <1>5 DEF Types, QueuesOK
<1>7. /\ Append(backlog[j], i) \in Seq(N)
      /\ Range(Append(backlog[j], i)) = Range(backlog[j]) \cup {i}
      /\ Distinct(Append(backlog[j], i))
  BY <1>6, AppendRange
<1>8. /\ backlog' \in [N -> Seq(N)]
      /\ backlog'[j] = Append(backlog[j], i)
      /\ \A k \in N : k # j => backlog'[k] = backlog[k]
  BY <1>1, <1>2, <1>7 DEF Types
<1>9. Types'
  BY <1>1, <1>4, <1>8 DEF Types
<1>10. ASSUME NEW k \in N PROVE QueuesOK(k)'
  <2>1. CASE k # j
    BY <1>1, <1>5, <1>8, <2>1, QueuesKept
  <2>2. CASE k = j
    <3>1. Distinct(sess'[j]) /\ Distinct(backlog'[j]) /\ Range(sess'[j]) = Range(sess[j])
          /\ Range(backlog'[j]) = Range(backlog[j]) \cup {i}
      BY <1>1, <1>2, <1>7, <1>8 DEF QueuesOK
    <3>2. Range(sess'[j]) \cap Range(backlog'[j]) = {}
      BY <1>2, <1>6, <3>1 DEF QueuesOK
    <3>3. \A a \in N : a \in Range(sess'[j]) \cup Range(backlog'[j]) <=> Came(a, j)'
      BY <1>2, <1>5, <3>1 DEF QueuesOK
    <3>4. QED
      BY <2>2, <3>1, <3>2, <3>3 DEF QueuesOK
  <2>3. QED
    BY <2>1, <2>2
<1>11. ASSUME NEW k \in N PROVE ServerOK(k)'
  <2>1. \A a \in N : Came(a, k) => Came(a, k)'
    BY <1>5
  <2>2. server[k] = "off" => \A t \in TargetsOf(k) : client'[k][t] = client[k][t]
    BY <1>1, <1>4 DEF ServerOK
  <2>3. CASE k # j
    BY <1>1, <1>8, <2>1, <2>2, <2>3, ServerKept
  <2>4. CASE k = j
    <3>1. server[j] \notin {"init", "run"}
      BY <1>2, <1>5 DEF ServerOK
    <3>2. QED
      BY <1>1, <1>2, <2>1, <2>2, <2>4, <3>1 DEF ServerOK
  <2>5. QED
    BY <2>3, <2>4
<1>12. AbortOK'
  <2>1. \A a \in aborted : \A b \in TargetsOf(a) :
          client[a][b] = "connecting" => client'[a][b] = "connecting"
    BY <1>1, <1>4 DEF Types
  <2>2. QED
    BY <2>1, <1>1, AbortKept
<1>13. QED
  BY <1>9, <1>10, <1>11, <1>12 DEF IInv

(* The server accepts the head of its backlog, and ends the loop when it   *)
(* has counted all its senders.                                            *)
LEMMA AcceptIInv ==
  ASSUME AllStartable, IInv, NEW j \in N, Accept(j)
  PROVE  IInv'
<1>0. Types /\ (\A k \in N : QueuesOK(k) /\ ServerOK(k)) /\ AbortOK /\ config' = config
  BY DEF IInv, Accept
<1> USE <1>0, SameConfig
<1> DEFINE h == Head(backlog[j])
           last == config.single_recv /\ Len(sess[j]) + 1 = num_senders(j)
<1>1. /\ server[j] = "accept" /\ backlog[j] # << >>
      /\ sess' = [sess EXCEPT ![j] = Append(@, h)]
      /\ backlog' = [backlog EXCEPT ![j] = Tail(@)]
      /\ server' = [server EXCEPT ![j] = IF last THEN "init" ELSE "accept"]
      /\ UNCHANGED <<config, client, up, aborted>>
  BY DEF Accept
<1>2. sess[j] \in Seq(N) /\ backlog[j] \in Seq(N) /\ Distinct(sess[j]) /\ Distinct(backlog[j])
      /\ Range(sess[j]) \cap Range(backlog[j]) = {}
  BY DEF Types, QueuesOK
<1>3. /\ Tail(backlog[j]) \in Seq(N) /\ h \in N /\ h \in Range(backlog[j])
      /\ Range(Tail(backlog[j])) = Range(backlog[j]) \ {h}
      /\ Distinct(Tail(backlog[j]))
  BY <1>1, <1>2, TailRange
<1>4. h \notin Range(sess[j])
  BY <1>2, <1>3
<1> HIDE DEF h
<1>5. /\ Append(sess[j], h) \in Seq(N)
      /\ Range(Append(sess[j], h)) = Range(sess[j]) \cup {h}
      /\ Distinct(Append(sess[j], h))
      /\ Len(Append(sess[j], h)) = Len(sess[j]) + 1
  BY <1>2, <1>3, <1>4, AppendRange, AppendProperties
<1>6. /\ sess' \in [N -> Seq(N)] /\ sess'[j] = Append(sess[j], h)
      /\ backlog' \in [N -> Seq(N)] /\ backlog'[j] = Tail(backlog[j])
      /\ \A k \in N : k # j => sess'[k] = sess[k] /\ backlog'[k] = backlog[k]
  BY <1>1, <1>3, <1>5 DEF Types
<1>7. /\ server' \in [N -> ServerPlaces]
      /\ server'[j] = IF last THEN "init" ELSE "accept"
      /\ \A k \in N : k # j => server'[k] = server[k]
  <2> HIDE DEF last
  <2>1. QED
    BY <1>1 DEF Types, ServerPlaces
<1>8. Types'
  BY <1>1, <1>6, <1>7 DEF Types
<1>9. \A a, k \in N : Came(a, k)' <=> Came(a, k)
  BY <1>1 DEF Came
<1>10. ASSUME NEW k \in N PROVE QueuesOK(k)'
  <2>1. CASE k # j
    BY <1>6, <1>9, <2>1, QueuesKept
  <2>2. CASE k = j
    <3>1. Distinct(sess'[j]) /\ Distinct(backlog'[j])
          /\ Range(sess'[j]) = Range(sess[j]) \cup {h}
          /\ Range(backlog'[j]) = Range(backlog[j]) \ {h}
      BY <1>3, <1>5, <1>6
    <3>2. Range(sess'[j]) \cap Range(backlog'[j]) = {}
          /\ Range(sess'[j]) \cup Range(backlog'[j]) = Range(sess[j]) \cup Range(backlog[j])
      BY <1>2, <1>3, <3>1
    <3>3. QED
      BY <1>9, <2>2, <3>1, <3>2 DEF QueuesOK
  <2>3. QED
    BY <2>1, <2>2
<1>11. ASSUME last PROVE backlog'[j] = << >> /\ \A i \in N : j \in TargetsOf(i) => Came(i, j)'
  <2> DEFINE Every == {i \in N : j \in TargetsOf(i)}
             Here == Range(sess'[j])
  <2>1. IsServer(j) /\ IsFiniteSet(N)
    BY <1>1, ConfigFacts DEF ServerOK, Types
  <2>2. IsFiniteSet(Here) /\ Cardinality(Here) = Len(sess[j]) + 1 /\ Len(sess[j]) \in Nat
    <3>1. sess'[j] \in Seq(N) /\ Distinct(sess'[j]) /\ Len(sess'[j]) = Len(sess[j]) + 1
      BY <1>5, <1>6
    <3>2. QED
      BY <3>1, <1>2, DistinctCount
  <2>3. Cardinality(Here) = Cardinality(Every)
    <3>1. num_senders(j) = 0 \/ num_senders(j) = Cardinality(Every)
      BY <2>1, ConfigFacts DEF Types
    <3> HIDE DEF Every, Here
    <3>2. QED
      BY <1>11, <2>2, <3>1
  <2>4. Here \subseteq Every /\ Range(backlog'[j]) \subseteq Every /\ Here \cap Range(backlog'[j]) = {}
        /\ \A i \in Here : Came(i, j)'
    <3>1. Here \subseteq N /\ Range(backlog'[j]) \subseteq N
      BY <1>6, EmptyRange
    <3>2. Here \cap Range(backlog'[j]) = {}
          /\ \A i \in N : i \in Here \cup Range(backlog'[j]) => Came(i, j)'
      BY <1>10 DEF QueuesOK
    <3>3. \A i \in N : Came(i, j)' => j \in TargetsOf(i)
      BY DEF Came
    <3> HIDE DEF Here
    <3>4. QED
      BY <3>1, <3>2, <3>3
  <2>5. IsFiniteSet(Every)
    BY <2>1, FS_Subset
  <2> HIDE DEF Every, Here
  <2>6. Here = Every
    BY <2>3, <2>4, <2>5, FS_Subset
  <2>7. Range(backlog'[j]) = {}
    BY <2>4, <2>6
  <2>8. backlog'[j] = << >>
    BY <1>6, <2>7, EmptyRange
  <2>9. QED
    BY <2>4, <2>6, <2>8 DEF Every
<1>12. ASSUME NEW k \in N PROVE ServerOK(k)'
  <2>1. CASE k # j
    BY <1>1, <1>6, <1>7, <1>9, <2>1, ServerKept
  <2>2. CASE k = j /\ ~last
    <3>1. server'[j] = "accept" /\ up'[j] = up[j]
      BY <1>1, <1>7, <2>2
    <3>2. QED
      BY <1>1, <2>2, <3>1 DEF ServerOK
  <2>3. CASE k = j /\ last
    <3>1. server'[j] = "init" /\ up'[j] = up[j] /\ config.single_recv
      BY <1>1, <1>7, <2>3
    <3>2. up'[j] = {} /\ IsServer(j)
      BY <1>1, <3>1 DEF ServerOK
    <3>3. IsFiniteSet({}) /\ Cardinality({}) = 0
      BY FS_EmptySet
    <3>4. 0 < Len(sess'[j])
      BY <1>2, <1>5, <1>6
    <3>5. {sess'[j][m] : m \in 1 .. 0} = {}
      OBVIOUS
    <3>6. backlog'[j] = << >> /\ \A i \in N : j \in TargetsOf(i) => Came(i, j)'
      BY <1>11, <2>3
    <3> HIDE DEF last
    <3>7. QED
      BY <2>3, <3>1, <3>2, <3>3, <3>4, <3>5, <3>6 DEF ServerOK
  <2>4. QED
    BY <2>1, <2>2, <2>3
<1>13. AbortOK'
  BY <1>1, AbortKept
<1>14. QED
  BY <1>8, <1>10, <1>12, <1>13 DEF IInv

(* A client that is waiting for its session is in the list of sessions of  *)
(* its server.                                                             *)
LEMMA WaitingFor ==
  ASSUME AllStartable, IInv, NEW j \in N, NEW i, i \in Waiting(j)
  PROVE  /\ i \in N /\ Came(i, j) /\ IsServer(j)
         /\ config.single_recv =>
              /\ server[j] = "init"
              /\ Cardinality(up[j]) \in Nat /\ Cardinality(up[j]) + 1 \in 1 .. Len(sess[j])
              /\ i = sess[j][Cardinality(up[j]) + 1]
<1>1. Types /\ QueuesOK(j) /\ ServerOK(j) /\ sess[j] \in Seq(N) /\ DOMAIN sess[j] = 1 .. Len(sess[j])
      /\ Len(sess[j]) \in Nat
  BY DEF IInv, Types
<1>2. config.single_recv =>
        /\ server[j] = "init"
        /\ Cardinality(up[j]) \in Nat /\ Cardinality(up[j]) + 1 \in 1 .. Len(sess[j])
        /\ i = sess[j][Cardinality(up[j]) + 1]
  <2> SUFFICES ASSUME config.single_recv
               PROVE  /\ server[j] = "init"
                      /\ Cardinality(up[j]) \in Nat /\ Cardinality(up[j]) + 1 \in 1 .. Len(sess[j])
                      /\ i = sess[j][Cardinality(up[j]) + 1]
    OBVIOUS
  <2>1. server[j] = "init" /\ i = sess[j][Cardinality(up[j]) + 1]
    BY DEF Waiting
  <2>2. IsFiniteSet(up[j]) /\ Cardinality(up[j]) < Len(sess[j])
    BY <1>1, <2>1 DEF ServerOK
  <2>3. Cardinality(up[j]) \in Nat
    BY <2>2, FS_CardinalityType
  <2>4. QED
    BY <1>1, <2>1, <2>2, <2>3
<1>3. i \in Range(sess[j])
  <2>1. CASE config.single_recv
    BY <1>1, <1>2, <2>1 DEF Range
  <2>2. CASE ~config.single_recv
    BY <2>2 DEF Waiting, Range
  <2>3. QED
    BY <2>1, <2>2
<1>4. i \in N /\ Came(i, j)
  BY <1>1, <1>3, EmptyRange DEF QueuesOK
<1>5. IsServer(j)
  BY <1>1, <1>4, ConfigFacts DEF Types, Came
<1>6. QED
  BY <1>2, <1>4, <1>5

(* The server initialises a session.                                       *)
LEMMA SessionInitIInv ==
  ASSUME AllStartable, IInv, NEW j \in N, NEW i \in N, SessionInit(j, i)
  PROVE  IInv' /\ aborted' = aborted
<1>0. Types /\ (\A k \in N : QueuesOK(k) /\ ServerOK(k)) /\ AbortOK /\ config' = config
  BY DEF IInv, SessionInit
<1> USE <1>0, SameConfig
<1> DEFINE card == Cardinality(up[j])
           over == config.single_recv /\ card + 1 = Len(sess[j])
<1>1. i \in Waiting(j)
  BY DEF SessionInit
<1>2. /\ j \in TargetsOf(i) /\ client[i][j] \in {"connected", "running"} /\ IsServer(j)
      /\ config.single_recv =>
           /\ server[j] = "init"
           /\ card \in Nat /\ card + 1 \in 1 .. Len(sess[j])
           /\ i = sess[j][card + 1]
  BY <1>1, WaitingFor DEF Came
<1>3. /\ client' = [client EXCEPT ![i][j] = "running"]
      /\ up' = [up EXCEPT ![j] = @ \cup {i}]
      /\ server' = [server EXCEPT ![j] = IF over THEN "run" ELSE @]
      /\ UNCHANGED <<config, backlog, sess, aborted>>
  <2>1. ~(config.single_recv /\ config.topo = "tree" /\ i \notin GroupTable[config][j])
    BY <1>2, ConfigFacts DEF Types
  <2>2. QED
    BY <2>1 DEF SessionInit
<1>4. "running" \in ClientPlaces
  BY DEF ClientPlaces
<1>5. /\ DOMAIN client' = N
      /\ \A a \in N : client'[a] \in [TargetsOf(a) -> ClientPlaces]
      /\ client'[i][j] = "running"
      /\ \A a \in N : \A b \in TargetsOf(a) : a # i \/ b # j => client'[a][b] = client[a][b]
  <2>1. j \in TargetsOf(i) /\ Moved(i, j, "running")
    BY <1>2, <1>3 DEF Moved
  <2> HIDE <1>0, SameConfig
  <2>2. Types /\ config' = config
    BY <1>0
  <2>3. QED
    BY <2>1, <2>2, <1>4, ClientMoves
<1>6. \A a, b \in N : Came(a, b)' <=> Came(a, b)
  BY <1>2, <1>5 DEF Came
<1>7. /\ up' \in [N -> SUBSET N] /\ up'[j] = up[j] \cup {i}
      /\ \A k \in N : k # j => up'[k] = up[k]
  BY <1>3 DEF Types
<1>8. /\ server' \in [N -> ServerPlaces] /\ server'[j] = IF over THEN "run" ELSE server[j]
      /\ \A k \in N : k # j => server'[k] = server[k]
  <2> HIDE DEF over
  <2>1. QED
    BY <1>3 DEF Types, ServerPlaces
<1>9. Types'
  BY <1>3, <1>5, <1>7, <1>8 DEF Types
<1>10. ASSUME NEW k \in N PROVE QueuesOK(k)'
  BY <1>3, <1>6, QueuesKept
<1>11. ASSUME NEW k \in N PROVE ServerOK(k)'
  <2>1. \A a \in N : Came(a, k) => Came(a, k)'
    BY <1>6
  <2>2. server[k] = "off" => \A t \in TargetsOf(k) : client'[k][t] = client[k][t]
    BY <1>2, <1>5 DEF ServerOK
  <2>3. CASE k # j
    BY <1>3, <1>7, <1>8, <2>1, <2>2, <2>3, ServerKept
  <2>4. CASE k = j /\ ~config.single_recv
    <3>1. server'[j] = server[j] /\ server[j] \notin {"init", "run"}
      BY <1>8, <2>4 DEF ServerOK
    <3>2. QED
      BY <1>3, <2>1, <2>2, <2>4, <3>1 DEF ServerOK
  <2>5. CASE k = j /\ config.single_recv
    <3>1. /\ server[j] = "init" /\ IsFiniteSet(up[j]) /\ card < Len(sess[j])
          /\ up[j] = {sess[j][m] : m \in 1 .. card}
          /\ card \in Nat /\ card + 1 \in 1 .. Len(sess[j]) /\ i = sess[j][card + 1]
          /\ Len(sess[j]) \in Nat /\ DOMAIN sess[j] = 1 .. Len(sess[j]) /\ Distinct(sess[j])
      <4>1. server[j] = "init" /\ card + 1 \in 1 .. Len(sess[j]) /\ i = sess[j][card + 1]
        BY <1>2, <2>5
      <4>2. sess[j] \in Seq(N) /\ Distinct(sess[j])
        BY DEF Types, QueuesOK
      <4>3. Len(sess[j]) \in Nat /\ DOMAIN sess[j] = 1 .. Len(sess[j])
        BY <4>2
      <4>4. IsFiniteSet(up[j]) /\ card < Len(sess[j]) /\ up[j] = {sess[j][m] : m \in 1 .. card}
        BY <2>5, <4>1 DEF ServerOK
      <4>5. card \in Nat
        BY <4>4, FS_CardinalityType
      <4>6. QED
        BY <4>1, <4>2, <4>3, <4>4, <4>5
    <3> HIDE DEF card
    <3>2. i \notin up[j]
      BY <3>1 DEF Distinct
    <3>3. IsFiniteSet(up'[j]) /\ Cardinality(up'[j]) = card + 1
      BY <1>7, <3>1, <3>2, FS_AddElement DEF card
    <3>4. up'[j] = {sess'[j][m] : m \in 1 .. card + 1}
      BY <1>3, <1>7, <3>1
    <3>5. server'[j] \in {"init", "run"} /\ (server'[j] = "init" => card + 1 < Len(sess[j]))
      BY <1>8, <2>5, <3>1
    <3>6. backlog[j] = << >> /\ \A a \in N : j \in TargetsOf(a) => Came(a, j)
      BY <3>1 DEF ServerOK
    <3>7. backlog'[j] = << >> /\ sess'[j] = sess[j] /\ config'.single_recv
      BY <1>3, <2>5, <3>6
    <3> HIDE DEF over
    <3>8. QED
      BY <1>2, <2>1, <2>5, <3>3, <3>4, <3>5, <3>6, <3>7 DEF ServerOK
  <2>6. QED
    BY <2>3, <2>4, <2>5
<1>12. AbortOK'
  <2>1. \A a \in aborted : \A b \in TargetsOf(a) :
          client[a][b] = "connecting" => client'[a][b] = "connecting"
    BY <1>2, <1>5 DEF Types
  <2>2. QED
    BY <2>1, <1>3, AbortKept
<1>13. QED
  BY <1>3, <1>9, <1>10, <1>11, <1>12 DEF IInv

(* A process ends: one that runs a server, or one whose server ended, or   *)
(* one whose client was still connecting.                                  *)
LEMMA AbortIInv ==
  ASSUME AllStartable, IInv, NEW i \in N, aborted' = aborted \cup {i},
         UNCHANGED <<config, server, client, backlog, sess, up>>,
         \/ IsServer(i)
         \/ \E s \in aborted : IsServer(s)
         \/ \E j \in TargetsOf(i) : client[i][j] = "connecting"
  PROVE  IInv'
<1>0. Types /\ (\A k \in N : QueuesOK(k) /\ ServerOK(k)) /\ AbortOK
  BY DEF IInv
<1> USE <1>0, SameConfig
<1>1. Types'
  BY DEF Types
<1>2. \A a, k \in N : Came(a, k)' <=> Came(a, k)
  BY DEF Came
<1>3. ASSUME NEW k \in N PROVE QueuesOK(k)' /\ ServerOK(k)'
  BY <1>2, QueuesKept, ServerKept
<1>4. AbortOK'
  BY DEF AbortOK
<1>5. QED
  BY <1>1, <1>3, <1>4 DEF IInv

(* A client gives up connecting, or a connection is lost because the       *)
(* process at its other end is gone.                                       *)
LEMMA LossIInv ==
  ASSUME AllStartable, IInv, NEW i \in N, NEW j,
         (j \in TargetsOf(i) /\ GiveUp(i, j)) \/ (j \in N /\ PeerLost(i, j))
  PROVE  IInv'
<1>0. Types
  BY DEF IInv
<1>1. CASE j \in TargetsOf(i) /\ GiveUp(i, j)
  <2>1. /\ aborted' = aborted \cup {i} /\ UNCHANGED <<config, server, client, backlog, sess, up>>
        /\ \E t \in TargetsOf(i) : client[i][t] = "connecting"
    BY <1>1 DEF GiveUp
  <2>2. QED
    BY <2>1, AbortIInv
<1>2. CASE j \in N /\ PeerLost(i, j)
  <2>1. /\ aborted' = aborted \cup {i} /\ UNCHANGED <<config, server, client, backlog, sess, up>>
        /\ j \in aborted /\ (j \in TargetsOf(i) \/ j \in Waiting(i))
    BY <1>2 DEF PeerLost
  <2>2. IsServer(i) \/ \E s \in aborted : IsServer(s)
    BY <1>0, <2>1, ConfigFacts, WaitingFor DEF Types
  <2>3. QED
    BY <2>1, <2>2, AbortIInv
<1>3. QED
  BY <1>1, <1>2

(* Every step keeps the invariant.                                         *)
LEMMA NextIInv ==
  ASSUME AllStartable, IInv, [Next]_vars
  PROVE  IInv'
<1>1. CASE UNCHANGED vars
  <2>1. UNCHANGED <<config, server, client, backlog, sess, up, aborted>>
    BY <1>1 DEF vars
  <2>2. Types'
    BY <2>1, SameConfig DEF IInv, Types
  <2>3. \A a, k \in N : Came(a, k)' <=> Came(a, k)
    BY <2>1, SameConfig DEF Came
  <2>4. ASSUME NEW k \in N PROVE QueuesOK(k)' /\ ServerOK(k)'
    BY <2>1, <2>3, QueuesKept, ServerKept DEF IInv
  <2>5. AbortOK'
    BY <2>1, AbortKept DEF IInv
  <2>6. QED
    BY <2>1, <2>2, <2>4, <2>5, SameConfig DEF IInv
<1>2. ASSUME NEW i \in N, Step(i) PROVE IInv'
  BY <1>2, LaunchIInv, ListenIInv, AcceptIInv, ConnectIInv, SessionInitIInv DEF Step
<1>3. ASSUME NEW i \in N, NEW j \in TargetsOf(i), GiveUp(i, j) PROVE IInv'
  BY <1>3, LossIInv
<1>4. ASSUME NEW i \in N, NEW j \in N, PeerLost(i, j) PROVE IInv'
  BY <1>4, LossIInv
<1>5. QED
  BY <1>1, <1>2, <1>3, <1>4 DEF Next

(* The invariant holds in every state that can be reached.                 *)
LEMMA Invariance == AllStartable => (Spec => []IInv)
<1> SUFFICES ASSUME AllStartable PROVE Spec => []IInv
  OBVIOUS
<1>1. Init => IInv
  BY InitIInv
<1>2. IInv /\ [Next]_vars => IInv'
  BY NextIInv
<1>3. QED
  BY <1>1, <1>2, PTL DEF Spec

(* Started with command lines that Configuration accepts, of any size and  *)
(* topology, a single receiver whose accept loop has ended has accepted    *)
(* every client that is going to connect: nobody is left in its backlog or *)
(* still connecting (run_server counts the connections it accepted against *)
(* num_senders).                                                           *)
THEOREM NobodyStranded == AllStartable => (Spec => []NoClientStranded)
<1> SUFFICES ASSUME AllStartable PROVE Spec => []NoClientStranded
  OBVIOUS
<1>1. IInv => NoClientStranded
  BY DEF IInv, ServerOK, Came, NoClientStranded
<1>2. QED
  BY <1>1, Invariance, PTL

(* Once every server listens, no process ends any more: a client that finds *)
(* its server never exhausts its retries, and no peer is lost.             *)
THEOREM AbortsAreEarly == AllStartable => (Spec => NoLateAbort)
<1> SUFFICES ASSUME AllStartable PROVE Spec => NoLateAbort
  OBVIOUS
<1> DEFINE Late == (\A j \in N : IsServer(j) => Listening(j)) => aborted' = aborted
<1>1. IInv /\ [Next]_vars => [Late]_vars
  <2> SUFFICES ASSUME IInv, [Next]_vars, \A j \in N : IsServer(j) => Listening(j)
               PROVE  aborted' = aborted
    OBVIOUS
  <2>0. Types /\ AbortOK
    BY DEF IInv
  <2>1. \A j \in N : IsServer(j) => Listening(j) /\ j \notin aborted
    BY DEF Listening, Alive
  <2>2. CASE UNCHANGED vars
    BY <2>2 DEF vars
  <2>3. ASSUME NEW i \in N, Step(i) PROVE aborted' = aborted
    <3>1. CASE \E j \in N : SessionInit(i, j)
      BY <3>1, SessionInitIInv
    <3>2. CASE Launch(i) \/ Listen(i) \/ Accept(i) \/ \E j \in TargetsOf(i) : Connect(i, j)
      BY <3>2 DEF Launch, Listen, Accept, Connect
    <3>3. QED
      BY <2>3, <3>1, <3>2 DEF Step
  <2>4. ASSUME NEW i \in N, NEW j \in TargetsOf(i), GiveUp(i, j) PROVE FALSE
    <3>1. j \in N /\ IsServer(j)
      BY <2>0, ConfigFacts DEF Types
    <3>2. QED
      BY <2>1, <2>4, <3>1 DEF GiveUp
  <2>5. ASSUME NEW i \in N, NEW j \in N, PeerLost(i, j) PROVE FALSE
    <3>1. j \in aborted /\ ~IsServer(j)
      BY <2>1, <2>5 DEF PeerLost
    <3>2. j \notin TargetsOf(i)
      BY <2>0, <3>1, ConfigFacts DEF Types
    <3>3. j \in Waiting(i)
      BY <2>5, <3>2 DEF PeerLost
    <3>4. Came(j, i)
      BY <3>3, WaitingFor
    <3>5. PICK t \in TargetsOf(j) : client[j][t] = "connecting"
      BY <2>0, <2>1, <3>1 DEF AbortOK, Types
    <3>6. t = i
      BY <2>0, <3>1, <3>4, <3>5, ConfigFacts DEF Types, Came
    <3>7. QED
      BY <3>4, <3>5, <3>6 DEF Came
  <2>6. QED
    BY <2>2, <2>3, <2>4, <2>5 DEF Next
<1>2. QED
  BY <1>1, Invariance, PTL DEF Spec, NoLateAbort

-----------------------------------------------------------------------------
(* From the command line to the services. *)

(* The fields of a Config object that decide anything here.                *)
Fields == {"cluster", "num_senders", "single_recv", "all_reduce", "tree_width", "server_name",
           "serve_as_client", "use_event"}

(* What the variables hold: the Config objects keep their fields, and the  *)
(* width is a number.                                                      *)
ConfTypes ==
  /\ np \in Nat \ {0, 1}
  /\ DOMAIN argv = 1 .. Len(argv)
  /\ \A a \in Range(argv) :
       Len(a) = 2 /\ a[1] \in Options /\ (a[1] = "tree-width" => a[2] \in Int)
  /\ optind \in Nat \ {0}
  /\ DOMAIN conf = Nodes(np) /\ DOMAIN stage = Nodes(np)
  /\ \A m \in Nodes(np) : DOMAIN conf[m] = Fields /\ conf[m].tree_width \in Int

(* A node that runs has passed both checks, and nothing has changed its    *)
(* Config object since.                                                    *)
Judged ==
  \A m \in Nodes(np) :
    /\ stage[m] = "ready" => ~Refused(conf[m])
    /\ stage[m] = "running" => ~Refused(conf[m]) /\ Outcome(conf[m]) = "running"

(* The inductive invariant of Configuration, as far as it does not depend  *)
(* on the order of the lists.                                              *)
ConfInv == ConfTypes /\ Judged

(* A case of parse_args sets one option of the Config object (two for the  *)
(* server's name), and tree_width to a number.                             *)
LEMMA ParseKeeps ==
  ASSUME NEW me, NEW c, DOMAIN c = Fields, c.tree_width \in Int,
         NEW a, a[1] \in Options, a[1] = "tree-width" => a[2] \in Int
  PROVE  DOMAIN ParseOption(me, c, a) = Fields /\ ParseOption(me, c, a).tree_width \in Int
<1> DEFINE d == ParseOption(me, c, a)
<1>1. CASE a[1] = "cluster"
  <2>1. PICK list : d = [c EXCEPT !.cluster = list]
    BY <1>1 DEF ParseOption
  <2> HIDE DEF d
  <2>2. DOMAIN d = Fields /\ d.tree_width \in Int
    BY <2>1 DEF Fields
  <2>3. QED
    BY <2>2 DEF d
<1>2. CASE a[1] = "server"
  BY <1>2 DEF ParseOption, SetServerName, Fields
<1>3. CASE a[1] \in {"num", "single-recv", "event-channel", "topo"}
  BY <1>3 DEF ParseOption, Fields
<1>4. CASE a[1] = "tree-width"
  BY <1>4 DEF ParseOption, Fields
<1>5. QED
  BY <1>1, <1>2, <1>3, <1>4 DEF Options

(* conflict_check leaves the width, and the role it gives a node does not  *)
(* matter to what it refuses.                                              *)
LEMMA CheckKeeps ==
  ASSUME NEW me, NEW c, DOMAIN c = Fields, c.tree_width \in Int
  PROVE  /\ DOMAIN WithSenders(c) = Fields /\ WithSenders(c).tree_width \in Int
         /\ DOMAIN WithRole(me, c) = Fields /\ WithRole(me, c).tree_width \in Int
         /\ Refused(WithRole(me, c)) <=> Refused(c)
<1>1. DOMAIN WithSenders(c) = Fields /\ WithSenders(c).tree_width \in Int
  BY DEF WithSenders, Fields
<1>2. DOMAIN WithRole(me, c) = Fields /\ WithRole(me, c).tree_width \in Int
  BY DEF WithRole, Fields
<1>3. Refused(WithRole(me, c)) <=> Refused(c)
  BY DEF Refused, WithRole, Fields
<1>4. QED
  BY <1>1, <1>2, <1>3

(* Before the first option.                                                *)
LEMMA ConfInitInv == ConfInit => ConfInv
<1> SUFFICES ASSUME ConfInit PROVE ConfInv
  OBVIOUS
<1>1. PICK d \in Deployments : np = d.n /\ argv = d.args
  BY DEF ConfInit
<1>2. DOMAIN DefaultConf = Fields /\ DefaultConf.tree_width \in Int
  BY DEF DefaultConf, Fields
<1> HIDE DEF DefaultConf
<1>3. ConfTypes
  BY <1>1, <1>2, DeploymentAssumption DEF ConfInit, ConfTypes
<1>4. Judged
  BY DEF ConfInit, Judged
<1>5. QED
  BY <1>3, <1>4 DEF ConfInv

(* Every option, every check and every start keeps the invariant.          *)
LEMMA ConfNextInv == ConfInv /\ [ConfNext]_confVars => ConfInv'
<1> SUFFICES ASSUME ConfInv, [ConfNext]_confVars PROVE ConfInv'
  OBVIOUS
<1>0. ConfTypes /\ Judged
  BY DEF ConfInv
<1>1. CASE NextOption
  <2>1. /\ turn \in Nodes(np) /\ stage[turn] = "parse" /\ optind <= Len(argv)
        /\ conf' = [conf EXCEPT ![turn] = ParseOption(turn, conf[turn], argv[optind])]
        /\ optind' = optind + 1 /\ np' = np /\ argv' = argv /\ stage' = stage
    BY <1>1 DEF NextOption
  <2>2. argv[optind] \in Range(argv)
    BY <1>0, <2>1 DEF ConfTypes, Range
  <2> DEFINE d == ParseOption(turn, conf[turn], argv[optind])
  <2>3. DOMAIN d = Fields /\ d.tree_width \in Int
    BY <1>0, <2>1, <2>2, ParseKeeps DEF ConfTypes
  <2> HIDE DEF d
  <2>4. DOMAIN conf' = Nodes(np) /\ conf'[turn] = d /\ \A m \in Nodes(np) : m # turn => conf'[m] = conf[m]
    BY <1>0, <2>1 DEF ConfTypes, d
  <2>5. ConfTypes'
    BY <1>0, <2>1, <2>3, <2>4 DEF ConfTypes
  <2>6. Judged'
    BY <1>0, <2>1, <2>4 DEF Judged
  <2>7. QED
    BY <2>5, <2>6 DEF ConfInv
<1>2. ASSUME NEW me \in Nodes(np), ConflictCheck(me) PROVE ConfInv'
  <2> DEFINE c == WithSenders(conf[me])
             d == IF Refused(c) THEN c ELSE WithRole(me, c)
             place == IF Refused(c) THEN "exit" ELSE "ready"
  <2>1. /\ conf' = [conf EXCEPT ![me] = d] /\ stage' = [stage EXCEPT ![me] = place]
        /\ np' = np /\ argv' = argv /\ optind' = optind
    BY <1>2 DEF ConflictCheck
  <2>2. DOMAIN c = Fields /\ c.tree_width \in Int
    BY <1>0, CheckKeeps DEF ConfTypes
  <2> HIDE DEF c
  <2>3. DOMAIN d = Fields /\ d.tree_width \in Int /\ (place = "ready" => ~Refused(d))
    BY <2>2, CheckKeeps
  <2>4. place \in {"exit", "ready"}
    OBVIOUS
  <2> HIDE DEF d, place
  <2>5. /\ DOMAIN conf' = Nodes(np) /\ conf'[me] = d /\ \A m \in Nodes(np) : m # me => conf'[m] = conf[m]
        /\ DOMAIN stage' = Nodes(np) /\ stage'[me] = place
        /\ \A m \in Nodes(np) : m # me => stage'[m] = stage[m]
    BY <1>0, <2>1 DEF ConfTypes
  <2>6. ConfTypes'
    BY <1>0, <2>1, <2>3, <2>5 DEF ConfTypes
  <2>7. Judged'
    BY <1>0, <2>1, <2>3, <2>4, <2>5 DEF Judged
  <2>8. QED
    BY <2>6, <2>7 DEF ConfInv
<1>3. ASSUME NEW me \in Nodes(np), StartServiceAsync(me) PROVE ConfInv'
  <2>1. /\ stage[me] = "ready" /\ stage' = [stage EXCEPT ![me] = Outcome(conf[me])]
        /\ conf' = conf /\ np' = np /\ argv' = argv /\ optind' = optind
    BY <1>3 DEF StartServiceAsync
  <2>2. /\ DOMAIN stage' = Nodes(np) /\ stage'[me] = Outcome(conf[me])
        /\ \A m \in Nodes(np) : m # me => stage'[m] = stage[m]
    BY <1>0, <2>1 DEF ConfTypes
  <2>3. Outcome(conf[me]) # "ready"
    BY DEF Outcome
  <2>4. ConfTypes'
    BY <1>0, <2>1, <2>2 DEF ConfTypes
  <2>5. Judged'
    BY <1>0, <2>1, <2>2, <2>3 DEF Judged
  <2>6. QED
    BY <2>4, <2>5 DEF ConfInv
<1>4. CASE NextNode
  BY <1>0, <1>4 DEF NextNode, ConfInv, ConfTypes, Judged
<1>5. CASE UNCHANGED confVars
  BY <1>0, <1>5 DEF confVars, ConfInv, ConfTypes, Judged
<1>6. QED
  BY <1>1, <1>2, <1>3, <1>4, <1>5 DEF ConfNext

(* Each node of a cluster that runs a topology has passed the checks that  *)
(* Startable names, so the theorems above apply to it.                     *)
LEMMA RunningStartable ==
  ASSUME ConfInv, NEW topo \in Topologies, Running(topo), Len(conf[0].cluster) = np - 1
  PROVE  /\ np \in Nat \ {0, 1}
         /\ topo = "tree" => conf[0].tree_width \in Nat /\ Startable(topo, np, conf[0].tree_width)
<1>1. /\ np \in Nat \ {0, 1} /\ 0 \in Nodes(np) /\ conf[0].tree_width \in Int
      /\ stage[0] = "running" /\ conf[0].all_reduce = topo
      /\ ~Refused(conf[0]) /\ Outcome(conf[0]) = "running"
  <2>1. 0 \in Nodes(np)
    BY DEF ConfInv, ConfTypes, Nodes
  <2>2. QED
    BY <2>1 DEF ConfInv, ConfTypes, Judged, Running
<1>2. CASE topo = "tree"
  <2>1. conf[0].tree_width > 0
    BY <1>1, <1>2 DEF Refused
  <2>2. conf[0].cluster # << >>
    BY <1>1
  <2>3. conf[0].tree_width # 1 /\ IsTreeSize(Len(conf[0].cluster) + 1, conf[0].tree_width)
    BY <1>1, <1>2, <2>2 DEF Outcome
  <2>4. Len(conf[0].cluster) + 1 = np
    BY <1>1
  <2>5. QED
    BY <1>1, <1>2, <2>1, <2>3, <2>4 DEF Startable
<1>3. QED
  BY <1>1, <1>2

(* f is what step makes of base, step by step. *)
Iterates(f, n, step, base) == f = [h \in 0 .. n |-> IF h = 0 THEN base ELSE step[h][f[h - 1]]]

(* A function defined by recursion on the numbers up to n exists.  By a    *)
(* least number up to which there is none.                                 *)
LEMMA Recursion ==
  ASSUME NEW n \in Nat, NEW V, NEW step \in [1 .. n -> [V -> V]], NEW base \in V
  PROVE  \E f \in [0 .. n -> V] : Iterates(f, n, step, base)
<1> DEFINE Good(f, k) == f \in [0 .. k -> V] /\ f[0] = base /\ \A h \in 1 .. k : f[h] = step[h][f[h - 1]]
           T == {k \in 0 .. n : ~ \E f : Good(f, k)}
<1>1. T = {}
  <2>1. SUFFICES ASSUME T # {} PROVE FALSE
    OBVIOUS
  <2>2. T \in SUBSET Nat
    OBVIOUS
  <2> HIDE DEF T
  <2>3. PICK k \in T : \A j \in T : k <= j
    BY <2>1, <2>2, LeastElement
  <2>4. k \in Nat /\ k <= n /\ ~ \E f : Good(f, k)
    BY DEF T
  <2>5. CASE k = 0
    <3>1. Good([h \in 0 .. 0 |-> base], 0)
      OBVIOUS
    <3> HIDE DEF Good
    <3>2. QED
      BY <2>4, <2>5, <3>1
  <2>6. CASE k # 0
    <3>1. k - 1 \in Nat /\ ~(k <= k - 1)
      BY <2>4, <2>6
    <3>2. k - 1 \notin T
      BY <2>3, <3>1
    <3>3. PICK g : Good(g, k - 1)
      BY <3>1, <3>2 DEF T
    <3> DEFINE f == [h \in 0 .. k |-> IF h = k THEN step[k][g[k - 1]] ELSE g[h]]
    <3>4. g \in [0 .. k - 1 -> V] /\ g[0] = base /\ \A h \in 1 .. k - 1 : g[h] = step[h][g[h - 1]]
      BY <3>3
    <3>5. k - 1 \in 0 .. k - 1 /\ step[k][g[k - 1]] \in V
      <4>1. k \in 1 .. n /\ step[k] \in [V -> V]
        BY <2>4, <2>6
      <4>2. QED
        BY <3>1, <3>4, <4>1
    <3>6. f \in [0 .. k -> V]
      <4>1. ASSUME NEW h \in 0 .. k PROVE f[h] \in V
        <5>1. h = k \/ h \in 0 .. k - 1
          BY <2>4
        <5>2. QED
          BY <3>4, <3>5, <5>1
      <4>2. QED
        BY <4>1
    <3>7. f[0] = base
      BY <2>4, <2>6, <3>4
    <3>8. ASSUME NEW h \in 1 .. k PROVE f[h] = step[h][f[h - 1]]
      <4>1. h - 1 \in 0 .. k /\ h - 1 # k /\ f[h - 1] = g[h - 1]
        BY <2>4
      <4>2. CASE h = k
        BY <4>1, <4>2
      <4>3. CASE h # k
        <5>1. h \in 1 .. k - 1
          BY <2>4, <4>3
        <5>2. QED
          BY <3>4, <4>1, <4>3, <5>1
      <4>4. QED
        BY <4>2, <4>3
    <3>9. Good(f, k)
      BY <3>6, <3>7, <3>8
    <3> HIDE DEF Good, f
    <3>10. QED
      BY <2>4, <3>9
  <2>7. QED
    BY <2>5, <2>6
<1>2. PICK f : Good(f, n)
  BY <1>1
<1>3. ASSUME NEW h \in 0 .. n PROVE f[h] = IF h = 0 THEN base ELSE step[h][f[h - 1]]
  <2>1. h = 0 \/ h \in 1 .. n
    OBVIOUS
  <2>2. QED
    BY <1>2, <2>1
<1>4. f = [h \in 0 .. n |-> IF h = 0 THEN base ELSE step[h][f[h - 1]]]
  BY <1>2, <1>3
<1>5. QED
  BY <1>2, <1>4 DEF Iterates

(* What the local function of DoubleTreeMatches is defined to be. *)
IsAbove(f, n, t, m) ==
  f = [h \in 0 .. n |-> IF h = 0 THEN {m} ELSE UNION {TreeUpper(n, t, j) : j \in f[h - 1]}]

(* There is such a function.                                               *)
LEMMA AboveExists ==
  ASSUME NEW n \in Nat \ {0, 1}, NEW t \in {1, 2}, NEW m \in Nodes(n)
  PROVE  \E f : IsAbove(f, n, t, m)
<1> DEFINE V == SUBSET Nodes(n)
           up1(S) == UNION {TreeUpper(n, t, j) : j \in S}
           step == [h \in 1 .. n |-> [S \in V |-> up1(S)]]
<1>1. step \in [1 .. n -> [V -> V]] /\ {m} \in V
  <2>1. \A j \in Nodes(n) : TreeUpper(n, t, j) \subseteq Nodes(n)
    BY UpperChildren
  <2>2. ASSUME NEW S \in V PROVE up1(S) \in V
    BY <2>1
  <2>3. QED
    BY <2>2
<1> HIDE DEF V, step
<1>2. PICK f \in [0 .. n -> V] : f = [h \in 0 .. n |-> IF h = 0 THEN {m} ELSE step[h][f[h - 1]]]
  <2>1. n \in Nat
    OBVIOUS
  <2>2. \E f \in [0 .. n -> V] : Iterates(f, n, step, {m})
    BY <1>1, <2>1, Recursion
  <2>3. QED
    BY <2>2 DEF Iterates
<1>3. ASSUME NEW h \in 0 .. n, h # 0 PROVE step[h][f[h - 1]] = up1(f[h - 1])
  <2>1. h \in 1 .. n /\ h - 1 \in 0 .. n
    BY <1>3
  <2>2. f[h - 1] \in V
    BY <2>1
  <2>3. QED
    BY <2>1, <2>2 DEF step
<1>4. f = [h \in 0 .. n |-> IF h = 0 THEN {m} ELSE up1(f[h - 1])]
  BY <1>2, <1>3
<1>5. QED
  BY <1>4 DEF IsAbove

(* From every node, both trees lead up to their root: each step up halves  *)
(* the offset.                                                             *)
LEMMA RootReached ==
  ASSUME NEW n \in Nat \ {0, 1}, NEW t \in {1, 2}, NEW m \in Nodes(n), NEW f, IsAbove(f, n, t, m)
  PROVE  \E h \in 0 .. n : f[h] = {IF t = 1 THEN 0 ELSE n - 1}
<1> DEFINE At(r) == IF t = 1 THEN r ELSE Mirror(n, r)
           T == {r \in Nodes(n) : \E h \in 0 .. n - 1 : r + h <= n - 1 /\ f[h] = {At(r)}}
<1>1. f[0] = {m} /\ \A h \in 1 .. n : f[h] = UNION {TreeUpper(n, t, j) : j \in f[h - 1]}
  BY DEF IsAbove
<1>2. \A r \in Nodes(n) :
        r # 0 => r \div 2 \in Nodes(n) /\ r \div 2 < r /\ TreeUpper(n, t, At(r)) = {At(r \div 2)}
  <2> TAKE r \in Nodes(n)
  <2>1. r \in Nat /\ Mirror(n, Mirror(n, r)) = r
    BY DEF Mirror, Nodes
  <2>2. r # 0 => r \div 2 \in Nodes(n) /\ r \div 2 < r
    BY DEF Nodes
  <2>3. r # 0 => TreeUpper(n, t, At(r)) = {At(r \div 2)}
    BY <2>1 DEF TreeUpper, Upper
  <2>4. QED
    BY <2>2, <2>3
<1>3. T # {}
  <2>1. PICK r \in Nodes(n) : m = At(r)
    <3>1. At(m) \in Nodes(n) /\ At(At(m)) = m
      BY DEF Mirror, Nodes
    <3> HIDE DEF At
    <3>2. QED
      BY <3>1
  <2>2. r + 0 <= n - 1 /\ 0 \in 0 .. n - 1 /\ f[0] = {At(r)}
    BY <1>1, <2>1 DEF Nodes
  <2> HIDE DEF At
  <2>3. r \in T
    BY <2>2
  <2>4. QED
    BY <2>3
<1>4. T \in SUBSET Nat
  BY DEF Nodes
<1> HIDE DEF T
<1>5. PICK r \in T : \A q \in T : r <= q
  BY <1>3, <1>4, LeastElement
<1>6. PICK h \in 0 .. n - 1 : r + h <= n - 1 /\ f[h] = {At(r)}
  BY DEF T
<1>7. r \in Nodes(n) /\ r \in Nat
  BY <1>4 DEF T
<1>8. r = 0
  <2>1. SUFFICES ASSUME r # 0 PROVE FALSE
    OBVIOUS
  <2> DEFINE q == r \div 2
  <2>2. q \in Nodes(n) /\ q \in Nat /\ q < r /\ TreeUpper(n, t, At(r)) = {At(q)}
    BY <1>2, <1>7, <2>1 DEF Nodes
  <2> HIDE DEF q, At
  <2>3. h + 1 \in 1 .. n /\ h + 1 \in 0 .. n - 1 /\ q + (h + 1) <= n - 1 /\ (h + 1) - 1 = h
    BY <1>6, <1>7, <2>1, <2>2
  <2>4. f[h + 1] = UNION {TreeUpper(n, t, j) : j \in {At(r)}}
    BY <1>1, <1>6, <2>3
  <2>5. f[h + 1] = {At(q)}
    BY <2>2, <2>4
  <2>6. q \in T
    BY <2>2, <2>3, <2>5 DEF T
  <2>7. r <= q
    BY <1>5, <2>6
  <2>8. QED
    BY <1>7, <2>2, <2>7
<1>9. f[h] = {IF t = 1 THEN 0 ELSE n - 1} /\ h \in 0 .. n
  BY <1>6, <1>8 DEF Mirror
<1>10. QED
  BY <1>9

(* The function that DoubleTreeMatches defines reaches the root. *)
Rooted(n, t, m) ==
  \E h \in 0 .. n : (CHOOSE f : IsAbove(f, n, t, m))[h] = {IF t = 1 THEN 0 ELSE n - 1}

(* It does, from every node. *)
LEMMA RootAbove ==
  ASSUME NEW n \in Nat \ {0, 1}, NEW t \in {1, 2}, NEW m \in Nodes(n)
  PROVE  Rooted(n, t, m)
<1>1. \E f : IsAbove(f, n, t, m)
  BY AboveExists
<1>2. \A f : IsAbove(f, n, t, m) => \E h \in 0 .. n : f[h] = {IF t = 1 THEN 0 ELSE n - 1}
  BY RootReached
<1>3. QED
  BY <1>1, <1>2, Zenon DEF Rooted

(* A size that Configuration accepts is itself a power of the width: by a  *)
(* least size that is none.                                                *)
LEMMA SizesArePowers ==
  ASSUME NEW n \in Nat, NEW w \in Nat, w >= 2, NEW F, NEW G, Sizes(G, n, w),
         \A s \in 1 .. n : s = 1 \/ (s % w = 0 /\ s \div w \in F) => s \in F
  PROVE  \A v \in 1 .. n : v \in G => v \in F
<1> DEFINE T == {v \in 1 .. n : v \in G /\ v \notin F}
<1>1. SUFFICES ASSUME T # {} PROVE FALSE
  OBVIOUS
<1>2. PICK v \in T : \A u \in T : v <= u
  <2>1. T \in SUBSET Nat
    OBVIOUS
  <2> HIDE DEF T
  <2>2. QED
    BY <1>1, <2>1, LeastElement
<1>3. v \in 1 .. n /\ v \in G /\ v \notin F /\ v \in Nat /\ v # 1
  BY <1>2
<1>4. v # w
  <2>1. w % w = 0 /\ w \div w = 1
    <3>1. w * 1 + 0 = w /\ w \in Nat \ {0} /\ 1 \in Nat /\ 0 \in 0 .. w - 1
      OBVIOUS
    <3>2. (w * 1 + 0) \div w = 1 /\ (w * 1 + 0) % w = 0
      BY <3>1, DivModUnique
    <3>3. QED
      BY <3>1, <3>2
  <2>2. n >= 1 /\ 1 \in 1 .. n /\ 1 \in F
    BY <1>3
  <2>3. QED
    BY <1>3, <2>1, <2>2
<1>5. v % w = 0 /\ v \div w \in G
  BY <1>3, <1>4 DEF Sizes
<1>6. PICK u \in Nat : u = v \div w /\ v = w * u
  <2>1. w \in Nat \ {0}
    OBVIOUS
  <2>2. v \div w \in Nat /\ v = w * (v \div w) + (v % w)
    BY <1>3, <2>1, DivMod
  <2>3. QED
    BY <1>5, <2>2
<1>7. u >= 1 /\ u < v
  BY <1>3, <1>6
<1>8. u \in 1 .. n /\ u \notin T
  <2> HIDE DEF T
  <2>1. u \notin T
    BY <1>2, <1>3, <1>7
  <2>2. QED
    BY <1>3, <1>7, <2>1
<1>9. u \in F
  BY <1>5, <1>6, <1>8
<1>10. QED
  BY <1>3, <1>5, <1>6, <1>9

(* Each step but the first is w times another, and so is the size.         *)
LEMMA StepBefore ==
  ASSUME NEW n \in Nat \ {0, 1}, NEW w \in Nat, w >= 2, IsTreeSize(n, w),
         NEW s \in Steps(n, w) \cup {n}, s # 1
  PROVE  s \in Nat /\ s \div w \in Steps(n, w) /\ s = (s \div w) * w /\ s \div w < s
<1>1. PICK f : IsPower(f, n, w) /\ Steps(n, w) = {r \in 1 .. n - 1 : f[r]}
  BY FunctionsExist, Unfold
<1>2. PICK g : IsSize(g, n, w) /\ g[n]
  BY FunctionsExist, Unfold
<1> DEFINE F == {r \in 1 .. n : f[r]}
           G == {v \in 0 .. n : g[v]}
<1>3. ASSUME NEW r \in 1 .. n PROVE r \in F <=> r = 1 \/ (r % w = 0 /\ r \div w \in F)
  <2>1. f[r] = (r = 1 \/ (r % w = 0 /\ f[r \div w]))
    BY <1>1, Zenon DEF IsPower
  <2>2. r \in 0 .. n /\ r # 0
    OBVIOUS
  <2>3. r % w = 0 => r \div w \in 1 .. n
    BY <2>2, QuotientInRange
  <2>4. r \in F <=> f[r]
    BY Zenon
  <2>5. r % w = 0 => (r \div w \in F <=> f[r \div w])
    BY <2>3, Zenon
  <2>6. f[r] <=> r = 1 \/ (r % w = 0 /\ f[r \div w])
    BY <2>1, Zenon
  <2> HIDE DEF F
  <2>7. QED
    BY <2>4, <2>5, <2>6, Zenon
<1>4. ASSUME NEW v \in 1 .. n, v \in G PROVE v = 1 \/ v = w \/ (v % w = 0 /\ v \div w \in G)
  <2>1. v \in 0 .. n /\ v # 0
    OBVIOUS
  <2>2. g[v] = (v = 0 \/ v = w \/ (v % w = 0 /\ g[v \div w]))
    BY <1>2, <2>1, Zenon DEF IsSize
  <2>3. v = w \/ (v % w = 0 /\ g[v \div w])
    BY <1>4, <2>1, <2>2, Zenon
  <2>4. v % w = 0 => v \div w \in 0 .. n
    BY <2>1, QuotientInRange
  <2>5. QED
    BY <2>3, <2>4, Zenon
<1>5. n \in 1 .. n /\ n \in G /\ n \in Nat /\ \A r \in Steps(n, w) : r \in 1 .. n /\ r \in F
  BY <1>1, <1>2
<1>6. \A r \in 1 .. n - 1 : r \in F => r \in Steps(n, w)
  BY <1>1
<1> HIDE DEF F, G
<1>7. Sizes(G, n, w)
  BY <1>4, Zenon DEF Sizes
<1>8. n \in F
  BY <1>3, <1>5, <1>7, SizesArePowers
<1>9. s \in 1 .. n /\ s \in F /\ s \in Nat
  BY <1>5, <1>8
<1>10. s % w = 0 /\ s \div w \in F
  BY <1>3, <1>9
<1>11. PICK u \in Nat : u = s \div w /\ s = w * u
  <2>1. w \in Nat \ {0}
    OBVIOUS
  <2>2. s \div w \in Nat /\ s = w * (s \div w) + (s % w)
    BY <1>9, <2>1, DivMod
  <2>3. QED
    BY <1>10, <2>2
<1>12. u >= 1 /\ u < s /\ u * w = w * u
  BY <1>9, <1>11
<1>13. u \in 1 .. n - 1
  BY <1>9, <1>12
<1>14. QED
  BY <1>6, <1>9, <1>10, <1>11, <1>12, <1>13

(* The nodes whose data node m holds before step s: those of its window.   *)
Window(n, s, m) == {x \in Nodes(n) : x \div s = m \div s}

(* The quotients of a node given by its window, member and offset.         *)
LEMMA PlaceQuotients ==
  ASSUME NEW s \in Nat \ {0}, NEW w \in Nat \ {0}, NEW a \in Nat, NEW b \in 0 .. w - 1, NEW c \in 0 .. s - 1,
         NEW x, x = Place(s, w, a, b, c)
  PROVE  x \div s = w * a + b /\ x \div (s * w) = a
<1>1. s * w \in Nat \ {0} /\ b * s + c \in 0 .. s * w - 1
  <2>1. s * w # 0 /\ s * w \in Nat
    OBVIOUS
  <2>2. QED
    BY <2>1, Bound
<1>2. x \div (s * w) = a
  <2> DEFINE M == s * w   r == b * s + c
  <2>1. M \in Nat \ {0} /\ r \in 0 .. M - 1 /\ x = M * a + r
    BY <1>1 DEF Place
  <2> HIDE DEF M, r
  <2>2. x \div M = a
    BY <2>1, DivModUnique
  <2>3. QED
    BY <2>2 DEF M
<1>3. x \div s = w * a + b
  <2> DEFINE q == w * a + b
  <2>1. x = s * q + c /\ q \in Nat
    BY DEF Place
  <2> HIDE DEF q
  <2>2. x \div s = q
    BY <2>1, DivModUnique
  <2>3. QED
    BY <2>2 DEF q
<1>4. QED
  BY <1>2, <1>3

(* Reducing the groups of a step joins the windows of their members.       *)
LEMMA WindowGrows ==
  ASSUME NEW n \in Nat \ {0, 1}, NEW w \in Nat, w >= 2, IsTreeSize(n, w),
         NEW r \in Steps(n, w), NEW m \in Nodes(n)
  PROVE  UNION {Window(n, r, p) : p \in SubGroup(n, w, m, r)} = Window(n, r * w, m)
<1>1. r \in Nat \ {0} /\ w \in Nat \ {0} /\ m \in Nat /\ m < n /\ n \in Nat \ {0} /\ Fits(n, r, w)
  BY TreeSteps DEF Nodes
<1>2. PICK a \in Nat, b \in 0 .. w - 1, c \in 0 .. r - 1 : m = Place(r, w, a, b, c)
  BY <1>1, HasPlace
<1>3. SubGroup(n, w, m, r) = Row(r, w, a, c)
  BY <1>1, <1>2, GroupIsRow
<1>4. m \div (r * w) = a
  BY <1>1, <1>2, PlaceQuotients
<1>5. ASSUME NEW p \in Row(r, w, a, c), NEW x \in Window(n, r, p) PROVE x \in Window(n, r * w, m)
  <2>1. PICK k \in 0 .. w - 1 : p = Place(r, w, a, k, c)
    BY DEF Row
  <2>2. p \div r = w * a + k
    BY <1>1, <2>1, PlaceQuotients
  <2>3. x \in Nodes(n) /\ x \in Nat /\ x \div r = w * a + k
    BY <1>5, <2>2 DEF Window, Nodes
  <2>4. PICK a1 \in Nat, b1 \in 0 .. w - 1, c1 \in 0 .. r - 1 : x = Place(r, w, a1, b1, c1)
    BY <1>1, <2>3, HasPlace
  <2>5. x \div r = w * a1 + b1 /\ x \div (r * w) = a1
    BY <1>1, <2>4, PlaceQuotients
  <2>6. (w * a + k) \div w = a /\ (w * a1 + b1) \div w = a1
    BY <1>1, DivModUnique
  <2>7. a1 = a
    BY <2>3, <2>5, <2>6
  <2>8. QED
    BY <1>4, <2>3, <2>5, <2>7 DEF Window
<1>6. ASSUME NEW x \in Window(n, r * w, m) PROVE \E p \in Row(r, w, a, c) : x \in Window(n, r, p)
  <2>1. x \in Nodes(n) /\ x \in Nat /\ x \div (r * w) = a
    BY <1>4 DEF Window, Nodes
  <2>2. PICK a1 \in Nat, b1 \in 0 .. w - 1, c1 \in 0 .. r - 1 : x = Place(r, w, a1, b1, c1)
    BY <1>1, <2>1, HasPlace
  <2>3. x \div r = w * a1 + b1 /\ x \div (r * w) = a1
    BY <1>1, <2>2, PlaceQuotients
  <2>4. a1 = a
    BY <2>1, <2>3
  <2> DEFINE p == Place(r, w, a, b1, c)
  <2>5. p \in Row(r, w, a, c)
    BY DEF Row
  <2>6. p \div r = w * a + b1
    BY <1>1, PlaceQuotients
  <2> HIDE DEF p
  <2>7. x \in Window(n, r, p)
    BY <2>1, <2>3, <2>4, <2>6 DEF Window
  <2>8. QED
    BY <2>5, <2>7
<1>7. QED
  BY <1>3, <1>5, <1>6

(* What the local function of TreeReachesAll is defined to be. *)
IsHolds(f, n, w) ==
  f = [s \in Steps(n, w) \cup {n} |->
         [m \in Nodes(n) |->
            IF s = 1 THEN {m} ELSE UNION {f[s \div w][p] : p \in SubGroup(n, w, m, s \div w)}]]

(* Before the first step a node holds its own data; a window as large as   *)
(* the cluster is the cluster.                                             *)
LEMMA WindowEnds ==
  ASSUME NEW n \in Nat \ {0, 1}, NEW m \in Nodes(n)
  PROVE  Window(n, 1, m) = {m} /\ Window(n, n, m) = Nodes(n)
<1>1. \A x \in Nodes(n) : x \div 1 = x
  BY DEF Nodes
<1>2. ASSUME NEW x \in Nodes(n) PROVE x \div n = 0
  <2>1. n \in Nat \ {0} /\ 0 \in Nat /\ x \in 0 .. n - 1 /\ x = n * 0 + x
    BY DEF Nodes
  <2>2. (n * 0 + x) \div n = 0
    BY <2>1, DivModUnique
  <2>3. QED
    BY <2>1, <2>2
<1>3. QED
  BY <1>1, <1>2 DEF Window

(* There is such a function: the one that maps each step to the windows.   *)
LEMMA HoldsExists ==
  ASSUME NEW n \in Nat \ {0, 1}, NEW w \in Nat, w >= 2, IsTreeSize(n, w)
  PROVE  \E f : IsHolds(f, n, w)
<1> DEFINE D == Steps(n, w) \cup {n}
           f == [s \in D |-> [m \in Nodes(n) |-> Window(n, s, m)]]
           right(s, m) == IF s = 1 THEN {m} ELSE UNION {f[s \div w][p] : p \in SubGroup(n, w, m, s \div w)}
<1>1. ASSUME NEW s \in D, NEW m \in Nodes(n) PROVE Window(n, s, m) = right(s, m)
  <2>1. CASE s = 1
    BY <2>1, WindowEnds
  <2>2. CASE s # 1
    <3>1. s \div w \in Steps(n, w) /\ s = (s \div w) * w
      BY <2>2, StepBefore
    <3>2. PICK r \in Steps(n, w) : r = s \div w /\ s = r * w
      BY <3>1
    <3>3. SubGroup(n, w, m, r) \subseteq Nodes(n)
      <4>1. n \in Nat \ {0}
        OBVIOUS
      <4>2. QED
        BY <4>1, Groups
    <3>4. \A p \in SubGroup(n, w, m, r) : f[r][p] = Window(n, r, p)
      BY <3>3
    <3> HIDE DEF f
    <3>5. UNION {f[r][p] : p \in SubGroup(n, w, m, r)} = UNION {Window(n, r, p) : p \in SubGroup(n, w, m, r)}
      BY <3>4
    <3>6. UNION {Window(n, r, p) : p \in SubGroup(n, w, m, r)} = Window(n, s, m)
      BY <3>2, WindowGrows
    <3>7. right(s, m) = UNION {f[r][p] : p \in SubGroup(n, w, m, r)}
      BY <2>2, <3>2, Zenon
    <3> HIDE DEF right
    <3>8. QED
      BY <3>5, <3>6, <3>7
  <2>3. QED
    BY <2>1, <2>2
<1> HIDE DEF D, right
<1>2. f = [s \in D |-> [m \in Nodes(n) |-> right(s, m)]]
  BY <1>1
<1>3. QED
  BY <1>2 DEF IsHolds, D, right

(* Whatever the function, it holds the windows: by a least step where it   *)
(* does not.                                                               *)
LEMMA HoldsWindows ==
  ASSUME NEW n \in Nat \ {0, 1}, NEW w \in Nat, w >= 2, IsTreeSize(n, w), NEW f, IsHolds(f, n, w)
  PROVE  \A m \in Nodes(n) : f[n][m] = Nodes(n)
<1> DEFINE D == Steps(n, w) \cup {n}
           T == {s \in D : \E m \in Nodes(n) : f[s][m] # Window(n, s, m)}
<1>0. D \in SUBSET Nat /\ n \in D /\ n \in Nat \ {0}
  BY TreeSteps
<1>1. T = {}
  <2>1. SUFFICES ASSUME T # {} PROVE FALSE
    OBVIOUS
  <2>2. T \in SUBSET Nat
    BY <1>0
  <2>3. \A s \in T : s \in D /\ \E m \in Nodes(n) : f[s][m] # Window(n, s, m)
    OBVIOUS
  <2>4. \A s \in D \ T : \A m \in Nodes(n) : f[s][m] = Window(n, s, m)
    OBVIOUS
  <2> HIDE DEF T
  <2>5. PICK s \in T : \A t \in T : s <= t
    BY <2>1, <2>2, LeastElement
  <2>6. PICK m \in Nodes(n) : f[s][m] # Window(n, s, m)
    BY <2>3
  <2>7. s \in D
    BY <2>3
  <2>8. f[s][m] = IF s = 1 THEN {m} ELSE UNION {f[s \div w][p] : p \in SubGroup(n, w, m, s \div w)}
    <3> DEFINE right(t, k) == IF t = 1 THEN {k} ELSE UNION {f[t \div w][p] : p \in SubGroup(n, w, k, t \div w)}
    <3>1. f = [t \in D |-> [k \in Nodes(n) |-> right(t, k)]]
      BY DEF IsHolds
    <3> HIDE DEF right, D
    <3>2. f[s] = [k \in Nodes(n) |-> right(s, k)]
      BY <2>7, <3>1, Zenon
    <3>3. f[s][m] = right(s, m)
      BY <3>2, Zenon
    <3>4. QED
      BY <3>3 DEF right
  <2>9. CASE s = 1
    BY <2>6, <2>8, <2>9, WindowEnds
  <2>10. CASE s # 1
    <3>1. s \in Nat /\ s \div w \in Steps(n, w) /\ s = (s \div w) * w /\ s \div w < s
      BY <2>7, <2>10, StepBefore
    <3>2. PICK r \in Steps(n, w) : r = s \div w /\ s = r * w /\ r < s
      BY <3>1
    <3>3. r \in D /\ r \in Nat /\ r \notin T
      BY <1>0, <2>5, <3>1, <3>2
    <3>4. SubGroup(n, w, m, r) \subseteq Nodes(n)
      BY <1>0, Groups
    <3>5. \A p \in SubGroup(n, w, m, r) : f[r][p] = Window(n, r, p)
      BY <2>4, <3>3, <3>4
    <3>6. UNION {f[r][p] : p \in SubGroup(n, w, m, r)} = UNION {Window(n, r, p) : p \in SubGroup(n, w, m, r)}
      BY <3>5
    <3>7. UNION {Window(n, r, p) : p \in SubGroup(n, w, m, r)} = Window(n, s, m)
      BY <3>2, WindowGrows
    <3>8. QED
      BY <2>6, <2>8, <2>10, <3>2, <3>6, <3>7
  <2>11. QED
    BY <2>9, <2>10
<1>2. \A m \in Nodes(n) : f[n][m] = Window(n, n, m)
  BY <1>0, <1>1
<1>3. QED
  BY <1>2, WindowEnds

(* The configuration invariant holds in every state that can be reached.   *)
LEMMA ConfInductive == ConfSpec => []ConfInv
  BY ConfInitInv, ConfNextInv, PTL DEF ConfSpec

(* Whatever the options, in a cluster that runs as a tree and lists all    *)
(* its nodes, the groups that the nodes compute on their own agree.        *)
THEOREM GroupsAgree == ConfSpec => []TreeGroupsAgree
<1>1. ConfInv => TreeGroupsAgree
  <2> SUFFICES ASSUME ConfInv, Running("tree"), Len(conf[0].cluster) = np - 1
               PROVE  TreeGroupsAgree
    BY DEF TreeGroupsAgree
  <2> DEFINE w == conf[0].tree_width
  <2>1. np \in Nat \ {0} /\ w \in Nat /\ w >= 2 /\ IsTreeSize(np, w)
    BY RunningStartable DEF Startable, Topologies
  <2> HIDE DEF w
  <2>2. ASSUME NEW m \in Nodes(np), NEW s \in Steps(np, w)
        PROVE  /\ m \in SubGroup(np, w, m, s)
               /\ Cardinality(SubGroup(np, w, m, s)) = w
               /\ \A j \in SubGroup(np, w, m, s) : SubGroup(np, w, j, s) = SubGroup(np, w, m, s)
               /\ \A t \in Steps(np, w) \ {s} : SubGroups(np, w, m)[s] \cap SubGroups(np, w, m)[t] = {}
    BY <2>1, TreeGroupsAgreeEverywhere
  <2>3. QED
    BY <2>2, Zenon DEF TreeGroupsAgree, w
<1>2. QED
  BY <1>1, ConfInductive, PTL

(* Whatever the options, in a cluster that runs as a tree and lists all    *)
(* its nodes, reducing its groups step after step combines all data at     *)
(* every node.                                                             *)
THEOREM TreeIsComplete == ConfSpec => []TreeReachesAll
<1>1. ConfInv => TreeReachesAll
  <2> SUFFICES ASSUME ConfInv, Running("tree"), Len(conf[0].cluster) = np - 1
               PROVE  TreeReachesAll
    BY DEF TreeReachesAll
  <2> DEFINE w == conf[0].tree_width
  <2>1. np \in Nat \ {0, 1} /\ w \in Nat /\ w >= 2 /\ IsTreeSize(np, w)
    BY RunningStartable DEF Startable, Topologies
  <2> HIDE DEF w
  <2>2. \E f : IsHolds(f, np, w)
    BY <2>1, HoldsExists
  <2>3. ASSUME NEW f, IsHolds(f, np, w) PROVE \A m \in Nodes(np) : f[np][m] = Nodes(np)
    BY <2>1, <2>3, HoldsWindows
  <2>4. \A m \in Nodes(np) : (CHOOSE f : IsHolds(f, np, w))[np][m] = Nodes(np)
    BY <2>2, <2>3, Zenon
  <2>5. QED
    BY <2>4, Zenon DEF TreeReachesAll, IsHolds, w
<1>2. QED
  BY <1>1, ConfInductive, PTL

(* Whatever the options, in a cluster of even size that runs as a double   *)
(* tree and lists all its nodes, the edges are known at both ends, both    *)
(* roots are reached from everywhere, and no node has children in both.    *)
THEOREM DoubleTreesMatch == ConfSpec => []DoubleTreeMatches
<1>1. ConfInv => DoubleTreeMatches
  <2> SUFFICES ASSUME ConfInv, Running("dbt"), Len(conf[0].cluster) = np - 1, np % 2 = 0
               PROVE  DoubleTreeMatches
    BY DEF DoubleTreeMatches
  <2>1. np \in Nat \ {0, 1}
    BY RunningStartable DEF Topologies
  <2>2. /\ \A t \in {1, 2}, m, j \in Nodes(np) :
             j \in TreeUpper(np, t, m) <=> m \in TreeDownstream(np, t, j)
        /\ \A m \in Nodes(np) : TreeDownstream(np, 1, m) = {} \/ TreeDownstream(np, 2, m) = {}
    BY <2>1, DoubleTreeEdges
  <2>3. ASSUME NEW t \in {1, 2}, NEW m \in Nodes(np)
        PROVE  Rooted(np, t, m)
    BY <2>1, RootAbove
  <2>4. QED
    BY <2>2, <2>3, Zenon DEF DoubleTreeMatches, Rooted, IsAbove
<1>2. QED
  BY <1>1, ConfInductive, PTL

-----------------------------------------------------------------------------
(* What the nodes make of their options: the ordered list of addresses,    *)
(* the Config object, and with it the server and the clients they start.   *)

(* No entry sorts before an earlier one. *)
Ordered(s) == \A j, k \in DOMAIN s : j <= k => s[j] <= s[k]

(* The positions of a list are finite in number, as are those of some.     *)
LEMMA Positions ==
  ASSUME NEW list \in Seq(Int), NEW A \in SUBSET (DOMAIN list)
  PROVE  /\ IsFiniteSet(A) /\ Cardinality(A) \in 0 .. Len(list)
         /\ Cardinality(A) = Len(list) => A = DOMAIN list
         /\ \A B \in SUBSET A : /\ Cardinality(B) \in 0 .. Cardinality(A)
                                /\ B # A => Cardinality(B) < Cardinality(A)
<1>1. DOMAIN list = 1 .. Len(list) /\ Len(list) \in Nat
  OBVIOUS
<1>2. IsFiniteSet(1 .. Len(list)) /\ Cardinality(1 .. Len(list)) = Len(list)
  <2>1. 1 \in Int /\ Len(list) \in Int
    BY <1>1
  <2>2. /\ IsFiniteSet(1 .. Len(list))
        /\ Cardinality(1 .. Len(list)) = IF 1 > Len(list) THEN 0 ELSE Len(list) - 1 + 1
    BY <2>1, FS_Interval
  <2>3. QED
    BY <1>1, <2>2
<1>3. /\ IsFiniteSet(A) /\ Cardinality(A) <= Len(list)
      /\ Cardinality(A) = Len(list) => A = DOMAIN list
  BY <1>1, <1>2, FS_Subset
<1>4. Cardinality(A) \in Nat
  BY <1>3, FS_CardinalityType
<1>5. ASSUME NEW B \in SUBSET A
      PROVE  /\ Cardinality(B) \in 0 .. Cardinality(A)
             /\ B # A => Cardinality(B) < Cardinality(A)
  <2>1. /\ IsFiniteSet(B) /\ Cardinality(B) <= Cardinality(A)
        /\ Cardinality(A) = Cardinality(B) => A = B
    BY <1>3, FS_Subset
  <2>2. Cardinality(B) \in Nat
    BY <2>1, FS_CardinalityType
  <2>3. QED
    BY <1>4, <2>1, <2>2
<1>6. QED
  BY <1>1, <1>3, <1>4, <1>5

(* Among some positions of a list one holds the greatest entry: the one    *)
(* with most of them up to it.                                             *)
LEMMA GreatestEntry ==
  ASSUME NEW list \in Seq(Int), NEW A \in SUBSET (DOMAIN list), A # {}
  PROVE  \E k \in A : \A j \in A : list[j] <= list[k]
<1> DEFINE upto(k) == {j \in A : list[j] <= list[k]}
           T == {Len(list) - Cardinality(upto(k)) : k \in A}
<1>1. \A k \in A : Cardinality(upto(k)) \in 0 .. Len(list)
  BY Positions
<1>2. T \in SUBSET Nat /\ T # {}
  <2> DEFINE c(k) == Cardinality(upto(k))
  <2>1. \A k \in A : c(k) \in 0 .. Len(list)
    BY <1>1
  <2> HIDE DEF c
  <2>2. \A k \in A : Len(list) - c(k) \in Nat
    BY <2>1
  <2>3. QED
    BY <2>2 DEF c
<1>3. PICK x \in T : \A y \in T : x <= y
  <2> HIDE DEF T
  <2>1. QED
    BY <1>2, LeastElement
<1>4. PICK k \in A : x = Len(list) - Cardinality(upto(k))
  OBVIOUS
<1>5. ASSUME NEW j \in A PROVE list[j] <= list[k]
  <2>1. SUFFICES ASSUME list[k] < list[j] PROVE FALSE
    OBVIOUS
  <2>2. upto(k) \in SUBSET upto(j) /\ j \in upto(j) /\ j \notin upto(k) /\ upto(j) \in SUBSET (DOMAIN list)
    BY <2>1
  <2> HIDE DEF upto
  <2>3. Cardinality(upto(k)) < Cardinality(upto(j))
    BY <2>2, Positions
  <2>4. x <= Len(list) - Cardinality(upto(j))
    BY <1>3
  <2>5. QED
    BY <1>1, <1>4, <2>3, <2>4
<1>6. QED
  BY <1>5

(* And one holds the least: the greatest with the signs changed.           *)
LEMMA LeastEntry ==
  ASSUME NEW list \in Seq(Int), NEW A \in SUBSET (DOMAIN list), A # {}
  PROVE  \E k \in A : \A j \in A : list[k] <= list[j]
<1> DEFINE neg == [k \in 1 .. Len(list) |-> 0 - list[k]]
<1>1. neg \in Seq(Int) /\ DOMAIN neg = DOMAIN list
  OBVIOUS
<1>2. \A k \in DOMAIN list : neg[k] = 0 - list[k] /\ list[k] \in Int
  OBVIOUS
<1> HIDE DEF neg
<1>3. PICK k \in A : \A j \in A : neg[j] <= neg[k]
  BY <1>1, GreatestEntry
<1>4. QED
  BY <1>2, <1>3

(* std::sort: the list that Sorted gives has the entries of the one it is  *)
(* given, and is in order.                                                 *)
LEMMA SortFacts ==
  ASSUME NEW list \in Seq(Int)
  PROVE  /\ Sorted(list) \in Seq(Int) /\ Len(Sorted(list)) = Len(list)
         /\ Range(Sorted(list)) = Range(list)
         /\ Ordered(Sorted(list))
<1> DEFINE D == DOMAIN list
           below(a) == {k \in D : list[k] < a}
           upto(a) == {k \in D : list[k] <= a}
           out == Sorted(list)
           cb(a) == Cardinality(below(a))
           cu(a) == Cardinality(upto(a))
           At(r, a) == cb(a) < r /\ r <= cu(a)
<1>1. D = 1 .. Len(list) /\ Len(list) \in Nat /\ Range(list) \in SUBSET Int
  BY DEF Range
<1>2. \A k \in D : list[k] \in Range(list)
  BY DEF Range
<1>3. \A a \in Range(list) : \E k \in D : list[k] = a
  BY DEF Range
<1>4. \A a \in Int : /\ below(a) \in SUBSET D /\ upto(a) \in SUBSET D
                     /\ cb(a) \in 0 .. Len(list)
                     /\ cu(a) \in 0 .. Len(list)
  BY Positions
<1>5. \A a, b \in Int : a < b => cu(a) <= cb(b)
  <2> SUFFICES ASSUME NEW a \in Int, NEW b \in Int, a < b PROVE cu(a) <= cb(b)
    OBVIOUS
  <2>1. upto(a) \in SUBSET below(b) /\ below(b) \in SUBSET D
    BY <1>1, <1>2
  <2> HIDE DEF upto, below, D
  <2>2. Cardinality(upto(a)) \in 0 .. Cardinality(below(b))
    BY <2>1, Positions DEF D
  <2>3. QED
    BY <1>4, <2>2
<1>6. \A a \in Range(list) : cb(a) < cu(a)
  <2> SUFFICES ASSUME NEW a \in Range(list) PROVE cb(a) < cu(a)
    OBVIOUS
  <2>1. PICK k \in D : list[k] = a
    BY <1>3
  <2>2. below(a) \in SUBSET upto(a) /\ upto(a) \in SUBSET D /\ k \in upto(a) /\ k \notin below(a)
    BY <1>1, <1>2, <2>1
  <2> HIDE DEF upto, below, D
  <2>3. QED
    BY <2>2, Positions DEF D
<1> HIDE DEF cb, cu
<1>7. \A r \in D : \E a \in Range(list) : At(r, a)
  <2> SUFFICES ASSUME NEW r \in D PROVE \E a \in Range(list) : At(r, a)
    OBVIOUS
  <2> DEFINE A == {k \in D : r <= cu(list[k])}
  <2>1. A # {}
    <3>1. PICK k \in D : \A j \in D : list[j] <= list[k]
      BY GreatestEntry
    <3>2. upto(list[k]) = D
      BY <3>1
    <3>3. Cardinality(D) = Len(list)
      <4>1. IsFiniteSet(1 .. Len(list)) /\ Cardinality(1 .. Len(list)) = IF 1 > Len(list) THEN 0 ELSE Len(list) - 1 + 1
        BY <1>1, FS_Interval
      <4>2. QED
        BY <1>1, <4>1
    <3>4. cu(list[k]) = Len(list)
      BY <3>2, <3>3 DEF cu
    <3>5. QED
      BY <1>1, <3>4
  <2>2. PICK k \in A : \A j \in A : list[k] <= list[j]
    BY <2>1, LeastEntry
  <2> DEFINE a == list[k]
  <2>3. a \in Range(list) /\ a \in Int /\ r \in Nat \ {0} /\ r <= cu(a)
    BY <1>1, <1>2
  <2>4. cb(a) < r
    <3>0. cb(a) \in 0 .. Len(list)
      BY <1>4, <2>3
    <3>1. SUFFICES ASSUME r <= cb(a) PROVE FALSE
      <4> HIDE DEF a
      <4>1. QED
        BY <1>1, <2>3, <3>0
    <3>2. below(a) # {}
      <4>1. cb(a) # 0
        BY <1>1, <2>3, <3>0, <3>1
      <4>2. QED
        BY <4>1, FS_EmptySet DEF cb
    <3>3. PICK l \in below(a) : \A j \in below(a) : list[j] <= list[l]
      BY <3>2, GreatestEntry
    <3>4. upto(list[l]) = below(a)
      BY <1>1, <1>2, <3>3
    <3>5. cu(list[l]) = cb(a)
      BY <3>4 DEF cu, cb
    <3>6. l \in A /\ list[l] < list[k]
      BY <3>1, <3>3, <3>5
    <3>7. list[l] \in Int /\ list[k] \in Int
      OBVIOUS
    <3>8. QED
      BY <2>2, <3>6, <3>7
  <2>5. QED
    BY <2>3, <2>4
<1>8. out = [r \in D |-> CHOOSE a \in Range(list) : At(r, a)]
  <2>1. \A r \in D : (CHOOSE a \in Range(list) : At(r, a)) =
                     (CHOOSE a \in Range(list) :
                        /\ [b \in Range(list) |-> Cardinality(below(b))][a] < r
                        /\ r <= [b \in Range(list) |-> Cardinality(upto(b))][a])
    BY DEF cb, cu
  <2>2. QED
    BY <2>1 DEF Sorted
<1> HIDE DEF out
<1>9. ASSUME NEW r \in D PROVE out[r] \in Range(list) /\ At(r, out[r])
  <2> HIDE DEF At
  <2>1. QED
    BY <1>7, <1>8
<1>10. out \in Seq(Int) /\ Len(out) = Len(list) /\ DOMAIN out = D
  <2>1. \A r \in 1 .. Len(list) : out[r] \in Int
    BY <1>1, <1>9
  <2>2. out = [r \in 1 .. Len(list) |-> out[r]]
    BY <1>1, <1>8
  <2> HIDE DEF D
  <2>3. QED
    BY <1>1, <2>1, <2>2
<1>11. Range(out) = Range(list)
  <2>1. ASSUME NEW a \in Range(list) PROVE a \in Range(out)
    <3> DEFINE r == cu(a)
    <3>0. a \in Int /\ cb(a) \in 0 .. Len(list) /\ cu(a) \in 0 .. Len(list) /\ cb(a) < cu(a)
      BY <1>1, <1>4, <1>6
    <3>1. r \in D /\ r \in Nat /\ At(r, a)
      BY <1>1, <3>0
    <3>2. out[r] = a
      <4>1. out[r] \in Range(list) /\ At(r, out[r])
        BY <1>9, <3>1
      <4> DEFINE b == out[r]
      <4>2. b \in Int /\ cb(b) \in 0 .. Len(list) /\ cu(b) \in 0 .. Len(list)
        BY <1>1, <1>4, <4>1
      <4>3. /\ b < a => cu(b) <= cb(a)
            /\ a < b => cu(a) <= cb(b)
        BY <1>5, <3>0, <4>2
      <4>4. QED
        BY <3>0, <3>1, <4>1, <4>2, <4>3
    <3>3. QED
      BY <1>10, <3>1, <3>2 DEF Range
  <2>2. ASSUME NEW a \in Range(out) PROVE a \in Range(list)
    BY <1>9, <1>10, <2>2 DEF Range
  <2>3. QED
    BY <2>1, <2>2
<1>12. ASSUME NEW j \in D, NEW k \in D, j <= k PROVE out[j] <= out[k]
  <2>1. /\ out[j] \in Int /\ out[k] \in Int /\ At(j, out[j]) /\ At(k, out[k])
    BY <1>1, <1>9
  <2> DEFINE a == out[j]
             b == out[k]
  <2>2. /\ cb(a) \in 0 .. Len(list) /\ cu(a) \in 0 .. Len(list)
        /\ cb(b) \in 0 .. Len(list) /\ cu(b) \in 0 .. Len(list)
    BY <1>4, <2>1
  <2>3. b < a => cu(b) <= cb(a)
    BY <1>5, <2>1
  <2>4. j \in Nat /\ k \in Nat
    BY <1>1
  <2>5. ~(b < a)
    BY <1>12, <2>1, <2>2, <2>3, <2>4
  <2>6. QED
    BY <2>1, <2>5
<1>13. QED
  BY <1>10, <1>11, <1>12 DEF Ordered, out

(* What add_to_cluster does to an ordered list.                            *)
LEMMA AddFacts ==
  ASSUME NEW list \in Seq(Int), Ordered(list), NEW me \in Int, NEW node \in Int
  PROVE  LET s == AddToCluster(me, list, node)
         IN  /\ s \in Seq(Int) /\ Ordered(s)
             /\ Len(s) = IF node = me THEN Len(list) ELSE Len(list) + 1
             /\ Range(s) = Range(list) \cup ({node} \ {me})
<1> DEFINE t == IF node = me THEN list ELSE Append(list, node)
<1>1. /\ t \in Seq(Int) /\ Len(t) = IF node = me THEN Len(list) ELSE Len(list) + 1
      /\ Range(t) = Range(list) \cup ({node} \ {me})
  <2>1. CASE node = me
    BY <2>1
  <2>2. CASE node # me
    <3>1. Append(list, node) \in Seq(Int) /\ Len(Append(list, node)) = Len(list) + 1
      OBVIOUS
    <3>2. Range(Append(list, node)) = Range(list) \cup {node}
      BY AppendRange
    <3>3. QED
      BY <2>2, <3>1, <3>2
  <2>3. QED
    BY <2>1, <2>2
<1>2. AddToCluster(me, list, node) = Sorted(t)
  BY DEF AddToCluster
<1> HIDE DEF t
<1>3. Sorted(t) \in Seq(Int) /\ Len(Sorted(t)) = Len(t) /\ Range(Sorted(t)) = Range(t) /\ Ordered(Sorted(t))
  BY <1>1, SortFacts
<1>4. QED
  BY <1>1, <1>2, <1>3

(* What the local function of ParseOption is defined to be. *)
IsList(f, me, base, arg) ==
  f = [k \in 0 .. Len(arg) |-> IF k = 0 THEN base ELSE AddToCluster(me, f[k - 1], arg[k])]

(* There is such a function.                                               *)
LEMMA ListExists ==
  ASSUME NEW me \in Int, NEW base \in Seq(Int), Ordered(base), NEW arg \in Seq(Int)
  PROVE  \E f : IsList(f, me, base, arg)
<1> DEFINE V == {s \in Seq(Int) : Ordered(s)}
           n == Len(arg)
           add(k, s) == AddToCluster(me, s, arg[k])
           step == [k \in 1 .. n |-> [s \in V |-> add(k, s)]]
<1>1. \A k \in 1 .. n, s \in V : add(k, s) \in V
  BY AddFacts
<1>2. step \in [1 .. n -> [V -> V]] /\ base \in V /\ n \in Nat
  <2> HIDE DEF V, add
  <2>1. step \in [1 .. n -> [V -> V]]
    BY <1>1
  <2>2. QED
    BY <2>1 DEF V
<1> HIDE DEF V, n, add, step
<1>3. PICK f \in [0 .. n -> V] : Iterates(f, n, step, base)
  BY <1>2, Recursion
<1>4. f = [k \in 0 .. n |-> IF k = 0 THEN base ELSE step[k][f[k - 1]]]
  BY <1>3 DEF Iterates
<1>5. ASSUME NEW k \in 0 .. n, k # 0 PROVE step[k][f[k - 1]] = add(k, f[k - 1])
  <2>1. k \in 1 .. n /\ k - 1 \in 0 .. n
    BY <1>2, <1>5
  <2>2. f[k - 1] \in V
    BY <2>1
  <2>3. QED
    BY <2>1, <2>2 DEF step
<1>6. f = [k \in 0 .. n |-> IF k = 0 THEN base ELSE add(k, f[k - 1])]
  BY <1>4, <1>5
<1>7. QED
  BY <1>6 DEF IsList, n, add

(* The nodes that the first k addresses name. *)
Named(arg, k) == {arg[j] : j \in 1 .. k}

(* A list s with what k addresses add to it, but for the node's own, and   *)
(* in order.                                                               *)
ListOf(s, me, base, arg, k) ==
  /\ s \in Seq(Int) /\ Ordered(s)
  /\ Len(s) = Len(base) + k - (IF me \in Named(arg, k) THEN 1 ELSE 0)
  /\ Range(s) = Range(base) \cup (Named(arg, k) \ {me})

(* This is what the function computes.  By a least k at which it is not.   *)
LEMMA ListFacts ==
  ASSUME NEW me \in Int, NEW base \in Seq(Int), Ordered(base),
         NEW arg \in Seq(Int), \A j, k \in 1 .. Len(arg) : arg[j] = arg[k] => j = k,
         NEW f, IsList(f, me, base, arg)
  PROVE  ListOf(f[Len(arg)], me, base, arg, Len(arg))
<1> DEFINE n == Len(arg)
           T == {k \in 0 .. n : ~ListOf(f[k], me, base, arg, k)}
<1>1. n \in Nat /\ T \in SUBSET Nat
  OBVIOUS
<1>2. f[0] = base /\ \A k \in 1 .. n : f[k] = AddToCluster(me, f[k - 1], arg[k])
  <2>1. f = [k \in 0 .. n |-> IF k = 0 THEN base ELSE AddToCluster(me, f[k - 1], arg[k])]
    BY DEF IsList
  <2>2. \A k \in 0 .. n : f[k] = IF k = 0 THEN base ELSE AddToCluster(me, f[k - 1], arg[k])
    BY <2>1, Zenon
  <2>3. 0 \in 0 .. n /\ \A k \in 1 .. n : k \in 0 .. n /\ k # 0
    BY <1>1
  <2>4. QED
    BY <2>2, <2>3, Zenon
<1>3. T = {}
  <2>1. SUFFICES ASSUME T # {} PROVE FALSE
    OBVIOUS
  <2> HIDE DEF T
  <2>2. PICK k \in T : \A j \in T : k <= j
    BY <1>1, <2>1, LeastElement
  <2>3. k \in 0 .. n /\ ~ListOf(f[k], me, base, arg, k)
    BY DEF T
  <2>4. k # 0
    <3>1. Named(arg, 0) = {}
      BY DEF Named
    <3>2. ListOf(base, me, base, arg, 0)
      BY <3>1 DEF ListOf
    <3>3. QED
      BY <1>2, <2>3, <3>2
  <2>5. k \in 1 .. n /\ k - 1 \in 0 .. n /\ ~(k <= k - 1) /\ k \in Nat
    BY <1>1, <2>3, <2>4
  <2>6. ListOf(f[k - 1], me, base, arg, k - 1)
    BY <2>2, <2>5 DEF T
  <2>7. Named(arg, k) = Named(arg, k - 1) \cup {arg[k]}
    <3>1. 1 .. k = (1 .. k - 1) \cup {k}
      BY <2>5
    <3>2. QED
      BY <3>1 DEF Named
  <2>8. arg[k] \notin Named(arg, k - 1)
    <3>1. \A j \in 1 .. k - 1 : j \in 1 .. n /\ j # k
      BY <1>1, <2>5
    <3>2. QED
      BY <2>5, <3>1 DEF Named
  <2> DEFINE s == f[k - 1]
             t == AddToCluster(me, s, arg[k])
  <2>9. /\ s \in Seq(Int) /\ Ordered(s)
        /\ Len(s) = Len(base) + (k - 1) - (IF me \in Named(arg, k - 1) THEN 1 ELSE 0)
        /\ Range(s) = Range(base) \cup (Named(arg, k - 1) \ {me})
    BY <2>6 DEF ListOf
  <2>10. arg[k] \in Int
    BY <2>5
  <2> HIDE DEF s
  <2>11. /\ t \in Seq(Int) /\ Ordered(t)
         /\ Len(t) = IF arg[k] = me THEN Len(s) ELSE Len(s) + 1
         /\ Range(t) = Range(s) \cup ({arg[k]} \ {me})
    BY <2>9, <2>10, AddFacts
  <2> HIDE DEF t
  <2>12. Range(t) = Range(base) \cup (Named(arg, k) \ {me})
    BY <2>7, <2>9, <2>11
  <2>13. Len(t) = Len(base) + k - (IF me \in Named(arg, k) THEN 1 ELSE 0)
    <3>1. CASE arg[k] = me
      BY <2>5, <2>7, <2>8, <2>9, <2>11, <3>1
    <3>2. CASE arg[k] # me
      <4>1. me \in Named(arg, k) <=> me \in Named(arg, k - 1)
        BY <2>7, <3>2
      <4>2. QED
        BY <2>5, <2>9, <2>11, <3>2, <4>1
    <3>3. QED
      BY <3>1, <3>2
  <2>14. ListOf(t, me, base, arg, k)
    BY <2>11, <2>12, <2>13 DEF ListOf
  <2>15. f[k] = t
    BY <1>2, <2>5 DEF s, t
  <2>16. QED
    BY <2>3, <2>14, <2>15
<1>4. QED
  BY <1>1, <1>3

(* A --cluster option that names all nodes once adds the others.           *)
LEMMA ParseCluster ==
  ASSUME NEW n \in Nat \ {0, 1}, NEW me \in Nodes(n), NEW c, c.cluster \in Seq(Int), Ordered(c.cluster),
         NEW a, a[1] = "cluster", a[2] \in Bijection(1 .. n, Nodes(n))
  PROVE  \E s \in Seq(Int) : /\ ParseOption(me, c, a) = [c EXCEPT !.cluster = s]
                             /\ Ordered(s) /\ Len(s) = Len(c.cluster) + (n - 1)
                             /\ Range(s) = Range(c.cluster) \cup Others(n, me)
<1> DEFINE arg == a[2]
           base == c.cluster
           f == CHOOSE g : IsList(g, me, base, arg)
<1>1. /\ arg \in [1 .. n -> Nodes(n)]
      /\ \A j, k \in 1 .. n : arg[j] = arg[k] => j = k
      /\ \A t \in Nodes(n) : \E j \in 1 .. n : arg[j] = t
  BY DEF Bijection, Injection, Surjection, IsInjective
<1>2. Nodes(n) \in SUBSET Int /\ me \in Int /\ n \in Nat
  BY DEF Nodes
<1>3. arg \in Seq(Int) /\ Len(arg) = n
  BY <1>1, <1>2
<1>4. ParseOption(me, c, a) = [c EXCEPT !.cluster = f[Len(arg)]]
  BY DEF ParseOption, IsList
<1> HIDE DEF arg, base
<1>5. IsList(f, me, base, arg)
  <2>1. \E g : IsList(g, me, base, arg)
    BY <1>2, <1>3, ListExists DEF base
  <2>2. QED
    BY <2>1
<1> HIDE DEF f
<1>6. ListOf(f[Len(arg)], me, base, arg, n)
  BY <1>1, <1>2, <1>3, <1>5, ListFacts DEF base
<1>7. Named(arg, n) = Nodes(n)
  BY <1>1 DEF Named
<1> DEFINE s == f[Len(arg)]
<1>8. /\ s \in Seq(Int) /\ Ordered(s) /\ Len(s) = Len(base) + n - 1
      /\ Range(s) = Range(base) \cup (Nodes(n) \ {me})
  BY <1>6, <1>7 DEF ListOf
<1>9. Len(base) \in Nat
  BY DEF base
<1> HIDE DEF s
<1>10. Len(s) = Len(base) + (n - 1)
  BY <1>2, <1>8, <1>9
<1>11. QED
  BY <1>4, <1>8, <1>10 DEF Others, s, base

(* An option of this name that is not ignored.                             *)
Says(o, name) == o[1] = name /\ (name = "topo" => o[2] \in Topologies)

(* Where such an option stands among the first j.                          *)
Said(a, name, j) == {k \in 1 .. j : Says(a[k], name)}

(* v is what the last of them says, or the default.                        *)
Given(a, name, j, default, v) ==
  \/ Said(a, name, j) = {} /\ v = default
  \/ \E k \in Said(a, name, j) : v = a[k][2] /\ \A l \in Said(a, name, j) : l <= k

(* Only one value is given.                                                *)
LEMMA GivenOnce ==
  ASSUME NEW a, NEW name, NEW j \in Nat, NEW default, NEW u, NEW v,
         Given(a, name, j, default, u), Given(a, name, j, default, v)
  PROVE  u = v
  BY DEF Given, Said

(* Nothing is given before the first option.                               *)
LEMMA GivenFirst ==
  ASSUME NEW a, NEW name
  PROVE  Said(a, name, 0) = {} /\ \A default : Given(a, name, 0, default, default)
  BY DEF Given, Said

(* The next option is one more of its name, or of another.                 *)
LEMMA SaidNext ==
  ASSUME NEW a, NEW name, NEW j \in Nat
  PROVE  /\ Says(a[j + 1], name) => Said(a, name, j + 1) = Said(a, name, j) \cup {j + 1}
         /\ ~Says(a[j + 1], name) => Said(a, name, j + 1) = Said(a, name, j)
<1>1. 1 .. j + 1 = (1 .. j) \cup {j + 1}
  OBVIOUS
<1>2. QED
  BY <1>1 DEF Said

(* It overrides those before it.                                           *)
LEMMA GivenNext ==
  ASSUME NEW a, NEW name, NEW j \in Nat, NEW default
  PROVE  /\ Says(a[j + 1], name) => Given(a, name, j + 1, default, a[j + 1][2])
         /\ \A v : ~Says(a[j + 1], name) /\ Given(a, name, j, default, v) => Given(a, name, j + 1, default, v)
<1>1. ASSUME Says(a[j + 1], name) PROVE Given(a, name, j + 1, default, a[j + 1][2])
  <2>1. j + 1 \in Said(a, name, j + 1)
    BY <1>1 DEF Said
  <2>2. \A l \in Said(a, name, j + 1) : l <= j + 1
    BY DEF Said
  <2>3. QED
    BY <2>1, <2>2 DEF Given
<1>2. ASSUME ~Says(a[j + 1], name) PROVE Said(a, name, j + 1) = Said(a, name, j)
  BY <1>2, SaidNext
<1>3. QED
  BY <1>1, <1>2 DEF Given

(* What node m's Config object holds once it has parsed j of the options a. *)
Parsed(n, a, m, c, j) ==
  /\ DOMAIN c = Fields
  /\ Given(a, "topo", j, "unknown", c.all_reduce)
  /\ Given(a, "tree-width", j, 0, c.tree_width)
  /\ Given(a, "server", j, Nobody, c.server_name)
  /\ Given(a, "num", j, 0, c.num_senders)
  /\ c.single_recv = (Said(a, "single-recv", j) # {})
  /\ c.cluster \in Seq(Int) /\ Ordered(c.cluster)
  /\ Len(c.cluster) = Cardinality(Said(a, "cluster", j)) * (n - 1)
  /\ Range(c.cluster) = IF Said(a, "cluster", j) = {} THEN {} ELSE Others(n, m)

(* Before the first option.                                                *)
LEMMA ParsedFirst ==
  ASSUME NEW n \in Nat \ {0, 1}, NEW a, NEW m
  PROVE  Parsed(n, a, m, DefaultConf, 0)
<1>1. /\ DOMAIN DefaultConf = Fields
      /\ DefaultConf.all_reduce = "unknown" /\ DefaultConf.tree_width = 0
      /\ DefaultConf.server_name = Nobody /\ DefaultConf.num_senders = 0
      /\ DefaultConf.single_recv = FALSE /\ DefaultConf.cluster = << >>
  BY DEF DefaultConf, Fields
<1> HIDE DEF DefaultConf
<1>2. Ordered(<< >>) /\ Range(<< >>) = {} /\ << >> \in Seq(Int) /\ Len(<< >>) = 0
  BY EmptyRange DEF Ordered
<1>3. Cardinality({}) * (n - 1) = 0
  BY FS_EmptySet
<1>4. QED
  BY <1>1, <1>2, <1>3, GivenFirst DEF Parsed

(* The positions of an option are finite in number.                        *)
LEMMA SaidFinite ==
  ASSUME NEW a, NEW name, NEW j \in Nat
  PROVE  /\ IsFiniteSet(Said(a, name, j)) /\ Cardinality(Said(a, name, j)) \in Nat
         /\ Cardinality(Said(a, name, j)) = 0 <=> Said(a, name, j) = {}
         /\ j + 1 \notin Said(a, name, j)
<1>1. IsFiniteSet(1 .. j)
  BY FS_Interval
<1>2. Said(a, name, j) \in SUBSET (1 .. j)
  BY DEF Said
<1>3. IsFiniteSet(Said(a, name, j))
  BY <1>1, <1>2, FS_Subset
<1>4. QED
  BY <1>2, <1>3, FS_CardinalityType, FS_EmptySet

(* Each case of parse_args keeps to it.                                    *)
LEMMA ParsedNext ==
  ASSUME NEW n \in Nat \ {0, 1}, NEW a, NEW m \in Nodes(n), NEW c, NEW j \in Nat,
         Parsed(n, a, m, c, j), a[j + 1][1] \in Options,
         a[j + 1][1] = "cluster" => a[j + 1][2] \in Bijection(1 .. n, Nodes(n))
  PROVE  Parsed(n, a, m, ParseOption(m, c, a[j + 1]), j + 1)
<1> DEFINE o == a[j + 1]
           d == ParseOption(m, c, o)
           Same(name) == /\ Said(a, name, j + 1) = Said(a, name, j)
                         /\ \A default, v : Given(a, name, j, default, v) => Given(a, name, j + 1, default, v)
<1>0. DOMAIN c = Fields
  BY DEF Parsed
<1>1. ASSUME NEW name, ~Says(o, name) PROVE Same(name)
  <2>1. Said(a, name, j + 1) = Said(a, name, j)
    BY <1>1, SaidNext
  <2>2. ASSUME NEW default, NEW v, Given(a, name, j, default, v) PROVE Given(a, name, j + 1, default, v)
    BY <1>1, <2>2, GivenNext
  <2>3. QED
    BY <2>1, <2>2
<1>2. ASSUME NEW name, Says(o, name)
      PROVE  /\ \A default : Given(a, name, j + 1, default, o[2])
             /\ Said(a, name, j + 1) = Said(a, name, j) \cup {j + 1}
  <2>1. Said(a, name, j + 1) = Said(a, name, j) \cup {j + 1}
    BY <1>2, SaidNext
  <2>2. ASSUME NEW default PROVE Given(a, name, j + 1, default, o[2])
    BY <1>2, GivenNext
  <2>3. QED
    BY <2>1, <2>2
<1> HIDE DEF o
<1>3. CASE o[1] = "cluster"
  <2>1. PICK s \in Seq(Int) : /\ d = [c EXCEPT !.cluster = s]
                              /\ Ordered(s) /\ Len(s) = Len(c.cluster) + (n - 1)
                              /\ Range(s) = Range(c.cluster) \cup Others(n, m)
    BY <1>3, ParseCluster DEF Parsed, o
  <2> HIDE DEF d
  <2>2. /\ DOMAIN d = Fields /\ d.cluster = s /\ d.all_reduce = c.all_reduce
        /\ d.tree_width = c.tree_width /\ d.server_name = c.server_name
        /\ d.num_senders = c.num_senders /\ d.single_recv = c.single_recv
    BY <1>0, <2>1 DEF Fields
  <2>3. Same("topo") /\ Same("tree-width") /\ Same("server") /\ Same("num") /\ Same("single-recv")
    BY <1>1, <1>3 DEF Says
  <2> DEFINE S == Said(a, "cluster", j)
  <2>4. Said(a, "cluster", j + 1) = S \cup {j + 1}
    BY <1>2, <1>3 DEF Says
  <2>5. Cardinality(S) \in Nat /\ Cardinality(S \cup {j + 1}) = Cardinality(S) + 1
    BY SaidFinite, FS_AddElement
  <2>6. Len(s) = Cardinality(Said(a, "cluster", j + 1)) * (n - 1)
    <3>1. Len(c.cluster) = Cardinality(S) * (n - 1)
      BY DEF Parsed
    <3> HIDE DEF S
    <3>2. \A x \in Nat : (x + 1) * (n - 1) = x * (n - 1) + (n - 1)
      OBVIOUS
    <3>3. Cardinality(Said(a, "cluster", j + 1)) * (n - 1) = Cardinality(S) * (n - 1) + (n - 1)
      BY <2>4, <2>5, <3>2
    <3>4. QED
      BY <2>1, <3>1, <3>3
  <2>7. Range(s) = Others(n, m) /\ Said(a, "cluster", j + 1) # {}
    BY <2>1, <2>4 DEF Parsed
  <2>8. QED
    BY <2>1, <2>2, <2>3, <2>6, <2>7 DEF Parsed, d, o
<1>4. CASE o[1] = "server"
  <2>1. d = [c EXCEPT !.server_name = o[2], !.serve_as_client = o[2] # m]
    BY <1>4 DEF ParseOption, SetServerName
  <2> HIDE DEF d
  <2>2. /\ DOMAIN d = Fields /\ d.cluster = c.cluster /\ d.all_reduce = c.all_reduce
        /\ d.tree_width = c.tree_width /\ d.server_name = o[2]
        /\ d.num_senders = c.num_senders /\ d.single_recv = c.single_recv
    BY <1>0, <2>1 DEF Fields
  <2>3. Same("topo") /\ Same("tree-width") /\ Same("cluster") /\ Same("num") /\ Same("single-recv")
    BY <1>1, <1>4 DEF Says
  <2>4. \A default : Given(a, "server", j + 1, default, o[2])
    BY <1>2, <1>4 DEF Says
  <2>5. QED
    BY <2>2, <2>3, <2>4 DEF Parsed, d, o
<1>5. CASE o[1] = "num"
  <2>1. d = [c EXCEPT !.num_senders = o[2]]
    BY <1>5 DEF ParseOption
  <2> HIDE DEF d
  <2>2. /\ DOMAIN d = Fields /\ d.cluster = c.cluster /\ d.all_reduce = c.all_reduce
        /\ d.tree_width = c.tree_width /\ d.server_name = c.server_name
        /\ d.num_senders = o[2] /\ d.single_recv = c.single_recv
    BY <1>0, <2>1 DEF Fields
  <2>3. Same("topo") /\ Same("tree-width") /\ Same("cluster") /\ Same("server") /\ Same("single-recv")
    BY <1>1, <1>5 DEF Says
  <2>4. \A default : Given(a, "num", j + 1, default, o[2])
    BY <1>2, <1>5 DEF Says
  <2>5. QED
    BY <2>2, <2>3, <2>4 DEF Parsed, d, o
<1>6. CASE o[1] = "single-recv"
  <2>1. d = [c EXCEPT !.single_recv = TRUE]
    BY <1>6 DEF ParseOption
  <2> HIDE DEF d
  <2>2. /\ DOMAIN d = Fields /\ d.cluster = c.cluster /\ d.all_reduce = c.all_reduce
        /\ d.tree_width = c.tree_width /\ d.server_name = c.server_name
        /\ d.num_senders = c.num_senders /\ d.single_recv = TRUE
    BY <1>0, <2>1 DEF Fields
  <2>3. Same("topo") /\ Same("tree-width") /\ Same("cluster") /\ Same("server") /\ Same("num")
    BY <1>1, <1>6 DEF Says
  <2>4. Said(a, "single-recv", j + 1) # {}
    BY <1>2, <1>6 DEF Says
  <2>5. QED
    BY <2>2, <2>3, <2>4 DEF Parsed, d, o
<1>7. CASE o[1] = "event-channel"
  <2>1. d = [c EXCEPT !.use_event = TRUE]
    BY <1>7 DEF ParseOption
  <2> HIDE DEF d
  <2>2. /\ DOMAIN d = Fields /\ d.cluster = c.cluster /\ d.all_reduce = c.all_reduce
        /\ d.tree_width = c.tree_width /\ d.server_name = c.server_name
        /\ d.num_senders = c.num_senders /\ d.single_recv = c.single_recv
    BY <1>0, <2>1 DEF Fields
  <2>3. /\ Same("topo") /\ Same("tree-width") /\ Same("cluster") /\ Same("server") /\ Same("num")
        /\ Same("single-recv")
    BY <1>1, <1>7 DEF Says
  <2>4. QED
    BY <2>2, <2>3 DEF Parsed, d, o
<1>8. CASE o[1] = "topo"
  <2>1. d = [c EXCEPT !.all_reduce = IF o[2] \in Topologies THEN o[2] ELSE @]
    BY <1>8 DEF ParseOption
  <2> HIDE DEF d
  <2>2. /\ DOMAIN d = Fields /\ d.cluster = c.cluster
        /\ d.all_reduce = (IF o[2] \in Topologies THEN o[2] ELSE c.all_reduce)
        /\ d.tree_width = c.tree_width /\ d.server_name = c.server_name
        /\ d.num_senders = c.num_senders /\ d.single_recv = c.single_recv
    BY <1>0, <2>1 DEF Fields
  <2>3. Same("num") /\ Same("tree-width") /\ Same("cluster") /\ Same("server") /\ Same("single-recv")
    BY <1>1, <1>8 DEF Says
  <2>4. Given(a, "topo", j + 1, "unknown", d.all_reduce)
    <3>1. CASE o[2] \in Topologies
      BY <1>2, <1>8, <2>2, <3>1 DEF Says
    <3>2. CASE o[2] \notin Topologies
      <4>1. Same("topo")
        BY <1>1, <3>2 DEF Says
      <4>2. QED
        BY <2>2, <3>2, <4>1 DEF Parsed
    <3>3. QED
      BY <3>1, <3>2
  <2>5. QED
    BY <2>2, <2>3, <2>4 DEF Parsed, d, o
<1>9. CASE o[1] = "tree-width"
  <2>1. d = [c EXCEPT !.tree_width = o[2]]
    BY <1>9 DEF ParseOption
  <2> HIDE DEF d
  <2>2. /\ DOMAIN d = Fields /\ d.cluster = c.cluster /\ d.all_reduce = c.all_reduce
        /\ d.tree_width = o[2] /\ d.server_name = c.server_name
        /\ d.num_senders = c.num_senders /\ d.single_recv = c.single_recv
    BY <1>0, <2>1 DEF Fields
  <2>3. Same("num") /\ Same("topo") /\ Same("cluster") /\ Same("server") /\ Same("single-recv")
    BY <1>1, <1>9 DEF Says
  <2>4. \A default : Given(a, "tree-width", j + 1, default, o[2])
    BY <1>2, <1>9 DEF Says
  <2>5. QED
    BY <2>2, <2>3, <2>4 DEF Parsed, d, o
<1>10. QED
  BY <1>3, <1>4, <1>5, <1>6, <1>7, <1>8, <1>9 DEF Options, o

(* The options name every node once where they name any.                   *)
Listed == \A a \in Range(argv) : a[1] = "cluster" => a[2] \in Bijection(1 .. np, Nodes(np))

(* How conflict_check and start_service_async leave node m, whose Config   *)
(* object was c after all options.                                         *)
Ended(m, c) ==
  LET d == WithSenders(c)
  IN  IF Refused(d)
        THEN conf[m] = d /\ stage[m] = "exit"
        ELSE /\ conf[m] = WithRole(m, d)
             /\ \/ stage[m] = "ready"
                \/ /\ stage[m] = Outcome(conf[m])
                   /\ stage[m] = "running" => service[m] = Serve(m, conf[m])

(* Such an object there was, made of the options.                          *)
Checked(m) == \E c : Parsed(np, argv, m, c, Len(argv)) /\ Ended(m, c)

(* Where node m is when another or itself has its turn.                    *)
Progress(m) ==
  /\ m > turn => conf[m] = DefaultConf /\ stage[m] = "parse"
  /\ m = turn /\ stage[m] = "parse" =>
       optind \in 1 .. Len(argv) + 1 /\ Parsed(np, argv, m, conf[m], optind - 1)
  /\ m < turn \/ stage[m] # "parse" => Checked(m)
  /\ m < turn => stage[m] \notin {"parse", "ready"}

(* The inductive invariant of Configuration.                               *)
NodesInv ==
  /\ ConfInv /\ Listed
  /\ turn \in Nat /\ Len(argv) \in Nat /\ DOMAIN service = Nodes(np)
  /\ \A m \in Nodes(np) : Progress(m)

(* Before the first option.                                                *)
LEMMA NodesInit == ConfInit => NodesInv
<1> SUFFICES ASSUME ConfInit PROVE NodesInv
  OBVIOUS
<1>1. ConfInv
  BY ConfInitInv
<1>2. PICK d \in Deployments : np = d.n /\ argv = d.args
  BY DEF ConfInit
<1>3. Listed
  <2>1. \A a \in Range(d.args) : a[1] = "cluster" => a[2] \in Bijection(1 .. d.n, Nodes(d.n))
    BY ClusterAssumption
  <2>2. QED
    BY <1>2, <2>1 DEF Listed
<1>4. np \in Nat \ {0, 1} /\ Len(argv) \in Nat
  BY <1>2, DeploymentAssumption
<1>5. ASSUME NEW m \in Nodes(np) PROVE Progress(m)
  <2>1. conf[m] = DefaultConf /\ stage[m] = "parse" /\ turn = 0 /\ optind = 1 /\ ~(m < 0)
    BY DEF ConfInit, Nodes
  <2>2. Parsed(np, argv, m, DefaultConf, 0)
    BY <1>4, ParsedFirst
  <2> HIDE DEF DefaultConf
  <2>3. optind \in 1 .. Len(argv) + 1 /\ optind - 1 = 0
    BY <1>4, <2>1
  <2>4. QED
    BY <2>1, <2>2, <2>3 DEF Progress
<1>6. turn \in Nat /\ DOMAIN service = Nodes(np)
  BY DEF ConfInit
<1>7. QED
  BY <1>1, <1>3, <1>4, <1>5, <1>6 DEF NodesInv

(* A step that leaves a node and its deployment alone keeps what was       *)
(* checked of it.                                                          *)
LEMMA CheckedKept ==
  ASSUME NEW m, Checked(m), np' = np, argv' = argv,
         conf'[m] = conf[m], stage'[m] = stage[m], service'[m] = service[m]
  PROVE  Checked(m)'
<1>1. PICK c : Parsed(np, argv, m, c, Len(argv)) /\ Ended(m, c)
  BY DEF Checked
<1>2. Ended(m, c)'
  BY <1>1 DEF Ended
<1>3. QED
  BY <1>1, <1>2 DEF Checked

(* The next option of the node whose turn it is.                           *)
LEMMA OptionKeeps == NodesInv /\ NextOption => NodesInv'
<1> SUFFICES ASSUME NodesInv, NextOption PROVE NodesInv'
  OBVIOUS
<1>1. /\ turn \in Nodes(np) /\ stage[turn] = "parse" /\ optind <= Len(argv)
      /\ conf' = [conf EXCEPT ![turn] = ParseOption(turn, conf[turn], argv[optind])]
      /\ optind' = optind + 1 /\ np' = np /\ argv' = argv /\ turn' = turn /\ stage' = stage /\ service' = service
  BY DEF NextOption
<1>2. /\ np \in Nat \ {0, 1} /\ DOMAIN argv = 1 .. Len(argv) /\ DOMAIN conf = Nodes(np)
      /\ \A a \in Range(argv) : a[1] \in Options
      /\ turn \in Nat /\ Len(argv) \in Nat
  BY DEF NodesInv, ConfInv, ConfTypes
<1>3. ConfInv' /\ Listed'
  <2>1. ConfInv'
    BY ConfNextInv DEF NodesInv, ConfNext
  <2>2. QED
    BY <1>1, <2>1 DEF NodesInv, Listed
<1>4. optind \in 1 .. Len(argv) + 1 /\ Parsed(np, argv, turn, conf[turn], optind - 1)
  BY <1>1 DEF NodesInv, Progress
<1> DEFINE j == optind - 1
           d == ParseOption(turn, conf[turn], argv[optind])
<1>5. j \in Nat /\ optind = j + 1 /\ argv[j + 1] \in Range(argv)
  BY <1>1, <1>2, <1>4 DEF Range
<1>6. Parsed(np, argv, turn, d, j + 1)
  <2>1. argv[j + 1][1] = "cluster" => argv[j + 1][2] \in Bijection(1 .. np, Nodes(np))
    BY <1>5 DEF NodesInv, Listed
  <2>2. QED
    BY <1>1, <1>2, <1>4, <1>5, <2>1, ParsedNext
<1> HIDE DEF d
<1>7. conf'[turn] = d /\ \A m \in Nodes(np) : m # turn => conf'[m] = conf[m]
  BY <1>1, <1>2 DEF d
<1>8. ASSUME NEW m \in Nodes(np) PROVE Progress(m)'
  <2>0. Progress(m) /\ m \in Nat
    BY DEF NodesInv, Nodes
  <2>1. CASE m = turn
    <3>1. optind' \in 1 .. Len(argv) + 1 /\ optind' - 1 = j + 1
      BY <1>1, <1>2, <1>4
    <3>2. ~(m > turn) /\ ~(m < turn)
      BY <1>2, <2>1
    <3>3. QED
      BY <1>1, <1>6, <1>7, <2>1, <3>1, <3>2 DEF Progress
  <2>2. CASE m # turn
    <3>1. Checked(m) => Checked(m)'
      BY <1>1, <1>7, <2>2, CheckedKept
    <3>2. QED
      BY <1>1, <1>7, <2>0, <2>2, <3>1 DEF Progress
  <2>3. QED
    BY <2>1, <2>2
<1>9. QED
  BY <1>1, <1>2, <1>3, <1>8 DEF NodesInv

(* conflict_check of the node whose turn it is.                            *)
LEMMA CheckedBy ==
  ASSUME NodesInv, turn \in Nodes(np), ConflictCheck(turn)
  PROVE  NodesInv'
<1> DEFINE c == WithSenders(conf[turn])
           d == IF Refused(c) THEN c ELSE WithRole(turn, c)
           place == IF Refused(c) THEN "exit" ELSE "ready"
<1>1. /\ stage[turn] = "parse" /\ optind > Len(argv)
      /\ conf' = [conf EXCEPT ![turn] = d] /\ stage' = [stage EXCEPT ![turn] = place]
      /\ np' = np /\ argv' = argv /\ turn' = turn /\ optind' = optind /\ service' = service
  BY DEF ConflictCheck
<1>2. /\ np \in Nat \ {0, 1} /\ DOMAIN conf = Nodes(np) /\ DOMAIN stage = Nodes(np)
      /\ turn \in Nat /\ Len(argv) \in Nat
  BY DEF NodesInv, ConfInv, ConfTypes
<1>3. ConfInv' /\ Listed'
  <2>1. ConfInv'
    BY ConfNextInv DEF NodesInv, ConfNext
  <2>2. QED
    BY <1>1, <2>1 DEF NodesInv, Listed
<1>4. optind \in 1 .. Len(argv) + 1 /\ Parsed(np, argv, turn, conf[turn], optind - 1)
  BY <1>1 DEF NodesInv, Progress
<1>5. Parsed(np, argv, turn, conf[turn], Len(argv))
  <2>1. optind - 1 = Len(argv)
    BY <1>1, <1>2, <1>4
  <2>2. QED
    BY <1>4, <2>1
<1>6. /\ conf'[turn] = d /\ stage'[turn] = place
      /\ \A m \in Nodes(np) : m # turn => conf'[m] = conf[m] /\ stage'[m] = stage[m]
  <2> HIDE DEF d, place
  <2>1. QED
    BY <1>1, <1>2
<1>7. Checked(turn)'
  <2>1. ASSUME NEW x, x = conf[turn] PROVE Ended(turn, x)'
    BY <1>1, <1>6, <2>1 DEF Ended
  <2>2. ASSUME NEW x, x = conf[turn] PROVE Parsed(np', argv', turn', x, Len(argv'))
    BY <1>1, <1>5, <2>2
  <2>3. PICK x : x = conf[turn]
    OBVIOUS
  <2>4. Ended(turn, x)' /\ Parsed(np', argv', turn', x, Len(argv'))
    BY <2>1, <2>2, <2>3
  <2>5. QED
    BY <2>4 DEF Checked
<1>8. place # "parse"
  OBVIOUS
<1> HIDE DEF place, d
<1>9. ASSUME NEW m \in Nodes(np) PROVE Progress(m)'
  <2>0. Progress(m) /\ m \in Nat
    BY DEF NodesInv, Nodes
  <2>1. CASE m = turn
    <3>2. ~(m > turn) /\ ~(m < turn)
      BY <1>2, <2>1
    <3>3. QED
      BY <1>1, <1>6, <1>7, <1>8, <2>1, <3>2 DEF Progress
  <2>2. CASE m # turn
    <3>1. Checked(m) => Checked(m)'
      BY <1>1, <1>6, <2>2, CheckedKept
    <3>2. QED
      BY <1>1, <1>6, <2>0, <2>2, <3>1 DEF Progress
  <2>3. QED
    BY <2>1, <2>2
<1>10. QED
  BY <1>1, <1>2, <1>3, <1>9 DEF NodesInv

(* start_service_async of the node whose turn it is.                       *)
LEMMA StartedBy ==
  ASSUME NodesInv, turn \in Nodes(np), StartServiceAsync(turn)
  PROVE  NodesInv'
<1> DEFINE place == Outcome(conf[turn])
           new == IF place = "running" THEN Serve(turn, conf[turn]) ELSE NoService
<1>1. /\ stage[turn] = "ready"
      /\ stage' = [stage EXCEPT ![turn] = place] /\ service' = [service EXCEPT ![turn] = new]
      /\ np' = np /\ argv' = argv /\ turn' = turn /\ optind' = optind /\ conf' = conf
  BY DEF StartServiceAsync
<1>2. /\ DOMAIN stage = Nodes(np) /\ DOMAIN service = Nodes(np)
      /\ turn \in Nat /\ Len(argv) \in Nat
  BY DEF NodesInv, ConfInv, ConfTypes
<1>3. ConfInv' /\ Listed'
  <2>1. ConfInv'
    BY ConfNextInv DEF NodesInv, ConfNext
  <2>2. QED
    BY <1>1, <2>1 DEF NodesInv, Listed
<1>4. /\ stage'[turn] = place /\ service'[turn] = new /\ DOMAIN service' = Nodes(np)
      /\ \A m \in Nodes(np) : m # turn => stage'[m] = stage[m] /\ service'[m] = service[m]
  <2> HIDE DEF place, new
  <2>1. QED
    BY <1>1, <1>2
<1>5. place \notin {"parse", "ready"}
  BY DEF Outcome
<1>6. Checked(turn)'
  <2>1. Checked(turn)
    BY <1>1 DEF NodesInv, Progress
  <2>2. PICK c : Parsed(np, argv, turn, c, Len(argv)) /\ Ended(turn, c)
    BY <2>1 DEF Checked
  <2>3. ~Refused(WithSenders(c)) /\ conf[turn] = WithRole(turn, WithSenders(c))
    BY <1>1, <2>2 DEF Ended
  <2>4. Ended(turn, c)'
    <3>1. place = Outcome(conf'[turn]) /\ (place = "running" => new = Serve(turn, conf'[turn]))
      BY <1>1
    <3> HIDE DEF place, new
    <3>2. QED
      BY <1>1, <1>4, <2>3, <3>1 DEF Ended
  <2>5. QED
    BY <1>1, <2>2, <2>4 DEF Checked
<1> HIDE DEF place, new
<1>7. ASSUME NEW m \in Nodes(np) PROVE Progress(m)'
  <2>0. Progress(m) /\ m \in Nat
    BY DEF NodesInv, Nodes
  <2>1. CASE m = turn
    <3>1. ~(m > turn) /\ ~(m < turn)
      BY <1>2, <2>1
    <3>2. QED
      BY <1>1, <1>4, <1>5, <1>6, <2>1, <3>1 DEF Progress
  <2>2. CASE m # turn
    <3>1. Checked(m) => Checked(m)'
      BY <1>1, <1>4, <2>2, CheckedKept
    <3>2. QED
      BY <1>1, <1>4, <2>0, <2>2, <3>1 DEF Progress
  <2>3. QED
    BY <2>1, <2>2
<1>8. QED
  BY <1>1, <1>2, <1>3, <1>4, <1>7 DEF NodesInv

(* The next node starts with the defaults.                                 *)
LEMMA TurnKeeps == NodesInv /\ NextNode => NodesInv'
<1> SUFFICES ASSUME NodesInv, NextNode PROVE NodesInv'
  OBVIOUS
<1>1. /\ turn \in Nodes(np) /\ stage[turn] \notin {"parse", "ready"} /\ turn' = turn + 1 /\ optind' = 1
      /\ np' = np /\ argv' = argv /\ conf' = conf /\ stage' = stage /\ service' = service
  BY DEF NextNode
<1>2. np \in Nat \ {0, 1} /\ turn \in Nat /\ Len(argv) \in Nat
  BY DEF NodesInv, ConfInv, ConfTypes
<1>3. ConfInv' /\ Listed'
  <2>1. ConfInv'
    BY ConfNextInv DEF NodesInv, ConfNext
  <2>2. QED
    BY <1>1, <2>1 DEF NodesInv, Listed
<1>4. ASSUME NEW m \in Nodes(np) PROVE Progress(m)'
  <2>0. Progress(m) /\ m \in Nat
    BY DEF NodesInv, Nodes
  <2>1. Checked(m) => Checked(m)'
    BY <1>1, CheckedKept
  <2>2. m < turn + 1 => m < turn \/ m = turn
    BY <1>2, <2>0
  <2>3. m < turn' => Checked(m)' /\ stage'[m] \notin {"parse", "ready"}
    BY <1>1, <2>0, <2>1, <2>2 DEF Progress
  <2>4. m >= turn + 1 => m > turn /\ conf[m] = DefaultConf /\ stage[m] = "parse"
    BY <1>2, <2>0 DEF Progress
  <2>5. m = turn' => optind' \in 1 .. Len(argv) + 1 /\ Parsed(np, argv, m, conf[m], optind' - 1)
    <3>1. Parsed(np, argv, m, DefaultConf, 0)
      BY <1>2, ParsedFirst
    <3> HIDE DEF DefaultConf
    <3>2. m = turn' => conf[m] = DefaultConf
      BY <1>1, <1>2, <2>0, <2>4
    <3>3. optind' \in 1 .. Len(argv) + 1 /\ optind' - 1 = 0
      BY <1>1, <1>2
    <3>4. QED
      BY <3>1, <3>2, <3>3
  <2>6. stage'[m] # "parse" => Checked(m)'
    BY <1>1, <2>0, <2>1 DEF Progress
  <2>7. m > turn' => conf'[m] = DefaultConf /\ stage'[m] = "parse"
    BY <1>1, <1>2, <2>0, <2>4
  <2>8. QED
    BY <1>1, <2>3, <2>5, <2>6, <2>7 DEF Progress
<1>5. QED
  BY <1>1, <1>2, <1>3, <1>4 DEF NodesInv

(* The invariant holds in every state that can be reached.                 *)
LEMMA NodesInductive == ConfSpec => []NodesInv
<1>1. ASSUME NodesInv, UNCHANGED confVars PROVE NodesInv'
  <2>1. /\ np' = np /\ argv' = argv /\ turn' = turn /\ optind' = optind
        /\ conf' = conf /\ stage' = stage /\ service' = service
    BY <1>1 DEF confVars
  <2>2. ConfInv'
    BY <1>1, ConfNextInv DEF NodesInv
  <2>3. \A m : Checked(m) => Checked(m)'
    BY <2>1, CheckedKept
  <2>4. QED
    BY <1>1, <2>1, <2>2, <2>3 DEF NodesInv, Listed, Progress
<1>2. NodesInv /\ [ConfNext]_confVars => NodesInv'
  BY <1>1, OptionKeeps, CheckedBy, StartedBy, TurnKeeps DEF ConfNext
<1>3. QED
  BY <1>2, NodesInit, PTL DEF ConfSpec

(* What two nodes have in common once they have judged the command line.   *)
LEMMA Alike ==
  ASSUME NodesInv, Done, NEW m \in Nodes(np)
  PROVE  /\ stage[m] = stage[0]
         /\ conf[m].all_reduce = conf[0].all_reduce
         /\ conf[m].tree_width = conf[0].tree_width
         /\ conf[m].server_name = conf[0].server_name
         /\ conf[m].num_senders = conf[0].num_senders
         /\ Len(conf[m].cluster) = Len(conf[0].cluster)
<1> DEFINE L == Len(argv)
<1>1. np \in Nat \ {0, 1} /\ L \in Nat /\ turn = np /\ 0 \in Nodes(np)
  BY DEF NodesInv, ConfInv, ConfTypes, Done, Nodes
<1>2. \A k \in Nodes(np) : Checked(k) /\ stage[k] \notin {"parse", "ready"}
  <2>1. \A k \in Nodes(np) : k < turn
    BY <1>1 DEF Nodes
  <2>2. QED
    BY <2>1 DEF NodesInv, Progress
<1>3. PICK c : Parsed(np, argv, m, c, L) /\ Ended(m, c)
  BY <1>2 DEF Checked
<1>4. PICK e : Parsed(np, argv, 0, e, L) /\ Ended(0, e)
  BY <1>1, <1>2 DEF Checked
<1>5. /\ c.all_reduce = e.all_reduce /\ c.tree_width = e.tree_width /\ c.server_name = e.server_name
      /\ c.num_senders = e.num_senders
  BY <1>1, <1>3, <1>4, GivenOnce DEF Parsed
<1>6. c.single_recv = e.single_recv /\ Len(c.cluster) = Len(e.cluster) /\ (c.cluster = << >> <=> e.cluster = << >>)
  <2>1. c.single_recv = e.single_recv /\ Len(c.cluster) = Len(e.cluster)
    BY <1>3, <1>4 DEF Parsed
  <2>2. c.cluster \in Seq(Int) /\ e.cluster \in Seq(Int)
    BY <1>3, <1>4 DEF Parsed
  <2>3. QED
    BY <2>1, <2>2
<1>7. DOMAIN c = Fields /\ DOMAIN e = Fields
  BY <1>3, <1>4 DEF Parsed
<1> DEFINE d == WithSenders(c)
           f == WithSenders(e)
<1>8. /\ DOMAIN d = Fields /\ DOMAIN f = Fields
      /\ d.all_reduce = f.all_reduce /\ d.tree_width = f.tree_width /\ d.server_name = f.server_name
      /\ d.num_senders = f.num_senders /\ d.single_recv = f.single_recv
      /\ Len(d.cluster) = Len(f.cluster) /\ (d.cluster = << >> <=> f.cluster = << >>)
  BY <1>5, <1>6, <1>7 DEF WithSenders, Fields
<1> HIDE DEF d, f
<1>9. Refused(d) <=> Refused(f)
  BY <1>8 DEF Refused
<1>10. CASE Refused(d)
  <2>1. conf[m] = d /\ stage[m] = "exit" /\ conf[0] = f /\ stage[0] = "exit"
    BY <1>3, <1>4, <1>9, <1>10 DEF Ended, d, f
  <2>2. QED
    BY <1>8, <2>1
<1>11. CASE ~Refused(d)
  <2>1. /\ conf[m] = WithRole(m, d) /\ stage[m] = Outcome(conf[m])
        /\ conf[0] = WithRole(0, f) /\ stage[0] = Outcome(conf[0])
    BY <1>1, <1>2, <1>3, <1>4, <1>9, <1>11 DEF Ended, d, f
  <2>2. /\ conf[m].all_reduce = d.all_reduce /\ conf[m].tree_width = d.tree_width
        /\ conf[m].server_name = d.server_name /\ conf[m].num_senders = d.num_senders
        /\ conf[m].cluster = d.cluster
    BY <1>8, <2>1 DEF WithRole, Fields
  <2>3. /\ conf[0].all_reduce = f.all_reduce /\ conf[0].tree_width = f.tree_width
        /\ conf[0].server_name = f.server_name /\ conf[0].num_senders = f.num_senders
        /\ conf[0].cluster = f.cluster
    BY <1>8, <2>1 DEF WithRole, Fields
  <2>4. ASSUME d.all_reduce = "server-client", d.server_name = Nobody
        PROVE  conf[m].serve_as_client = TRUE /\ conf[0].serve_as_client = TRUE
    <3>1. Nobody # m /\ Nobody # 0
      BY DEF Nobody, Nodes
    <3>2. QED
      BY <1>8, <2>1, <2>4, <3>1 DEF WithRole, Fields
  <2>5. Outcome(conf[m]) = Outcome(conf[0])
    BY <1>8, <2>2, <2>3, <2>4 DEF Outcome
  <2>6. QED
    BY <1>8, <2>1, <2>2, <2>3, <2>5
<1>12. QED
  BY <1>10, <1>11

(* Nodes that are started with one command line, which lists all of them   *)
(* wherever it lists any, judge it alike: conflict_check and               *)
(* start_service_async never let some of them run while others have ended. *)
THEOREM AllJudgeAlike == ConfSpec => []NodesAgree
<1>1. NodesInv => NodesAgree
  BY Alike DEF NodesAgree
<1>2. QED
  BY <1>1, NodesInductive, PTL

(* What a node runs with, in a cluster that runs.                          *)
LEMMA RunningNode ==
  ASSUME NodesInv, NEW topo, Running(topo), NEW m \in Nodes(np)
  PROVE  /\ service[m] = Serve(m, conf[m]) /\ conf[m].all_reduce = topo
         /\ topo = "server-client" => conf[m].serve_as_client = (conf[m].server_name # m)
         /\ conf[m].cluster \in Seq(Int) /\ Ordered(conf[m].cluster)
         /\ Len(conf[0].cluster) = np - 1 =>
              Len(conf[m].cluster) = np - 1 /\ Range(conf[m].cluster) = Others(np, m)
<1>1. np \in Nat \ {0, 1} /\ Len(argv) \in Nat /\ turn = np /\ m < turn /\ Done
  BY DEF NodesInv, ConfInv, ConfTypes, Running, Done, Nodes
<1>2. Checked(m) /\ stage[m] = "running" /\ conf[m].all_reduce = topo
  BY <1>1 DEF NodesInv, Progress, Running
<1>3. PICK c : Parsed(np, argv, m, c, Len(argv)) /\ Ended(m, c)
  BY <1>2 DEF Checked
<1> DEFINE d == WithSenders(c)
<1>4. conf[m] = WithRole(m, d) /\ service[m] = Serve(m, conf[m])
  BY <1>2, <1>3 DEF Ended
<1>5. DOMAIN c = Fields
  BY <1>3 DEF Parsed
<1>6. DOMAIN d = Fields /\ d.cluster = c.cluster
  BY <1>5 DEF WithSenders, Fields
<1> HIDE DEF d
<1>7. /\ conf[m].cluster = c.cluster
      /\ topo = "server-client" => conf[m].serve_as_client = (conf[m].server_name # m)
  BY <1>2, <1>4, <1>6 DEF WithRole, Fields
<1>8. ASSUME Len(conf[0].cluster) = np - 1
      PROVE  Len(conf[m].cluster) = np - 1 /\ Range(conf[m].cluster) = Others(np, m)
  <2>1. Len(conf[m].cluster) = np - 1
    BY <1>1, <1>8, Alike
  <2>2. Said(argv, "cluster", Len(argv)) # {}
    <3>1. SUFFICES ASSUME Said(argv, "cluster", Len(argv)) = {} PROVE FALSE
      OBVIOUS
    <3>2. Len(c.cluster) = 0 * (np - 1)
      BY <1>3, <3>1, FS_EmptySet DEF Parsed
    <3>3. QED
      BY <1>1, <1>7, <2>1, <3>2
  <2>3. QED
    BY <1>3, <1>7, <2>1, <2>2 DEF Parsed
<1>9. QED
  BY <1>2, <1>3, <1>4, <1>7, <1>8 DEF Parsed

(* get_neighboring_node: in an ordered list of the other nodes the first   *)
(* that sorts after m is the next one, and for the last node the first is  *)
(* node 0.                                                                 *)
LEMMA NextHopIs ==
  ASSUME NEW n \in Nat \ {0, 1}, NEW m \in Nodes(n), NEW s \in Seq(Int), Ordered(s),
         Range(s) = Others(n, m)
  PROVE  NextHop(m, s) = IF m < n - 1 THEN m + 1 ELSE 0
<1> DEFINE after == {k \in DOMAIN s : m < s[k]}
           first == CHOOSE k \in after : \A j \in after : k <= j
<1>0. m \in Nat /\ m <= n - 1 /\ n \in Nat
  BY DEF Nodes
<1>1. NextHop(m, s) = IF after # {} THEN s[first] ELSE s[1]
  BY DEF NextHop
<1>2. DOMAIN s = 1 .. Len(s) /\ Len(s) \in Nat
  OBVIOUS
<1>3. \A k \in DOMAIN s : s[k] \in Nat /\ s[k] <= n - 1 /\ s[k] # m
  <2>1. \A k \in DOMAIN s : s[k] \in Others(n, m)
    BY DEF Range
  <2>2. QED
    BY <2>1 DEF Others, Nodes
<1>4. \A v \in Nat : v <= n - 1 /\ v # m => \E k \in DOMAIN s : s[k] = v
  <2>1. \A v \in Nat : v <= n - 1 /\ v # m => v \in Range(s)
    BY DEF Others, Nodes
  <2>2. QED
    BY <2>1 DEF Range
<1>5. CASE m < n - 1
  <2>1. PICK p \in DOMAIN s : s[p] = m + 1
    BY <1>0, <1>4, <1>5
  <2>2. p \in after /\ after \in SUBSET Nat
    BY <1>0, <1>2, <2>1
  <2>3. first \in after /\ \A j \in after : first <= j
    <3>1. \E k \in after : \A j \in after : k <= j
      <4> HIDE DEF after
      <4>1. QED
        BY <2>2, LeastElement
    <3>2. QED
      BY <3>1
  <2>4. first \in DOMAIN s /\ m < s[first] /\ first <= p
    BY <2>2, <2>3
  <2>5. s[first] <= s[p]
    BY <2>1, <2>4 DEF Ordered
  <2>6. s[first] = m + 1
    BY <1>0, <1>3, <2>1, <2>4, <2>5
  <2>7. QED
    BY <1>1, <1>5, <2>2, <2>6
<1>6. CASE ~(m < n - 1)
  <2>1. m = n - 1 /\ m # 0
    BY <1>0, <1>6
  <2>2. after = {}
    BY <1>0, <1>3, <2>1
  <2>3. PICK p \in DOMAIN s : s[p] = 0
    BY <1>0, <1>4, <2>1
  <2>4. 1 \in DOMAIN s /\ 1 <= p
    BY <1>2, <2>3
  <2>5. s[1] <= 0
    BY <2>3, <2>4 DEF Ordered
  <2>6. s[1] = 0
    BY <1>3, <2>4, <2>5
  <2>7. QED
    BY <1>1, <1>6, <2>2, <2>6
<1>7. QED
  BY <1>5, <1>6

(* An ordered list of all nodes has each at its place.  By the least place *)
(* with a greater one, and the last with a smaller one.                    *)
LEMMA OrderedNodes ==
  ASSUME NEW n \in Nat \ {0}, NEW s \in Seq(Int), Ordered(s), Len(s) = n, Range(s) = Nodes(n)
  PROVE  \A k \in 1 .. n : s[k] = k - 1
<1>1. DOMAIN s = 1 .. n /\ n \in Nat
  OBVIOUS
<1>2. \A k \in 1 .. n : s[k] \in Nat /\ s[k] <= n - 1
  <2>1. \A k \in 1 .. n : s[k] \in Nodes(n)
    BY <1>1 DEF Range
  <2>2. QED
    BY <2>1 DEF Nodes
<1>3. \A v \in Nat : v <= n - 1 => \E k \in 1 .. n : s[k] = v
  <2>1. \A v \in Nat : v <= n - 1 => v \in Range(s)
    BY DEF Nodes
  <2>2. QED
    BY <1>1, <2>1 DEF Range
<1>4. \A j, k \in 1 .. n : j <= k => s[j] <= s[k]
  BY <1>1 DEF Ordered
<1>5. s[1] = 0
  <2>1. PICK p \in 1 .. n : s[p] = 0
    BY <1>1, <1>3
  <2>2. 1 \in 1 .. n /\ 1 <= p
    BY <1>1
  <2>3. s[1] <= 0
    BY <1>4, <2>1, <2>2
  <2>4. QED
    BY <1>2, <2>2, <2>3
<1>6. s[n] = n - 1
  <2>1. PICK p \in 1 .. n : s[p] = n - 1
    BY <1>1, <1>3
  <2>2. n \in 1 .. n /\ p <= n
    BY <1>1
  <2>3. n - 1 <= s[n]
    BY <1>4, <2>1, <2>2
  <2>4. QED
    BY <1>2, <2>2, <2>3
<1>7. ASSUME NEW k \in 1 .. n, k # n PROVE k + 1 \in 1 .. n /\ s[k + 1] <= s[k] + 1
  <2>1. k + 1 \in 1 .. n /\ k \in Nat
    BY <1>1, <1>7
  <2>2. SUFFICES ASSUME s[k] + 1 < s[k + 1] PROVE FALSE
    BY <1>2, <2>1
  <2>3. s[k] + 1 \in Nat /\ s[k] + 1 <= n - 1
    BY <1>1, <1>2, <2>1, <2>2
  <2>4. PICK p \in 1 .. n : s[p] = s[k] + 1
    BY <1>3, <2>3
  <2>5. p <= k \/ k + 1 <= p
    BY <2>1
  <2>6. p <= k => s[p] <= s[k]
    BY <1>4
  <2>7. k + 1 <= p => s[k + 1] <= s[p]
    BY <1>4, <2>1
  <2>8. s[k] \in Nat /\ s[k + 1] \in Nat
    BY <1>2, <2>1
  <2>9. QED
    BY <2>2, <2>4, <2>5, <2>6, <2>7, <2>8
<1>8. ASSUME NEW k \in 1 .. n PROVE s[k] <= k - 1
  <2> DEFINE T == {j \in 1 .. n : ~(s[j] <= j - 1)}
  <2>1. SUFFICES ASSUME T # {} PROVE FALSE
    OBVIOUS
  <2>2. T \in SUBSET Nat
    OBVIOUS
  <2>3. PICK j \in T : \A i \in T : j <= i
    <3> HIDE DEF T
    <3>1. QED
      BY <2>1, <2>2, LeastElement
  <2>4. j # 1
    BY <1>5
  <2>5. j - 1 \in 1 .. n /\ j - 1 # n /\ (j - 1) + 1 = j
    BY <1>1, <2>4
  <2>6. s[j - 1] <= (j - 1) - 1
    BY <2>3, <2>5
  <2>7. s[j] <= s[j - 1] + 1
    BY <1>7, <2>5
  <2>8. s[j] \in Nat /\ s[j - 1] \in Nat
    BY <1>2, <2>5
  <2>9. QED
    BY <2>6, <2>7, <2>8
<1>9. ASSUME NEW k \in 1 .. n PROVE k - 1 <= s[k]
  <2> DEFINE T == {i \in 0 .. n - 1 : ~((n - i) - 1 <= s[n - i])}
  <2>1. SUFFICES ASSUME T # {} PROVE FALSE
    <3>1. n - k \in 0 .. n - 1 /\ n - (n - k) = k
      BY <1>1
    <3>2. QED
      BY <3>1
  <2>2. T \in SUBSET Nat
    OBVIOUS
  <2>3. PICK i \in T : \A j \in T : i <= j
    <3> HIDE DEF T
    <3>1. QED
      BY <2>1, <2>2, LeastElement
  <2>4. i # 0
    BY <1>1, <1>6
  <2>5. i - 1 \in 0 .. n - 1 /\ n - i \in 1 .. n /\ n - i # n /\ (n - i) + 1 = n - (i - 1) /\ n - (i - 1) \in 1 .. n
    BY <1>1, <2>4
  <2>6. (n - (i - 1)) - 1 <= s[n - (i - 1)]
    <3>1. i \in Nat /\ ~(i <= i - 1)
      BY <2>2
    <3>2. i - 1 \notin T
      BY <2>3, <3>1
    <3>3. QED
      BY <2>5, <3>2
  <2>7. s[n - (i - 1)] <= s[n - i] + 1
    BY <1>7, <2>5
  <2>8. s[n - i] \in Nat /\ s[n - (i - 1)] \in Nat
    BY <1>2, <2>5
  <2>9. QED
    BY <1>1, <2>5, <2>6, <2>7, <2>8
<1>10. ASSUME NEW k \in 1 .. n PROVE s[k] = k - 1
  <2>1. s[k] \in Nat /\ s[k] <= k - 1 /\ k - 1 <= s[k] /\ k \in Nat
    BY <1>1, <1>2, <1>8, <1>9
  <2>2. QED
    BY <2>1
<1>11. QED
  BY <1>10

(* The list of all nodes is that of their numbers, and a node's position   *)
(* in it its own.                                                          *)
LEMMA AllNodes ==
  ASSUME NEW n \in Nat \ {0, 1}, NEW m \in Nodes(n), NEW c, c.cluster \in Seq(Int),
         Len(c.cluster) = n - 1, Range(c.cluster) = Others(n, m)
  PROVE  (\A r \in Nodes(n) : All(m, c)[r + 1] = r) /\ Rank(m, c) = m
<1> DEFINE t == Append(c.cluster, m)
           s == All(m, c)
<1>0. m \in Int /\ n \in Nat \ {0} /\ n \in Nat
  BY DEF Nodes
<1>1. t \in Seq(Int) /\ Len(t) = n /\ Range(t) = Nodes(n)
  <2>1. t \in Seq(Int) /\ Len(t) = (n - 1) + 1
    BY <1>0
  <2>2. Range(t) = Range(c.cluster) \cup {m}
    BY <1>0, AppendRange
  <2>3. QED
    BY <1>0, <2>1, <2>2 DEF Others
<1> HIDE DEF t
<1>2. s \in Seq(Int) /\ Ordered(s) /\ Len(s) = n /\ Range(s) = Nodes(n)
  BY <1>1, SortFacts DEF All, t
<1> HIDE DEF s
<1>3. \A k \in 1 .. n : s[k] = k - 1
  BY <1>0, <1>2, OrderedNodes
<1>4. \A r \in Nodes(n) : s[r + 1] = r
  <2>1. \A r \in Nodes(n) : r + 1 \in 1 .. n /\ (r + 1) - 1 = r
    BY <1>0 DEF Nodes
  <2>2. QED
    BY <1>3, <2>1
<1>5. Rank(m, c) = CHOOSE r \in 0 .. n - 1 : s[r + 1] = m
  BY DEF Rank, s
<1>6. \A r \in 0 .. n - 1 : s[r + 1] = m <=> r = m
  BY <1>4 DEF Nodes
<1>7. m \in 0 .. n - 1
  BY DEF Nodes
<1>8. QED
  BY <1>4, <1>5, <1>6, <1>7 DEF s

(* A number to give NumSenders and Targets for the width: only the tree    *)
(* has one.                                                                *)
Width(topo) == IF topo = "tree" THEN conf[0].tree_width ELSE 0

(* A cluster that runs a topology and lists all its nodes, with node 0 as  *)
(* the server of server-client mode, and a number of senders that is right *)
(* where it is the one of the command line.                                *)
Deployed(topo) ==
  /\ Running(topo)
  /\ IF topo = "server-client" THEN conf[0].server_name = 0 ELSE Len(conf[0].cluster) = np - 1
  /\ topo \in {"full-mesh", "server-client"} => conf[0].num_senders = np - 1

(* What each node starts is what Topology says for its number: the server, *)
(* the senders it waits for and the targets of the clients, with which     *)
(* ClusterStartup goes on.                                                 *)
StartsTopology ==
  \A topo \in Topologies : Deployed(topo) =>
    /\ Startable(topo, np, Width(topo))
    /\ \A m \in Nodes(np) :
         /\ service[m].server = (m \in Servers(topo, np))
         /\ service[m].server => service[m].num_senders = NumSenders(topo, np, Width(topo), m)
         /\ service[m].targets = Targets(topo, np, Width(topo), m)

(* The nodes that ranks stand for are those of these numbers.              *)
LEMMA RanksAreNodes ==
  ASSUME NEW n, NEW s, \A r \in Nodes(n) : s[r + 1] = r, NEW A \in SUBSET Nodes(n)
  PROVE  {s[r + 1] : r \in A} = A
  OBVIOUS

(* The invariant gives it: case by case, as the *_service methods have it. *)
LEMMA StartsFromInv == NodesInv => StartsTopology
<1> SUFFICES ASSUME NodesInv, NEW topo \in Topologies, Deployed(topo)
             PROVE  /\ Startable(topo, np, Width(topo))
                    /\ \A m \in Nodes(np) :
                         /\ service[m].server = (m \in Servers(topo, np))
                         /\ service[m].server => service[m].num_senders = NumSenders(topo, np, Width(topo), m)
                         /\ service[m].targets = Targets(topo, np, Width(topo), m)
  BY DEF StartsTopology
<1>1. np \in Nat \ {0, 1} /\ ConfInv /\ Running(topo) /\ 0 \in Nodes(np) /\ Done
  BY DEF NodesInv, ConfInv, ConfTypes, Deployed, Nodes, Running
<1> DEFINE w == Width(topo)
<1>2. topo # "server-client" => Len(conf[0].cluster) = np - 1
  BY DEF Deployed
<1>3. Startable(topo, np, w)
  <2>1. CASE topo = "tree"
    BY <1>1, <1>2, <2>1, RunningStartable DEF Width
  <2>2. CASE topo # "tree"
    BY <1>1, <2>2 DEF Width, Startable
  <2>3. QED
    BY <2>1, <2>2
<1>4. ASSUME NEW m \in Nodes(np)
      PROVE  /\ service[m].server = (m \in Servers(topo, np))
             /\ service[m].server => service[m].num_senders = NumSenders(topo, np, w, m)
             /\ service[m].targets = Targets(topo, np, w, m)
  <2> DEFINE c == conf[m]
  <2>1. /\ service[m] = Serve(m, c) /\ c.all_reduce = topo
        /\ topo = "server-client" => c.serve_as_client = (c.server_name # m)
        /\ c.cluster \in Seq(Int) /\ Ordered(c.cluster)
        /\ topo # "server-client" => Len(c.cluster) = np - 1 /\ Range(c.cluster) = Others(np, m)
    BY <1>1, <1>2, RunningNode
  <2>2. /\ c.server_name = conf[0].server_name /\ c.num_senders = conf[0].num_senders
        /\ c.tree_width = conf[0].tree_width
    BY <1>1, Alike
  <2>3. topo \in {"full-mesh", "server-client"} => c.num_senders = np - 1
    BY <2>2 DEF Deployed
  <2>4. topo = "server-client" => c.server_name = 0
    BY <2>2 DEF Deployed
  <2>5. topo # "server-client" => Servers(topo, np) = Nodes(np)
    BY DEF Servers
  <2> HIDE DEF c
  <2>6. CASE topo = "server-client"
    <3>1. Serve(m, c) = [server |-> ~c.serve_as_client, num_senders |-> c.num_senders,
                         targets |-> IF c.serve_as_client THEN {c.server_name} ELSE {}]
      BY <2>1, <2>6 DEF Serve
    <3>2. NumSenders(topo, np, w, m) = np - 1 /\ Targets(topo, np, w, m) = {0} \ {m} /\ Servers(topo, np) = {0}
      BY <2>6 DEF NumSenders, Targets, Servers
    <3>3. c.serve_as_client = (m # 0)
      BY <2>1, <2>4, <2>6
    <3>4. CASE m = 0
      <4>1. service[m] = [server |-> TRUE, num_senders |-> c.num_senders, targets |-> {}]
        BY <2>1, <3>1, <3>3, <3>4
      <4>2. service[m].server = TRUE /\ service[m].num_senders = c.num_senders /\ service[m].targets = {}
        BY <4>1
      <4>3. m \in Servers(topo, np) /\ {0} \ {m} = {}
        BY <3>2, <3>4
      <4>4. QED
        BY <2>3, <2>6, <3>2, <4>2, <4>3
    <3>5. CASE m # 0
      <4>1. service[m] = [server |-> FALSE, num_senders |-> c.num_senders, targets |-> {0}]
        BY <2>1, <2>4, <2>6, <3>1, <3>3, <3>5
      <4>2. service[m].server = FALSE /\ service[m].targets = {0}
        BY <4>1
      <4>3. m \notin Servers(topo, np) /\ {0} \ {m} = {0}
        BY <3>2, <3>5
      <4>4. service[m].server = (m \in Servers(topo, np)) /\ ~service[m].server
        <5>1. (m \in Servers(topo, np)) = FALSE
          BY <4>3
        <5>2. service[m].server = (m \in Servers(topo, np))
          BY <4>2, <5>1
        <5>3. ~service[m].server
          BY <4>2
        <5>4. QED
          BY <5>2, <5>3
      <4>5. service[m].targets = Targets(topo, np, w, m)
        BY <3>2, <4>2, <4>3
      <4>6. QED
        BY <4>4, <4>5
    <3>6. QED
      BY <3>4, <3>5
  <2>7. CASE topo = "full-mesh"
    <3>1. /\ service[m].server = TRUE /\ service[m].num_senders = c.num_senders
          /\ service[m].targets = Range(c.cluster)
      BY <2>1, <2>7 DEF Serve
    <3>2. NumSenders(topo, np, w, m) = np - 1 /\ Targets(topo, np, w, m) = Others(np, m)
      BY <2>7 DEF NumSenders, Targets
    <3>3. QED
      BY <2>1, <2>3, <2>5, <2>7, <3>1, <3>2
  <2>8. CASE topo = "ring"
    <3>1. /\ service[m].server = TRUE /\ service[m].num_senders = 1
          /\ service[m].targets = {NextHop(m, c.cluster)}
      BY <2>1, <2>8 DEF Serve
    <3>2. NumSenders(topo, np, w, m) = 1 /\ Targets(topo, np, w, m) = {RingNext(np, m)}
      BY <2>8 DEF NumSenders, Targets
    <3>3. NextHop(m, c.cluster) = RingNext(np, m)
      BY <1>1, <2>1, <2>8, NextHopIs, RingSuccessor
    <3>4. QED
      BY <2>5, <2>8, <3>1, <3>2, <3>3
  <2>9. CASE topo \in {"tree", "dbt"}
    <3>1. /\ \A r \in Nodes(np) : All(m, c)[r + 1] = r
          /\ Rank(m, c) = m /\ Len(c.cluster) + 1 = np
      <4>1. topo # "server-client" /\ Len(c.cluster) = np - 1
        BY <2>1, <2>9
      <4>2. Len(c.cluster) + 1 = np
        BY <1>1, <4>1
      <4>3. QED
        BY <1>1, <2>1, <4>1, <4>2, AllNodes
    <3> DEFINE A == Targets(topo, np, w, m)
    <3>2. A \in SUBSET Nodes(np)
      <4>1. A \subseteq Servers(topo, np)
        BY <1>3, TargetsAreServers
      <4>2. QED
        BY <2>5, <2>9, <4>1
    <3>3. {All(m, c)[r + 1] : r \in A} = A
      <4> HIDE DEF A
      <4>1. QED
        BY <3>1, <3>2, RanksAreNodes
    <3>4. CASE topo = "tree"
      <4>1. c.tree_width = w
        BY <2>2, <3>4 DEF Width
      <4>2. /\ service[m].server = TRUE
            /\ service[m].num_senders = NumSenders("tree", Len(c.cluster) + 1, c.tree_width, Rank(m, c))
            /\ service[m].targets =
                 {All(m, c)[r + 1] : r \in Targets("tree", Len(c.cluster) + 1, c.tree_width, Rank(m, c))}
        BY <2>1, <3>4 DEF Serve
      <4>3. QED
        BY <2>5, <3>1, <3>3, <3>4, <4>1, <4>2
    <3>5. CASE topo = "dbt"
      <4>1. w = 0
        BY <3>5 DEF Width
      <4>2. /\ service[m].server = TRUE
            /\ service[m].num_senders = NumSenders("dbt", Len(c.cluster) + 1, 0, Rank(m, c))
            /\ service[m].targets = {All(m, c)[r + 1] : r \in Targets("dbt", Len(c.cluster) + 1, 0, Rank(m, c))}
        BY <2>1, <3>5 DEF Serve
      <4>3. QED
        BY <2>5, <3>1, <3>3, <3>5, <4>1, <4>2
    <3>6. QED
      BY <2>9, <3>4, <3>5
  <2>10. QED
    BY <2>6, <2>7, <2>8, <2>9 DEF Topologies
<1>5. QED
  BY <1>3, <1>4

(* Each node computes on its own, from the command line, what Topology     *)
(* defines for all of them: whatever the order and the number of the       *)
(* options, the clusters that Configuration starts are those that          *)
(* ClusterStartup is about.                                                *)
THEOREM StartsWhatTopologySays == ConfSpec => []StartsTopology
  BY StartsFromInv, NodesInductive, PTL

(* In a server-client deployment the server that --server names, if it is  *)
(* one of the nodes, waits for all others, and all others connect to it.   *)
LEMMA ServerClientMatch ==
  ASSUME NodesInv, Running("server-client"), conf[0].num_senders = np - 1, NEW j \in Nodes(np)
  PROVE  LET senders == {m \in Nodes(np) : j \in service[m].targets}
         IN  IF service[j].server THEN service[j].num_senders = Cardinality(senders)
                                  ELSE senders = {}
<1> DEFINE senders == {m \in Nodes(np) : j \in service[m].targets}
           name == conf[0].server_name
<1>1. np \in Nat \ {0, 1} /\ Done
  BY DEF NodesInv, ConfInv, ConfTypes, Running
<1>2. ASSUME NEW m \in Nodes(np)
      PROVE  /\ service[m].num_senders = np - 1
             /\ m = name => service[m].server = TRUE /\ service[m].targets = {}
             /\ m # name => service[m].server = FALSE /\ service[m].targets = {name}
  <2> DEFINE c == conf[m]
  <2>1. /\ service[m] = Serve(m, c) /\ c.all_reduce = "server-client"
        /\ c.serve_as_client = (c.server_name # m)
    BY RunningNode
  <2>2. c.server_name = name /\ c.num_senders = np - 1
    BY <1>1, Alike
  <2> HIDE DEF c, name
  <2>3. Serve(m, c) = [server |-> ~c.serve_as_client, num_senders |-> c.num_senders,
                       targets |-> IF c.serve_as_client THEN {c.server_name} ELSE {}]
    BY <2>1 DEF Serve
  <2>4. CASE m = name
    <3>1. service[m] = [server |-> TRUE, num_senders |-> np - 1, targets |-> {}]
      BY <2>1, <2>2, <2>3, <2>4
    <3>2. QED
      BY <2>4, <3>1
  <2>5. CASE m # name
    <3>1. service[m] = [server |-> FALSE, num_senders |-> np - 1, targets |-> {name}]
      BY <2>1, <2>2, <2>3, <2>5
    <3>2. QED
      BY <2>5, <3>1
  <2>6. QED
    BY <2>4, <2>5
<1> HIDE DEF name
<1>3. CASE j = name
  <2>1. \A m \in Nodes(np) : j \in service[m].targets <=> m # j
    BY <1>2, <1>3
  <2>2. senders = Others(np, j)
    BY <2>1 DEF Others
  <2>3. Cardinality(Others(np, j)) = np - 1
    BY <1>1, CountOthers
  <2>4. service[j].server /\ service[j].num_senders = np - 1
    BY <1>2, <1>3
  <2> HIDE DEF senders
  <2>5. QED
    BY <2>2, <2>3, <2>4 DEF senders
<1>4. CASE j # name
  <2>1. ASSUME NEW m \in Nodes(np) PROVE j \notin service[m].targets
    <3>1. service[m].targets = {} \/ service[m].targets = {name}
      BY <1>2
    <3>2. QED
      BY <1>4, <3>1
  <2>2. ~service[j].server
    BY <1>2, <1>4
  <2>3. QED
    BY <2>1, <2>2
<1>5. QED
  BY <1>3, <1>4

(* Whatever the options, a server that runs waits for as many senders as   *)
(* connect to it, and no client connects to a node without a server.       *)
THEOREM SendersAgree == ConfSpec => []SendersMatch
<1>1. NodesInv => SendersMatch
  <2> SUFFICES ASSUME NodesInv, NEW topo \in Topologies, Running(topo),
                      topo # "server-client" => Len(conf[0].cluster) = np - 1,
                      topo \in {"full-mesh", "server-client"} => conf[0].num_senders = np - 1,
                      topo = "dbt" => np % 2 = 0,
                      NEW j \in Nodes(np)
               PROVE  LET senders == {m \in Nodes(np) : j \in service[m].targets}
                      IN  IF service[j].server THEN service[j].num_senders = Cardinality(senders)
                                               ELSE senders = {}
    BY DEF SendersMatch
  <2>1. CASE topo = "server-client"
    BY <2>1, ServerClientMatch
  <2>2. CASE topo # "server-client"
    <3> DEFINE w == Width(topo)
               senders == {m \in Nodes(np) : j \in service[m].targets}
    <3>1. Deployed(topo)
      BY <2>2 DEF Deployed
    <3>2. /\ Startable(topo, np, w)
          /\ \A m \in Nodes(np) :
               /\ service[m].server = (m \in Servers(topo, np))
               /\ service[m].server => service[m].num_senders = NumSenders(topo, np, w, m)
               /\ service[m].targets = Targets(topo, np, w, m)
      BY <3>1, StartsFromInv DEF StartsTopology
    <3> HIDE DEF w
    <3>3. j \in Servers(topo, np) /\ service[j].server
      BY <2>2, <3>2 DEF Servers
    <3>4. senders = Senders(topo, np, w, j)
      BY <3>2 DEF Senders
    <3>5. np \in Nat /\ j \in Nat
      BY <3>2 DEF Startable, Nodes
    <3>6. ~(topo = "dbt" /\ 2 * j = np - 1)
      <4>1. SUFFICES ASSUME np % 2 = 0, 2 * j = np - 1 PROVE FALSE
        OBVIOUS
      <4>2. QED
        BY <3>5, <4>1
    <3>7. NumSenders(topo, np, w, j) = Cardinality(Senders(topo, np, w, j))
      BY <3>2, <3>3, <3>6, SendersCounted
    <3>8. service[j].num_senders = NumSenders(topo, np, w, j)
      BY <3>2, <3>3
    <3> HIDE DEF senders
    <3>9. QED
      BY <3>3, <3>4, <3>7, <3>8 DEF senders
  <2>3. QED
    BY <2>1, <2>2
<1>2. QED
  BY <1>1, NodesInductive, PTL

(* What the local function of RingIsOneCycle is defined to be. *)
IsHop(f, n, serv) ==
  f = [m \in 0 .. n |-> IF m = 0 THEN 0 ELSE CHOOSE t \in serv[f[m - 1]].targets : TRUE]

(* Its values, with the targets of a ring.  It exists since these satisfy  *)
(* its equation, and has no others, by a least place with another.         *)
LEMMA HopsAre ==
  ASSUME NEW n \in Nat \ {0, 1}, NEW serv,
         \A m \in Nodes(n) : serv[m].targets = {IF m < n - 1 THEN m + 1 ELSE 0}
  PROVE  /\ \E f : IsHop(f, n, serv)
         /\ \A f : IsHop(f, n, serv) => \A k \in 0 .. n : f[k] = IF k = n THEN 0 ELSE k
<1> DEFINE v(k) == IF k = n THEN 0 ELSE k
           next(x) == CHOOSE t \in serv[x].targets : TRUE
<1>1. \A x : (CHOOSE t \in {x} : TRUE) = x
  OBVIOUS
<1>2. \A k \in 1 .. n : next(v(k - 1)) = v(k)
  <2> SUFFICES ASSUME NEW k \in 1 .. n PROVE next(v(k - 1)) = v(k)
    OBVIOUS
  <2>1. v(k - 1) = k - 1 /\ k - 1 \in Nodes(n)
    BY DEF Nodes
  <2>2. serv[k - 1].targets = {v(k)}
    BY <2>1
  <2>3. QED
    BY <1>1, <2>1, <2>2
<1> HIDE DEF next
<1>3. \E f : IsHop(f, n, serv)
  <2> DEFINE f == [k \in 0 .. n |-> v(k)]
  <2>1. ASSUME NEW k \in 0 .. n PROVE v(k) = IF k = 0 THEN 0 ELSE next(f[k - 1])
    <3>1. CASE k = 0
      BY <3>1
    <3>2. CASE k # 0
      <4>1. k \in 1 .. n /\ k - 1 \in 0 .. n
        BY <3>2
      <4>2. f[k - 1] = v(k - 1)
        BY <4>1
      <4>3. QED
        BY <1>2, <3>2, <4>1, <4>2
    <3>3. QED
      BY <3>1, <3>2
  <2>2. f = [k \in 0 .. n |-> IF k = 0 THEN 0 ELSE next(f[k - 1])]
    BY <2>1
  <2>3. IsHop(f, n, serv)
    BY <2>2 DEF IsHop, next
  <2>4. QED
    BY <2>3
<1>4. ASSUME NEW f, IsHop(f, n, serv), NEW k \in 0 .. n PROVE f[k] = v(k)
  <2> DEFINE T == {j \in 0 .. n : f[j] # v(j)}
  <2>1. SUFFICES ASSUME T # {} PROVE FALSE
    OBVIOUS
  <2>2. PICK j \in T : \A i \in T : j <= i
    <3>1. T \in SUBSET Nat
      OBVIOUS
    <3> HIDE DEF T
    <3>2. QED
      BY <2>1, <3>1, LeastElement
  <2>3. f[0] = 0 /\ \A i \in 1 .. n : f[i] = next(f[i - 1])
    <3>1. f = [m \in 0 .. n |-> IF m = 0 THEN 0 ELSE next(f[m - 1])]
      BY <1>4 DEF IsHop, next
    <3>2. \A m \in 0 .. n : f[m] = IF m = 0 THEN 0 ELSE next(f[m - 1])
      BY <3>1, Zenon
    <3>3. 0 \in 0 .. n /\ \A i \in 1 .. n : i \in 0 .. n /\ i # 0
      OBVIOUS
    <3>4. QED
      BY <3>2, <3>3
  <2>4. j \in 1 .. n /\ j - 1 \in 0 .. n /\ ~(j <= j - 1)
    BY <2>3
  <2>5. f[j - 1] = v(j - 1)
    BY <2>2, <2>4
  <2>6. f[j] = v(j)
    BY <1>2, <2>3, <2>4, <2>5
  <2>7. QED
    BY <2>6
<1>5. QED
  BY <1>3, <1>4

(* Whatever the options and the order of the addresses, the clients of a   *)
(* ring that lists all nodes form one cycle through all of them.           *)
THEOREM RingCloses == ConfSpec => []RingIsOneCycle
<1>1. NodesInv => RingIsOneCycle
  <2> SUFFICES ASSUME NodesInv, Running("ring"), Len(conf[0].cluster) = np - 1
               PROVE  RingIsOneCycle
    BY DEF RingIsOneCycle
  <2> DEFINE hop == CHOOSE f : IsHop(f, np, service)
  <2>1. np \in Nat \ {0, 1}
    BY DEF NodesInv, ConfInv, ConfTypes
  <2>2. \A m \in Nodes(np) : service[m].targets = {IF m < np - 1 THEN m + 1 ELSE 0}
    <3> SUFFICES ASSUME NEW m \in Nodes(np)
                 PROVE  service[m].targets = {IF m < np - 1 THEN m + 1 ELSE 0}
      OBVIOUS
    <3>1. /\ service[m] = Serve(m, conf[m]) /\ conf[m].all_reduce = "ring"
          /\ conf[m].cluster \in Seq(Int) /\ Ordered(conf[m].cluster)
          /\ Range(conf[m].cluster) = Others(np, m)
      BY RunningNode
    <3>2. service[m].targets = {NextHop(m, conf[m].cluster)}
      BY <3>1 DEF Serve
    <3>3. QED
      BY <2>1, <3>1, <3>2, NextHopIs
  <2>3. /\ \E f : IsHop(f, np, service)
        /\ \A f : IsHop(f, np, service) => \A k \in 0 .. np : f[k] = IF k = np THEN 0 ELSE k
    BY <2>1, <2>2, HopsAre
  <2>4. IsHop(hop, np, service)
    BY <2>3, Zenon
  <2> HIDE DEF hop
  <2>5. \A k \in 0 .. np : hop[k] = IF k = np THEN 0 ELSE k
    BY <2>3, <2>4, Zenon
  <2>6. hop[np] = 0 /\ {hop[m] : m \in 1 .. np} = Nodes(np)
    <3>1. hop[np] = 0 /\ \A k \in 1 .. np : hop[k] \in Nodes(np)
      BY <2>1, <2>5 DEF Nodes
    <3>2. \A r \in Nodes(np) : \E k \in 1 .. np : hop[k] = r
      <4> SUFFICES ASSUME NEW r \in Nodes(np) PROVE \E k \in 1 .. np : hop[k] = r
        OBVIOUS
      <4>1. np \in 1 .. np
        BY <2>1
      <4>2. r # 0 => r \in 1 .. np /\ hop[r] = r
        BY <2>1, <2>5 DEF Nodes
      <4>3. QED
        BY <3>1, <4>1, <4>2
    <3>3. QED
      BY <3>1, <3>2
  <2>7. QED
    BY <2>6, Zenon DEF RingIsOneCycle, hop, IsHop
<1>2. QED
  BY <1>1, NodesInductive, PTL

=============================================================================
