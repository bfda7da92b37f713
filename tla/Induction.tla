----------------------------- MODULE Induction -----------------------------
(***************************************************************************)
(* Induction and recursion for proofs about recursive functions, stated    *)
(* with sets and functions where the library has operators as parameters,  *)
(* and what they give for numbers, sequences and sums.                     *)
(***************************************************************************)
EXTENDS Integers, Sequences, FiniteSetsExt, TLAPS, WellFoundedInduction,
        FiniteSetTheorems

-----------------------------------------------------------------------------
(* Natural numbers.                                                        *)

\* Every set of natural numbers has a least one.
LEMMA LeastNumber ==
    ASSUME NEW N \in SUBSET Nat, N # {}
    PROVE  \E n \in N : \A k \in N : n =< k
<1> DEFINE Less == {ss \in Nat \X Nat : ss[1] < ss[2]}
<1>1. IsWellFoundedOn(Less, Nat)
  BY NatLessThanWellFounded DEF OpToRel
<1>2. PICK n \in N : \A k \in N : <<k, n>> \notin Less
  <2> HIDE DEF Less
  <2> QED BY <1>1, WFMin
<1>3. ASSUME NEW k \in N PROVE n =< k
  <2>1. <<k, n>> \in Nat \X Nat  OBVIOUS
  <2>2. ~ (k < n)  BY <1>2, <2>1
  <2> QED BY <2>2
<1> QED BY <1>3

\* Induction: a set of natural numbers with 0 and each one's successor.
LEMMA AllNumbers ==
    ASSUME NEW N \in SUBSET Nat, 0 \in N, \A n \in N : n + 1 \in N
    PROVE  N = Nat
<1> SUFFICES ASSUME Nat \ N # {} PROVE FALSE
  OBVIOUS
<1>1. PICK n \in Nat \ N : \A k \in Nat \ N : n =< k
  <2> DEFINE M == Nat \ N
  <2>1. M \in SUBSET Nat /\ M # {}  OBVIOUS
  <2> HIDE DEF M
  <2>2. \E n \in M : \A k \in M : n =< k  BY <2>1, LeastNumber
  <2> QED BY <2>2 DEF M
<1>2. n - 1 \in Nat  OBVIOUS
<1>3. n - 1 \in N  BY <1>1, <1>2
<1> QED BY <1>2, <1>3

\* Induction up to a bound.
LEMMA AllUpTo ==
    ASSUME NEW b \in Nat, NEW N, 0 \in N,
           \A n \in 0 .. b - 1 : n \in N => n + 1 \in N
    PROVE  0 .. b \subseteq N
<1> DEFINE M == {n \in Nat : n =< b => n \in N}
<1>1. M \in SUBSET Nat /\ 0 \in M  OBVIOUS
<1>2. ASSUME NEW n \in M PROVE n + 1 \in M  OBVIOUS
<1>3. M = Nat
  <2> HIDE DEF M
  <2> QED BY <1>1, <1>2, AllNumbers
<1> QED BY <1>3

-----------------------------------------------------------------------------
(* Recursive functions, whose value at x depends on one value at most, that *)
(* at pred[x], which is smaller in the measure m.                           *)

\* What such a recursion consists of: the arguments S, the values T, the
\* measure, where it stops, the argument it goes back to, the value where it
\* stops and the step <<x, the value at pred[x]>> |-> the value at x.
Recursive(S, T, m, stop, pred, base, step) ==
    /\ m \in [S -> Nat]
    /\ \A x \in S \ stop : pred[x] \in S /\ m[pred[x]] < m[x]
    /\ \A x \in S \cap stop : base[x] \in T
    /\ \A x \in S \ stop, t \in T : step[<<x, t>>] \in T

\* There is a function that the recursion describes, and its values are in T.
LEMMA Recursion ==
    ASSUME NEW S, NEW T, NEW m, NEW stop, NEW pred, NEW base, NEW step,
           Recursive(S, T, m, stop, pred, base, step)
    PROVE  \E f \in [S -> T] :
             f = [x \in S |-> IF x \in stop THEN base[x] ELSE step[<<x, f[pred[x]]>>]]
<1> USE DEF Recursive
<1> DEFINE Below(n) == {x \in S : m[x] < n}
           Body(g, x) == IF x \in stop THEN base[x] ELSE step[<<x, g[pred[x]]>>]
           Good(n) == {g \in [Below(n) -> T] : \A x \in Below(n) : g[x] = Body(g, x)}
<1>0. ASSUME NEW x \in S PROVE m[x] \in Nat
  OBVIOUS
\* Solutions agree where they are defined.
<1>1. ASSUME NEW n \in Nat, NEW k \in Nat, n =< k, NEW g \in Good(n),
             NEW h \in Good(k), NEW x0 \in Below(n)
      PROVE  g[x0] = h[x0]
  <2> SUFFICES ASSUME g[x0] # h[x0] PROVE FALSE
    OBVIOUS
  <2> DEFINE Bad == {x \in Below(n) : g[x] # h[x]}
             N == {m[x] : x \in Bad}
  <2>1. N \in SUBSET Nat /\ N # {}  BY <1>0
  <2>2. PICK l \in N : \A q \in N : l =< q
    <3> HIDE DEF N
    <3> QED BY <2>1, LeastNumber
  <2>3. PICK x \in Bad : m[x] = l  OBVIOUS
  <2>4. x \in Below(n) /\ x \in Below(k)  BY <1>0, <1>1
  <2>5. g[x] = Body(g, x) /\ h[x] = Body(h, x)  BY <2>4
  <2>6. x \notin stop  BY <2>5, <2>3
  <2>7. pred[x] \in S /\ m[pred[x]] < m[x]  BY <2>4, <2>6
  <2>8. pred[x] \in Below(n)  BY <1>0, <2>4, <2>7
  <2>9. g[pred[x]] # h[pred[x]]  BY <2>3, <2>5, <2>6
  <2>10. m[pred[x]] \in N  BY <2>8, <2>9
  <2>11. l =< m[pred[x]] /\ l \in Nat  BY <2>1, <2>2, <2>10
  <2>12. m[pred[x]] \in Nat /\ m[pred[x]] < l  BY <1>0, <2>3, <2>7
  <2> HIDE DEF N, Bad
  <2> QED BY <2>11, <2>12
\* There is one for every bound.
<1>2. ASSUME NEW n \in Nat PROVE Good(n) # {}
  <2> DEFINE N == {k \in Nat : Good(k) # {}}
  <2>1. 0 \in N
    <3>1. Below(0) = {}  BY <1>0
    <3>2. [x \in {} |-> x] \in Good(0)  BY <3>1
    <3> QED BY <3>2
  <2>2. ASSUME NEW k \in N PROVE k + 1 \in N
    <3>1. PICK g : g \in Good(k)  OBVIOUS
    <3> DEFINE h == [x \in Below(k + 1) |-> IF m[x] < k THEN g[x] ELSE Body(g, x)]
    <3>2. ASSUME NEW x \in Below(k + 1), x \notin stop
          PROVE  pred[x] \in Below(k) /\ g[pred[x]] \in T
      <4>1. x \in S /\ m[x] < k + 1  OBVIOUS
      <4>2. pred[x] \in S /\ m[pred[x]] < m[x]  BY <3>2, <4>1
      <4> QED BY <1>0, <3>1, <4>1, <4>2
    <3>3. ASSUME NEW x \in Below(k + 1)
          PROVE  Body(g, x) \in T /\ Body(h, x) = Body(g, x)
      <4>1. CASE x \in stop  BY <4>1
      <4>2. CASE x \notin stop
        <5>1. pred[x] \in Below(k) /\ g[pred[x]] \in T  BY <3>2, <4>2
        <5>2. h[pred[x]] = g[pred[x]]  BY <1>0, <5>1
        <5> QED BY <4>2, <5>1, <5>2
      <4> QED BY <4>1, <4>2
    <3>4. ASSUME NEW x \in Below(k + 1) PROVE h[x] \in T /\ h[x] = Body(h, x)
      <4>1. CASE m[x] < k
        <5>1. x \in Below(k)  BY <4>1
        <5>2. g[x] \in T /\ g[x] = Body(g, x)  BY <3>1, <5>1
        <5> QED BY <3>3, <4>1, <5>2
      <4>2. CASE ~ (m[x] < k)  BY <3>3, <4>2
      <4> QED BY <4>1, <4>2
    <3>5. h \in Good(k + 1)
      <4>1. h \in [Below(k + 1) -> T]
        <5> HIDE DEF Body
        <5> QED BY <3>4
      <4>2. \A x \in Below(k + 1) : h[x] = Body(h, x)  BY <3>4
      <4> HIDE DEF h, Below
      <4> QED BY <4>1, <4>2
    <3>6. k \in Nat  OBVIOUS
    <3> HIDE DEF Good, h
    <3> QED BY <3>5, <3>6
  <2>3. N = Nat
    <3>1. N \in SUBSET Nat  OBVIOUS
    <3> HIDE DEF N
    <3> QED BY <2>1, <2>2, <3>1, AllNumbers
  <2> QED BY <2>3
<1> DEFINE a == [n \in Nat |-> CHOOSE g : g \in Good(n)]
           f == [x \in S |-> a[m[x] + 1][x]]
<1>3. ASSUME NEW n \in Nat PROVE a[n] \in Good(n)
  BY <1>2
<1>4. ASSUME NEW x \in S PROVE f[x] \in T /\ f[x] = Body(f, x)
  <2>1. m[x] + 1 \in Nat /\ x \in Below(m[x] + 1)  BY <1>0
  <2>2. a[m[x] + 1] \in Good(m[x] + 1)  BY <1>3, <2>1
  <2>3. f[x] \in T /\ f[x] = Body(a[m[x] + 1], x)
    <3> HIDE DEF a, Body
    <3> QED BY <2>1, <2>2
  <2>4. CASE x \in stop  BY <2>3, <2>4
  <2>5. CASE x \notin stop
    <3>1. pred[x] \in S /\ m[pred[x]] < m[x]  BY <2>5
    <3>2. m[pred[x]] + 1 \in Nat /\ m[pred[x]] + 1 =< m[x] + 1
          /\ pred[x] \in Below(m[pred[x]] + 1)
      BY <1>0, <3>1
    <3>3. a[m[pred[x]] + 1] \in Good(m[pred[x]] + 1)  BY <1>3, <3>2
    <3>4. a[m[pred[x]] + 1][pred[x]] = a[m[x] + 1][pred[x]]
      <4> HIDE DEF a, Good, Below
      <4> QED BY <1>1, <2>1, <2>2, <3>2, <3>3
    <3>5. f[pred[x]] = a[m[x] + 1][pred[x]]
      <4> HIDE DEF a
      <4> QED BY <3>1, <3>4
    <3> HIDE DEF a, f
    <3> QED BY <2>3, <2>5, <3>5
  <2> QED BY <2>4, <2>5
<1>5. f \in [S -> T]
  <2> HIDE DEF a, Body
  <2> QED BY <1>4
<1>6. f = [x \in S |-> Body(f, x)]
  <2>1. \A x \in S : f[x] = Body(f, x)  BY <1>4
  <2>2. f = [x \in S |-> f[x]]  OBVIOUS
  <2> HIDE DEF f, Body
  <2> QED BY <2>1, <2>2
<1> HIDE DEF f
<1> QED BY <1>5, <1>6

-----------------------------------------------------------------------------
(* Powers, quotients and remainders.                                       *)

\* What the powers of b are.
Powers(f, b) == f = [n \in Nat |-> IF n = 0 THEN 1 ELSE b * f[n - 1]]

\* There are such powers.
LEMMA PowersExist ==
    ASSUME NEW b \in Nat \ {0} PROVE \E f : Powers(f, b)
<1> DEFINE m == [n \in Nat |-> n]
           pred == [n \in Nat |-> n - 1]
           base == [n \in Nat |-> 1]
           step == [nt \in Nat \X (Nat \ {0}) |-> b * nt[2]]
<1>1. \E f \in [Nat -> Nat \ {0}] :
        f = [n \in Nat |-> IF n \in {0} THEN base[n] ELSE step[<<n, f[pred[n]]>>]]
  <2> DEFINE stop == {0}
             T == Nat \ {0}
             S == Nat
  <2>1. m \in [S -> Nat]  OBVIOUS
  <2>2. \A n \in S \ stop : pred[n] \in S /\ m[pred[n]] < m[n]  OBVIOUS
  <2>3. \A n \in S \cap stop : base[n] \in T  OBVIOUS
  <2>4. \A n \in S \ stop, t \in T : step[<<n, t>>] \in T  OBVIOUS
  <2>5. Recursive(S, T, m, stop, pred, base, step)
    <3> HIDE DEF m, pred, base, step, stop, T, S
    <3> QED BY <2>1, <2>2, <2>3, <2>4 DEF Recursive
  <2>6. \E f \in [S -> T] :
          f = [n \in S |-> IF n \in stop THEN base[n] ELSE step[<<n, f[pred[n]]>>]]
    <3> HIDE DEF m, pred, base, step, stop, T, S
    <3> QED BY <2>5, Recursion
  <2> QED BY <2>6
<1>2. PICK f \in [Nat -> Nat \ {0}] :
        f = [n \in Nat |-> IF n \in {0} THEN base[n] ELSE step[<<n, f[pred[n]]>>]]
  BY <1>1
<1>3. \A n \in Nat \ {0} : step[<<n, f[pred[n]]>>] = b * f[n - 1]  BY <1>2
<1>4. f = [n \in Nat |-> IF n = 0 THEN 1 ELSE b * f[n - 1]]
  <2> HIDE DEF step, pred
  <2> QED BY <1>2, <1>3
<1> QED BY <1>4 DEF Powers

\* Each is the base times the one before, and positive.
LEMMA PowerDef ==
    ASSUME NEW b \in Nat \ {0}, NEW p, Powers(p, b)
    PROVE  /\ p \in [Nat -> Nat \ {0}]
           /\ p[0] = 1
           /\ \A n \in Nat : p[n + 1] = b * p[n]
<1>5. p = [n \in Nat |-> IF n = 0 THEN 1 ELSE b * p[n - 1]]
  BY DEF Powers
<1>6. ASSUME NEW n \in Nat PROVE p[n] \in Nat \ {0}
  <2> DEFINE N == {k \in Nat : p[k] \in Nat \ {0}}
  <2>1. 0 \in N  BY <1>5
  <2>2. ASSUME NEW k \in N PROVE k + 1 \in N
    <3>1. p[k + 1] = b * p[k]  BY <1>5
    <3> QED BY <3>1
  <2>3. N = Nat
    <3>1. N \in SUBSET Nat  OBVIOUS
    <3> HIDE DEF N
    <3> QED BY <2>1, <2>2, <3>1, AllNumbers
  <2> QED BY <2>3
<1>7. p[0] = 1 /\ \A n \in Nat : p[n + 1] = b * p[n]  BY <1>5
<1> QED BY <1>5, <1>6, <1>7

\* The power of a sum.
LEMMA PowerSum ==
    ASSUME NEW b \in Nat \ {0}, NEW p, Powers(p, b), NEW a \in Nat, NEW c \in Nat
    PROVE  p[a + c] = p[a] * p[c]
<1> DEFINE N == {k \in Nat : p[a + k] = p[a] * p[k]}
<1>1. 0 \in N  BY PowerDef
<1>2. ASSUME NEW k \in N PROVE k + 1 \in N
  <2>1. p[a + k + 1] = b * p[a + k]  BY PowerDef
  <2>2. p[k + 1] = b * p[k]  BY PowerDef
  <2>3. p[a] \in Nat /\ p[k] \in Nat  BY PowerDef
  <2>4. p[a] * (b * p[k]) = b * (p[a] * p[k])  BY <2>3
  <2>5. a + (k + 1) = a + k + 1  OBVIOUS
  <2> QED BY <2>1, <2>2, <2>4, <2>5
<1>3. N = Nat
  <2>1. N \in SUBSET Nat  OBVIOUS
  <2> HIDE DEF N
  <2> QED BY <1>1, <1>2, <2>1, AllNumbers
<1> QED BY <1>3

\* Quotient and remainder.
LEMMA DivMod ==
    ASSUME NEW t \in Nat, NEW d \in Nat \ {0}
    PROVE  /\ t \div d \in Nat
           /\ t % d \in 0 .. d - 1
           /\ t = d * (t \div d) + (t % d)
<1>1. t % d \in 0 .. d - 1  OBVIOUS
<1>2. t \div d \in Int  OBVIOUS
<1>3. t = d * (t \div d) + (t % d)  BY <1>1, <1>2
<1>4. t \div d \in Nat
  <2> DEFINE q == t \div d
             r == t % d
  <2>1. t = d * q + r /\ r < d /\ q \in Int /\ r \in Int  BY <1>1, <1>2, <1>3
  <2> HIDE DEF q, r
  <2>2. CASE q < 0
    <3>1. q =< 0 - 1  BY <2>1, <2>2
    <3>2. d * q =< d * (0 - 1)  BY <2>1, <3>1
    <3> QED BY <2>1, <3>2
  <2>3. CASE q >= 0  BY <2>1, <2>3 DEF q
  <2> QED BY <2>1, <2>2, <2>3
<1> QED BY <1>1, <1>3, <1>4

\* There are no others.
LEMMA DivIs ==
    ASSUME NEW t \in Int, NEW d \in Nat \ {0}, NEW q \in Int, NEW r \in Nat, r < d,
           t = d * q + r
    PROVE  t \div d = q /\ t % d = r
OBVIOUS

\* Shifting by a and then by b.
LEMMA DivDiv ==
    ASSUME NEW t \in Nat, NEW a \in Nat \ {0}, NEW b \in Nat \ {0}
    PROVE  (t \div a) \div b = t \div (a * b)
<1> DEFINE q == t \div a
           r == t % a
           q2 == q \div b
           r2 == q % b
<1>1. q \in Nat /\ r \in 0 .. a - 1 /\ t = a * q + r  BY DivMod
<1>2. q2 \in Nat /\ r2 \in 0 .. b - 1 /\ q = b * q2 + r2  BY <1>1, DivMod
<1> HIDE DEF q, r, q2, r2
<1>3. t = (a * b) * q2 + (a * r2 + r)
  <2>1. a * q = a * (b * q2) + a * r2  BY <1>2
  <2>2. a * (b * q2) = (a * b) * q2  BY <1>2
  <2> QED BY <1>1, <1>2, <2>1, <2>2
<1>4. a * r2 + r \in Nat /\ a * r2 + r < a * b
  <2>1. a * r2 =< a * (b - 1)  BY <1>2
  <2>2. a * (b - 1) = a * b - a  OBVIOUS
  <2>3. a * r2 \in Nat  BY <1>2
  <2> QED BY <1>1, <2>1, <2>2, <2>3
<1>5. a * b \in Nat \ {0}  OBVIOUS
<1>6. t \div (a * b) = q2
  <2> DEFINE d == a * b
             s == a * r2 + r
  <2>1. t = d * q2 + s /\ s \in Nat /\ s < d /\ d \in Nat \ {0}  BY <1>3, <1>4, <1>5
  <2> HIDE DEF d, s
  <2>2. t \div d = q2  BY <2>1, <1>2, DivIs
  <2> QED BY <2>2 DEF d
<1> QED BY <1>6 DEF q, q2

-----------------------------------------------------------------------------
(* Sequences.                                                              *)

\* A sequence is the function from its places to its values.
LEMMA SeqFunction ==
    ASSUME NEW U, NEW s \in Seq(U)
    PROVE  /\ s = [k \in 1 .. Len(s) |-> s[k]]
           /\ \A k \in 1 .. Len(s) : s[k] \in U
           /\ DOMAIN s = 1 .. Len(s)
           /\ Len(s) \in Nat
OBVIOUS

\* And such a function a sequence.
LEMMA FunctionSeq ==
    ASSUME NEW U, NEW n \in Nat, NEW f \in [1 .. n -> U]
    PROVE  f \in Seq(U) /\ Len(f) = n
OBVIOUS

\* Two sequences of the same values are the same.
LEMMA SameSeq ==
    ASSUME NEW U, NEW s \in Seq(U), NEW t \in Seq(U), Len(s) = Len(t),
           \A k \in 1 .. Len(s) : s[k] = t[k]
    PROVE  s = t
<1>1. s = [k \in 1 .. Len(s) |-> s[k]] /\ t = [k \in 1 .. Len(s) |-> t[k]]
  BY SeqFunction
<1> QED BY <1>1

\* Where the values of two sequences joined are.
LEMMA JoinedSeq ==
    ASSUME NEW U, NEW s \in Seq(U), NEW t \in Seq(U)
    PROVE  /\ s \o t \in Seq(U)
           /\ Len(s \o t) = Len(s) + Len(t)
           /\ \A k \in 1 .. Len(s) : (s \o t)[k] = s[k]
           /\ \A k \in 1 .. Len(t) : (s \o t)[Len(s) + k] = t[k]
<1>1. s \o t \in Seq(U)  OBVIOUS
<1>2. Len(s \o t) = Len(s) + Len(t)  OBVIOUS
<1>3. ASSUME NEW k \in 1 .. Len(s) PROVE (s \o t)[k] = s[k]  OBVIOUS
<1>4. ASSUME NEW k \in 1 .. Len(t) PROVE (s \o t)[Len(s) + k] = t[k]  OBVIOUS
<1> QED BY <1>1, <1>2, <1>3, <1>4

\* One value in front.
LEMMA PutInFront ==
    ASSUME NEW U, NEW a \in U, NEW t \in Seq(U)
    PROVE  /\ <<a>> \o t \in Seq(U)
           /\ Len(<<a>> \o t) = 1 + Len(t)
           /\ (<<a>> \o t)[1] = a
           /\ \A z \in 1 .. Len(t) : (<<a>> \o t)[1 + z] = t[z]
<1> DEFINE one == <<a>>
<1>1. one \in Seq(U) /\ Len(one) = 1 /\ one[1] = a /\ 1 \in 1 .. 1  OBVIOUS
<1> HIDE DEF one
<1>2. /\ one \o t \in Seq(U)
      /\ Len(one \o t) = Len(one) + Len(t)
      /\ \A k \in 1 .. Len(one) : (one \o t)[k] = one[k]
      /\ \A k \in 1 .. Len(t) : (one \o t)[Len(one) + k] = t[k]
  BY <1>1, JoinedSeq
<1>3. (one \o t)[1] = a
  <2>1. 1 \in 1 .. Len(one)  BY <1>1
  <2>2. (one \o t)[1] = one[1]  BY <1>2, <2>1
  <2> QED BY <1>1, <2>2
<1>4. \A k \in 1 .. Len(t) : (one \o t)[1 + k] = t[k]  BY <1>1, <1>2
<1> QED BY <1>1, <1>2, <1>3, <1>4 DEF one

-----------------------------------------------------------------------------
(* Sums over finite sets, which FiniteSetsExt chooses element by element.  *)

\* h has the sums of g over the subsets of S, as MapThenFoldSet iterates.
Summing(h, g, S) ==
    h = [s \in SUBSET S |->
            IF s = {} THEN 0
            ELSE g[CHOOSE x \in s : TRUE] + h[s \ {CHOOSE x \in s : TRUE}]]

\* MapThenSumSet over the values of a function.
Total(g, S) == MapThenSumSet(LAMBDA x : g[x], S)

\* Induction over the subsets of a finite set.
LEMMA AllFinite ==
    ASSUME NEW S, IsFiniteSet(S), NEW F, {} \in F,
           \A T \in SUBSET S, x \in S : T \in F /\ x \notin T => T \cup {x} \in F
    PROVE  S \in F
<1> DEFINE N == {n \in Nat : \A T \in SUBSET S : Cardinality(T) = n => T \in F}
<1>0. \A T \in SUBSET S : IsFiniteSet(T) /\ Cardinality(T) \in Nat
  BY FS_Subset, FS_CardinalityType
<1>1. 0 \in N
  <2>1. ASSUME NEW T \in SUBSET S, Cardinality(T) = 0 PROVE T \in F
    <3>1. T = {}  BY <1>0, <2>1, FS_EmptySet
    <3> QED BY <3>1
  <2> QED BY <2>1
<1>2. ASSUME NEW n \in N PROVE n + 1 \in N
  <2>1. ASSUME NEW T \in SUBSET S, Cardinality(T) = n + 1 PROVE T \in F
    <3>1. T # {}  BY <2>1, FS_EmptySet
    <3>2. PICK x \in T : TRUE  BY <3>1
    <3>3. Cardinality(T \ {x}) = n
      <4>1. Cardinality(T \ {x}) = Cardinality(T) - 1
        BY <1>0, <3>2, FS_RemoveElement
      <4> QED BY <2>1, <4>1
    <3>4. T \ {x} \in F  BY <3>3
    <3>5. (T \ {x}) \cup {x} = T  BY <3>2
    <3> QED BY <3>2, <3>4, <3>5
  <2> QED BY <2>1
<1>3. N = Nat
  <2>1. N \in SUBSET Nat  OBVIOUS
  <2> HIDE DEF N
  <2> QED BY <1>1, <1>2, <2>1, AllNumbers
<1> QED BY <1>0, <1>3

\* There is such a sum.
LEMMA SumExists ==
    ASSUME NEW S, IsFiniteSet(S), NEW g \in [S -> Nat]
    PROVE  \E h \in [SUBSET S -> Nat] : Summing(h, g, S)
<1> DEFINE P == SUBSET S
           m == [s \in P |-> Cardinality(s)]
           stop == {{}}
           pred == [s \in P |-> s \ {CHOOSE x \in s : TRUE}]
           base == [s \in P |-> 0]
           step == [z \in P \X Nat |->
                      IF z[1] = {} THEN 0 ELSE g[CHOOSE x \in z[1] : TRUE] + z[2]]
<1>0. \A T \in P : IsFiniteSet(T) /\ Cardinality(T) \in Nat
  BY FS_Subset, FS_CardinalityType
<1>1. \A s \in P : s # {} => (CHOOSE x \in s : TRUE) \in s
  OBVIOUS
<1>2. Recursive(P, Nat, m, stop, pred, base, step)
  <2>1. m \in [P -> Nat]  BY <1>0
  <2>2. ASSUME NEW s \in P \ stop PROVE pred[s] \in P /\ m[pred[s]] < m[s]
    <3>1. PICK x : x = CHOOSE y \in s : TRUE  OBVIOUS
    <3>2. x \in s  BY <3>1, <1>1
    <3>3. Cardinality(s \ {x}) = Cardinality(s) - 1  BY <1>0, <3>2, FS_RemoveElement
    <3> QED BY <1>0, <3>1, <3>3
  <2>3. \A s \in P \cap stop : base[s] \in Nat  OBVIOUS
  <2>4. ASSUME NEW s \in P \ stop, NEW t \in Nat PROVE step[<<s, t>>] \in Nat
    <3>1. (CHOOSE x \in s : TRUE) \in S  BY <1>1
    <3>2. g[CHOOSE x \in s : TRUE] \in Nat  BY <3>1
    <3>3. step[<<s, t>>] = g[CHOOSE x \in s : TRUE] + t  OBVIOUS
    <3> QED BY <3>2, <3>3
  <2> HIDE DEF P, m, pred, base, step, stop
  <2> QED BY <2>1, <2>2, <2>3, <2>4 DEF Recursive
<1>3. \E f \in [P -> Nat] :
        f = [s \in P |-> IF s \in stop THEN base[s] ELSE step[<<s, f[pred[s]]>>]]
  <2> HIDE DEF P, m, pred, base, step, stop
  <2> QED BY <1>2, Recursion
<1>4. PICK f \in [P -> Nat] :
        f = [s \in P |-> IF s \in stop THEN base[s] ELSE step[<<s, f[pred[s]]>>]]
  BY <1>3
<1>5. ASSUME NEW s \in P
      PROVE  f[s] = IF s = {} THEN 0
                    ELSE g[CHOOSE x \in s : TRUE] + f[s \ {CHOOSE x \in s : TRUE}]
  <2>1. f[s] = IF s \in stop THEN base[s] ELSE step[<<s, f[pred[s]]>>]
    <3> HIDE DEF P, stop, base, step, pred
    <3> QED BY <1>4
  <2>2. pred[s] = s \ {CHOOSE x \in s : TRUE} /\ pred[s] \in P  OBVIOUS
  <2>3. f[pred[s]] \in Nat
    <3> HIDE DEF P, pred
    <3> QED BY <1>4, <2>2
  <2>4. \A t \in Nat : step[<<s, t>>]
                         = IF s = {} THEN 0 ELSE g[CHOOSE x \in s : TRUE] + t
    OBVIOUS
  <2>5. step[<<s, f[pred[s]]>>]
          = IF s = {} THEN 0 ELSE g[CHOOSE x \in s : TRUE] + f[pred[s]]
    <3> HIDE DEF P, pred, step
    <3> QED BY <2>3, <2>4
  <2>6. base[s] = 0 /\ (s \in stop <=> s = {})  OBVIOUS
  <2> HIDE DEF P, pred, base, step, stop
  <2> QED BY <2>1, <2>2, <2>5, <2>6
<1>6. Summing(f, g, S)
  <2>1. f = [s \in P |-> f[s]]
    <3> HIDE DEF P
    <3> QED BY <1>4
  <2> QED BY <1>5, <2>1 DEF Summing
<1> QED BY <1>6

\* A sum can be taken apart at any element.
Apart(h, g, S) ==
    /\ h[{}] = 0
    /\ \A T \in SUBSET S : h[T] \in Nat
    /\ \A T \in SUBSET S : \A x \in T : h[T] = g[x] + h[T \ {x}]

\* However the elements are chosen, any such sum can.
LEMMA SumApart ==
    ASSUME NEW S, IsFiniteSet(S), NEW g \in [S -> Nat], NEW h, Summing(h, g, S)
    PROVE  Apart(h, g, S)
<1> DEFINE Good(T) == \A x \in T : h[T] = g[x] + h[T \ {x}]
           N == {n \in Nat : \A T \in SUBSET S : Cardinality(T) = n => Good(T)}
<1>0. \A T \in SUBSET S : IsFiniteSet(T) /\ Cardinality(T) \in Nat
  BY FS_Subset, FS_CardinalityType
<1>1. h[{}] = 0  BY DEF Summing
<1>2. ASSUME NEW T \in SUBSET S, T # {}
      PROVE  \E x \in T : h[T] = g[x] + h[T \ {x}]
  BY <1>2 DEF Summing
<1>3. ASSUME NEW T \in SUBSET S PROVE h[T] \in Nat
  <2> DEFINE K == {k \in Nat : \A Z \in SUBSET S : Cardinality(Z) = k => h[Z] \in Nat}
  <2>1. 0 \in K  BY <1>0, <1>1, FS_EmptySet
  <2>2. ASSUME NEW k \in K PROVE k + 1 \in K
    <3>1. ASSUME NEW Z \in SUBSET S, Cardinality(Z) = k + 1 PROVE h[Z] \in Nat
      <4>1. Z # {}  BY <3>1, FS_EmptySet
      <4>2. PICK c \in Z : h[Z] = g[c] + h[Z \ {c}]  BY <1>2, <4>1
      <4>3. Cardinality(Z \ {c}) = Cardinality(Z) - 1  BY <1>0, FS_RemoveElement
      <4>4. h[Z \ {c}] \in Nat  BY <3>1, <4>3
      <4> QED BY <4>2, <4>4
    <3> QED BY <3>1
  <2>3. K = Nat
    <3>1. K \in SUBSET Nat  OBVIOUS
    <3> HIDE DEF K
    <3> QED BY <2>1, <2>2, <3>1, AllNumbers
  <2> QED BY <1>0, <2>3
<1>4. 0 \in N
  <2>1. ASSUME NEW T \in SUBSET S, Cardinality(T) = 0 PROVE Good(T)
    <3>1. T = {}  BY <1>0, <2>1, FS_EmptySet
    <3> QED BY <3>1, <1>1
  <2> QED BY <2>1
<1>5. ASSUME NEW n \in N PROVE n + 1 \in N
  <2>1. ASSUME NEW T \in SUBSET S, Cardinality(T) = n + 1 PROVE Good(T)
    <3>1. T # {}
      <4>1. n \in Nat  OBVIOUS
      <4> HIDE DEF N, Good
      <4> QED BY <2>1, <4>1, FS_EmptySet
    <3>2. PICK c \in T : h[T] = g[c] + h[T \ {c}]
      <4> HIDE DEF Good, N
      <4> QED BY <1>2, <3>1
    <3>3. ASSUME NEW x \in T PROVE Good(T \ {x})
      <4>1. Cardinality(T \ {x}) = Cardinality(T) - 1  BY <1>0, FS_RemoveElement
      <4>2. Cardinality(T \ {x}) = n /\ T \ {x} \in SUBSET S  BY <2>1, <4>1
      <4> HIDE DEF Good
      <4> QED BY <4>2
    <3>4. ASSUME NEW x \in T PROVE h[T] = g[x] + h[T \ {x}]
      <4> HIDE DEF N
      <4>1. CASE x = c  BY <3>2, <4>1
      <4>2. CASE x # c
        <5>1. h[T \ {c}] = g[x] + h[(T \ {c}) \ {x}]  BY <3>3, <4>2
        <5>2. h[T \ {x}] = g[c] + h[(T \ {x}) \ {c}]  BY <3>3, <4>2
        <5>3. (T \ {x}) \ {c} = (T \ {c}) \ {x}  OBVIOUS
        <5>4. PICK r : r = h[(T \ {c}) \ {x}]  OBVIOUS
        <5>5. r \in Nat  BY <5>4, <1>3
        <5>6. g[x] \in Nat /\ g[c] \in Nat  OBVIOUS
        <5>7. h[T] = g[c] + (g[x] + r)  BY <3>2, <5>1, <5>4
        <5>8. h[T \ {x}] = g[c] + r  BY <5>2, <5>3, <5>4
        <5>9. g[c] + (g[x] + r) = g[x] + (g[c] + r)  BY <5>5, <5>6
        <5> QED BY <5>7, <5>8, <5>9
      <4> QED BY <4>1, <4>2
    <3> QED BY <3>4
  <2> QED BY <2>1
<1>6. N = Nat
  <2>1. N \in SUBSET Nat  OBVIOUS
  <2> HIDE DEF N
  <2> QED BY <1>4, <1>5, <2>1, AllNumbers
<1> QED BY <1>0, <1>1, <1>6, <1>3 DEF Apart

\* And does not depend on what else could be summed.
LEMMA SumsAgree ==
    ASSUME NEW S, IsFiniteSet(S), NEW g \in [S -> Nat], NEW h, Summing(h, g, S),
           NEW Z, IsFiniteSet(Z), NEW k \in [Z -> Nat], NEW l, Summing(l, k, Z),
           S \subseteq Z, \A x \in S : g[x] = k[x]
    PROVE  h[S] = l[S]
<1> DEFINE F == {T \in SUBSET S : h[T] = l[T]}
<1>1. {} \in F  BY SumApart DEF Apart
<1>2. ASSUME NEW T \in SUBSET S, NEW x \in S, T \in F, x \notin T
      PROVE  T \cup {x} \in F
  <2>1. (T \cup {x}) \ {x} = T /\ x \in T \cup {x}
        /\ T \cup {x} \in SUBSET S /\ T \cup {x} \in SUBSET Z
    BY <1>2
  <2>2. h[T \cup {x}] = g[x] + h[T]
    <3>1. Apart(h, g, S)  BY SumApart
    <3> QED BY <2>1, <3>1 DEF Apart
  <2>3. l[T \cup {x}] = k[x] + l[T]
    <3>1. Apart(l, k, Z)  BY SumApart
    <3> QED BY <2>1, <3>1 DEF Apart
  <2> QED BY <1>2, <2>1, <2>2, <2>3
<1>3. S \in F
  <2> HIDE DEF F
  <2> QED BY <1>1, <1>2, AllFinite
<1> QED BY <1>3

\* A total is such a sum.
LEMMA TotalSums ==
    ASSUME NEW S, IsFiniteSet(S), NEW g \in [S -> Nat]
    PROVE  \E h : Summing(h, g, S) /\ Total(g, S) = h[S]
<1>1. \E h : Summing(h, g, S)  BY SumExists
<1>2. PICK h : h = CHOOSE f : Summing(f, g, S)  OBVIOUS
<1>3. Summing(h, g, S)  BY <1>1, <1>2
<1>4. Total(g, S) = h[S]
  BY <1>2 DEF Total, MapThenSumSet, MapThenFoldSet, Summing
<1> QED BY <1>3, <1>4

\* What a total consists of.
LEMMA TotalApart ==
    ASSUME NEW S, IsFiniteSet(S), NEW g \in [S -> Nat]
    PROVE  /\ Total(g, S) \in Nat
           /\ S = {} => Total(g, S) = 0
           /\ \A x \in S : \A k \in [S \ {x} -> Nat] :
                (\A y \in S \ {x} : k[y] = g[y])
                => Total(g, S) = g[x] + Total(k, S \ {x})
<1>1. PICK h : Summing(h, g, S) /\ Total(g, S) = h[S]  BY TotalSums
<1>2. Total(g, S) \in Nat  BY <1>1, SumApart DEF Apart
<1>3. S = {} => Total(g, S) = 0  BY <1>1, SumApart DEF Apart
<1>4. ASSUME NEW x \in S, NEW k \in [S \ {x} -> Nat], \A y \in S \ {x} : k[y] = g[y]
      PROVE  Total(g, S) = g[x] + Total(k, S \ {x})
  <2> DEFINE R == S \ {x}
  <2>1. IsFiniteSet(R) /\ R \subseteq S  BY FS_Subset
  <2>2. k \in [R -> Nat] /\ \A y \in R : k[y] = g[y]  BY <1>4
  <2>3. h[S] = g[x] + h[R]
    <3>1. Apart(h, g, S)  BY <1>1, SumApart
    <3> QED BY <3>1 DEF Apart
  <2> HIDE DEF R
  <2>4. PICK l : Summing(l, k, R) /\ Total(k, R) = l[R]  BY <2>1, <2>2, TotalSums
  <2>5. l[R] = h[R]  BY <1>1, <2>1, <2>2, <2>4, SumsAgree
  <2> QED BY <1>1, <2>3, <2>4, <2>5 DEF R
<1> QED BY <1>2, <1>3, <1>4

\* There is no other.
LEMMA TotalSame ==
    ASSUME NEW S, IsFiniteSet(S), NEW g \in [S -> Nat], NEW h, Summing(h, g, S)
    PROVE  h[S] = Total(g, S)
<1>1. PICK l : Summing(l, g, S) /\ Total(g, S) = l[S]  BY TotalSums
<1>2. h[S] = l[S]  BY <1>1, SumsAgree
<1> QED BY <1>1, <1>2

\* A total of which something is not nothing.
LEMMA TotalPositive ==
    ASSUME NEW S, IsFiniteSet(S), S # {}, NEW g \in [S -> Nat],
           \A x \in S : g[x] # 0
    PROVE  Total(g, S) \in Nat \ {0}
<1>1. PICK x \in S : TRUE  OBVIOUS
<1> DEFINE R == S \ {x}
           k == [y \in R |-> g[y]]
<1>2. k \in [R -> Nat] /\ IsFiniteSet(R)  BY FS_Subset
<1>3. Total(g, S) = g[x] + Total(k, R)  BY <1>2, TotalApart
<1>4. Total(k, R) \in Nat
  <2> HIDE DEF R, k
  <2> QED BY <1>2, TotalApart
<1>5. g[x] \in Nat \ {0}  OBVIOUS
<1> HIDE DEF R, k
<1> QED BY <1>3, <1>4, <1>5

=============================================================================
