--------------------------- MODULE SearchDBProofs ---------------------------
(***************************************************************************)
(* Proofs about SearchDB, for any order of a tree, any callers and any keys*)
(* less than half the width of a key apart, while no removal leaves a leaf *)
(* too empty: records inserted are found, the chain of leaves lists them,  *)
(* the nodes lead to the chain, parents are named, blocks are counted and  *)
(* filled, variables have their types and range queries return what is     *)
(* stored.                                                                 *)
(*                                                                         *)
(* Every block is given an interval of keys.  Leaves are shown to hold the *)
(* stored records of their intervals and to be chained in the order of     *)
(* these, and nodes to divide theirs among their children; an insertion on *)
(* its way up leaves one block that no node leads to yet (Pending).  First *)
(* come the searches in one block, then changes of one leaf and one node,  *)
(* then of the tree; after the invariant of the tree, what follows for its *)
(* levels and the chain, a second invariant of how many and how full blocks*)
(* are, and range queries.                                                 *)
(***************************************************************************)
EXTENDS SearchDB, Induction

-----------------------------------------------------------------------------
(* Comparing keys.                                                         *)

\* keycmp is an order for keys less than half the width apart.
KeysNear == \A a, b \in Keys : a - b < KeyMod \div 2

\* The keys are numbers between the two ends.
LEMMA KeyBounds ==
    /\ KeyMod \in Nat
    /\ \A k \in Keys : k \in Nat /\ 0 < k /\ k < KeyMod
BY TreeAssumption

\* It then is their difference.
LEMMA KeycmpIs ==
    ASSUME KeysNear, NEW a \in Keys, NEW b \in Keys
    PROVE  keycmp(a, b) = a - b
<1>1. PICK m \in Nat : KeyMod = 2 * m /\ KeyMod \div 2 = m
  <2>1. KeyMod \in Nat /\ KeyMod % 2 = 0  BY TreeAssumption
  <2> QED BY <2>1
<1>2. a \in Nat /\ b \in Nat  BY KeyBounds
<1>3. a - b < m /\ b - a < m  BY <1>1 DEF KeysNear
<1>4. PICK r \in Nat : r = a - b + m /\ r < KeyMod  BY <1>1, <1>2, <1>3
<1>5. r % KeyMod = r
  <2>1. KeyMod \in Nat \ {0}  BY <1>4, KeyBounds
  <2>2. r = KeyMod * 0 + r  BY <2>1
  <2> QED BY <1>4, <2>1, <2>2, DivIs
<1> QED BY <1>1, <1>2, <1>4, <1>5 DEF keycmp

-----------------------------------------------------------------------------
(* Searching a sorted sequence.                                            *)

\* The ranges a bisection of n entries may be left with, as first and length.
Ranges(n) == {q \in (0 .. n) \X (0 .. n) : q[1] + q[2] =< n}

\* What a bisection does if the first c entries are those to be passed.
Bisects(g, n, c) ==
    \A r \in Ranges(n) :
        g[r] = IF r[2] = 0 THEN r[1]
               ELSE IF r[1] + (r[2] \div 2) + 1 =< c
               THEN g[<<r[1] + (r[2] \div 2) + 1, r[2] - (r[2] \div 2) - 1>>]
               ELSE g[<<r[1], r[2] \div 2>>]

\* Half of a length, and what is behind the middle.
LEMMA Halves ==
    ASSUME NEW n \in Nat, NEW r \in Ranges(n), r[2] # 0
    PROVE  /\ <<r[1] + (r[2] \div 2) + 1, r[2] - (r[2] \div 2) - 1>> \in Ranges(n)
           /\ <<r[1], r[2] \div 2>> \in Ranges(n)
           /\ r[2] - (r[2] \div 2) - 1 < r[2]
           /\ r[2] \div 2 < r[2]
<1>1. PICK a \in 0 .. n, b \in 0 .. n : r = <<a, b>> /\ a + b =< n /\ b # 0
  BY DEF Ranges
<1>2. PICK h \in Nat : h = b \div 2 /\ h < b  BY <1>1
<1>3. <<a + h + 1, b - h - 1>> \in Ranges(n) /\ <<a, h>> \in Ranges(n)
  BY <1>1, <1>2 DEF Ranges
<1> QED BY <1>1, <1>2, <1>3

\* It ends behind the entries passed.
LEMMA BisectFinds ==
    ASSUME NEW n \in Nat, NEW c \in 0 .. n, NEW g, Bisects(g, n, c)
    PROVE  g[<<0, n>>] = c
<1> DEFINE Right(r) == r[1] =< c /\ c =< r[1] + r[2] => g[r] = c
           N == {b \in Nat : \A r \in Ranges(n) : r[2] =< b => Right(r)}
<1>1. N \in SUBSET Nat  OBVIOUS
<1>2. 0 \in N
  <2> SUFFICES ASSUME NEW r \in Ranges(n), r[2] = 0 PROVE Right(r)
    BY DEF Ranges
  <2>1. g[r] = r[1]  BY DEF Bisects
  <2> QED BY <2>1 DEF Ranges
<1>3. ASSUME NEW b \in N PROVE b + 1 \in N
  <2> SUFFICES ASSUME NEW r \in Ranges(n), r[2] =< b + 1 PROVE Right(r)
    OBVIOUS
  <2>1. CASE r[2] = 0  BY <1>2, <2>1
  <2>2. CASE r[2] # 0
    <3>1. PICK h \in Nat : h = r[2] \div 2 /\ h < r[2]  BY <2>2 DEF Ranges
    <3> DEFINE x == <<r[1] + h + 1, r[2] - h - 1>>
               y == <<r[1], h>>
    <3>2. /\ x \in Ranges(n) /\ y \in Ranges(n)
          /\ x[2] =< b /\ y[2] =< b
      BY <2>2, <3>1, Halves DEF Ranges
    <3>3. Right(x) /\ Right(y)  BY <3>2
    <3>4. g[r] = IF r[1] + h + 1 =< c THEN g[x] ELSE g[y]
      BY <2>2, <3>1 DEF Bisects
    <3>5. x[1] = r[1] + h + 1 /\ x[2] = r[2] - h - 1 /\ y[1] = r[1] /\ y[2] = h
      OBVIOUS
    <3> HIDE DEF x, y
    <3> QED BY <3>1, <3>3, <3>4, <3>5 DEF Ranges
  <2> QED BY <2>1, <2>2
<1>4. n \in N
  <2> HIDE DEF N
  <2> QED BY <1>1, <1>2, <1>3, AllNumbers
<1>5. <<0, n>> \in Ranges(n)  BY DEF Ranges
<1> QED BY <1>4, <1>5

\* There is such a bisection.
LEMMA BisectExists ==
    ASSUME NEW n \in Nat, NEW c \in 0 .. n
    PROVE  \E g : /\ Bisects(g, n, c)
                  /\ g = [r \in Ranges(n) |-> g[r]]
<1> DEFINE S == Ranges(n)
           T == Nat
           m == [r \in S |-> r[2]]
           stop == {r \in S : r[2] = 0}
           pred == [r \in S |->
                      IF r[1] + (r[2] \div 2) + 1 =< c
                      THEN <<r[1] + (r[2] \div 2) + 1, r[2] - (r[2] \div 2) - 1>>
                      ELSE <<r[1], r[2] \div 2>>]
           base == [r \in S |-> r[1]]
           step == [z \in S \X T |-> z[2]]
<1>1. m \in [S -> Nat]  BY DEF Ranges
<1>2. \A r \in S \ stop : pred[r] \in S /\ m[pred[r]] < m[r]
  <2> SUFFICES ASSUME NEW r \in S, r[2] # 0
               PROVE  pred[r] \in S /\ m[pred[r]] < m[r]
    OBVIOUS
  <2> DEFINE x == <<r[1] + (r[2] \div 2) + 1, r[2] - (r[2] \div 2) - 1>>
             y == <<r[1], r[2] \div 2>>
  <2>1. x \in S /\ y \in S /\ x[2] < r[2] /\ y[2] < r[2]  BY Halves
  <2>2. pred[r] = x \/ pred[r] = y  OBVIOUS
  <2> HIDE DEF x, y, pred
  <2> QED BY <2>1, <2>2
<1>3. \A r \in S \cap stop : base[r] \in T  BY DEF Ranges
<1>4. \A r \in S \ stop, t \in T : step[<<r, t>>] = t /\ step[<<r, t>>] \in T
  OBVIOUS
<1>5. Recursive(S, T, m, stop, pred, base, step)
  <2> HIDE DEF m, pred, step, base, stop, T, S
  <2> QED BY <1>1, <1>2, <1>3, <1>4 DEF Recursive
<1>6. PICK g \in [S -> T] :
        g = [r \in S |-> IF r \in stop THEN base[r] ELSE step[<<r, g[pred[r]]>>]]
  <2> HIDE DEF m, pred, step, base, stop, T, S
  <2> QED BY <1>5, Recursion
<1>7. ASSUME NEW r \in S
      PROVE  g[r] = IF r[2] = 0 THEN r[1] ELSE g[pred[r]]
  <2>1. CASE r \in stop
    <3>1. g[r] = base[r]
      <4> HIDE DEF m, pred, step, base, stop, T, S
      <4> QED BY <1>6, <2>1
    <3> QED BY <2>1, <3>1
  <2>2. CASE r \notin stop
    <3>1. g[r] = step[<<r, g[pred[r]]>>]
      <4> HIDE DEF m, pred, step, base, stop, T, S
      <4> QED BY <1>6, <2>2
    <3>2. pred[r] \in S /\ g[pred[r]] \in T
      <4> HIDE DEF m, pred, step, base, stop, T, S
      <4> QED BY <1>2, <1>6, <2>2
    <3>3. r[2] # 0  BY <2>2
    <3>4. g[r] = g[pred[r]]
      <4> HIDE DEF m, pred, step, base, stop, T, S
      <4> QED BY <1>4, <2>2, <3>1, <3>2
    <3> QED BY <3>3, <3>4
  <2> QED BY <2>1, <2>2
<1>8. Bisects(g, n, c)
  <2> HIDE DEF m, step, base, stop, T
  <2> QED BY <1>7 DEF Bisects
<1>9. g = [r \in S |-> g[r]]  BY <1>6
<1> HIDE DEF m, pred, step, base, stop, T
<1> QED BY <1>8, <1>9

\* In ascending order, none twice.
Ascends(s) == \A i, j \in 1 .. Len(s) : i < j => s[i] < s[j]

\* A bound behind which all is greater than, or at least, a key.
LEMMA BoundExists ==
    ASSUME NEW s \in Seq(Int), Ascends(s), NEW k \in Int
    PROVE  \E c \in 0 .. Len(s) : \A i \in 1 .. Len(s) : s[i] < k <=> i =< c
<1> DEFINE n == Len(s)
           N == {i \in 1 .. n : ~ s[i] < k} \cup {n + 1}
<1>1. n \in Nat /\ N \in SUBSET Nat /\ N # {}  OBVIOUS
<1>2. PICK i \in N : \A j \in N : i =< j
  <2> HIDE DEF N
  <2> QED BY <1>1, LeastNumber
<1>3. i \in 1 .. n + 1 /\ i - 1 \in 0 .. n  BY <1>1, <1>2
<1>4. ASSUME NEW j \in 1 .. n PROVE s[j] < k <=> j =< i - 1
  <2>1. CASE j =< i - 1  BY <1>2, <1>3, <2>1
  <2>2. CASE j >= i
    <3>1. i \in 1 .. n /\ ~ s[i] < k  BY <1>1, <1>2, <1>3, <2>2
    <3>2. s[i] =< s[j]  BY <2>2, <3>1 DEF Ascends
    <3>3. s[i] \in Int /\ s[j] \in Int  BY <3>1
    <3> QED BY <2>2, <3>1, <3>2, <3>3
  <2> QED BY <1>3, <2>1, <2>2
<1> QED BY <1>3, <1>4

\* How many entries of a sorted sequence are below a key.
IsLower(c, s, k) ==
    c \in 0 .. Len(s) /\ \A i \in 1 .. Len(s) : s[i] < k <=> i =< c

\* How many are not above it.
IsUpper(c, s, k) ==
    c \in 0 .. Len(s) /\ \A i \in 1 .. Len(s) : s[i] =< k <=> i =< c

\* Keys are numbers in a sequence as well.
LEMMA KeySeq == ASSUME NEW s \in Seq(Keys) PROVE s \in Seq(Int)
<1>1. \A i \in 1 .. Len(s) : s[i] \in Int  BY KeyBounds
<1>2. s = [i \in 1 .. Len(s) |-> s[i]] /\ Len(s) \in Nat  BY SeqFunction
<1>3. [i \in 1 .. Len(s) |-> s[i]] \in [1 .. Len(s) -> Int]  BY <1>1
<1> QED BY <1>2, <1>3, FunctionSeq

\* What is not above a key is below the next one.
LEMMA UpperExists ==
    ASSUME NEW s \in Seq(Int), Ascends(s), NEW k \in Int
    PROVE  \E c \in 0 .. Len(s) : \A i \in 1 .. Len(s) : s[i] =< k <=> i =< c
<1>1. PICK q \in Int : q = k + 1  OBVIOUS
<1>2. PICK c \in 0 .. Len(s) : \A i \in 1 .. Len(s) : s[i] < q <=> i =< c
  BY BoundExists
<1>3. \A i \in 1 .. Len(s) : s[i] \in Int /\ (s[i] < q <=> s[i] =< k)
  BY <1>1
<1> QED BY <1>2, <1>3

\* lower_bound passes what is below the key.
LEMMA LowerIs ==
    ASSUME KeysNear, NEW s \in Seq(Keys), Ascends(s), NEW k \in Keys
    PROVE  IsLower(lower_bound(s, k), s, k)
<1> DEFINE n == Len(s)
           Passed(j) == keycmp(s[j], k) < 0
           P(at) == at = [r \in {q \in (0 .. n) \X (0 .. n) : q[1] + q[2] =< n} |->
                       IF r[2] = 0 THEN r[1]
                       ELSE IF Passed(r[1] + (r[2] \div 2) + 1)
                       THEN at[<<r[1] + (r[2] \div 2) + 1, r[2] - (r[2] \div 2) - 1>>]
                       ELSE at[<<r[1], r[2] \div 2>>]]
<1>1. lower_bound(s, k) = (CHOOSE at : P(at))[<<0, n>>]
  BY DEF lower_bound, Bisect
<1>2. n \in Nat /\ s \in Seq(Int) /\ k \in Int
  BY KeySeq, KeyBounds
<1>3. PICK c \in 0 .. n : \A i \in 1 .. n : s[i] < k <=> i =< c
  BY <1>2, BoundExists
<1>4. ASSUME NEW i \in 1 .. n PROVE Passed(i) <=> i =< c
  <2>1. s[i] \in Keys /\ s[i] \in Int  BY <1>2
  <2>2. keycmp(s[i], k) = s[i] - k  BY <2>1, KeycmpIs
  <2> QED BY <1>2, <1>3, <2>1, <2>2
<1>5. ASSUME NEW r \in Ranges(n), r[2] # 0
      PROVE  r[1] + (r[2] \div 2) + 1 \in 1 .. n
  <2>1. r[2] \div 2 \in Nat /\ r[2] \div 2 < r[2]  BY <1>5 DEF Ranges
  <2> QED BY <1>2, <2>1 DEF Ranges
<1>6. PICK g : Bisects(g, n, c) /\ g = [r \in Ranges(n) |-> g[r]]
  BY <1>2, BisectExists
<1> HIDE DEF Passed, n
<1>7. P(g)
  <2>1. ASSUME NEW r \in Ranges(n)
        PROVE  g[r] = IF r[2] = 0 THEN r[1]
                       ELSE IF Passed(r[1] + (r[2] \div 2) + 1)
                       THEN g[<<r[1] + (r[2] \div 2) + 1, r[2] - (r[2] \div 2) - 1>>]
                       ELSE g[<<r[1], r[2] \div 2>>]
    BY <1>4, <1>5, <1>6 DEF Bisects
  <2> QED BY <1>6, <2>1 DEF Ranges
<1>8. PICK f : f = (CHOOSE at : P(at)) /\ P(f)
  <2> HIDE DEF P
  <2> QED BY <1>7
<1>9. Bisects(f, n, c)
  <2>1. ASSUME NEW r \in Ranges(n)
        PROVE  f[r] = IF r[2] = 0 THEN r[1]
                       ELSE IF Passed(r[1] + (r[2] \div 2) + 1)
                       THEN f[<<r[1] + (r[2] \div 2) + 1, r[2] - (r[2] \div 2) - 1>>]
                       ELSE f[<<r[1], r[2] \div 2>>]
    BY <1>8 DEF Ranges
  <2> HIDE DEF P
  <2> QED BY <1>4, <1>5, <2>1 DEF Bisects
<1>10. f[<<0, n>>] = c  BY <1>2, <1>9, BisectFinds
<1> QED BY <1>1, <1>3, <1>8, <1>10 DEF IsLower, n

\* upper_bound passes what is not above it.
LEMMA UpperIs ==
    ASSUME KeysNear, NEW s \in Seq(Keys), Ascends(s), NEW k \in Keys
    PROVE  IsUpper(upper_bound(s, k), s, k)
<1> DEFINE n == Len(s)
           Passed(j) == keycmp(k, s[j]) >= 0
           P(at) == at = [r \in {q \in (0 .. n) \X (0 .. n) : q[1] + q[2] =< n} |->
                       IF r[2] = 0 THEN r[1]
                       ELSE IF Passed(r[1] + (r[2] \div 2) + 1)
                       THEN at[<<r[1] + (r[2] \div 2) + 1, r[2] - (r[2] \div 2) - 1>>]
                       ELSE at[<<r[1], r[2] \div 2>>]]
<1>1. upper_bound(s, k) = (CHOOSE at : P(at))[<<0, n>>]
  BY DEF upper_bound, Bisect
<1>2. n \in Nat /\ s \in Seq(Int) /\ k \in Int
  BY KeySeq, KeyBounds
<1>3. PICK c \in 0 .. n : \A i \in 1 .. n : s[i] =< k <=> i =< c
  BY <1>2, UpperExists
<1>4. ASSUME NEW i \in 1 .. n PROVE Passed(i) <=> i =< c
  <2>1. s[i] \in Keys /\ s[i] \in Int  BY <1>2
  <2>2. keycmp(k, s[i]) = k - s[i]  BY <2>1, KeycmpIs
  <2> QED BY <1>2, <1>3, <2>1, <2>2
<1>5. ASSUME NEW r \in Ranges(n), r[2] # 0
      PROVE  r[1] + (r[2] \div 2) + 1 \in 1 .. n
  <2>1. r[2] \div 2 \in Nat /\ r[2] \div 2 < r[2]  BY <1>5 DEF Ranges
  <2> QED BY <1>2, <2>1 DEF Ranges
<1>6. PICK g : Bisects(g, n, c) /\ g = [r \in Ranges(n) |-> g[r]]
  BY <1>2, BisectExists
<1> HIDE DEF Passed, n
<1>7. P(g)
  <2>1. ASSUME NEW r \in Ranges(n)
        PROVE  g[r] = IF r[2] = 0 THEN r[1]
                       ELSE IF Passed(r[1] + (r[2] \div 2) + 1)
                       THEN g[<<r[1] + (r[2] \div 2) + 1, r[2] - (r[2] \div 2) - 1>>]
                       ELSE g[<<r[1], r[2] \div 2>>]
    BY <1>4, <1>5, <1>6 DEF Bisects
  <2> QED BY <1>6, <2>1 DEF Ranges
<1>8. PICK f : f = (CHOOSE at : P(at)) /\ P(f)
  <2> HIDE DEF P
  <2> QED BY <1>7
<1>9. Bisects(f, n, c)
  <2>1. ASSUME NEW r \in Ranges(n)
        PROVE  f[r] = IF r[2] = 0 THEN r[1]
                       ELSE IF Passed(r[1] + (r[2] \div 2) + 1)
                       THEN f[<<r[1] + (r[2] \div 2) + 1, r[2] - (r[2] \div 2) - 1>>]
                       ELSE f[<<r[1], r[2] \div 2>>]
    BY <1>8 DEF Ranges
  <2> HIDE DEF P
  <2> QED BY <1>4, <1>5, <2>1 DEF Bisects
<1>10. f[<<0, n>>] = c  BY <1>2, <1>9, BisectFinds
<1> QED BY <1>1, <1>3, <1>8, <1>10 DEF IsUpper, n

-----------------------------------------------------------------------------
(* Putting entries in and cutting sequences.                               *)

\* r is s with e put in at place i.
IsInserted(r, s, i, e) ==
    /\ Len(r) = Len(s) + 1
    /\ r[i] = e
    /\ \A j \in 1 .. Len(s) : j < i => r[j] = s[j]
    /\ \A j \in 1 .. Len(s) : i =< j => r[j + 1] = s[j]

\* InsertAt does that.
LEMMA InsertedIs ==
    ASSUME NEW U, NEW s \in Seq(U), NEW e \in U, NEW i \in 1 .. Len(s) + 1
    PROVE  InsertAt(s, i, e) \in Seq(U) /\ IsInserted(InsertAt(s, i, e), s, i, e)
<1>1. PICK a : a = SubSeq(s, 1, i - 1)  OBVIOUS
<1>2. PICK b : b = SubSeq(s, i, Len(s))  OBVIOUS
<1>3. PICK one : one = <<e>>  OBVIOUS
<1>4. a \in Seq(U) /\ Len(a) = i - 1 /\ \A j \in 1 .. i - 1 : a[j] = s[j]
  BY <1>1
<1>5. b \in Seq(U) /\ Len(b) = Len(s) - i + 1
      /\ \A j \in 1 .. Len(s) - i + 1 : b[j] = s[i + j - 1]
  BY <1>2
<1>6. one \in Seq(U) /\ Len(one) = 1 /\ one[1] = e  BY <1>3
<1>7. PICK x : x = a \o one  OBVIOUS
<1>8. /\ x \in Seq(U) /\ Len(x) = i
      /\ \A j \in 1 .. i - 1 : x[j] = s[j]
      /\ x[i] = e
  <2>1. /\ x \in Seq(U) /\ Len(x) = Len(a) + Len(one)
        /\ \A j \in 1 .. Len(a) : x[j] = a[j]
        /\ \A j \in 1 .. Len(one) : x[Len(a) + j] = one[j]
    <3>1. a \in Seq(U) /\ one \in Seq(U)  BY <1>4, <1>6
    <3> QED BY <1>7, <3>1, JoinedSeq
  <2>2. x[Len(a) + 1] = e /\ Len(a) + 1 = i  BY <1>4, <1>6, <2>1
  <2> QED BY <1>4, <1>6, <2>1, <2>2
<1>9. PICK r : r = x \o b  OBVIOUS
<1>10. /\ r \in Seq(U) /\ Len(r) = Len(x) + Len(b)
       /\ \A j \in 1 .. Len(x) : r[j] = x[j]
       /\ \A j \in 1 .. Len(b) : r[Len(x) + j] = b[j]
  BY <1>5, <1>8, <1>9, JoinedSeq
<1>11. Len(r) = Len(s) + 1 /\ r[i] = e /\ \A j \in 1 .. i - 1 : r[j] = s[j]
  BY <1>5, <1>8, <1>10
<1>12. ASSUME NEW j \in 1 .. Len(s), i =< j PROVE r[j + 1] = s[j]
  <2>1. PICK k \in 1 .. Len(b) : i + k = j + 1
    <3>1. j + 1 - i \in 1 .. Len(b) /\ i + (j + 1 - i) = j + 1  BY <1>5, <1>12
    <3> QED BY <3>1
  <2>2. r[Len(x) + k] = b[k] /\ b[k] = s[i + k - 1]  BY <1>5, <1>10, <2>1
  <2>3. Len(x) + k = j + 1 /\ i + k - 1 = j  BY <1>8, <2>1
  <2> QED BY <2>2, <2>3
<1>13. IsInserted(r, s, i, e)  BY <1>11, <1>12 DEF IsInserted
<1>14. InsertAt(s, i, e) = r
  BY <1>1, <1>2, <1>3, <1>7, <1>9 DEF InsertAt
<1> QED BY <1>10, <1>13, <1>14

\* The first n of a sequence, and what is behind them.
LEMMA CutIs ==
    ASSUME NEW U, NEW s \in Seq(U), NEW n \in 0 .. Len(s)
    PROVE  /\ SubSeq(s, 1, n) \in Seq(U)
           /\ Len(SubSeq(s, 1, n)) = n
           /\ \A j \in 1 .. n : SubSeq(s, 1, n)[j] = s[j]
           /\ SubSeq(s, n + 1, Len(s)) \in Seq(U)
           /\ Len(SubSeq(s, n + 1, Len(s))) = Len(s) - n
           /\ \A j \in 1 .. Len(s) - n : SubSeq(s, n + 1, Len(s))[j] = s[n + j]
<1>1. PICK r : r = SubSeq(s, n + 1, Len(s))  OBVIOUS
<1>2. r \in Seq(U) /\ Len(r) = Len(s) - n
      /\ \A j \in 1 .. Len(s) - n : r[j] = s[n + j]
  BY <1>1
<1> QED BY <1>1, <1>2

\* All but the last.
LEMMA FrontIs ==
    ASSUME NEW U, NEW s \in Seq(U), Len(s) # 0
    PROVE  /\ Front(s) \in Seq(U)
           /\ Len(Front(s)) = Len(s) - 1
           /\ \A i \in 1 .. Len(s) - 1 : Front(s)[i] = s[i]
<1>1. PICK n \in 0 .. Len(s) : n = Len(s) - 1
  <2>1. PICK m \in Nat : m = Len(s)  OBVIOUS
  <2>2. m - 1 \in 0 .. m  BY <2>1
  <2> QED BY <2>1, <2>2
<1>2. PICK r : r = SubSeq(s, 1, n)  OBVIOUS
<1>3. r \in Seq(U) /\ Len(r) = n /\ \A i \in 1 .. n : r[i] = s[i]
  BY <1>2, CutIs
<1> QED BY <1>1, <1>2, <1>3 DEF Front

-----------------------------------------------------------------------------
(* Leaves.                                                                 *)

Record == [key : Keys, value : Values]

Leaf == [parent : Nat, next : Nat, prev : Nat, recs : Seq(Record)]

\* The records are in order and in the leaf's interval.
LeafSorted(x, l, h) ==
    /\ \A i, j \in 1 .. Len(x.recs) : i < j => x.recs[i].key < x.recs[j].key
    /\ \A i \in 1 .. Len(x.recs) : l =< x.recs[i].key /\ x.recs[i].key < h

\* A record of the leaf.
Has(x, k, v) == \E i \in 1 .. Len(x.recs) : x.recs[i] = [key |-> k, value |-> v]

\* The keys are a sorted sequence.
LEMMA RecordKeysIs ==
    ASSUME NEW x \in Leaf
    PROVE  /\ RecordKeys(x) \in Seq(Keys)
           /\ Len(RecordKeys(x)) = Len(x.recs)
           /\ \A i \in 1 .. Len(x.recs) :
                RecordKeys(x)[i] = x.recs[i].key /\ x.recs[i].key \in Keys
           /\ \A l, h : LeafSorted(x, l, h) => Ascends(RecordKeys(x))
<1>1. x.recs \in Seq(Record)  BY DEF Leaf
<1>2. PICK n \in Nat : n = Len(x.recs) /\ DOMAIN x.recs = 1 .. n  BY <1>1
<1>3. \A i \in 1 .. n : x.recs[i] \in Record /\ x.recs[i].key \in Keys
  <2>1. \A i \in 1 .. n : x.recs[i] \in Record  BY <1>1, <1>2
  <2>2. \A r \in Record : r.key \in Keys  BY DEF Record
  <2> QED BY <2>1, <2>2
<1>4. PICK f : f = [i \in 1 .. n |-> x.recs[i].key]  OBVIOUS
<1>5. f \in [1 .. n -> Keys]  BY <1>3, <1>4
<1>6. f \in Seq(Keys) /\ Len(f) = n  BY <1>5, FunctionSeq
<1>7. RecordKeys(x) = f  BY <1>2, <1>4 DEF RecordKeys
<1>8. \A i \in 1 .. n : f[i] = x.recs[i].key  BY <1>4
<1>9. ASSUME NEW l, NEW h, LeafSorted(x, l, h) PROVE Ascends(f)
  BY <1>2, <1>6, <1>8, <1>9 DEF LeafSorted, Ascends
<1> QED BY <1>2, <1>3, <1>6, <1>7, <1>8, <1>9

\* A record with the key is where lower_bound points, or nowhere.
LEMMA LowerRecord ==
    ASSUME KeysNear, NEW x \in Leaf, NEW l, NEW h, LeafSorted(x, l, h), NEW k \in Keys,
           NEW i, i = lower_bound(RecordKeys(x), k) + 1
    PROVE  /\ i \in 1 .. Len(x.recs) + 1
           /\ \A j \in 1 .. Len(x.recs) : x.recs[j].key = k => j = i
           /\ \A j \in 1 .. Len(x.recs) : x.recs[j].key < k <=> j < i
<1>1. PICK n \in Nat : n = Len(x.recs)
  <2>1. x.recs \in Seq(Record)  BY DEF Leaf
  <2> QED BY <2>1
<1>2. PICK f : f = RecordKeys(x)  OBVIOUS
<1>3. f \in Seq(Keys) /\ Len(f) = n /\ Ascends(f)
      /\ \A j \in 1 .. n : f[j] = x.recs[j].key /\ x.recs[j].key \in Keys
  BY <1>1, <1>2, RecordKeysIs
<1>4. PICK c : c = lower_bound(f, k)  OBVIOUS
<1>5. c \in 0 .. n /\ \A j \in 1 .. n : f[j] < k <=> j =< c
  BY <1>3, <1>4, LowerIs DEF IsLower
<1>6. i = c + 1  BY <1>2, <1>4
<1>7. ASSUME NEW j \in 1 .. n PROVE x.recs[j].key < k <=> j < i
  BY <1>3, <1>5, <1>6
<1>8. ASSUME NEW j \in 1 .. n, x.recs[j].key = k PROVE j = i
  <2>1. x.recs[j].key \in Int /\ k \in Int  BY <1>3, KeyBounds
  <2>2. ~ j =< c  BY <1>3, <1>5, <1>8, <2>1
  <2>3. CASE j = i  BY <2>3
  <2>4. CASE j > i
    <3>1. i \in 1 .. n /\ ~ i =< c  BY <1>5, <1>6, <2>4
    <3>2. ~ x.recs[i].key < k  BY <1>3, <1>5, <3>1
    <3>3. x.recs[i].key < x.recs[j].key  BY <1>1, <2>4, <3>1 DEF LeafSorted
    <3>4. x.recs[i].key \in Int  BY <1>3, <3>1, KeyBounds
    <3> QED BY <1>8, <2>1, <3>2, <3>3, <3>4
  <2> QED BY <1>5, <1>6, <2>2, <2>3, <2>4
<1> QED BY <1>1, <1>5, <1>6, <1>7, <1>8

\* A record is its key and its value.
LEMMA RecordIs ==
    ASSUME NEW x \in Leaf, NEW i \in 1 .. Len(x.recs)
    PROVE  /\ x.recs[i] = [key |-> x.recs[i].key, value |-> x.recs[i].value]
           /\ x.recs[i].key \in Keys /\ x.recs[i].value \in Values
           /\ x.recs[i] \in Record
           /\ \A k, v : x.recs[i] = [key |-> k, value |-> v]
                          <=> x.recs[i].key = k /\ x.recs[i].value = v
<1>1. x.recs \in Seq(Record)  BY DEF Leaf
<1>2. x.recs[i] \in Record  BY <1>1
<1> QED BY <1>2 DEF Record

\* binary_search finds a record with the key.
LEMMA HoldsIs ==
    ASSUME KeysNear, NEW x \in Leaf, NEW l, NEW h, LeafSorted(x, l, h), NEW k \in Keys
    PROVE  Holds(x, k) <=> \E v : Has(x, k, v)
<1>1. PICK i : i = lower_bound(RecordKeys(x), k) + 1  OBVIOUS
<1>2. /\ i \in 1 .. Len(x.recs) + 1
      /\ \A j \in 1 .. Len(x.recs) : x.recs[j].key = k => j = i
      /\ \A j \in 1 .. Len(x.recs) : x.recs[j].key < k <=> j < i
  BY <1>1, LowerRecord
<1>3. DOMAIN x.recs = 1 .. Len(x.recs) /\ Len(x.recs) \in Nat
  <2>1. x.recs \in Seq(Record)  BY DEF Leaf
  <2> QED BY <2>1
<1>4. Holds(x, k) <=> i \in 1 .. Len(x.recs) /\ keycmp(k, x.recs[i].key) >= 0
  BY <1>1, <1>3 DEF Holds
<1>5. ASSUME Holds(x, k) PROVE \E v : Has(x, k, v)
  <2>1. i \in 1 .. Len(x.recs) /\ keycmp(k, x.recs[i].key) >= 0  BY <1>4, <1>5
  <2>2. x.recs[i].key \in Keys  BY <2>1, RecordIs
  <2>3. k - x.recs[i].key >= 0  BY <2>1, <2>2, KeycmpIs
  <2>4. ~ x.recs[i].key < k  BY <1>2, <1>3, <2>1
  <2>5. x.recs[i].key = k
    <3>1. x.recs[i].key \in Int /\ k \in Int  BY <2>2, KeyBounds
    <3> QED BY <2>3, <2>4, <3>1
  <2>6. x.recs[i] = [key |-> k, value |-> x.recs[i].value]
    BY <2>1, <2>5, RecordIs
  <2> QED BY <2>1, <2>6 DEF Has
<1>6. ASSUME NEW v, Has(x, k, v) PROVE Holds(x, k)
  <2>1. PICK j \in 1 .. Len(x.recs) : x.recs[j] = [key |-> k, value |-> v]
    BY <1>6 DEF Has
  <2>2. x.recs[j].key = k  BY <2>1
  <2>3. j = i  BY <1>2, <2>1, <2>2
  <2>4. keycmp(k, k) = 0  BY KeycmpIs, KeyBounds
  <2> QED BY <1>4, <2>1, <2>2, <2>3, <2>4
<1> QED BY <1>5, <1>6

\* What search returns of a leaf.
Found(x, k) ==
    LET i == lower_bound(RecordKeys(x), k) + 1
    IN  IF i \in DOMAIN x.recs /\ x.recs[i].key = k
        THEN {x.recs[i].value}
        ELSE {}

\* The value of the record with the key, if there is one.
LEMMA FoundIs ==
    ASSUME KeysNear, NEW x \in Leaf, NEW l, NEW h, LeafSorted(x, l, h), NEW k \in Keys
    PROVE  \A v : v \in Found(x, k) <=> Has(x, k, v)
<1>1. PICK i : i = lower_bound(RecordKeys(x), k) + 1  OBVIOUS
<1>2. \A j \in 1 .. Len(x.recs) : x.recs[j].key = k => j = i
  BY <1>1, LowerRecord
<1>3. DOMAIN x.recs = 1 .. Len(x.recs) /\ Len(x.recs) \in Nat
  <2>1. x.recs \in Seq(Record)  BY DEF Leaf
  <2> QED BY <2>1
<1>4. Found(x, k) = IF i \in 1 .. Len(x.recs) /\ x.recs[i].key = k
                    THEN {x.recs[i].value} ELSE {}
  BY <1>1, <1>3 DEF Found
<1>5. ASSUME NEW v, v \in Found(x, k) PROVE Has(x, k, v)
  <2>1. i \in 1 .. Len(x.recs) /\ x.recs[i].key = k /\ v = x.recs[i].value
    BY <1>4, <1>5
  <2>2. x.recs[i] = [key |-> k, value |-> v]  BY <2>1, RecordIs
  <2> QED BY <2>1, <2>2 DEF Has
<1>6. ASSUME NEW v, Has(x, k, v) PROVE v \in Found(x, k)
  <2>1. PICK j \in 1 .. Len(x.recs) : x.recs[j] = [key |-> k, value |-> v]
    BY <1>6 DEF Has
  <2>2. x.recs[j].key = k /\ x.recs[j].value = v  BY <2>1
  <2>3. j = i  BY <1>2, <2>1, <2>2
  <2> QED BY <1>4, <2>1, <2>2, <2>3
<1> QED BY <1>5, <1>6

\* Where blocks lie among others.
SamePlace(x, y) == x.parent = y.parent /\ x.next = y.next /\ x.prev = y.prev

\* A leaf has no record with the key.
Lacks(x, k) == \A w : ~ Has(x, k, w)

\* Leaf y is x with one record more.
IsWith(y, x, k, v, l, h) ==
    /\ y \in Leaf /\ SamePlace(y, x)
    /\ Len(y.recs) = Len(x.recs) + 1
    /\ LeafSorted(y, l, h)
    /\ \A q, w : Has(y, q, w) <=> Has(x, q, w) \/ (q = k /\ w = v)
    /\ y.recs[1].key = k \/ (Len(x.recs) # 0 /\ y.recs[1] = x.recs[1])

\* That is what insert_record_no_split makes.
LEMMA InsertRecordIs ==
    ASSUME KeysNear, NEW x \in Leaf, NEW l \in Int, NEW h \in Int, LeafSorted(x, l, h),
           NEW k \in Keys, NEW v \in Values, l =< k, k < h, Lacks(x, k),
           NEW y, y = insert_record_no_split(x, k, v)
    PROVE  IsWith(y, x, k, v, l, h)
<1>1. PICK s \in Seq(Record) : s = x.recs  BY DEF Leaf
<1>2. PICK e \in Record : e = [key |-> k, value |-> v] /\ e.key = k
  <2>1. [key |-> k, value |-> v] \in Record  BY DEF Record
  <2> QED BY <2>1
<1>3. PICK n \in Nat : n = Len(s)  OBVIOUS
<1>4. PICK c : c = upper_bound(RecordKeys(x), k)  OBVIOUS
<1>5. c \in 0 .. n /\ \A i \in 1 .. n : s[i].key =< k <=> i =< c
  <2>1. PICK f : f = RecordKeys(x)  OBVIOUS
  <2>2. f \in Seq(Keys) /\ Len(f) = n /\ Ascends(f) /\ \A i \in 1 .. n : f[i] = s[i].key
    BY <1>1, <1>3, <2>1, RecordKeysIs
  <2>3. IsUpper(c, f, k)  BY <1>4, <2>1, <2>2, UpperIs
  <2> QED BY <2>2, <2>3 DEF IsUpper
<1>6. \A i \in 1 .. n : s[i].key \in Int /\ s[i].key # k
  <2> SUFFICES ASSUME NEW i \in 1 .. n PROVE s[i].key \in Int /\ s[i].key # k
    OBVIOUS
  <2>1. s[i].key \in Keys /\ s[i] = [key |-> s[i].key, value |-> s[i].value]
    BY <1>1, <1>3, RecordIs
  <2>2. s[i].key # k  BY <1>1, <1>3, <2>1 DEF Lacks, Has
  <2> QED BY <2>1, <2>2, KeyBounds
<1>7. k \in Int  BY KeyBounds
<1>8. PICK r : r = InsertAt(s, c + 1, e)  OBVIOUS
<1>9. r \in Seq(Record) /\ IsInserted(r, s, c + 1, e)
  <2>1. c + 1 \in 1 .. Len(s) + 1  BY <1>3, <1>5
  <2> QED BY <1>8, <2>1, InsertedIs
<1>10. Len(r) = n + 1 /\ r[c + 1] = e /\ \A i \in 1 .. n : IF i =< c THEN r[i] = s[i] ELSE r[i + 1] = s[i]
  BY <1>3, <1>5, <1>9 DEF IsInserted
<1>11. y.recs = r /\ y \in Leaf /\ SamePlace(y, x)
  BY <1>1, <1>2, <1>4, <1>8, <1>9 DEF insert_record_no_split, Leaf, SamePlace
<1>12. ASSUME NEW i \in 1 .. n + 1
       PROVE  \/ i =< c /\ i \in 1 .. n /\ r[i] = s[i]
              \/ i = c + 1 /\ r[i] = e
              \/ i > c + 1 /\ i - 1 \in 1 .. n /\ ~ i - 1 =< c /\ r[i] = s[i - 1]
  <2>1. CASE i =< c  BY <1>5, <1>10, <2>1
  <2>2. CASE i = c + 1  BY <1>10, <2>2
  <2>3. CASE i > c + 1
    <3>1. PICK j \in 1 .. n : j = i - 1 /\ j + 1 = i /\ ~ j =< c  BY <1>5, <2>3
    <3> QED BY <1>10, <2>3, <3>1
  <2> QED BY <1>5, <2>1, <2>2, <2>3
<1>13. \A i, j \in 1 .. n : i < j => s[i].key < s[j].key
  BY <1>1, <1>3 DEF LeafSorted
<1>14. \A i \in 1 .. n : l =< s[i].key /\ s[i].key < h
  BY <1>1, <1>3 DEF LeafSorted
<1>15. ASSUME NEW i \in 1 .. n + 1
       PROVE  /\ l =< r[i].key /\ r[i].key < h /\ r[i].key \in Int
              /\ i =< c => i \in 1 .. n /\ r[i] = s[i] /\ r[i].key < k
              /\ i = c + 1 => r[i].key = k
              /\ i > c + 1 => i - 1 \in 1 .. n /\ r[i] = s[i - 1] /\ r[i].key > k
  <2>1. CASE i =< c
    <3>1. i \in 1 .. n /\ r[i] = s[i]  BY <1>5, <1>12, <2>1
    <3>2. s[i].key =< k /\ s[i].key \in Int /\ s[i].key # k
          /\ l =< s[i].key /\ s[i].key < h
      BY <1>5, <1>6, <1>14, <2>1, <3>1
    <3>3. PICK a \in Int : a = s[i].key /\ a = r[i].key /\ a < k /\ l =< a /\ a < h
      BY <1>7, <3>1, <3>2
    <3>4. ~ i = c + 1 /\ ~ i > c + 1  BY <1>5, <2>1
    <3> QED BY <3>1, <3>3, <3>4
  <2>2. CASE i = c + 1
    <3>1. r[i].key = k  BY <1>2, <1>10, <2>2
    <3>2. ~ i =< c /\ ~ i > c + 1  BY <1>5, <2>2
    <3> QED BY <1>7, <3>1, <3>2
  <2>3. CASE i > c + 1
    <3>1. i - 1 \in 1 .. n /\ ~ i - 1 =< c /\ r[i] = s[i - 1]  BY <1>5, <1>12, <2>3
    <3> QED BY <1>5, <1>6, <1>7, <1>14, <2>3, <3>1
  <2> QED BY <1>5, <2>1, <2>2, <2>3
<1>16. ASSUME NEW i \in 1 .. n + 1, NEW j \in 1 .. n + 1, i < j
       PROVE  r[i].key < r[j].key
  <2>1. CASE j =< c  BY <1>5, <1>13, <1>15, <1>16, <2>1
  <2>2. CASE i > c + 1
    <3>1. i - 1 \in 1 .. n /\ j - 1 \in 1 .. n /\ i - 1 < j - 1
          /\ r[i] = s[i - 1] /\ r[j] = s[j - 1]
      BY <1>5, <1>15, <1>16, <2>2
    <3> QED BY <1>13, <3>1
  <2>3. CASE i =< c + 1 /\ c + 1 =< j
    <3>1. PICK a \in Int : a = r[i].key /\ (i =< c => a < k) /\ (i = c + 1 => a = k)
      BY <1>15
    <3>2. PICK b \in Int : b = r[j].key /\ (j > c + 1 => b > k) /\ (j = c + 1 => b = k)
      BY <1>15
    <3>3. (i =< c /\ j >= c + 1) \/ (i = c + 1 /\ j > c + 1)  BY <1>5, <1>16, <2>3
    <3>4. a < b  BY <1>5, <1>7, <1>16, <3>1, <3>2, <3>3
    <3> QED BY <3>1, <3>2, <3>4
  <2> QED BY <1>5, <1>16, <2>1, <2>2, <2>3
<1>17. LeafSorted(y, l, h)
  BY <1>10, <1>11, <1>15, <1>16 DEF LeafSorted
<1>18. ASSUME NEW q, NEW w PROVE Has(y, q, w) <=> Has(x, q, w) \/ (q = k /\ w = v)
  <2> DEFINE z == [key |-> q, value |-> w]
  <2>1. ASSUME Has(y, q, w) PROVE Has(x, q, w) \/ (q = k /\ w = v)
    <3>1. PICK i \in 1 .. n + 1 : r[i] = z  BY <1>10, <1>11, <2>1 DEF Has
    <3>2. CASE i = c + 1
      <4>1. z = e  BY <1>10, <3>1, <3>2
      <4> QED BY <1>2, <4>1
    <3>3. CASE i # c + 1
      <4>1. \E j \in 1 .. n : s[j] = z  BY <1>5, <1>12, <3>1, <3>3
      <4> QED BY <1>1, <1>3, <4>1 DEF Has
    <3> QED BY <3>2, <3>3
  <2>2. ASSUME Has(x, q, w) PROVE Has(y, q, w)
    <3>1. PICK i \in 1 .. n : s[i] = z  BY <1>1, <1>3, <2>2 DEF Has
    <3>2. (i \in 1 .. n + 1 /\ r[i] = z) \/ (i + 1 \in 1 .. n + 1 /\ r[i + 1] = z)
      BY <1>10, <3>1
    <3> QED BY <1>10, <1>11, <3>2 DEF Has
  <2>3. ASSUME q = k /\ w = v PROVE Has(y, q, w)
    <3>1. c + 1 \in 1 .. n + 1 /\ r[c + 1] = z  BY <1>2, <1>5, <1>10, <2>3
    <3> QED BY <1>10, <1>11, <3>1 DEF Has
  <2> QED BY <2>1, <2>2, <2>3
<1>19. r[1].key = k \/ (n # 0 /\ r[1] = s[1])
  <2>1. 1 \in 1 .. n + 1  OBVIOUS
  <2> QED BY <1>5, <1>15, <2>1
<1> QED BY <1>1, <1>3, <1>10, <1>11, <1>17, <1>18, <1>19 DEF IsWith

\* The first p records of a leaf, and the others.
IsCutAt(a, b, x, p) ==
    /\ a = [x EXCEPT !.recs = SubSeq(@, 1, p)]
    /\ b = [x EXCEPT !.recs = SubSeq(@, p + 1, Len(@))]

\* Leaf x in two, the p records with keys below t and the others.
IsParted(a, b, x, l, h, p, t) ==
    /\ a \in Leaf /\ SamePlace(a, x) /\ Len(a.recs) = p
    /\ LeafSorted(a, l, t)
    /\ \A q, w : Has(a, q, w) <=> Has(x, q, w) /\ q < t
    /\ b \in Leaf /\ SamePlace(b, x) /\ Len(b.recs) = Len(x.recs) - p
    /\ LeafSorted(b, t, h)
    /\ \A q, w : Has(b, q, w) <=> Has(x, q, w) /\ ~ q < t
    /\ p # Len(x.recs) => b.recs[1] = x.recs[p + 1]

\* A leaf cut in two.
LEMMA CutLeaf ==
    ASSUME NEW x \in Leaf, NEW l \in Int, NEW h \in Int, LeafSorted(x, l, h),
           NEW p \in 0 .. Len(x.recs), NEW t \in Int,
           \A i \in 1 .. Len(x.recs) : x.recs[i].key < t <=> i =< p,
           NEW a, NEW b, IsCutAt(a, b, x, p)
    PROVE  IsParted(a, b, x, l, h, p, t)
<1>1. PICK s \in Seq(Record) : s = x.recs  BY DEF Leaf
<1>2. PICK n \in Nat : n = Len(s)  OBVIOUS
<1>3. PICK y : y = SubSeq(s, 1, p)  OBVIOUS
<1>4. PICK z : z = SubSeq(s, p + 1, n)  OBVIOUS
<1>5. p \in 0 .. n  BY <1>1, <1>2
<1>6. /\ y \in Seq(Record) /\ Len(y) = p /\ \A j \in 1 .. p : y[j] = s[j]
      /\ z \in Seq(Record) /\ Len(z) = n - p /\ \A j \in 1 .. n - p : z[j] = s[p + j]
  BY <1>2, <1>3, <1>4, <1>5, CutIs
<1>7. a \in Leaf /\ SamePlace(a, x) /\ a.recs = y
  BY <1>1, <1>3, <1>6 DEF Leaf, SamePlace, IsCutAt
<1>8. b \in Leaf /\ SamePlace(b, x) /\ b.recs = z
  BY <1>1, <1>2, <1>4, <1>6 DEF Leaf, SamePlace, IsCutAt
<1>9. \A i \in 1 .. n : s[i].key \in Int /\ (s[i].key < t <=> i =< p)
                        /\ l =< s[i].key /\ s[i].key < h
  <2>1. \A i \in 1 .. n : s[i].key \in Int
    <3>1. \A i \in 1 .. n : s[i].key \in Keys  BY <1>1, <1>2, RecordIs
    <3> QED BY <3>1, KeyBounds
  <2> QED BY <1>1, <1>2, <2>1 DEF LeafSorted
<1>10. \A i, j \in 1 .. n : i < j => s[i].key < s[j].key
  BY <1>1, <1>2 DEF LeafSorted
<1>11. LeafSorted(a, l, t)
  <2>1. ASSUME NEW i \in 1 .. p
        PROVE  y[i] = s[i] /\ i \in 1 .. n /\ l =< s[i].key /\ s[i].key < t
    BY <1>5, <1>6, <1>9
  <2>2. ASSUME NEW i \in 1 .. p, NEW j \in 1 .. p, i < j PROVE y[i].key < y[j].key
    BY <1>10, <2>1, <2>2
  <2> QED BY <1>6, <1>7, <2>1, <2>2 DEF LeafSorted
<1>12. LeafSorted(b, t, h)
  <2>1. ASSUME NEW i \in 1 .. n - p
        PROVE  z[i] = s[p + i] /\ p + i \in 1 .. n /\ t =< s[p + i].key /\ s[p + i].key < h
    <3>1. p + i \in 1 .. n /\ ~ p + i =< p  BY <1>5
    <3> QED BY <1>6, <1>9, <3>1
  <2>2. ASSUME NEW i \in 1 .. n - p, NEW j \in 1 .. n - p, i < j
        PROVE  z[i].key < z[j].key
    <3>1. p + i < p + j /\ p + i \in 1 .. n /\ p + j \in 1 .. n  BY <1>5, <2>2
    <3> QED BY <1>10, <2>1, <3>1
  <2> QED BY <1>6, <1>8, <2>1, <2>2 DEF LeafSorted
<1>13. ASSUME NEW q, NEW w PROVE Has(a, q, w) <=> Has(x, q, w) /\ q < t
  <2> DEFINE e == [key |-> q, value |-> w]
  <2>1. Has(a, q, w) <=> \E i \in 1 .. p : s[i] = e  BY <1>6, <1>7 DEF Has
  <2>2. Has(x, q, w) <=> \E i \in 1 .. n : s[i] = e  BY <1>1, <1>2 DEF Has
  <2>3. ASSUME NEW i \in 1 .. n, s[i] = e PROVE q < t <=> i =< p
    <3>1. s[i].key = q  BY <2>3
    <3> QED BY <1>9, <3>1
  <2> HIDE DEF e
  <2> QED BY <1>5, <2>1, <2>2, <2>3
<1>14. ASSUME NEW q, NEW w PROVE Has(b, q, w) <=> Has(x, q, w) /\ ~ q < t
  <2> DEFINE e == [key |-> q, value |-> w]
  <2>1. Has(b, q, w) <=> \E i \in 1 .. n - p : s[p + i] = e
    <3>1. Has(b, q, w) <=> \E i \in 1 .. n - p : z[i] = e  BY <1>6, <1>8 DEF Has
    <3> HIDE DEF e
    <3> QED BY <1>6, <3>1
  <2>2. Has(x, q, w) <=> \E i \in 1 .. n : s[i] = e  BY <1>1, <1>2 DEF Has
  <2>3. ASSUME NEW i \in 1 .. n, s[i] = e PROVE q < t <=> i =< p
    <3>1. s[i].key = q  BY <2>3
    <3> QED BY <1>9, <3>1
  <2> HIDE DEF e
  <2>4. ASSUME Has(b, q, w) PROVE Has(x, q, w) /\ ~ q < t
    <3>1. PICK i \in 1 .. n - p : s[p + i] = e  BY <2>1, <2>4
    <3>2. p + i \in 1 .. n /\ ~ p + i =< p  BY <1>5
    <3> QED BY <2>2, <2>3, <3>1, <3>2
  <2>5. ASSUME Has(x, q, w), ~ q < t PROVE Has(b, q, w)
    <3>1. PICK i \in 1 .. n : s[i] = e /\ ~ i =< p  BY <2>2, <2>3, <2>5
    <3>2. PICK j \in 1 .. n - p : p + j = i
      <4>1. i - p \in 1 .. n - p /\ p + (i - p) = i  BY <1>5, <3>1
      <4> QED BY <4>1
    <3> QED BY <2>1, <3>1, <3>2
  <2> QED BY <2>4, <2>5
<1>15. p # n => z[1] = s[p + 1]
  <2> SUFFICES ASSUME p # n PROVE z[1] = s[p + 1]
    OBVIOUS
  <2>1. 1 \in 1 .. n - p  BY <1>5
  <2> QED BY <1>6, <2>1
<1> QED
  BY <1>1, <1>2, <1>6, <1>7, <1>8, <1>11, <1>12, <1>13, <1>14, <1>15 DEF IsParted

\* The halves a and b of leaf x with the new record, around the key t.
Halved(a, b, t, x, k, v, l, h) ==
    /\ t \in Keys /\ l < t /\ t < h
    /\ a \in Leaf /\ SamePlace(a, x) /\ Len(a.recs) = (Order \div 2) + 1
    /\ b \in Leaf /\ SamePlace(b, x) /\ Len(b.recs) = Order \div 2
    /\ LeafSorted(a, l, t) /\ LeafSorted(b, t, h)
    /\ \A q, w : Has(a, q, w) <=> (Has(x, q, w) \/ (q = k /\ w = v)) /\ q < t
    /\ \A q, w : Has(b, q, w) <=> (Has(x, q, w) \/ (q = k /\ w = v)) /\ ~ q < t

\* Half of a block.
LEMMA Half ==
    \E m \in Nat : /\ m >= 2 /\ Order = 2 * m /\ Order \div 2 = m
                   /\ (Order - 1) \div 2 = m - 1
BY TreeAssumption

\* The keys of a leaf with n records, as a function.
AreKeys(f, n, x, l, h) ==
    /\ f \in [1 .. n -> Int]
    /\ \A i \in 1 .. n : f[i] = x.recs[i].key /\ f[i] \in Keys
    /\ \A i, j \in 1 .. n : i < j => f[i] < f[j]
    /\ \A i \in 1 .. n : l =< f[i] /\ f[i] < h

\* There is one.
LEMMA LeafKeys ==
    ASSUME NEW x \in Leaf, NEW l \in Int, NEW h \in Int, LeafSorted(x, l, h),
           NEW n \in Nat, n = Len(x.recs)
    PROVE  \E f : AreKeys(f, n, x, l, h)
<1>1. PICK f : f = [i \in 1 .. n |-> x.recs[i].key]  OBVIOUS
<1>2. \A i \in 1 .. n : f[i] = x.recs[i].key /\ f[i] \in Keys
      /\ x.recs[i] = [key |-> f[i], value |-> x.recs[i].value]
  BY <1>1, RecordIs
<1>3. f \in [1 .. n -> Int]
  <2>1. \A i \in 1 .. n : f[i] \in Int
    <3>1. \A i \in 1 .. n : f[i] \in Keys  BY <1>2
    <3> QED BY <3>1, KeyBounds
  <2>2. f = [i \in 1 .. n |-> f[i]]  BY <1>1
  <2> QED BY <2>1, <2>2
<1>4. \A i, j \in 1 .. n : i < j => f[i] < f[j]  BY <1>2 DEF LeafSorted
<1>5. \A i \in 1 .. n : l =< f[i] /\ f[i] < h  BY <1>2 DEF LeafSorted
<1> QED BY <1>2, <1>3, <1>4, <1>5 DEF AreKeys

\* A bound between two neighbours divides all.
LEMMA KeysBelow ==
    ASSUME NEW n \in Nat, NEW f \in [1 .. n -> Int],
           \A i, j \in 1 .. n : i < j => f[i] < f[j],
           NEW c \in 0 .. n, NEW t \in Int,
           c # n => t =< f[c + 1],
           c # 0 => f[c] < t
    PROVE  \A i \in 1 .. n : f[i] < t <=> i =< c
<1> SUFFICES ASSUME NEW i \in 1 .. n PROVE f[i] < t <=> i =< c
  OBVIOUS
<1>1. CASE i =< c
  <2>1. c \in 1 .. n /\ (i = c \/ i < c)  BY <1>1
  <2>2. f[i] =< f[c]  BY <2>1
  <2> QED BY <1>1, <2>1, <2>2
<1>2. CASE ~ i =< c
  <2>1. c + 1 \in 1 .. n /\ (i = c + 1 \/ c + 1 < i)  BY <1>2
  <2>2. f[c + 1] =< f[i]  BY <2>1
  <2>3. t =< f[c + 1]  BY <1>2, <2>1
  <2> QED BY <1>2, <2>1, <2>2, <2>3
<1> QED BY <1>1, <1>2

\* The new record belongs into the left half.
LEMMA SplitLeft ==
    ASSUME KeysNear, NEW x \in Leaf, NEW l \in Int, NEW h \in Int, LeafSorted(x, l, h),
           NEW m \in Nat, m >= 2, Order \div 2 = m, Len(x.recs) = 2 * m,
           NEW k \in Keys, NEW v \in Values, l =< k, k < h,
           Lacks(x, k), k < x.recs[m + 1].key,
           NEW a, NEW b, IsCutAt(a, b, x, m),
           NEW y, y = insert_record_no_split(a, k, v)
    PROVE  Halved(y, b, b.recs[1].key, x, k, v, l, h)
<1>1. PICK n \in Nat : n = 2 * m /\ n = Len(x.recs) /\ n - m = m /\ m \in 0 .. n
  OBVIOUS
<1>2. PICK f \in [1 .. n -> Int] :
             /\ \A i \in 1 .. n : f[i] = x.recs[i].key /\ f[i] \in Keys
             /\ \A i, j \in 1 .. n : i < j => f[i] < f[j]
             /\ \A i \in 1 .. n : l =< f[i] /\ f[i] < h
  <2>1. PICK f : AreKeys(f, n, x, l, h)  BY <1>1, LeafKeys
  <2> QED BY <2>1 DEF AreKeys
<1>3. m \in 1 .. n /\ m + 1 \in 1 .. n /\ m # n /\ m # 0  BY <1>1
<1>4. PICK t \in Int : t = f[m + 1] /\ t \in Keys /\ k < t /\ t < h /\ f[m] < t /\ l < t
                        /\ t = x.recs[m + 1].key
  BY <1>2, <1>3
<1>5. \A i \in 1 .. n : f[i] < t <=> i =< m
  <2>0. t \in Int /\ t = f[m + 1] /\ f[m] < t  BY <1>4
  <2>1. m \in 0 .. n /\ t =< f[m + 1] /\ f[m] < t
    <3>1. t =< t  BY <2>0
    <3> QED BY <1>1, <2>0, <3>1
  <2>2. \A i, j \in 1 .. n : i < j => f[i] < f[j]  BY <1>2
  <2> QED BY <2>1, <2>2, KeysBelow, SMTT(30)
<1>6. \A i \in 1 .. Len(x.recs) : x.recs[i].key < t <=> i =< m
  BY <1>1, <1>2, <1>5
<1>7. /\ a \in Leaf /\ SamePlace(a, x) /\ Len(a.recs) = m
      /\ LeafSorted(a, l, t)
      /\ \A q, w : Has(a, q, w) <=> Has(x, q, w) /\ q < t
      /\ b \in Leaf /\ SamePlace(b, x) /\ Len(b.recs) = n - m
      /\ LeafSorted(b, t, h)
      /\ \A q, w : Has(b, q, w) <=> Has(x, q, w) /\ ~ q < t
      /\ b.recs[1] = x.recs[m + 1]
  <2>1. IsParted(a, b, x, l, h, m, t)  BY <1>1, <1>6, CutLeaf
  <2> QED BY <1>1, <1>3, <2>1 DEF IsParted
<1>8. Lacks(a, k)  BY <1>7 DEF Lacks
<1>9. /\ y \in Leaf /\ SamePlace(y, a) /\ Len(y.recs) = m + 1
      /\ LeafSorted(y, l, t)
      /\ \A q, w : Has(y, q, w) <=> Has(a, q, w) \/ (q = k /\ w = v)
  <2>1. IsWith(y, a, k, v, l, t)  BY <1>4, <1>7, <1>8, InsertRecordIs
  <2> QED BY <1>7, <2>1 DEF IsWith
<1>10. \A q, w : Has(y, q, w) <=> (Has(x, q, w) \/ (q = k /\ w = v)) /\ q < t
  BY <1>4, <1>7, <1>9
<1>11. \A q, w : Has(b, q, w) <=> (Has(x, q, w) \/ (q = k /\ w = v)) /\ ~ q < t
  BY <1>4, <1>7
<1>12. SamePlace(y, x)  BY <1>7, <1>9 DEF SamePlace
<1> QED BY <1>1, <1>4, <1>7, <1>9, <1>10, <1>11, <1>12 DEF Halved

\* The new record belongs into the right half.
LEMMA SplitRight ==
    ASSUME KeysNear, NEW x \in Leaf, NEW l \in Int, NEW h \in Int, LeafSorted(x, l, h),
           NEW m \in Nat, m >= 2, Order \div 2 = m, Len(x.recs) = 2 * m,
           NEW k \in Keys, NEW v \in Values, l =< k, k < h,
           Lacks(x, k), k > x.recs[m + 1].key,
           NEW a, NEW b, IsCutAt(a, b, x, m + 1),
           NEW y, y = insert_record_no_split(b, k, v)
    PROVE  Halved(a, y, y.recs[1].key, x, k, v, l, h)
<1>0. k \in Int  BY KeyBounds
<1>1. PICK n \in Nat : n = 2 * m /\ n = Len(x.recs) /\ n - (m + 1) = m - 1 /\ m + 1 \in 0 .. n
  OBVIOUS
<1>2. PICK f \in [1 .. n -> Int] :
             /\ \A i \in 1 .. n : f[i] = x.recs[i].key /\ f[i] \in Keys
             /\ \A i, j \in 1 .. n : i < j => f[i] < f[j]
             /\ \A i \in 1 .. n : l =< f[i] /\ f[i] < h
  <2>1. PICK f : AreKeys(f, n, x, l, h)  BY <1>1, LeafKeys
  <2> QED BY <2>1 DEF AreKeys
<1>3. m + 1 \in 1 .. n /\ m + 2 \in 1 .. n /\ m + 1 # n /\ m + 1 # 0 /\ m + 1 + 1 = m + 2
      /\ m + 1 < m + 2
  <2>1. m + 2 =< n  BY <1>1
  <2> QED BY <2>1
<1>4. PICK o \in Int : o = f[m + 2] /\ o \in Keys /\ o < h /\ f[m + 1] < o
                        /\ o = x.recs[m + 2].key
  <2>1. f[m + 1] < f[m + 2] /\ f[m + 2] \in Int /\ f[m + 2] < h  BY <1>2, <1>3
  <2>2. f[m + 2] = x.recs[m + 2].key /\ f[m + 2] \in Keys  BY <1>2, <1>3
  <2> QED BY <2>1, <2>2
<1>5. f[m + 1] < k /\ l =< f[m + 1] /\ f[m + 1] \in Int  BY <1>2, <1>3
<1>6. PICK t \in Int : /\ t \in Keys /\ t =< o /\ t =< k /\ f[m + 1] < t /\ (t = o \/ t = k)
                       /\ l < t /\ t < h
  <2>1. CASE o < k  BY <1>0, <1>4, <1>5, <2>1, SMTT(30)
  <2>2. CASE ~ o < k  BY <1>0, <1>4, <1>5, <2>2, SMTT(30)
  <2> QED BY <2>1, <2>2
<1>7. \A i \in 1 .. n : f[i] < t <=> i =< m + 1
  <2>1. PICK c \in 0 .. n : c = m + 1 /\ c + 1 = m + 2 /\ c # n /\ c # 0
    BY <1>1, <1>3
  <2>2. t =< f[c + 1] /\ f[c] < t  BY <1>4, <1>6, <2>1
  <2>3. \A i \in 1 .. n : f[i] < t <=> i =< c  BY <1>2, <2>1, <2>2, KeysBelow
  <2> QED BY <2>1, <2>3
<1>8. \A i \in 1 .. Len(x.recs) : x.recs[i].key < t <=> i =< m + 1
  BY <1>1, <1>2, <1>7
<1>9. /\ a \in Leaf /\ SamePlace(a, x) /\ Len(a.recs) = m + 1
      /\ LeafSorted(a, l, t)
      /\ \A q, w : Has(a, q, w) <=> Has(x, q, w) /\ q < t
      /\ b \in Leaf /\ SamePlace(b, x) /\ Len(b.recs) = m - 1
      /\ LeafSorted(b, t, h)
      /\ \A q, w : Has(b, q, w) <=> Has(x, q, w) /\ ~ q < t
      /\ b.recs[1] = x.recs[m + 2]
  <2>1. PICK c \in 0 .. Len(x.recs) : c = m + 1  BY <1>1
  <2>2. IsParted(a, b, x, l, h, c, t)  BY <1>8, <2>1, CutLeaf
  <2> QED BY <1>1, <1>3, <2>1, <2>2 DEF IsParted
<1>10. Lacks(b, k)  BY <1>9 DEF Lacks
<1>11. /\ y \in Leaf /\ SamePlace(y, b) /\ Len(y.recs) = m
       /\ LeafSorted(y, t, h)
       /\ \A q, w : Has(y, q, w) <=> Has(b, q, w) \/ (q = k /\ w = v)
       /\ y.recs[1].key = k \/ y.recs[1] = b.recs[1]
  <2>1. m - 1 + 1 = m  OBVIOUS
  <2>2. IsWith(y, b, k, v, t, h)  BY <1>6, <1>9, <1>10, InsertRecordIs
  <2> QED BY <1>9, <2>1, <2>2 DEF IsWith
<1>12. \A q, w : Has(a, q, w) <=> (Has(x, q, w) \/ (q = k /\ w = v)) /\ q < t
  <2>1. ~ k < t  BY <1>0, <1>6
  <2> QED BY <1>9, <2>1
<1>13. \A q, w : Has(y, q, w) <=> (Has(x, q, w) \/ (q = k /\ w = v)) /\ ~ q < t
  <2>1. ~ k < t  BY <1>0, <1>6
  <2> QED BY <1>9, <1>11, <2>1
<1>14. SamePlace(y, x)  BY <1>9, <1>11 DEF SamePlace
<1>15. y.recs[1].key = t
  <2>1. PICK g \in [1 .. m -> Int] :
          /\ \A i \in 1 .. m : g[i] = y.recs[i].key
          /\ \A i, j \in 1 .. m : i < j => g[i] < g[j]
    <3>1. PICK g : AreKeys(g, m, y, t, h)
      <4>1. m = Len(y.recs) /\ y \in Leaf /\ LeafSorted(y, t, h)  BY <1>11
      <4> QED BY <4>1, LeafKeys
    <3> QED BY <3>1 DEF AreKeys
  <2>2. PICK r \in Int : r = g[1] /\ r = y.recs[1].key  BY <2>1
  <2>3. r = k \/ r = o  BY <1>4, <1>9, <1>11, <2>2
  <2>4. ASSUME NEW q, NEW w, Has(y, q, w) PROVE r =< q
    <3>1. PICK i \in 1 .. m : y.recs[i] = [key |-> q, value |-> w]
      BY <1>11, <2>4 DEF Has
    <3>2. g[i] = q  BY <2>1, <3>1
    <3>3. 1 \in 1 .. m /\ (i = 1 \/ 1 < i)  OBVIOUS
    <3> QED BY <2>1, <2>2, <3>2, <3>3
  <2>5. r =< k  BY <1>11, <2>4
  <2>6. r =< o
    <3>1. 1 \in 1 .. Len(b.recs)  BY <1>9
    <3>2. b.recs[1] = [key |-> o, value |-> b.recs[1].value]
      BY <1>4, <1>9, <3>1, RecordIs
    <3>3. Has(b, o, b.recs[1].value)  BY <3>1, <3>2 DEF Has
    <3> QED BY <1>11, <2>4, <3>3
  <2>7. t =< o /\ t =< k /\ (t = o \/ t = k)  BY <1>6
  <2>8. r = t  BY <1>0, <2>3, <2>5, <2>6, <2>7
  <2> QED BY <2>2, <2>8
<1> QED BY <1>6, <1>9, <1>11, <1>12, <1>13, <1>14, <1>15 DEF Halved

\* A leaf without the record of a key.
IsWithout(y, x, k, l, h) ==
    /\ y \in Leaf /\ SamePlace(y, x)
    /\ LeafSorted(y, l, h)
    /\ \A q, w : Has(y, q, w) <=> Has(x, q, w) /\ q # k

\* That is what remove_record leaves.
LEMMA WithoutKeyIs ==
    ASSUME KeysNear, NEW x \in Leaf, NEW l \in Int, NEW h \in Int, LeafSorted(x, l, h),
           NEW k \in Keys, Holds(x, k),
           NEW y, y = WithoutKey(x, k)
    PROVE  IsWithout(y, x, k, l, h) /\ Len(y.recs) = Len(x.recs) - 1
<1>1. PICK s \in Seq(Record) : s = x.recs  BY DEF Leaf
<1>2. PICK n \in Nat : n = Len(s)  OBVIOUS
<1>3. PICK i : i = lower_bound(RecordKeys(x), k) + 1  OBVIOUS
<1>4. PICK f : AreKeys(f, n, x, l, h)  BY <1>1, <1>2, LeafKeys
<1>5. /\ f \in [1 .. n -> Int]
      /\ \A j \in 1 .. n : f[j] = s[j].key
      /\ \A j, g \in 1 .. n : j < g => f[j] < f[g]
      /\ \A j \in 1 .. n : l =< f[j] /\ f[j] < h
  BY <1>1, <1>4 DEF AreKeys
<1>6. i \in 1 .. n /\ \A j \in 1 .. n : f[j] = k <=> j = i
  <2>1. PICK v : Has(x, k, v)  BY HoldsIs
  <2>2. PICK j \in 1 .. n : s[j] = [key |-> k, value |-> v]
    BY <1>1, <1>2, <2>1 DEF Has
  <2>3. f[j] = k  BY <1>5, <2>2
  <2>4. \A g \in 1 .. n : f[g] = k => g = i
    <3>1. \A g \in 1 .. Len(x.recs) : x.recs[g].key = k => g = i
      BY <1>3, LowerRecord
    <3> QED BY <1>1, <1>2, <1>5, <3>1
  <2> QED BY <2>3, <2>4
<1>7. PICK a : a = SubSeq(s, 1, i - 1)  OBVIOUS
<1>8. PICK b : b = SubSeq(s, i + 1, n)  OBVIOUS
<1>9. PICK r : r = a \o b  OBVIOUS
<1>10. a \in Seq(Record) /\ Len(a) = i - 1 /\ \A j \in 1 .. i - 1 : a[j] = s[j]
  <2>1. PICK c \in 0 .. n : c = i - 1  BY <1>6
  <2> QED BY <1>2, <1>7, <2>1, CutIs
<1>11. b \in Seq(Record) /\ Len(b) = n - i /\ \A j \in 1 .. n - i : b[j] = s[i + j]
  <2>1. i \in 0 .. n  BY <1>6
  <2> QED BY <1>2, <1>8, <2>1, CutIs
<1>12. /\ r \in Seq(Record) /\ Len(r) = Len(a) + Len(b)
       /\ \A j \in 1 .. Len(a) : r[j] = a[j]
       /\ \A j \in 1 .. Len(b) : r[Len(a) + j] = b[j]
  <2>1. a \in Seq(Record) /\ b \in Seq(Record)  BY <1>10, <1>11
  <2> QED BY <1>9, <2>1, JoinedSeq
<1>13. y.recs = r /\ y \in Leaf /\ SamePlace(y, x)
  <2>1. RemoveAt(s, i) = r  BY <1>2, <1>7, <1>8, <1>9 DEF RemoveAt
  <2> QED BY <1>1, <1>3, <1>12, <2>1 DEF WithoutKey, Leaf, SamePlace
<1>14. Len(r) = n - 1  BY <1>6, <1>10, <1>11, <1>12
<1>15. ASSUME NEW j \in 1 .. n - 1
       PROVE  \/ j < i /\ j \in 1 .. n /\ r[j] = s[j]
              \/ ~ j < i /\ j + 1 \in 1 .. n /\ r[j] = s[j + 1]
  <2>1. CASE j < i  BY <1>6, <1>10, <1>12, <2>1
  <2>2. CASE ~ j < i
    <3>1. PICK g \in 1 .. n - i : i - 1 + g = j /\ i + g = j + 1
      <4>1. j - i + 1 \in 1 .. n - i /\ i - 1 + (j - i + 1) = j
            /\ i + (j - i + 1) = j + 1
        BY <1>6, <2>2
      <4> QED BY <4>1
    <3>2. r[i - 1 + g] = b[g] /\ b[g] = s[i + g]  BY <1>10, <1>11, <1>12
    <3> QED BY <1>6, <2>2, <3>1, <3>2
  <2> QED BY <2>1, <2>2
<1>16. LeafSorted(y, l, h)
  <2>1. ASSUME NEW j \in 1 .. n - 1
        PROVE  \E g \in 1 .. n : r[j] = s[g] /\ (IF j < i THEN g = j ELSE g = j + 1)
    BY <1>15
  <2>2. ASSUME NEW j \in 1 .. n - 1 PROVE l =< r[j].key /\ r[j].key < h
    BY <1>5, <2>1
  <2>3. ASSUME NEW j \in 1 .. n - 1, NEW g \in 1 .. n - 1, j < g
        PROVE  r[j].key < r[g].key
    <3>1. PICK c \in 1 .. n : r[j] = s[c] /\ (IF j < i THEN c = j ELSE c = j + 1)
      BY <2>1
    <3>2. PICK d \in 1 .. n : r[g] = s[d] /\ (IF g < i THEN d = g ELSE d = g + 1)
      BY <2>1
    <3>3. c < d  BY <1>6, <2>3, <3>1, <3>2
    <3> QED BY <1>5, <3>1, <3>2, <3>3
  <2> QED BY <1>13, <1>14, <2>2, <2>3 DEF LeafSorted
<1>17. ASSUME NEW q, NEW w PROVE Has(y, q, w) <=> Has(x, q, w) /\ q # k
  <2> DEFINE e == [key |-> q, value |-> w]
  <2>1. Has(y, q, w) <=> \E j \in 1 .. n - 1 : r[j] = e  BY <1>13, <1>14 DEF Has
  <2>2. Has(x, q, w) <=> \E j \in 1 .. n : s[j] = e  BY <1>1, <1>2 DEF Has
  <2>3. ASSUME NEW j \in 1 .. n, s[j] = e PROVE q = k <=> j = i
    <3>1. f[j] = q  BY <1>5, <2>3
    <3> QED BY <1>6, <3>1
  <2> HIDE DEF e
  <2>4. ASSUME Has(y, q, w) PROVE Has(x, q, w) /\ q # k
    <3>1. PICK j \in 1 .. n - 1 : r[j] = e  BY <2>1, <2>4
    <3>2. PICK g \in 1 .. n : g # i /\ s[g] = e  BY <1>6, <1>15, <3>1
    <3> QED BY <2>2, <2>3, <3>2
  <2>5. ASSUME Has(x, q, w), q # k PROVE Has(y, q, w)
    <3>1. PICK j \in 1 .. n : s[j] = e /\ j # i  BY <2>2, <2>3, <2>5
    <3>2. CASE j < i
      <4>1. j \in 1 .. n - 1  BY <1>6, <3>2
      <4>2. r[j] = s[j]  BY <1>15, <3>2, <4>1
      <4> QED BY <2>1, <3>1, <4>1, <4>2
    <3>3. CASE j > i
      <4>1. PICK g \in 1 .. n - 1 : g + 1 = j /\ ~ g < i
        <5>1. j - 1 \in 1 .. n - 1 /\ j - 1 + 1 = j /\ ~ j - 1 < i  BY <1>6, <3>3
        <5> QED BY <5>1
      <4>2. r[g] = s[j]  BY <1>15, <4>1
      <4> QED BY <2>1, <3>1, <4>2
    <3> QED BY <1>6, <3>1, <3>2, <3>3
  <2> QED BY <2>4, <2>5
<1> QED BY <1>1, <1>2, <1>13, <1>14, <1>16, <1>17 DEF IsWithout

\* The record of a key with another value.
LEMMA UpdateIs ==
    ASSUME KeysNear, NEW x \in Leaf, NEW l \in Int, NEW h \in Int, LeafSorted(x, l, h),
           NEW k \in Keys, NEW v \in Values,
           NEW i, i = lower_bound(RecordKeys(x), k) + 1,
           i \in DOMAIN x.recs, keycmp(k, x.recs[i].key) = 0,
           NEW y, y = [x EXCEPT !.recs[i].value = v]
    PROVE  /\ y \in Leaf /\ SamePlace(y, x) /\ LeafSorted(y, l, h)
           /\ Len(y.recs) = Len(x.recs)
           /\ \A q, w : Has(y, q, w) <=> IF q = k THEN w = v ELSE Has(x, q, w)
           /\ \E w : Has(x, k, w)
<1>1. PICK s \in Seq(Record) : s = x.recs  BY DEF Leaf
<1>2. PICK n \in Nat : n = Len(s)  OBVIOUS
<1>3. i \in 1 .. n  BY <1>1, <1>2
<1>4. PICK f : AreKeys(f, n, x, l, h)  BY <1>1, <1>2, LeafKeys
<1>5. /\ f \in [1 .. n -> Int]
      /\ \A j \in 1 .. n : f[j] = s[j].key /\ f[j] \in Keys
      /\ \A j, g \in 1 .. n : j < g => f[j] < f[g]
      /\ \A j \in 1 .. n : l =< f[j] /\ f[j] < h
  BY <1>1, <1>4 DEF AreKeys
<1>6. f[i] = k
  <2>1. f[i] \in Keys /\ f[i] \in Int /\ k \in Int  BY <1>3, <1>5, KeyBounds
  <2>2. keycmp(k, f[i]) = k - f[i]  BY <2>1, KeycmpIs
  <2>3. keycmp(k, f[i]) = 0  BY <1>1, <1>3, <1>5
  <2> QED BY <2>1, <2>2, <2>3
<1>7. \A j \in 1 .. n : f[j] = k => j = i
  BY <1>3, <1>5, <1>6
<1>8. PICK r : r = [s EXCEPT ![i].value = v]  OBVIOUS
<1>9. /\ r \in Seq(Record) /\ Len(r) = n
      /\ \A j \in 1 .. n : r[j] = IF j = i THEN [key |-> k, value |-> v] ELSE s[j]
  <2>1. \A j \in 1 .. n : s[j] \in Record  BY <1>2
  <2>2. s = [j \in 1 .. n |-> s[j]] /\ DOMAIN s = 1 .. n  BY <1>2, SeqFunction
  <2>3. [s[i] EXCEPT !.value = v] = [key |-> k, value |-> v]
    BY <1>3, <1>5, <1>6, <2>1 DEF Record
  <2>4. r = [j \in 1 .. n |-> IF j = i THEN [s[i] EXCEPT !.value = v] ELSE s[j]]
    BY <1>8, <2>2
  <2>5. [key |-> k, value |-> v] \in Record  BY DEF Record
  <2>6. \A j \in 1 .. n : r[j] = IF j = i THEN [key |-> k, value |-> v] ELSE s[j]
    BY <2>3, <2>4
  <2>7. r \in [1 .. n -> Record]  BY <2>1, <2>3, <2>4, <2>5
  <2> QED BY <2>6, <2>7, FunctionSeq
<1>10. y.recs = r /\ y \in Leaf /\ SamePlace(y, x)
  <2>1. y = [x EXCEPT !.recs = [x.recs EXCEPT ![i].value = v]]  BY DEF Leaf
  <2> QED BY <1>1, <1>8, <1>9, <2>1 DEF Leaf, SamePlace
<1>11. \A j \in 1 .. n : r[j].key = f[j]  BY <1>5, <1>6, <1>9
<1>12. LeafSorted(y, l, h)  BY <1>5, <1>9, <1>10, <1>11, SMTT(30) DEF LeafSorted
<1>13. ASSUME NEW q, NEW w
       PROVE  Has(y, q, w) <=> IF q = k THEN w = v ELSE Has(x, q, w)
  <2> DEFINE e == [key |-> q, value |-> w]
  <2>1. Has(y, q, w) <=> \E j \in 1 .. n : r[j] = e  BY <1>9, <1>10 DEF Has
  <2>2. Has(x, q, w) <=> \E j \in 1 .. n : s[j] = e  BY <1>1, <1>2 DEF Has
  <2>3. ASSUME NEW j \in 1 .. n, r[j] = e PROVE q = k <=> j = i
    <3>1. f[j] = q  BY <1>11, <2>3
    <3> QED BY <1>6, <1>7, <3>1
  <2>4. ASSUME NEW j \in 1 .. n, s[j] = e PROVE q = k <=> j = i
    <3>1. f[j] = q  BY <1>5, <2>4
    <3> QED BY <1>6, <1>7, <3>1
  <2>5. CASE q = k
    <3>1. r[i] = [key |-> k, value |-> v]  BY <1>3, <1>9
    <3>2. (r[i] = e) <=> w = v  BY <2>5, <3>1
    <3> HIDE DEF e
    <3> QED BY <1>3, <2>1, <2>3, <2>5, <3>2
  <2>6. CASE q # k
    <3> HIDE DEF e
    <3>1. \A j \in 1 .. n : j # i => r[j] = s[j]  BY <1>9
    <3> QED BY <2>1, <2>2, <2>3, <2>4, <2>6, <3>1
  <2> QED BY <2>5, <2>6
<1>14. \E w : Has(x, k, w)
  <2>1. s[i] = [key |-> k, value |-> s[i].value]
    BY <1>1, <1>2, <1>3, <1>5, <1>6, RecordIs
  <2> QED BY <1>1, <1>2, <1>3, <2>1 DEF Has
<1> QED BY <1>1, <1>2, <1>9, <1>10, <1>12, <1>13, <1>14

-----------------------------------------------------------------------------
(* Internal nodes.                                                         *)

Node == [parent : Nat, next : Nat, prev : Nat,
         keys : Seq(Keys \cup {Garbage}), kids : Seq(Nat)]

\* Where the intervals of a node's children meet, and the node's own ends.
bounds(x, l, h) ==
    [i \in 0 .. Len(x.kids) |->
        IF i = 0 THEN l ELSE IF i = Len(x.kids) THEN h ELSE x.keys[i]]

\* e says so of a node with n children.
AreBounds(e, n, x, l, h) ==
    /\ n = Len(x.kids) /\ n = Len(x.keys) /\ n # 0
    /\ e \in [0 .. n -> Int] /\ e[0] = l /\ e[n] = h
    /\ \A i \in 1 .. n - 1 : e[i] = x.keys[i] /\ e[i] \in Keys
    /\ \A i, j \in 0 .. n : i < j => e[i] < e[j]

\* The separators are in order and in the node's interval.
NodeSorted(x, l, h) == AreBounds(bounds(x, l, h), Len(x.kids), x, l, h)

\* The node has a child c for the keys from a to b.
Entry(x, l, h, c, a, b) ==
    \E i \in 1 .. Len(x.kids) :
        c = x.kids[i] /\ a = bounds(x, l, h)[i - 1] /\ b = bounds(x, l, h)[i]

\* Bounds are those of the definition.
LEMMA BoundsAre ==
    ASSUME NEW x, NEW l, NEW h, NEW n \in Nat, NEW e, AreBounds(e, n, x, l, h)
    PROVE  /\ NodeSorted(x, l, h)
           /\ \A c, a, b : Entry(x, l, h, c, a, b) <=>
                \E i \in 1 .. n : c = x.kids[i] /\ a = e[i - 1] /\ b = e[i]
<1>1. n = Len(x.kids) /\ e \in [0 .. n -> Int]  BY DEF AreBounds
<1>2. \A i \in 0 .. n : e[i] = IF i = 0 THEN l ELSE IF i = n THEN h ELSE x.keys[i]
  BY DEF AreBounds
<1>3. e = bounds(x, l, h)
  <2>1. bounds(x, l, h) = [i \in 0 .. n |-> e[i]]  BY <1>1, <1>2 DEF bounds
  <2> QED BY <1>1, <2>1
<1> QED BY <1>1, <1>3 DEF NodeSorted, Entry

\* A sorted node's sequences and bounds.
LEMMA NodeIs ==
    ASSUME NEW x \in Node, NEW l, NEW h, NodeSorted(x, l, h)
    PROVE  /\ Len(x.kids) \in Nat
           /\ x.keys \in Seq(Keys \cup {Garbage})
           /\ x.kids \in Seq(Nat)
           /\ AreBounds(bounds(x, l, h), Len(x.kids), x, l, h)
<1>1. x.keys \in Seq(Keys \cup {Garbage}) /\ x.kids \in Seq(Nat)  BY DEF Node
<1> QED BY <1>1 DEF NodeSorted

\* The interval of a child lies in that of its node.
LEMMA EntryIs ==
    ASSUME NEW x \in Node, NEW l, NEW h, NodeSorted(x, l, h),
           NEW c, NEW a, NEW b, Entry(x, l, h, c, a, b)
    PROVE  /\ a \in Int /\ b \in Int /\ l \in Int /\ h \in Int
           /\ l =< a /\ a < b /\ b =< h /\ c \in Nat
<1>1. PICK n \in Nat : n = Len(x.kids)  BY NodeIs
<1>2. PICK e : e = bounds(x, l, h) /\ AreBounds(e, n, x, l, h)  BY <1>1, NodeIs
<1>3. PICK i \in 1 .. n : c = x.kids[i] /\ a = e[i - 1] /\ b = e[i]
  BY <1>1, <1>2 DEF Entry
<1>4. /\ e \in [0 .. n -> Int] /\ e[0] = l /\ e[n] = h
      /\ \A j, g \in 0 .. n : j < g => e[j] < e[g]
  BY <1>2 DEF AreBounds
<1>5. i - 1 \in 0 .. n /\ i \in 0 .. n /\ 0 \in 0 .. n /\ n \in 0 .. n
      /\ i - 1 < i /\ (i - 1 = 0 \/ 0 < i - 1) /\ (i = n \/ i < n)
  OBVIOUS
<1>6. c \in Nat
  <2>1. x.kids \in Seq(Nat)  BY NodeIs
  <2> QED BY <1>1, <1>3, <2>1
<1> QED BY <1>3, <1>4, <1>5, <1>6

\* Two intervals of a node do not overlap.
LEMMA EntriesApart ==
    ASSUME NEW x \in Node, NEW l, NEW h, NodeSorted(x, l, h),
           NEW c, NEW a, NEW b, Entry(x, l, h, c, a, b),
           NEW d, NEW p, NEW q, Entry(x, l, h, d, p, q)
    PROVE  (c = d /\ a = p /\ b = q) \/ b =< p \/ q =< a
<1>1. PICK n \in Nat : n = Len(x.kids)  BY NodeIs
<1>2. PICK e : e = bounds(x, l, h) /\ AreBounds(e, n, x, l, h)  BY <1>1, NodeIs
<1>3. PICK i \in 1 .. n : c = x.kids[i] /\ a = e[i - 1] /\ b = e[i]
  BY <1>1, <1>2 DEF Entry
<1>4. PICK j \in 1 .. n : d = x.kids[j] /\ p = e[j - 1] /\ q = e[j]
  BY <1>1, <1>2 DEF Entry
<1>5. /\ e \in [0 .. n -> Int]
      /\ \A g, f \in 0 .. n : g < f => e[g] < e[f]
  BY <1>2 DEF AreBounds
<1>6. CASE i = j  BY <1>3, <1>4, <1>6
<1>7. CASE i < j
  <2>1. i \in 0 .. n /\ j - 1 \in 0 .. n /\ (i = j - 1 \/ i < j - 1)  BY <1>7
  <2> QED BY <1>3, <1>4, <1>5, <2>1
<1>8. CASE j < i
  <2>1. j \in 0 .. n /\ i - 1 \in 0 .. n /\ (j = i - 1 \/ j < i - 1)  BY <1>8
  <2> QED BY <1>3, <1>4, <1>5, <2>1
<1> QED BY <1>6, <1>7, <1>8

\* find goes to the child whose interval the key lies in.
LEMMA FindEntryIs ==
    ASSUME KeysNear, NEW x \in Node, NEW l, NEW h, NodeSorted(x, l, h),
           NEW k \in Keys, l =< k, k < h,
           NEW n \in Nat, n = Len(x.kids), NEW e, AreBounds(e, n, x, l, h)
    PROVE  /\ FindEntry(x, k) \in 1 .. n
           /\ e[FindEntry(x, k) - 1] =< k
           /\ k < e[FindEntry(x, k)]
<1>1. PICK w : w = x.keys  OBVIOUS
<1>2. w \in Seq(Keys \cup {Garbage}) /\ Len(w) = n /\ n # 0
  BY <1>1, NodeIs DEF AreBounds
<1>3. PICK s : s = Front(w)  OBVIOUS
<1>4. s \in Seq(Keys \cup {Garbage}) /\ Len(s) = n - 1 /\ \A i \in 1 .. n - 1 : s[i] = w[i]
  BY <1>2, <1>3, FrontIs
<1>5. /\ e \in [0 .. n -> Int] /\ e[0] = l /\ e[n] = h
      /\ \A i \in 1 .. n - 1 : e[i] = w[i] /\ e[i] \in Keys
      /\ \A i, j \in 0 .. n : i < j => e[i] < e[j]
  BY <1>1 DEF AreBounds
<1>6. PICK m \in Nat : m = n - 1 /\ m + 1 = n  BY <1>2
<1>7. \A i \in 1 .. m : s[i] = e[i] /\ s[i] \in Keys  BY <1>4, <1>5, <1>6
<1>8. s \in Seq(Keys) /\ Len(s) = m
  <2>1. s = [i \in 1 .. m |-> s[i]]  BY <1>4, <1>6, SeqFunction
  <2>2. s \in [1 .. m -> Keys]  BY <1>7, <2>1
  <2> QED BY <2>2, FunctionSeq
<1>9. Ascends(s)  BY <1>5, <1>6, <1>7, <1>8 DEF Ascends
<1>10. PICK c : c = upper_bound(s, k)  OBVIOUS
<1>11. c \in 0 .. m /\ \A i \in 1 .. m : e[i] =< k <=> i =< c
  <2>1. IsUpper(c, s, k)  BY <1>8, <1>9, <1>10, UpperIs
  <2> QED BY <1>7, <1>8, <2>1 DEF IsUpper
<1>12. FindEntry(x, k) = c + 1  BY <1>1, <1>3, <1>10 DEF FindEntry
<1>13. k \in Int  BY KeyBounds
<1>14. e[c] =< k
  <2>1. CASE c = 0  BY <1>5, <2>1
  <2>2. CASE c # 0
    <3>1. c \in 1 .. m /\ c =< c  BY <1>11, <2>2
    <3> QED BY <1>11, <3>1
  <2> QED BY <2>1, <2>2
<1>15. k < e[c + 1]
  <2>1. CASE c = m  BY <1>5, <1>6, <2>1
  <2>2. CASE c # m
    <3>1. c + 1 \in 1 .. m /\ ~ c + 1 =< c /\ c + 1 \in 0 .. n  BY <1>6, <1>11, <2>2
    <3>2. ~ e[c + 1] =< k /\ e[c + 1] \in Int  BY <1>5, <1>11, <3>1
    <3> QED BY <1>13, <3>2
  <2> QED BY <2>1, <2>2
<1>16. PICK i : i = c + 1  OBVIOUS
<1>17. i \in 1 .. n /\ i - 1 = c  BY <1>6, <1>11, <1>16
<1>18. FindEntry(x, k) = i  BY <1>12, <1>16
<1>19. e[i - 1] =< k /\ k < e[i]  BY <1>14, <1>15, <1>16, <1>17
<1> QED BY <1>17, <1>18, <1>19

\* search_leaf_below: the child, by its interval.
LEMMA BelowIs ==
    ASSUME KeysNear, NEW x \in Node, NEW l, NEW h, NodeSorted(x, l, h),
           NEW k \in Keys, l =< k, k < h
    PROVE  \E a, b : Entry(x, l, h, x.kids[FindEntry(x, k)], a, b) /\ a =< k /\ k < b
<1>1. PICK n \in Nat : n = Len(x.kids)  BY NodeIs
<1>2. PICK e : e = bounds(x, l, h) /\ AreBounds(e, n, x, l, h)  BY <1>1, NodeIs
<1>3. PICK i : i = FindEntry(x, k)  OBVIOUS
<1>4. i \in 1 .. n /\ e[i - 1] =< k /\ k < e[i]  BY <1>1, <1>2, <1>3, FindEntryIs
<1>5. Entry(x, l, h, x.kids[i], e[i - 1], e[i])  BY <1>1, <1>2, <1>4 DEF Entry
<1> QED BY <1>3, <1>4, <1>5

\* Entry (c, u, v) of a node whose child old, from a to b, shares its interval
\* with after, from k on.  E tells the entries there were.
SharedEntry(E, c, u, v, old, after, a, k, b) ==
    \/ E /\ u # a
    \/ c = old /\ u = a /\ v = k
    \/ c = after /\ u = k /\ v = b

\* Node y is x with that entry.
IsNodeWith(y, x, l, h, old, after, a, k, b) ==
    /\ y \in Node /\ SamePlace(y, x) /\ Len(y.kids) = Len(x.kids) + 1
    /\ NodeSorted(y, l, h)
    /\ \A c, u, v : Entry(y, l, h, c, u, v)
                      <=> SharedEntry(Entry(x, l, h, c, u, v), c, u, v, old, after, a, k, b)

\* That is what insert_key_to_index_no_split makes.
LEMMA InsertKeyIs ==
    ASSUME KeysNear, NEW x \in Node, NEW l, NEW h, NodeSorted(x, l, h),
           NEW old, NEW a, NEW b, Entry(x, l, h, old, a, b),
           NEW k \in Keys, a < k, k < b, NEW after \in Nat,
           NEW y, y = insert_key_to_index_no_split(x, k, after)
    PROVE  IsNodeWith(y, x, l, h, old, after, a, k, b)
<1>1. PICK n \in Nat : n = Len(x.kids)  BY NodeIs
<1>2. PICK e : e = bounds(x, l, h) /\ AreBounds(e, n, x, l, h)  BY <1>1, NodeIs
<1>3. PICK w : w = x.keys  OBVIOUS
<1>4. PICK z : z = x.kids  OBVIOUS
<1>5. /\ w \in Seq(Keys \cup {Garbage}) /\ Len(w) = n
      /\ z \in Seq(Nat) /\ Len(z) = n /\ n # 0
  BY <1>1, <1>2, <1>3, <1>4, NodeIs DEF AreBounds
<1>6. /\ e \in [0 .. n -> Int] /\ e[0] = l /\ e[n] = h
      /\ \A i \in 1 .. n - 1 : e[i] = w[i] /\ e[i] \in Keys
      /\ \A i, j \in 0 .. n : i < j => e[i] < e[j]
  BY <1>2, <1>3 DEF AreBounds
<1>7. PICK p \in 1 .. n : old = z[p] /\ a = e[p - 1] /\ b = e[p]
  BY <1>1, <1>2, <1>4 DEF Entry
<1>8. a \in Int /\ b \in Int /\ l \in Int /\ h \in Int /\ l =< a /\ b =< h /\ k \in Int
  BY EntryIs, KeyBounds
<1>9. PICK q : q = FindEntry(x, k)  OBVIOUS
<1>10. q \in 1 .. n /\ e[q - 1] =< k /\ k < e[q]
  <2>1. l =< k /\ k < h  BY <1>8
  <2> QED BY <1>1, <1>2, <1>9, <2>1, FindEntryIs
<1>11. q = p
  <2>1. CASE q < p
    <3>1. q \in 0 .. n /\ p - 1 \in 0 .. n /\ (q = p - 1 \/ q < p - 1)
      BY <1>10, <2>1
    <3>2. e[q] =< e[p - 1] /\ e[q] \in Int  BY <1>6, <3>1
    <3> QED BY <1>7, <1>8, <1>10, <3>2
  <2>2. CASE p < q
    <3>1. p \in 0 .. n /\ q - 1 \in 0 .. n /\ (p = q - 1 \/ p < q - 1)
      BY <1>10, <2>2
    <3>2. e[p] =< e[q - 1] /\ e[q - 1] \in Int  BY <1>6, <3>1
    <3> QED BY <1>7, <1>8, <1>10, <3>2
  <2> QED BY <1>10, <2>1, <2>2
<1>12. PICK r : r = InsertAt(w, p, k)  OBVIOUS
<1>13. PICK s : s = InsertAt(z, p + 1, after)  OBVIOUS
<1>14. r \in Seq(Keys \cup {Garbage}) /\ IsInserted(r, w, p, k)
  <2>1. p \in 1 .. Len(w) + 1 /\ k \in Keys \cup {Garbage}  BY <1>5
  <2> QED BY <1>5, <1>12, <2>1, InsertedIs
<1>15. s \in Seq(Nat) /\ IsInserted(s, z, p + 1, after)
  <2>1. p + 1 \in 1 .. Len(z) + 1  BY <1>5
  <2> QED BY <1>5, <1>13, <2>1, InsertedIs
<1>16. y.keys = r /\ y.kids = s /\ y \in Node /\ SamePlace(y, x)
  BY <1>3, <1>4, <1>9, <1>11, <1>12, <1>13, <1>14, <1>15
     DEF insert_key_to_index_no_split, Node, SamePlace
<1>17. /\ Len(r) = n + 1 /\ r[p] = k
       /\ \A j \in 1 .. n : IF j < p THEN r[j] = w[j] ELSE r[j + 1] = w[j]
  BY <1>5, <1>14 DEF IsInserted
<1>18. /\ Len(s) = n + 1 /\ s[p + 1] = after
       /\ \A j \in 1 .. n : IF j < p + 1 THEN s[j] = z[j] ELSE s[j + 1] = z[j]
  BY <1>5, <1>15 DEF IsInserted
<1>19. PICK f : f = [j \in 0 .. n + 1 |-> IF j < p THEN e[j] ELSE IF j = p THEN k ELSE e[j - 1]]
  OBVIOUS
<1>20. ASSUME NEW j \in 0 .. n + 1
       PROVE  /\ f[j] \in Int
              /\ j < p => j \in 0 .. n /\ f[j] = e[j] /\ f[j] < k
              /\ j = p => f[j] = k
              /\ j > p => j - 1 \in 0 .. n /\ f[j] = e[j - 1] /\ f[j] > k
  <2>1. CASE j < p
    <3>1. PICK d : d = p - 1  OBVIOUS
    <3>2. j \in 0 .. n /\ d \in 0 .. n /\ (j = d \/ j < d)  BY <2>1, <3>1
    <3>3. e[j] =< e[d] /\ e[j] \in Int  BY <1>6, <3>2
    <3>4. f[j] = e[j]  BY <1>19, <2>1
    <3> QED BY <1>7, <1>8, <2>1, <3>1, <3>2, <3>3, <3>4
  <2>2. CASE j = p
    <3>1. f[j] = k  BY <1>19, <2>2
    <3> QED BY <1>8, <2>2, <3>1
  <2>3. CASE j > p
    <3>1. PICK g \in 0 .. n : g = j - 1 /\ (g = p \/ p < g)
      <4>1. PICK g : g = j - 1  OBVIOUS
      <4>2. g \in 0 .. n /\ (g = p \/ p < g)  BY <2>3, <4>1
      <4> QED BY <4>1, <4>2
    <3>2. e[p] =< e[g] /\ e[g] \in Int /\ f[j] = e[g]
      <4>1. ~ j < p /\ j # p  BY <2>3
      <4>2. f[j] = e[j - 1]  BY <1>19, <4>1
      <4>3. p \in 0 .. n /\ e[p] =< e[g] /\ e[g] \in Int  BY <1>6, <3>1
      <4> QED BY <3>1, <4>2, <4>3
    <3> QED BY <1>7, <1>8, <2>3, <3>1, <3>2
  <2> QED BY <2>1, <2>2, <2>3
<1>21. f \in [0 .. n + 1 -> Int]  BY <1>19, <1>20
<1>22. \A i, j \in 0 .. n + 1 : i < j => f[i] < f[j]
  <2> SUFFICES ASSUME NEW i \in 0 .. n + 1, NEW j \in 0 .. n + 1, i < j PROVE f[i] < f[j]
    OBVIOUS
  <2>1. CASE j < p
    <3>1. i \in 0 .. n /\ j \in 0 .. n /\ f[i] = e[i] /\ f[j] = e[j]  BY <1>20, <2>1
    <3> QED BY <1>6, <3>1
  <2>2. CASE i > p
    <3>1. PICK c : c = i - 1  OBVIOUS
    <3>2. PICK d : d = j - 1  OBVIOUS
    <3>3. c \in 0 .. n /\ d \in 0 .. n /\ c < d /\ f[i] = e[c] /\ f[j] = e[d]
      BY <1>20, <2>2, <3>1, <3>2
    <3> QED BY <1>6, <3>3
  <2>3. CASE ~ j < p /\ ~ i > p
    <3>1. f[i] \in Int /\ (i < p => f[i] < k) /\ (i = p => f[i] = k)  BY <1>20
    <3>2. f[j] \in Int /\ (j > p => f[j] > k) /\ (j = p => f[j] = k)  BY <1>20
    <3> QED BY <1>8, <2>3, <3>1, <3>2
  <2> QED BY <2>1, <2>2, <2>3
<1>23. f[0] = l /\ f[n + 1] = h
  <2>1. 0 < p /\ 0 \in 0 .. n + 1 /\ n + 1 > p /\ n + 1 \in 0 .. n + 1 /\ n + 1 - 1 = n  OBVIOUS
  <2>2. f[0] = e[0]  BY <1>20, <2>1
  <2>3. f[n + 1] = e[n]
    <3>1. PICK m : m = n + 1  OBVIOUS
    <3>2. m \in 0 .. n + 1 /\ m > p /\ m - 1 = n  BY <3>1
    <3>3. f[m] = e[m - 1]  BY <1>20, <3>2
    <3> QED BY <3>1, <3>2, <3>3
  <2> QED BY <1>6, <2>2, <2>3
<1>24. ASSUME NEW j \in 1 .. n PROVE f[j] = r[j] /\ f[j] \in Keys
  <2>1. CASE j < p
    <3>1. j \in 1 .. n - 1  BY <2>1
    <3> QED BY <1>6, <1>17, <1>20, <2>1, <3>1
  <2>2. CASE j = p  BY <1>17, <1>20, <2>2
  <2>3. CASE j > p
    <3>1. PICK g : g = j - 1  OBVIOUS
    <3>2. g \in 1 .. n - 1 /\ g \in 1 .. n /\ ~ g < p /\ g + 1 = j  BY <2>3, <3>1
    <3>3. f[j] = e[g]  BY <1>20, <2>3, <3>1
    <3>4. r[j] = w[g]  BY <1>17, <3>2
    <3> QED BY <1>6, <3>2, <3>3, <3>4
  <2> QED BY <2>1, <2>2, <2>3
<1>25. AreBounds(f, n + 1, y, l, h)
  <2>1. PICK m \in Nat : m = n + 1 /\ m - 1 = n  OBVIOUS
  <2>2. AreBounds(f, m, y, l, h)
    <3>1. m = Len(y.kids) /\ m = Len(y.keys) /\ m # 0  BY <1>16, <1>17, <1>18, <2>1
    <3>2. f \in [0 .. m -> Int] /\ f[0] = l /\ f[m] = h  BY <1>21, <1>23, <2>1
    <3>3. \A i \in 1 .. m - 1 : f[i] = y.keys[i] /\ f[i] \in Keys  BY <1>16, <1>24, <2>1
    <3>4. \A i, j \in 0 .. m : i < j => f[i] < f[j]  BY <1>22, <2>1
    <3> QED BY <3>1, <3>2, <3>3, <3>4 DEF AreBounds
  <2> QED BY <2>1, <2>2
<1>26. /\ NodeSorted(y, l, h)
       /\ \A c, u, v : Entry(y, l, h, c, u, v) <=>
            \E i \in 1 .. n + 1 : c = s[i] /\ u = f[i - 1] /\ v = f[i]
  BY <1>16, <1>25, BoundsAre
<1>27. \A c, u, v : Entry(x, l, h, c, u, v) <=>
            \E i \in 1 .. n : c = z[i] /\ u = e[i - 1] /\ v = e[i]
  BY <1>2, <1>4, BoundsAre
<1>28. ASSUME NEW i \in 1 .. n, i # p PROVE e[i - 1] # a
  <2>1. PICK g : g = i - 1  OBVIOUS
  <2>2. PICK d : d = p - 1  OBVIOUS
  <2>3. g \in 0 .. n /\ d \in 0 .. n /\ (g < d \/ d < g)  BY <1>28, <2>1, <2>2
  <2>4. e[g] < e[d] \/ e[d] < e[g]  BY <1>6, <2>3
  <2>5. e[g] \in Int /\ e[d] \in Int /\ a = e[d]  BY <1>6, <1>7, <2>2, <2>3
  <2> QED BY <2>1, <2>4, <2>5
<1>29. ASSUME NEW i \in 1 .. n
       PROVE  /\ i < p => s[i] = z[i] /\ f[i - 1] = e[i - 1] /\ f[i] = e[i]
              /\ i > p => s[i + 1] = z[i] /\ f[i] = e[i - 1] /\ f[i + 1] = e[i]
  <2>1. ASSUME i < p PROVE s[i] = z[i] /\ f[i - 1] = e[i - 1] /\ f[i] = e[i]
    <3>1. PICK g : g = i - 1  OBVIOUS
    <3>2. g \in 0 .. n + 1 /\ g < p /\ i \in 0 .. n + 1 /\ i < p + 1  BY <2>1, <3>1
    <3>3. f[g] = e[g] /\ f[i] = e[i]  BY <1>20, <2>1, <3>2
    <3>4. s[i] = z[i]  BY <1>18, <3>2
    <3> QED BY <3>1, <3>3, <3>4
  <2>2. ASSUME i > p PROVE s[i + 1] = z[i] /\ f[i] = e[i - 1] /\ f[i + 1] = e[i]
    <3>1. PICK g : g = i + 1  OBVIOUS
    <3>2. g \in 0 .. n + 1 /\ g > p /\ i \in 0 .. n + 1 /\ ~ i < p + 1 /\ g - 1 = i
      BY <2>2, <3>1
    <3>3. f[g] = e[g - 1] /\ f[i] = e[i - 1]  BY <1>20, <2>2, <3>2
    <3>4. s[i + 1] = z[i]  BY <1>18, <3>2
    <3> QED BY <3>1, <3>2, <3>3, <3>4
  <2> QED BY <2>1, <2>2
<1>30. s[p] = z[p] /\ f[p - 1] = a /\ f[p] = k
  <2>1. PICK g : g = p - 1  OBVIOUS
  <2>2. g \in 0 .. n + 1 /\ g < p /\ p \in 0 .. n + 1 /\ p < p + 1  BY <2>1
  <2>3. f[g] = e[g] /\ f[p] = k  BY <1>20, <2>2
  <2>4. s[p] = z[p]  BY <1>18, <2>2
  <2> QED BY <1>7, <2>1, <2>3, <2>4
<1>31. PICK o : o = p + 1  OBVIOUS
<1>32. o \in 1 .. n + 1 /\ s[o] = after /\ f[o - 1] = k /\ f[o] = b
  <2>1. o \in 0 .. n + 1 /\ o > p /\ o - 1 = p /\ o \in 1 .. n + 1  BY <1>31
  <2>2. f[o] = e[o - 1]  BY <1>20, <2>1
  <2> QED BY <1>7, <1>18, <1>30, <1>31, <2>1, <2>2
<1>33. ASSUME NEW c, NEW u, NEW v
       PROVE  Entry(y, l, h, c, u, v)
                <=> SharedEntry(Entry(x, l, h, c, u, v), c, u, v, old, after, a, k, b)
  <2>1. ASSUME Entry(y, l, h, c, u, v)
        PROVE  SharedEntry(Entry(x, l, h, c, u, v), c, u, v, old, after, a, k, b)
    <3>1. PICK i \in 1 .. n + 1 : c = s[i] /\ u = f[i - 1] /\ v = f[i]
      BY <1>26, <2>1
    <3>2. CASE i < p
      <4>1. i \in 1 .. n /\ i # p  BY <3>2
      <4>2. c = z[i] /\ u = e[i - 1] /\ v = e[i]  BY <1>29, <3>1, <3>2, <4>1
      <4>3. u # a  BY <1>28, <4>1, <4>2
      <4> QED BY <1>27, <4>1, <4>2, <4>3 DEF SharedEntry
    <3>3. CASE i = p
      <4>1. c = old /\ u = a /\ v = k  BY <1>7, <1>30, <3>1, <3>3
      <4> QED BY <4>1 DEF SharedEntry
    <3>4. CASE i = o
      <4>1. c = after /\ u = k /\ v = b  BY <1>32, <3>1, <3>4
      <4> QED BY <4>1 DEF SharedEntry
    <3>5. CASE i > o
      <4>1. PICK g : g = i - 1  OBVIOUS
      <4>2. g \in 1 .. n /\ g > p /\ g # p /\ g + 1 = i  BY <1>31, <3>5, <4>1
      <4>3. c = z[g] /\ u = e[g - 1] /\ v = e[g]
        <5>1. s[g + 1] = z[g] /\ f[g] = e[g - 1] /\ f[g + 1] = e[g]
          BY <1>29, <4>2
        <5> QED BY <3>1, <4>1, <4>2, <5>1
      <4>4. u # a  BY <1>28, <4>2, <4>3
      <4> QED BY <1>27, <4>2, <4>3, <4>4 DEF SharedEntry
    <3> QED BY <1>31, <3>2, <3>3, <3>4, <3>5
  <2>2. ASSUME Entry(x, l, h, c, u, v), u # a PROVE Entry(y, l, h, c, u, v)
    <3>1. PICK i \in 1 .. n : c = z[i] /\ u = e[i - 1] /\ v = e[i]
      BY <1>27, <2>2
    <3>2. i # p  BY <1>7, <2>2, <3>1
    <3>3. CASE i < p
      <4>1. i \in 1 .. n + 1  OBVIOUS
      <4> QED BY <1>26, <1>29, <3>1, <3>3, <4>1
    <3>4. CASE i > p
      <4>1. PICK g : g = i + 1  OBVIOUS
      <4>2. g \in 1 .. n + 1 /\ g - 1 = i  BY <4>1
      <4>3. c = s[g] /\ u = f[g - 1] /\ v = f[g]  BY <1>29, <3>1, <3>4, <4>1, <4>2
      <4> QED BY <1>26, <4>2, <4>3
    <3> QED BY <3>2, <3>3, <3>4
  <2>3. ASSUME c = old /\ u = a /\ v = k PROVE Entry(y, l, h, c, u, v)
    <3>1. p \in 1 .. n + 1  OBVIOUS
    <3>2. c = s[p] /\ u = f[p - 1] /\ v = f[p]  BY <1>7, <1>30, <2>3
    <3> QED BY <1>26, <3>1, <3>2
  <2>4. ASSUME c = after /\ u = k /\ v = b PROVE Entry(y, l, h, c, u, v)
    <3>1. c = s[o] /\ u = f[o - 1] /\ v = f[o]  BY <1>32, <2>4
    <3> QED BY <1>26, <1>32, <3>1
  <2> QED BY <2>1, <2>2, <2>3, <2>4 DEF SharedEntry
<1>34. Len(y.kids) = Len(x.kids) + 1  BY <1>1, <1>16, <1>18
<1> QED BY <1>16, <1>26, <1>33, <1>34 DEF IsNodeWith

\* The first p of n children of a node, and the others.
IsNodeCutAt(a, b, x, p, n) ==
    /\ a = [x EXCEPT !.keys = SubSeq(@, 1, p), !.kids = SubSeq(@, 1, p)]
    /\ b = [x EXCEPT !.keys = SubSeq(@, p + 1, n), !.kids = SubSeq(@, p + 1, n)]

\* Node x in two, the p children below t and the others.
IsNodeParted(a, b, x, l, h, p, t) ==
    /\ a \in Node /\ SamePlace(a, x) /\ Len(a.kids) = p
    /\ NodeSorted(a, l, t)
    /\ \A c, u, v : Entry(a, l, t, c, u, v) <=> Entry(x, l, h, c, u, v) /\ u < t
    /\ b \in Node /\ SamePlace(b, x) /\ Len(b.kids) = Len(x.kids) - p
    /\ NodeSorted(b, t, h)
    /\ \A c, u, v : Entry(b, t, h, c, u, v) <=> Entry(x, l, h, c, u, v) /\ ~ u < t

\* A node cut at a separator.
LEMMA CutNode ==
    ASSUME NEW x \in Node, NEW l, NEW h, NodeSorted(x, l, h),
           NEW n \in Nat, n = Len(x.kids), NEW p \in 1 .. n - 1,
           NEW t, t = x.keys[p],
           NEW a, NEW b, IsNodeCutAt(a, b, x, p, n)
    PROVE  IsNodeParted(a, b, x, l, h, p, t)
<1>1. PICK e : e = bounds(x, l, h) /\ AreBounds(e, n, x, l, h)  BY NodeIs
<1>2. PICK w : w = x.keys  OBVIOUS
<1>3. PICK z : z = x.kids  OBVIOUS
<1>4. /\ w \in Seq(Keys \cup {Garbage}) /\ Len(w) = n
      /\ z \in Seq(Nat) /\ Len(z) = n /\ n # 0
  BY <1>1, <1>2, <1>3, NodeIs DEF AreBounds
<1>5. /\ e \in [0 .. n -> Int] /\ e[0] = l /\ e[n] = h
      /\ \A i \in 1 .. n - 1 : e[i] = w[i] /\ e[i] \in Keys
      /\ \A i, j \in 0 .. n : i < j => e[i] < e[j]
  BY <1>1, <1>2 DEF AreBounds
<1>6. t = e[p] /\ p \in 0 .. n  BY <1>2, <1>5
<1>7. PICK w1 : w1 = SubSeq(w, 1, p)  OBVIOUS
<1>8. PICK w2 : w2 = SubSeq(w, p + 1, n)  OBVIOUS
<1>9. PICK z1 : z1 = SubSeq(z, 1, p)  OBVIOUS
<1>10. PICK z2 : z2 = SubSeq(z, p + 1, n)  OBVIOUS
<1>11. PICK m \in Nat : m = n - p /\ m # 0 /\ p + m = n
  <2>1. PICK m : m = n - p  OBVIOUS
  <2>2. m \in Nat /\ m # 0 /\ p + m = n  BY <2>1
  <2> QED BY <2>1, <2>2
<1>12. /\ w1 \in Seq(Keys \cup {Garbage}) /\ Len(w1) = p /\ \A j \in 1 .. p : w1[j] = w[j]
       /\ w2 \in Seq(Keys \cup {Garbage}) /\ Len(w2) = m /\ \A j \in 1 .. m : w2[j] = w[p + j]
  <2>1. w \in Seq(Keys \cup {Garbage}) /\ p \in 0 .. Len(w)  BY <1>4, <1>6
  <2>2. /\ SubSeq(w, 1, p) \in Seq(Keys \cup {Garbage})
        /\ Len(SubSeq(w, 1, p)) = p
        /\ \A j \in 1 .. p : SubSeq(w, 1, p)[j] = w[j]
        /\ SubSeq(w, p + 1, Len(w)) \in Seq(Keys \cup {Garbage})
        /\ Len(SubSeq(w, p + 1, Len(w))) = Len(w) - p
        /\ \A j \in 1 .. Len(w) - p : SubSeq(w, p + 1, Len(w))[j] = w[p + j]
    BY <2>1, CutIs
  <2>3. Len(w) = n /\ Len(w) - p = m  BY <1>4, <1>11
  <2> QED BY <1>7, <1>8, <2>2, <2>3
<1>13. /\ z1 \in Seq(Nat) /\ Len(z1) = p /\ \A j \in 1 .. p : z1[j] = z[j]
       /\ z2 \in Seq(Nat) /\ Len(z2) = m /\ \A j \in 1 .. m : z2[j] = z[p + j]
  <2>1. z \in Seq(Nat) /\ p \in 0 .. Len(z)  BY <1>4, <1>6
  <2>2. /\ SubSeq(z, 1, p) \in Seq(Nat)
        /\ Len(SubSeq(z, 1, p)) = p
        /\ \A j \in 1 .. p : SubSeq(z, 1, p)[j] = z[j]
        /\ SubSeq(z, p + 1, Len(z)) \in Seq(Nat)
        /\ Len(SubSeq(z, p + 1, Len(z))) = Len(z) - p
        /\ \A j \in 1 .. Len(z) - p : SubSeq(z, p + 1, Len(z))[j] = z[p + j]
    BY <2>1, CutIs
  <2>3. Len(z) = n /\ Len(z) - p = m  BY <1>4, <1>11
  <2> QED BY <1>9, <1>10, <2>2, <2>3
<1>14. a.keys = w1 /\ a.kids = z1 /\ a \in Node /\ SamePlace(a, x)
  BY <1>2, <1>3, <1>7, <1>9, <1>12, <1>13 DEF IsNodeCutAt, Node, SamePlace
<1>15. b.keys = w2 /\ b.kids = z2 /\ b \in Node /\ SamePlace(b, x)
  BY <1>2, <1>3, <1>8, <1>10, <1>12, <1>13 DEF IsNodeCutAt, Node, SamePlace
<1>16. PICK f : f = [j \in 0 .. p |-> e[j]]  OBVIOUS
<1>17. PICK g : g = [j \in 0 .. m |-> e[p + j]]  OBVIOUS
<1>18. AreBounds(f, p, a, l, t)
  <2>1. p = Len(a.kids) /\ p = Len(a.keys) /\ p # 0  BY <1>12, <1>13, <1>14
  <2>2. \A j \in 0 .. p : j \in 0 .. n /\ f[j] = e[j]  BY <1>6, <1>16
  <2>3. f \in [0 .. p -> Int]  BY <1>5, <1>16, <2>2
  <2>4. f[0] = l /\ f[p] = t  BY <1>5, <1>6, <2>2
  <2>5. \A i \in 1 .. p - 1 : f[i] = a.keys[i] /\ f[i] \in Keys
    <3> SUFFICES ASSUME NEW i \in 1 .. p - 1 PROVE f[i] = a.keys[i] /\ f[i] \in Keys
      OBVIOUS
    <3>1. i \in 1 .. p /\ i \in 1 .. n - 1 /\ i \in 0 .. p  OBVIOUS
    <3> QED BY <1>5, <1>12, <1>14, <2>2, <3>1
  <2>6. \A i, j \in 0 .. p : i < j => f[i] < f[j]  BY <1>5, <2>2
  <2> QED BY <2>1, <2>3, <2>4, <2>5, <2>6 DEF AreBounds
<1>19. AreBounds(g, m, b, t, h)
  <2>1. m = Len(b.kids) /\ m = Len(b.keys) /\ m # 0  BY <1>11, <1>12, <1>13, <1>15
  <2>2. ASSUME NEW j \in 0 .. m PROVE p + j \in 0 .. n /\ g[j] = e[p + j] /\ g[j] \in Int
    <3>1. PICK i : i = p + j  OBVIOUS
    <3>2. i \in 0 .. n  BY <1>11, <3>1
    <3>3. g[j] = e[i]  BY <1>17, <3>1
    <3> QED BY <1>5, <3>1, <3>2, <3>3
  <2>3. g \in [0 .. m -> Int]  BY <1>17, <2>2
  <2>4. g[0] = t /\ g[m] = h
    <3>1. 0 \in 0 .. m /\ m \in 0 .. m /\ p + 0 = p  OBVIOUS
    <3>2. g[0] = e[p + 0] /\ g[m] = e[p + m]  BY <2>2, <3>1
    <3> QED BY <1>5, <1>6, <1>11, <3>1, <3>2
  <2>5. \A i \in 1 .. m - 1 : g[i] = b.keys[i] /\ g[i] \in Keys
    <3> SUFFICES ASSUME NEW i \in 1 .. m - 1 PROVE g[i] = b.keys[i] /\ g[i] \in Keys
      OBVIOUS
    <3>1. i \in 1 .. m /\ i \in 0 .. m  OBVIOUS
    <3>2. PICK j : j = p + i  OBVIOUS
    <3>3. j \in 1 .. n - 1  BY <1>11, <3>2
    <3>4. g[i] = e[j] /\ w2[i] = w[j]  BY <1>12, <2>2, <3>1, <3>2
    <3> QED BY <1>5, <1>15, <3>3, <3>4
  <2>6. ASSUME NEW i \in 0 .. m, NEW j \in 0 .. m, i < j PROVE g[i] < g[j]
    <3>1. PICK c : c = p + i  OBVIOUS
    <3>2. PICK d : d = p + j  OBVIOUS
    <3>3. c \in 0 .. n /\ d \in 0 .. n /\ c < d  BY <1>11, <2>6, <3>1, <3>2
    <3>4. g[i] = e[c] /\ g[j] = e[d]  BY <2>2, <3>1, <3>2
    <3> QED BY <1>5, <3>3, <3>4
  <2> QED BY <2>1, <2>3, <2>4, <2>5, <2>6 DEF AreBounds
<1>20. /\ NodeSorted(a, l, t)
       /\ \A c, u, v : Entry(a, l, t, c, u, v) <=>
            \E i \in 1 .. p : c = z1[i] /\ u = f[i - 1] /\ v = f[i]
  <2>1. p \in Nat  BY <1>6
  <2>2. /\ NodeSorted(a, l, t)
        /\ \A c, u, v : Entry(a, l, t, c, u, v) <=>
             \E i \in 1 .. p : c = a.kids[i] /\ u = f[i - 1] /\ v = f[i]
    BY <1>18, <2>1, BoundsAre
  <2> QED BY <1>14, <2>2
<1>21. /\ NodeSorted(b, t, h)
       /\ \A c, u, v : Entry(b, t, h, c, u, v) <=>
            \E i \in 1 .. m : c = z2[i] /\ u = g[i - 1] /\ v = g[i]
  BY <1>15, <1>19, BoundsAre
<1>22. \A c, u, v : Entry(x, l, h, c, u, v) <=>
            \E i \in 1 .. n : c = z[i] /\ u = e[i - 1] /\ v = e[i]
  BY <1>1, <1>3, BoundsAre
<1>23. ASSUME NEW i \in 1 .. n PROVE e[i - 1] < t <=> i =< p
  <2>1. PICK c : c = i - 1  OBVIOUS
  <2>2. c \in 0 .. n /\ (c < p \/ c = p \/ p < c)  BY <2>1
  <2>3. c < p <=> i =< p  BY <2>1
  <2>4. e[c] \in Int /\ e[p] \in Int  BY <1>5, <1>6, <2>2
  <2>5. (c < p => e[c] < e[p]) /\ (p < c => e[p] < e[c])  BY <1>5, <1>6, <2>2
  <2>6. e[c] < t <=> c < p  BY <1>6, <2>2, <2>4, <2>5
  <2> QED BY <2>1, <2>3, <2>6
<1>24. ASSUME NEW i \in 1 .. p
       PROVE  i \in 1 .. n /\ z1[i] = z[i] /\ f[i - 1] = e[i - 1] /\ f[i] = e[i]
  <2>1. PICK c : c = i - 1  OBVIOUS
  <2>2. c \in 0 .. p /\ i \in 0 .. p /\ i \in 1 .. n  BY <2>1
  <2> QED BY <1>13, <1>16, <2>1, <2>2
<1>25. ASSUME NEW i \in 1 .. m, NEW j, j = p + i
       PROVE  j \in 1 .. n /\ ~ j =< p /\ z2[i] = z[j] /\ g[i - 1] = e[j - 1] /\ g[i] = e[j]
  <2>1. PICK c : c = i - 1  OBVIOUS
  <2>2. PICK d : d = j - 1  OBVIOUS
  <2>3. c \in 0 .. m /\ i \in 0 .. m /\ d = p + c /\ j \in 1 .. n /\ ~ j =< p
    BY <1>11, <1>25, <2>1, <2>2
  <2>4. g[c] = e[d] /\ g[i] = e[j]  BY <1>17, <1>25, <2>3
  <2>5. z2[i] = z[j]  BY <1>13, <1>25
  <2> QED BY <2>1, <2>2, <2>3, <2>4, <2>5
<1>26. ASSUME NEW c, NEW u, NEW v
       PROVE  Entry(a, l, t, c, u, v) <=> Entry(x, l, h, c, u, v) /\ u < t
  <2>1. ASSUME Entry(a, l, t, c, u, v) PROVE Entry(x, l, h, c, u, v) /\ u < t
    <3>1. PICK i \in 1 .. p : c = z1[i] /\ u = f[i - 1] /\ v = f[i]
      BY <1>20, <2>1
    <3>2. i \in 1 .. n /\ c = z[i] /\ u = e[i - 1] /\ v = e[i]  BY <1>24, <3>1
    <3>3. u < t  BY <1>23, <3>2
    <3> QED BY <1>22, <3>2, <3>3
  <2>2. ASSUME Entry(x, l, h, c, u, v), u < t PROVE Entry(a, l, t, c, u, v)
    <3>1. PICK i \in 1 .. n : c = z[i] /\ u = e[i - 1] /\ v = e[i]
      BY <1>22, <2>2
    <3>2. i \in 1 .. p  BY <1>23, <2>2, <3>1
    <3> QED BY <1>20, <1>24, <3>1, <3>2
  <2> QED BY <2>1, <2>2
<1>27. ASSUME NEW c, NEW u, NEW v
       PROVE  Entry(b, t, h, c, u, v) <=> Entry(x, l, h, c, u, v) /\ ~ u < t
  <2>1. ASSUME Entry(b, t, h, c, u, v) PROVE Entry(x, l, h, c, u, v) /\ ~ u < t
    <3>1. PICK i \in 1 .. m : c = z2[i] /\ u = g[i - 1] /\ v = g[i]
      BY <1>21, <2>1
    <3>2. PICK j : j = p + i  OBVIOUS
    <3>3. j \in 1 .. n /\ ~ j =< p /\ c = z[j] /\ u = e[j - 1] /\ v = e[j]
      BY <1>25, <3>1, <3>2
    <3>4. ~ u < t  BY <1>23, <3>3
    <3> QED BY <1>22, <3>3, <3>4
  <2>2. ASSUME Entry(x, l, h, c, u, v), ~ u < t PROVE Entry(b, t, h, c, u, v)
    <3>1. PICK j \in 1 .. n : c = z[j] /\ u = e[j - 1] /\ v = e[j]
      BY <1>22, <2>2
    <3>2. ~ j =< p  BY <1>23, <2>2, <3>1
    <3>3. PICK i : i = j - p  OBVIOUS
    <3>4. i \in 1 .. m /\ j = p + i  BY <1>11, <3>2, <3>3
    <3>5. c = z2[i] /\ u = g[i - 1] /\ v = g[i]  BY <1>25, <3>1, <3>4
    <3> QED BY <1>21, <3>4, <3>5
  <2> QED BY <2>1, <2>2
<1>28. Len(a.kids) = p /\ Len(b.kids) = Len(x.kids) - p
  BY <1>11, <1>13, <1>14, <1>15
<1> QED BY <1>14, <1>15, <1>20, <1>21, <1>26, <1>27, <1>28 DEF IsNodeParted

\* The two halves of node x with the child after, around the key t.
NodeHalved(y, z, t, x, l, h, old, after, a, k, b) ==
    /\ t \in Keys /\ l < t /\ t < h
    /\ y \in Node /\ SamePlace(y, x) /\ Len(y.kids) \in {Order \div 2, (Order \div 2) + 1}
    /\ z \in Node /\ SamePlace(z, x) /\ Len(z.kids) \in {Order \div 2, (Order \div 2) + 1}
    /\ NodeSorted(y, l, t) /\ NodeSorted(z, t, h)
    /\ \A c, u, v : Entry(y, l, t, c, u, v)
         <=> SharedEntry(Entry(x, l, h, c, u, v), c, u, v, old, after, a, k, b) /\ u < t
    /\ \A c, u, v : Entry(z, t, h, c, u, v)
         <=> SharedEntry(Entry(x, l, h, c, u, v), c, u, v, old, after, a, k, b) /\ ~ u < t

\* The new child belongs into the left part.
LEMMA PartLeft ==
    ASSUME KeysNear, NEW x \in Node, NEW l, NEW h, NodeSorted(x, l, h),
           NEW n \in Nat, n = Len(x.kids), NEW p \in 1 .. n - 1,
           NEW t, t = x.keys[p],
           NEW y, NEW z, IsNodeCutAt(y, z, x, p, n),
           NEW old, NEW a, NEW b, Entry(x, l, h, old, a, b),
           NEW k \in Keys, a < k, k < b, NEW after \in Nat, k < t,
           NEW w, w = insert_key_to_index_no_split(y, k, after),
           p + 1 \in {Order \div 2, (Order \div 2) + 1},
           n - p \in {Order \div 2, (Order \div 2) + 1}
    PROVE  NodeHalved(w, z, t, x, l, h, old, after, a, k, b)
<1>1. /\ y \in Node /\ SamePlace(y, x) /\ Len(y.kids) = p
      /\ NodeSorted(y, l, t)
      /\ \A c, u, v : Entry(y, l, t, c, u, v) <=> Entry(x, l, h, c, u, v) /\ u < t
      /\ z \in Node /\ SamePlace(z, x) /\ Len(z.kids) = n - p
      /\ NodeSorted(z, t, h)
      /\ \A c, u, v : Entry(z, t, h, c, u, v) <=> Entry(x, l, h, c, u, v) /\ ~ u < t
  <2>1. IsNodeParted(y, z, x, l, h, p, t)  BY CutNode
  <2> QED BY <2>1 DEF IsNodeParted
<1>2. t \in Keys /\ l < t /\ t < h /\ l \in Int /\ h \in Int /\ t \in Int
  <2>1. PICK e : e = bounds(x, l, h) /\ AreBounds(e, n, x, l, h)  BY NodeIs
  <2>2. p \in 1 .. n - 1 /\ p \in 0 .. n /\ 0 < p /\ p < n /\ 0 \in 0 .. n /\ n \in 0 .. n
    OBVIOUS
  <2>3. e[p] = t /\ e[p] \in Keys  BY <2>1, <2>2 DEF AreBounds
  <2>4. e[0] < e[p] /\ e[p] < e[n] /\ e[0] = l /\ e[n] = h /\ e \in [0 .. n -> Int]
    BY <2>1, <2>2 DEF AreBounds
  <2> QED BY <2>2, <2>3, <2>4
<1>3. a \in Int /\ b \in Int /\ k \in Int  BY EntryIs, KeyBounds
<1>4. a < t  BY <1>2, <1>3
<1>5. Entry(y, l, t, old, a, b)  BY <1>1, <1>4
<1>6. IsNodeWith(w, y, l, t, old, after, a, k, b)
  BY <1>1, <1>5, InsertKeyIs
<1>7. /\ w \in Node /\ SamePlace(w, y) /\ Len(w.kids) = p + 1
      /\ NodeSorted(w, l, t)
      /\ \A c, u, v : Entry(w, l, t, c, u, v)
           <=> SharedEntry(Entry(y, l, t, c, u, v), c, u, v, old, after, a, k, b)
  BY <1>1, <1>6 DEF IsNodeWith
<1>8. SamePlace(w, x)  BY <1>1, <1>7 DEF SamePlace
<1>9. ASSUME NEW c, NEW u, NEW v
      PROVE  Entry(w, l, t, c, u, v)
        <=> SharedEntry(Entry(x, l, h, c, u, v), c, u, v, old, after, a, k, b) /\ u < t
  <2>1. Entry(w, l, t, c, u, v)
           <=> SharedEntry(Entry(y, l, t, c, u, v), c, u, v, old, after, a, k, b)
    BY <1>7
  <2>2. Entry(y, l, t, c, u, v) <=> Entry(x, l, h, c, u, v) /\ u < t  BY <1>1
  <2> QED BY <1>4, <2>1, <2>2 DEF SharedEntry
<1>10. ASSUME NEW c, NEW u, NEW v
       PROVE  Entry(z, t, h, c, u, v)
        <=> SharedEntry(Entry(x, l, h, c, u, v), c, u, v, old, after, a, k, b) /\ ~ u < t
  <2>1. Entry(z, t, h, c, u, v) <=> Entry(x, l, h, c, u, v) /\ ~ u < t  BY <1>1
  <2> QED BY <1>4, <2>1 DEF SharedEntry
<1> QED BY <1>1, <1>2, <1>7, <1>8, <1>9, <1>10 DEF NodeHalved

\* The new child belongs into the right part.
LEMMA PartRight ==
    ASSUME KeysNear, NEW x \in Node, NEW l, NEW h, NodeSorted(x, l, h),
           NEW n \in Nat, n = Len(x.kids), NEW p \in 1 .. n - 1,
           NEW t, t = x.keys[p],
           NEW y, NEW z, IsNodeCutAt(y, z, x, p, n),
           NEW old, NEW a, NEW b, Entry(x, l, h, old, a, b),
           NEW k \in Keys, a < k, k < b, NEW after \in Nat, ~ a < t,
           NEW w, w = insert_key_to_index_no_split(z, k, after),
           p \in {Order \div 2, (Order \div 2) + 1},
           n - p + 1 \in {Order \div 2, (Order \div 2) + 1}
    PROVE  NodeHalved(y, w, t, x, l, h, old, after, a, k, b)
<1>1. /\ y \in Node /\ SamePlace(y, x) /\ Len(y.kids) = p
      /\ NodeSorted(y, l, t)
      /\ \A c, u, v : Entry(y, l, t, c, u, v) <=> Entry(x, l, h, c, u, v) /\ u < t
      /\ z \in Node /\ SamePlace(z, x) /\ Len(z.kids) = n - p
      /\ NodeSorted(z, t, h)
      /\ \A c, u, v : Entry(z, t, h, c, u, v) <=> Entry(x, l, h, c, u, v) /\ ~ u < t
  <2>1. IsNodeParted(y, z, x, l, h, p, t)  BY CutNode
  <2> QED BY <2>1 DEF IsNodeParted
<1>2. t \in Keys /\ l < t /\ t < h /\ l \in Int /\ h \in Int /\ t \in Int
  <2>1. PICK e : e = bounds(x, l, h) /\ AreBounds(e, n, x, l, h)  BY NodeIs
  <2>2. p \in 1 .. n - 1 /\ p \in 0 .. n /\ 0 < p /\ p < n /\ 0 \in 0 .. n /\ n \in 0 .. n
    OBVIOUS
  <2>3. e[p] = t /\ e[p] \in Keys  BY <2>1, <2>2 DEF AreBounds
  <2>4. e[0] < e[p] /\ e[p] < e[n] /\ e[0] = l /\ e[n] = h /\ e \in [0 .. n -> Int]
    BY <2>1, <2>2 DEF AreBounds
  <2> QED BY <2>2, <2>3, <2>4
<1>3. a \in Int /\ b \in Int /\ k \in Int  BY EntryIs, KeyBounds
<1>4. ~ k < t  BY <1>2, <1>3
<1>5. Entry(z, t, h, old, a, b)  BY <1>1
<1>6. IsNodeWith(w, z, t, h, old, after, a, k, b)
  BY <1>1, <1>5, InsertKeyIs
<1>7. /\ w \in Node /\ SamePlace(w, z) /\ Len(w.kids) = n - p + 1
      /\ NodeSorted(w, t, h)
      /\ \A c, u, v : Entry(w, t, h, c, u, v)
           <=> SharedEntry(Entry(z, t, h, c, u, v), c, u, v, old, after, a, k, b)
  BY <1>1, <1>6 DEF IsNodeWith
<1>8. SamePlace(w, x)  BY <1>1, <1>7 DEF SamePlace
<1>9. ASSUME NEW c, NEW u, NEW v
      PROVE  Entry(w, t, h, c, u, v)
        <=> SharedEntry(Entry(x, l, h, c, u, v), c, u, v, old, after, a, k, b) /\ ~ u < t
  <2>1. Entry(w, t, h, c, u, v)
           <=> SharedEntry(Entry(z, t, h, c, u, v), c, u, v, old, after, a, k, b)
    BY <1>7
  <2>2. Entry(z, t, h, c, u, v) <=> Entry(x, l, h, c, u, v) /\ ~ u < t  BY <1>1
  <2> QED BY <1>4, <2>1, <2>2 DEF SharedEntry
<1>10. ASSUME NEW c, NEW u, NEW v
       PROVE  Entry(y, l, t, c, u, v)
        <=> SharedEntry(Entry(x, l, h, c, u, v), c, u, v, old, after, a, k, b) /\ u < t
  <2>1. Entry(y, l, t, c, u, v) <=> Entry(x, l, h, c, u, v) /\ u < t  BY <1>1
  <2> QED BY <1>4, <2>1 DEF SharedEntry
<1> QED BY <1>1, <1>2, <1>7, <1>8, <1>9, <1>10 DEF NodeHalved

\* The halves IndexSplit makes of a full node.
NodeSplits(y, z, point, x, k, after) ==
    LET n == Len(x.kids)
        mid == (n - 1) \div 2
        place_right == keycmp(k, x.keys[mid + 1]) > 0
        l == [x EXCEPT !.keys = SubSeq(@, 1, point), !.kids = SubSeq(@, 1, point)]
        r == [x EXCEPT !.keys = SubSeq(@, point + 1, n),
                       !.kids = SubSeq(@, point + 1, n)]
        Add(half) == insert_key_to_index_no_split(half, k, after)
    IN  /\ point = IF place_right /\ keycmp(k, x.keys[mid + 2]) >= 0
                   THEN mid + 2 ELSE mid + 1
        /\ y = IF place_right THEN l ELSE Add(l)
        /\ z = IF place_right THEN Add(r) ELSE r

\* They share its children and the new one.
LEMMA NodeSplitIs ==
    ASSUME KeysNear, NEW x \in Node, NEW l, NEW h, NodeSorted(x, l, h),
           Len(x.kids) = Order,
           NEW old, NEW a, NEW b, Entry(x, l, h, old, a, b),
           NEW k \in Keys, a < k, k < b, NEW after \in Nat,
           NEW y, NEW z, NEW p, NodeSplits(y, z, p, x, k, after)
    PROVE  NodeHalved(y, z, x.keys[p], x, l, h, old, after, a, k, b)
<1>1. PICK m \in Nat : /\ m >= 2 /\ Order = 2 * m /\ Order \div 2 = m
                       /\ (Order - 1) \div 2 = m - 1
  BY Half
<1>2. PICK n \in Nat : n = Len(x.kids) /\ n = 2 * m  BY <1>1
<1>3. PICK e : e = bounds(x, l, h) /\ AreBounds(e, n, x, l, h)  BY <1>2, NodeIs
<1>4. PICK i \in 1 .. n : old = x.kids[i] /\ a = e[i - 1] /\ b = e[i]
  BY <1>2, <1>3 DEF Entry
<1>5. /\ e \in [0 .. n -> Int]
      /\ \A j \in 1 .. n - 1 : e[j] = x.keys[j] /\ e[j] \in Keys
      /\ \A j, g \in 0 .. n : j < g => e[j] < e[g]
  BY <1>3 DEF AreBounds
<1>6. m \in 1 .. n - 1 /\ m + 1 \in 1 .. n - 1 /\ m \in 0 .. n /\ m + 1 \in 0 .. n
  BY <1>1, <1>2
<1>7. PICK s : s = x.keys[m] /\ s = e[m] /\ s \in Keys /\ s \in Int
  BY <1>5, <1>6
<1>8. PICK t : t = x.keys[m + 1] /\ t = e[m + 1] /\ t \in Keys /\ t \in Int /\ s < t
  <2>1. e[m] < e[m + 1]
    <3>1. m < m + 1  BY <1>1
    <3> QED BY <1>5, <1>6, <3>1
  <2> QED BY <1>5, <1>6, <1>7, <2>1
<1>9. k \in Int /\ a \in Int /\ b \in Int  BY EntryIs, KeyBounds
<1>10. keycmp(k, s) = k - s /\ keycmp(k, t) = k - t  BY <1>7, <1>8, KeycmpIs
\* k is strictly inside an interval.
<1>11. ASSUME NEW j \in 0 .. n PROVE (k < e[j] /\ ~ k > e[j] /\ b =< e[j]) \/ (e[j] < k /\ ~ a < e[j])
  <2>1. PICK c : c = i - 1  OBVIOUS
  <2>2. c \in 0 .. n /\ i \in 0 .. n /\ (j = c \/ j < c \/ j = i \/ i < j)  BY <2>1
  <2>3. e[j] \in Int /\ e[c] \in Int /\ e[i] \in Int /\ a = e[c] /\ b = e[i]
    BY <1>4, <1>5, <2>1, <2>2
  <2>4. CASE j = c \/ j < c
    <3>1. e[j] =< a  BY <1>5, <2>2, <2>3, <2>4
    <3> QED BY <1>9, <2>3, <3>1
  <2>5. CASE j = i \/ i < j
    <3>1. b =< e[j]  BY <1>5, <2>2, <2>3, <2>5
    <3> QED BY <1>9, <2>3, <3>1
  <2> QED BY <2>2, <2>4, <2>5
<1>12. (k < s /\ b =< s) \/ (s < k /\ ~ a < s)  BY <1>6, <1>7, <1>11
<1>13. (k < t /\ b =< t) \/ (t < k /\ ~ a < t)  BY <1>6, <1>8, <1>11
<1> DEFINE ll == [x EXCEPT !.keys = SubSeq(@, 1, p), !.kids = SubSeq(@, 1, p)]
           rr == [x EXCEPT !.keys = SubSeq(@, p + 1, n),
                           !.kids = SubSeq(@, p + 1, n)]
<1>14. PICK right \in BOOLEAN : right <=> keycmp(k, s) > 0  OBVIOUS
<1>15. /\ p = IF right /\ keycmp(k, t) >= 0 THEN m + 1 ELSE m
       /\ y = IF right THEN ll ELSE insert_key_to_index_no_split(ll, k, after)
       /\ z = IF right THEN insert_key_to_index_no_split(rr, k, after) ELSE rr
  <2>1. (n - 1) \div 2 + 1 = m /\ (n - 1) \div 2 + 2 = m + 1  BY <1>1, <1>2
  <2> QED BY <1>2, <1>7, <1>8, <1>14, <2>1 DEF NodeSplits
<1>16. PICK u : u = ll  OBVIOUS
<1>17. PICK v : v = rr  OBVIOUS
<1>18. IsNodeCutAt(u, v, x, p, n)  BY <1>16, <1>17 DEF IsNodeCutAt
<1>19. /\ y = IF right THEN u ELSE insert_key_to_index_no_split(u, k, after)
       /\ z = IF right THEN insert_key_to_index_no_split(v, k, after) ELSE v
  BY <1>15, <1>16, <1>17
<1>20. p = IF right /\ keycmp(k, t) >= 0 THEN m + 1 ELSE m  BY <1>15
<1> HIDE DEF ll, rr
<1>21. CASE ~ right
  <2>1. p = m /\ ~ k > s /\ z = v /\ y = insert_key_to_index_no_split(u, k, after)
    BY <1>7, <1>9, <1>10, <1>14, <1>19, <1>20, <1>21
  <2>2. k < s /\ s = x.keys[p]  BY <1>7, <1>9, <1>12, <2>1
  <2>3. p \in 1 .. n - 1  BY <1>6, <2>1
  <2>4. p + 1 \in {Order \div 2, (Order \div 2) + 1} /\ n - p \in {Order \div 2, (Order \div 2) + 1}
    BY <1>1, <1>2, <2>1
  <2> QED BY <1>2, <1>18, <2>1, <2>2, <2>3, <2>4, PartLeft
<1>22. CASE right /\ keycmp(k, t) >= 0
  <2>1. p = m + 1 /\ ~ k < t /\ y = u /\ z = insert_key_to_index_no_split(v, k, after)
    BY <1>8, <1>9, <1>10, <1>19, <1>20, <1>22
  <2>2. ~ a < t /\ t = x.keys[p]  BY <1>8, <1>13, <2>1
  <2>3. p \in 1 .. n - 1  BY <1>6, <2>1
  <2>4. p \in {Order \div 2, (Order \div 2) + 1} /\ n - p + 1 \in {Order \div 2, (Order \div 2) + 1}
    BY <1>1, <1>2, <2>1
  <2> QED BY <1>2, <1>18, <2>1, <2>2, <2>3, <2>4, PartRight
<1>23. CASE right /\ ~ keycmp(k, t) >= 0
  <2>1. p = m /\ k > s /\ y = u /\ z = insert_key_to_index_no_split(v, k, after)
    BY <1>7, <1>9, <1>10, <1>14, <1>19, <1>20, <1>23
  <2>2. ~ a < s /\ s = x.keys[p]
    <3>1. ~ a < s  BY <1>7, <1>9, <1>12, <2>1
    <3>2. s = x.keys[p]  BY <1>7, <2>1
    <3> QED BY <3>1, <3>2
  <2>3. p \in 1 .. n - 1  BY <1>6, <2>1
  <2>4. p \in {Order \div 2, (Order \div 2) + 1} /\ n - p + 1 \in {Order \div 2, (Order \div 2) + 1}
    BY <1>1, <1>2, <2>1
  <2> QED BY <1>2, <1>18, <2>1, <2>2, <2>3, <2>4, PartRight
<1> QED BY <1>21, <1>22, <1>23

-----------------------------------------------------------------------------
(* The tree.  N are its internal nodes, F its leaves, M the meta block, st *)
(* the stored records.  g tells of every block its level above the leaves, *)
(* lev, the interval of its keys, from lo to hi, and where the interval    *)
(* ends for which the node above leads to it, top.                         *)

Blocks(N, F) == DOMAIN N \cup DOMAIN F

ParentOf(N, F, c) == IF c \in DOMAIN N THEN N[c].parent ELSE F[c].parent

\* Blocks handed out.
Placed(N, F, M) ==
    /\ M.slot \in Nat
    /\ DOMAIN N \cap DOMAIN F = {}
    /\ \A o \in Blocks(N, F) : o \in 1 .. M.slot - 1

Spans(N, F, g) ==
    \A o \in Blocks(N, F) :
        /\ g.lev[o] \in Nat /\ g.lo[o] \in Int /\ g.hi[o] \in Int
        /\ 0 =< g.lo[o] /\ g.lo[o] < g.hi[o] /\ g.hi[o] =< KeyMod

\* Blocks of a level do not overlap.
NoOverlap(N, F, g) ==
    \A o, c \in Blocks(N, F) :
        o # c /\ g.lev[o] = g.lev[c] => g.hi[o] =< g.lo[c] \/ g.hi[c] =< g.lo[o]

Nodes(N, g) ==
    \A o \in DOMAIN N :
        N[o] \in Node /\ g.lev[o] # 0 /\ NodeSorted(N[o], g.lo[o], g.hi[o])

\* An entry of a node in the tree.
Leads(N, g, o, c, a, b) == Entry(N[o], g.lo[o], g.hi[o], c, a, b)

\* What a node leads to: a block of the level below, of these keys, that
\* names the node as its parent.
Hang(N, F, g) ==
    \A o \in DOMAIN N : \A c, a, b :
        Leads(N, g, o, c, a, b) =>
            /\ c \in Blocks(N, F) /\ g.lev[o] = g.lev[c] + 1
            /\ ParentOf(N, F, c) = o
            /\ g.lo[c] = a /\ g.top[c] = b

Leaves(F, g) ==
    \A o \in DOMAIN F :
        F[o] \in Leaf /\ g.lev[o] = 0 /\ LeafSorted(F[o], g.lo[o], g.hi[o])

\* A leaf holds the stored records of its interval.
Keeps(F, st, g) ==
    /\ DOMAIN st \subseteq Keys
    /\ \A o \in DOMAIN F : \A q, w :
          Has(F[o], q, w)
              <=> q \in DOMAIN st /\ w = st[q] /\ g.lo[o] =< q /\ q < g.hi[o]

\* The leaves are chained in both directions in the order of their intervals.
Chained(F, M, g) ==
    /\ M.leaf_offset \in DOMAIN F /\ g.lo[M.leaf_offset] = 0
    /\ \A o \in DOMAIN F :
          /\ \/ F[o].next = 0 /\ g.hi[o] = KeyMod
             \/ F[o].next \in DOMAIN F /\ g.lo[F[o].next] = g.hi[o]
          /\ \/ F[o].prev = 0 /\ g.lo[o] = 0
             \/ F[o].prev \in DOMAIN F /\ g.hi[F[o].prev] = g.lo[o]

\* The root is at the top, has all keys and no parent.
Rooted(N, F, M, g) ==
    /\ \A o \in Blocks(N, F) : g.lev[o] =< M.height
    /\ M.root_offset \in DOMAIN N
    /\ g.lev[M.root_offset] = M.height
    /\ g.lo[M.root_offset] = 0
    /\ g.top[M.root_offset] = KeyMod
    /\ N[M.root_offset].parent = 0

\* Nodes but the root, and X, are led to by their parents.
Linked(N, M, g, X) ==
    \A c \in DOMAIN N :
        \/ c = M.root_offset
        \/ c \in X
        \/ /\ N[c].parent \in DOMAIN N
           /\ \E a, b : Leads(N, g, N[c].parent, c, a, b)

\* The blocks are a tree that holds st, but for X, which hang nowhere yet.
Tree(N, F, M, st, g, X) ==
    /\ Placed(N, F, M) /\ Spans(N, F, g) /\ NoOverlap(N, F, g)
    /\ Nodes(N, g) /\ Hang(N, F, g) /\ Leaves(F, g) /\ Keeps(F, st, g)
    /\ Rooted(N, F, M, g) /\ Linked(N, M, g, X) /\ Chained(F, M, g)

\* No insertion is on its way up.
Settled(N, F, g) == \A o \in Blocks(N, F) : g.top[o] = g.hi[o]

\* One is: old has been split, and after is led to by no node yet.
Pending(N, F, M, g, a) ==
    /\ a.old \in Blocks(N, F) /\ a.after \in Blocks(N, F) /\ a.old # a.after
    /\ g.lev[a.old] = g.lev[a.after]
    /\ g.hi[a.old] = a.key /\ g.lo[a.after] = a.key /\ a.key \in Keys
    /\ \A o \in Blocks(N, F) : g.top[o] = IF o = a.old THEN g.hi[a.after] ELSE g.hi[o]
    /\ ParentOf(N, F, a.after) = a.node
    /\ \/ a.node = 0 /\ a.old = M.root_offset
       \/ /\ a.node \in DOMAIN N
          /\ Leads(N, g, a.node, a.old, g.lo[a.old], g.hi[a.after])

-----------------------------------------------------------------------------
(* The way down.                                                           *)

\* Block o of level h has the keys around k.
At(g, o, h, k) ==
    o \in Blocks(nodes, leafs) /\ g.lev[o] = h /\ g.lo[o] =< k /\ k < g.hi[o]

\* A settled tree.
SettledTree(g) == Tree(nodes, leafs, meta, stored, g, {}) /\ Settled(nodes, leafs, g)

\* One step down.
LEMMA StepDown ==
    ASSUME KeysNear, NEW g, SettledTree(g), NEW k \in Keys,
           NEW o \in DOMAIN nodes, NEW h, At(g, o, h, k),
           NEW c, c = search_leaf_below(o, k)
    PROVE  /\ h \in Nat /\ h # 0 /\ At(g, c, h - 1, k)
           /\ Leads(nodes, g, o, c, g.lo[c], g.hi[c])
<1>1. PICK x : x = nodes[o]  OBVIOUS
<1>2. x \in Node /\ NodeSorted(x, g.lo[o], g.hi[o]) /\ g.lev[o] # 0 /\ g.lev[o] \in Nat
  BY <1>1 DEF SettledTree, Tree, Nodes, Spans, Blocks
<1>3. g.lo[o] =< k /\ k < g.hi[o] /\ g.lev[o] = h  BY DEF At
<1>4. c = x.kids[FindEntry(x, k)]  BY <1>1 DEF search_leaf_below
<1>5. PICK a, b : Entry(x, g.lo[o], g.hi[o], c, a, b) /\ a =< k /\ k < b
  BY <1>2, <1>3, <1>4, BelowIs
<1>6. Leads(nodes, g, o, c, a, b)  BY <1>1, <1>5 DEF Leads
<1>7. /\ c \in Blocks(nodes, leafs) /\ g.lev[o] = g.lev[c] + 1
      /\ g.lo[c] = a /\ g.top[c] = b
  BY <1>6 DEF SettledTree, Tree, Hang
<1>8. g.hi[c] = b /\ g.lev[c] \in Nat
  BY <1>7 DEF SettledTree, Settled, Tree, Spans
<1>9. g.lev[c] = h - 1  BY <1>3, <1>7, <1>8
<1> QED BY <1>2, <1>3, <1>5, <1>6, <1>7, <1>8, <1>9 DEF At

\* A level has one block for a key.
LEMMA OneAt ==
    ASSUME NEW g, SettledTree(g), NEW k \in Keys, NEW h, NEW o, NEW c,
           At(g, o, h, k), At(g, c, h, k)
    PROVE  o = c
<1>1. o \in Blocks(nodes, leafs) /\ c \in Blocks(nodes, leafs)  BY DEF At
<1>2. /\ g.lo[o] \in Int /\ g.hi[o] \in Int /\ g.lo[c] \in Int /\ g.hi[c] \in Int
      /\ k \in Int
  BY <1>1, KeyBounds DEF SettledTree, Tree, Spans
<1>3. o = c \/ g.hi[o] =< g.lo[c] \/ g.hi[c] =< g.lo[o]
  BY <1>1 DEF SettledTree, Tree, NoOverlap, At
<1> QED BY <1>2, <1>3 DEF At

\* Blocks of level 0 are the leaves.
LEMMA LevelIs ==
    ASSUME NEW g, SettledTree(g), NEW o, NEW h, NEW k, At(g, o, h, k)
    PROVE  IF h = 0 THEN o \in DOMAIN leafs ELSE o \in DOMAIN nodes
BY DEF SettledTree, Tree, Nodes, Leaves, At, Blocks

\* What the functions from the root down compute.
Descends(f, k) ==
    f = [h \in 1 .. meta.height |->
            IF h = meta.height THEN meta.root_offset
            ELSE search_leaf_below(f[h + 1], k)]

\* Every such function goes through the blocks around k.
LEMMA DescendsThrough ==
    ASSUME KeysNear, NEW g, SettledTree(g), NEW k \in Keys, NEW f, Descends(f, k)
    PROVE  /\ meta.height \in Nat /\ meta.height # 0
           /\ \A h \in 1 .. meta.height : At(g, f[h], h, k)
<1>1. PICK H \in Nat : H = meta.height /\ H # 0 /\ At(g, meta.root_offset, H, k)
  <2>1. PICK r : r = meta.root_offset  OBVIOUS
  <2>2. r \in DOMAIN nodes /\ g.lev[r] = meta.height /\ g.lo[r] = 0 /\ g.top[r] = KeyMod
    BY <2>1 DEF SettledTree, Tree, Rooted
  <2>3. r \in Blocks(nodes, leafs)  BY <2>2 DEF Blocks
  <2>4. g.lev[r] \in Nat /\ g.lev[r] # 0 /\ g.hi[r] = KeyMod
    BY <2>2, <2>3 DEF SettledTree, Tree, Spans, Nodes, Settled
  <2>5. 0 =< k /\ k < KeyMod  BY KeyBounds
  <2> QED BY <2>1, <2>2, <2>3, <2>4, <2>5 DEF At
<1>2. \A h \in 1 .. H : f[h] = IF h = H THEN meta.root_offset
                               ELSE search_leaf_below(f[h + 1], k)
  BY <1>1 DEF Descends
<1> DEFINE D == {j \in Nat : j < H => At(g, f[H - j], H - j, k)}
<1>3. 0 \in D
  <2>1. H - 0 = H /\ H \in 1 .. H  BY <1>1
  <2>2. f[H] = meta.root_offset  BY <1>2, <2>1
  <2> QED BY <1>1, <2>1, <2>2
<1>4. ASSUME NEW j \in 0 .. H - 1, j \in D PROVE j + 1 \in D
  <2> SUFFICES ASSUME j + 1 < H PROVE At(g, f[H - (j + 1)], H - (j + 1), k)
    OBVIOUS
  <2>1. PICK h : h = H - j  OBVIOUS
  <2>2. PICK d : d = H - (j + 1)  OBVIOUS
  <2>3. h \in 1 .. H /\ h # 0 /\ d \in 1 .. H /\ d # H /\ d + 1 = h /\ h - 1 = d /\ j < H
    BY <2>1, <2>2
  <2>4. At(g, f[h], h, k)  BY <1>4, <2>1, <2>3
  <2>5. f[d] = search_leaf_below(f[h], k)  BY <1>2, <2>3
  <2>6. f[h] \in DOMAIN nodes  BY <2>3, <2>4, LevelIs
  <2>7. At(g, f[d], h - 1, k)  BY <2>4, <2>5, <2>6, StepDown
  <2> QED BY <2>2, <2>3, <2>7
<1>5. 0 .. H \subseteq D
  <2> HIDE DEF D
  <2> QED BY <1>3, <1>4, AllUpTo
<1>6. ASSUME NEW h \in 1 .. H PROVE At(g, f[h], h, k)
  <2>1. PICK j : j = H - h  OBVIOUS
  <2>2. j \in 0 .. H /\ j < H /\ H - j = h  BY <2>1
  <2>3. j \in D  BY <1>5, <2>2
  <2> QED BY <2>2, <2>3
<1> QED BY <1>1, <1>6

\* There is one.
LEMMA DescendsExists ==
    ASSUME KeysNear, NEW g, SettledTree(g), NEW k \in Keys
    PROVE  \E f : Descends(f, k)
<1>1. PICK H \in Nat : H = meta.height /\ H # 0 /\ At(g, meta.root_offset, H, k)
  <2>1. PICK r : r = meta.root_offset  OBVIOUS
  <2>2. r \in DOMAIN nodes /\ g.lev[r] = meta.height /\ g.lo[r] = 0 /\ g.top[r] = KeyMod
    BY <2>1 DEF SettledTree, Tree, Rooted
  <2>3. r \in Blocks(nodes, leafs)  BY <2>2 DEF Blocks
  <2>4. g.lev[r] \in Nat /\ g.lev[r] # 0 /\ g.hi[r] = KeyMod
    BY <2>2, <2>3 DEF SettledTree, Tree, Spans, Nodes, Settled
  <2>5. 0 =< k /\ k < KeyMod  BY KeyBounds
  <2> QED BY <2>1, <2>2, <2>3, <2>4, <2>5 DEF At
<1> DEFINE D == {j \in Nat : j < H => \E o : At(g, o, H - j, k)}
<1>2. 0 \in D
  <2>1. H - 0 = H  BY <1>1
  <2> QED BY <1>1, <2>1
<1>3. ASSUME NEW j \in 0 .. H - 1, j \in D PROVE j + 1 \in D
  <2> SUFFICES ASSUME j + 1 < H PROVE \E o : At(g, o, H - (j + 1), k)
    OBVIOUS
  <2>1. PICK h : h = H - j  OBVIOUS
  <2>2. h # 0 /\ h - 1 = H - (j + 1) /\ j < H  BY <2>1
  <2>3. PICK o : At(g, o, h, k)  BY <1>3, <2>1, <2>2
  <2>4. o \in DOMAIN nodes  BY <2>2, <2>3, LevelIs
  <2>5. PICK c : c = search_leaf_below(o, k)  OBVIOUS
  <2>6. At(g, c, h - 1, k)  BY <2>3, <2>4, <2>5, StepDown
  <2> QED BY <2>2, <2>6
<1>4. 0 .. H \subseteq D
  <2> HIDE DEF D
  <2> QED BY <1>2, <1>3, AllUpTo
<1>5. ASSUME NEW h \in 1 .. H PROVE \E o : At(g, o, h, k)
  <2>1. PICK j : j = H - h  OBVIOUS
  <2>2. j \in 0 .. H /\ j < H /\ H - j = h  BY <2>1
  <2>3. j \in D  BY <1>4, <2>2
  <2> QED BY <2>2, <2>3
<1>6. PICK f : f = [h \in 1 .. H |-> CHOOSE o : At(g, o, h, k)]  OBVIOUS
<1>7. \A h \in 1 .. H : At(g, f[h], h, k)  BY <1>5, <1>6
<1>8. ASSUME NEW h \in 1 .. H
      PROVE  f[h] = IF h = H THEN meta.root_offset ELSE search_leaf_below(f[h + 1], k)
  <2>1. CASE h = H  BY <1>1, <1>7, <2>1, OneAt
  <2>2. CASE h # H
    <3>1. PICK d : d = h + 1  OBVIOUS
    <3>2. d \in 1 .. H /\ d # 0 /\ d - 1 = h  BY <2>2, <3>1
    <3>3. At(g, f[d], d, k)  BY <1>7, <3>2
    <3>4. f[d] \in DOMAIN nodes  BY <3>2, <3>3, LevelIs
    <3>5. PICK c : c = search_leaf_below(f[d], k)  OBVIOUS
    <3>6. At(g, c, d - 1, k)  BY <3>3, <3>4, <3>5, StepDown
    <3>7. f[h] = c  BY <1>7, <3>2, <3>6, OneAt
    <3> QED BY <2>2, <3>1, <3>5, <3>7
  <2> QED BY <2>1, <2>2
<1>9. Descends(f, k)
  <2>1. f = [h \in 1 .. H |-> f[h]]  BY <1>6
  <2>2. f = [h \in 1 .. H |-> IF h = H THEN meta.root_offset
                               ELSE search_leaf_below(f[h + 1], k)]
    BY <1>8, <2>1
  <2> QED BY <1>1, <2>2 DEF Descends
<1> QED BY <1>9

\* Where search_index and search_leaf end.
Reached(g, k, i, o) ==
    /\ i \in DOMAIN nodes /\ o \in DOMAIN leafs
    /\ g.lo[o] =< k /\ k < g.hi[o]
    /\ Leads(nodes, g, i, o, g.lo[o], g.hi[o])

\* They end above and at the leaf around the key.
LEMMA SearchIs ==
    ASSUME KeysNear, NEW g, SettledTree(g), NEW k \in Keys
    PROVE  Reached(g, k, search_index(k), search_leaf(k))
<1>1. PICK f : f = CHOOSE d : Descends(d, k)  OBVIOUS
<1>2. search_index(k) = f[1]  BY <1>1 DEF search_index, Descends
<1>3. Descends(f, k)  BY <1>1, DescendsExists
<1>4. /\ meta.height \in Nat /\ meta.height # 0
      /\ \A h \in 1 .. meta.height : At(g, f[h], h, k)
  BY <1>3, DescendsThrough
<1>5. At(g, f[1], 1, k)
  <2>1. 1 \in 1 .. meta.height  BY <1>4
  <2> QED BY <1>4, <2>1
<1>6. f[1] \in DOMAIN nodes
  <2>1. 1 # 0  OBVIOUS
  <2> QED BY <1>5, <2>1, LevelIs
<1>7. PICK o : o = search_leaf_below(f[1], k)  OBVIOUS
<1>8. At(g, o, 1 - 1, k) /\ Leads(nodes, g, f[1], o, g.lo[o], g.hi[o])
  BY <1>5, <1>6, <1>7, StepDown
<1>9. o \in DOMAIN leafs
  <2>1. 1 - 1 = 0  OBVIOUS
  <2> QED BY <1>8, <2>1, LevelIs
<1>10. search_leaf(k) = o  BY <1>2, <1>7 DEF search_leaf
<1> QED BY <1>2, <1>6, <1>8, <1>9, <1>10 DEF Reached, At

\* What search finds then.
LEMMA LookupIs ==
    ASSUME KeysNear, NEW g, SettledTree(g), NEW k \in Keys
    PROVE  Lookup(k) = IF k \in DOMAIN stored THEN {stored[k]} ELSE {}
<1>1. PICK o : o = search_leaf(k)  OBVIOUS
<1>2. o \in DOMAIN leafs /\ g.lo[o] =< k /\ k < g.hi[o]
  BY <1>1, SearchIs DEF Reached
<1>3. PICK x : x = leafs[o]  OBVIOUS
<1>4. x \in Leaf /\ LeafSorted(x, g.lo[o], g.hi[o])
  BY <1>2, <1>3 DEF SettledTree, Tree, Leaves
<1>5. Lookup(k) = Found(x, k)  BY <1>1, <1>3 DEF Lookup, Found
<1>6. \A v : v \in Found(x, k) <=> Has(x, k, v)  BY <1>4, FoundIs
<1>7. \A v : Has(x, k, v) <=> k \in DOMAIN stored /\ v = stored[k]
  BY <1>2, <1>3 DEF SettledTree, Tree, Keeps
<1>8. PICK s : s = Found(x, k)  OBVIOUS
<1>9. \A v : v \in s <=> k \in DOMAIN stored /\ v = stored[k]  BY <1>6, <1>7, <1>8
<1> QED BY <1>5, <1>8, <1>9

-----------------------------------------------------------------------------
(* A change of one leaf.                                                   *)

\* Leaf y holds the records of st in the interval from l to h.
Agrees(y, st, l, h) ==
    \A q, w : Has(y, q, w) <=> q \in DOMAIN st /\ w = st[q] /\ l =< q /\ q < h

\* Only records of that interval have changed.
SameElsewhere(st2, st, l, h) ==
    /\ DOMAIN st2 \subseteq Keys
    /\ \A q \in Keys : ~ (l =< q /\ q < h) =>
          /\ q \in DOMAIN st2 <=> q \in DOMAIN st
          /\ q \in DOMAIN st => st2[q] = st[q]

\* A leaf whose interval does not overlap still agrees.
LEMMA OthersAgree ==
    ASSUME NEW x, NEW st, NEW st2, NEW l \in Int, NEW h \in Int, NEW a \in Int, NEW b \in Int,
           DOMAIN st \subseteq Keys, SameElsewhere(st2, st, l, h),
           h =< a \/ b =< l, Agrees(x, st, a, b)
    PROVE  Agrees(x, st2, a, b)
<1> SUFFICES ASSUME NEW q, NEW w
             PROVE  Has(x, q, w) <=> q \in DOMAIN st2 /\ w = st2[q] /\ a =< q /\ q < b
  BY DEF Agrees
<1>1. Has(x, q, w) <=> q \in DOMAIN st /\ w = st[q] /\ a =< q /\ q < b  BY DEF Agrees
<1>2. CASE q \in Keys
  <2>1. q \in Int  BY <1>2, KeyBounds
  <2>2. a =< q /\ q < b => ~ (l =< q /\ q < h)  BY <2>1
  <2>3. a =< q /\ q < b => /\ q \in DOMAIN st2 <=> q \in DOMAIN st
                           /\ q \in DOMAIN st => st2[q] = st[q]
    BY <1>2, <2>2 DEF SameElsewhere
  <2> QED BY <1>1, <2>3
<1>3. CASE q \notin Keys
  <2>1. q \notin DOMAIN st /\ q \notin DOMAIN st2  BY <1>3 DEF SameElsewhere
  <2> QED BY <1>1, <2>1
<1> QED BY <1>2, <1>3

\* The tree with leaf o changed.
LEMMA ChangedLeaf ==
    ASSUME NEW N, NEW F, NEW M, NEW st, NEW g, NEW X, Tree(N, F, M, st, g, X),
           NEW o \in DOMAIN F, NEW y \in Leaf, SamePlace(y, F[o]),
           LeafSorted(y, g.lo[o], g.hi[o]),
           NEW st2, Agrees(y, st2, g.lo[o], g.hi[o]),
           SameElsewhere(st2, st, g.lo[o], g.hi[o]),
           NEW F2, F2 = [F EXCEPT ![o] = y]
    PROVE  Tree(N, F2, M, st2, g, X)
<1>1. /\ DOMAIN F2 = DOMAIN F /\ F2[o] = y
      /\ \A c \in DOMAIN F : c # o => F2[c] = F[c]
  OBVIOUS
<1>2. Blocks(N, F2) = Blocks(N, F)  BY <1>1 DEF Blocks
<1>3. Placed(N, F2, M)  BY <1>1, <1>2 DEF Tree, Placed
<1>4. Spans(N, F2, g)  BY <1>2 DEF Tree, Spans
<1>5. NoOverlap(N, F2, g)  BY <1>2 DEF Tree, NoOverlap
<1>6. Nodes(N, g)  BY DEF Tree
<1>7. ASSUME NEW c \in Blocks(N, F) PROVE ParentOf(N, F2, c) = ParentOf(N, F, c)
  BY <1>1, <1>7 DEF ParentOf, SamePlace, Blocks
<1>8. Hang(N, F2, g)
  <2>1. Hang(N, F, g)  BY DEF Tree
  <2> QED BY <1>2, <1>7, <2>1 DEF Hang
<1>9. Leaves(F2, g)
  <2>1. Leaves(F, g)  BY DEF Tree
  <2> QED BY <1>1, <2>1 DEF Leaves
<1>10. Keeps(F2, st2, g)
  <2>1. Keeps(F, st, g) /\ Spans(N, F, g) /\ NoOverlap(N, F, g) /\ Leaves(F, g)  BY DEF Tree
  <2>2. DOMAIN st2 \subseteq Keys  BY DEF SameElsewhere
  <2>3. ASSUME NEW c \in DOMAIN F PROVE Agrees(F2[c], st2, g.lo[c], g.hi[c])
    <3>1. CASE c = o  BY <1>1, <3>1
    <3>2. CASE c # o
      <4>1. c \in Blocks(N, F) /\ o \in Blocks(N, F)  BY DEF Blocks
      <4>2. /\ g.lo[c] \in Int /\ g.hi[c] \in Int /\ g.lo[o] \in Int /\ g.hi[o] \in Int
            /\ g.lev[c] = g.lev[o]
        BY <2>1, <4>1 DEF Spans, Leaves
      <4>3. g.hi[o] =< g.lo[c] \/ g.hi[c] =< g.lo[o]
        BY <2>1, <3>2, <4>1, <4>2 DEF NoOverlap
      <4>4. Agrees(F[c], st, g.lo[c], g.hi[c]) /\ DOMAIN st \subseteq Keys
        BY <2>1 DEF Keeps, Agrees
      <4>5. Agrees(F[c], st2, g.lo[c], g.hi[c])
        BY <4>2, <4>3, <4>4, OthersAgree
      <4> QED BY <1>1, <3>2, <4>5
    <3> QED BY <3>1, <3>2
  <2> QED BY <1>1, <2>2, <2>3 DEF Keeps, Agrees
<1>11. Rooted(N, F2, M, g)  BY <1>2 DEF Tree, Rooted
<1>12. Linked(N, M, g, X)  BY DEF Tree
<1>13. Chained(F2, M, g)
  <2>1. Chained(F, M, g)  BY DEF Tree
  <2>2. \A c \in DOMAIN F : F2[c].next = F[c].next /\ F2[c].prev = F[c].prev
    BY <1>1 DEF SamePlace
  <2> QED BY <1>1, <2>1, <2>2 DEF Chained
<1> QED
  BY <1>3, <1>4, <1>5, <1>6, <1>8, <1>9, <1>10, <1>11, <1>12, <1>13 DEF Tree

-----------------------------------------------------------------------------
(* A block split in two.                                                   *)

\* The ghosts when block o of blocks B gives the keys from t on to new.
SplitGhost(d, g, B, o, new, t) ==
    /\ \A c \in B : /\ d.lev[c] = g.lev[c] /\ d.lo[c] = g.lo[c]
                    /\ d.hi[c] = IF c = o THEN t ELSE g.hi[c]
                    /\ d.top[c] = g.hi[c]
    /\ d.lev[new] = g.lev[o] /\ d.lo[new] = t
    /\ d.hi[new] = g.hi[o] /\ d.top[new] = g.hi[o]

\* There are such.
LEMMA SplitGhosts ==
    ASSUME NEW g, NEW B, NEW o, NEW new, new \notin B, NEW t
    PROVE  \E d : SplitGhost(d, g, B, o, new, t)
<1> DEFINE C == B \cup {new}
           d == [lev |-> [c \in C |-> IF c = new THEN g.lev[o] ELSE g.lev[c]],
                 lo |-> [c \in C |-> IF c = new THEN t ELSE g.lo[c]],
                 hi |-> [c \in C |-> IF c = new THEN g.hi[o]
                                     ELSE IF c = o THEN t ELSE g.hi[c]],
                 top |-> [c \in C |-> IF c = new THEN g.hi[o] ELSE g.hi[c]]]
<1>1. SplitGhost(d, g, B, o, new, t)  BY DEF SplitGhost
<1> HIDE DEF d
<1> QED BY <1>1

\* The intervals are still in order.
LEMMA SplitSpans ==
    ASSUME NEW N, NEW F, NEW g, Spans(N, F, g), NoOverlap(N, F, g),
           NEW N2, NEW F2, NEW new, new \notin Blocks(N, F),
           Blocks(N2, F2) = Blocks(N, F) \cup {new},
           NEW o \in Blocks(N, F), NEW t \in Int, g.lo[o] < t, t < g.hi[o],
           NEW d, SplitGhost(d, g, Blocks(N, F), o, new, t)
    PROVE  Spans(N2, F2, d) /\ NoOverlap(N2, F2, d)
<1>1. PICK B : B = Blocks(N, F)  OBVIOUS
<1>2. PICK B2 : B2 = Blocks(N2, F2) /\ B2 = B \cup {new}  BY <1>1
<1>3. /\ \A c \in B : /\ d.lev[c] = g.lev[c] /\ d.lo[c] = g.lo[c]
                      /\ d.hi[c] = IF c = o THEN t ELSE g.hi[c]
      /\ d.lev[new] = g.lev[o] /\ d.lo[new] = t /\ d.hi[new] = g.hi[o]
      /\ o \in B /\ new \notin B
  BY <1>1 DEF SplitGhost
<1>4. \A c \in B : /\ g.lev[c] \in Nat /\ g.lo[c] \in Int /\ g.hi[c] \in Int
                   /\ g.lo[c] < g.hi[c] /\ 0 =< g.lo[c] /\ g.hi[c] =< KeyMod
  BY <1>1 DEF Spans
<1>5. \A c, e \in B : c # e /\ g.lev[c] = g.lev[e] => g.hi[c] =< g.lo[e] \/ g.hi[e] =< g.lo[c]
  BY <1>1 DEF NoOverlap
<1>6. \A c \in B2 : /\ d.lev[c] \in Nat /\ d.lo[c] \in Int /\ d.hi[c] \in Int
                    /\ d.lo[c] < d.hi[c] /\ 0 =< d.lo[c] /\ d.hi[c] =< KeyMod
  <2>1. KeyMod \in Int  BY KeyBounds
  <2>2. /\ g.lev[o] \in Nat /\ g.lo[o] \in Int /\ g.hi[o] \in Int
        /\ 0 =< g.lo[o] /\ g.hi[o] =< KeyMod
    BY <1>3, <1>4
  <2>3. 0 =< t /\ t =< KeyMod  BY <2>1, <2>2
  <2> QED BY <1>2, <1>3, <1>4, <2>2, <2>3
<1>7. ASSUME NEW c \in B, NEW e \in B, c # e, d.lev[c] = d.lev[e]
      PROVE  d.hi[c] =< d.lo[e] \/ d.hi[e] =< d.lo[c]
  <2>1. g.hi[c] =< g.lo[e] \/ g.hi[e] =< g.lo[c]  BY <1>3, <1>5, <1>7
  <2>2. d.hi[c] =< g.hi[c] /\ d.hi[e] =< g.hi[e]  BY <1>3, <1>4
  <2>3. d.lo[c] = g.lo[c] /\ d.lo[e] = g.lo[e]  BY <1>3
  <2>4. d.hi[c] \in Int /\ d.hi[e] \in Int /\ d.lo[c] \in Int /\ d.lo[e] \in Int
    BY <1>2, <1>6
  <2> QED BY <1>4, <2>1, <2>2, <2>3, <2>4
<1>8. ASSUME NEW c \in B, d.lev[c] = d.lev[new]
      PROVE  d.hi[c] =< d.lo[new] \/ d.hi[new] =< d.lo[c]
  <2>1. CASE c = o  BY <1>3, <2>1
  <2>2. CASE c # o
    <3>1. g.hi[c] =< g.lo[o] \/ g.hi[o] =< g.lo[c]  BY <1>3, <1>5, <1>8, <2>2
    <3>2. d.hi[c] = g.hi[c] /\ d.lo[c] = g.lo[c] /\ d.lo[new] = t /\ d.hi[new] = g.hi[o]
      BY <1>3, <2>2
    <3>3. g.hi[c] \in Int /\ g.lo[o] \in Int /\ g.lo[o] < t  BY <1>3, <1>4
    <3> QED BY <3>1, <3>2, <3>3
  <2> QED BY <2>1, <2>2
<1>9. ASSUME NEW c \in B2, NEW e \in B2, c # e, d.lev[c] = d.lev[e]
      PROVE  d.hi[c] =< d.lo[e] \/ d.hi[e] =< d.lo[c]
  BY <1>2, <1>7, <1>8, <1>9
<1> QED BY <1>2, <1>6, <1>9 DEF Spans, NoOverlap

\* The tree when nothing is on its way up.
Rests(N, F, M, st) == \E g : Tree(N, F, M, st, g, {}) /\ Settled(N, F, g)

\* And while an insertion with arguments a is.
Climbs(N, F, M, st, a) == \E g : Tree(N, F, M, st, g, {a.after}) /\ Pending(N, F, M, g, a)

\* st2 has the record of k, which st has not.
Added(st2, st, k, v) == st2 = Extend(st, k, v) /\ k \notin DOMAIN st

\* What that means for the leaf around k.
LEMMA AddedIs ==
    ASSUME NEW st, NEW st2, NEW k \in Keys, NEW v, Added(st2, st, k, v),
           DOMAIN st \subseteq Keys,
           NEW x, NEW l, NEW h, l =< k, k < h, Agrees(x, st, l, h)
    PROVE  /\ \A q, w : Has(x, q, w) \/ (q = k /\ w = v)
                          <=> q \in DOMAIN st2 /\ w = st2[q] /\ l =< q /\ q < h
           /\ SameElsewhere(st2, st, l, h)
<1>1. /\ DOMAIN st2 = DOMAIN st \cup {k} /\ st2[k] = v
      /\ \A q \in DOMAIN st : q # k => st2[q] = st[q]
      /\ k \notin DOMAIN st
  BY DEF Added, Extend
<1>2. \A q, w : Has(x, q, w) <=> q \in DOMAIN st /\ w = st[q] /\ l =< q /\ q < h
  BY DEF Agrees
<1>3. ASSUME NEW q, NEW w
      PROVE  Has(x, q, w) \/ (q = k /\ w = v)
                <=> q \in DOMAIN st2 /\ w = st2[q] /\ l =< q /\ q < h
  <2>1. CASE q = k  BY <1>1, <1>2, <2>1
  <2>2. CASE q # k
    <3>1. q \in DOMAIN st2 <=> q \in DOMAIN st  BY <1>1, <2>2
    <3>2. q \in DOMAIN st => st2[q] = st[q]  BY <1>1, <2>2
    <3> QED BY <1>2, <2>2, <3>1, <3>2
  <2> QED BY <2>1, <2>2
<1>4. SameElsewhere(st2, st, l, h)
  <2>1. DOMAIN st2 \subseteq Keys  BY <1>1
  <2>2. ASSUME NEW q \in Keys, ~ (l =< q /\ q < h)
        PROVE  /\ q \in DOMAIN st2 <=> q \in DOMAIN st
               /\ q \in DOMAIN st => st2[q] = st[q]
    <3>1. q # k  BY <2>2
    <3> QED BY <1>1, <3>1
  <2> QED BY <2>1, <2>2 DEF SameElsewhere
<1> QED BY <1>3, <1>4

\* F2 is F with leaf o in two, y and z.
LeafCreated(F2, F, o, new, y, z) ==
    /\ DOMAIN F2 = DOMAIN F \cup {new}
    /\ \A c \in DOMAIN F2 : F2[c] \in Leaf
    /\ F2[o].recs = y.recs /\ F2[o].parent = F[o].parent
    /\ F2[new].recs = z.recs /\ F2[new].parent = F[o].parent
    /\ \A c \in DOMAIN F : c # o => F2[c].recs = F[c].recs /\ F2[c].parent = F[c].parent
    /\ F2[o].next = new /\ F2[o].prev = F[o].prev
    /\ F2[new].next = F[o].next /\ F2[new].prev = o
    /\ \A c \in DOMAIN F : c # o =>
          /\ F2[c].next = F[c].next
          /\ F2[c].prev = IF c = F[o].next THEN new ELSE F[c].prev

\* node_create makes that of leaves.
LEMMA LeafCreateIs ==
    ASSUME NEW F, \A c \in DOMAIN F : F[c] \in Leaf,
           NEW o \in DOMAIN F, o \in Nat, NEW new \in Nat, new \notin DOMAIN F,
           NEW y \in Leaf, NEW z \in Leaf, SamePlace(y, F[o]),
           NEW F2, F2 = node_create(F, o, new, y, z)
    PROVE  LeafCreated(F2, F, o, new, y, z)
<1>1. PICK x \in Leaf : x = F[o]  OBVIOUS
<1>2. PICK L : L = [c \in DOMAIN F |->
                     IF c = o THEN [y EXCEPT !.next = new]
                     ELSE IF c = x.next THEN [F[c] EXCEPT !.prev = new]
                     ELSE F[c]]
  OBVIOUS
<1>3. PICK r : r = [z EXCEPT !.parent = x.parent, !.next = x.next, !.prev = o]
  OBVIOUS
<1>4. F2 = [c \in DOMAIN F \cup {new} |-> IF c = new THEN r ELSE L[c]]
  <2>1. F2 = Extend(L, new, r)  BY <1>1, <1>2, <1>3 DEF node_create
  <2>2. DOMAIN L = DOMAIN F  BY <1>2
  <2> QED BY <2>1, <2>2 DEF Extend
<1>5. /\ r \in Leaf /\ r.recs = z.recs /\ r.parent = x.parent
      /\ r.next = x.next /\ r.prev = o
  BY <1>1, <1>3 DEF Leaf
<1>6. /\ L[o] \in Leaf /\ L[o].recs = y.recs /\ L[o].parent = x.parent
      /\ L[o].next = new /\ L[o].prev = x.prev
  <2>1. L[o] = [y EXCEPT !.next = new]  BY <1>2
  <2>2. y.parent = x.parent /\ y.prev = x.prev  BY <1>1 DEF SamePlace
  <2> QED BY <2>1, <2>2 DEF Leaf
<1>7. ASSUME NEW c \in DOMAIN F, c # o
      PROVE  /\ L[c] \in Leaf /\ L[c].recs = F[c].recs /\ L[c].parent = F[c].parent
             /\ L[c].next = F[c].next
             /\ L[c].prev = IF c = x.next THEN new ELSE F[c].prev
  <2>1. L[c] = IF c = x.next THEN [F[c] EXCEPT !.prev = new] ELSE F[c]  BY <1>2, <1>7
  <2>2. F[c] \in Leaf  OBVIOUS
  <2>3. CASE c = x.next  BY <2>1, <2>2, <2>3 DEF Leaf
  <2>4. CASE c # x.next  BY <2>1, <2>2, <2>4 DEF Leaf
  <2> QED BY <2>3, <2>4
<1>8. F2[new] = r /\ \A c \in DOMAIN F : F2[c] = L[c]  BY <1>4
<1>9. DOMAIN F2 = DOMAIN F \cup {new}  BY <1>4
<1> QED BY <1>1, <1>5, <1>6, <1>7, <1>8, <1>9 DEF LeafCreated

\* Only the records count.
LEMMA SameRecords ==
    ASSUME NEW x, NEW y, x.recs = y.recs
    PROVE  /\ \A l, h : LeafSorted(x, l, h) <=> LeafSorted(y, l, h)
           /\ \A q, w : Has(x, q, w) <=> Has(y, q, w)
           /\ \A st, l, h : Agrees(x, st, l, h) <=> Agrees(y, st, l, h)
BY DEF LeafSorted, Has, Agrees

\* The meta block after a block more has been handed out.
NextMeta(M2, M) ==
    /\ M2.slot = M.slot + 1 /\ M2.root_offset = M.root_offset /\ M2.height = M.height
    /\ M2.leaf_offset = M.leaf_offset

\* A chain whose links and intervals are left alone.
LEMMA SameChained ==
    ASSUME NEW F, NEW M, NEW g, Chained(F, M, g), NEW F2, NEW M2, NEW d,
           DOMAIN F2 = DOMAIN F, M2.leaf_offset = M.leaf_offset,
           \A c \in DOMAIN F : /\ F2[c].next = F[c].next /\ F2[c].prev = F[c].prev
                               /\ d.lo[c] = g.lo[c] /\ d.hi[c] = g.hi[c]
    PROVE  Chained(F2, M2, d)
<1>1. M2.leaf_offset \in DOMAIN F2 /\ d.lo[M2.leaf_offset] = 0  BY DEF Chained
<1>2. ASSUME NEW c \in DOMAIN F2
      PROVE  /\ \/ F2[c].next = 0 /\ d.hi[c] = KeyMod
                \/ F2[c].next \in DOMAIN F2 /\ d.lo[F2[c].next] = d.hi[c]
             /\ \/ F2[c].prev = 0 /\ d.lo[c] = 0
                \/ F2[c].prev \in DOMAIN F2 /\ d.hi[F2[c].prev] = d.lo[c]
  BY DEF Chained
<1> QED BY <1>1, <1>2 DEF Chained

\* The chain with leaf o in two.
LEMMA SplitChained ==
    ASSUME NEW N, NEW F, NEW M, NEW g, Chained(F, M, g), Spans(N, F, g), NoOverlap(N, F, g),
           Leaves(F, g), 0 \notin DOMAIN F,
           NEW o \in DOMAIN F, NEW new, new \notin Blocks(N, F), NEW y, NEW z,
           NEW F2, LeafCreated(F2, F, o, new, y, z),
           NEW t \in Int, NEW d, SplitGhost(d, g, Blocks(N, F), o, new, t),
           NEW M2, NextMeta(M2, M)
    PROVE  Chained(F2, M2, d)
<1>1. PICK B : B = Blocks(N, F)  OBVIOUS
<1>2. /\ \A c \in B : /\ d.lev[c] = g.lev[c] /\ d.lo[c] = g.lo[c]
                      /\ d.hi[c] = IF c = o THEN t ELSE g.hi[c]
      /\ d.lo[new] = t /\ d.hi[new] = g.hi[o]
      /\ new \notin B /\ DOMAIN F \subseteq B
  BY <1>1 DEF SplitGhost, Blocks
<1>3. \A c \in DOMAIN F : /\ d.lo[c] = g.lo[c]
                          /\ c # o => d.hi[c] = g.hi[c]
                          /\ g.lo[c] \in Int /\ g.hi[c] \in Int
                          /\ g.lo[c] < g.hi[c] /\ g.hi[c] =< KeyMod
  BY <1>1, <1>2 DEF Spans
<1>4. \A c, e \in DOMAIN F : c # e => g.hi[c] =< g.lo[e] \/ g.hi[e] =< g.lo[c]
  BY <1>1, <1>2 DEF NoOverlap, Leaves
<1>5. /\ DOMAIN F2 = DOMAIN F \cup {new}
      /\ F2[o].next = new /\ F2[o].prev = F[o].prev
      /\ F2[new].next = F[o].next /\ F2[new].prev = o
      /\ \A c \in DOMAIN F : c # o =>
            /\ F2[c].next = F[c].next
            /\ F2[c].prev = IF c = F[o].next THEN new ELSE F[c].prev
  BY DEF LeafCreated
<1>6. \A c \in DOMAIN F :
         /\ \/ F[c].next = 0 /\ g.hi[c] = KeyMod
            \/ F[c].next \in DOMAIN F /\ g.lo[F[c].next] = g.hi[c]
         /\ \/ F[c].prev = 0 /\ g.lo[c] = 0
            \/ F[c].prev \in DOMAIN F /\ g.hi[F[c].prev] = g.lo[c]
  BY DEF Chained
<1>7. d.hi[o] = t /\ d.lo[o] = g.lo[o]  BY <1>2
<1>8. M2.leaf_offset \in DOMAIN F2 /\ d.lo[M2.leaf_offset] = 0
  BY <1>3, <1>5 DEF Chained, NextMeta
<1>9. ASSUME NEW c \in DOMAIN F2
      PROVE  \/ F2[c].next = 0 /\ d.hi[c] = KeyMod
             \/ F2[c].next \in DOMAIN F2 /\ d.lo[F2[c].next] = d.hi[c]
  <2>1. CASE c = o  BY <1>2, <1>5, <1>7, <2>1
  <2>2. CASE c = new
    <3>1. PICK q : q = F[o].next  OBVIOUS
    <3>2. CASE q = 0 /\ g.hi[o] = KeyMod  BY <1>2, <1>5, <2>2, <3>1, <3>2
    <3>3. CASE q \in DOMAIN F /\ g.lo[q] = g.hi[o]
      BY <1>2, <1>3, <1>5, <2>2, <3>1, <3>3
    <3> QED BY <1>6, <3>1, <3>2, <3>3
  <2>3. CASE c \in DOMAIN F /\ c # o
    <3>1. PICK q : q = F[c].next /\ q = F2[c].next  BY <1>5, <2>3
    <3>2. d.hi[c] = g.hi[c]  BY <1>3, <2>3
    <3>3. CASE q = 0 /\ g.hi[c] = KeyMod  BY <3>1, <3>2, <3>3
    <3>4. CASE q \in DOMAIN F /\ g.lo[q] = g.hi[c]
      BY <1>3, <1>5, <3>1, <3>2, <3>4
    <3> QED BY <1>6, <2>3, <3>1, <3>3, <3>4
  <2> QED BY <1>5, <2>1, <2>2, <2>3
<1>10. ASSUME NEW c \in DOMAIN F2
       PROVE  \/ F2[c].prev = 0 /\ d.lo[c] = 0
              \/ F2[c].prev \in DOMAIN F2 /\ d.hi[F2[c].prev] = d.lo[c]
  <2>1. CASE c = o
    <3>1. PICK p : p = F[o].prev /\ p = F2[o].prev  BY <1>5
    <3>2. CASE p = 0 /\ g.lo[o] = 0  BY <1>7, <2>1, <3>1, <3>2
    <3>3. CASE p \in DOMAIN F /\ g.hi[p] = g.lo[o]
      <4>1. p # o  BY <1>3, <3>3
      <4>2. d.hi[p] = g.hi[p]  BY <1>3, <3>3, <4>1
      <4> QED BY <1>5, <1>7, <2>1, <3>1, <3>3, <4>2
    <3> QED BY <1>6, <3>1, <3>2, <3>3
  <2>2. CASE c = new  BY <1>2, <1>5, <1>7, <2>2
  <2>3. CASE c \in DOMAIN F /\ c # o /\ c = F[o].next
    <3>1. g.lo[c] = g.hi[o]  BY <1>6, <2>3
    <3>2. F2[c].prev = new /\ d.lo[c] = g.lo[c]  BY <1>3, <1>5, <2>3
    <3> QED BY <1>2, <1>5, <3>1, <3>2
  <2>4. CASE c \in DOMAIN F /\ c # o /\ c # F[o].next
    <3>1. PICK p : p = F[c].prev /\ p = F2[c].prev  BY <1>5, <2>4
    <3>2. d.lo[c] = g.lo[c]  BY <1>3, <2>4
    <3>3. CASE p = 0 /\ g.lo[c] = 0  BY <3>1, <3>2, <3>3
    <3>4. CASE p \in DOMAIN F /\ g.hi[p] = g.lo[c]
      <4>1. p # o
        <5> SUFFICES ASSUME p = o PROVE FALSE
          OBVIOUS
        <5>1. g.hi[o] = g.lo[c]  BY <3>4
        <5>2. PICK q : q = F[o].next  OBVIOUS
        <5>3. KeyMod \in Int  BY KeyBounds
        <5>4. g.lo[c] < g.hi[c] /\ g.hi[c] =< KeyMod /\ g.lo[c] \in Int /\ g.hi[c] \in Int
          BY <1>3, <2>4
        <5>5. ~ g.hi[o] = KeyMod  BY <5>1, <5>3, <5>4
        <5>6. q \in DOMAIN F /\ g.lo[q] = g.hi[o]  BY <1>6, <5>2, <5>5
        <5>7. q # c /\ g.lo[q] \in Int /\ g.hi[q] \in Int /\ g.lo[q] < g.hi[q]
          BY <1>3, <2>4, <5>2, <5>6
        <5>8. g.hi[q] =< g.lo[c] \/ g.hi[c] =< g.lo[q]  BY <1>4, <2>4, <5>6, <5>7
        <5> QED BY <5>1, <5>4, <5>6, <5>7, <5>8
      <4>2. d.hi[p] = g.hi[p]  BY <1>3, <3>4, <4>1
      <4> QED BY <1>5, <3>1, <3>2, <3>4, <4>2
    <3> QED BY <1>6, <2>4, <3>1, <3>3, <3>4
  <2> QED BY <1>5, <2>1, <2>2, <2>3, <2>4
<1> QED BY <1>8, <1>9, <1>10 DEF Chained

\* The tree with leaf o in two.
LEMMA SplitLeafTree ==
    ASSUME NEW N, NEW F, NEW M, NEW st, NEW g,
           Tree(N, F, M, st, g, {}), Settled(N, F, g),
           NEW i \in DOMAIN N, NEW o \in DOMAIN F, Leads(N, g, i, o, g.lo[o], g.hi[o]),
           NEW k \in Keys, NEW v, g.lo[o] =< k, k < g.hi[o],
           NEW st2, Added(st2, st, k, v),
           NEW y, NEW z, NEW t, Halved(y, z, t, F[o], k, v, g.lo[o], g.hi[o]),
           NEW F2, LeafCreated(F2, F, o, M.slot, y, z),
           NEW M2, NextMeta(M2, M),
           NEW a, a.node = i, a.key = t, a.old = o, a.after = M.slot
    PROVE  Climbs(N, F2, M2, st2, a)
<1>1. PICK new \in Nat : new = M.slot  BY DEF Tree, Placed
<1>2. PICK B : B = Blocks(N, F)  OBVIOUS
<1>3. new \notin B /\ o \in B /\ new \notin DOMAIN F /\ new \notin DOMAIN N /\ o \notin DOMAIN N
  <2>1. Placed(N, F, M)  BY DEF Tree
  <2>2. \A c \in B : c \in 1 .. new - 1  BY <1>1, <1>2, <2>1 DEF Placed
  <2>3. new \notin B  BY <2>2
  <2> QED BY <1>2, <2>1, <2>3 DEF Placed, Blocks
<1>4. /\ DOMAIN F2 = DOMAIN F \cup {new}
      /\ \A c \in DOMAIN F2 : F2[c] \in Leaf
      /\ F2[o].recs = y.recs /\ F2[o].parent = F[o].parent
      /\ F2[new].recs = z.recs /\ F2[new].parent = F[o].parent
      /\ \A c \in DOMAIN F : c # o => F2[c].recs = F[c].recs /\ F2[c].parent = F[c].parent
  BY <1>1 DEF LeafCreated
<1>5. Blocks(N, F2) = B \cup {new}  BY <1>2, <1>4 DEF Blocks
<1>6. PICK d : SplitGhost(d, g, B, o, new, t)  BY <1>3, SplitGhosts
<1>7. /\ \A c \in B : /\ d.lev[c] = g.lev[c] /\ d.lo[c] = g.lo[c]
                      /\ d.hi[c] = IF c = o THEN t ELSE g.hi[c]
                      /\ d.top[c] = g.hi[c]
      /\ d.lev[new] = g.lev[o] /\ d.lo[new] = t
      /\ d.hi[new] = g.hi[o] /\ d.top[new] = g.hi[o]
  BY <1>6 DEF SplitGhost
<1>8. t \in Keys /\ g.lo[o] < t /\ t < g.hi[o] /\ t \in Int
  BY KeyBounds DEF Halved
<1>9. \A c \in B : g.top[c] = g.hi[c]  BY <1>2 DEF Settled
<1>10. Placed(N, F2, M2)
  <2>1. Placed(N, F, M)  BY DEF Tree
  <2>2. M2.slot = new + 1  BY <1>1 DEF NextMeta
  <2>3. \A c \in B : c \in 1 .. new - 1  BY <1>1, <1>2, <2>1 DEF Placed
  <2>4. new # 0
    <3>1. o \in 1 .. new - 1  BY <1>3, <2>3
    <3> QED BY <3>1
  <2>5. \A c \in Blocks(N, F2) : c \in 1 .. M2.slot - 1  BY <1>5, <2>2, <2>3, <2>4
  <2>6. DOMAIN N \cap DOMAIN F2 = {}  BY <1>3, <1>4, <2>1 DEF Placed
  <2> QED BY <2>2, <2>5, <2>6 DEF Placed
<1>11. Spans(N, F2, d) /\ NoOverlap(N, F2, d)
  <2>1. Spans(N, F, g) /\ NoOverlap(N, F, g)  BY DEF Tree
  <2> QED BY <1>2, <1>3, <1>5, <1>6, <1>8, <2>1, SplitSpans
<1>12. \A c \in DOMAIN N : c \in B /\ c # o /\ d.lev[c] = g.lev[c] /\ d.lo[c] = g.lo[c]
                           /\ d.hi[c] = g.hi[c]
  BY <1>2, <1>3, <1>7 DEF Blocks
<1>13. Nodes(N, d)
  <2>1. Nodes(N, g)  BY DEF Tree
  <2> QED BY <1>12, <2>1 DEF Nodes
<1>14. \A p \in DOMAIN N : \A c, u, w : Leads(N, d, p, c, u, w) <=> Leads(N, g, p, c, u, w)
  BY <1>12 DEF Leads
<1>15. ASSUME NEW c \in B PROVE ParentOf(N, F2, c) = ParentOf(N, F, c)
  <2>1. CASE c \in DOMAIN N  BY <2>1 DEF ParentOf
  <2>2. CASE c \notin DOMAIN N
    <3>1. c \in DOMAIN F  BY <1>2, <2>2 DEF Blocks
    <3> QED BY <1>4, <2>2, <3>1 DEF ParentOf
  <2> QED BY <2>1, <2>2
<1>16. Hang(N, F2, d)
  <2> SUFFICES ASSUME NEW p \in DOMAIN N, NEW c, NEW u, NEW w, Leads(N, d, p, c, u, w)
               PROVE  /\ c \in Blocks(N, F2) /\ d.lev[p] = d.lev[c] + 1
                      /\ ParentOf(N, F2, c) = p
                      /\ d.lo[c] = u /\ d.top[c] = w
    BY DEF Hang
  <2>1. Leads(N, g, p, c, u, w)  BY <1>14
  <2>2. /\ c \in B /\ g.lev[p] = g.lev[c] + 1 /\ ParentOf(N, F, c) = p
        /\ g.lo[c] = u /\ g.top[c] = w
    <3>1. Hang(N, F, g)  BY DEF Tree
    <3> QED BY <1>2, <2>1, <3>1 DEF Hang
  <2> QED BY <1>5, <1>7, <1>9, <1>12, <1>15, <2>2
<1>17. Leaves(F, g) /\ Keeps(F, st, g)  BY DEF Tree
<1>18. Leaves(F2, d)
  <2> SUFFICES ASSUME NEW c \in DOMAIN F2
               PROVE  d.lev[c] = 0 /\ LeafSorted(F2[c], d.lo[c], d.hi[c])
    BY <1>4 DEF Leaves
  <2>1. g.lev[o] = 0  BY <1>17 DEF Leaves
  <2>2. CASE c = o
    <3>1. LeafSorted(y, g.lo[o], t)  BY DEF Halved
    <3> QED BY <1>3, <1>4, <1>7, <2>1, <2>2, <3>1, SameRecords
  <2>3. CASE c = new
    <3>1. LeafSorted(z, t, g.hi[o])  BY DEF Halved
    <3> QED BY <1>4, <1>7, <2>1, <2>3, <3>1, SameRecords
  <2>4. CASE c \in DOMAIN F /\ c # o
    <3>1. LeafSorted(F[c], g.lo[c], g.hi[c]) /\ g.lev[c] = 0  BY <1>17, <2>4 DEF Leaves
    <3>2. c \in B  BY <1>2, <2>4 DEF Blocks
    <3> QED BY <1>4, <1>7, <2>4, <3>1, <3>2, SameRecords
  <2> QED BY <1>4, <2>2, <2>3, <2>4
<1>19. Agrees(F[o], st, g.lo[o], g.hi[o]) /\ DOMAIN st \subseteq Keys
  BY <1>17 DEF Keeps, Agrees
<1>20. /\ \A q, w : Has(F[o], q, w) \/ (q = k /\ w = v)
               <=> q \in DOMAIN st2 /\ w = st2[q] /\ g.lo[o] =< q /\ q < g.hi[o]
       /\ SameElsewhere(st2, st, g.lo[o], g.hi[o])
  <2>1. PICK x, l, h : x = F[o] /\ l = g.lo[o] /\ h = g.hi[o]  OBVIOUS
  <2>2. l =< k /\ k < h /\ Agrees(x, st, l, h)  BY <1>19, <2>1
  <2>3. /\ \A q, w : Has(x, q, w) \/ (q = k /\ w = v)
                <=> q \in DOMAIN st2 /\ w = st2[q] /\ l =< q /\ q < h
        /\ SameElsewhere(st2, st, l, h)
    BY <1>19, <2>2, AddedIs
  <2> QED BY <2>1, <2>3
<1>21. /\ g.lo[o] \in Int /\ g.hi[o] \in Int /\ DOMAIN st2 \subseteq Keys
  <2>1. Spans(N, F, g)  BY DEF Tree
  <2> QED BY <1>2, <1>3, <1>20, <2>1 DEF Spans, SameElsewhere
<1>22. Keeps(F2, st2, d)
  <2> SUFFICES ASSUME NEW c \in DOMAIN F2 PROVE Agrees(F2[c], st2, d.lo[c], d.hi[c])
    BY <1>21 DEF Keeps, Agrees
  <2>0. \A q \in DOMAIN st2 : q \in Int  BY <1>21, KeyBounds
  <2>1. CASE c = o
    <3>1. \A q, w : Has(y, q, w) <=> (Has(F[o], q, w) \/ (q = k /\ w = v)) /\ q < t
      BY DEF Halved
    <3>2. \A q \in DOMAIN st2 : q < g.hi[o] /\ q < t <=> q < t  BY <1>8, <1>21, <2>0
    <3>3. Agrees(y, st2, g.lo[o], t)  BY <1>20, <3>1, <3>2 DEF Agrees
    <3> QED BY <1>3, <1>4, <1>7, <2>1, <3>3, SameRecords
  <2>2. CASE c = new
    <3>1. \A q, w : Has(z, q, w) <=> (Has(F[o], q, w) \/ (q = k /\ w = v)) /\ ~ q < t
      BY DEF Halved
    <3>2. \A q \in DOMAIN st2 : g.lo[o] =< q /\ ~ q < t <=> t =< q
      BY <1>8, <1>21, <2>0
    <3>3. Agrees(z, st2, t, g.hi[o])  BY <1>20, <3>1, <3>2 DEF Agrees
    <3> QED BY <1>4, <1>7, <2>2, <3>3, SameRecords
  <2>3. CASE c \in DOMAIN F /\ c # o
    <3>1. c \in B  BY <1>2, <2>3 DEF Blocks
    <3>2. g.lo[c] \in Int /\ g.hi[c] \in Int /\ g.lev[c] = g.lev[o]
      <4>1. Spans(N, F, g)  BY DEF Tree
      <4> QED BY <1>2, <1>17, <2>3, <3>1, <4>1 DEF Spans, Leaves
    <3>3. g.hi[o] =< g.lo[c] \/ g.hi[c] =< g.lo[o]
      <4>1. NoOverlap(N, F, g)  BY DEF Tree
      <4> QED BY <1>2, <1>3, <2>3, <3>1, <3>2, <4>1 DEF NoOverlap
    <3>4. Agrees(F[c], st, g.lo[c], g.hi[c])  BY <1>17, <2>3 DEF Keeps, Agrees
    <3>5. Agrees(F[c], st2, g.lo[c], g.hi[c])
      BY <1>19, <1>20, <1>21, <3>2, <3>3, <3>4, OthersAgree
    <3> QED BY <1>4, <1>7, <2>3, <3>1, <3>5, SameRecords
  <2> QED BY <1>4, <2>1, <2>2, <2>3
<1>23. Rooted(N, F2, M2, d)
  <2>1. Rooted(N, F, M, g)  BY DEF Tree
  <2>2. PICK r : r = M.root_offset /\ r = M2.root_offset  BY DEF NextMeta
  <2>3. PICK H : H = M.height /\ H = M2.height  BY DEF NextMeta
  <2>4. /\ r \in DOMAIN N /\ g.lev[r] = H /\ g.lo[r] = 0 /\ g.top[r] = KeyMod
        /\ N[r].parent = 0 /\ \A c \in B : g.lev[c] =< H
    BY <1>2, <2>1, <2>2, <2>3 DEF Rooted
  <2>5. d.lev[r] = H /\ d.lo[r] = 0 /\ d.top[r] = KeyMod
    BY <1>7, <1>9, <1>12, <2>4
  <2>6. \A c \in B \cup {new} : d.lev[c] =< H  BY <1>3, <1>7, <2>4
  <2> QED BY <1>5, <2>2, <2>3, <2>4, <2>5, <2>6 DEF Rooted
<1>24. Linked(N, M2, d, {a.after})
  <2>1. Linked(N, M, g, {})  BY DEF Tree
  <2> QED BY <1>14, <2>1 DEF Linked, NextMeta
<1>25. Pending(N, F2, M2, d, a)
  <2>1. a.old = o /\ a.after = new /\ a.key = t /\ a.node = i  BY <1>1
  <2>2. o \in Blocks(N, F2) /\ new \in Blocks(N, F2) /\ o # new  BY <1>3, <1>5
  <2>3. d.lev[o] = d.lev[new] /\ d.hi[o] = t /\ d.lo[new] = t  BY <1>3, <1>7
  <2>4. \A c \in B \cup {new} : d.top[c] = IF c = o THEN d.hi[new] ELSE d.hi[c]
    BY <1>3, <1>7
  <2>5. ParentOf(N, F, o) = i
    <3>1. Hang(N, F, g)  BY DEF Tree
    <3> QED BY <3>1 DEF Hang
  <2>6. ParentOf(N, F2, new) = i  BY <1>3, <1>4, <2>5 DEF ParentOf
  <2>7. Leads(N, d, i, o, d.lo[o], d.hi[new])  BY <1>3, <1>7, <1>14
  <2> QED BY <1>5, <1>8, <2>1, <2>2, <2>3, <2>4, <2>6, <2>7 DEF Pending
<1>26. Chained(F2, M2, d)
  <2>1. Chained(F, M, g) /\ Spans(N, F, g) /\ NoOverlap(N, F, g) /\ Placed(N, F, M)
    BY DEF Tree
  <2>2. 0 \notin DOMAIN F
    <3>1. \A c \in DOMAIN F : c \in 1 .. new - 1  BY <1>1, <2>1 DEF Placed, Blocks
    <3> QED BY <3>1
  <2>3. LeafCreated(F2, F, o, new, y, z)  BY <1>1
  <2>4. SplitGhost(d, g, Blocks(N, F), o, new, t) /\ new \notin Blocks(N, F)
    BY <1>2, <1>3, <1>6
  <2> QED BY <1>8, <1>17, <2>1, <2>2, <2>3, <2>4, SplitChained
<1>27. Tree(N, F2, M2, st2, d, {a.after})
  BY <1>10, <1>11, <1>13, <1>16, <1>18, <1>22, <1>23, <1>24, <1>26 DEF Tree
<1> QED BY <1>25, <1>27 DEF Climbs

-----------------------------------------------------------------------------
(* The way up.                                                             *)

\* What an entry of node p tells of block c.
HangsFrom(N, F, g, p, c, u, w) ==
    /\ c \in Blocks(N, F) /\ g.lev[p] = g.lev[c] + 1
    /\ ParentOf(N, F, c) = p
    /\ g.lo[c] = u /\ g.hi[c] = w

\* The entries of the node a pending insertion has come to, with the new one.
NodeShares(N, g, a, c, u, w) ==
    SharedEntry(Leads(N, g, a.node, c, u, w), c, u, w,
                a.old, a.after, g.lo[a.old], a.key, g.hi[a.after])

\* They, and those of other nodes, end where their blocks do.
LEMMA ClimbFacts ==
    ASSUME NEW N, NEW F, NEW M, NEW st, NEW g, NEW a,
           Tree(N, F, M, st, g, {a.after}), Pending(N, F, M, g, a), a.node # 0
    PROVE  /\ a.node \in DOMAIN N
           /\ Leads(N, g, a.node, a.old, g.lo[a.old], g.hi[a.after])
           /\ g.lo[a.old] < a.key /\ a.key < g.hi[a.after] /\ a.after \in Nat
           /\ ParentOf(N, F, a.old) = a.node
           /\ \A c, u, w : NodeShares(N, g, a, c, u, w) => HangsFrom(N, F, g, a.node, c, u, w)
           /\ \A p \in DOMAIN N : p # a.node =>
                 \A c, u, w : Leads(N, g, p, c, u, w) => HangsFrom(N, F, g, p, c, u, w)
<1>1. PICK i, old, after, key : i = a.node /\ old = a.old /\ after = a.after /\ key = a.key
  OBVIOUS
<1>2. PICK B : B = Blocks(N, F)  OBVIOUS
<1>3. /\ old \in B /\ after \in B /\ old # after
      /\ g.lev[old] = g.lev[after]
      /\ g.hi[old] = key /\ g.lo[after] = key
      /\ \A c \in B : g.top[c] = IF c = old THEN g.hi[after] ELSE g.hi[c]
      /\ ParentOf(N, F, after) = i
      /\ i \in DOMAIN N
      /\ Leads(N, g, i, old, g.lo[old], g.hi[after])
  BY <1>1, <1>2 DEF Pending
<1>4. Hang(N, F, g) /\ Spans(N, F, g) /\ Placed(N, F, M)  BY DEF Tree
<1>5. /\ g.lo[old] \in Int /\ g.hi[old] \in Int /\ g.lo[old] < g.hi[old]
      /\ g.lo[after] \in Int /\ g.hi[after] \in Int /\ g.lo[after] < g.hi[after]
  BY <1>2, <1>3, <1>4 DEF Spans
<1>6. \A p \in DOMAIN N : \A c, u, w : Leads(N, g, p, c, u, w) =>
            /\ c \in B /\ g.lev[p] = g.lev[c] + 1 /\ ParentOf(N, F, c) = p
            /\ g.lo[c] = u /\ g.top[c] = w
  BY <1>2, <1>4 DEF Hang
<1>7. ParentOf(N, F, old) = i /\ g.lev[i] = g.lev[old] + 1  BY <1>3, <1>6
<1>8. after \in Nat
  <2>1. after \in 1 .. M.slot - 1 /\ M.slot \in Nat  BY <1>2, <1>3, <1>4 DEF Placed
  <2> QED BY <2>1
<1>9. ASSUME NEW c, NEW u, NEW w, NodeShares(N, g, a, c, u, w)
      PROVE  HangsFrom(N, F, g, i, c, u, w)
  <2>1. SharedEntry(Leads(N, g, i, c, u, w), c, u, w, old, after, g.lo[old], key, g.hi[after])
    BY <1>1, <1>9 DEF NodeShares
  <2>2. CASE Leads(N, g, i, c, u, w) /\ u # g.lo[old]
    <3>1. /\ c \in B /\ g.lev[i] = g.lev[c] + 1 /\ ParentOf(N, F, c) = i
          /\ g.lo[c] = u /\ g.top[c] = w
      BY <1>3, <1>6, <2>2
    <3>2. c # old  BY <2>2, <3>1
    <3>3. g.hi[c] = w  BY <1>3, <3>1, <3>2
    <3> QED BY <1>2, <3>1, <3>3 DEF HangsFrom
  <2>3. CASE c = old /\ u = g.lo[old] /\ w = key
    BY <1>2, <1>3, <1>7, <2>3 DEF HangsFrom
  <2>4. CASE c = after /\ u = key /\ w = g.hi[after]
    BY <1>2, <1>3, <1>7, <2>4 DEF HangsFrom
  <2> QED BY <2>1, <2>2, <2>3, <2>4 DEF SharedEntry
<1>10. ASSUME NEW p \in DOMAIN N, p # i, NEW c, NEW u, NEW w, Leads(N, g, p, c, u, w)
       PROVE  HangsFrom(N, F, g, p, c, u, w)
  <2>1. /\ c \in B /\ g.lev[p] = g.lev[c] + 1 /\ ParentOf(N, F, c) = p
        /\ g.lo[c] = u /\ g.top[c] = w
    BY <1>6, <1>10
  <2>2. c # old  BY <1>7, <1>10, <2>1
  <2>3. g.hi[c] = w  BY <1>3, <2>1, <2>2
  <2> QED BY <1>2, <2>1, <2>3 DEF HangsFrom
<1> QED BY <1>1, <1>3, <1>5, <1>7, <1>8, <1>9, <1>10

\* An entry is still there, if in two parts.
LEMMA StillLed ==
    ASSUME NEW N, NEW F, NEW M, NEW st, NEW g, NEW a,
           Tree(N, F, M, st, g, {a.after}), Pending(N, F, M, g, a), a.node # 0,
           NEW c, c = a.after \/ \E u, w : Leads(N, g, a.node, c, u, w)
    PROVE  \E u, w : NodeShares(N, g, a, c, u, w)
<1>1. CASE c = a.after  BY <1>1 DEF NodeShares, SharedEntry
<1>2. ASSUME NEW u, NEW w, Leads(N, g, a.node, c, u, w), u # g.lo[a.old]
      PROVE  NodeShares(N, g, a, c, u, w)
  BY <1>2 DEF NodeShares, SharedEntry
<1>3. ASSUME NEW u, NEW w, Leads(N, g, a.node, c, u, w), u = g.lo[a.old]
      PROVE  c = a.old
  <2>1. a.node \in DOMAIN N /\ Leads(N, g, a.node, a.old, g.lo[a.old], g.hi[a.after])
    BY ClimbFacts
  <2>2. PICK x : x = N[a.node]  OBVIOUS
  <2>3. PICK l, h : l = g.lo[a.node] /\ h = g.hi[a.node]  OBVIOUS
  <2>4. x \in Node /\ NodeSorted(x, l, h)
    BY <2>1, <2>2, <2>3 DEF Tree, Nodes
  <2>5. /\ Entry(x, l, h, a.old, g.lo[a.old], g.hi[a.after])
        /\ Entry(x, l, h, c, u, w)
    BY <1>3, <2>1, <2>2, <2>3 DEF Leads
  <2>6. /\ u \in Int /\ w \in Int /\ u < w
        /\ g.lo[a.old] \in Int /\ g.hi[a.after] \in Int /\ g.lo[a.old] < g.hi[a.after]
    BY <2>4, <2>5, EntryIs
  <2>7. c = a.old \/ w =< g.lo[a.old] \/ g.hi[a.after] =< u
    BY <2>4, <2>5, EntriesApart
  <2> QED BY <1>3, <2>6, <2>7
<1>4. CASE c = a.old  BY <1>4 DEF NodeShares, SharedEntry
<1> QED BY <1>1, <1>2, <1>3, <1>4

\* The tree when the new key has found its place.
LEMMA KeyTree ==
    ASSUME KeysNear, NEW N, NEW F, NEW M, NEW st, NEW a, Climbs(N, F, M, st, a),
           a.node # 0,
           NEW N2, N2 = [N EXCEPT ![a.node] = insert_key_to_index_no_split(@, a.key, a.after)]
    PROVE  Rests(N2, F, M, st)
<1>1. PICK g : Tree(N, F, M, st, g, {a.after}) /\ Pending(N, F, M, g, a)  BY DEF Climbs
<1>2. PICK i : i = a.node  OBVIOUS
<1>3. /\ i \in DOMAIN N
      /\ Leads(N, g, i, a.old, g.lo[a.old], g.hi[a.after])
      /\ g.lo[a.old] < a.key /\ a.key < g.hi[a.after] /\ a.after \in Nat
      /\ \A c, u, w : NodeShares(N, g, a, c, u, w) => HangsFrom(N, F, g, i, c, u, w)
      /\ \A p \in DOMAIN N : p # i =>
            \A c, u, w : Leads(N, g, p, c, u, w) => HangsFrom(N, F, g, p, c, u, w)
  BY <1>1, <1>2, ClimbFacts
<1>4. PICK x : x = N[i] /\ x \in Node /\ NodeSorted(x, g.lo[i], g.hi[i])
  BY <1>1, <1>3 DEF Tree, Nodes
<1>5. PICK y : y = insert_key_to_index_no_split(x, a.key, a.after)  OBVIOUS
<1>6. IsNodeWith(y, x, g.lo[i], g.hi[i], a.old, a.after, g.lo[a.old], a.key, g.hi[a.after])
  <2>1. Entry(x, g.lo[i], g.hi[i], a.old, g.lo[a.old], g.hi[a.after])
    BY <1>3, <1>4 DEF Leads
  <2>2. a.key \in Keys  BY <1>1 DEF Pending
  <2> QED BY <1>3, <1>4, <1>5, <2>1, <2>2, InsertKeyIs
<1>7. N2 = [N EXCEPT ![i] = y]  BY <1>2, <1>4, <1>5
<1>8. DOMAIN N2 = DOMAIN N /\ N2[i] = y /\ \A p \in DOMAIN N : p # i => N2[p] = N[p]
  BY <1>3, <1>7
<1>9. PICK d : d.lev = g.lev /\ d.lo = g.lo /\ d.hi = g.hi /\ d.top = g.hi
  <2> DEFINE e == [lev |-> g.lev, lo |-> g.lo, hi |-> g.hi, top |-> g.hi]
  <2>1. e.lev = g.lev /\ e.lo = g.lo /\ e.hi = g.hi /\ e.top = g.hi  OBVIOUS
  <2> HIDE DEF e
  <2> QED BY <2>1
<1>10. \A p \in DOMAIN N : p # i =>
          \A c, u, w : Leads(N2, d, p, c, u, w) <=> Leads(N, g, p, c, u, w)
  BY <1>8, <1>9 DEF Leads
<1>11. \A c, u, w : Leads(N2, d, i, c, u, w) <=> NodeShares(N, g, a, c, u, w)
  <2>1. \A c, u, w : Entry(y, g.lo[i], g.hi[i], c, u, w)
          <=> SharedEntry(Entry(x, g.lo[i], g.hi[i], c, u, w), c, u, w,
                          a.old, a.after, g.lo[a.old], a.key, g.hi[a.after])
    BY <1>6 DEF IsNodeWith
  <2> QED BY <1>2, <1>4, <1>8, <1>9, <2>1 DEF NodeShares, Leads
<1>12. Blocks(N2, F) = Blocks(N, F)  BY <1>8 DEF Blocks
<1>13. y \in Node /\ y.parent = x.parent /\ NodeSorted(y, g.lo[i], g.hi[i])
  BY <1>6 DEF IsNodeWith, SamePlace
<1>14. \A c : ParentOf(N2, F, c) = ParentOf(N, F, c)
  BY <1>4, <1>8, <1>13 DEF ParentOf
<1>15. Hang(N2, F, d)
  <2> SUFFICES ASSUME NEW p \in DOMAIN N, NEW c, NEW u, NEW w, Leads(N2, d, p, c, u, w)
               PROVE  /\ c \in Blocks(N2, F) /\ d.lev[p] = d.lev[c] + 1
                      /\ ParentOf(N2, F, c) = p
                      /\ d.lo[c] = u /\ d.top[c] = w
    BY <1>8 DEF Hang
  <2>1. HangsFrom(N, F, g, p, c, u, w)
    <3>1. CASE p = i  BY <1>3, <1>11, <3>1
    <3>2. CASE p # i  BY <1>3, <1>10, <3>2
    <3> QED BY <3>1, <3>2
  <2> QED BY <1>9, <1>12, <1>14, <2>1 DEF HangsFrom
<1>16. Linked(N2, M, d, {})
  <2> SUFFICES ASSUME NEW c \in DOMAIN N, c # M.root_offset
               PROVE  /\ N2[c].parent \in DOMAIN N
                      /\ \E u, w : Leads(N2, d, N2[c].parent, c, u, w)
    BY <1>8 DEF Linked
  <2>1. \/ c = a.after
        \/ /\ N[c].parent \in DOMAIN N
           /\ \E u, w : Leads(N, g, N[c].parent, c, u, w)
    <3>1. Linked(N, M, g, {a.after})  BY <1>1 DEF Tree
    <3> QED BY <3>1 DEF Linked
  <2>2. N2[c].parent = N[c].parent
    <3>1. ParentOf(N2, F, c) = ParentOf(N, F, c)  BY <1>14
    <3> QED BY <1>8, <3>1 DEF ParentOf
  <2>3. CASE c = a.after \/ \E u, w : Leads(N, g, i, c, u, w)
    <3>1. PICK u, w : NodeShares(N, g, a, c, u, w)  BY <1>1, <1>2, <2>3, StillLed
    <3>2. Leads(N2, d, i, c, u, w)  BY <1>11, <3>1
    <3>3. ParentOf(N, F, c) = i  BY <1>3, <3>1 DEF HangsFrom
    <3>4. N2[c].parent = i  BY <2>2, <3>3 DEF ParentOf
    <3> QED BY <1>3, <3>2, <3>4
  <2>4. CASE /\ N[c].parent \in DOMAIN N
             /\ N[c].parent # i
             /\ \E u, w : Leads(N, g, N[c].parent, c, u, w)
    BY <1>10, <2>2, <2>4
  <2> QED BY <2>1, <2>3, <2>4
<1>17. Placed(N2, F, M)
  <2>1. Placed(N, F, M)  BY <1>1 DEF Tree
  <2> QED BY <1>8, <1>12, <2>1 DEF Placed
<1>18. Spans(N2, F, d) /\ NoOverlap(N2, F, d)
  <2>1. Spans(N, F, g) /\ NoOverlap(N, F, g)  BY <1>1 DEF Tree
  <2>2. d.lev = g.lev /\ d.lo = g.lo /\ d.hi = g.hi  BY <1>9
  <2>3. Spans(N2, F, d)  BY <1>12, <2>1, <2>2 DEF Spans
  <2>4. NoOverlap(N2, F, d)  BY <1>12, <2>1, <2>2 DEF NoOverlap
  <2> QED BY <2>3, <2>4
<1>19. Nodes(N2, d)
  <2>1. Nodes(N, g)  BY <1>1 DEF Tree
  <2> QED BY <1>8, <1>9, <1>13, <2>1 DEF Nodes
<1>20. Leaves(F, d) /\ Keeps(F, st, d) /\ Chained(F, M, d)
  <2>1. Leaves(F, g) /\ Keeps(F, st, g) /\ Chained(F, M, g)  BY <1>1 DEF Tree
  <2> QED BY <1>9, <2>1 DEF Leaves, Keeps, Chained
<1>21. Rooted(N2, F, M, d)
  <2>1. Rooted(N, F, M, g) /\ Placed(N, F, M)  BY <1>1 DEF Tree
  <2>2. PICK r : r = M.root_offset  OBVIOUS
  <2>3. /\ r \in DOMAIN N /\ g.lev[r] = M.height /\ g.lo[r] = 0 /\ g.top[r] = KeyMod
        /\ N[r].parent = 0 /\ \A o \in Blocks(N, F) : g.lev[o] =< M.height
    BY <2>1, <2>2 DEF Rooted
  <2>4. ParentOf(N, F, r) = 0 /\ r \in Blocks(N, F)  BY <2>3 DEF ParentOf, Blocks
  <2>5. r # a.old
    <3>1. ParentOf(N, F, a.old) = i  BY <1>1, <1>2, ClimbFacts
    <3> QED BY <1>2, <2>4, <3>1
  <2>6. g.hi[r] = KeyMod  BY <1>1, <2>3, <2>4, <2>5 DEF Pending
  <2>7. ParentOf(N2, F, r) = 0  BY <1>14, <2>4
  <2>8. N2[r].parent = 0  BY <1>8, <2>3, <2>7 DEF ParentOf
  <2> QED BY <1>8, <1>9, <1>12, <2>2, <2>3, <2>6, <2>8 DEF Rooted
<1>22. Settled(N2, F, d)  BY <1>9 DEF Settled
<1>23. Tree(N2, F, M, st, d, {})
  BY <1>15, <1>16, <1>17, <1>18, <1>19, <1>20, <1>21 DEF Tree
<1> QED BY <1>22, <1>23 DEF Rests

\* Only the keys and the children count.
LEMMA SameChildren ==
    ASSUME NEW x, NEW y, x.keys = y.keys, x.kids = y.kids, NEW l, NEW h
    PROVE  /\ NodeSorted(x, l, h) <=> NodeSorted(y, l, h)
           /\ \A c, u, w : Entry(x, l, h, c, u, w) <=> Entry(y, l, h, c, u, w)
<1>1. bounds(x, l, h) = bounds(y, l, h)  BY DEF bounds
<1>2. NodeSorted(x, l, h) <=> NodeSorted(y, l, h)  BY <1>1 DEF NodeSorted, AreBounds
<1>3. \A c, u, w : Entry(x, l, h, c, u, w) <=> Entry(y, l, h, c, u, w)  BY <1>1 DEF Entry
<1> QED BY <1>2, <1>3

\* A node over two blocks.
LEMMA NodeOverTwo ==
    ASSUME NEW h \in Int, NEW k \in Keys, 0 < k, k < h, NEW old \in Nat, NEW after \in Nat,
           NEW x, x = [parent |-> 0, next |-> 0, prev |-> 0,
                       keys |-> <<k, Garbage>>, kids |-> <<old, after>>]
    PROVE  /\ x \in Node /\ NodeSorted(x, 0, h)
           /\ \A c, u, w : Entry(x, 0, h, c, u, w)
                <=> (c = old /\ u = 0 /\ w = k) \/ (c = after /\ u = k /\ w = h)
<1>1. PICK s : s = <<k, Garbage>>  OBVIOUS
<1>2. PICK z : z = <<old, after>>  OBVIOUS
<1>3. s \in Seq(Keys \cup {Garbage}) /\ Len(s) = 2 /\ s[1] = k  BY <1>1
<1>4. z \in Seq(Nat) /\ Len(z) = 2 /\ z[1] = old /\ z[2] = after  BY <1>2
<1>5. x.keys = s /\ x.kids = z /\ x \in Node  BY <1>1, <1>2, <1>3, <1>4 DEF Node
<1>6. PICK e : e = [j \in 0 .. 2 |-> IF j = 0 THEN 0 ELSE IF j = 2 THEN h ELSE k]
  OBVIOUS
<1>7. k \in Int  BY KeyBounds
<1>8. e \in [0 .. 2 -> Int] /\ e[0] = 0 /\ e[1] = k /\ e[2] = h  BY <1>6, <1>7
<1>9. \A i, j \in 0 .. 2 : i < j => e[i] < e[j]  BY <1>6, <1>7
<1>10. AreBounds(e, 2, x, 0, h)
  <2>1. \A i \in 1 .. 2 - 1 : e[i] = x.keys[i] /\ e[i] \in Keys  BY <1>3, <1>5, <1>8
  <2> QED BY <1>3, <1>4, <1>5, <1>8, <1>9, <2>1 DEF AreBounds
<1>11. NodeSorted(x, 0, h)
       /\ \A c, u, w : Entry(x, 0, h, c, u, w) <=>
            \E i \in 1 .. 2 : c = x.kids[i] /\ u = e[i - 1] /\ w = e[i]
  BY <1>10, BoundsAre, SMTT(30)
<1>12. ASSUME NEW c, NEW u, NEW w
       PROVE  (\E i \in 1 .. 2 : c = z[i] /\ u = e[i - 1] /\ w = e[i])
                <=> (c = old /\ u = 0 /\ w = k) \/ (c = after /\ u = k /\ w = h)
  <2>1. \A i \in 1 .. 2 : i = 1 \/ i = 2  OBVIOUS
  <2>2. 1 \in 1 .. 2 /\ 2 \in 1 .. 2 /\ 1 - 1 = 0 /\ 2 - 1 = 1  OBVIOUS
  <2> QED BY <1>4, <1>8, <2>1, <2>2
<1> QED BY <1>5, <1>11, <1>12

\* N2 is N with a node root over old and after.
RootCreated(N2, N, root, k, old, after) ==
    /\ DOMAIN N2 = DOMAIN N \cup {root}
    /\ N2[root] = [parent |-> 0, next |-> 0, prev |-> 0,
                   keys |-> <<k, Garbage>>, kids |-> <<old, after>>]
    /\ \A c \in DOMAIN N :
          N2[c] = IF c = old \/ c = after THEN [N[c] EXCEPT !.parent = root] ELSE N[c]

\* That is what IndexRoot makes of the nodes.
LEMMA RootCreateIs ==
    ASSUME NEW N, NEW root, root \notin DOMAIN N, NEW k, NEW old, NEW after,
           NEW N2, N2 = Extend(Reparent(N, <<old, after>>, root), root,
                               [parent |-> 0, next |-> 0, prev |-> 0,
                                keys |-> <<k, Garbage>>, kids |-> <<old, after>>])
    PROVE  RootCreated(N2, N, root, k, old, after)
<1>1. PICK z : z = <<old, after>>  OBVIOUS
<1>2. \A c : (\E i \in DOMAIN z : z[i] = c) <=> (c = old \/ c = after)
  <2>1. DOMAIN z = {1, 2} /\ z[1] = old /\ z[2] = after  BY <1>1
  <2> QED BY <2>1
<1>3. PICK R : R = Reparent(N, z, root)  OBVIOUS
<1>4. R = [c \in DOMAIN N |-> IF c = old \/ c = after
                              THEN [N[c] EXCEPT !.parent = root] ELSE N[c]]
  BY <1>2, <1>3 DEF Reparent
<1>5. PICK x : x = [parent |-> 0, next |-> 0, prev |-> 0,
                    keys |-> <<k, Garbage>>, kids |-> <<old, after>>]
  OBVIOUS
<1>6. N2 = Extend(R, root, x)  BY <1>1, <1>3, <1>5
<1>7. N2 = [c \in DOMAIN N \cup {root} |-> IF c = root THEN x ELSE R[c]]
  <2>1. DOMAIN R = DOMAIN N  BY <1>4
  <2> QED BY <1>6, <2>1 DEF Extend
<1> QED BY <1>4, <1>5, <1>7 DEF RootCreated

\* Leaves that get no new parent.
LEMMA ReparentNone ==
    ASSUME NEW F, F = [c \in DOMAIN F |-> F[c]], NEW kids, NEW p,
           \A i \in DOMAIN kids : kids[i] \notin DOMAIN F
    PROVE  Reparent(F, kids, p) = F
BY DEF Reparent

\* The tree with a new root.
LEMMA RootTree ==
    ASSUME NEW N, NEW F, NEW M, NEW st, NEW a, Climbs(N, F, M, st, a), a.node = 0,
           NEW N2, RootCreated(N2, N, M.slot, a.key, a.old, a.after),
           NEW M2, M2.slot = M.slot + 1, M2.root_offset = M.slot, M2.height = M.height + 1,
           M2.leaf_offset = M.leaf_offset
    PROVE  Rests(N2, F, M2, st)
<1>1. PICK g : Tree(N, F, M, st, g, {a.after}) /\ Pending(N, F, M, g, a)  BY DEF Climbs
<1>2. PICK old, after, key, root :
        old = a.old /\ after = a.after /\ key = a.key /\ root = M.slot
  OBVIOUS
<1>3. PICK B : B = Blocks(N, F)  OBVIOUS
<1>4. /\ Placed(N, F, M) /\ Spans(N, F, g) /\ NoOverlap(N, F, g)
      /\ Nodes(N, g) /\ Hang(N, F, g) /\ Leaves(F, g) /\ Keeps(F, st, g)
      /\ Rooted(N, F, M, g) /\ Linked(N, M, g, {after}) /\ Chained(F, M, g)
  BY <1>1, <1>2 DEF Tree
<1>5. root \in Nat /\ root \notin B /\ root # 0 /\ \A c \in B : c \in 1 .. root - 1
  <2>1. root \in Nat /\ \A c \in B : c \in 1 .. root - 1  BY <1>2, <1>3, <1>4 DEF Placed
  <2>2. old \in B  BY <1>1, <1>2, <1>3 DEF Pending
  <2>3. old \in 1 .. root - 1  BY <2>1, <2>2
  <2>4. root # 0  BY <2>1, <2>3
  <2>5. root \notin 1 .. root - 1  BY <2>1
  <2> QED BY <2>1, <2>4, <2>5
<1>6. /\ old \in B /\ after \in B /\ old # after
      /\ g.lev[old] = g.lev[after]
      /\ g.hi[old] = key /\ g.lo[after] = key /\ key \in Keys
      /\ \A c \in B : g.top[c] = IF c = old THEN g.hi[after] ELSE g.hi[c]
      /\ ParentOf(N, F, after) = 0
      /\ old = M.root_offset
  <2>1. 0 \notin DOMAIN N
    <3>1. 0 \notin B  BY <1>5
    <3> QED BY <1>3, <3>1 DEF Blocks
  <2> QED BY <1>1, <1>2, <1>3, <2>1 DEF Pending
<1>7. PICK H : H = M.height  OBVIOUS
<1>8. /\ old \in DOMAIN N /\ g.lev[old] = H /\ g.lo[old] = 0 /\ g.top[old] = KeyMod
      /\ N[old].parent = 0 /\ \A c \in B : g.lev[c] =< H
  BY <1>3, <1>4, <1>6, <1>7 DEF Rooted
<1>9. g.hi[after] = KeyMod  BY <1>6, <1>8
<1>10. /\ H \in Nat /\ H # 0 /\ H + 1 \in Nat
       /\ 0 < key /\ key < KeyMod /\ KeyMod \in Int /\ 0 < KeyMod
  <2>1. H \in Nat /\ H # 0  BY <1>3, <1>4, <1>6, <1>8 DEF Spans, Nodes
  <2>2. 0 < key /\ key < KeyMod /\ KeyMod \in Int /\ key \in Int
    BY <1>6, KeyBounds
  <2> QED BY <2>1, <2>2
<1>11. after \in DOMAIN N
  <2>1. after \in DOMAIN N \/ after \in DOMAIN F  BY <1>3, <1>6 DEF Blocks
  <2>2. after \notin DOMAIN F  BY <1>4, <1>6, <1>8, <1>10 DEF Leaves
  <2> QED BY <2>1, <2>2
<1>12. ParentOf(N, F, old) = 0  BY <1>8 DEF ParentOf
<1>13. /\ DOMAIN N2 = DOMAIN N \cup {root}
       /\ N2[root] = [parent |-> 0, next |-> 0, prev |-> 0,
                      keys |-> <<key, Garbage>>, kids |-> <<old, after>>]
       /\ \A c \in DOMAIN N :
             N2[c] = IF c = old \/ c = after THEN [N[c] EXCEPT !.parent = root] ELSE N[c]
  BY <1>2 DEF RootCreated
<1>14. PICK x : x = N2[root]  OBVIOUS
<1>15. /\ x \in Node /\ NodeSorted(x, 0, KeyMod) /\ x.parent = 0
       /\ \A c, u, w : Entry(x, 0, KeyMod, c, u, w)
            <=> (c = old /\ u = 0 /\ w = key) \/ (c = after /\ u = key /\ w = KeyMod)
  <2>1. old \in Nat /\ after \in Nat
    <3>1. old \in 1 .. root - 1 /\ after \in 1 .. root - 1  BY <1>5, <1>6
    <3> QED BY <1>5, <3>1
  <2>2. x = [parent |-> 0, next |-> 0, prev |-> 0,
             keys |-> <<key, Garbage>>, kids |-> <<old, after>>]
    BY <1>13, <1>14
  <2>3. x.parent = 0  BY <2>2
  <2>4. /\ x \in Node /\ NodeSorted(x, 0, KeyMod)
        /\ \A c, u, w : Entry(x, 0, KeyMod, c, u, w)
            <=> (c = old /\ u = 0 /\ w = key) \/ (c = after /\ u = key /\ w = KeyMod)
    BY <1>6, <1>10, <2>1, <2>2, NodeOverTwo
  <2> QED BY <2>3, <2>4
<1>16. ASSUME NEW c \in DOMAIN N
       PROVE  /\ N2[c] \in Node /\ N2[c].keys = N[c].keys /\ N2[c].kids = N[c].kids
              /\ N2[c].parent = IF c = old \/ c = after THEN root ELSE N[c].parent
  <2>1. N[c] \in Node  BY <1>4 DEF Nodes
  <2> QED BY <1>5, <1>13, <2>1 DEF Node
<1>17. PICK d :
         /\ \A c \in B : /\ d.lev[c] = g.lev[c] /\ d.lo[c] = g.lo[c]
                         /\ d.hi[c] = g.hi[c] /\ d.top[c] = g.hi[c]
         /\ d.lev[root] = H + 1 /\ d.lo[root] = 0
         /\ d.hi[root] = KeyMod /\ d.top[root] = KeyMod
  <2> DEFINE C == B \cup {root}
             e == [lev |-> [c \in C |-> IF c = root THEN H + 1 ELSE g.lev[c]],
                   lo |-> [c \in C |-> IF c = root THEN 0 ELSE g.lo[c]],
                   hi |-> [c \in C |-> IF c = root THEN KeyMod ELSE g.hi[c]],
                   top |-> [c \in C |-> IF c = root THEN KeyMod ELSE g.hi[c]]]
  <2>1. /\ \A c \in B : /\ e.lev[c] = g.lev[c] /\ e.lo[c] = g.lo[c]
                        /\ e.hi[c] = g.hi[c] /\ e.top[c] = g.hi[c]
        /\ e.lev[root] = H + 1 /\ e.lo[root] = 0
        /\ e.hi[root] = KeyMod /\ e.top[root] = KeyMod
    BY <1>5
  <2> HIDE DEF e
  <2> QED BY <2>1
<1>18. Blocks(N2, F) = B \cup {root}  BY <1>3, <1>13 DEF Blocks
<1>19. \A c \in DOMAIN N : c \in B /\ c # root  BY <1>3, <1>5 DEF Blocks
<1>20. ASSUME NEW p \in DOMAIN N, NEW c, NEW u, NEW w
       PROVE  Leads(N2, d, p, c, u, w) <=> Leads(N, g, p, c, u, w)
  <2>1. N2[p].keys = N[p].keys /\ N2[p].kids = N[p].kids  BY <1>16
  <2>2. d.lo[p] = g.lo[p] /\ d.hi[p] = g.hi[p]  BY <1>17, <1>19
  <2>3. Entry(N2[p], g.lo[p], g.hi[p], c, u, w) <=> Entry(N[p], g.lo[p], g.hi[p], c, u, w)
    BY <2>1, SameChildren
  <2> QED BY <2>2, <2>3 DEF Leads
<1>21. \A c, u, w : Leads(N2, d, root, c, u, w)
          <=> (c = old /\ u = 0 /\ w = key) \/ (c = after /\ u = key /\ w = KeyMod)
  BY <1>14, <1>15, <1>17 DEF Leads
<1>22. ASSUME NEW c \in B
       PROVE  ParentOf(N2, F, c) = IF c = old \/ c = after THEN root ELSE ParentOf(N, F, c)
  <2>1. CASE c \in DOMAIN N  BY <1>13, <1>16, <2>1 DEF ParentOf
  <2>2. CASE c \notin DOMAIN N
    <3>1. c \notin DOMAIN N2  BY <1>5, <1>13, <2>2
    <3> QED BY <1>8, <1>11, <2>2, <3>1 DEF ParentOf
  <2> QED BY <2>1, <2>2
<1>23. Hang(N2, F, d)
  <2> SUFFICES ASSUME NEW p \in DOMAIN N2, NEW c, NEW u, NEW w, Leads(N2, d, p, c, u, w)
               PROVE  /\ c \in B /\ d.lev[p] = d.lev[c] + 1
                      /\ ParentOf(N2, F, c) = p
                      /\ d.lo[c] = u /\ d.top[c] = w
    BY <1>18 DEF Hang
  <2>1. CASE p = root
    <3>1. (c = old /\ u = 0 /\ w = key) \/ (c = after /\ u = key /\ w = KeyMod)
      BY <1>21, <2>1
    <3> QED BY <1>6, <1>8, <1>9, <1>17, <1>22, <2>1, <3>1
  <2>2. CASE p # root
    <3>1. p \in DOMAIN N  BY <1>13, <2>2
    <3>2. Leads(N, g, p, c, u, w)  BY <1>20, <3>1
    <3>3. /\ c \in B /\ g.lev[p] = g.lev[c] + 1 /\ ParentOf(N, F, c) = p
          /\ g.lo[c] = u /\ g.top[c] = w
      BY <1>3, <1>4, <3>1, <3>2 DEF Hang
    <3>4. p # 0  BY <1>5, <1>19, <3>1
    <3>5. c # old /\ c # after  BY <1>6, <1>12, <3>3, <3>4
    <3> QED BY <1>6, <1>17, <1>19, <1>22, <3>1, <3>3, <3>5
  <2> QED BY <2>1, <2>2
<1>24. Linked(N2, M2, d, {})
  <2> SUFFICES ASSUME NEW c \in DOMAIN N2, c # root
               PROVE  /\ N2[c].parent \in DOMAIN N2
                      /\ \E u, w : Leads(N2, d, N2[c].parent, c, u, w)
    BY <1>2 DEF Linked
  <2>1. c \in DOMAIN N  BY <1>13
  <2>2. CASE c = old \/ c = after
    <3>1. N2[c].parent = root  BY <1>16, <2>1, <2>2
    <3>2. \E u, w : Leads(N2, d, root, c, u, w)  BY <1>21, <2>2
    <3> QED BY <1>13, <3>1, <3>2
  <2>3. CASE c # old /\ c # after
    <3>1. N2[c].parent = N[c].parent  BY <1>16, <2>1, <2>3
    <3>2. N[c].parent \in DOMAIN N /\ \E u, w : Leads(N, g, N[c].parent, c, u, w)
      BY <1>4, <1>6, <2>1, <2>3 DEF Linked
    <3>3. \E u, w : Leads(N2, d, N[c].parent, c, u, w)  BY <1>20, <3>2
    <3> QED BY <1>13, <3>1, <3>2, <3>3
  <2> QED BY <2>2, <2>3
<1>25. Placed(N2, F, M2)
  <2>1. M2.slot = root + 1  BY <1>2
  <2>2. \A c \in B \cup {root} : c \in 1 .. M2.slot - 1  BY <1>5, <2>1
  <2>3. root \notin DOMAIN F /\ DOMAIN N \cap DOMAIN F = {}
    BY <1>3, <1>4, <1>5 DEF Blocks, Placed
  <2>4. DOMAIN N2 \cap DOMAIN F = {}  BY <1>13, <2>3
  <2> QED BY <1>5, <1>18, <2>1, <2>2, <2>4 DEF Placed
<1>26. Spans(N2, F, d)
  <2>1. \A c \in B : /\ g.lev[c] \in Nat /\ g.lo[c] \in Int /\ g.hi[c] \in Int
                     /\ g.lo[c] < g.hi[c] /\ 0 =< g.lo[c] /\ g.hi[c] =< KeyMod
    BY <1>3, <1>4 DEF Spans
  <2>2. 0 =< 0 /\ KeyMod =< KeyMod  BY <1>10
  <2> QED BY <1>10, <1>17, <1>18, <2>1, <2>2 DEF Spans
<1>27. NoOverlap(N2, F, d)
  <2>1. \A c, e \in B : c # e /\ g.lev[c] = g.lev[e] => g.hi[c] =< g.lo[e] \/ g.hi[e] =< g.lo[c]
    BY <1>3, <1>4 DEF NoOverlap
  <2>2. \A c \in B : d.lev[c] \in Nat /\ d.lev[c] # d.lev[root]
    <3>1. \A c \in B : g.lev[c] \in Nat  BY <1>3, <1>4 DEF Spans
    <3> QED BY <1>8, <1>10, <1>17, <3>1
  <2> QED BY <1>17, <1>18, <2>1, <2>2 DEF NoOverlap
<1>28. Nodes(N2, d)
  <2> SUFFICES ASSUME NEW c \in DOMAIN N2
               PROVE  N2[c] \in Node /\ d.lev[c] # 0 /\ NodeSorted(N2[c], d.lo[c], d.hi[c])
    BY DEF Nodes
  <2>1. CASE c = root
    <3>1. H + 1 # 0  BY <1>10
    <3> QED BY <1>14, <1>15, <1>17, <2>1, <3>1
  <2>2. CASE c # root
    <3>1. c \in DOMAIN N  BY <1>13, <2>2
    <3>2. N[c] \in Node /\ g.lev[c] # 0 /\ NodeSorted(N[c], g.lo[c], g.hi[c])
      BY <1>4, <3>1 DEF Nodes
    <3>3. NodeSorted(N2[c], g.lo[c], g.hi[c])
      BY <1>16, <3>1, <3>2, SameChildren
    <3> QED BY <1>16, <1>17, <1>19, <3>1, <3>2, <3>3
  <2> QED BY <2>1, <2>2
<1>29. Leaves(F, d) /\ Keeps(F, st, d) /\ Chained(F, M2, d)
  <2>1. \A c \in DOMAIN F : c \in B  BY <1>3 DEF Blocks
  <2>2. Chained(F, M2, d)  BY <1>4, <1>17, <2>1, SameChained
  <2> QED BY <1>4, <1>17, <2>1, <2>2 DEF Leaves, Keeps
<1>30. Rooted(N2, F, M2, d)
  <2>1. M2.root_offset = root /\ M2.height = H + 1  BY <1>2, <1>7
  <2>2. \A c \in B \cup {root} : d.lev[c] =< H + 1
    <3>1. \A c \in B : g.lev[c] \in Nat  BY <1>3, <1>4 DEF Spans
    <3> QED BY <1>8, <1>10, <1>17, <3>1
  <2>3. N2[root].parent = 0  BY <1>14, <1>15
  <2> QED BY <1>13, <1>17, <1>18, <2>1, <2>2, <2>3 DEF Rooted
<1>31. Settled(N2, F, d)  BY <1>17, <1>18 DEF Settled
<1>32. Tree(N2, F, M2, st, d, {})
  BY <1>23, <1>24, <1>25, <1>26, <1>27, <1>28, <1>29, <1>30 DEF Tree
<1> QED BY <1>31, <1>32 DEF Rests

\* c is a child of node z.
IsKid(z, c) == \E i \in DOMAIN z.kids : z.kids[i] = c

\* A child is one that the node has an entry for.
LEMMA KidEntries ==
    ASSUME NEW z \in Node, NEW l, NEW h, NodeSorted(z, l, h), NEW c
    PROVE  IsKid(z, c) <=> \E u, w : Entry(z, l, h, c, u, w)
<1>1. PICK s : s = z.kids  OBVIOUS
<1>2. s \in Seq(Nat)  BY <1>1, NodeIs
<1>3. PICK n \in Nat : n = Len(s) /\ DOMAIN s = 1 .. n  BY <1>2
<1>4. PICK e : e = bounds(z, l, h)  OBVIOUS
<1>5. \A u, w : Entry(z, l, h, c, u, w) <=> \E i \in 1 .. n : c = s[i] /\ u = e[i - 1] /\ w = e[i]
  BY <1>1, <1>3, <1>4 DEF Entry
<1>6. IsKid(z, c) <=> \E i \in 1 .. n : s[i] = c  BY <1>1, <1>3 DEF IsKid
<1>7. ASSUME NEW i \in 1 .. n, s[i] = c PROVE \E u, w : Entry(z, l, h, c, u, w)
  <2>1. Entry(z, l, h, c, e[i - 1], e[i])  BY <1>5, <1>7
  <2> QED BY <2>1
<1>8. ASSUME NEW u, NEW w, Entry(z, l, h, c, u, w) PROVE \E i \in 1 .. n : s[i] = c
  BY <1>5, <1>8
<1> QED BY <1>6, <1>7, <1>8

\* N2 is N with node o in two, y and z, and z's children under new.
NodesSplit(N2, N, o, new, y, z) ==
    /\ DOMAIN N2 = DOMAIN N \cup {new}
    /\ \A c \in DOMAIN N2 :
          /\ N2[c] \in Node
          /\ N2[c].parent = IF IsKid(z, c) THEN new
                            ELSE IF c = new THEN N[o].parent ELSE N[c].parent
    /\ N2[o].keys = y.keys /\ N2[o].kids = y.kids
    /\ N2[new].keys = z.keys /\ N2[new].kids = z.kids
    /\ \A c \in DOMAIN N : c # o => N2[c].keys = N[c].keys /\ N2[c].kids = N[c].kids

\* That is what IndexSplit makes of the nodes.
LEMMA NodesSplitIs ==
    ASSUME NEW N, \A c \in DOMAIN N : N[c] \in Node,
           NEW o \in DOMAIN N, o \in Nat, NEW new \in Nat, new \notin DOMAIN N,
           NEW y \in Node, NEW z \in Node, SamePlace(y, N[o]),
           NEW N2, N2 = Reparent(node_create(N, o, new, y, z), z.kids, new)
    PROVE  NodesSplit(N2, N, o, new, y, z)
<1>1. PICK x \in Node : x = N[o]  OBVIOUS
<1>2. PICK L : L = [c \in DOMAIN N |->
                     IF c = o THEN [y EXCEPT !.next = new]
                     ELSE IF c = x.next THEN [N[c] EXCEPT !.prev = new]
                     ELSE N[c]]
  OBVIOUS
<1>3. PICK r : r = [z EXCEPT !.parent = x.parent, !.next = x.next, !.prev = o]
  OBVIOUS
<1>4. PICK K : K = node_create(N, o, new, y, z)  OBVIOUS
<1>5. K = [c \in DOMAIN N \cup {new} |-> IF c = new THEN r ELSE L[c]]
  <2>1. K = Extend(L, new, r)  BY <1>1, <1>2, <1>3, <1>4 DEF node_create
  <2>2. DOMAIN L = DOMAIN N  BY <1>2
  <2> QED BY <2>1, <2>2 DEF Extend
<1>6. r \in Node /\ r.keys = z.keys /\ r.kids = z.kids /\ r.parent = x.parent
  BY <1>1, <1>3 DEF Node
<1>7. L[o] \in Node /\ L[o].keys = y.keys /\ L[o].kids = y.kids /\ L[o].parent = x.parent
  <2>1. L[o] = [y EXCEPT !.next = new]  BY <1>2
  <2>2. y.parent = x.parent  BY <1>1 DEF SamePlace
  <2> QED BY <2>1, <2>2 DEF Node
<1>8. ASSUME NEW c \in DOMAIN N, c # o
      PROVE  L[c] \in Node /\ L[c].keys = N[c].keys /\ L[c].kids = N[c].kids
             /\ L[c].parent = N[c].parent
  <2>1. L[c] = [N[c] EXCEPT !.prev = new] \/ L[c] = N[c]  BY <1>2, <1>8
  <2>2. N[c] \in Node  OBVIOUS
  <2> QED BY <2>1, <2>2 DEF Node
<1>9. K[new] = r /\ \A c \in DOMAIN N : K[c] = L[c]  BY <1>5
<1>10. DOMAIN K = DOMAIN N \cup {new}  BY <1>5
<1>11. ASSUME NEW c \in DOMAIN K
       PROVE  K[c] \in Node /\ K[c].parent = IF c = new THEN x.parent ELSE N[c].parent
  BY <1>1, <1>6, <1>7, <1>8, <1>9, <1>10
<1>12. N2 = [c \in DOMAIN K |-> IF IsKid(z, c) THEN [K[c] EXCEPT !.parent = new] ELSE K[c]]
  BY <1>4 DEF Reparent, IsKid
<1>13. ASSUME NEW c \in DOMAIN K
       PROVE  /\ N2[c] \in Node /\ N2[c].keys = K[c].keys /\ N2[c].kids = K[c].kids
              /\ N2[c].parent = IF IsKid(z, c) THEN new ELSE K[c].parent
  <2>1. K[c] \in Node  BY <1>11
  <2>2. N2[c] = IF IsKid(z, c) THEN [K[c] EXCEPT !.parent = new] ELSE K[c]  BY <1>12
  <2>3. CASE IsKid(z, c)  BY <2>1, <2>2, <2>3 DEF Node
  <2>4. CASE ~ IsKid(z, c)  BY <2>1, <2>2, <2>4
  <2> QED BY <2>3, <2>4
<1>14. DOMAIN N2 = DOMAIN N \cup {new}  BY <1>10, <1>12
<1>15. N2[o].keys = y.keys /\ N2[o].kids = y.kids  BY <1>7, <1>9, <1>10, <1>13
<1>16. N2[new].keys = z.keys /\ N2[new].kids = z.kids  BY <1>6, <1>9, <1>10, <1>13
<1>17. \A c \in DOMAIN N : c # o => N2[c].keys = N[c].keys /\ N2[c].kids = N[c].kids
  BY <1>8, <1>9, <1>10, <1>13
<1>18. \A c \in DOMAIN N2 :
          /\ N2[c] \in Node
          /\ N2[c].parent = IF IsKid(z, c) THEN new
                            ELSE IF c = new THEN N[o].parent ELSE N[c].parent
  BY <1>1, <1>10, <1>11, <1>13, <1>14
<1> QED BY <1>14, <1>15, <1>16, <1>17, <1>18 DEF NodesSplit

\* F2 is F with the leaves under z named children of new.
LeafsMoved(F2, F, new, z) ==
    /\ DOMAIN F2 = DOMAIN F
    /\ \A c \in DOMAIN F : /\ F2[c] \in Leaf /\ F2[c].recs = F[c].recs
                           /\ F2[c].next = F[c].next /\ F2[c].prev = F[c].prev
                           /\ F2[c].parent = IF IsKid(z, c) THEN new ELSE F[c].parent

\* That is what Reparent makes of the leaves.
LEMMA LeafsMovedIs ==
    ASSUME NEW F, \A c \in DOMAIN F : F[c] \in Leaf, NEW new \in Nat, NEW z,
           NEW F2, F2 = Reparent(F, z.kids, new)
    PROVE  LeafsMoved(F2, F, new, z)
<1>1. F2 = [c \in DOMAIN F |-> IF IsKid(z, c) THEN [F[c] EXCEPT !.parent = new] ELSE F[c]]
  BY DEF Reparent, IsKid
<1>2. ASSUME NEW c \in DOMAIN F
      PROVE  /\ F2[c] \in Leaf /\ F2[c].recs = F[c].recs
             /\ F2[c].next = F[c].next /\ F2[c].prev = F[c].prev
             /\ F2[c].parent = IF IsKid(z, c) THEN new ELSE F[c].parent
  <2>1. F[c] \in Leaf  OBVIOUS
  <2>2. F2[c] = IF IsKid(z, c) THEN [F[c] EXCEPT !.parent = new] ELSE F[c]  BY <1>1
  <2>3. CASE IsKid(z, c)  BY <2>1, <2>2, <2>3 DEF Leaf
  <2>4. CASE ~ IsKid(z, c)  BY <2>1, <2>2, <2>4
  <2> QED BY <2>3, <2>4
<1>3. DOMAIN F2 = DOMAIN F  BY <1>1
<1> QED BY <1>2, <1>3 DEF LeafsMoved

\* The tree with node a.node in two.
LEMMA SplitNodeTree ==
    ASSUME NEW N, NEW F, NEW M, NEW st, NEW g, NEW a,
           Tree(N, F, M, st, g, {a.after}), Pending(N, F, M, g, a), a.node # 0,
           NEW y, NEW z, NEW t,
           NodeHalved(y, z, t, N[a.node], g.lo[a.node], g.hi[a.node],
                      a.old, a.after, g.lo[a.old], a.key, g.hi[a.after]),
           NEW N2, NodesSplit(N2, N, a.node, M.slot, y, z),
           NEW F2, LeafsMoved(F2, F, M.slot, z),
           NEW M2, NextMeta(M2, M),
           NEW a2, a2.node = N[a.node].parent, a2.key = t,
           a2.old = a.node, a2.after = M.slot
    PROVE  Climbs(N2, F2, M2, st, a2)
<1>1. PICK new \in Nat : new = M.slot  BY DEF Tree, Placed
<1>2. PICK B : B = Blocks(N, F)  OBVIOUS
<1>3. PICK i, old, after : i = a.node /\ old = a.old /\ after = a.after  OBVIOUS
<1>4. /\ i \in DOMAIN N
      /\ ParentOf(N, F, old) = i
      /\ \A c, u, w : NodeShares(N, g, a, c, u, w) => HangsFrom(N, F, g, i, c, u, w)
      /\ \A p \in DOMAIN N : p # i =>
            \A c, u, w : Leads(N, g, p, c, u, w) => HangsFrom(N, F, g, p, c, u, w)
  BY <1>3, ClimbFacts
<1>5. /\ Placed(N, F, M) /\ Spans(N, F, g) /\ NoOverlap(N, F, g)
      /\ Nodes(N, g) /\ Hang(N, F, g) /\ Leaves(F, g) /\ Keeps(F, st, g)
      /\ Rooted(N, F, M, g) /\ Linked(N, M, g, {after}) /\ Chained(F, M, g)
  BY <1>3 DEF Tree
<1>6. new \notin B /\ i \in B /\ i \notin DOMAIN F /\ new \notin DOMAIN N
      /\ new \notin DOMAIN F /\ i # 0 /\ new # 0 /\ \A c \in B : c \in 1 .. new - 1
  <2>1. \A c \in B : c \in 1 .. new - 1  BY <1>1, <1>2, <1>5 DEF Placed
  <2>2. new \notin B  BY <2>1
  <2>3. i \in B  BY <1>2, <1>4 DEF Blocks
  <2>4. i \in 1 .. new - 1  BY <2>1, <2>3
  <2>5. i # 0 /\ new # 0  BY <2>4
  <2> QED BY <1>2, <1>4, <1>5, <2>1, <2>2, <2>3, <2>5 DEF Placed, Blocks
<1>7. /\ DOMAIN N2 = DOMAIN N \cup {new}
      /\ \A c \in DOMAIN N2 :
          /\ N2[c] \in Node
          /\ N2[c].parent = IF IsKid(z, c) THEN new
                            ELSE IF c = new THEN N[i].parent ELSE N[c].parent
      /\ N2[i].keys = y.keys /\ N2[i].kids = y.kids
      /\ N2[new].keys = z.keys /\ N2[new].kids = z.kids
      /\ \A c \in DOMAIN N : c # i => N2[c].keys = N[c].keys /\ N2[c].kids = N[c].kids
  BY <1>1, <1>3 DEF NodesSplit
<1>8. /\ DOMAIN F2 = DOMAIN F
      /\ \A c \in DOMAIN F : /\ F2[c] \in Leaf /\ F2[c].recs = F[c].recs
                             /\ F2[c].parent = IF IsKid(z, c) THEN new ELSE F[c].parent
  BY <1>1 DEF LeafsMoved
<1>9. PICK l, h : l = g.lo[i] /\ h = g.hi[i]  OBVIOUS
<1>10. /\ t \in Keys /\ l < t /\ t < h
       /\ y \in Node /\ z \in Node
       /\ NodeSorted(y, l, t) /\ NodeSorted(z, t, h)
       /\ \A c, u, w : Entry(y, l, t, c, u, w) <=> NodeShares(N, g, a, c, u, w) /\ u < t
       /\ \A c, u, w : Entry(z, t, h, c, u, w) <=> NodeShares(N, g, a, c, u, w) /\ ~ u < t
  BY <1>3, <1>9 DEF NodeHalved, NodeShares, Leads
<1>11. PICK d : SplitGhost(d, g, B, i, new, t)  BY <1>6, SplitGhosts
<1>12. /\ \A c \in B : /\ d.lev[c] = g.lev[c] /\ d.lo[c] = g.lo[c]
                       /\ d.hi[c] = IF c = i THEN t ELSE g.hi[c]
                       /\ d.top[c] = g.hi[c]
       /\ d.lev[new] = g.lev[i] /\ d.lo[new] = t
       /\ d.hi[new] = h /\ d.top[new] = h
  BY <1>9, <1>11 DEF SplitGhost
<1>13. Blocks(N2, F2) = B \cup {new}  BY <1>2, <1>7, <1>8 DEF Blocks
<1>14. \A c \in DOMAIN N : c \in B /\ c # new  BY <1>2, <1>6 DEF Blocks
<1>15. \A c, u, w : Leads(N2, d, i, c, u, w) <=> NodeShares(N, g, a, c, u, w) /\ u < t
  <2>1. \A c, u, w : Entry(N2[i], l, t, c, u, w) <=> Entry(y, l, t, c, u, w)
    BY <1>7, SameChildren
  <2>2. d.lo[i] = l /\ d.hi[i] = t  BY <1>6, <1>9, <1>12
  <2> QED BY <1>10, <2>1, <2>2 DEF Leads
<1>16. \A c, u, w : Leads(N2, d, new, c, u, w) <=> NodeShares(N, g, a, c, u, w) /\ ~ u < t
  <2>1. \A c, u, w : Entry(N2[new], t, h, c, u, w) <=> Entry(z, t, h, c, u, w)
    BY <1>7, SameChildren
  <2> QED BY <1>10, <1>12, <2>1 DEF Leads
<1>17. ASSUME NEW p \in DOMAIN N, p # i, NEW c, NEW u, NEW w
       PROVE  Leads(N2, d, p, c, u, w) <=> Leads(N, g, p, c, u, w)
  <2>1. N2[p].keys = N[p].keys /\ N2[p].kids = N[p].kids  BY <1>7, <1>17
  <2>2. d.lo[p] = g.lo[p] /\ d.hi[p] = g.hi[p]  BY <1>12, <1>14, <1>17
  <2>3. Entry(N2[p], g.lo[p], g.hi[p], c, u, w) <=> Entry(N[p], g.lo[p], g.hi[p], c, u, w)
    BY <2>1, SameChildren
  <2> QED BY <2>2, <2>3 DEF Leads
<1>18. \A c : IsKid(z, c) <=> \E u, w : NodeShares(N, g, a, c, u, w) /\ ~ u < t
  <2> SUFFICES ASSUME NEW c
               PROVE  IsKid(z, c) <=> \E u, w : NodeShares(N, g, a, c, u, w) /\ ~ u < t
    OBVIOUS
  <2>1. IsKid(z, c) <=> \E u, w : Entry(z, t, h, c, u, w)  BY <1>10, KidEntries
  <2> QED BY <1>10, <2>1
<1>19. \A c : IsKid(z, c) => c \in B /\ ParentOf(N, F, c) = i /\ ~ g.lo[c] < t
  BY <1>2, <1>4, <1>18 DEF HangsFrom
<1>20. ASSUME NEW c \in B
       PROVE  ParentOf(N2, F2, c) = IF IsKid(z, c) THEN new ELSE ParentOf(N, F, c)
  <2>1. CASE c \in DOMAIN N
    <3>1. c \in DOMAIN N2 /\ c # new  BY <1>7, <1>14, <2>1
    <3> QED BY <1>7, <2>1, <3>1 DEF ParentOf
  <2>2. CASE c \notin DOMAIN N
    <3>1. c \in DOMAIN F /\ c \notin DOMAIN N2  BY <1>2, <1>6, <1>7, <2>2 DEF Blocks
    <3> QED BY <1>8, <2>2, <3>1 DEF ParentOf
  <2> QED BY <2>1, <2>2
<1>21. Hang(N2, F2, d)
  <2> SUFFICES ASSUME NEW p \in DOMAIN N2, NEW c, NEW u, NEW w, Leads(N2, d, p, c, u, w)
               PROVE  /\ c \in B /\ d.lev[p] = d.lev[c] + 1
                      /\ ParentOf(N2, F2, c) = p
                      /\ d.lo[c] = u /\ d.top[c] = w
    BY <1>13 DEF Hang
  <2>1. CASE p = i
    <3>1. NodeShares(N, g, a, c, u, w) /\ u < t  BY <1>15, <2>1
    <3>2. HangsFrom(N, F, g, i, c, u, w)  BY <1>4, <3>1
    <3>3. c \in B /\ g.lev[i] = g.lev[c] + 1 /\ ParentOf(N, F, c) = i
          /\ g.lo[c] = u /\ g.hi[c] = w
      BY <1>2, <3>2 DEF HangsFrom
    <3>4. ~ IsKid(z, c)  BY <1>19, <3>1, <3>3
    <3> QED BY <1>6, <1>12, <1>20, <2>1, <3>3, <3>4
  <2>2. CASE p = new
    <3>1. NodeShares(N, g, a, c, u, w) /\ ~ u < t  BY <1>16, <2>2
    <3>2. HangsFrom(N, F, g, i, c, u, w)  BY <1>4, <3>1
    <3>3. c \in B /\ g.lev[i] = g.lev[c] + 1 /\ g.lo[c] = u /\ g.hi[c] = w
      BY <1>2, <3>2 DEF HangsFrom
    <3>4. IsKid(z, c)  BY <1>18, <3>1
    <3> QED BY <1>12, <1>20, <2>2, <3>3, <3>4
  <2>3. CASE p # i /\ p # new
    <3>1. p \in DOMAIN N  BY <1>7, <2>3
    <3>2. Leads(N, g, p, c, u, w)  BY <1>17, <2>3, <3>1
    <3>3. HangsFrom(N, F, g, p, c, u, w)  BY <1>4, <2>3, <3>1, <3>2
    <3>4. c \in B /\ g.lev[p] = g.lev[c] + 1 /\ ParentOf(N, F, c) = p
          /\ g.lo[c] = u /\ g.hi[c] = w
      BY <1>2, <3>3 DEF HangsFrom
    <3>5. ~ IsKid(z, c)  BY <1>19, <2>3, <3>4
    <3> QED BY <1>12, <1>14, <1>20, <3>1, <3>4, <3>5
  <2> QED BY <2>1, <2>2, <2>3
<1>22. Linked(N2, M2, d, {a2.after})
  <2> SUFFICES ASSUME NEW c \in DOMAIN N2, c # M.root_offset, c # new
               PROVE  /\ N2[c].parent \in DOMAIN N2
                      /\ \E u, w : Leads(N2, d, N2[c].parent, c, u, w)
    BY <1>1 DEF Linked, NextMeta
  <2>1. c \in DOMAIN N  BY <1>7
  <2>2. N2[c].parent = IF IsKid(z, c) THEN new ELSE N[c].parent  BY <1>7
  <2>3. \/ c = after
        \/ /\ N[c].parent \in DOMAIN N
           /\ \E u, w : Leads(N, g, N[c].parent, c, u, w)
    BY <1>5, <2>1 DEF Linked
  <2>4. CASE c = after \/ \E u, w : Leads(N, g, i, c, u, w)
    <3>1. PICK u, w : NodeShares(N, g, a, c, u, w)  BY <1>3, <2>4, StillLed
    <3>2. N[c].parent = i /\ g.lo[c] = u
      <4>1. HangsFrom(N, F, g, i, c, u, w)  BY <1>4, <3>1
      <4> QED BY <2>1, <4>1 DEF HangsFrom, ParentOf
    <3>3. CASE u < t
      <4>1. ~ IsKid(z, c)  BY <1>19, <3>2, <3>3
      <4>2. Leads(N2, d, i, c, u, w)  BY <1>15, <3>1, <3>3
      <4>3. N2[c].parent = i  BY <2>2, <3>2, <4>1
      <4> QED BY <1>4, <1>7, <4>2, <4>3
    <3>4. CASE ~ u < t
      <4>1. IsKid(z, c)  BY <1>18, <3>1, <3>4
      <4>2. Leads(N2, d, new, c, u, w)  BY <1>16, <3>1, <3>4
      <4>3. N2[c].parent = new  BY <2>2, <4>1
      <4> QED BY <1>7, <4>2, <4>3
    <3> QED BY <3>3, <3>4
  <2>5. CASE /\ N[c].parent \in DOMAIN N
             /\ N[c].parent # i
             /\ \E u, w : Leads(N, g, N[c].parent, c, u, w)
    <3>1. PICK p : p = N[c].parent  OBVIOUS
    <3>2. ParentOf(N, F, c) = p  BY <2>1, <3>1 DEF ParentOf
    <3>3. ~ IsKid(z, c)  BY <1>19, <2>5, <3>1, <3>2
    <3>4. N2[c].parent = p  BY <2>2, <3>1, <3>3
    <3>5. PICK u, w : Leads(N, g, p, c, u, w)  BY <2>5, <3>1
    <3>6. Leads(N2, d, p, c, u, w)  BY <1>17, <2>5, <3>1, <3>5
    <3> QED BY <1>7, <2>5, <3>1, <3>4, <3>6
  <2> QED BY <2>3, <2>4, <2>5
<1>23. Placed(N2, F2, M2)
  <2>1. M2.slot = new + 1  BY <1>1 DEF NextMeta
  <2>2. \A c \in B \cup {new} : c \in 1 .. M2.slot - 1  BY <1>6, <2>1
  <2>3. DOMAIN N2 \cap DOMAIN F2 = {}  BY <1>5, <1>6, <1>7, <1>8 DEF Placed
  <2> QED BY <1>13, <2>1, <2>2, <2>3 DEF Placed
<1>24. Spans(N2, F2, d) /\ NoOverlap(N2, F2, d)
  <2>1. t \in Int  BY <1>10, KeyBounds
  <2> QED BY <1>2, <1>5, <1>6, <1>9, <1>10, <1>11, <1>13, <2>1, SplitSpans
<1>25. Nodes(N2, d)
  <2> SUFFICES ASSUME NEW c \in DOMAIN N2
               PROVE  d.lev[c] # 0 /\ NodeSorted(N2[c], d.lo[c], d.hi[c])
    BY <1>7 DEF Nodes
  <2>0. g.lev[i] # 0  BY <1>4, <1>5 DEF Nodes
  <2>1. CASE c = i
    <3>1. NodeSorted(N2[i], l, t)  BY <1>7, <1>10, SameChildren
    <3> QED BY <1>6, <1>9, <1>12, <2>0, <2>1, <3>1
  <2>2. CASE c = new
    <3>1. NodeSorted(N2[new], t, h)  BY <1>7, <1>10, SameChildren
    <3> QED BY <1>12, <2>0, <2>2, <3>1
  <2>3. CASE c # i /\ c # new
    <3>1. c \in DOMAIN N  BY <1>7, <2>3
    <3>2. g.lev[c] # 0 /\ NodeSorted(N[c], g.lo[c], g.hi[c])  BY <1>5, <3>1 DEF Nodes
    <3>3. NodeSorted(N2[c], g.lo[c], g.hi[c])  BY <1>7, <2>3, <3>1, <3>2, SameChildren
    <3> QED BY <1>12, <1>14, <2>3, <3>1, <3>2, <3>3
  <2> QED BY <2>1, <2>2, <2>3
<1>26. \A c \in DOMAIN F : d.lev[c] = g.lev[c] /\ d.lo[c] = g.lo[c] /\ d.hi[c] = g.hi[c]
  BY <1>2, <1>6, <1>12 DEF Blocks
<1>27. \A c \in DOMAIN F : /\ \A u, w : LeafSorted(F2[c], u, w) <=> LeafSorted(F[c], u, w)
                           /\ \A q, w : Has(F2[c], q, w) <=> Has(F[c], q, w)
  BY <1>8, SameRecords
<1>28. Leaves(F2, d)  BY <1>5, <1>8, <1>26, <1>27 DEF Leaves
<1>29. Keeps(F2, st, d)  BY <1>5, <1>8, <1>26, <1>27 DEF Keeps
<1>30. PICK r : r = M.root_offset /\ r = M2.root_offset  BY DEF NextMeta
<1>31. Rooted(N2, F2, M2, d)
  <2>1. PICK H : H = M.height /\ H = M2.height  BY DEF NextMeta
  <2>2. /\ r \in DOMAIN N /\ g.lev[r] = H /\ g.lo[r] = 0 /\ g.top[r] = KeyMod
        /\ N[r].parent = 0 /\ \A c \in B : g.lev[c] =< H
    BY <1>2, <1>5, <1>30, <2>1 DEF Rooted
  <2>3. ParentOf(N, F, r) = 0  BY <2>2 DEF ParentOf
  <2>4. r # old /\ ~ IsKid(z, r)  BY <1>4, <1>6, <1>19, <2>3
  <2>5. g.hi[r] = KeyMod  BY <1>2, <1>3, <1>14, <2>2, <2>4 DEF Pending
  <2>6. d.lev[r] = H /\ d.lo[r] = 0 /\ d.top[r] = KeyMod
    BY <1>12, <1>14, <2>2, <2>5
  <2>7. \A c \in B \cup {new} : d.lev[c] =< H  BY <1>6, <1>12, <2>2
  <2>8. r \in DOMAIN N2 /\ N2[r].parent = 0  BY <1>7, <1>14, <2>2, <2>4
  <2> QED BY <1>13, <1>30, <2>1, <2>6, <2>7, <2>8 DEF Rooted
<1>32. Pending(N2, F2, M2, d, a2)
  <2>1. PICK p : p = N[i].parent  OBVIOUS
  <2>2. a2.node = p /\ a2.key = t /\ a2.old = i /\ a2.after = new  BY <1>1, <1>3, <2>1
  <2>3. i \in Blocks(N2, F2) /\ new \in Blocks(N2, F2) /\ i # new  BY <1>6, <1>13
  <2>4. d.lev[i] = d.lev[new] /\ d.hi[i] = t /\ d.lo[new] = t  BY <1>6, <1>12
  <2>5. \A c \in B \cup {new} : d.top[c] = IF c = i THEN d.hi[new] ELSE d.hi[c]
    BY <1>6, <1>9, <1>12
  <2>6. ParentOf(N2, F2, new) = p
    <3>1. new \in DOMAIN N2 /\ ~ IsKid(z, new)  BY <1>6, <1>7, <1>19
    <3>2. N2[new].parent = p  BY <1>7, <2>1, <3>1
    <3> QED BY <3>1, <3>2 DEF ParentOf
  <2>7. CASE i = r
    <3>1. p = 0  BY <1>5, <1>30, <2>1, <2>7 DEF Rooted
    <3> QED BY <1>10, <1>13, <1>30, <2>2, <2>3, <2>4, <2>5, <2>6, <2>7, <3>1 DEF Pending
  <2>8. CASE i # r
    <3>1. ParentOf(N, F, after) = i /\ g.lev[i] = g.lev[old] + 1 /\ g.lev[old] = g.lev[after]
      <4>1. Leads(N, g, i, old, g.lo[old], g.hi[after])  BY <1>3, ClimbFacts
      <4>2. g.lev[i] = g.lev[old] + 1  BY <1>4, <1>5, <4>1 DEF Hang
      <4> QED BY <1>3, <4>2 DEF Pending
    <3>2. g.lev[i] \in Nat /\ g.lev[old] \in Nat
      <4>1. old \in B  BY <1>2, <1>3 DEF Pending
      <4> QED BY <1>2, <1>5, <1>6, <4>1 DEF Spans
    <3>3. i # after  BY <3>1, <3>2
    <3>4. p \in DOMAIN N /\ \E u, w : Leads(N, g, p, i, u, w)
      BY <1>4, <1>5, <1>30, <2>1, <2>8, <3>3 DEF Linked
    <3>5. PICK u, w : Leads(N, g, p, i, u, w)  BY <3>4
    <3>6. p # i
      <4>1. g.lev[p] = g.lev[i] + 1  BY <1>5, <3>4, <3>5 DEF Hang
      <4> QED BY <3>2, <4>1
    <3>7. u = g.lo[i] /\ w = g.hi[i]
      <4>1. HangsFrom(N, F, g, p, i, u, w)  BY <1>4, <3>4, <3>5, <3>6
      <4> QED BY <4>1 DEF HangsFrom
    <3>8. Leads(N2, d, p, i, d.lo[i], d.hi[new])
      <4>1. Leads(N2, d, p, i, u, w)  BY <1>17, <3>4, <3>5, <3>6
      <4>2. u = d.lo[i] /\ w = d.hi[new]  BY <1>6, <1>9, <1>12, <3>7
      <4> QED BY <4>1, <4>2
    <3>9. p \in DOMAIN N2  BY <1>7, <3>4
    <3> QED BY <1>10, <1>13, <2>2, <2>3, <2>4, <2>5, <2>6, <3>8, <3>9 DEF Pending
  <2> QED BY <2>7, <2>8
<1>33. Chained(F2, M2, d)
  <2>1. \A c \in DOMAIN F : F2[c].next = F[c].next /\ F2[c].prev = F[c].prev
    BY DEF LeafsMoved
  <2>2. M2.leaf_offset = M.leaf_offset  BY DEF NextMeta
  <2> QED BY <1>5, <1>8, <1>26, <2>1, <2>2, SameChained
<1>34. Tree(N2, F2, M2, st, d, {a2.after})
  BY <1>21, <1>22, <1>23, <1>24, <1>25, <1>28, <1>29, <1>31, <1>33 DEF Tree
<1> QED BY <1>32, <1>34 DEF Climbs

-----------------------------------------------------------------------------
(* The calls.                                                              *)

\* The meta block.
Meta == [root_offset : Int, leaf_offset : Int, height : Int, slot : Int,
         internal_node_num : Int, leaf_node_num : Int]

\* The leaf where the search for a key ends.
LEMMA LeafAround ==
    ASSUME KeysNear, NEW g, SettledTree(g), NEW k \in Keys, NEW o, o = search_leaf(k)
    PROVE  /\ o \in DOMAIN leafs /\ leafs[o] \in Leaf
           /\ g.lo[o] \in Int /\ g.hi[o] \in Int /\ g.lo[o] =< k /\ k < g.hi[o]
           /\ LeafSorted(leafs[o], g.lo[o], g.hi[o])
           /\ Agrees(leafs[o], stored, g.lo[o], g.hi[o])
           /\ DOMAIN stored \subseteq Keys
           /\ Absent(k) <=> k \notin DOMAIN stored
<1>1. o \in DOMAIN leafs /\ g.lo[o] =< k /\ k < g.hi[o]
  BY SearchIs DEF Reached
<1>2. Tree(nodes, leafs, meta, stored, g, {})  BY DEF SettledTree
<1>3. leafs[o] \in Leaf /\ LeafSorted(leafs[o], g.lo[o], g.hi[o])
  BY <1>1, <1>2 DEF Tree, Leaves
<1>4. Agrees(leafs[o], stored, g.lo[o], g.hi[o]) /\ DOMAIN stored \subseteq Keys
  BY <1>1, <1>2 DEF Tree, Keeps, Agrees
<1>5. g.lo[o] \in Int /\ g.hi[o] \in Int
  BY <1>1, <1>2 DEF Tree, Spans, Blocks
<1>6. Absent(k) <=> k \notin DOMAIN stored
  <2>1. Holds(leafs[o], k) <=> \E v : Has(leafs[o], k, v)  BY <1>3, HoldsIs
  <2>2. (\E v : Has(leafs[o], k, v)) <=> k \in DOMAIN stored
    BY <1>1, <1>4 DEF Agrees
  <2> QED BY <2>1, <2>2 DEF Absent
<1> QED BY <1>1, <1>3, <1>4, <1>5, <1>6

\* The tree at rest with leaf o changed.
LEMMA RestsChanged ==
    ASSUME NEW g, SettledTree(g), NEW o \in DOMAIN leafs,
           NEW y \in Leaf, SamePlace(y, leafs[o]), LeafSorted(y, g.lo[o], g.hi[o]),
           NEW st2, Agrees(y, st2, g.lo[o], g.hi[o]),
           SameElsewhere(st2, stored, g.lo[o], g.hi[o]),
           NEW F2, F2 = [leafs EXCEPT ![o] = y]
    PROVE  Rests(nodes, F2, meta, st2)
<1>1. Tree(nodes, leafs, meta, stored, g, {}) /\ Settled(nodes, leafs, g)
  BY DEF SettledTree
<1>2. Tree(nodes, F2, meta, st2, g, {})  BY <1>1, ChangedLeaf
<1>3. Settled(nodes, F2, g)
  <2>1. DOMAIN F2 = DOMAIN leafs  OBVIOUS
  <2> QED BY <1>1, <2>1 DEF Settled, Blocks
<1> QED BY <1>2, <1>3 DEF Rests

\* An insertion without a split.
LEMMA InsertRecordRests ==
    ASSUME KeysNear, Rests(nodes, leafs, meta, stored),
           NEW k \in Keys, NEW v \in Values, InsertRecord(k, v)
    PROVE  Rests(nodes, leafs', meta, stored')
<1>1. PICK g : SettledTree(g)  BY DEF Rests, SettledTree
<1>2. PICK o : o = search_leaf(k)  OBVIOUS
<1>3. PICK x : x = leafs[o]  OBVIOUS
<1>4. PICK y : y = insert_record_no_split(x, k, v)  OBVIOUS
<1>5. PICK F2 : F2 = leafs'  OBVIOUS
<1>6. PICK st2 : st2 = stored'  OBVIOUS
<1>7. PICK l, h : l = g.lo[o] /\ h = g.hi[o]  OBVIOUS
<1>8. F2 = [leafs EXCEPT ![o] = y] /\ st2 = Extend(stored, k, v) /\ Absent(k)
  BY <1>2, <1>3, <1>4, <1>5, <1>6 DEF InsertRecord
<1>9. /\ o \in DOMAIN leafs /\ x \in Leaf /\ LeafSorted(x, l, h)
      /\ l \in Int /\ h \in Int /\ l =< k /\ k < h
      /\ Agrees(x, stored, l, h) /\ DOMAIN stored \subseteq Keys
      /\ k \notin DOMAIN stored
  BY <1>1, <1>2, <1>3, <1>7, <1>8, LeafAround
<1>10. Lacks(x, k)  BY <1>9 DEF Lacks, Agrees
<1>11. /\ y \in Leaf /\ SamePlace(y, x) /\ LeafSorted(y, l, h)
       /\ \A q, w : Has(y, q, w) <=> Has(x, q, w) \/ (q = k /\ w = v)
  <2>1. IsWith(y, x, k, v, l, h)  BY <1>4, <1>9, <1>10, InsertRecordIs
  <2> QED BY <2>1 DEF IsWith
<1>12. /\ \A q, w : Has(x, q, w) \/ (q = k /\ w = v)
                <=> q \in DOMAIN st2 /\ w = st2[q] /\ l =< q /\ q < h
       /\ SameElsewhere(st2, stored, l, h)
  <2>1. Added(st2, stored, k, v)  BY <1>8, <1>9 DEF Added
  <2> QED BY <1>9, <2>1, AddedIs
<1>13. Agrees(y, st2, l, h)  BY <1>11, <1>12 DEF Agrees
<1>14. Rests(nodes, F2, meta, st2)
  BY <1>1, <1>3, <1>7, <1>8, <1>9, <1>11, <1>12, <1>13, RestsChanged
<1> QED BY <1>5, <1>6, <1>14

\* A change of a record's value.
LEMMA UpdateRests ==
    ASSUME KeysNear, Rests(nodes, leafs, meta, stored),
           NEW k \in Keys, NEW v \in Values, Update(k, v)
    PROVE  Rests(nodes, leafs', meta, stored')
<1>1. PICK g : SettledTree(g)  BY DEF Rests, SettledTree
<1>2. PICK o : o = search_leaf(k)  OBVIOUS
<1>3. PICK x : x = leafs[o]  OBVIOUS
<1>4. PICK i : i = lower_bound(RecordKeys(x), k) + 1  OBVIOUS
<1>5. PICK y : y = [x EXCEPT !.recs[i].value = v]  OBVIOUS
<1>6. PICK F2 : F2 = leafs'  OBVIOUS
<1>7. PICK st2 : st2 = stored'  OBVIOUS
<1>8. PICK l, h : l = g.lo[o] /\ h = g.hi[o]  OBVIOUS
<1>9. i \in DOMAIN x.recs /\ keycmp(k, x.recs[i].key) = 0
  BY <1>2, <1>3, <1>4 DEF Update
<1>10. F2 = [leafs EXCEPT ![o].recs[i].value = v] /\ st2 = [stored EXCEPT ![k] = v]
  BY <1>2, <1>3, <1>4, <1>6, <1>7 DEF Update
<1>11. F2 = [leafs EXCEPT ![o] = y]  BY <1>3, <1>5, <1>10
<1>12. /\ o \in DOMAIN leafs /\ x \in Leaf /\ LeafSorted(x, l, h)
       /\ l \in Int /\ h \in Int /\ l =< k /\ k < h
       /\ Agrees(x, stored, l, h) /\ DOMAIN stored \subseteq Keys
  BY <1>1, <1>2, <1>3, <1>8, LeafAround
<1>13. /\ y \in Leaf /\ SamePlace(y, x) /\ LeafSorted(y, l, h)
       /\ \A q, w : Has(y, q, w) <=> IF q = k THEN w = v ELSE Has(x, q, w)
       /\ \E w : Has(x, k, w)
  BY <1>4, <1>5, <1>9, <1>12, UpdateIs
<1>14. k \in DOMAIN stored  BY <1>12, <1>13 DEF Agrees
<1>15. /\ DOMAIN st2 = DOMAIN stored /\ st2[k] = v
       /\ \A q \in DOMAIN stored : q # k => st2[q] = stored[q]
  BY <1>10, <1>14
<1>16. Agrees(y, st2, l, h)
  <2> SUFFICES ASSUME NEW q, NEW w
               PROVE  Has(y, q, w) <=> q \in DOMAIN st2 /\ w = st2[q] /\ l =< q /\ q < h
    BY DEF Agrees
  <2>1. CASE q = k  BY <1>12, <1>13, <1>14, <1>15, <2>1
  <2>2. CASE q # k
    <3>1. Has(x, q, w) <=> q \in DOMAIN stored /\ w = stored[q] /\ l =< q /\ q < h
      BY <1>12 DEF Agrees
    <3> QED BY <1>13, <1>15, <2>2, <3>1
  <2> QED BY <2>1, <2>2
<1>17. SameElsewhere(st2, stored, l, h)
  <2>1. \A q : ~ (l =< q /\ q < h) => q # k  BY <1>12
  <2> QED BY <1>12, <1>15, <2>1 DEF SameElsewhere
<1>18. Rests(nodes, F2, meta, st2)
  BY <1>1, <1>3, <1>8, <1>11, <1>12, <1>13, <1>16, <1>17, RestsChanged
<1> QED BY <1>6, <1>7, <1>18

\* A removal from a leaf that stays full enough.
LEMMA RemoveRecordRests ==
    ASSUME KeysNear, Rests(nodes, leafs, meta, stored), NEW k \in Keys, RemoveRecord(k)
    PROVE  Rests(nodes, leafs', meta, stored')
<1>1. PICK g : SettledTree(g)  BY DEF Rests, SettledTree
<1>2. PICK o : o = search_leaf(k)  OBVIOUS
<1>3. PICK x : x = leafs[o]  OBVIOUS
<1>4. PICK y : y = WithoutKey(x, k)  OBVIOUS
<1>5. PICK F2 : F2 = leafs'  OBVIOUS
<1>6. PICK st2 : st2 = stored'  OBVIOUS
<1>7. PICK l, h : l = g.lo[o] /\ h = g.hi[o]  OBVIOUS
<1>8. F2 = [leafs EXCEPT ![o] = y]  BY <1>2, <1>3, <1>4, <1>5 DEF RemoveRecord
<1>9. st2 = [q \in DOMAIN stored \ {k} |-> stored[q]]  BY <1>6 DEF RemoveRecord, Removes
<1>10. Holds(x, k)  BY <1>2, <1>3 DEF RemoveRecord, Removes, Absent
<1>11. /\ o \in DOMAIN leafs /\ x \in Leaf /\ LeafSorted(x, l, h)
       /\ l \in Int /\ h \in Int /\ l =< k /\ k < h
       /\ Agrees(x, stored, l, h) /\ DOMAIN stored \subseteq Keys
  BY <1>1, <1>2, <1>3, <1>7, LeafAround
<1>12. /\ y \in Leaf /\ SamePlace(y, x) /\ LeafSorted(y, l, h)
       /\ \A q, w : Has(y, q, w) <=> Has(x, q, w) /\ q # k
  <2>1. IsWithout(y, x, k, l, h)  BY <1>4, <1>10, <1>11, WithoutKeyIs
  <2> QED BY <2>1 DEF IsWithout
<1>13. /\ DOMAIN st2 = DOMAIN stored \ {k}
       /\ \A q \in DOMAIN stored : q # k => st2[q] = stored[q]
  BY <1>9
<1>14. Agrees(y, st2, l, h)
  <2> SUFFICES ASSUME NEW q, NEW w
               PROVE  Has(y, q, w) <=> q \in DOMAIN st2 /\ w = st2[q] /\ l =< q /\ q < h
    BY DEF Agrees
  <2>1. Has(x, q, w) <=> q \in DOMAIN stored /\ w = stored[q] /\ l =< q /\ q < h
    BY <1>11 DEF Agrees
  <2> QED BY <1>12, <1>13, <2>1
<1>15. SameElsewhere(st2, stored, l, h)
  <2>1. \A q : ~ (l =< q /\ q < h) => q # k  BY <1>11
  <2> QED BY <1>11, <1>13, <2>1 DEF SameElsewhere
<1>16. Rests(nodes, F2, meta, st2)
  BY <1>1, <1>3, <1>7, <1>8, <1>11, <1>12, <1>14, <1>15, RestsChanged
<1> QED BY <1>5, <1>6, <1>16

\* The halves InsertSplit makes of a full leaf.
LeafSplits(y, z, x, k, v) ==
    LET mid == Len(x.recs) \div 2
        place_right == keycmp(k, x.recs[mid + 1].key) > 0
        point == IF place_right THEN mid + 1 ELSE mid
        l == [x EXCEPT !.recs = SubSeq(@, 1, point)]
        r == [x EXCEPT !.recs = SubSeq(@, point + 1, Len(@))]
    IN  /\ y = IF place_right THEN l ELSE insert_record_no_split(l, k, v)
        /\ z = IF place_right THEN insert_record_no_split(r, k, v) ELSE r

\* They share its records and the new one.
LEMMA LeafSplitIs ==
    ASSUME KeysNear, NEW x \in Leaf, NEW l \in Int, NEW h \in Int, LeafSorted(x, l, h),
           Len(x.recs) = Order,
           NEW k \in Keys, NEW v \in Values, l =< k, k < h, Lacks(x, k),
           NEW y, NEW z, LeafSplits(y, z, x, k, v)
    PROVE  Halved(y, z, z.recs[1].key, x, k, v, l, h)
<1>1. PICK m \in Nat : m >= 2 /\ Order = 2 * m /\ Order \div 2 = m  BY Half
<1>2. PICK n \in Nat : n = Len(x.recs) /\ n = 2 * m  BY <1>1
<1>3. m + 1 \in 1 .. n /\ m + 1 \in 1 .. Len(x.recs)  BY <1>1, <1>2
<1>4. PICK t : t = x.recs[m + 1].key  OBVIOUS
<1>5. t \in Keys /\ t # k
  <2>1. t \in Keys /\ x.recs[m + 1] = [key |-> t, value |-> x.recs[m + 1].value]
    BY <1>3, <1>4, RecordIs
  <2>2. Has(x, t, x.recs[m + 1].value)  BY <1>3, <2>1 DEF Has
  <2> QED BY <2>1, <2>2 DEF Lacks
<1>6. keycmp(k, t) = k - t /\ k \in Int /\ t \in Int  BY <1>5, KeycmpIs, KeyBounds
<1>7. PICK right \in BOOLEAN : right <=> keycmp(k, t) > 0  OBVIOUS
<1>8. PICK p : p = IF right THEN m + 1 ELSE m  OBVIOUS
<1>9. PICK a, b : IsCutAt(a, b, x, p)  BY DEF IsCutAt
<1>10. /\ y = IF right THEN a ELSE insert_record_no_split(a, k, v)
       /\ z = IF right THEN insert_record_no_split(b, k, v) ELSE b
  <2>1. Len(x.recs) \div 2 = m  BY <1>1
  <2> QED BY <1>4, <1>7, <1>8, <1>9, <2>1 DEF LeafSplits, IsCutAt
<1>11. CASE ~ right
  <2>1. k < t  BY <1>5, <1>6, <1>7, <1>11
  <2>2. IsCutAt(a, b, x, m) /\ y = insert_record_no_split(a, k, v) /\ z = b
    BY <1>8, <1>9, <1>10, <1>11
  <2> QED BY <1>1, <1>2, <1>4, <2>1, <2>2, SplitLeft
<1>12. CASE right
  <2>1. k > t  BY <1>5, <1>6, <1>7, <1>12
  <2>2. IsCutAt(a, b, x, m + 1) /\ y = a /\ z = insert_record_no_split(b, k, v)
    BY <1>8, <1>9, <1>10, <1>12
  <2> QED BY <1>1, <1>2, <1>4, <2>1, <2>2, SplitRight
<1> QED BY <1>11, <1>12

\* A block handed out in a placed tree.
LEMMA BlockIs ==
    ASSUME NEW N, NEW F, NEW M, Placed(N, F, M)
    PROVE  /\ M.slot \in Nat /\ M.slot \notin DOMAIN N /\ M.slot \notin DOMAIN F
           /\ \A o \in Blocks(N, F) : o \in Nat
<1>1. PICK s \in Nat : s = M.slot  BY DEF Placed
<1>2. \A o \in Blocks(N, F) : o \in 1 .. s - 1  BY <1>1 DEF Placed
<1>3. s \notin Blocks(N, F)  BY <1>2
<1>4. \A o \in Blocks(N, F) : o \in Nat  BY <1>2
<1> QED BY <1>1, <1>3, <1>4 DEF Blocks

\* What an insertion does that splits a leaf.
SplitsLeaf(g, k, v, o, y, z) ==
    /\ o = search_leaf(k) /\ o \in DOMAIN leafs
    /\ Halved(y, z, z.recs[1].key, leafs[o], k, v, g.lo[o], g.hi[o])
    /\ LeafCreated(leafs', leafs, o, meta.slot, y, z)
    /\ arg' = [node |-> search_index(k), key |-> z.recs[1].key,
               old |-> o, after |-> meta.slot]
    /\ search_index(k) \in DOMAIN nodes
    /\ Leads(nodes, g, search_index(k), o, g.lo[o], g.hi[o])

\* InsertSplit does so.
LEMMA InsertSplitIs ==
    ASSUME KeysNear, NEW g, SettledTree(g),
           NEW k \in Keys, NEW v \in Values, InsertSplit(k, v)
    PROVE  \E o, y, z : SplitsLeaf(g, k, v, o, y, z)
<1>1. PICK o : o = search_leaf(k)  OBVIOUS
<1>2. PICK x : x = leafs[o]  OBVIOUS
<1>3. PICK F2, a : F2 = leafs' /\ a = arg'  OBVIOUS
<1>4. PICK l, h : l = g.lo[o] /\ h = g.hi[o]  OBVIOUS
<1>5. PICK y, z :
        /\ LeafSplits(y, z, x, k, v)
        /\ F2 = node_create(leafs, o, meta.slot, y, z)
        /\ a = [node |-> search_index(k), key |-> z.recs[1].key,
                old |-> o, after |-> meta.slot]
  BY <1>1, <1>2, <1>3 DEF InsertSplit, LeafSplits
<1>6. Len(x.recs) = Order /\ Absent(k)  BY <1>1, <1>2 DEF InsertSplit
<1>7. /\ o \in DOMAIN leafs /\ x \in Leaf /\ LeafSorted(x, l, h)
      /\ l \in Int /\ h \in Int /\ l =< k /\ k < h
      /\ Agrees(x, stored, l, h) /\ k \notin DOMAIN stored
  BY <1>1, <1>2, <1>4, <1>6, LeafAround
<1>8. Lacks(x, k)  BY <1>7 DEF Lacks, Agrees
<1>9. PICK t : t = z.recs[1].key  OBVIOUS
<1>10. Halved(y, z, t, x, k, v, l, h)
  BY <1>5, <1>6, <1>7, <1>8, <1>9, LeafSplitIs
<1>11. Tree(nodes, leafs, meta, stored, g, {})  BY DEF SettledTree
<1>12. LeafCreated(F2, leafs, o, meta.slot, y, z)
  <2>1. Placed(nodes, leafs, meta)  BY <1>11 DEF Tree
  <2>2. meta.slot \in Nat /\ meta.slot \notin DOMAIN leafs /\ o \in Nat
    <3>1. o \in Blocks(nodes, leafs)  BY <1>7 DEF Blocks
    <3> QED BY <2>1, <3>1, BlockIs
  <2>3. \A c \in DOMAIN leafs : leafs[c] \in Leaf  BY <1>11 DEF Tree, Leaves
  <2>4. y \in Leaf /\ z \in Leaf /\ SamePlace(y, x)  BY <1>10 DEF Halved
  <2> QED BY <1>2, <1>5, <1>7, <2>2, <2>3, <2>4, LeafCreateIs
<1>13. PICK i : i = search_index(k)  OBVIOUS
<1>14. i \in DOMAIN nodes /\ Leads(nodes, g, i, o, l, h)
  <2>1. Reached(g, k, i, o)  BY <1>1, <1>13, SearchIs
  <2> QED BY <1>4, <2>1 DEF Reached
<1> QED BY <1>1, <1>2, <1>3, <1>4, <1>5, <1>7, <1>9, <1>10, <1>12, <1>13, <1>14
        DEF SplitsLeaf

\* The tree then waits for the new leaf's key to go up.
LEMMA InsertSplitClimbs ==
    ASSUME KeysNear, Rests(nodes, leafs, meta, stored), meta \in Meta,
           NEW k \in Keys, NEW v \in Values, InsertSplit(k, v)
    PROVE  Climbs(nodes, leafs', meta', stored', arg')
<1>1. PICK g : SettledTree(g)  BY DEF Rests, SettledTree
<1>2. PICK o, y, z : SplitsLeaf(g, k, v, o, y, z)  BY <1>1, InsertSplitIs
<1>3. PICK x : x = leafs[o]  OBVIOUS
<1>4. PICK F2, st2, M2, a :
        F2 = leafs' /\ st2 = stored' /\ M2 = meta' /\ a = arg'
  OBVIOUS
<1>5. PICK l, h : l = g.lo[o] /\ h = g.hi[o]  OBVIOUS
<1>6. PICK i : i = search_index(k)  OBVIOUS
<1>7. PICK t : t = z.recs[1].key  OBVIOUS
<1>8. /\ o = search_leaf(k)
      /\ Halved(y, z, t, x, k, v, l, h)
      /\ LeafCreated(F2, leafs, o, meta.slot, y, z)
      /\ a.node = i /\ a.key = t /\ a.old = o /\ a.after = meta.slot
      /\ i \in DOMAIN nodes /\ Leads(nodes, g, i, o, l, h)
  BY <1>2, <1>3, <1>4, <1>5, <1>6, <1>7 DEF SplitsLeaf
<1>9. st2 = Extend(stored, k, v) /\ Absent(k)  BY <1>4 DEF InsertSplit
<1>10. NextMeta(M2, meta)
  BY <1>4 DEF InsertSplit, NextMeta, Meta
<1>11. /\ o \in DOMAIN leafs /\ x \in Leaf /\ LeafSorted(x, l, h)
       /\ l \in Int /\ h \in Int /\ l =< k /\ k < h
       /\ Agrees(x, stored, l, h) /\ DOMAIN stored \subseteq Keys
       /\ k \notin DOMAIN stored
  BY <1>1, <1>3, <1>5, <1>8, <1>9, LeafAround
<1>12. Tree(nodes, leafs, meta, stored, g, {}) /\ Settled(nodes, leafs, g)
  BY <1>1 DEF SettledTree
<1>13. Added(st2, stored, k, v)  BY <1>9, <1>11 DEF Added
<1>14. Climbs(nodes, F2, M2, st2, a)
  BY <1>3, <1>5, <1>8, <1>10, <1>11, <1>12, <1>13, SplitLeafTree
<1> QED BY <1>4, <1>14

-----------------------------------------------------------------------------
(* The steps up.                                                           *)

\* The tree when the key has got into a node with room.
LEMMA IndexKeyRests ==
    ASSUME KeysNear, Climbs(nodes, leafs, meta, stored, arg), IndexKey
    PROVE  Rests(nodes', leafs, meta, stored)
<1>1. PICK N2 : N2 = nodes'  OBVIOUS
<1>2. PICK a : a = arg  OBVIOUS
<1>3. Climbs(nodes, leafs, meta, stored, a) /\ a.node # 0
  BY <1>2 DEF IndexKey
<1>4. N2 = [nodes EXCEPT ![a.node] = insert_key_to_index_no_split(@, a.key, a.after)]
  BY <1>1, <1>2 DEF IndexKey
<1>5. Rests(N2, leafs, meta, stored)  BY <1>3, <1>4, KeyTree
<1> QED BY <1>1, <1>5

\* The two halves of a split root are nodes.
LEMMA RootHalves ==
    ASSUME NEW N, NEW F, NEW M, NEW st, NEW a, Climbs(N, F, M, st, a), a.node = 0
    PROVE  /\ M.slot \notin DOMAIN N
           /\ a.old \notin DOMAIN F /\ a.after \notin DOMAIN F
<1>1. PICK g : Tree(N, F, M, st, g, {a.after}) /\ Pending(N, F, M, g, a)  BY DEF Climbs
<1>2. PICK i, old, after : i = a.node /\ old = a.old /\ after = a.after  OBVIOUS
<1>3. Placed(N, F, M) /\ Nodes(N, g) /\ Leaves(F, g) /\ Rooted(N, F, M, g)
  BY <1>1 DEF Tree
<1>4. 0 \notin DOMAIN N
  <2>1. M.slot \in Nat /\ \A o \in Blocks(N, F) : o \in 1 .. M.slot - 1
    BY <1>3 DEF Placed
  <2>2. 0 \notin 1 .. M.slot - 1  BY <2>1
  <2> QED BY <2>1, <2>2 DEF Blocks
<1>5. old = M.root_offset /\ g.lev[old] = g.lev[after]
  BY <1>1, <1>2, <1>4 DEF Pending
<1>6. old \in DOMAIN N  BY <1>3, <1>5 DEF Rooted
<1>7. g.lev[old] # 0  BY <1>3, <1>6 DEF Nodes
<1>8. old \notin DOMAIN F /\ after \notin DOMAIN F  BY <1>3, <1>5, <1>7 DEF Leaves
<1> QED BY <1>2, <1>3, <1>8, BlockIs

\* The leaves are a function of their offsets.
ByOffset(F) == F = [c \in DOMAIN F |-> F[c]]

\* The tree under a new root.
LEMMA IndexRootRests ==
    ASSUME Climbs(nodes, leafs, meta, stored, arg), meta \in Meta, ByOffset(leafs),
           IndexRoot
    PROVE  Rests(nodes', leafs', meta', stored) /\ leafs' = leafs
<1>1. PICK N2, F2, M2 : N2 = nodes' /\ F2 = leafs' /\ M2 = meta'  OBVIOUS
<1>2. PICK a : a = arg  OBVIOUS
<1>3. Climbs(nodes, leafs, meta, stored, a) /\ a.node = 0
  BY <1>2 DEF IndexRoot
<1>4. PICK kids : kids = <<a.old, a.after>>  OBVIOUS
<1>5. /\ N2 = Extend(Reparent(nodes, <<a.old, a.after>>, meta.slot), meta.slot,
                     [parent |-> 0, next |-> 0, prev |-> 0,
                      keys |-> <<a.key, Garbage>>, kids |-> <<a.old, a.after>>])
      /\ F2 = Reparent(leafs, kids, meta.slot)
      /\ M2 = [meta EXCEPT !.root_offset = meta.slot, !.height = @ + 1,
                           !.slot = @ + 1, !.internal_node_num = @ + 1]
  BY <1>1, <1>2, <1>4 DEF IndexRoot
<1>6. /\ meta.slot \notin DOMAIN nodes
      /\ a.old \notin DOMAIN leafs /\ a.after \notin DOMAIN leafs
  BY <1>3, RootHalves
<1>7. F2 = leafs
  <2>1. \A i \in DOMAIN kids : kids[i] \notin DOMAIN leafs
    <3>1. DOMAIN kids = {1, 2} /\ kids[1] = a.old /\ kids[2] = a.after  BY <1>4
    <3> QED BY <1>6, <3>1
  <2> QED BY <1>5, <2>1, ReparentNone DEF ByOffset
<1>8. RootCreated(N2, nodes, meta.slot, a.key, a.old, a.after)
  BY <1>5, <1>6, RootCreateIs
<1>9. /\ M2.slot = meta.slot + 1 /\ M2.root_offset = meta.slot
      /\ M2.height = meta.height + 1 /\ M2.leaf_offset = meta.leaf_offset
  BY <1>5 DEF Meta
<1>10. Rests(N2, leafs, M2, stored)  BY <1>3, <1>8, <1>9, RootTree
<1> QED BY <1>1, <1>7, <1>10

\* What a step up does that splits a full node.
SplitsNode(g, a, i, y, z, p) ==
    /\ i = a.node /\ i # 0 /\ i \in DOMAIN nodes
    /\ NodeHalved(y, z, nodes[i].keys[p], nodes[i], g.lo[i], g.hi[i],
                  a.old, a.after, g.lo[a.old], a.key, g.hi[a.after])
    /\ NodesSplit(nodes', nodes, i, meta.slot, y, z)
    /\ LeafsMoved(leafs', leafs, meta.slot, z)
    /\ arg' = [node |-> nodes[i].parent, key |-> nodes[i].keys[p],
               old |-> i, after |-> meta.slot]

\* IndexSplit does so.
LEMMA IndexSplitIs ==
    ASSUME KeysNear, NEW g, NEW a, a = arg, Tree(nodes, leafs, meta, stored, g, {a.after}),
           Pending(nodes, leafs, meta, g, a), IndexSplit
    PROVE  \E i, y, z, p : SplitsNode(g, a, i, y, z, p)
<1>1. PICK N2, F2, a2 : N2 = nodes' /\ F2 = leafs' /\ a2 = arg'  OBVIOUS
<1>2. PICK i : i = a.node  OBVIOUS
<1>3. PICK x : x = nodes[i]  OBVIOUS
<1>4. PICK y, z, p :
        /\ NodeSplits(y, z, p, x, a.key, a.after)
        /\ N2 = Reparent(node_create(nodes, i, meta.slot, y, z), z.kids, meta.slot)
        /\ F2 = Reparent(leafs, z.kids, meta.slot)
        /\ a2 = [node |-> x.parent, key |-> x.keys[p], old |-> i, after |-> meta.slot]
  <2>1. PICK y, z, p :
          /\ NodeSplits(y, z, p, nodes[arg.node], arg.key, arg.after)
          /\ nodes' = Reparent(node_create(nodes, arg.node, meta.slot, y, z),
                               z.kids, meta.slot)
          /\ leafs' = Reparent(leafs, z.kids, meta.slot)
          /\ arg' = [node |-> nodes[arg.node].parent, key |-> nodes[arg.node].keys[p],
                     old |-> arg.node, after |-> meta.slot]
    BY Zenon DEF IndexSplit, NodeSplits
  <2> QED BY <1>1, <1>2, <1>3, <2>1
<1>5. i # 0 /\ Len(x.kids) = Order  BY <1>2, <1>3 DEF IndexSplit
<1>6. /\ i \in DOMAIN nodes
      /\ Leads(nodes, g, i, a.old, g.lo[a.old], g.hi[a.after])
      /\ g.lo[a.old] < a.key /\ a.key < g.hi[a.after] /\ a.after \in Nat
  BY <1>2, <1>5, ClimbFacts
<1>7. a.key \in Keys  BY DEF Pending
<1>8. PICK l, h : l = g.lo[i] /\ h = g.hi[i]  OBVIOUS
<1>9. x \in Node /\ NodeSorted(x, l, h)
  BY <1>3, <1>6, <1>8 DEF Tree, Nodes
<1>10. Entry(x, l, h, a.old, g.lo[a.old], g.hi[a.after])
  BY <1>3, <1>6, <1>8 DEF Leads
<1>11. PICK t : t = x.keys[p]  OBVIOUS
<1>12. NodeHalved(y, z, t, x, l, h, a.old, a.after, g.lo[a.old], a.key, g.hi[a.after])
  BY <1>4, <1>5, <1>6, <1>7, <1>9, <1>10, <1>11, NodeSplitIs
<1>13. y \in Node /\ z \in Node /\ SamePlace(y, x)  BY <1>12 DEF NodeHalved
<1>14. Placed(nodes, leafs, meta) /\ Nodes(nodes, g) /\ Leaves(leafs, g)
  BY DEF Tree
<1>15. meta.slot \in Nat /\ meta.slot \notin DOMAIN nodes /\ i \in Nat
  <2>1. i \in Blocks(nodes, leafs)  BY <1>6 DEF Blocks
  <2> QED BY <1>14, <2>1, BlockIs
<1>16. NodesSplit(N2, nodes, i, meta.slot, y, z)
  <2>1. \A c \in DOMAIN nodes : nodes[c] \in Node  BY <1>14 DEF Nodes
  <2> QED BY <1>3, <1>4, <1>6, <1>13, <1>15, <2>1, NodesSplitIs
<1>17. LeafsMoved(F2, leafs, meta.slot, z)
  <2>1. \A c \in DOMAIN leafs : leafs[c] \in Leaf  BY <1>14 DEF Leaves
  <2> QED BY <1>4, <1>15, <2>1, LeafsMovedIs
<1> QED BY <1>1, <1>2, <1>3, <1>4, <1>5, <1>6, <1>8, <1>11, <1>12, <1>16, <1>17
        DEF SplitsNode

\* The tree then waits for the middle key to go further up.
LEMMA IndexSplitClimbs ==
    ASSUME KeysNear, Climbs(nodes, leafs, meta, stored, arg), meta \in Meta, IndexSplit
    PROVE  Climbs(nodes', leafs', meta', stored, arg')
<1>1. PICK N2, F2, M2, a2 :
        N2 = nodes' /\ F2 = leafs' /\ M2 = meta' /\ a2 = arg'
  OBVIOUS
<1>2. PICK a : a = arg  OBVIOUS
<1>3. PICK g : Tree(nodes, leafs, meta, stored, g, {a.after})
               /\ Pending(nodes, leafs, meta, g, a)
  BY <1>2 DEF Climbs
<1>4. PICK i, y, z, p : SplitsNode(g, a, i, y, z, p)  BY <1>2, <1>3, IndexSplitIs
<1>5. PICK x : x = nodes[i]  OBVIOUS
<1>6. PICK t : t = x.keys[p]  OBVIOUS
<1>7. /\ a.node # 0 /\ i = a.node /\ x = nodes[a.node]
      /\ NodeHalved(y, z, t, nodes[a.node], g.lo[a.node], g.hi[a.node],
                    a.old, a.after, g.lo[a.old], a.key, g.hi[a.after])
      /\ NodesSplit(N2, nodes, a.node, meta.slot, y, z)
      /\ LeafsMoved(F2, leafs, meta.slot, z)
      /\ a2.node = x.parent /\ a2.key = t /\ a2.old = i /\ a2.after = meta.slot
  BY <1>1, <1>4, <1>5, <1>6 DEF SplitsNode
<1>8. NextMeta(M2, meta)  BY <1>1 DEF IndexSplit, NextMeta, Meta
<1>9. Climbs(N2, F2, M2, stored, a2)
  <2>1. a2.node = nodes[a.node].parent /\ a2.old = a.node  BY <1>7
  <2> QED BY <1>3, <1>7, <1>8, <2>1, SplitNodeTree
<1> QED BY <1>1, <1>9

-----------------------------------------------------------------------------
(* The empty tree.                                                         *)

\* The one node over the one leaf.
LEMMA EmptyNode ==
    ASSUME NEW h \in Int, 0 < h,
           NEW x, x = [parent |-> 0, next |-> 0, prev |-> 0,
                       keys |-> <<Garbage>>, kids |-> << 2 >>]
    PROVE  /\ x \in Node /\ NodeSorted(x, 0, h)
           /\ \A c, u, w : Entry(x, 0, h, c, u, w) <=> c = 2 /\ u = 0 /\ w = h
<1>1. PICK s : s = <<Garbage>>  OBVIOUS
<1>2. PICK z : z = <<2>>  OBVIOUS
<1>3. s \in Seq(Keys \cup {Garbage}) /\ Len(s) = 1  BY <1>1
<1>4. z \in Seq(Nat) /\ Len(z) = 1 /\ z[1] = 2  BY <1>2
<1>5. x.keys = s /\ x.kids = z /\ x \in Node  BY <1>1, <1>2, <1>3, <1>4 DEF Node
<1>6. PICK e : e = [j \in 0 .. 1 |-> IF j = 0 THEN 0 ELSE h]  OBVIOUS
<1>7. e \in [0 .. 1 -> Int] /\ e[0] = 0 /\ e[1] = h  BY <1>6
<1>8. \A i, j \in 0 .. 1 : i < j => e[i] < e[j]  BY <1>6
<1>9. AreBounds(e, 1, x, 0, h)
  <2>1. \A i \in 1 .. 1 - 1 : e[i] = x.keys[i] /\ e[i] \in Keys  OBVIOUS
  <2> QED BY <1>3, <1>4, <1>5, <1>7, <1>8, <2>1 DEF AreBounds
<1>10. NodeSorted(x, 0, h)
       /\ \A c, u, w : Entry(x, 0, h, c, u, w) <=>
            \E i \in 1 .. 1 : c = x.kids[i] /\ u = e[i - 1] /\ w = e[i]
  BY <1>9, BoundsAre
<1>11. ASSUME NEW c, NEW u, NEW w
       PROVE  (\E i \in 1 .. 1 : c = z[i] /\ u = e[i - 1] /\ w = e[i])
                <=> c = 2 /\ u = 0 /\ w = h
  <2>1. \A i \in 1 .. 1 : i = 1  OBVIOUS
  <2>2. 1 \in 1 .. 1 /\ 1 - 1 = 0  OBVIOUS
  <2> QED BY <1>4, <1>7, <2>1, <2>2
<1> QED BY <1>5, <1>10, <1>11

\* A leaf without records.
LEMMA EmptyLeaf ==
    ASSUME NEW h \in Int,
           NEW x, x = [parent |-> 1, next |-> 0, prev |-> 0, recs |-> << >>]
    PROVE  x \in Leaf /\ LeafSorted(x, 0, h) /\ \A q, w : ~ Has(x, q, w)
<1>1. x.recs = << >> /\ Len(x.recs) = 0 /\ x.recs \in Seq(Record)  BY DEF Leaf
<1>2. x \in Leaf  BY <1>1 DEF Leaf
<1>3. 1 .. Len(x.recs) = {}  BY <1>1
<1> QED BY <1>2, <1>3 DEF LeafSorted, Has

\* What the constructor makes is at rest.
LEMMA EmptyRests ==
    Rests(EmptyNodes, EmptyLeafs, EmptyMeta, << >>)
<1>1. PICK N, F, M, st : N = EmptyNodes /\ F = EmptyLeafs /\ M = EmptyMeta /\ st = << >>
  OBVIOUS
<1>2. KeyMod \in Int /\ 0 < KeyMod
  <2>1. KeyMod \in Nat \ {0}  BY TreeAssumption
  <2> QED BY <2>1
<1>3. /\ DOMAIN N = {1}
      /\ N[1] = [parent |-> 0, next |-> 0, prev |-> 0, keys |-> <<Garbage>>, kids |-> <<2>>]
      /\ N[1].parent = 0
  BY <1>1 DEF EmptyNodes
<1>4. /\ DOMAIN F = {2}
      /\ F[2] = [parent |-> 1, next |-> 0, prev |-> 0, recs |-> << >>]
      /\ F[2].parent = 1
  BY <1>1 DEF EmptyLeafs
<1>5. M.root_offset = 1 /\ M.height = 1 /\ M.slot = 3  BY <1>1 DEF EmptyMeta
<1>6. DOMAIN st = {}  BY <1>1
<1>7. PICK g : /\ g.lev[1] = 1 /\ g.lo[1] = 0 /\ g.hi[1] = KeyMod /\ g.top[1] = KeyMod
               /\ g.lev[2] = 0 /\ g.lo[2] = 0 /\ g.hi[2] = KeyMod /\ g.top[2] = KeyMod
  <2> DEFINE e == [lev |-> [c \in {1, 2} |-> IF c = 1 THEN 1 ELSE 0],
                   lo |-> [c \in {1, 2} |-> 0],
                   hi |-> [c \in {1, 2} |-> KeyMod],
                   top |-> [c \in {1, 2} |-> KeyMod]]
  <2>1. /\ e.lev[1] = 1 /\ e.lo[1] = 0 /\ e.hi[1] = KeyMod /\ e.top[1] = KeyMod
        /\ e.lev[2] = 0 /\ e.lo[2] = 0 /\ e.hi[2] = KeyMod /\ e.top[2] = KeyMod
    OBVIOUS
  <2> HIDE DEF e
  <2> QED BY <2>1
<1>8. /\ N[1] \in Node /\ NodeSorted(N[1], 0, KeyMod)
      /\ \A c, u, w : Entry(N[1], 0, KeyMod, c, u, w) <=> c = 2 /\ u = 0 /\ w = KeyMod
  BY <1>2, <1>3, EmptyNode
<1>9. F[2] \in Leaf /\ LeafSorted(F[2], 0, KeyMod) /\ \A q, w : ~ Has(F[2], q, w)
  BY <1>2, <1>4, EmptyLeaf
<1>10. Blocks(N, F) = {1, 2}  BY <1>3, <1>4 DEF Blocks
<1>11. Placed(N, F, M)
  <2>1. {1} \cap {2} = {}  OBVIOUS
  <2>2. \A o \in {1, 2} : o \in 1 .. 3 - 1  OBVIOUS
  <2> QED BY <1>3, <1>4, <1>5, <1>10, <2>1, <2>2 DEF Placed
<1>12. Spans(N, F, g)  BY <1>2, <1>7, <1>10 DEF Spans
<1>13. NoOverlap(N, F, g)  BY <1>7, <1>10 DEF NoOverlap
<1>14. Nodes(N, g)  BY <1>3, <1>7, <1>8 DEF Nodes
<1>15. \A c, u, w : Leads(N, g, 1, c, u, w) <=> c = 2 /\ u = 0 /\ w = KeyMod
  BY <1>7, <1>8 DEF Leads
<1>16. Hang(N, F, g)
  <2>1. ParentOf(N, F, 2) = 1  BY <1>3, <1>4 DEF ParentOf
  <2> QED BY <1>3, <1>7, <1>10, <1>15, <2>1 DEF Hang
<1>17. Leaves(F, g)  BY <1>4, <1>7, <1>9 DEF Leaves
<1>18. Keeps(F, st, g)  BY <1>4, <1>6, <1>9 DEF Keeps
<1>19. Rooted(N, F, M, g) /\ Chained(F, M, g)
  <2>1. M.leaf_offset = 2  BY <1>1 DEF EmptyMeta
  <2>2. F[2].next = 0 /\ F[2].prev = 0  BY <1>4
  <2>3. Chained(F, M, g)  BY <1>4, <1>7, <2>1, <2>2 DEF Chained
  <2> QED BY <1>3, <1>5, <1>7, <1>10, <2>3 DEF Rooted
<1>20. Linked(N, M, g, {})  BY <1>3, <1>5 DEF Linked
<1>21. Settled(N, F, g)  BY <1>7, <1>10 DEF Settled
<1>22. Tree(N, F, M, st, g, {})
  BY <1>11, <1>12, <1>13, <1>14, <1>16, <1>17, <1>18, <1>19, <1>20 DEF Tree
<1> QED BY <1>1, <1>21, <1>22 DEF Rests

-----------------------------------------------------------------------------
(* The invariant.                                                          *)

\* As long as no leaf gets less than half full, nothing but an insertion has
\* to work its way up; the tree is in order while it does, and after.
InOrder ==
    /\ meta \in Meta /\ ByOffset(leafs)
    /\ pc \in {"idle", "insert_key_to_index"}
    /\ pc = "idle" => Rests(nodes, leafs, meta, stored)
    /\ pc # "idle" => Climbs(nodes, leafs, meta, stored, arg)

\* A removal that leaves its leaf too empty.  borrow_key and merging are
\* then what breaks the order (findings of db_lend and db_collapse).
Underflow == \E k \in Keys : BorrowLeft(k) \/ BorrowRight(k) \/ RemoveMerge(k)

\* The constructor makes a tree in order.
LEMMA EmptyInOrder ==
    ASSUME meta = EmptyMeta, nodes = EmptyNodes, leafs = EmptyLeafs,
           stored = << >>, pc = "idle"
    PROVE  InOrder
<1>1. EmptyMeta \in Meta  BY DEF EmptyMeta, Meta
<1>2. ByOffset(EmptyLeafs)  BY DEF ByOffset, EmptyLeafs
<1> QED BY <1>1, <1>2, EmptyRests DEF InOrder

\* What the steps make of the meta block.
LEMMA MetaIs ==
    ASSUME NEW m \in Meta
    PROVE  /\ [m EXCEPT !.slot = @ + 1, !.leaf_node_num = @ + 1] \in Meta
           /\ [m EXCEPT !.slot = @ + 1, !.internal_node_num = @ + 1] \in Meta
           /\ [m EXCEPT !.root_offset = m.slot, !.height = @ + 1, !.slot = @ + 1,
                        !.internal_node_num = @ + 1] \in Meta
<1>1. /\ m.slot \in Int /\ m.height \in Int
      /\ m.internal_node_num \in Int /\ m.leaf_node_num \in Int
  BY DEF Meta
<1>2. /\ m.slot + 1 \in Int /\ m.height + 1 \in Int
      /\ m.internal_node_num + 1 \in Int /\ m.leaf_node_num + 1 \in Int
  BY <1>1
<1>3. [m EXCEPT !.slot = @ + 1, !.leaf_node_num = @ + 1] \in Meta  BY <1>2 DEF Meta
<1>4. [m EXCEPT !.slot = @ + 1, !.internal_node_num = @ + 1] \in Meta  BY <1>2 DEF Meta
<1>5. [m EXCEPT !.root_offset = m.slot, !.height = @ + 1, !.slot = @ + 1,
                !.internal_node_num = @ + 1] \in Meta
  BY <1>1, <1>2 DEF Meta
<1> QED BY <1>3, <1>4, <1>5

\* Every call leaves the tree in order, but for a removal that underflows.
LEMMA CallInOrder ==
    ASSUME KeysNear, InOrder, Call, ~ Underflow
    PROVE  InOrder'
<1>1. ASSUME NEW k \in Keys, NEW v \in Values, InsertRecord(k, v) PROVE InOrder'
  <2>1. pc = "idle" /\ pc' = "idle" /\ meta' = meta /\ nodes' = nodes
    BY <1>1 DEF InsertRecord, Calls
  <2>2. Rests(nodes, leafs, meta, stored)  BY <2>1 DEF InOrder
  <2>3. Rests(nodes, leafs', meta, stored')  BY <1>1, <2>2, InsertRecordRests
  <2>4. ByOffset(leafs')
    <3>1. PICK F2 : F2 = leafs'  OBVIOUS
    <3>2. PICK o, y : F2 = [leafs EXCEPT ![o] = y]  BY <1>1, <3>1 DEF InsertRecord
    <3> QED BY <3>1, <3>2 DEF ByOffset
  <2>5. meta \in Meta  BY DEF InOrder
  <2> QED BY <2>1, <2>3, <2>4, <2>5 DEF InOrder
<1>2. ASSUME NEW k \in Keys, NEW v \in Values, InsertSplit(k, v) PROVE InOrder'
  <2>1. pc = "idle" /\ pc' = "insert_key_to_index" /\ nodes' = nodes
    BY <1>2 DEF InsertSplit, Calls
  <2>2. Rests(nodes, leafs, meta, stored) /\ meta \in Meta  BY <2>1 DEF InOrder
  <2>3. Climbs(nodes, leafs', meta', stored', arg')
    BY <1>2, <2>2, InsertSplitClimbs
  <2>4. ByOffset(leafs')
    <3>1. PICK F2 : F2 = leafs'  OBVIOUS
    <3>2. PICK o, y, z : F2 = node_create(leafs, o, meta.slot, y, z)
      BY <1>2, <3>1 DEF InsertSplit
    <3>3. PICK B, o2, x : F2 = Extend(B, o2, x)  BY <3>2 DEF node_create
    <3> QED BY <3>1, <3>3 DEF ByOffset, Extend
  <2>5. meta' \in Meta  BY <1>2, <2>2, MetaIs DEF InsertSplit
  <2> QED BY <2>1, <2>3, <2>4, <2>5 DEF InOrder
<1>3. ASSUME NEW k \in Keys, NEW v \in Values, Update(k, v) PROVE InOrder'
  <2>1. pc = "idle" /\ pc' = "idle" /\ meta' = meta /\ nodes' = nodes
    BY <1>3 DEF Update, Idle
  <2>2. Rests(nodes, leafs, meta, stored)  BY <2>1 DEF InOrder
  <2>3. Rests(nodes, leafs', meta, stored')  BY <1>3, <2>2, UpdateRests
  <2>4. ByOffset(leafs')
    <3>1. PICK F2 : F2 = leafs'  OBVIOUS
    <3>2. PICK o, i : F2 = [leafs EXCEPT ![o].recs[i].value = v]  BY <1>3, <3>1 DEF Update
    <3> QED BY <3>1, <3>2 DEF ByOffset
  <2>5. meta \in Meta  BY DEF InOrder
  <2> QED BY <2>1, <2>3, <2>4, <2>5 DEF InOrder
<1>4. ASSUME NEW k \in Keys, RemoveRecord(k) PROVE InOrder'
  <2>1. pc = "idle" /\ pc' = "idle" /\ meta' = meta /\ nodes' = nodes
    BY <1>4 DEF RemoveRecord, Removes, Idle
  <2>2. Rests(nodes, leafs, meta, stored)  BY <2>1 DEF InOrder
  <2>3. Rests(nodes, leafs', meta, stored')  BY <1>4, <2>2, RemoveRecordRests
  <2>4. ByOffset(leafs')
    <3>1. PICK F2 : F2 = leafs'  OBVIOUS
    <3>2. PICK o, y : F2 = [leafs EXCEPT ![o] = y]  BY <1>4, <3>1 DEF RemoveRecord
    <3> QED BY <3>1, <3>2 DEF ByOffset
  <2>5. meta \in Meta  BY DEF InOrder
  <2> QED BY <2>1, <2>3, <2>4, <2>5 DEF InOrder
<1>5. ASSUME Open PROVE InOrder'
  <2>1. /\ pc' = "idle" /\ meta' = EmptyMeta /\ nodes' = EmptyNodes
        /\ leafs' = EmptyLeafs /\ stored' = << >>
    BY <1>5 DEF Open, Idle
  <2>2. EmptyMeta \in Meta  BY DEF EmptyMeta, Meta
  <2>3. ByOffset(EmptyLeafs)  BY DEF ByOffset, EmptyLeafs
  <2> QED BY <2>1, <2>2, <2>3, EmptyRests DEF InOrder
<1> QED BY <1>1, <1>2, <1>3, <1>4, <1>5 DEF Call, Underflow

\* So does every step of an insertion up the tree; there are no others.
LEMMA ClimbInOrder ==
    ASSUME KeysNear, InOrder, Climb
    PROVE  InOrder'
<1>1. CASE IndexRoot
  <2>1. pc # "idle" /\ pc' = "idle" /\ stored' = stored
    BY <1>1 DEF IndexRoot
  <2>2. Climbs(nodes, leafs, meta, stored, arg) /\ meta \in Meta /\ ByOffset(leafs)
    BY <2>1 DEF InOrder
  <2>3. Rests(nodes', leafs', meta', stored) /\ leafs' = leafs
    BY <1>1, <2>2, IndexRootRests
  <2>4. meta' \in Meta  BY <1>1, <2>2, MetaIs DEF IndexRoot
  <2> QED BY <2>1, <2>2, <2>3, <2>4 DEF InOrder
<1>2. CASE IndexKey
  <2>1. pc # "idle" /\ pc' = "idle" /\ stored' = stored /\ meta' = meta /\ leafs' = leafs
    BY <1>2 DEF IndexKey
  <2>2. Climbs(nodes, leafs, meta, stored, arg) /\ meta \in Meta /\ ByOffset(leafs)
    BY <2>1 DEF InOrder
  <2>3. Rests(nodes', leafs, meta, stored)  BY <1>2, <2>2, IndexKeyRests
  <2> QED BY <2>1, <2>2, <2>3 DEF InOrder
<1>3. CASE IndexSplit
  <2>1. pc # "idle" /\ pc = "insert_key_to_index" /\ pc' = pc /\ stored' = stored
    BY <1>3 DEF IndexSplit
  <2>2. Climbs(nodes, leafs, meta, stored, arg) /\ meta \in Meta
    BY <2>1 DEF InOrder
  <2>3. Climbs(nodes', leafs', meta', stored, arg')
    BY <1>3, <2>2, IndexSplitClimbs
  <2>4. ByOffset(leafs')
    <3>1. PICK F2 : F2 = leafs'  OBVIOUS
    <3>2. PICK B, kids, p : F2 = Reparent(B, kids, p)  BY <1>3, <3>1 DEF IndexSplit
    <3> QED BY <3>1, <3>2 DEF ByOffset, Reparent
  <2>5. meta' \in Meta  BY <1>3, <2>2, MetaIs DEF IndexSplit
  <2> QED BY <2>1, <2>3, <2>4, <2>5 DEF InOrder
<1>4. pc # "change_parent_child" /\ pc # "remove_from_index"  BY DEF InOrder
<1>5. ~ ChangeKey /\ ~ ShrinkRoot /\ ~ ShrinkNode  BY <1>4 DEF ChangeKey, ShrinkRoot, ShrinkNode
<1>6. ~ NodeBorrowsLeft /\ ~ NodeBorrowsRight /\ ~ NodeMerges
  BY <1>4 DEF NodeBorrowsLeft, NodeBorrowsRight, NodeMerges, Underflows
<1> QED BY <1>1, <1>2, <1>3, <1>5, <1>6 DEF Climb

\* The tree stays in order.
LEMMA StaysInOrder ==
    ASSUME KeysNear
    PROVE  Spec /\ [][~ Underflow]_vars => []InOrder
<1>1. Init => InOrder  BY EmptyInOrder DEF Init
<1>2. InOrder /\ [Next]_vars /\ [~ Underflow]_vars => InOrder'
  <2> SUFFICES ASSUME InOrder, [Next]_vars, [~ Underflow]_vars PROVE InOrder'
    OBVIOUS
  <2>1. CASE UNCHANGED vars  BY <2>1 DEF vars, InOrder
  <2>2. CASE Next /\ ~ Underflow  BY <2>2, CallInOrder, ClimbInOrder DEF Next
  <2> QED BY <2>1, <2>2
<1> QED BY <1>1, <1>2, PTL DEF Spec

\* search finds every record that was inserted with its value and no other,
\* however leaves and nodes were split on the way ("finding the record",
\* search_db.cpp:61): for every set of keys among which keycmp is an order,
\* every order of a tree and every caller, as long as no removal leaves a leaf
\* less than half full.
THEOREM InsertedIsFound ==
    ASSUME KeysNear
    PROVE  Spec /\ [][~ Underflow]_vars => []FindsStored
<1>1. InOrder => FindsStored
  <2> SUFFICES ASSUME InOrder, pc = "idle", NEW k \in Keys
               PROVE  Lookup(k) = IF k \in DOMAIN stored THEN {stored[k]} ELSE {}
    BY DEF FindsStored
  <2>1. PICK g : SettledTree(g)  BY DEF InOrder, Rests, SettledTree
  <2> QED BY <2>1, LookupIs
<1> QED BY <1>1, StaysInOrder, PTL

-----------------------------------------------------------------------------
(* Sequences of blocks whose intervals follow each other.                  *)

\* The intervals of the blocks of s, one after the other, fill that from a to b.
Tiles(s, g, a, b) ==
    /\ Len(s) # 0
    /\ g.lo[s[1]] = a /\ g.hi[s[Len(s)]] = b
    /\ \A i \in 1 .. Len(s) - 1 : g.hi[s[i]] = g.lo[s[i + 1]]

\* Two such sequences joined.
LEMMA TilesJoin ==
    ASSUME NEW U, NEW s \in Seq(U), NEW t \in Seq(U), NEW g, NEW a, NEW b, NEW c,
           Tiles(s, g, a, b), Tiles(t, g, b, c)
    PROVE  s \o t \in Seq(U) /\ Tiles(s \o t, g, a, c)
<1>1. PICK r : r = s \o t  OBVIOUS
<1>2. PICK m \in Nat : m = Len(s) /\ m # 0  BY DEF Tiles
<1>3. PICK n \in Nat : n = Len(t) /\ n # 0  BY DEF Tiles
<1>4. /\ r \in Seq(U) /\ Len(r) = m + n
      /\ \A k \in 1 .. m : r[k] = s[k]
      /\ \A k \in 1 .. n : r[m + k] = t[k]
  BY <1>1, <1>2, <1>3, JoinedSeq
<1>5. r[1] = s[1] /\ r[m + n] = t[n]
  <2>1. 1 \in 1 .. m /\ n \in 1 .. n  BY <1>2, <1>3
  <2> QED BY <1>4, <2>1
<1>6. ASSUME NEW i \in 1 .. m + n - 1 PROVE g.hi[r[i]] = g.lo[r[i + 1]]
  <2>1. CASE i < m
    <3>1. i \in 1 .. m - 1 /\ i \in 1 .. m /\ i + 1 \in 1 .. m  BY <1>2, <2>1
    <3>2. g.hi[s[i]] = g.lo[s[i + 1]]  BY <1>2, <3>1 DEF Tiles
    <3> QED BY <1>4, <3>1, <3>2
  <2>2. CASE i = m
    <3>1. m \in 1 .. m /\ 1 \in 1 .. n  BY <1>2, <1>3
    <3>2. r[m] = s[m] /\ r[m + 1] = t[1]  BY <1>4, <3>1
    <3>3. g.hi[s[m]] = b /\ g.lo[t[1]] = b  BY <1>2 DEF Tiles
    <3> QED BY <2>2, <3>2, <3>3
  <2>3. CASE m < i
    <3>1. PICK j \in 1 .. n - 1 : i = m + j
      <4>1. i - m \in 1 .. n - 1 /\ i = m + (i - m)  BY <1>2, <1>3, <2>3
      <4> QED BY <4>1
    <3>2. j \in 1 .. n /\ j + 1 \in 1 .. n /\ i + 1 = m + (j + 1)  BY <1>2, <1>3, <3>1
    <3>3. g.hi[t[j]] = g.lo[t[j + 1]]  BY <1>3, <3>1 DEF Tiles
    <3>4. r[i] = t[j] /\ r[i + 1] = t[j + 1]  BY <1>4, <3>1, <3>2
    <3> QED BY <3>3, <3>4
  <2> QED BY <1>2, <1>3, <2>1, <2>2, <2>3
<1>7. g.lo[s[1]] = a /\ g.hi[t[n]] = c  BY <1>3 DEF Tiles
<1>8. m + n # 0  BY <1>2, <1>3
<1>9. Tiles(r, g, a, c)  BY <1>4, <1>5, <1>6, <1>7, <1>8 DEF Tiles
<1> QED BY <1>1, <1>4, <1>9

\* Every key of the interval is in that of a block.
LEMMA TilesCover ==
    ASSUME NEW U, NEW s \in Seq(U), NEW g, NEW a \in Int, NEW b \in Int, Tiles(s, g, a, b),
           \A c \in U : g.lo[c] \in Int /\ g.hi[c] \in Int,
           NEW p \in Int, a =< p, p < b
    PROVE  \E i \in 1 .. Len(s) : g.lo[s[i]] =< p /\ p < g.hi[s[i]]
<1>1. PICK n \in Nat : n = Len(s) /\ n # 0  BY DEF Tiles
<1> SUFFICES ASSUME \A i \in 1 .. n : g.lo[s[i]] =< p => ~ p < g.hi[s[i]]
             PROVE  FALSE
  BY <1>1
<1> DEFINE D == {k \in Nat : k < n => g.lo[s[k + 1]] =< p}
<1>2. \A i \in 1 .. n : g.lo[s[i]] \in Int /\ g.hi[s[i]] \in Int  BY <1>1
<1>3. 0 \in D  BY DEF Tiles
<1>4. ASSUME NEW k \in 0 .. n - 1, k \in D PROVE k + 1 \in D
  <2> SUFFICES ASSUME k + 1 < n PROVE g.lo[s[k + 1 + 1]] =< p
    OBVIOUS
  <2>1. k < n /\ k + 1 \in 1 .. n /\ k + 1 + 1 \in 1 .. n /\ k + 1 \in 1 .. n - 1
    BY <1>1
  <2>2. g.lo[s[k + 1]] =< p  BY <1>4, <2>1
  <2>3. g.hi[s[k + 1]] =< p  BY <1>2, <2>1, <2>2
  <2>4. g.hi[s[k + 1]] = g.lo[s[k + 1 + 1]]  BY <1>1, <2>1 DEF Tiles
  <2> QED BY <2>3, <2>4
<1>5. 0 .. n \subseteq D
  <2> HIDE DEF D
  <2> QED BY <1>3, <1>4, AllUpTo
<1>6. g.lo[s[n]] =< p
  <2>1. n - 1 \in 0 .. n /\ n - 1 < n /\ n - 1 + 1 = n  BY <1>1
  <2>2. n - 1 \in D  BY <1>5, <2>1
  <2> QED BY <2>1, <2>2
<1>7. n \in 1 .. n /\ g.hi[s[n]] = b  BY <1>1 DEF Tiles
<1> QED BY <1>2, <1>6, <1>7

\* Intervals between 0 and KeyMod that do not overlap.
Disjoint(U, g) ==
    /\ \A c \in U : /\ g.lo[c] \in Int /\ g.hi[c] \in Int
                    /\ 0 =< g.lo[c] /\ g.lo[c] < g.hi[c] /\ g.hi[c] =< KeyMod
    /\ \A c, d \in U : c # d => g.hi[c] =< g.lo[d] \/ g.hi[d] =< g.lo[c]

\* A sequence that divides all keys among such blocks has all of these.
LEMMA TilesAll ==
    ASSUME NEW U, NEW g, Disjoint(U, g), NEW s \in Seq(U), Tiles(s, g, 0, KeyMod)
    PROVE  Range(s) = U
<1>1. PICK n \in Nat : n = Len(s) /\ DOMAIN s = 1 .. n /\ \A i \in 1 .. n : s[i] \in U
  OBVIOUS
<1>2. \A c \in U : g.lo[c] \in Int /\ g.hi[c] \in Int /\ g.lo[c] < g.hi[c]
                     /\ 0 =< g.lo[c] /\ g.hi[c] =< KeyMod
  BY DEF Disjoint
<1>3. ASSUME NEW c \in U PROVE \E i \in 1 .. n : s[i] = c
  <2>1. g.lo[c] \in Int /\ 0 =< g.lo[c] /\ g.lo[c] < KeyMod /\ KeyMod \in Int
    <3>1. KeyMod \in Nat  BY KeyBounds
    <3> QED BY <1>2, <3>1
  <2>2. PICK p \in Int : p = g.lo[c]  BY <2>1
  <2>3. PICK i \in 1 .. n : g.lo[s[i]] =< p /\ p < g.hi[s[i]]
    <3>1. \A d \in U : g.lo[d] \in Int /\ g.hi[d] \in Int  BY <1>2
    <3>2. 0 \in Int /\ KeyMod \in Int /\ 0 =< p /\ p < KeyMod  BY <2>1, <2>2
    <3> QED BY <1>1, <3>1, <3>2, TilesCover
  <2>4. PICK d \in U : d = s[i]  BY <1>1
  <2>5. d = c \/ g.hi[d] =< g.lo[c] \/ g.hi[c] =< g.lo[d]  BY DEF Disjoint
  <2>6. d = c  BY <1>2, <2>2, <2>3, <2>4, <2>5
  <2> QED BY <2>4, <2>6
<1>4. Range(s) = {s[i] : i \in 1 .. n}  BY <1>1 DEF Range
<1> QED BY <1>1, <1>3, <1>4

\* There is one such sequence.
LEMMA TilesSame ==
    ASSUME NEW U, NEW g, Disjoint(U, g),
           NEW s \in Seq(U), Tiles(s, g, 0, KeyMod), NEW t \in Seq(U), Tiles(t, g, 0, KeyMod)
    PROVE  s = t
<1>1. PICK n \in Nat : n = Len(s) /\ n # 0 /\ \A i \in 1 .. n : s[i] \in U  BY DEF Tiles
<1>2. PICK m \in Nat : m = Len(t) /\ m # 0 /\ \A i \in 1 .. m : t[i] \in U  BY DEF Tiles
<1>3. ASSUME NEW c \in U, NEW d \in U, g.lo[c] = g.lo[d] PROVE c = d
  <2>1. /\ g.lo[c] \in Int /\ g.hi[c] \in Int /\ g.lo[c] < g.hi[c]
        /\ g.lo[d] \in Int /\ g.hi[d] \in Int /\ g.lo[d] < g.hi[d]
        /\ c = d \/ g.hi[c] =< g.lo[d] \/ g.hi[d] =< g.lo[c]
    BY DEF Disjoint
  <2> QED BY <1>3, <2>1
<1>4. \A c \in U : g.hi[c] \in Int /\ g.lo[c] # KeyMod
  BY KeyBounds DEF Disjoint
<1> DEFINE D == {k \in Nat : k < n => k < m /\ s[k + 1] = t[k + 1]}
<1>5. 0 \in D
  <2>1. 1 \in 1 .. n /\ 1 \in 1 .. m /\ 0 + 1 = 1  BY <1>1, <1>2
  <2>2. g.lo[s[1]] = 0 /\ g.lo[t[1]] = 0  BY DEF Tiles
  <2>3. s[1] = t[1]  BY <1>1, <1>2, <1>3, <2>1, <2>2
  <2> QED BY <1>2, <2>1, <2>3
<1>6. ASSUME NEW k \in 0 .. n - 1, k \in D PROVE k + 1 \in D
  <2> SUFFICES ASSUME k + 1 < n PROVE k + 1 < m /\ s[k + 1 + 1] = t[k + 1 + 1]
    OBVIOUS
  <2>1. k < n /\ k + 1 \in 1 .. n - 1 /\ k + 1 + 1 \in 1 .. n  BY <1>1
  <2>2. k < m /\ s[k + 1] = t[k + 1]  BY <1>6, <2>1
  <2>3. g.hi[s[k + 1]] = g.lo[s[k + 1 + 1]]  BY <1>1, <2>1 DEF Tiles
  <2>4. k + 1 # m
    <3> SUFFICES ASSUME k + 1 = m PROVE FALSE
      OBVIOUS
    <3>1. g.hi[t[k + 1]] = KeyMod  BY <1>2 DEF Tiles
    <3> QED BY <1>1, <1>4, <2>1, <2>2, <2>3, <3>1
  <2>5. k + 1 < m /\ k + 1 \in 1 .. m - 1 /\ k + 1 + 1 \in 1 .. m  BY <1>2, <2>2, <2>4
  <2>6. g.hi[t[k + 1]] = g.lo[t[k + 1 + 1]]  BY <1>2, <2>5 DEF Tiles
  <2>7. s[k + 1 + 1] = t[k + 1 + 1]  BY <1>1, <1>2, <1>3, <2>1, <2>2, <2>3, <2>5, <2>6
  <2> QED BY <2>5, <2>7
<1>7. 0 .. n \subseteq D
  <2> HIDE DEF D
  <2> QED BY <1>5, <1>6, AllUpTo
<1>8. ASSUME NEW i \in 1 .. n PROVE i =< m /\ s[i] = t[i]
  <2>1. PICK k \in 0 .. n : i = k + 1 /\ k < n
    <3>1. i - 1 \in 0 .. n /\ i = i - 1 + 1 /\ i - 1 < n  OBVIOUS
    <3> QED BY <3>1
  <2>2. k \in D
    <3> HIDE DEF D
    <3> QED BY <1>7, <2>1
  <2> QED BY <1>2, <2>1, <2>2
<1>9. n = m
  <2>1. n \in 1 .. n  BY <1>1
  <2>2. n =< m /\ s[n] = t[n]  BY <1>8, <2>1
  <2>3. g.hi[t[n]] = KeyMod  BY <1>1, <2>2 DEF Tiles
  <2> SUFFICES ASSUME n # m PROVE FALSE
    OBVIOUS
  <2>4. n \in 1 .. m - 1 /\ n + 1 \in 1 .. m  BY <1>1, <1>2, <2>2
  <2>5. g.hi[t[n]] = g.lo[t[n + 1]]  BY <1>2, <2>4 DEF Tiles
  <2> QED BY <1>2, <1>4, <2>3, <2>4, <2>5
<1> QED BY <1>1, <1>2, <1>8, <1>9, SameSeq

-----------------------------------------------------------------------------
(* FlattenSeq.                                                             *)

\* What the prefixes of ss flattened are.
Flattens(f, ss) ==
    f = [i \in 1 .. Len(ss) |-> IF i = 1 THEN ss[i] ELSE f[i - 1] \o ss[i]]

\* Such prefixes of n sequences and the whole.
Flattened(f, ss, n) ==
    /\ FlattenSeq(ss) = f[n]
    /\ f[1] = ss[1] /\ \A i \in 2 .. n : f[i] = f[i - 1] \o ss[i]

\* There are.
LEMMA FlattenIs ==
    ASSUME NEW U, NEW n \in Nat, n # 0, NEW ss, Len(ss) = n,
           \A i \in 1 .. n : ss[i] \in Seq(U)
    PROVE  \E f : Flattened(f, ss, n)
<1> DEFINE S == 1 .. n
           T == Seq(U)
           m == [i \in S |-> i]
           stop == {1}
           pred == [i \in S |-> i - 1]
           base == [i \in S |-> ss[i]]
           step == [z \in S \X T |-> z[2] \o ss[z[1]]]
<1>1. m \in [S -> Nat]  OBVIOUS
<1>2. \A i \in S \ stop : pred[i] \in S /\ m[pred[i]] < m[i]
  <2> SUFFICES ASSUME NEW i \in S \ stop PROVE pred[i] \in S /\ m[pred[i]] < m[i]
    OBVIOUS
  <2>1. i \in 1 .. n /\ i # 1 /\ i - 1 \in 1 .. n /\ i - 1 < i  OBVIOUS
  <2>2. pred[i] = i - 1 /\ m[i] = i /\ m[i - 1] = i - 1  BY <2>1
  <2> QED BY <2>1, <2>2
<1>3. \A i \in S \cap stop : base[i] \in T  OBVIOUS
<1>4. \A i \in S \ stop, t \in T :
         step[<<i, t>>] = t \o ss[i] /\ step[<<i, t>>] \in T
  <2> SUFFICES ASSUME NEW i \in S \ stop, NEW t \in T
               PROVE  step[<<i, t>>] = t \o ss[i] /\ step[<<i, t>>] \in T
    OBVIOUS
  <2>1. <<i, t>> \in S \X T  OBVIOUS
  <2>2. step[<<i, t>>] = t \o ss[i]  BY <2>1
  <2>3. t \o ss[i] \in Seq(U)  BY JoinedSeq
  <2> QED BY <2>2, <2>3
<1>5. Recursive(S, T, m, stop, pred, base, step)
  <2> HIDE DEF m, pred, step, base, stop, T, S
  <2> QED BY <1>1, <1>2, <1>3, <1>4 DEF Recursive
<1>6. PICK g \in [S -> T] :
        g = [i \in S |-> IF i \in stop THEN base[i] ELSE step[<<i, g[pred[i]]>>]]
  <2> HIDE DEF m, pred, step, base, stop, T, S
  <2> QED BY <1>5, Recursion
<1>7. ASSUME NEW i \in S PROVE g[i] = IF i = 1 THEN ss[i] ELSE g[i - 1] \o ss[i]
  <2>1. CASE i \in stop
    <3>1. g[i] = base[i]
      <4> HIDE DEF m, pred, step, base, stop, T, S
      <4> QED BY <1>6, <2>1
    <3> QED BY <2>1, <3>1
  <2>2. CASE i \notin stop
    <3>1. g[i] = step[<<i, g[pred[i]]>>] /\ g[pred[i]] \in T
      <4> HIDE DEF m, pred, step, base, stop, T, S
      <4> QED BY <1>2, <1>6, <2>2
    <3>2. g[i] = g[pred[i]] \o ss[i]
      <4> HIDE DEF m, pred, step, base, stop, T, S
      <4> QED BY <1>4, <2>2, <3>1
    <3>3. pred[i] = i - 1 /\ i # 1  BY <2>2
    <3> HIDE DEF m, pred, step, base, stop, T, S
    <3> QED BY <3>2, <3>3
  <2> QED BY <2>1, <2>2
<1>8. Flattens(g, ss)
  <2>1. g = [i \in 1 .. n |-> g[i]]  BY <1>6
  <2>2. g = [i \in 1 .. n |-> IF i = 1 THEN ss[i] ELSE g[i - 1] \o ss[i]]
    <3> HIDE DEF m, pred, step, base, stop, T
    <3> QED BY <1>7, <2>1
  <2> QED BY <2>2 DEF Flattens
<1>9. PICK f : f = CHOOSE d : Flattens(d, ss)  OBVIOUS
<1>10. Flattens(f, ss)  BY <1>8, <1>9
<1>11. FlattenSeq(ss) = f[n]  BY <1>9 DEF FlattenSeq, Flattens
<1>12. \A i \in 1 .. n : f[i] = IF i = 1 THEN ss[i] ELSE f[i - 1] \o ss[i]
  BY <1>10 DEF Flattens
<1>13. f[1] = ss[1]
  <2>1. 1 \in 1 .. n  OBVIOUS
  <2> QED BY <1>12, <2>1
<1>14. ASSUME NEW i \in 2 .. n PROVE f[i] = f[i - 1] \o ss[i]
  <2>1. i \in 1 .. n /\ i # 1  OBVIOUS
  <2> QED BY <1>12, <2>1
<1> QED BY <1>11, <1>13, <1>14 DEF Flattened

\* Tilings flattened.
LEMMA FlattenTiles ==
    ASSUME NEW U, NEW n \in Nat, n # 0, NEW ss, Len(ss) = n, NEW g, NEW e,
           \A i \in 1 .. n : ss[i] \in Seq(U) /\ Tiles(ss[i], g, e[i - 1], e[i])
    PROVE  FlattenSeq(ss) \in Seq(U) /\ Tiles(FlattenSeq(ss), g, e[0], e[n])
<1>1. PICK f : /\ FlattenSeq(ss) = f[n]
               /\ f[1] = ss[1] /\ \A i \in 2 .. n : f[i] = f[i - 1] \o ss[i]
  <2>1. \A i \in 1 .. n : ss[i] \in Seq(U)  OBVIOUS
  <2>2. PICK f : Flattened(f, ss, n)  BY <2>1, FlattenIs
  <2> QED BY <2>2 DEF Flattened
<1> DEFINE D == {k \in Nat : k < n => f[k + 1] \in Seq(U) /\ Tiles(f[k + 1], g, e[0], e[k + 1])}
<1>2. 0 \in D
  <2>1. 1 \in 1 .. n /\ 1 - 1 = 0 /\ 0 + 1 = 1  OBVIOUS
  <2>2. ss[1] \in Seq(U) /\ Tiles(ss[1], g, e[0], e[1])  BY <2>1
  <2> QED BY <1>1, <2>1, <2>2
<1>3. ASSUME NEW k \in 0 .. n - 1, k \in D PROVE k + 1 \in D
  <2> SUFFICES ASSUME k + 1 < n
               PROVE  f[k + 1 + 1] \in Seq(U) /\ Tiles(f[k + 1 + 1], g, e[0], e[k + 1 + 1])
    OBVIOUS
  <2>1. PICK i : i = k + 1 + 1  OBVIOUS
  <2>2. k < n /\ i \in 2 .. n /\ i \in 1 .. n /\ i - 1 = k + 1  BY <2>1
  <2>3. f[i - 1] \in Seq(U) /\ Tiles(f[i - 1], g, e[0], e[i - 1])  BY <1>3, <2>2
  <2>4. ss[i] \in Seq(U) /\ Tiles(ss[i], g, e[i - 1], e[i])  BY <2>2
  <2>5. f[i] = f[i - 1] \o ss[i]  BY <1>1, <2>2
  <2>6. f[i] \in Seq(U) /\ Tiles(f[i], g, e[0], e[i])  BY <2>3, <2>4, <2>5, TilesJoin
  <2> QED BY <2>1, <2>6
<1>4. 0 .. n \subseteq D
  <2> HIDE DEF D
  <2> QED BY <1>2, <1>3, AllUpTo
<1>5. n - 1 \in D /\ n - 1 < n /\ n - 1 + 1 = n
  <2>1. n - 1 \in 0 .. n  OBVIOUS
  <2> HIDE DEF D
  <2> QED BY <1>4, <2>1
<1> QED BY <1>1, <1>5

-----------------------------------------------------------------------------
(* The levels of a tree at rest.                                           *)

\* Its blocks h levels above the leaves.
AtLevel(g, h) == {c \in Blocks(nodes, leafs) : g.lev[c] = h}

\* The children of a node divide its interval.
LEMMA KidsTile ==
    ASSUME NEW g, SettledTree(g), NEW o \in DOMAIN nodes
    PROVE  /\ nodes[o].kids \in Seq(AtLevel(g, g.lev[o] - 1))
           /\ Tiles(nodes[o].kids, g, g.lo[o], g.hi[o])
           /\ \A c : IsKid(nodes[o], c) => ParentOf(nodes, leafs, c) = o
<1>1. PICK x : x = nodes[o]  OBVIOUS
<1>2. x \in Node /\ NodeSorted(x, g.lo[o], g.hi[o]) /\ g.lev[o] # 0 /\ g.lev[o] \in Nat
  BY <1>1 DEF SettledTree, Tree, Nodes, Spans, Blocks
<1>3. PICK s : s = x.kids  OBVIOUS
<1>4. PICK n \in Nat : n = Len(s) /\ s \in Seq(Nat) /\ DOMAIN s = 1 .. n
  BY <1>2, <1>3, NodeIs
<1>5. PICK e : e = bounds(x, g.lo[o], g.hi[o])  OBVIOUS
<1>6. n # 0 /\ e[0] = g.lo[o] /\ e[n] = g.hi[o]
  BY <1>2, <1>3, <1>4, <1>5 DEF NodeSorted, AreBounds
<1>7. ASSUME NEW i \in 1 .. n
      PROVE  /\ s[i] \in Blocks(nodes, leafs) /\ g.lev[o] = g.lev[s[i]] + 1
             /\ ParentOf(nodes, leafs, s[i]) = o
             /\ g.lo[s[i]] = e[i - 1] /\ g.hi[s[i]] = e[i]
  <2>1. Entry(x, g.lo[o], g.hi[o], s[i], e[i - 1], e[i])
    BY <1>3, <1>4, <1>5 DEF Entry
  <2>2. Leads(nodes, g, o, s[i], e[i - 1], e[i])  BY <1>1, <2>1 DEF Leads
  <2>3. /\ s[i] \in Blocks(nodes, leafs) /\ g.lev[o] = g.lev[s[i]] + 1
        /\ ParentOf(nodes, leafs, s[i]) = o
        /\ g.lo[s[i]] = e[i - 1] /\ g.top[s[i]] = e[i]
    BY <2>2 DEF SettledTree, Tree, Hang
  <2>4. g.top[s[i]] = g.hi[s[i]]  BY <2>3 DEF SettledTree, Settled
  <2> QED BY <2>3, <2>4
<1>8. \A i \in 1 .. n : s[i] \in AtLevel(g, g.lev[o] - 1)
  <2> SUFFICES ASSUME NEW i \in 1 .. n PROVE s[i] \in AtLevel(g, g.lev[o] - 1)
    OBVIOUS
  <2>1. s[i] \in Blocks(nodes, leafs) /\ g.lev[o] = g.lev[s[i]] + 1  BY <1>7
  <2>2. g.lev[s[i]] \in Nat  BY <2>1 DEF SettledTree, Tree, Spans
  <2> QED BY <2>1, <2>2 DEF AtLevel
<1>9. s \in Seq(AtLevel(g, g.lev[o] - 1))
  <2>1. PICK U : U = AtLevel(g, g.lev[o] - 1)  OBVIOUS
  <2>2. s = [i \in 1 .. n |-> s[i]]  BY <1>4, SeqFunction
  <2>3. s \in [1 .. n -> U]  BY <1>8, <2>1, <2>2
  <2> QED BY <2>1, <2>3, FunctionSeq
<1>10. Tiles(s, g, g.lo[o], g.hi[o])
  <2>1. 1 \in 1 .. n /\ n \in 1 .. n /\ 1 - 1 = 0  BY <1>6
  <2>2. g.lo[s[1]] = g.lo[o] /\ g.hi[s[n]] = g.hi[o]  BY <1>6, <1>7, <2>1
  <2>3. ASSUME NEW i \in 1 .. n - 1 PROVE g.hi[s[i]] = g.lo[s[i + 1]]
    <3>1. i \in 1 .. n /\ i + 1 \in 1 .. n /\ i + 1 - 1 = i  OBVIOUS
    <3> QED BY <1>7, <3>1
  <2> QED BY <1>4, <1>6, <2>2, <2>3 DEF Tiles
<1>11. ASSUME NEW c, IsKid(nodes[o], c) PROVE ParentOf(nodes, leafs, c) = o
  <2>1. PICK i \in 1 .. n : s[i] = c  BY <1>1, <1>3, <1>4, <1>11 DEF IsKid
  <2> QED BY <1>7, <2>1
<1> QED BY <1>1, <1>3, <1>9, <1>10, <1>11

\* The blocks under those of t.
Below(t) == FlattenSeq([i \in DOMAIN t |-> nodes[t[i]].kids])

\* The level below one that divides all keys divides them too.
LEMMA BelowTiles ==
    ASSUME NEW g, SettledTree(g), NEW h \in Nat, NEW t, h # 0, NEW a, NEW b,
           t \in Seq(AtLevel(g, h)), Tiles(t, g, a, b)
    PROVE  Below(t) \in Seq(AtLevel(g, h - 1)) /\ Tiles(Below(t), g, a, b)
<1>1. PICK n \in Nat : n = Len(t) /\ n # 0 /\ DOMAIN t = 1 .. n
  BY DEF Tiles
<1>2. PICK ss : ss = [i \in 1 .. n |-> nodes[t[i]].kids]  OBVIOUS
<1>3. Len(ss) = n /\ \A i \in 1 .. n : ss[i] = nodes[t[i]].kids  BY <1>2
<1>4. PICK e : e = [i \in 0 .. n |-> IF i = 0 THEN a ELSE g.hi[t[i]]]  OBVIOUS
<1>5. e[0] = a /\ e[n] = b
  BY <1>1, <1>4 DEF Tiles
<1>6. ASSUME NEW i \in 1 .. n PROVE g.lo[t[i]] = e[i - 1] /\ g.hi[t[i]] = e[i]
  <2>1. g.hi[t[i]] = e[i]  BY <1>4
  <2>2. CASE i = 1  BY <1>4, <2>1, <2>2 DEF Tiles
  <2>3. CASE i # 1
    <3>1. PICK j \in 1 .. n - 1 : i = j + 1 /\ i - 1 = j
      <4>1. i - 1 \in 1 .. n - 1 /\ i = (i - 1) + 1  BY <2>3
      <4> QED BY <4>1
    <3>2. g.hi[t[j]] = g.lo[t[j + 1]]  BY <1>1 DEF Tiles
    <3>3. e[j] = g.hi[t[j]]  BY <1>4
    <3> QED BY <2>1, <3>1, <3>2, <3>3
  <2> QED BY <2>2, <2>3
<1>7. ASSUME NEW i \in 1 .. n
      PROVE  ss[i] \in Seq(AtLevel(g, h - 1)) /\ Tiles(ss[i], g, e[i - 1], e[i])
  <2>1. PICK o : o = t[i]  OBVIOUS
  <2>2. o \in Blocks(nodes, leafs) /\ g.lev[o] = h
    <3>1. t[i] \in AtLevel(g, h)  BY <1>1
    <3> QED BY <2>1, <3>1 DEF AtLevel
  <2>3. o \in DOMAIN nodes
    BY <2>2 DEF SettledTree, Tree, Leaves, Blocks
  <2>4. nodes[o].kids \in Seq(AtLevel(g, h - 1)) /\ Tiles(nodes[o].kids, g, g.lo[o], g.hi[o])
    BY <2>2, <2>3, KidsTile
  <2> QED BY <1>3, <1>6, <2>1, <2>4
<1>8. FlattenSeq(ss) \in Seq(AtLevel(g, h - 1)) /\ Tiles(FlattenSeq(ss), g, e[0], e[n])
  <2>1. PICK U : U = AtLevel(g, h - 1)  OBVIOUS
  <2>2. \A i \in 1 .. n : ss[i] \in Seq(U) /\ Tiles(ss[i], g, e[i - 1], e[i])
    BY <1>7, <2>1
  <2>3. FlattenSeq(ss) \in Seq(U) /\ Tiles(FlattenSeq(ss), g, e[0], e[n])
    BY <1>1, <1>3, <2>2, FlattenTiles
  <2> QED BY <2>1, <2>3
<1>9. Below(t) = FlattenSeq(ss)  BY <1>1, <1>2 DEF Below
<1> QED BY <1>5, <1>8, <1>9

\* What the functions from the root's level down compute.
Levels(f) ==
    f = [h \in 0 .. meta.height |->
            IF h = meta.height THEN <<meta.root_offset>> ELSE Below(f[h + 1])]

\* Every such function gives levels that divide all keys.
LEMMA LevelsTile ==
    ASSUME NEW g, SettledTree(g), NEW f, Levels(f), meta.height \in Int, NEW h \in 0 .. meta.height
    PROVE  f[h] \in Seq(AtLevel(g, h)) /\ Tiles(f[h], g, 0, KeyMod)
<1>1. PICK r : r = meta.root_offset  OBVIOUS
<1>2. /\ r \in DOMAIN nodes /\ g.lev[r] = meta.height /\ g.lo[r] = 0 /\ g.top[r] = KeyMod
  BY <1>1 DEF SettledTree, Tree, Rooted
<1>3. r \in Blocks(nodes, leafs)  BY <1>2 DEF Blocks
<1>4. g.hi[r] = KeyMod /\ g.lev[r] \in Nat
  BY <1>2, <1>3 DEF SettledTree, Settled, Tree, Spans
<1>5. PICK H \in Nat : H = meta.height  BY <1>2, <1>4
<1>6. \A i \in 0 .. H : f[i] = IF i = H THEN <<r>> ELSE Below(f[i + 1])
  BY <1>1, <1>5 DEF Levels
<1> DEFINE D == {j \in Nat : j =< H => f[H - j] \in Seq(AtLevel(g, H - j))
                                         /\ Tiles(f[H - j], g, 0, KeyMod)}
<1>7. 0 \in D
  <2>1. H - 0 = H /\ H \in 0 .. H  BY <1>5
  <2>2. PICK s : s = <<r>>  OBVIOUS
  <2>3. f[H] = s  BY <1>6, <2>1, <2>2
  <2>4. r \in AtLevel(g, H)  BY <1>2, <1>3, <1>5 DEF AtLevel
  <2>5. PICK U : U = AtLevel(g, H)  OBVIOUS
  <2>6. s \in Seq(U) /\ Len(s) = 1 /\ s[1] = r  BY <2>2, <2>4, <2>5
  <2>7. Tiles(s, g, 0, KeyMod)
    <3>1. 1 .. 1 - 1 = {}  OBVIOUS
    <3> QED BY <1>2, <1>4, <2>6, <3>1 DEF Tiles
  <2> QED BY <2>1, <2>3, <2>5, <2>6, <2>7
<1>8. ASSUME NEW j \in 0 .. H - 1, j \in D PROVE j + 1 \in D
  <2>1. PICK d : d = H - j  OBVIOUS
  <2>2. PICK i : i = H - (j + 1)  OBVIOUS
  <2>3. d \in Nat /\ d # 0 /\ i \in 0 .. H /\ i # H /\ i + 1 = d /\ d - 1 = i /\ j =< H
    BY <2>1, <2>2
  <2>4. f[d] \in Seq(AtLevel(g, d)) /\ Tiles(f[d], g, 0, KeyMod)  BY <1>8, <2>1, <2>3
  <2>5. f[i] = Below(f[d])  BY <1>6, <2>3
  <2>6. f[i] \in Seq(AtLevel(g, d - 1)) /\ Tiles(f[i], g, 0, KeyMod)
    BY <2>3, <2>4, <2>5, BelowTiles
  <2> QED BY <2>2, <2>3, <2>6
<1>9. 0 .. H \subseteq D
  <2> HIDE DEF D
  <2> QED BY <1>7, <1>8, AllUpTo
<1>10. PICK j : j = H - h  OBVIOUS
<1>11. j \in 0 .. H /\ H - j = h /\ j =< H  BY <1>5, <1>10
<1>12. j \in D
  <2> HIDE DEF D
  <2> QED BY <1>9, <1>11
<1> QED BY <1>11, <1>12

\* There is one.
LEMMA LevelsExist ==
    ASSUME NEW g, SettledTree(g), meta.height \in Nat
    PROVE  \E f : Levels(f)
<1>1. PICK H \in Nat : H = meta.height  OBVIOUS
<1>2. PICK r : r = meta.root_offset  OBVIOUS
<1>3. /\ r \in DOMAIN nodes /\ g.lev[r] = H /\ g.lo[r] = 0 /\ g.hi[r] = KeyMod
      /\ r \in Blocks(nodes, leafs)
  BY <1>1, <1>2 DEF SettledTree, Tree, Rooted, Settled, Blocks
<1>4. PICK R : R = <<r>>  OBVIOUS
<1>5. PICK U : U = Blocks(nodes, leafs)  OBVIOUS
<1> DEFINE S == 0 .. H
           Fits(h, t) == t \in Seq(AtLevel(g, h)) /\ Tiles(t, g, 0, KeyMod)
           T == Seq(U)
           m == [h \in S |-> H - h]
           stop == {H}
           pred == [h \in S |-> h + 1]
           base == [h \in S |-> R]
           step == [z \in S \X T |-> IF Fits(z[1] + 1, z[2]) THEN Below(z[2]) ELSE << >>]
<1>6. m \in [S -> Nat]  OBVIOUS
<1>7. \A h \in S \ stop : pred[h] \in S /\ m[pred[h]] < m[h]
  <2> SUFFICES ASSUME NEW h \in S \ stop PROVE pred[h] \in S /\ m[pred[h]] < m[h]
    OBVIOUS
  <2>1. h \in S /\ h # H /\ h + 1 \in S /\ H - (h + 1) < H - h  OBVIOUS
  <2>2. pred[h] = h + 1 /\ m[h] = H - h /\ m[h + 1] = H - (h + 1)  BY <2>1
  <2> QED BY <2>1, <2>2
<1>8. R \in T /\ \A h \in S \cap stop : base[h] \in T
  <2>1. R \in T  BY <1>3, <1>4, <1>5
  <2> QED BY <2>1
<1>9. \A h \in 0 .. H : AtLevel(g, h) \subseteq U  BY <1>5 DEF AtLevel
<1>10. ASSUME NEW h \in S \ stop, NEW t, Fits(h + 1, t) PROVE Fits(h, Below(t)) /\ Below(t) \in T
  <2>1. h + 1 \in Nat /\ h + 1 # 0 /\ h + 1 - 1 = h /\ h \in 0 .. H  OBVIOUS
  <2>2. Below(t) \in Seq(AtLevel(g, h)) /\ Tiles(Below(t), g, 0, KeyMod)
    BY <1>10, <2>1, BelowTiles
  <2>3. PICK V : V = AtLevel(g, h)  OBVIOUS
  <2>4. Below(t) \in Seq(V) /\ V \subseteq U  BY <1>9, <2>1, <2>2, <2>3
  <2>5. Below(t) \in Seq(U)  BY <2>4
  <2> QED BY <2>2, <2>5
<1>11. \A h \in S \ stop, t \in T :
          /\ step[<<h, t>>] \in T
          /\ Fits(h + 1, t) => step[<<h, t>>] = Below(t)
  <2> SUFFICES ASSUME NEW h \in S \ stop, NEW t \in T
               PROVE  /\ step[<<h, t>>] \in T
                      /\ Fits(h + 1, t) => step[<<h, t>>] = Below(t)
    OBVIOUS
  <2>1. <<h, t>> \in S \X T  OBVIOUS
  <2>2. step[<<h, t>>] = IF Fits(h + 1, t) THEN Below(t) ELSE << >>
    <3> HIDE DEF Fits
    <3> QED BY <2>1
  <2>3. << >> \in T  OBVIOUS
  <2> HIDE DEF Fits, step, T, S, stop
  <2> QED BY <1>10, <2>2, <2>3
<1>12. Recursive(S, T, m, stop, pred, base, step)
  <2> HIDE DEF m, pred, step, base, stop, T, S, Fits
  <2> QED BY <1>6, <1>7, <1>8, <1>11 DEF Recursive
<1>13. PICK f \in [S -> T] :
        f = [h \in S |-> IF h \in stop THEN base[h] ELSE step[<<h, f[pred[h]]>>]]
  <2> HIDE DEF m, pred, step, base, stop, T, S
  <2> QED BY <1>12, Recursion
<1>14. ASSUME NEW h \in S
       PROVE  /\ h = H => f[h] = R
              /\ h # H => /\ h + 1 \in S /\ f[h + 1] \in T
                          /\ f[h] = step[<<h, f[h + 1]>>]
  <2>1. ASSUME h = H PROVE f[h] = R
    <3>1. h \in stop /\ base[h] = R  BY <2>1
    <3> HIDE DEF m, pred, step, base, stop, T, S
    <3> QED BY <1>13, <3>1
  <2>2. ASSUME h # H
        PROVE  h + 1 \in S /\ f[h + 1] \in T /\ f[h] = step[<<h, f[h + 1]>>]
    <3>1. h \notin stop /\ pred[h] = h + 1 /\ h + 1 \in S  BY <2>2
    <3> HIDE DEF m, pred, step, base, stop, T, S
    <3> QED BY <1>13, <3>1
  <2> QED BY <2>1, <2>2
<1>15. Fits(H, f[H]) /\ H \in S
  <2>1. H \in S  OBVIOUS
  <2>2. f[H] = R
    <3> HIDE DEF m, pred, step, base, stop, T, S
    <3> QED BY <1>14, <2>1
  <2>3. r \in AtLevel(g, H)  BY <1>3 DEF AtLevel
  <2>4. PICK V : V = AtLevel(g, H)  OBVIOUS
  <2>5. R \in Seq(V) /\ Len(R) = 1 /\ R[1] = r  BY <1>4, <2>3, <2>4
  <2>6. Tiles(R, g, 0, KeyMod)
    <3>1. 1 .. 1 - 1 = {}  OBVIOUS
    <3> QED BY <1>3, <2>5, <3>1 DEF Tiles
  <2> QED BY <2>1, <2>2, <2>4, <2>5, <2>6
<1> DEFINE D == {j \in Nat : j =< H => Fits(H - j, f[H - j])}
<1>16. 0 \in D
  <2>1. H - 0 = H  OBVIOUS
  <2> HIDE DEF Fits
  <2> QED BY <1>15, <2>1
<1>17. ASSUME NEW j \in 0 .. H - 1, j \in D PROVE j + 1 \in D
  <2>1. PICK d : d = H - j  OBVIOUS
  <2>2. PICK i : i = H - (j + 1)  OBVIOUS
  <2>3. i \in S /\ i # H /\ i \in S \ stop /\ i + 1 = d /\ j =< H /\ j + 1 \in Nat
    BY <2>1, <2>2
  <2>4. Fits(d, f[d])
    <3> HIDE DEF Fits, S, stop
    <3> QED BY <1>17, <2>1, <2>3
  <2>5. f[d] \in T /\ f[i] = step[<<i, f[d]>>]
    <3> HIDE DEF m, pred, step, base, stop, T, S
    <3> QED BY <1>14, <2>3
  <2>6. f[i] = Below(f[d])
    <3> HIDE DEF m, pred, step, base, stop, T, S, Fits
    <3> QED BY <1>11, <2>3, <2>4, <2>5
  <2>7. Fits(i, f[i])
    <3> HIDE DEF m, pred, step, base, stop, T, S, Fits
    <3> QED BY <1>10, <2>3, <2>4, <2>6
  <2> HIDE DEF Fits, S, stop
  <2> QED BY <2>2, <2>3, <2>7
<1>18. 0 .. H \subseteq D
  <2> HIDE DEF D
  <2> QED BY <1>16, <1>17, AllUpTo
<1>19. ASSUME NEW h \in S PROVE Fits(h, f[h])
  <2>1. PICK j : j = H - h  OBVIOUS
  <2>2. j \in 0 .. H /\ H - j = h /\ j =< H  BY <2>1
  <2>3. j \in D
    <3> HIDE DEF D
    <3> QED BY <1>18, <2>2
  <2> HIDE DEF Fits
  <2> QED BY <2>2, <2>3
<1>20. ASSUME NEW h \in S PROVE f[h] = IF h = H THEN R ELSE Below(f[h + 1])
  <2>1. CASE h = H
    <3> HIDE DEF m, pred, step, base, stop, T, S
    <3> QED BY <1>14, <2>1
  <2>2. CASE h # H
    <3>1. h \in S \ stop  BY <2>2
    <3> HIDE DEF m, pred, step, base, stop, T, S, Fits
    <3>2. h + 1 \in S /\ f[h + 1] \in T /\ f[h] = step[<<h, f[h + 1]>>]  BY <1>14, <2>2
    <3>3. Fits(h + 1, f[h + 1])  BY <1>19, <3>2
    <3>4. f[h] = Below(f[h + 1])  BY <1>11, <3>1, <3>2, <3>3
    <3> QED BY <2>2, <3>4
  <2> QED BY <2>1, <2>2
<1>21. f = [h \in 0 .. H |-> f[h]]  BY <1>13
<1>22. f = [h \in 0 .. H |-> IF h = H THEN R ELSE Below(f[h + 1])]
  <2>1. S = 0 .. H  OBVIOUS
  <2> HIDE DEF m, pred, step, base, stop, T, S, Fits
  <2> QED BY <1>20, <1>21, <2>1
<1>23. Levels(f)  BY <1>1, <1>2, <1>4, <1>22 DEF Levels
<1> QED BY <1>23

\* A level divides all keys among its blocks, and has them all.
LEMMA LevelTiles ==
    ASSUME NEW g, SettledTree(g), NEW h, h \in 0 .. meta.height
    PROVE  /\ meta.height \in Nat /\ meta.height # 0
           /\ Level(h) \in Seq(AtLevel(g, h)) /\ Tiles(Level(h), g, 0, KeyMod)
<1>1. meta.height \in Nat /\ meta.height # 0
  <2>1. /\ meta.root_offset \in DOMAIN nodes /\ g.lev[meta.root_offset] = meta.height
    BY DEF SettledTree, Tree, Rooted
  <2> QED BY <2>1 DEF SettledTree, Tree, Spans, Nodes, Blocks
<1>2. PICK f : f = CHOOSE d : Levels(d)  OBVIOUS
<1>3. Levels(f)  BY <1>1, <1>2, LevelsExist
<1>4. Level(h) = f[h]  BY <1>2 DEF Level, Levels, Below
<1> QED BY <1>1, <1>3, <1>4, LevelsTile

\* A level consists of its blocks.
LEMMA LevelHas ==
    ASSUME NEW g, SettledTree(g), NEW h, h \in 0 .. meta.height
    PROVE  Range(Level(h)) = AtLevel(g, h)
<1>1. Level(h) \in Seq(AtLevel(g, h)) /\ Tiles(Level(h), g, 0, KeyMod)  BY LevelTiles
<1>2. Disjoint(AtLevel(g, h), g)
  BY DEF Disjoint, AtLevel, SettledTree, Tree, Spans, NoOverlap
<1> QED BY <1>1, <1>2, TilesAll

\* The internal nodes under the root are all there are, and level 0 has all
\* leaves.
LEMMA InternalsAre ==
    ASSUME NEW g, SettledTree(g)
    PROVE  Internals = DOMAIN nodes /\ Range(Level(0)) = DOMAIN leafs
<1>1. PICK H \in Nat : H = meta.height /\ H # 0
  <2>1. /\ meta.root_offset \in DOMAIN nodes /\ g.lev[meta.root_offset] = meta.height
    BY DEF SettledTree, Tree, Rooted
  <2> QED BY <2>1 DEF SettledTree, Tree, Spans, Nodes, Blocks
<1>2. \A h \in 0 .. H : Range(Level(h)) = AtLevel(g, h)  BY <1>1, LevelHas
<1>3. \A o \in DOMAIN nodes : g.lev[o] \in 1 .. H
  <2> SUFFICES ASSUME NEW o \in DOMAIN nodes PROVE g.lev[o] \in 1 .. H
    OBVIOUS
  <2>1. o \in Blocks(nodes, leafs)  BY DEF Blocks
  <2>2. g.lev[o] \in Nat /\ g.lev[o] =< H /\ g.lev[o] # 0
    BY <1>1, <2>1 DEF SettledTree, Tree, Spans, Rooted, Nodes
  <2> QED BY <1>1, <2>2
<1>4. \A o \in DOMAIN leafs : g.lev[o] = 0  BY DEF SettledTree, Tree, Leaves
<1>5. ASSUME NEW o \in DOMAIN nodes PROVE o \in Internals
  <2>1. PICK h : h = g.lev[o]  OBVIOUS
  <2>2. h \in 1 .. H /\ h \in 0 .. H  BY <1>1, <1>3, <2>1
  <2>3. o \in AtLevel(g, h)  BY <2>1 DEF AtLevel, Blocks
  <2>4. o \in Range(Level(h))  BY <1>2, <2>2, <2>3
  <2> QED BY <1>1, <2>2, <2>4 DEF Internals
<1>6. ASSUME NEW o \in Internals PROVE o \in DOMAIN nodes
  <2>1. PICK h \in 1 .. H : o \in Range(Level(h))  BY <1>1, <1>6 DEF Internals
  <2>2. h \in 0 .. H /\ h # 0  BY <1>1
  <2>3. o \in AtLevel(g, h)  BY <1>2, <2>1, <2>2
  <2>4. o \in DOMAIN nodes \cup DOMAIN leafs /\ g.lev[o] = h  BY <2>3 DEF AtLevel, Blocks
  <2> QED BY <1>4, <2>2, <2>4
<1>7. Range(Level(0)) = DOMAIN leafs
  <2>1. 0 \in 0 .. H  BY <1>1
  <2>2. Range(Level(0)) = AtLevel(g, 0)  BY <1>2, <2>1
  <2>3. \A o \in DOMAIN nodes : g.lev[o] # 0  BY <1>1, <1>3
  <2>4. AtLevel(g, 0) = DOMAIN leafs  BY <1>4, <2>3 DEF AtLevel, Blocks
  <2> QED BY <2>2, <2>4
<1> QED BY <1>5, <1>6, <1>7

\* Every block but the root names the block it hangs under as its parent,
\* which insert_key_to_index climbs by, also after the splits of inner nodes
\* that move children: for every set of keys among which keycmp is an order,
\* every order of a tree and every caller, as long as no removal leaves a leaf
\* less than half full.
THEOREM ParentsAreNamed ==
    ASSUME KeysNear
    PROVE  Spec /\ [][~ Underflow]_vars => []ParentLinks
<1>1. InOrder => ParentLinks
  <2> SUFFICES ASSUME InOrder, pc = "idle", NEW o \in Internals,
                      NEW c \in Range(nodes[o].kids)
               PROVE  (IF c \in DOMAIN nodes THEN nodes[c] ELSE leafs[c]).parent = o
    BY DEF ParentLinks
  <2>1. PICK g : SettledTree(g)  BY DEF InOrder, Rests, SettledTree
  <2>2. o \in DOMAIN nodes  BY <2>1, InternalsAre
  <2>3. IsKid(nodes[o], c)  BY DEF IsKid, Range
  <2>4. ParentOf(nodes, leafs, c) = o  BY <2>1, <2>2, <2>3, KidsTile
  <2> QED BY <2>4 DEF ParentOf
<1> QED BY <1>1, StaysInOrder, PTL

-----------------------------------------------------------------------------
(* The chain of leaves.                                                    *)

\* What the functions that follow the chain compute.
Follow(f) ==
    f = [o \in DOMAIN leafs \cup {0} |->
            IF o = 0 THEN << >> ELSE <<o>> \o f[leafs[o].next]]

\* The leaves do not overlap.
LEMMA LeafsDisjoint ==
    ASSUME NEW N, NEW F, NEW M, NEW st, NEW g, NEW X, Tree(N, F, M, st, g, X)
    PROVE  Disjoint(DOMAIN F, g) /\ 0 \notin DOMAIN F
<1>1. \A c \in DOMAIN F : c \in Blocks(N, F) /\ g.lev[c] = 0
  BY DEF Tree, Leaves, Blocks
<1>2. Disjoint(DOMAIN F, g)
  BY <1>1 DEF Tree, Spans, NoOverlap, Disjoint
<1>3. 0 \notin DOMAIN F
  <2>1. 0 \notin 1 .. M.slot - 1  BY DEF Tree, Placed
  <2> QED BY <1>1, <2>1 DEF Tree, Placed
<1> QED BY <1>2, <1>3

\* Functions that follow the chain up to stop, where they are t, exist: the
\* intervals go up along the chain.
LEMMA FollowsTo ==
    ASSUME NEW g, Disjoint(DOMAIN leafs, g), 0 \notin DOMAIN leafs, Chained(leafs, meta, g),
           NEW stop, 0 \in stop, NEW t \in Seq(DOMAIN leafs)
    PROVE  \E f : f = [o \in DOMAIN leafs \cup {0} |->
                          IF o \in stop THEN t ELSE <<o>> \o f[leafs[o].next]]
<1> DEFINE S == DOMAIN leafs \cup {0}
           T == Seq(DOMAIN leafs)
           m == [o \in S |-> IF o = 0 THEN 0 ELSE KeyMod - g.lo[o]]
           pred == [o \in S |-> leafs[o].next]
           base == [o \in S |-> t]
           halt == stop \cap S
           put == [z \in S \X T |-> IF z[1] = 0 THEN << >> ELSE <<z[1]>> \o z[2]]
<1>1. KeyMod \in Nat  BY KeyBounds
<1>2. \A o \in DOMAIN leafs : /\ g.lo[o] \in Int /\ 0 =< g.lo[o] /\ g.lo[o] < KeyMod
                              /\ g.hi[o] \in Int /\ g.lo[o] < g.hi[o] /\ o # 0
  BY <1>1 DEF Disjoint
<1>3. m \in [S -> Nat]  BY <1>1, <1>2
<1>4. \A o \in S \ halt : o \in DOMAIN leafs /\ pred[o] \in S /\ m[pred[o]] < m[o]
  <2> SUFFICES ASSUME NEW o \in S \ halt
               PROVE  o \in DOMAIN leafs /\ pred[o] \in S /\ m[pred[o]] < m[o]
    OBVIOUS
  <2>1. o \in DOMAIN leafs  OBVIOUS
  <2>2. PICK n : n = leafs[o].next /\ n = pred[o]  BY <2>1
  <2>3. \/ n = 0
        \/ n \in DOMAIN leafs /\ g.lo[n] = g.hi[o]
    BY <2>1, <2>2 DEF Chained
  <2>4. m[o] = KeyMod - g.lo[o] /\ 0 < KeyMod - g.lo[o]  BY <1>1, <1>2, <2>1
  <2>5. CASE n = 0
    <3>1. n \in S /\ m[n] = 0  BY <2>5
    <3> HIDE DEF m, pred
    <3> QED BY <2>1, <2>2, <2>4, <3>1
  <2>6. CASE n \in DOMAIN leafs /\ g.lo[n] = g.hi[o]
    <3>1. n \in S /\ m[n] = KeyMod - g.lo[n]  BY <1>2, <2>6
    <3>2. g.lo[o] < g.lo[n] /\ g.lo[n] \in Int /\ g.lo[o] \in Int  BY <1>2, <2>1, <2>6
    <3>3. KeyMod - g.lo[n] < KeyMod - g.lo[o]  BY <1>1, <3>2
    <3> HIDE DEF m, pred
    <3> QED BY <2>1, <2>2, <2>4, <3>1, <3>3
  <2> QED BY <2>3, <2>5, <2>6
<1>5. \A o \in S \cap halt : base[o] \in T  OBVIOUS
<1>6. \A o \in S \ halt, r \in T :
         put[<<o, r>>] = <<o>> \o r /\ put[<<o, r>>] \in T
  <2> SUFFICES ASSUME NEW o \in S \ halt, NEW r \in T
               PROVE  put[<<o, r>>] = <<o>> \o r /\ put[<<o, r>>] \in T
    OBVIOUS
  <2>1. <<o, r>> \in S \X T /\ o # 0 /\ o \in DOMAIN leafs  BY <1>2, <1>4
  <2>2. put[<<o, r>>] = <<o>> \o r  BY <2>1
  <2>3. <<o>> \o r \in T  BY <2>1, PutInFront
  <2> QED BY <2>2, <2>3
<1>7. Recursive(S, T, m, halt, pred, base, put)
  <2> HIDE DEF m, pred, put, base, halt, T, S
  <2> QED BY <1>3, <1>4, <1>5, <1>6 DEF Recursive
<1>8. PICK f \in [S -> T] :
        f = [o \in S |-> IF o \in halt THEN base[o] ELSE put[<<o, f[pred[o]]>>]]
  <2> HIDE DEF m, pred, put, base, halt, T, S
  <2> QED BY <1>7, Recursion
<1>9. ASSUME NEW o \in S PROVE f[o] = IF o \in stop THEN t ELSE <<o>> \o f[leafs[o].next]
  <2>1. CASE o \in stop
    <3>1. o \in halt /\ base[o] = t  BY <2>1
    <3> HIDE DEF m, pred, put, base, halt, T, S
    <3> QED BY <1>8, <2>1, <3>1
  <2>2. CASE o \notin stop
    <3>1. o \in S \ halt /\ pred[o] = leafs[o].next  BY <2>2
    <3> HIDE DEF m, pred, put, base, halt, T, S
    <3>2. f[o] = put[<<o, f[pred[o]]>>] /\ f[pred[o]] \in T  BY <1>4, <1>8, <3>1
    <3> QED BY <1>6, <2>2, <3>1, <3>2
  <2> QED BY <2>1, <2>2
<1>10. f = [o \in DOMAIN leafs \cup {0} |-> f[o]]  BY <1>8
<1>11. f = [o \in DOMAIN leafs \cup {0} |->
               IF o \in stop THEN t ELSE <<o>> \o f[leafs[o].next]]
  <2>1. S = DOMAIN leafs \cup {0}  OBVIOUS
  <2> HIDE DEF m, pred, put, base, halt, T, S
  <2> QED BY <1>9, <1>10, <2>1
<1> QED BY <1>11

\* So there is one that follows it to its end.
LEMMA FollowExists ==
    ASSUME NEW g, Disjoint(DOMAIN leafs, g), 0 \notin DOMAIN leafs, Chained(leafs, meta, g)
    PROVE  \E f : Follow(f)
<1>1. PICK t \in Seq(DOMAIN leafs) : t = << >>
  <2>1. << >> \in Seq(DOMAIN leafs)  OBVIOUS
  <2> QED BY <2>1
<1>2. PICK stop : stop = {0}  OBVIOUS
<1>3. PICK f : f = [o \in DOMAIN leafs \cup {0} |->
                       IF o \in stop THEN t ELSE <<o>> \o f[leafs[o].next]]
  <2>1. 0 \in stop  BY <1>2
  <2> QED BY <2>1, FollowsTo
<1> QED BY <1>1, <1>2, <1>3 DEF Follow

\* From every leaf on, the chain divides the keys that are left.
LEMMA FollowTiles ==
    ASSUME NEW g, Disjoint(DOMAIN leafs, g), 0 \notin DOMAIN leafs, Chained(leafs, meta, g),
           NEW f, Follow(f), NEW o \in DOMAIN leafs
    PROVE  f[o] \in Seq(DOMAIN leafs) /\ Tiles(f[o], g, g.lo[o], KeyMod)
<1>1. KeyMod \in Nat  BY KeyBounds
<1>2. \A c \in DOMAIN leafs : /\ g.lo[c] \in Int /\ 0 =< g.lo[c] /\ g.lo[c] < KeyMod
                              /\ g.hi[c] \in Int /\ g.lo[c] < g.hi[c] /\ c # 0
  BY <1>1 DEF Disjoint
<1> DEFINE Good(c) == f[c] \in Seq(DOMAIN leafs) /\ Tiles(f[c], g, g.lo[c], KeyMod)
           D == {k \in Nat : \A c \in DOMAIN leafs : KeyMod - g.lo[c] =< k => Good(c)}
<1>3. ASSUME NEW c \in DOMAIN leafs, NEW n, n = leafs[c].next,
             n = 0 \/ Good(n)
      PROVE  Good(c)
  <2>1. \/ n = 0 /\ g.hi[c] = KeyMod
        \/ n \in DOMAIN leafs /\ g.lo[n] = g.hi[c]
    BY <1>3 DEF Chained
  <2>2. f[c] = <<c>> \o f[n] /\ f[0] = << >>  BY <1>2, <1>3 DEF Follow
  <2>3. PICK s : s = <<c>>  OBVIOUS
  <2>4. s \in Seq(DOMAIN leafs) /\ Len(s) = 1 /\ s[1] = c  BY <2>3
  <2>5. Tiles(s, g, g.lo[c], g.hi[c])
    <3>1. 1 .. 1 - 1 = {}  OBVIOUS
    <3> QED BY <2>4, <3>1 DEF Tiles
  <2>6. CASE n = 0 /\ g.hi[c] = KeyMod
    <3>1. s \o << >> = s  BY <2>4
    <3>2. f[c] = s  BY <2>2, <2>3, <2>6, <3>1
    <3> QED BY <2>4, <2>5, <2>6, <3>2
  <2>7. CASE n \in DOMAIN leafs /\ g.lo[n] = g.hi[c]
    <3>1. n # 0  BY <1>2, <2>7
    <3>2. PICK t : t = f[n]  OBVIOUS
    <3>3. t \in Seq(DOMAIN leafs) /\ Tiles(t, g, g.hi[c], KeyMod)  BY <1>3, <2>7, <3>1, <3>2
    <3>4. s \o t \in Seq(DOMAIN leafs) /\ Tiles(s \o t, g, g.lo[c], KeyMod)
      BY <2>4, <2>5, <3>3, TilesJoin
    <3>5. f[c] = s \o t  BY <2>2, <2>3, <3>2
    <3> QED BY <3>4, <3>5
  <2> QED BY <2>1, <2>6, <2>7
<1>4. 0 \in D
  <2>1. \A c \in DOMAIN leafs : ~ KeyMod - g.lo[c] =< 0  BY <1>1, <1>2
  <2> QED BY <2>1
<1>5. ASSUME NEW k \in 0 .. KeyMod - 1, k \in D PROVE k + 1 \in D
  <2> SUFFICES ASSUME NEW c \in DOMAIN leafs, KeyMod - g.lo[c] =< k + 1 PROVE Good(c)
    BY <1>1
  <2>1. PICK n : n = leafs[c].next  OBVIOUS
  <2>2. n = 0 \/ (n \in DOMAIN leafs /\ g.lo[n] = g.hi[c])  BY <2>1 DEF Chained
  <2>3. ASSUME n \in DOMAIN leafs, g.lo[n] = g.hi[c] PROVE Good(n)
    <3>1. g.lo[c] < g.lo[n] /\ g.lo[n] \in Int /\ g.lo[c] \in Int  BY <1>2, <2>3
    <3>2. KeyMod - g.lo[n] =< k  BY <1>1, <3>1
    <3> HIDE DEF Good
    <3> QED BY <1>5, <2>3, <3>2
  <2> HIDE DEF Good, D
  <2> QED BY <1>3, <2>1, <2>2, <2>3
<1>6. 0 .. KeyMod \subseteq D
  <2> HIDE DEF D
  <2> QED BY <1>1, <1>4, <1>5, AllUpTo
<1>7. KeyMod \in D
  <2>1. KeyMod \in 0 .. KeyMod  BY <1>1
  <2> HIDE DEF D
  <2> QED BY <1>6, <2>1
<1>8. KeyMod - g.lo[o] =< KeyMod  BY <1>1, <1>2
<1>9. Good(o)
  <2> HIDE DEF Good
  <2> QED BY <1>7, <1>8
<1> QED BY <1>9

\* The chain divides all keys, also while an insertion is on its way up.
LEMMA ChainTiles ==
    ASSUME NEW g, NEW X, Tree(nodes, leafs, meta, stored, g, X)
    PROVE  Chain \in Seq(DOMAIN leafs) /\ Tiles(Chain, g, 0, KeyMod)
<1>1. Disjoint(DOMAIN leafs, g) /\ 0 \notin DOMAIN leafs  BY LeafsDisjoint
<1>2. Chained(leafs, meta, g)  BY DEF Tree
<1>3. PICK f : f = CHOOSE d : Follow(d)  OBVIOUS
<1>4. Follow(f)  BY <1>1, <1>2, <1>3, FollowExists
<1>5. Chain = f[meta.leaf_offset]  BY <1>3 DEF Chain, ChainFrom, Follow
<1>6. meta.leaf_offset \in DOMAIN leafs /\ g.lo[meta.leaf_offset] = 0  BY <1>2 DEF Chained
<1> QED BY <1>1, <1>2, <1>4, <1>5, <1>6, FollowTiles

\* Read backwards it is the same.
LEMMA ChainBack ==
    ASSUME NEW g, NEW X, Tree(nodes, leafs, meta, stored, g, X), NEW i \in DOMAIN Chain
    PROVE  leafs[Chain[i]].prev = IF i = 1 THEN 0 ELSE Chain[i - 1]
<1>1. PICK s : s = Chain  OBVIOUS
<1>2. s \in Seq(DOMAIN leafs) /\ Tiles(s, g, 0, KeyMod)  BY <1>1, ChainTiles
<1>3. PICK n \in Nat : n = Len(s) /\ i \in 1 .. n /\ \A j \in 1 .. n : s[j] \in DOMAIN leafs
  BY <1>1, <1>2
<1>4. Disjoint(DOMAIN leafs, g) /\ 0 \notin DOMAIN leafs  BY LeafsDisjoint
<1>5. PICK o \in DOMAIN leafs : o = s[i]  BY <1>3
<1>6. PICK p : p = leafs[o].prev  OBVIOUS
<1>7. \/ p = 0 /\ g.lo[o] = 0
      \/ p \in DOMAIN leafs /\ g.hi[p] = g.lo[o]
  BY <1>6 DEF Tree, Chained
<1>8. CASE i = 1
  <2>1. g.lo[o] = 0  BY <1>2, <1>5, <1>8 DEF Tiles
  <2>2. ~ (p \in DOMAIN leafs /\ g.hi[p] = g.lo[o])  BY <1>4, <2>1 DEF Disjoint
  <2> QED BY <1>1, <1>5, <1>6, <1>7, <1>8, <2>2
<1>9. CASE i # 1
  <2>1. PICK j \in 1 .. n - 1 : i = j + 1 /\ i - 1 = j
    <3>1. i - 1 \in 1 .. n - 1 /\ i = i - 1 + 1  BY <1>3, <1>9
    <3> QED BY <3>1
  <2>2. PICK q \in DOMAIN leafs : q = s[j]
    <3>1. j \in 1 .. n  OBVIOUS
    <3> QED BY <1>3, <3>1
  <2>3. g.hi[q] = g.lo[o]  BY <1>2, <1>3, <1>5, <2>1, <2>2 DEF Tiles
  <2>4. g.lo[o] # 0  BY <1>4, <2>3 DEF Disjoint
  <2>5. p \in DOMAIN leafs /\ g.hi[p] = g.hi[q]  BY <1>7, <2>3, <2>4
  <2>6. /\ g.lo[p] \in Int /\ g.hi[p] \in Int /\ g.lo[p] < g.hi[p]
        /\ g.lo[q] \in Int /\ g.hi[q] \in Int /\ g.lo[q] < g.hi[q]
        /\ p = q \/ g.hi[p] =< g.lo[q] \/ g.hi[q] =< g.lo[p]
    BY <1>4, <2>5 DEF Disjoint
  <2>7. p = q  BY <2>5, <2>6
  <2> QED BY <1>1, <1>5, <1>6, <1>9, <2>1, <2>2, <2>7
<1> QED BY <1>8, <1>9

\* At rest, the leaves under the nodes are those of the chain, in its order.
LEMMA LevelIsChain ==
    ASSUME NEW g, SettledTree(g)
    PROVE  Level(0) = Chain
<1>1. Tree(nodes, leafs, meta, stored, g, {})  BY DEF SettledTree
<1>2. Chain \in Seq(DOMAIN leafs) /\ Tiles(Chain, g, 0, KeyMod)  BY <1>1, ChainTiles
<1>3. 0 \in 0 .. meta.height
  <2>1. /\ meta.root_offset \in DOMAIN nodes /\ g.lev[meta.root_offset] = meta.height
    BY <1>1 DEF Tree, Rooted
  <2>2. meta.height \in Nat  BY <1>1, <2>1 DEF Tree, Spans, Blocks
  <2> QED BY <2>2
<1>4. Level(0) \in Seq(AtLevel(g, 0)) /\ Tiles(Level(0), g, 0, KeyMod)
  BY <1>3, LevelTiles
<1>5. AtLevel(g, 0) = DOMAIN leafs
  BY <1>1 DEF AtLevel, Blocks, Tree, Leaves, Nodes
<1>6. Disjoint(DOMAIN leafs, g)  BY <1>1, LeafsDisjoint
<1>7. PICK s : s = Level(0)  OBVIOUS
<1>8. PICK t : t = Chain  OBVIOUS
<1>9. s = t  BY <1>2, <1>4, <1>5, <1>6, <1>7, <1>8, TilesSame
<1> QED BY <1>7, <1>8, <1>9

-----------------------------------------------------------------------------
(* Records in the order of their keys.                                     *)

\* The keys ascend between l and h.
Sorted(s, l, h) ==
    /\ \A i, j \in 1 .. Len(s) : i < j => s[i].key < s[j].key
    /\ \A i \in 1 .. Len(s) : l =< s[i].key /\ s[i].key < h

Occurs(s, r) == \E i \in 1 .. Len(s) : s[i] = r

\* Two such sequences joined.
LEMMA SortedJoin ==
    ASSUME NEW s \in Seq(Record), NEW t \in Seq(Record),
           NEW a \in Int, NEW b \in Int, NEW c \in Int, a =< b, b =< c,
           Sorted(s, a, b), Sorted(t, b, c)
    PROVE  /\ s \o t \in Seq(Record) /\ Sorted(s \o t, a, c)
           /\ \A r : Occurs(s \o t, r) <=> Occurs(s, r) \/ Occurs(t, r)
<1>1. PICK z : z = s \o t  OBVIOUS
<1>2. PICK m \in Nat, n \in Nat : m = Len(s) /\ n = Len(t)  OBVIOUS
<1>3. /\ z \in Seq(Record) /\ Len(z) = m + n
      /\ \A k \in 1 .. m : z[k] = s[k]
      /\ \A k \in 1 .. n : z[m + k] = t[k]
  BY <1>1, <1>2, JoinedSeq
<1>4. \A k \in 1 .. m + n : k \in 1 .. m \/ \E j \in 1 .. n : k = m + j
  <2> SUFFICES ASSUME NEW k \in 1 .. m + n, k \notin 1 .. m
               PROVE  \E j \in 1 .. n : k = m + j
    OBVIOUS
  <2>1. k - m \in 1 .. n /\ k = m + (k - m)  OBVIOUS
  <2> QED BY <2>1
<1>5. /\ \A k \in 1 .. m : s[k].key \in Int /\ a =< s[k].key /\ s[k].key < b
      /\ \A k \in 1 .. n : t[k].key \in Int /\ b =< t[k].key /\ t[k].key < c
  <2>1. \A r \in Record : r.key \in Int  BY KeyBounds DEF Record
  <2>2. /\ \A k \in 1 .. m : s[k] \in Record
        /\ \A k \in 1 .. n : t[k] \in Record
    BY <1>2
  <2> QED BY <1>2, <2>1, <2>2 DEF Sorted
<1>6. ASSUME NEW i \in 1 .. m + n, NEW j \in 1 .. m + n, i < j
      PROVE  z[i].key < z[j].key
  <2>1. CASE i \in 1 .. m /\ j \in 1 .. m
    <3>1. s[i].key < s[j].key  BY <1>2, <1>6, <2>1 DEF Sorted
    <3> QED BY <1>3, <2>1, <3>1
  <2>2. CASE i \in 1 .. m /\ j \notin 1 .. m
    <3>1. PICK k \in 1 .. n : j = m + k  BY <1>4, <2>2
    <3>2. z[i].key = s[i].key /\ z[j].key = t[k].key  BY <1>3, <2>2, <3>1
    <3> QED BY <1>5, <2>2, <3>2
  <2>3. CASE i \notin 1 .. m
    <3>1. PICK k \in 1 .. n : i = m + k  BY <1>4, <2>3
    <3>2. j \notin 1 .. m  BY <1>6, <3>1
    <3>3. PICK l \in 1 .. n : j = m + l  BY <1>4, <3>2
    <3>4. k < l  BY <1>6, <3>1, <3>3
    <3>5. t[k].key < t[l].key  BY <1>2, <3>4 DEF Sorted
    <3> QED BY <1>3, <3>1, <3>3, <3>5
  <2> QED BY <2>1, <2>2, <2>3
<1>7. ASSUME NEW i \in 1 .. m + n PROVE a =< z[i].key /\ z[i].key < c
  <2>1. CASE i \in 1 .. m  BY <1>3, <1>5, <2>1
  <2>2. CASE i \notin 1 .. m
    <3>1. PICK k \in 1 .. n : i = m + k  BY <1>4, <2>2
    <3>2. z[i].key = t[k].key  BY <1>3, <3>1
    <3> QED BY <1>5, <3>2
  <2> QED BY <2>1, <2>2
<1>8. ASSUME NEW r PROVE Occurs(z, r) <=> Occurs(s, r) \/ Occurs(t, r)
  <2>1. ASSUME NEW i \in 1 .. m + n, z[i] = r PROVE Occurs(s, r) \/ Occurs(t, r)
    <3>1. CASE i \in 1 .. m  BY <1>2, <1>3, <2>1, <3>1 DEF Occurs
    <3>2. CASE i \notin 1 .. m
      <4>1. PICK k \in 1 .. n : i = m + k  BY <1>4, <3>2
      <4> QED BY <1>2, <1>3, <2>1, <4>1 DEF Occurs
    <3> QED BY <3>1, <3>2
  <2>2. ASSUME NEW i \in 1 .. m, s[i] = r PROVE Occurs(z, r)
    <3>1. i \in 1 .. m + n  BY <1>2
    <3> QED BY <1>3, <2>2, <3>1 DEF Occurs
  <2>3. ASSUME NEW i \in 1 .. n, t[i] = r PROVE Occurs(z, r)
    <3>1. m + i \in 1 .. m + n  BY <1>2
    <3> QED BY <1>3, <2>3, <3>1 DEF Occurs
  <2> QED BY <1>2, <1>3, <2>1, <2>2, <2>3 DEF Occurs
<1>9. Sorted(z, a, c)  BY <1>3, <1>6, <1>7 DEF Sorted
<1> QED BY <1>1, <1>3, <1>8, <1>9

\* Many flattened.
LEMMA FlattenSorted ==
    ASSUME NEW n \in Nat, n # 0, NEW ss, Len(ss) = n, NEW e,
           \A i \in 0 .. n : e[i] \in Int,
           \A i \in 1 .. n : /\ e[0] =< e[i - 1] /\ e[i - 1] =< e[i]
                             /\ ss[i] \in Seq(Record) /\ Sorted(ss[i], e[i - 1], e[i])
    PROVE  /\ FlattenSeq(ss) \in Seq(Record) /\ Sorted(FlattenSeq(ss), e[0], e[n])
           /\ \A r : Occurs(FlattenSeq(ss), r) <=> \E i \in 1 .. n : Occurs(ss[i], r)
<1>1. PICK f : /\ FlattenSeq(ss) = f[n]
               /\ f[1] = ss[1] /\ \A i \in 2 .. n : f[i] = f[i - 1] \o ss[i]
  <2>1. \A i \in 1 .. n : ss[i] \in Seq(Record)  OBVIOUS
  <2>2. PICK f : Flattened(f, ss, n)  BY <2>1, FlattenIs
  <2> QED BY <2>2 DEF Flattened
<1> DEFINE Good(k) == /\ f[k] \in Seq(Record) /\ Sorted(f[k], e[0], e[k])
                      /\ \A r : Occurs(f[k], r) <=> \E i \in 1 .. k : Occurs(ss[i], r)
           D == {k \in Nat : k < n => Good(k + 1)}
<1>2. 0 \in D
  <2>1. 1 \in 1 .. n /\ 1 - 1 = 0 /\ 0 + 1 = 1 /\ 1 .. 1 = {1}  OBVIOUS
  <2>2. ss[1] \in Seq(Record) /\ Sorted(ss[1], e[0], e[1])  BY <2>1
  <2>3. \A r : Occurs(ss[1], r) <=> \E i \in 1 .. 1 : Occurs(ss[i], r)  BY <2>1
  <2> QED BY <1>1, <2>1, <2>2, <2>3
<1>3. ASSUME NEW k \in 0 .. n - 1, k \in D PROVE k + 1 \in D
  <2> SUFFICES ASSUME k + 1 < n PROVE Good(k + 1 + 1)
    OBVIOUS
  <2>1. PICK i : i = k + 1 + 1  OBVIOUS
  <2>2. k < n /\ i \in 2 .. n /\ i \in 1 .. n /\ i - 1 = k + 1 /\ i - 1 \in 0 .. n
        /\ 0 \in 0 .. n /\ i \in 0 .. n
    BY <2>1
  <2>3. Good(i - 1)
    <3> HIDE DEF Good
    <3> QED BY <1>3, <2>2
  <2>4. /\ ss[i] \in Seq(Record) /\ Sorted(ss[i], e[i - 1], e[i])
        /\ e[0] =< e[i - 1] /\ e[i - 1] =< e[i]
        /\ e[0] \in Int /\ e[i - 1] \in Int /\ e[i] \in Int
    BY <2>2
  <2>5. f[i] = f[i - 1] \o ss[i]  BY <1>1, <2>2
  <2>6. /\ f[i] \in Seq(Record) /\ Sorted(f[i], e[0], e[i])
        /\ \A r : Occurs(f[i], r) <=> Occurs(f[i - 1], r) \/ Occurs(ss[i], r)
    <3>1. PICK p, q \in Seq(Record) : p = f[i - 1] /\ q = ss[i]  BY <2>3, <2>4
    <3>2. PICK a, b, c \in Int : a = e[0] /\ b = e[i - 1] /\ c = e[i]  BY <2>4
    <3>3. Sorted(p, a, b) /\ Sorted(q, b, c) /\ a =< b /\ b =< c
      BY <2>3, <2>4, <3>1, <3>2
    <3>4. PICK z : z = p \o q  OBVIOUS
    <3>5. /\ z \in Seq(Record) /\ Sorted(z, a, c)
          /\ \A r : Occurs(z, r) <=> Occurs(p, r) \/ Occurs(q, r)
      BY <3>3, <3>4, SortedJoin
    <3>6. f[i] = z  BY <2>5, <3>1, <3>4
    <3> HIDE DEF Good
    <3> QED BY <3>1, <3>2, <3>5, <3>6
  <2>7. \A r : Occurs(f[i], r) <=> \E j \in 1 .. i : Occurs(ss[j], r)
    <3>1. 1 .. i = 1 .. i - 1 \cup {i}  BY <2>2
    <3>2. \A r : Occurs(f[i - 1], r) <=> \E j \in 1 .. i - 1 : Occurs(ss[j], r)  BY <2>3
    <3> HIDE DEF Good
    <3> QED BY <2>6, <3>1, <3>2
  <2>8. Good(i)  BY <2>6, <2>7
  <2> HIDE DEF Good
  <2> QED BY <2>1, <2>8
<1>4. 0 .. n \subseteq D
  <2> HIDE DEF D
  <2> QED BY <1>2, <1>3, AllUpTo
<1>5. n - 1 \in D /\ n - 1 < n /\ n - 1 + 1 = n
  <2>1. n - 1 \in 0 .. n  OBVIOUS
  <2> HIDE DEF D
  <2> QED BY <1>4, <2>1
<1>6. Good(n)
  <2> HIDE DEF Good
  <2> QED BY <1>5
<1> QED BY <1>1, <1>6

\* How many things a sequence without repetitions has.
LEMMA CountSeq ==
    ASSUME NEW U, NEW s \in Seq(U), \A i, j \in 1 .. Len(s) : i < j => s[i] # s[j]
    PROVE  IsFiniteSet(Range(s)) /\ Cardinality(Range(s)) = Len(s)
<1>1. PICK n \in Nat : n = Len(s) /\ DOMAIN s = 1 .. n  OBVIOUS
<1>2. PICK R : R = Range(s)  OBVIOUS
<1>3. R = {s[i] : i \in 1 .. n}  BY <1>1, <1>2 DEF Range
<1>4. s \in [1 .. n -> R]
  <2>1. s = [i \in 1 .. n |-> s[i]]  BY <1>1, SeqFunction
  <2> QED BY <1>3, <2>1
<1>5. \A i, j \in 1 .. n : s[i] = s[j] => i = j
  <2> SUFFICES ASSUME NEW i \in 1 .. n, NEW j \in 1 .. n, s[i] = s[j], i # j PROVE FALSE
    OBVIOUS
  <2>1. i < j \/ j < i  OBVIOUS
  <2> QED BY <1>1, <2>1
<1>6. s \in Bijection(1 .. n, R)
  BY <1>1, <1>3, <1>4, <1>5 DEF Bijection, Injection, Surjection, IsInjective
<1>7. IsFiniteSet(1 .. n) /\ Cardinality(1 .. n) = n  BY FS_Interval
<1>8. ExistsBijection(1 .. n, R)  BY <1>6 DEF ExistsBijection
<1>9. IsFiniteSet(R) /\ Cardinality(R) = n  BY <1>7, <1>8, FS_Bijection
<1> QED BY <1>1, <1>2, <1>9

-----------------------------------------------------------------------------
(* What the chain lists.                                                   *)

\* The element of K with i elements up to it.
Nth(K, i) == CHOOSE k \in K : Cardinality({q \in K : q =< k}) = i

\* Sorted records that are the stored ones are listed as Stored lists them.
LEMMA StoredIs ==
    ASSUME NEW s \in Seq(Record), NEW l, NEW h, Sorted(s, l, h), DOMAIN stored \subseteq Keys,
           NEW left, NEW right,
           \A q, w : Occurs(s, [key |-> q, value |-> w])
                       <=> q \in DOMAIN stored /\ w = stored[q] /\ left =< q /\ q =< right
    PROVE  s = Stored(left, right)
<1>1. PICK n \in Nat : n = Len(s) /\ DOMAIN s = 1 .. n  OBVIOUS
<1>2. PICK K : K = {k \in DOMAIN stored : left =< k /\ k =< right}  OBVIOUS
<1>3. K \subseteq Keys /\ \A k \in K : k \in Int  BY <1>2, KeyBounds
<1>4. ASSUME NEW i \in 1 .. n
      PROVE  /\ s[i] = [key |-> s[i].key, value |-> stored[s[i].key]]
             /\ s[i].key \in K
  <2>1. PICK r \in Record : r = s[i]  BY <1>1
  <2>2. r = [key |-> r.key, value |-> r.value]  BY DEF Record
  <2>3. Occurs(s, [key |-> r.key, value |-> r.value])  BY <1>1, <2>1, <2>2 DEF Occurs
  <2>4. r.key \in K /\ r.value = stored[r.key]  BY <1>2, <2>3
  <2> QED BY <2>1, <2>2, <2>4
<1>5. \A k \in K : \E i \in 1 .. n : s[i].key = k
  <2> SUFFICES ASSUME NEW k \in K PROVE \E i \in 1 .. n : s[i].key = k
    OBVIOUS
  <2>1. Occurs(s, [key |-> k, value |-> stored[k]])  BY <1>2
  <2>2. PICK i \in 1 .. n : s[i] = [key |-> k, value |-> stored[k]]  BY <1>1, <2>1 DEF Occurs
  <2> QED BY <2>2
<1>6. \A i, j \in 1 .. n : i < j => s[i].key < s[j].key  BY <1>1 DEF Sorted
<1>7. ASSUME NEW i \in 0 .. n
      PROVE  /\ IsFiniteSet({s[j].key : j \in 1 .. i})
             /\ Cardinality({s[j].key : j \in 1 .. i}) = i
  <2>1. PICK t : t = [j \in 1 .. i |-> s[j].key]  OBVIOUS
  <2>2. t \in Seq(Int) /\ Len(t) = i
    <3>0. \A j \in 1 .. i : j \in 1 .. n  OBVIOUS
    <3>1. \A j \in 1 .. i : s[j].key \in Int  BY <1>3, <1>4, <3>0
    <3>2. t \in [1 .. i -> Int]  BY <2>1, <3>1
    <3> QED BY <3>2, FunctionSeq
  <2>3. \A j, k \in 1 .. i : j < k => t[j] # t[k]
    <3> SUFFICES ASSUME NEW j \in 1 .. i, NEW k \in 1 .. i, j < k PROVE t[j] # t[k]
      OBVIOUS
    <3>1. j \in 1 .. n /\ k \in 1 .. n  OBVIOUS
    <3>2. s[j].key < s[k].key /\ s[j].key \in Int /\ s[k].key \in Int
      BY <1>3, <1>4, <1>6, <3>1
    <3>3. s[j].key # s[k].key  BY <3>2
    <3> QED BY <2>1, <3>3
  <2>4. IsFiniteSet(Range(t)) /\ Cardinality(Range(t)) = i  BY <2>2, <2>3, CountSeq
  <2>5. Range(t) = {s[j].key : j \in 1 .. i}  BY <2>1 DEF Range
  <2> QED BY <2>4, <2>5
<1>8. Cardinality(K) = n
  <2>1. K = {s[j].key : j \in 1 .. n}  BY <1>4, <1>5
  <2>2. n \in 0 .. n  OBVIOUS
  <2> QED BY <1>7, <2>1, <2>2
<1>9. ASSUME NEW i \in 1 .. n PROVE Cardinality({q \in K : q =< s[i].key}) = i
  <2>1. {q \in K : q =< s[i].key} = {s[j].key : j \in 1 .. i}
    <3>1. ASSUME NEW q \in K, q =< s[i].key PROVE q \in {s[j].key : j \in 1 .. i}
      <4>1. PICK j \in 1 .. n : s[j].key = q  BY <1>5
      <4>2. s[i].key \in Int /\ s[j].key \in Int  BY <1>3, <1>4
      <4>3. ~ i < j  BY <1>6, <3>1, <4>1, <4>2
      <4>4. j \in 1 .. i  BY <4>3
      <4> QED BY <4>1, <4>4
    <3>2. ASSUME NEW j \in 1 .. i PROVE s[j].key \in K /\ s[j].key =< s[i].key
      <4>1. j \in 1 .. n  OBVIOUS
      <4>2. s[i].key \in Int /\ s[j].key \in Int /\ s[j].key \in K  BY <1>3, <1>4, <4>1
      <4>3. j < i => s[j].key < s[i].key  BY <1>6, <4>1
      <4>4. j < i \/ j = i  OBVIOUS
      <4> QED BY <4>2, <4>3, <4>4
    <3> QED BY <3>1, <3>2
  <2>2. i \in 0 .. n  OBVIOUS
  <2> QED BY <1>7, <2>1, <2>2
<1>10. ASSUME NEW i \in 1 .. n PROVE Nth(K, i) = s[i].key
  <2>1. s[i].key \in K /\ Cardinality({q \in K : q =< s[i].key}) = i  BY <1>4, <1>9
  <2>2. PICK k : k = Nth(K, i)  OBVIOUS
  <2>3. k \in K /\ Cardinality({q \in K : q =< k}) = i  BY <2>1, <2>2 DEF Nth
  <2>4. PICK j \in 1 .. n : s[j].key = k  BY <1>5, <2>3
  <2>5. Cardinality({q \in K : q =< k}) = j  BY <1>9, <2>4
  <2> QED BY <2>2, <2>3, <2>4, <2>5
<1>11. Stored(left, right)
         = [i \in 1 .. n |-> [key |-> Nth(K, i), value |-> stored[Nth(K, i)]]]
  BY <1>2, <1>8 DEF Stored, Nth
<1>12. s = [i \in 1 .. n |-> s[i]]  BY <1>1, SeqFunction
<1> QED BY <1>4, <1>10, <1>11, <1>12

\* The chain lists the stored records.
LEMMA ChainLists ==
    ASSUME NEW g, NEW X, Tree(nodes, leafs, meta, stored, g, X)
    PROVE  Records(Chain) = Stored(0, KeyMod)
<1>1. PICK s : s = Chain  OBVIOUS
<1>2. s \in Seq(DOMAIN leafs) /\ Tiles(s, g, 0, KeyMod)  BY <1>1, ChainTiles
<1>3. PICK n \in Nat : n = Len(s) /\ n # 0 /\ DOMAIN s = 1 .. n
                       /\ \A i \in 1 .. n : s[i] \in DOMAIN leafs
  BY <1>2 DEF Tiles
<1>4. Disjoint(DOMAIN leafs, g) /\ Range(s) = DOMAIN leafs
  BY <1>2, LeafsDisjoint, TilesAll
<1>5. PICK ss : ss = [i \in 1 .. n |-> leafs[s[i]].recs]  OBVIOUS
<1>6. Len(ss) = n /\ \A i \in 1 .. n : ss[i] = leafs[s[i]].recs  BY <1>5
<1>7. PICK e : e = [i \in 0 .. n |-> IF i = 0 THEN 0 ELSE g.hi[s[i]]]  OBVIOUS
<1>8. e[0] = 0 /\ e[n] = KeyMod  BY <1>2, <1>3, <1>7 DEF Tiles
<1>9. \A i \in 0 .. n : e[i] \in Int /\ 0 =< e[i]
  <2> SUFFICES ASSUME NEW i \in 0 .. n PROVE e[i] \in Int /\ 0 =< e[i]
    OBVIOUS
  <2>1. CASE i = 0  BY <1>8, <2>1
  <2>2. CASE i # 0
    <3>1. PICK o \in DOMAIN leafs : o = s[i] /\ e[i] = g.hi[o]  BY <1>3, <1>7, <2>2
    <3> QED BY <1>4, <3>1 DEF Disjoint
  <2> QED BY <2>1, <2>2
<1>10. ASSUME NEW i \in 1 .. n PROVE g.lo[s[i]] = e[i - 1] /\ g.hi[s[i]] = e[i]
  <2>1. g.hi[s[i]] = e[i]  BY <1>7
  <2>2. CASE i = 1  BY <1>2, <1>7, <2>1, <2>2 DEF Tiles
  <2>3. CASE i # 1
    <3>1. PICK j \in 1 .. n - 1 : i = j + 1 /\ i - 1 = j
      <4>1. i - 1 \in 1 .. n - 1 /\ i = (i - 1) + 1  BY <2>3
      <4> QED BY <4>1
    <3>2. g.hi[s[j]] = g.lo[s[j + 1]]  BY <1>2, <1>3 DEF Tiles
    <3>3. e[j] = g.hi[s[j]]  BY <1>7
    <3> QED BY <2>1, <3>1, <3>2, <3>3
  <2> QED BY <2>2, <2>3
<1>11. ASSUME NEW i \in 1 .. n
       PROVE  /\ e[0] =< e[i - 1] /\ e[i - 1] =< e[i]
              /\ ss[i] \in Seq(Record) /\ Sorted(ss[i], e[i - 1], e[i])
  <2>1. PICK o \in DOMAIN leafs : o = s[i]  BY <1>3
  <2>2. leafs[o] \in Leaf /\ LeafSorted(leafs[o], g.lo[o], g.hi[o])  BY DEF Tree, Leaves
  <2>3. Sorted(ss[i], e[i - 1], e[i])
    BY <1>6, <1>10, <2>1, <2>2 DEF Sorted, LeafSorted
  <2>4. ss[i] \in Seq(Record)  BY <1>6, <2>1, <2>2 DEF Leaf
  <2>5. g.lo[o] < g.hi[o] /\ g.lo[o] \in Int /\ g.hi[o] \in Int /\ 0 =< g.lo[o]
    BY <1>4 DEF Disjoint
  <2>6. e[0] =< e[i - 1] /\ e[i - 1] =< e[i]  BY <1>8, <1>10, <2>1, <2>5
  <2> QED BY <2>3, <2>4, <2>6
<1>12. PICK z : z = FlattenSeq(ss)  OBVIOUS
<1>13. /\ z \in Seq(Record) /\ Sorted(z, 0, KeyMod)
       /\ \A r : Occurs(z, r) <=> \E i \in 1 .. n : Occurs(ss[i], r)
  <2>1. \A i \in 0 .. n : e[i] \in Int  BY <1>9
  <2>2. /\ z \in Seq(Record) /\ Sorted(z, e[0], e[n])
        /\ \A r : Occurs(z, r) <=> \E i \in 1 .. n : Occurs(ss[i], r)
    BY <1>3, <1>6, <1>11, <1>12, <2>1, FlattenSorted
  <2> QED BY <1>8, <2>2
<1>14. DOMAIN stored \subseteq Keys
       /\ \A o \in DOMAIN leafs : \A q, w : Has(leafs[o], q, w)
              <=> q \in DOMAIN stored /\ w = stored[q] /\ g.lo[o] =< q /\ q < g.hi[o]
  BY DEF Tree, Keeps
<1>15. ASSUME NEW q, NEW w
       PROVE  Occurs(z, [key |-> q, value |-> w])
                <=> q \in DOMAIN stored /\ w = stored[q] /\ 0 =< q /\ q =< KeyMod
  <2>1. \A i \in 1 .. n : Occurs(ss[i], [key |-> q, value |-> w]) <=> Has(leafs[s[i]], q, w)
    BY <1>6 DEF Occurs, Has
  <2>2. ASSUME Occurs(z, [key |-> q, value |-> w])
        PROVE  q \in DOMAIN stored /\ w = stored[q]
    <3>1. PICK i \in 1 .. n : Has(leafs[s[i]], q, w)  BY <1>13, <2>1, <2>2
    <3> QED BY <1>3, <1>14, <3>1
  <2>3. ASSUME q \in DOMAIN stored, w = stored[q]
        PROVE  Occurs(z, [key |-> q, value |-> w]) /\ 0 =< q /\ q =< KeyMod
    <3>1. q \in Int /\ 0 =< q /\ q < KeyMod /\ KeyMod \in Int  BY <1>14, <2>3, KeyBounds
    <3>2. \A c \in DOMAIN leafs : g.lo[c] \in Int /\ g.hi[c] \in Int  BY <1>4 DEF Disjoint
    <3>3. PICK i \in 1 .. n : g.lo[s[i]] =< q /\ q < g.hi[s[i]]
      <4>1. 0 \in Int  OBVIOUS
      <4> QED BY <1>2, <1>3, <3>1, <3>2, <4>1, TilesCover
    <3>4. Has(leafs[s[i]], q, w)  BY <1>3, <1>14, <2>3, <3>3
    <3> QED BY <1>13, <2>1, <3>1, <3>4
  <2> QED BY <2>2, <2>3
<1>16. z = Stored(0, KeyMod)  BY <1>13, <1>14, <1>15, StoredIs
<1>17. Records(s) = z  BY <1>3, <1>5, <1>12 DEF Records
<1> QED BY <1>1, <1>16, <1>17

\* The chain of leaves lists exactly the stored records in the order of their
\* keys, and backwards it is the same chain, also while an insertion that split
\* a leaf is still on its way up: node_create links the new leaf in between.
THEOREM ChainListsStored ==
    ASSUME KeysNear
    PROVE  Spec /\ [][~ Underflow]_vars => []ChainIsMap
<1>1. InOrder => ChainIsMap
  <2> SUFFICES ASSUME InOrder PROVE ChainIsMap
    OBVIOUS
  <2>1. PICK g, X : Tree(nodes, leafs, meta, stored, g, X)
    <3>1. Rests(nodes, leafs, meta, stored) \/ Climbs(nodes, leafs, meta, stored, arg)
      BY DEF InOrder
    <3> QED BY <3>1 DEF Rests, Climbs
  <2>2. Records(Chain) = Stored(0, KeyMod)  BY <2>1, ChainLists
  <2>3. \A i \in DOMAIN Chain : leafs[Chain[i]].prev = IF i = 1 THEN 0 ELSE Chain[i - 1]
    BY <2>1, ChainBack
  <2> QED BY <2>2, <2>3 DEF ChainIsMap
<1> QED BY <1>1, StaysInOrder, PTL

-----------------------------------------------------------------------------
(* How many blocks there are, and how full they are.                       *)

\* The meta block counts the blocks, and the next block is the first unused.
Counted(N, F, M) ==
    /\ IsFiniteSet(DOMAIN N) /\ M.internal_node_num = Cardinality(DOMAIN N)
    /\ IsFiniteSet(DOMAIN F) /\ M.leaf_node_num = Cardinality(DOMAIN F)
    /\ M.slot = 1 + M.internal_node_num + M.leaf_node_num

\* No block is overfull, and none but the root or an only leaf less than half
\* full.
Filled(N, F, M) ==
    /\ \A o \in DOMAIN F :
          /\ Len(F[o].recs) \in 0 .. Order
          /\ M.leaf_node_num # 1 => Order \div 2 =< Len(F[o].recs)
    /\ \A o \in DOMAIN N :
          /\ Len(N[o].kids) \in 1 .. Order
          /\ o # M.root_offset => Order \div 2 =< Len(N[o].kids)

\* Leaves name a node as their parent.
Homed(N, F) == \A o \in DOMAIN F : F[o].parent \in DOMAIN N

\* The three together.
Kept(N, F, M) == Counted(N, F, M) /\ Filled(N, F, M) /\ Homed(N, F)

\* What is in the constructor's tree.
LEMMA EmptyKept == Kept(EmptyNodes, EmptyLeafs, EmptyMeta)
<1>1. PICK N : N = EmptyNodes  OBVIOUS
<1>2. PICK F : F = EmptyLeafs  OBVIOUS
<1>3. PICK M : M = EmptyMeta  OBVIOUS
<1>4. DOMAIN N = {1} /\ N[1].kids = <<2>>  BY <1>1 DEF EmptyNodes
<1>5. DOMAIN F = {2} /\ F[2].recs = << >> /\ F[2].parent = 1  BY <1>2 DEF EmptyLeafs
<1>6. /\ M.internal_node_num = 1 /\ M.leaf_node_num = 1 /\ M.slot = 3
      /\ M.root_offset = 1
  BY <1>3 DEF EmptyMeta
<1>7. Counted(N, F, M)
  <2>1. IsFiniteSet(DOMAIN N) /\ Cardinality(DOMAIN N) = 1  BY <1>4, FS_Singleton
  <2>2. IsFiniteSet(DOMAIN F) /\ Cardinality(DOMAIN F) = 1  BY <1>5, FS_Singleton
  <2>3. M.slot = 1 + M.internal_node_num + M.leaf_node_num  BY <1>6
  <2> QED BY <1>6, <2>1, <2>2, <2>3 DEF Counted
<1>8. PICK m \in Nat : m >= 2 /\ Order = 2 * m  BY Half
<1>9. Len(N[1].kids) = 1 /\ Len(F[2].recs) = 0  BY <1>4, <1>5
<1>10. Filled(N, F, M)
  <2>1. 0 \in 0 .. Order /\ 1 \in 1 .. Order  BY <1>8
  <2>2. \A o \in DOMAIN F : Len(F[o].recs) \in 0 .. Order  BY <1>5, <1>9, <2>1
  <2>3. \A o \in DOMAIN N : Len(N[o].kids) \in 1 .. Order /\ o = M.root_offset
    BY <1>4, <1>6, <1>9, <2>1
  <2> QED BY <1>6, <2>2, <2>3 DEF Filled
<1>11. Homed(N, F)  BY <1>4, <1>5 DEF Homed
<1> QED BY <1>1, <1>2, <1>3, <1>7, <1>10, <1>11 DEF Kept

\* A leaf has got other records.
LEMMA LeafKept ==
    ASSUME NEW N, NEW F, NEW M, Kept(N, F, M), NEW o \in DOMAIN F,
           NEW y, SamePlace(y, F[o]), Len(y.recs) \in 0 .. Order,
           M.leaf_node_num # 1 => Order \div 2 =< Len(y.recs),
           NEW F2, F2 = [F EXCEPT ![o] = y]
    PROVE  Kept(N, F2, M)
<1>1. DOMAIN F2 = DOMAIN F /\ F2[o] = y /\ \A c \in DOMAIN F : c # o => F2[c] = F[c]
  OBVIOUS
<1>2. Counted(N, F2, M)  BY <1>1 DEF Kept, Counted
<1>3. Filled(N, F2, M)  BY <1>1 DEF Kept, Filled
<1>4. Homed(N, F2)  BY <1>1 DEF Kept, Homed, SamePlace
<1> QED BY <1>2, <1>3, <1>4 DEF Kept

\* A leaf has been split.
LEMMA LeafSplitKept ==
    ASSUME NEW N, NEW F, NEW M, Kept(N, F, M), NEW o \in DOMAIN F,
           NEW new, new \notin DOMAIN F, NEW y, NEW z, NEW F2, LeafCreated(F2, F, o, new, y, z),
           Len(y.recs) = (Order \div 2) + 1, Len(z.recs) = Order \div 2,
           NEW M2, M2.root_offset = M.root_offset, M2.slot = M.slot + 1,
           M2.leaf_node_num = M.leaf_node_num + 1,
           M2.internal_node_num = M.internal_node_num
    PROVE  Kept(N, F2, M2)
<1>1. PICK m \in Nat : m >= 2 /\ Order = 2 * m /\ Order \div 2 = m  BY Half
<1>2. /\ DOMAIN F2 = DOMAIN F \cup {new}
      /\ F2[o].recs = y.recs /\ F2[o].parent = F[o].parent
      /\ F2[new].recs = z.recs /\ F2[new].parent = F[o].parent
      /\ \A c \in DOMAIN F : c # o => F2[c].recs = F[c].recs /\ F2[c].parent = F[c].parent
  BY DEF LeafCreated
<1>3. /\ IsFiniteSet(DOMAIN F) /\ Cardinality(DOMAIN F) \in Nat
      /\ M.leaf_node_num = Cardinality(DOMAIN F)
      /\ IsFiniteSet(DOMAIN N) /\ M.internal_node_num = Cardinality(DOMAIN N)
      /\ Cardinality(DOMAIN N) \in Nat
      /\ M.slot = 1 + M.internal_node_num + M.leaf_node_num
  BY FS_CardinalityType DEF Kept, Counted
<1>4. IsFiniteSet(DOMAIN F2) /\ Cardinality(DOMAIN F2) = Cardinality(DOMAIN F) + 1
  BY <1>2, <1>3, FS_AddElement
<1>5. Counted(N, F2, M2)  BY <1>3, <1>4 DEF Counted
<1>6. ASSUME NEW c \in DOMAIN F, c # o
      PROVE  Len(F[c].recs) \in 0 .. Order /\ Order \div 2 =< Len(F[c].recs)
  <2>1. M.leaf_node_num # 1
    <3> SUFFICES ASSUME Cardinality(DOMAIN F) = 1 PROVE FALSE
      BY <1>3
    <3>1. PICK x : DOMAIN F = {x}  BY <1>3, FS_Singleton
    <3> QED BY <1>6, <3>1
  <2> QED BY <2>1 DEF Kept, Filled
<1>7. ASSUME NEW c \in DOMAIN F2
      PROVE  Len(F2[c].recs) \in 0 .. Order /\ Order \div 2 =< Len(F2[c].recs)
  <2>1. CASE c = o  BY <1>1, <1>2, <2>1
  <2>2. CASE c = new  BY <1>1, <1>2, <2>2
  <2>3. CASE c # o /\ c # new  BY <1>2, <1>6, <2>3
  <2> QED BY <2>1, <2>2, <2>3
<1>8. Filled(N, F2, M2)  BY <1>7 DEF Kept, Filled
<1>9. Homed(N, F2)  BY <1>2 DEF Kept, Homed
<1> QED BY <1>5, <1>8, <1>9 DEF Kept

\* A node has got a child more.
LEMMA KeyKept ==
    ASSUME NEW N, NEW F, NEW M, Kept(N, F, M), NEW i \in DOMAIN N,
           NEW y, Len(y.kids) = Len(N[i].kids) + 1, Len(N[i].kids) < Order,
           NEW N2, N2 = [N EXCEPT ![i] = y]
    PROVE  Kept(N2, F, M)
<1>1. DOMAIN N2 = DOMAIN N /\ N2[i] = y /\ \A c \in DOMAIN N : c # i => N2[c] = N[c]
  OBVIOUS
<1>2. Counted(N2, F, M)  BY <1>1 DEF Kept, Counted
<1>3. PICK m \in Nat : Order = 2 * m /\ Order \div 2 = m  BY Half
<1>4. Len(y.kids) \in 1 .. Order /\ (i # M.root_offset => Order \div 2 =< Len(y.kids))
  BY <1>3 DEF Kept, Filled
<1>5. Filled(N2, F, M)  BY <1>1, <1>4 DEF Kept, Filled
<1>6. Homed(N2, F)  BY <1>1 DEF Kept, Homed
<1> QED BY <1>2, <1>5, <1>6 DEF Kept

\* There is a new root.
LEMMA RootKept ==
    ASSUME NEW N, NEW F, NEW M, Kept(N, F, M), \A c \in DOMAIN N : N[c] \in Node,
           NEW root, root \notin DOMAIN N, NEW k, NEW old, NEW after,
           old = M.root_offset, old \in DOMAIN N, Order \div 2 =< Len(N[old].kids),
           NEW N2, RootCreated(N2, N, root, k, old, after),
           NEW M2, M2.root_offset = root, M2.slot = M.slot + 1,
           M2.leaf_node_num = M.leaf_node_num,
           M2.internal_node_num = M.internal_node_num + 1
    PROVE  Kept(N2, F, M2)
<1>1. PICK m \in Nat : m >= 2 /\ Order = 2 * m /\ Order \div 2 = m  BY Half
<1>2. DOMAIN N2 = DOMAIN N \cup {root}  BY DEF RootCreated
<1>3. Len(N2[root].kids) = 2
  <2>1. N2[root].kids = <<old, after>>  BY DEF RootCreated
  <2> QED BY <2>1
<1>4. ASSUME NEW c \in DOMAIN N PROVE N2[c].kids = N[c].kids
  <2>1. N2[c] = N[c] \/ N2[c] = [N[c] EXCEPT !.parent = root]  BY DEF RootCreated
  <2>2. N[c] \in Node  OBVIOUS
  <2> QED BY <2>1, <2>2 DEF Node
<1>5. /\ IsFiniteSet(DOMAIN N) /\ Cardinality(DOMAIN N) \in Nat
      /\ M.internal_node_num = Cardinality(DOMAIN N)
      /\ IsFiniteSet(DOMAIN F) /\ M.leaf_node_num = Cardinality(DOMAIN F)
      /\ Cardinality(DOMAIN F) \in Nat
      /\ M.slot = 1 + M.internal_node_num + M.leaf_node_num
  BY FS_CardinalityType DEF Kept, Counted
<1>6. IsFiniteSet(DOMAIN N2) /\ Cardinality(DOMAIN N2) = Cardinality(DOMAIN N) + 1
  BY <1>2, <1>5, FS_AddElement
<1>7. Counted(N2, F, M2)  BY <1>5, <1>6 DEF Counted
<1>8. ASSUME NEW c \in DOMAIN N2
      PROVE  Len(N2[c].kids) \in 1 .. Order /\ (c # root => Order \div 2 =< Len(N2[c].kids))
  <2>1. CASE c = root
    <3>1. Len(N2[c].kids) = 2  BY <1>3, <2>1
    <3>2. 2 \in 1 .. Order  BY <1>1
    <3> QED BY <2>1, <3>1, <3>2
  <2>2. CASE c # root
    <3>1. c \in DOMAIN N /\ N2[c].kids = N[c].kids  BY <1>2, <1>4, <2>2
    <3>2. Len(N[c].kids) \in 1 .. Order /\ Order \div 2 =< Len(N[c].kids)
      BY <3>1 DEF Kept, Filled
    <3> QED BY <3>1, <3>2
  <2> QED BY <2>1, <2>2
<1>9. Filled(N2, F, M2)  BY <1>8 DEF Kept, Filled
<1>10. Homed(N2, F)  BY <1>2 DEF Kept, Homed
<1> QED BY <1>7, <1>9, <1>10 DEF Kept

\* A node has been split.
LEMMA NodeSplitKept ==
    ASSUME NEW N, NEW F, NEW M, Kept(N, F, M), NEW o \in DOMAIN N,
           NEW new, new \notin DOMAIN N, NEW y, NEW z, NEW N2, NodesSplit(N2, N, o, new, y, z),
           Len(y.kids) \in {Order \div 2, (Order \div 2) + 1},
           Len(z.kids) \in {Order \div 2, (Order \div 2) + 1},
           NEW F2, LeafsMoved(F2, F, new, z),
           NEW M2, M2.root_offset = M.root_offset, M2.slot = M.slot + 1,
           M2.leaf_node_num = M.leaf_node_num,
           M2.internal_node_num = M.internal_node_num + 1
    PROVE  Kept(N2, F2, M2)
<1>1. PICK m \in Nat : m >= 2 /\ Order = 2 * m /\ Order \div 2 = m  BY Half
<1>2. /\ DOMAIN N2 = DOMAIN N \cup {new}
      /\ N2[o].kids = y.kids /\ N2[new].kids = z.kids
      /\ \A c \in DOMAIN N : c # o => N2[c].kids = N[c].kids
  BY DEF NodesSplit
<1>3. /\ DOMAIN F2 = DOMAIN F
      /\ \A c \in DOMAIN F : F2[c].recs = F[c].recs
                             /\ (F2[c].parent = new \/ F2[c].parent = F[c].parent)
  BY DEF LeafsMoved
<1>4. /\ IsFiniteSet(DOMAIN N) /\ Cardinality(DOMAIN N) \in Nat
      /\ M.internal_node_num = Cardinality(DOMAIN N)
      /\ IsFiniteSet(DOMAIN F) /\ M.leaf_node_num = Cardinality(DOMAIN F)
      /\ Cardinality(DOMAIN F) \in Nat
      /\ M.slot = 1 + M.internal_node_num + M.leaf_node_num
  BY FS_CardinalityType DEF Kept, Counted
<1>5. IsFiniteSet(DOMAIN N2) /\ Cardinality(DOMAIN N2) = Cardinality(DOMAIN N) + 1
  BY <1>2, <1>4, FS_AddElement
<1>6. Counted(N2, F2, M2)  BY <1>3, <1>4, <1>5 DEF Counted
<1>7. ASSUME NEW c \in DOMAIN N2
      PROVE  /\ Len(N2[c].kids) \in 1 .. Order
             /\ c # M.root_offset => Order \div 2 =< Len(N2[c].kids)
  <2>1. CASE c = o  BY <1>1, <1>2, <2>1
  <2>2. CASE c = new  BY <1>1, <1>2, <2>2
  <2>3. CASE c # o /\ c # new
    <3>1. c \in DOMAIN N /\ N2[c].kids = N[c].kids  BY <1>2, <2>3
    <3> QED BY <3>1 DEF Kept, Filled
  <2> QED BY <2>1, <2>2, <2>3
<1>8. Filled(N2, F2, M2)  BY <1>3, <1>7 DEF Kept, Filled
<1>9. Homed(N2, F2)  BY <1>2, <1>3 DEF Kept, Homed
<1> QED BY <1>6, <1>8, <1>9 DEF Kept

-----------------------------------------------------------------------------
(* The blocks stay counted and filled.                                     *)

\* An insertion that is to go above the root has split the root in halves.
RootHalved(N, a) == a.node = 0 => Order \div 2 =< Len(N[a.old].kids)

\* The invariant of the counts and the sizes, beside InOrder.
Measured ==
    /\ Kept(nodes, leafs, meta)
    /\ pc # "idle" => RootHalved(nodes, arg)

\* Calls that leave the tree at rest.
LEMMA CallKept ==
    ASSUME KeysNear, InOrder, Measured, pc = "idle", NEW k \in Keys,
           \/ \E v \in Values : InsertRecord(k, v)
           \/ \E v \in Values : Update(k, v)
           \/ RemoveRecord(k)
    PROVE  Kept(nodes, leafs', meta)
<1>1. PICK g : SettledTree(g)  BY DEF InOrder, Rests, SettledTree
<1>2. Kept(nodes, leafs, meta)  BY DEF Measured
<1>3. PICK o : o = search_leaf(k)  OBVIOUS
<1>4. PICK x : x = leafs[o]  OBVIOUS
<1>5. PICK l, h : l = g.lo[o] /\ h = g.hi[o]  OBVIOUS
<1>6. PICK F2 : F2 = leafs'  OBVIOUS
<1>7. /\ o \in DOMAIN leafs /\ x \in Leaf /\ LeafSorted(x, l, h)
      /\ l \in Int /\ h \in Int /\ l =< k /\ k < h
      /\ Agrees(x, stored, l, h) /\ (Absent(k) <=> k \notin DOMAIN stored)
  BY <1>1, <1>3, <1>4, <1>5, LeafAround
<1>8. /\ Len(x.recs) \in 0 .. Order
      /\ meta.leaf_node_num # 1 => Order \div 2 =< Len(x.recs)
  BY <1>2, <1>4, <1>7 DEF Kept, Filled
<1>9. PICK m \in Nat : Order = 2 * m /\ Order \div 2 = m  BY Half
<1>10. ASSUME NEW v \in Values, InsertRecord(k, v) PROVE Kept(nodes, leafs', meta)
  <2>1. PICK y : y = insert_record_no_split(x, k, v)  OBVIOUS
  <2>2. F2 = [leafs EXCEPT ![o] = y] /\ Len(x.recs) < Order /\ Absent(k)
    BY <1>3, <1>4, <1>6, <1>10, <2>1 DEF InsertRecord
  <2>3. Lacks(x, k)  BY <1>7, <2>2 DEF Lacks, Agrees
  <2>4. SamePlace(y, x) /\ Len(y.recs) = Len(x.recs) + 1
    <3>1. IsWith(y, x, k, v, l, h)  BY <1>7, <2>1, <2>3, InsertRecordIs
    <3> QED BY <3>1 DEF IsWith
  <2>5. /\ Len(y.recs) \in 0 .. Order
        /\ meta.leaf_node_num # 1 => Order \div 2 =< Len(y.recs)
    BY <1>8, <1>9, <2>2, <2>4
  <2>6. Kept(nodes, F2, meta)  BY <1>2, <1>4, <1>7, <2>2, <2>4, <2>5, LeafKept
  <2> QED BY <1>6, <2>6
<1>11. ASSUME NEW v \in Values, Update(k, v) PROVE Kept(nodes, leafs', meta)
  <2>1. PICK i : i = lower_bound(RecordKeys(x), k) + 1  OBVIOUS
  <2>2. PICK y : y = [x EXCEPT !.recs[i].value = v]  OBVIOUS
  <2>3. i \in DOMAIN x.recs /\ keycmp(k, x.recs[i].key) = 0
    BY <1>3, <1>4, <1>11, <2>1 DEF Update
  <2>4. F2 = [leafs EXCEPT ![o].recs[i].value = v]
    BY <1>3, <1>4, <1>6, <1>11, <2>1 DEF Update
  <2>5. F2 = [leafs EXCEPT ![o] = y]  BY <1>4, <2>2, <2>4
  <2>6. SamePlace(y, x) /\ Len(y.recs) = Len(x.recs)
    BY <1>7, <2>1, <2>2, <2>3, UpdateIs
  <2>7. Kept(nodes, F2, meta)  BY <1>2, <1>4, <1>7, <1>8, <2>5, <2>6, LeafKept
  <2> QED BY <1>6, <2>7
<1>12. CASE RemoveRecord(k)
  <2>1. PICK y : y = WithoutKey(x, k)  OBVIOUS
  <2>2. F2 = [leafs EXCEPT ![o] = y] /\ Len(y.recs) >= LeafMin
    BY <1>3, <1>4, <1>6, <1>12, <2>1 DEF RemoveRecord
  <2>3. Holds(x, k)  BY <1>3, <1>4, <1>12 DEF RemoveRecord, Removes, Absent
  <2>4. y \in Leaf /\ SamePlace(y, x) /\ Len(y.recs) = Len(x.recs) - 1
    <3>1. IsWithout(y, x, k, l, h) /\ Len(y.recs) = Len(x.recs) - 1
      BY <1>7, <2>1, <2>3, WithoutKeyIs
    <3> QED BY <3>1 DEF IsWithout
  <2>5. Len(y.recs) \in Nat  BY <2>4 DEF Leaf
  <2>6. /\ Len(y.recs) \in 0 .. Order
        /\ meta.leaf_node_num # 1 => Order \div 2 =< Len(y.recs)
    BY <1>8, <1>9, <2>2, <2>4, <2>5 DEF LeafMin
  <2>7. Kept(nodes, F2, meta)  BY <1>2, <1>4, <1>7, <2>2, <2>4, <2>6, LeafKept
  <2> QED BY <1>6, <2>7
<1> QED BY <1>10, <1>11, <1>12

\* A leaf split keeps them, and a node's new child, a new root and a node split.
LEMMA StepKept ==
    ASSUME KeysNear, InOrder, Measured,
           \/ \E k \in Keys, v \in Values : InsertSplit(k, v)
           \/ IndexKey \/ IndexRoot \/ IndexSplit
    PROVE  Kept(nodes', leafs', meta') /\ (pc' # "idle" => RootHalved(nodes', arg'))
<1>1. Kept(nodes, leafs, meta) /\ meta \in Meta  BY DEF Measured, InOrder
<1>2. PICK N2, F2, M2, a2 : N2 = nodes' /\ F2 = leafs' /\ M2 = meta' /\ a2 = arg'
  OBVIOUS
<1>3. ASSUME NEW k \in Keys, NEW v \in Values, InsertSplit(k, v)
      PROVE  Kept(N2, F2, M2) /\ RootHalved(N2, a2)
  <2>1. pc = "idle" /\ N2 = nodes  BY <1>2, <1>3 DEF InsertSplit, Calls
  <2>2. PICK g : SettledTree(g)  BY <2>1 DEF InOrder, Rests, SettledTree
  <2>3. PICK o, y, z : SplitsLeaf(g, k, v, o, y, z)  BY <1>3, <2>2, InsertSplitIs
  <2>4. Tree(nodes, leafs, meta, stored, g, {})  BY <2>2 DEF SettledTree
  <2>5. meta.slot \notin DOMAIN leafs /\ 0 \notin DOMAIN nodes
    <3>1. Placed(nodes, leafs, meta)  BY <2>4 DEF Tree
    <3>2. 0 \notin 1 .. meta.slot - 1  BY <3>1 DEF Placed
    <3>3. 0 \notin DOMAIN nodes  BY <3>1, <3>2 DEF Placed, Blocks
    <3> QED BY <3>1, <3>3, BlockIs
  <2>6. M2 = [meta EXCEPT !.slot = @ + 1, !.leaf_node_num = @ + 1]
    BY <1>2, <1>3 DEF InsertSplit
  <2>7. /\ M2.root_offset = meta.root_offset /\ M2.slot = meta.slot + 1
        /\ M2.leaf_node_num = meta.leaf_node_num + 1
        /\ M2.internal_node_num = meta.internal_node_num
    BY <1>1, <2>6 DEF Meta
  <2>8. /\ o \in DOMAIN leafs /\ LeafCreated(F2, leafs, o, meta.slot, y, z)
        /\ Len(y.recs) = (Order \div 2) + 1 /\ Len(z.recs) = Order \div 2
    BY <1>2, <2>3 DEF SplitsLeaf, Halved
  <2>9. Kept(nodes, F2, M2)  BY <1>1, <2>5, <2>7, <2>8, LeafSplitKept
  <2>10. a2.node \in DOMAIN nodes  BY <1>2, <2>3 DEF SplitsLeaf
  <2>11. RootHalved(N2, a2)  BY <2>5, <2>10 DEF RootHalved
  <2> QED BY <2>1, <2>9, <2>11
<1>4. ASSUME pc # "idle"
      PROVE  \E g, a : /\ a = arg /\ Tree(nodes, leafs, meta, stored, g, {a.after})
                       /\ Pending(nodes, leafs, meta, g, a) /\ RootHalved(nodes, a)
  BY <1>4 DEF InOrder, Climbs, Measured
<1>5. CASE IndexKey
  <2>1. /\ pc # "idle" /\ pc' = "idle" /\ F2 = leafs /\ M2 = meta
        /\ arg.node # 0 /\ Len(nodes[arg.node].kids) < Order
    BY <1>2, <1>5 DEF IndexKey
  <2>2. PICK g, a : /\ a = arg /\ Tree(nodes, leafs, meta, stored, g, {a.after})
                    /\ Pending(nodes, leafs, meta, g, a)
    BY <1>4, <2>1
  <2>3. PICK i : i = a.node /\ i # 0 /\ Len(nodes[i].kids) < Order  BY <2>1, <2>2
  <2>4. /\ i \in DOMAIN nodes
        /\ Leads(nodes, g, i, a.old, g.lo[a.old], g.hi[a.after])
        /\ g.lo[a.old] < a.key /\ a.key < g.hi[a.after] /\ a.after \in Nat
    BY <2>2, <2>3, ClimbFacts
  <2>5. PICK x : x = nodes[i]  OBVIOUS
  <2>6. x \in Node /\ NodeSorted(x, g.lo[i], g.hi[i])
    BY <2>2, <2>4, <2>5 DEF Tree, Nodes
  <2>7. PICK y : y = insert_key_to_index_no_split(x, a.key, a.after)  OBVIOUS
  <2>8. N2 = [nodes EXCEPT ![i] = y]
    BY <1>2, <1>5, <2>2, <2>3, <2>5, <2>7 DEF IndexKey
  <2>9. Len(y.kids) = Len(x.kids) + 1
    <3>1. a.key \in Keys  BY <2>2 DEF Pending
    <3>2. IsNodeWith(y, x, g.lo[i], g.hi[i], a.old, a.after, g.lo[a.old], a.key,
                     g.hi[a.after])
      BY <2>4, <2>5, <2>6, <2>7, <3>1, InsertKeyIs DEF Leads
    <3> QED BY <3>2 DEF IsNodeWith
  <2>10. Kept(N2, leafs, meta)  BY <1>1, <2>3, <2>4, <2>5, <2>8, <2>9, KeyKept
  <2> QED BY <1>2, <2>1, <2>10
<1>6. CASE IndexRoot
  <2>1. pc # "idle" /\ pc' = "idle" /\ arg.node = 0  BY <1>6 DEF IndexRoot
  <2>2. PICK g, a : /\ a = arg /\ Tree(nodes, leafs, meta, stored, g, {a.after})
                    /\ Pending(nodes, leafs, meta, g, a) /\ RootHalved(nodes, a)
    BY <1>4, <2>1
  <2>3. a.node = 0 /\ Climbs(nodes, leafs, meta, stored, a)
    BY <2>1, <2>2 DEF Climbs
  <2>4. F2 = leafs
    BY <1>1, <1>2, <1>6, <2>2, <2>3, IndexRootRests DEF InOrder
  <2>5. meta.slot \notin DOMAIN nodes  BY <2>3, RootHalves
  <2>6. RootCreated(N2, nodes, meta.slot, a.key, a.old, a.after)
    <3>1. N2 = Extend(Reparent(nodes, <<a.old, a.after>>, meta.slot), meta.slot,
                      [parent |-> 0, next |-> 0, prev |-> 0,
                       keys |-> <<a.key, Garbage>>, kids |-> <<a.old, a.after>>])
      BY <1>2, <1>6, <2>2 DEF IndexRoot
    <3> QED BY <2>5, <3>1, RootCreateIs
  <2>7. M2 = [meta EXCEPT !.root_offset = meta.slot, !.height = @ + 1,
                          !.slot = @ + 1, !.internal_node_num = @ + 1]
    BY <1>2, <1>6 DEF IndexRoot
  <2>8. /\ M2.root_offset = meta.slot /\ M2.slot = meta.slot + 1
        /\ M2.leaf_node_num = meta.leaf_node_num
        /\ M2.internal_node_num = meta.internal_node_num + 1
    BY <1>1, <2>7 DEF Meta
  <2>9. a.old = meta.root_offset /\ a.old \in DOMAIN nodes
    <3>1. 0 \notin DOMAIN nodes
      <4>1. 0 \notin 1 .. meta.slot - 1  BY <2>2 DEF Tree, Placed
      <4> QED BY <2>2, <4>1 DEF Tree, Placed, Blocks
    <3>2. a.old = meta.root_offset  BY <2>2, <2>3, <3>1 DEF Pending
    <3> QED BY <2>2, <3>2 DEF Tree, Rooted
  <2>10. Order \div 2 =< Len(nodes[a.old].kids)  BY <2>2, <2>3 DEF RootHalved
  <2>11. \A c \in DOMAIN nodes : nodes[c] \in Node  BY <2>2 DEF Tree, Nodes
  <2>12. Kept(N2, leafs, M2)
    BY <1>1, <2>5, <2>6, <2>8, <2>9, <2>10, <2>11, RootKept
  <2> QED BY <1>2, <2>1, <2>4, <2>12
<1>7. CASE IndexSplit
  <2>1. pc # "idle"  BY <1>7 DEF IndexSplit
  <2>2. PICK g, a : /\ a = arg /\ Tree(nodes, leafs, meta, stored, g, {a.after})
                    /\ Pending(nodes, leafs, meta, g, a)
    BY <1>4, <2>1
  <2>3. PICK i, y, z, p : SplitsNode(g, a, i, y, z, p)  BY <1>7, <2>2, IndexSplitIs
  <2>4. /\ i \in DOMAIN nodes /\ NodesSplit(N2, nodes, i, meta.slot, y, z)
        /\ LeafsMoved(F2, leafs, meta.slot, z) /\ a2.old = i
        /\ Len(y.kids) \in {Order \div 2, (Order \div 2) + 1}
        /\ Len(z.kids) \in {Order \div 2, (Order \div 2) + 1}
    BY <1>2, <2>3 DEF SplitsNode, NodeHalved
  <2>5. meta.slot \notin DOMAIN nodes  BY <2>2, BlockIs DEF Tree
  <2>6. M2 = [meta EXCEPT !.slot = @ + 1, !.internal_node_num = @ + 1]
    BY <1>2, <1>7 DEF IndexSplit
  <2>7. /\ M2.root_offset = meta.root_offset /\ M2.slot = meta.slot + 1
        /\ M2.leaf_node_num = meta.leaf_node_num
        /\ M2.internal_node_num = meta.internal_node_num + 1
    BY <1>1, <2>6 DEF Meta
  <2>8. Kept(N2, F2, M2)  BY <1>1, <2>4, <2>5, <2>7, NodeSplitKept
  <2>9. RootHalved(N2, a2)
    <3>1. N2[i].kids = y.kids  BY <2>4 DEF NodesSplit
    <3>2. PICK m \in Nat : Order \div 2 = m  BY Half
    <3> QED BY <2>4, <3>1, <3>2 DEF RootHalved
  <2> QED BY <1>2, <2>8, <2>9
<1> QED BY <1>2, <1>3, <1>5, <1>6, <1>7

\* Every step but a removal that underflows does.
LEMMA StepMeasured ==
    ASSUME KeysNear, InOrder, Measured, Next, ~ Underflow
    PROVE  Measured'
<1>1. SUFFICES Kept(nodes', leafs', meta') /\ (pc' # "idle" => RootHalved(nodes', arg'))
  BY DEF Measured
<1>2. CASE Call
  <2>1. ASSUME NEW k \in Keys, NEW v \in Values, InsertSplit(k, v)
        PROVE  Kept(nodes', leafs', meta') /\ (pc' # "idle" => RootHalved(nodes', arg'))
    BY <2>1, StepKept
  <2>2. ASSUME NEW k \in Keys, \/ \E v \in Values : InsertRecord(k, v)
                               \/ \E v \in Values : Update(k, v)
                               \/ RemoveRecord(k)
        PROVE  Kept(nodes', leafs', meta') /\ pc' = "idle"
    <3>1. pc = "idle" /\ pc' = "idle" /\ nodes' = nodes /\ meta' = meta
      BY <2>2 DEF InsertRecord, Update, RemoveRecord, Removes, Calls, Idle
    <3> QED BY <2>2, <3>1, CallKept
  <2>3. ASSUME Open PROVE Kept(nodes', leafs', meta') /\ pc' = "idle"
    <3>1. /\ pc' = "idle" /\ nodes' = EmptyNodes /\ leafs' = EmptyLeafs
          /\ meta' = EmptyMeta
      BY <2>3 DEF Open, Idle
    <3> QED BY <3>1, EmptyKept
  <2> QED BY <1>2, <2>1, <2>2, <2>3 DEF Call, Underflow
<1>3. CASE Climb
  <2>1. pc # "change_parent_child" /\ pc # "remove_from_index"  BY DEF InOrder
  <2>2. ~ ChangeKey /\ ~ ShrinkRoot /\ ~ ShrinkNode
    BY <2>1 DEF ChangeKey, ShrinkRoot, ShrinkNode
  <2>3. ~ NodeBorrowsLeft /\ ~ NodeBorrowsRight /\ ~ NodeMerges
    BY <2>1 DEF NodeBorrowsLeft, NodeBorrowsRight, NodeMerges, Underflows
  <2>4. IndexKey \/ IndexRoot \/ IndexSplit  BY <1>3, <2>2, <2>3 DEF Climb
  <2> QED BY <2>4, StepKept
<1> QED BY <1>2, <1>3 DEF Next

\* The tree stays in order, counted and filled.
LEMMA StaysMeasured ==
    ASSUME KeysNear
    PROVE  Spec /\ [][~ Underflow]_vars => [](InOrder /\ Measured)
<1>1. Init => Measured  BY EmptyKept DEF Init, Measured
<1>2. InOrder /\ Measured /\ [Next]_vars /\ [~ Underflow]_vars => Measured'
  <2> SUFFICES ASSUME InOrder, Measured, [Next]_vars, [~ Underflow]_vars PROVE Measured'
    OBVIOUS
  <2>1. CASE UNCHANGED vars  BY <2>1 DEF vars, Measured
  <2>2. CASE Next /\ ~ Underflow  BY <2>2, StepMeasured
  <2> QED BY <2>1, <2>2
<1> QED BY <1>1, <1>2, StaysInOrder, PTL DEF Spec

-----------------------------------------------------------------------------
(* What the tree, the counts and the blocks then are.                      *)

\* Such a sequence goes up and has no block twice.
LEMMA TilesAscend ==
    ASSUME NEW U, NEW g, Disjoint(U, g), NEW s \in Seq(U), NEW a, NEW b, Tiles(s, g, a, b)
    PROVE  \A i, j \in 1 .. Len(s) : i < j => g.hi[s[i]] =< g.lo[s[j]] /\ s[i] # s[j]
<1>1. PICK n \in Nat : n = Len(s) /\ n # 0 /\ \A i \in 1 .. n : s[i] \in U  BY DEF Tiles
<1>2. \A i \in 1 .. n : /\ g.lo[s[i]] \in Int /\ g.hi[s[i]] \in Int
                        /\ g.lo[s[i]] < g.hi[s[i]]
  BY <1>1 DEF Disjoint
<1> DEFINE D == {k \in Nat : k < n => \A i \in 1 .. k : g.hi[s[i]] =< g.lo[s[k + 1]]}
<1>3. 0 \in D  OBVIOUS
<1>4. ASSUME NEW k \in 0 .. n - 1, k \in D PROVE k + 1 \in D
  <2> SUFFICES ASSUME k + 1 < n, NEW i \in 1 .. k + 1
               PROVE  g.hi[s[i]] =< g.lo[s[k + 1 + 1]]
    OBVIOUS
  <2>1. k < n /\ k + 1 \in 1 .. n - 1 /\ k + 1 \in 1 .. n /\ k + 1 + 1 \in 1 .. n
    BY <1>1
  <2>2. g.hi[s[k + 1]] = g.lo[s[k + 1 + 1]]  BY <1>1, <2>1 DEF Tiles
  <2>3. CASE i = k + 1
    <3>1. g.hi[s[k + 1]] \in Int  BY <1>2, <2>1
    <3> QED BY <2>2, <2>3, <3>1
  <2>4. CASE i # k + 1
    <3>1. i \in 1 .. k /\ i \in 1 .. n  BY <1>1, <2>1, <2>4
    <3>2. g.hi[s[i]] =< g.lo[s[k + 1]]  BY <1>4, <2>1, <3>1
    <3> QED BY <1>2, <2>1, <2>2, <3>1, <3>2
  <2> QED BY <2>3, <2>4
<1>5. 0 .. n \subseteq D
  <2> HIDE DEF D
  <2> QED BY <1>3, <1>4, AllUpTo
<1>6. ASSUME NEW i \in 1 .. n, NEW j \in 1 .. n, i < j PROVE g.hi[s[i]] =< g.lo[s[j]]
  <2>1. PICK k \in 0 .. n : j = k + 1 /\ k < n
    <3>1. j - 1 \in 0 .. n /\ j = j - 1 + 1 /\ j - 1 < n  OBVIOUS
    <3> QED BY <3>1
  <2>2. k \in D
    <3> HIDE DEF D
    <3> QED BY <1>5
  <2>3. i \in 1 .. k  BY <1>6, <2>1
  <2> QED BY <2>1, <2>2, <2>3
<1>7. ASSUME NEW i \in 1 .. n, NEW j \in 1 .. n, i < j PROVE s[i] # s[j]
  BY <1>2, <1>6, <1>7
<1> QED BY <1>1, <1>6, <1>7

\* The chain has as many leaves as there are.
LEMMA ChainHasAll ==
    ASSUME NEW g, NEW X, Tree(nodes, leafs, meta, stored, g, X)
    PROVE  Range(Chain) = DOMAIN leafs /\ Len(Chain) = Cardinality(DOMAIN leafs)
<1>1. PICK s : s = Chain  OBVIOUS
<1>2. s \in Seq(DOMAIN leafs) /\ Tiles(s, g, 0, KeyMod)  BY <1>1, ChainTiles
<1>3. Disjoint(DOMAIN leafs, g)  BY LeafsDisjoint
<1>4. Range(s) = DOMAIN leafs  BY <1>2, <1>3, TilesAll
<1>5. \A i, j \in 1 .. Len(s) : i < j => s[i] # s[j]  BY <1>2, <1>3, TilesAscend
<1>6. Cardinality(Range(s)) = Len(s)  BY <1>2, <1>5, CountSeq
<1> QED BY <1>1, <1>4, <1>6

\* At rest, the leaves that the internal nodes lead to are those of the chain,
\* in the same order, and the meta block counts the blocks of both kinds, after
\* any splits of leaves, nodes and the root: as long as no removal leaves a
\* leaf less than half full.
THEOREM TreeFitsChain ==
    ASSUME KeysNear
    PROVE  Spec /\ [][~ Underflow]_vars => []TreeIsChain
<1>1. InOrder /\ Measured => TreeIsChain
  <2> SUFFICES ASSUME InOrder, Measured, pc = "idle"
               PROVE  /\ Level(0) = Chain
                      /\ meta.leaf_node_num = Len(Chain)
                      /\ meta.internal_node_num = Cardinality(Internals)
    BY DEF TreeIsChain
  <2>1. PICK g : SettledTree(g)  BY DEF InOrder, Rests, SettledTree
  <2>2. Tree(nodes, leafs, meta, stored, g, {})  BY <2>1 DEF SettledTree
  <2>3. Level(0) = Chain  BY <2>1, LevelIsChain
  <2>4. /\ meta.leaf_node_num = Cardinality(DOMAIN leafs)
        /\ meta.internal_node_num = Cardinality(DOMAIN nodes)
    BY DEF Measured, Kept, Counted
  <2>5. Len(Chain) = Cardinality(DOMAIN leafs)  BY <2>2, ChainHasAll
  <2>6. Internals = DOMAIN nodes  BY <2>1, InternalsAre
  <2> QED BY <2>3, <2>4, <2>5, <2>6
<1> QED BY <1>1, StaysMeasured, PTL

\* No block is overfull and none but the root or an only leaf less than half
\* full, as remove, remove_from_index and borrow_key assert (search_db.cpp:145,
\* :278, :361, :410), wherever a leaf or a node is split: as long as no removal
\* leaves a leaf less than half full.
THEOREM BlocksAreFilled ==
    ASSUME KeysNear
    PROVE  Spec /\ [][~ Underflow]_vars => []Occupied
<1>1. InOrder /\ Measured => Occupied
  <2> SUFFICES ASSUME InOrder, Measured, pc = "idle"
               PROVE  /\ \A o \in Range(Chain) : Len(leafs[o].recs) \in LeafMin .. Order
                      /\ \A o \in Internals : Len(nodes[o].kids) \in NodeMin(o) .. Order
    BY DEF Occupied
  <2>1. PICK g : SettledTree(g)  BY DEF InOrder, Rests, SettledTree
  <2>2. Tree(nodes, leafs, meta, stored, g, {})  BY <2>1 DEF SettledTree
  <2>3. Range(Chain) = DOMAIN leafs  BY <2>2, ChainHasAll
  <2>4. Internals = DOMAIN nodes  BY <2>1, InternalsAre
  <2>5. Filled(nodes, leafs, meta)  BY DEF Measured, Kept
  <2>6. PICK m \in Nat : Order = 2 * m /\ Order \div 2 = m  BY Half
  <2>7. ASSUME NEW o \in DOMAIN leafs PROVE Len(leafs[o].recs) \in LeafMin .. Order
    BY <2>5, <2>6 DEF Filled, LeafMin
  <2>8. ASSUME NEW o \in DOMAIN nodes PROVE Len(nodes[o].kids) \in NodeMin(o) .. Order
    BY <2>5, <2>6 DEF Filled, NodeMin, IsRoot
  <2> QED BY <2>3, <2>4, <2>7, <2>8
<1> QED BY <1>1, StaysMeasured, PTL

\* The caller's program is followed no further than it goes.
LEMMA LoadedInBounds ==
    Spec => [](caller \in Callers /\ loaded \in 0 .. Len(caller.loading))
<1> DEFINE I == caller \in Callers /\ loaded \in 0 .. Len(caller.loading)
<1>1. Init => I
  <2>1. \A c \in Callers : Len(c.loading) \in Nat  BY TreeAssumption
  <2> QED BY <2>1 DEF Init
<1>2. I /\ [Next]_vars => I'
  <2> SUFFICES ASSUME I, [Next]_vars PROVE I'
    OBVIOUS
  <2>1. PICK n \in Nat : n = Len(caller.loading)  BY TreeAssumption
  <2>2. caller' = caller
        /\ \/ loaded' = loaded
           \/ loaded < Len(caller.loading) /\ loaded' = loaded + 1
    <3>1. CASE UNCHANGED vars  BY <3>1 DEF vars
    <3>2. CASE Climb
      BY <3>2 DEF Climb, IndexRoot, IndexKey, IndexSplit, ChangeKey, ShrinkRoot,
                  ShrinkNode, NodeBorrowsLeft, NodeBorrowsRight, NodeMerges
    <3>3. CASE Call
      BY <3>3 DEF Call, InsertRecord, InsertSplit, Calls, Update, RemoveRecord,
                  BorrowLeft, BorrowRight, RemoveMerge, Open
    <3> QED BY <3>1, <3>2, <3>3 DEF Next
  <2> QED BY <2>1, <2>2
<1>3. Spec => []I  BY <1>1, <1>2, PTL DEF Spec
<1> QED BY <1>3

\* Every variable has its type: a block's links, parent and children are
\* blocks of the file, a node has as many keys as children, the records are
\* records of keys and values, and no two blocks were given one slot: as long as
\* no removal leaves a leaf less than half full.
THEOREM TreeTypesAreCorrect ==
    ASSUME KeysNear
    PROVE  Spec /\ [][~ Underflow]_vars => []TypeOK
<1>1. /\ InOrder /\ Measured
      /\ caller \in Callers /\ loaded \in 0 .. Len(caller.loading)
      => TypeOK
  <2> SUFFICES ASSUME InOrder, Measured, loaded \in 0 .. Len(caller.loading)
               PROVE  TypeOK
    OBVIOUS
  <2>1. PICK g, X : /\ Tree(nodes, leafs, meta, stored, g, X)
                    /\ \A c \in X : nodes[c].parent \in DOMAIN nodes \cup {0}
                                    \/ c \notin DOMAIN nodes
    <3>1. CASE Rests(nodes, leafs, meta, stored)  BY <3>1 DEF Rests
    <3>2. CASE Climbs(nodes, leafs, meta, stored, arg)
      <4>1. PICK g : /\ Tree(nodes, leafs, meta, stored, g, {arg.after})
                     /\ Pending(nodes, leafs, meta, g, arg)
        BY <3>2 DEF Climbs
      <4>2. arg.node \in DOMAIN nodes \cup {0}
            /\ ParentOf(nodes, leafs, arg.after) = arg.node
        BY <4>1 DEF Pending
      <4> QED BY <4>1, <4>2 DEF ParentOf
    <3> QED BY <3>1, <3>2 DEF InOrder
  <2>2. Counted(nodes, leafs, meta) /\ Homed(nodes, leafs)  BY DEF Measured, Kept
  <2>3. /\ DOMAIN nodes \cap DOMAIN leafs = {}
        /\ \A o \in DOMAIN nodes \cup DOMAIN leafs : o \in 1 .. meta.slot - 1
    BY <2>1 DEF Tree, Placed, Blocks
  <2>4. meta.slot = 1 + Cardinality(DOMAIN nodes \cup DOMAIN leafs)
    <3>1. /\ IsFiniteSet(DOMAIN nodes) /\ IsFiniteSet(DOMAIN leafs)
          /\ meta.slot = 1 + Cardinality(DOMAIN nodes) + Cardinality(DOMAIN leafs)
      BY <2>2 DEF Counted
    <3>2. Cardinality(DOMAIN nodes \cup DOMAIN leafs)
            = Cardinality(DOMAIN nodes) + Cardinality(DOMAIN leafs)
              - Cardinality(DOMAIN nodes \cap DOMAIN leafs)
      BY <3>1, FS_Union
    <3>3. Cardinality(DOMAIN nodes \cap DOMAIN leafs) = 0  BY <2>3, FS_EmptySet
    <3>4. Cardinality(DOMAIN nodes) \in Nat /\ Cardinality(DOMAIN leafs) \in Nat
      BY <3>1, FS_CardinalityType
    <3> QED BY <3>1, <3>2, <3>3, <3>4
  <2>5. ASSUME NEW o \in DOMAIN nodes
        PROVE  /\ Len(nodes[o].keys) = Len(nodes[o].kids)
               /\ Range(nodes[o].keys) \subseteq Keys \cup {Garbage}
               /\ Range(nodes[o].kids) \subseteq 1 .. meta.slot - 1
               /\ nodes[o].parent \in DOMAIN nodes \cup {0}
    <3>1. PICK x \in Node : x = nodes[o] /\ NodeSorted(x, g.lo[o], g.hi[o])
      BY <2>1 DEF Tree, Nodes
    <3>2. Len(x.keys) = Len(x.kids)  BY <3>1 DEF NodeSorted, AreBounds
    <3>3. Range(x.keys) \subseteq Keys \cup {Garbage}
      <4>1. x.keys \in Seq(Keys \cup {Garbage})  BY DEF Node
      <4> QED BY <4>1 DEF Range
    <3>4. ASSUME NEW c \in Range(x.kids) PROVE c \in 1 .. meta.slot - 1
      <4>1. x.kids \in Seq(Nat)  BY DEF Node
      <4>2. PICK i \in 1 .. Len(x.kids) : c = x.kids[i]  BY <4>1 DEF Range
      <4>3. \E a, b : Leads(nodes, g, o, c, a, b)  BY <3>1, <4>2 DEF Leads, Entry
      <4>4. c \in Blocks(nodes, leafs)  BY <2>1, <4>3 DEF Tree, Hang
      <4> QED BY <2>3, <4>4 DEF Blocks
    <3>5. nodes[o].parent \in DOMAIN nodes \cup {0}
      BY <2>1 DEF Tree, Linked, Rooted
    <3> QED BY <3>1, <3>2, <3>3, <3>4, <3>5
  <2>6. ASSUME NEW o \in DOMAIN leafs
        PROVE  /\ Range(leafs[o].recs) \subseteq [key : Keys, value : Values]
               /\ leafs[o].parent \in DOMAIN nodes
               /\ {leafs[o].next, leafs[o].prev} \subseteq DOMAIN leafs \cup {0}
    <3>1. leafs[o] \in Leaf  BY <2>1 DEF Tree, Leaves
    <3>2. leafs[o].recs \in Seq(Record)  BY <3>1 DEF Leaf
    <3>3. Range(leafs[o].recs) \subseteq [key : Keys, value : Values]
      <4>1. PICK s \in Seq(Record) : s = leafs[o].recs  BY <3>2
      <4>2. \A i \in DOMAIN s : s[i] \in Record  OBVIOUS
      <4>3. Range(s) \subseteq Record  BY <4>2 DEF Range
      <4> QED BY <4>1, <4>3 DEF Record
    <3>4. /\ leafs[o].next \in DOMAIN leafs \cup {0}
          /\ leafs[o].prev \in DOMAIN leafs \cup {0}
      BY <2>1 DEF Tree, Chained
    <3> QED BY <2>2, <3>3, <3>4 DEF Homed
  <2>7. DOMAIN stored \subseteq Keys  BY <2>1 DEF Tree, Keeps
  <2>8. pc \in {"idle", "insert_key_to_index"}  BY DEF InOrder
  <2> QED BY <2>3, <2>4, <2>5, <2>6, <2>7, <2>8 DEF TypeOK
<1> QED BY <1>1, StaysMeasured, LoadedInBounds, PTL

-----------------------------------------------------------------------------
(* Range queries.                                                          *)

\* What the functions that follow the chain as far as last compute.
FollowUpTo(f, last) ==
    f = [o \in DOMAIN leafs \cup {0} |->
            IF o \in {0, last} THEN <<last>> ELSE <<o>> \o f[leafs[o].next]]

\* From a leaf on, they list the leaves that divide the keys up to last's.
LEMMA UpToTiles ==
    ASSUME NEW g, Disjoint(DOMAIN leafs, g), 0 \notin DOMAIN leafs, Chained(leafs, meta, g),
           NEW last \in DOMAIN leafs, NEW f, FollowUpTo(f, last),
           NEW o \in DOMAIN leafs, g.lo[o] =< g.lo[last]
    PROVE  f[o] \in Seq(DOMAIN leafs) /\ Tiles(f[o], g, g.lo[o], g.hi[last])
<1>1. KeyMod \in Nat  BY KeyBounds
<1>2. \A c \in DOMAIN leafs : /\ g.lo[c] \in Int /\ 0 =< g.lo[c] /\ g.lo[c] < KeyMod
                              /\ g.hi[c] \in Int /\ g.lo[c] < g.hi[c] /\ c # 0
                              /\ g.hi[c] =< KeyMod
  BY <1>1 DEF Disjoint
<1> DEFINE Good(c) == f[c] \in Seq(DOMAIN leafs) /\ Tiles(f[c], g, g.lo[c], g.hi[last])
           D == {k \in Nat : \A c \in DOMAIN leafs :
                    KeyMod - g.lo[c] =< k /\ g.lo[c] =< g.lo[last] => Good(c)}
<1>3. ASSUME NEW c \in DOMAIN leafs
      PROVE  \E s \in Seq(DOMAIN leafs) :
                s = <<c>> /\ Tiles(s, g, g.lo[c], g.hi[c])
  <2>1. PICK s : s = <<c>>  OBVIOUS
  <2>2. s \in Seq(DOMAIN leafs) /\ Len(s) = 1 /\ s[1] = c  BY <2>1
  <2>3. 1 .. 1 - 1 = {}  OBVIOUS
  <2> QED BY <2>1, <2>2, <2>3 DEF Tiles
<1>4. Good(last)
  <2>1. f[last] = <<last>>  BY DEF FollowUpTo
  <2> QED BY <1>3, <2>1
<1>5. ASSUME NEW c \in DOMAIN leafs, c # last, g.lo[c] =< g.lo[last], NEW n, n = leafs[c].next
      PROVE  /\ n \in DOMAIN leafs /\ g.lo[n] = g.hi[c] /\ g.lo[n] =< g.lo[last]
             /\ Good(n) => Good(c)
  <2>1. g.hi[c] =< g.lo[last]
    <3>1. g.hi[c] =< g.lo[last] \/ g.hi[last] =< g.lo[c]  BY <1>5 DEF Disjoint
    <3> QED BY <1>2, <1>5, <3>1
  <2>2. n \in DOMAIN leafs /\ g.lo[n] = g.hi[c]
    <3>1. g.hi[c] # KeyMod  BY <1>1, <1>2, <2>1
    <3> QED BY <1>5, <3>1 DEF Chained
  <2>3. ASSUME Good(n) PROVE Good(c)
    <3>1. c # 0 /\ f[c] = <<c>> \o f[n]  BY <1>2, <1>5 DEF FollowUpTo
    <3>2. PICK s \in Seq(DOMAIN leafs) : s = <<c>> /\ Tiles(s, g, g.lo[c], g.hi[c])
      BY <1>3
    <3>3. PICK t : t = f[n]  OBVIOUS
    <3>4. t \in Seq(DOMAIN leafs) /\ Tiles(t, g, g.hi[c], g.hi[last])
      BY <2>2, <2>3, <3>3
    <3>5. s \o t \in Seq(DOMAIN leafs) /\ Tiles(s \o t, g, g.lo[c], g.hi[last])
      BY <3>2, <3>4, TilesJoin
    <3>6. f[c] = s \o t  BY <3>1, <3>2, <3>3
    <3> QED BY <3>5, <3>6
  <2> HIDE DEF Good
  <2> QED BY <2>1, <2>2, <2>3
<1>6. 0 \in D
  <2>1. \A c \in DOMAIN leafs : ~ KeyMod - g.lo[c] =< 0  BY <1>1, <1>2
  <2> QED BY <2>1
<1>7. ASSUME NEW k \in 0 .. KeyMod - 1, k \in D PROVE k + 1 \in D
  <2> SUFFICES ASSUME NEW c \in DOMAIN leafs, KeyMod - g.lo[c] =< k + 1,
                      g.lo[c] =< g.lo[last]
               PROVE  Good(c)
    BY <1>1
  <2>1. CASE c = last  BY <1>4, <2>1
  <2>2. CASE c # last
    <3>1. PICK n : n = leafs[c].next  OBVIOUS
    <3>2. n \in DOMAIN leafs /\ g.lo[n] = g.hi[c] /\ g.lo[n] =< g.lo[last]
          /\ (Good(n) => Good(c))
      <4> HIDE DEF Good
      <4> QED BY <1>5, <2>2, <3>1
    <3>3. g.lo[c] < g.lo[n] /\ g.lo[n] \in Int /\ g.lo[c] \in Int  BY <1>2, <3>2
    <3>4. KeyMod - g.lo[n] =< k  BY <1>1, <3>3
    <3> HIDE DEF Good
    <3> QED BY <1>7, <3>2, <3>4
  <2> QED BY <2>1, <2>2
<1>8. 0 .. KeyMod \subseteq D
  <2> HIDE DEF D
  <2> QED BY <1>1, <1>6, <1>7, AllUpTo
<1>9. KeyMod \in D
  <2>1. KeyMod \in 0 .. KeyMod  BY <1>1
  <2> HIDE DEF D
  <2> QED BY <1>8, <2>1
<1>10. KeyMod - g.lo[o] =< KeyMod  BY <1>1, <1>2
<1>11. Good(o)
  <2> HIDE DEF Good
  <2> QED BY <1>9, <1>10
<1> QED BY <1>11

\* The leaves that search_range copies from.
LEMMA RangeTiles ==
    ASSUME KeysNear, NEW g, SettledTree(g), NEW left \in Keys, NEW right \in Keys,
           left =< right, NEW s, s = RangeLeaves(left, right)
    PROVE  /\ s \in Seq(DOMAIN leafs)
           /\ \E a, b \in Int : /\ Tiles(s, g, a, b) /\ a =< left /\ right < b
                                /\ left < g.hi[s[1]] /\ g.lo[s[Len(s)]] =< right
<1>1. Tree(nodes, leafs, meta, stored, g, {})  BY DEF SettledTree
<1>2. Disjoint(DOMAIN leafs, g) /\ 0 \notin DOMAIN leafs  BY <1>1, LeafsDisjoint
<1>3. Chained(leafs, meta, g)  BY <1>1 DEF Tree
<1>4. PICK o, last : o = search_leaf(left) /\ last = search_leaf(right)  OBVIOUS
<1>5. /\ o \in DOMAIN leafs /\ g.lo[o] \in Int /\ g.hi[o] \in Int
      /\ g.lo[o] =< left /\ left < g.hi[o]
  BY <1>4, LeafAround
<1>6. /\ last \in DOMAIN leafs /\ g.lo[last] \in Int /\ g.hi[last] \in Int
      /\ g.lo[last] =< right /\ right < g.hi[last]
  BY <1>4, LeafAround
<1>7. left \in Int /\ right \in Int  BY KeyBounds
<1>8. g.lo[o] =< g.lo[last]
  <2>1. o = last \/ g.hi[o] =< g.lo[last] \/ g.hi[last] =< g.lo[o]
    BY <1>2, <1>5, <1>6 DEF Disjoint
  <2>2. g.lo[o] < g.hi[o]  BY <1>5, <1>7
  <2>3. ~ g.hi[last] =< g.lo[o]  BY <1>5, <1>6, <1>7
  <2> QED BY <1>5, <1>6, <2>1, <2>2, <2>3
<1>9. \E f : FollowUpTo(f, last)
  <2>1. PICK t \in Seq(DOMAIN leafs) : t = <<last>>
    <3>1. <<last>> \in Seq(DOMAIN leafs)  BY <1>6
    <3> QED BY <3>1
  <2>2. PICK stop : stop = {0, last}  OBVIOUS
  <2>3. PICK f : f = [c \in DOMAIN leafs \cup {0} |->
                         IF c \in stop THEN t ELSE <<c>> \o f[leafs[c].next]]
    <3>1. 0 \in stop  BY <2>2
    <3> QED BY <1>2, <1>3, <3>1, FollowsTo
  <2> QED BY <2>1, <2>2, <2>3 DEF FollowUpTo
<1>10. PICK f : f = CHOOSE d : FollowUpTo(d, last)  OBVIOUS
<1>11. FollowUpTo(f, last)  BY <1>9, <1>10
<1>12. s = f[o]  BY <1>4, <1>10 DEF RangeLeaves, FollowUpTo
<1>13. s \in Seq(DOMAIN leafs) /\ Tiles(s, g, g.lo[o], g.hi[last])
  BY <1>2, <1>3, <1>5, <1>6, <1>8, <1>11, <1>12, UpToTiles
<1>14. PICK n \in Nat : n = Len(s) /\ n # 0 /\ s[1] \in DOMAIN leafs /\ s[n] \in DOMAIN leafs
  BY <1>13 DEF Tiles
<1>15. g.lo[s[1]] = g.lo[o] /\ g.hi[s[n]] = g.hi[last]  BY <1>13, <1>14 DEF Tiles
<1>16. \A c, d \in DOMAIN leafs : g.lo[c] = g.lo[d] \/ g.hi[c] = g.hi[d] => c = d
  <2> SUFFICES ASSUME NEW c \in DOMAIN leafs, NEW d \in DOMAIN leafs,
                      g.lo[c] = g.lo[d] \/ g.hi[c] = g.hi[d]
               PROVE  c = d
    OBVIOUS
  <2>1. /\ g.lo[c] \in Int /\ g.hi[c] \in Int /\ g.lo[c] < g.hi[c]
        /\ g.lo[d] \in Int /\ g.hi[d] \in Int /\ g.lo[d] < g.hi[d]
        /\ c = d \/ g.hi[c] =< g.lo[d] \/ g.hi[d] =< g.lo[c]
    BY <1>2 DEF Disjoint
  <2> QED BY <2>1
<1>17. s[1] = o /\ s[n] = last  BY <1>5, <1>6, <1>14, <1>15, <1>16
<1> QED BY <1>5, <1>6, <1>13, <1>14, <1>17

\* r is what the query copies of leaf x: the records b + 1 .. e, when just the
\* first b are left of the range and just the first e are not right of it.
CopiedPart(x, l, h, left, right, b, e, r, c) ==
    /\ LeafSorted(x, l, h) /\ left =< right /\ (c = l \/ c = left)
    /\ b \in 0 .. Len(x.recs) /\ e \in 0 .. Len(x.recs)
    /\ \A i \in 1 .. Len(x.recs) : x.recs[i].key < left <=> i =< b
    /\ \A i \in 1 .. Len(x.recs) : x.recs[i].key =< right <=> i =< e
    /\ r = SubSeq(x.recs, b + 1, e)

\* The records of a leaf from left to right, as a part of them.
LEMMA PartIs ==
    ASSUME NEW x \in Leaf, NEW l, NEW h, NEW left \in Int, NEW right \in Int,
           NEW b, NEW e, NEW r, NEW c,
           CopiedPart(x, l, h, left, right, b, e, r, c)
    PROVE  /\ r \in Seq(Record) /\ Sorted(r, c, h)
           /\ \A q, w : Occurs(r, [key |-> q, value |-> w])
                          <=> Has(x, q, w) /\ left =< q /\ q =< right
<1>0. /\ LeafSorted(x, l, h) /\ left =< right /\ (c = l \/ c = left)
      /\ b \in 0 .. Len(x.recs) /\ e \in 0 .. Len(x.recs)
      /\ \A i \in 1 .. Len(x.recs) : x.recs[i].key < left <=> i =< b
      /\ \A i \in 1 .. Len(x.recs) : x.recs[i].key =< right <=> i =< e
      /\ r = SubSeq(x.recs, b + 1, e)
  BY DEF CopiedPart
<1>1. PICK s \in Seq(Record) : s = x.recs  BY DEF Leaf
<1>2. PICK n \in Nat : n = Len(s)  OBVIOUS
<1>3. /\ \A i, j \in 1 .. n : i < j => s[i].key < s[j].key
      /\ \A i \in 1 .. n : /\ l =< s[i].key /\ s[i].key < h
                           /\ s[i].key < left <=> i =< b
                           /\ s[i].key =< right <=> i =< e
      /\ b \in 0 .. n /\ e \in 0 .. n /\ b \in Int /\ e \in Int
      /\ left =< right /\ (c = l \/ c = left)
  BY <1>0, <1>1, <1>2 DEF LeafSorted
<1>4. \A i \in 1 .. n : s[i].key \in Int
  <2>1. \A i \in 1 .. n : s[i].key \in Keys  BY <1>1, <1>2, RecordIs
  <2> QED BY <2>1, KeyBounds
<1>5. b =< e
  <2> SUFFICES ASSUME e < b PROVE FALSE
    BY <1>3
  <2>1. b \in 1 .. n /\ ~ b =< e /\ b =< b  BY <1>3
  <2> QED BY <1>3, <1>4, <2>1
<1>6. PICK m \in Nat : m = e - b
  <2>1. e - b \in Nat  BY <1>3, <1>5
  <2> QED BY <2>1
<1>7. r = SubSeq(s, b + 1, e)  BY <1>0, <1>1
<1>8. r \in Seq(Record) /\ Len(r) = m /\ \A j \in 1 .. m : r[j] = s[b + j]
  BY <1>2, <1>3, <1>5, <1>6, <1>7
<1>9. \A j \in 1 .. m : b + j \in 1 .. n /\ ~ b + j =< b /\ b + j =< e
  BY <1>3, <1>5, <1>6
<1>10. Sorted(r, c, h)
  <2>1. ASSUME NEW i \in 1 .. m, NEW j \in 1 .. m, i < j PROVE r[i].key < r[j].key
    <3>1. PICK u, v \in 1 .. n : u = b + i /\ v = b + j  BY <1>9
    <3>2. u < v  BY <1>3, <2>1, <3>1
    <3>3. s[u].key < s[v].key  BY <1>3, <3>2
    <3> QED BY <1>8, <3>1, <3>3
  <2>2. ASSUME NEW i \in 1 .. m PROVE c =< r[i].key /\ r[i].key < h
    <3>1. ~ s[b + i].key < left /\ s[b + i].key \in Int  BY <1>3, <1>4, <1>9
    <3>2. left =< s[b + i].key  BY <3>1
    <3>3. PICK u \in 1 .. n : u = b + i /\ r[i] = s[u]  BY <1>8, <1>9
    <3>4. l =< s[u].key /\ s[u].key < h  BY <1>3
    <3>5. CASE c = l  BY <3>3, <3>4, <3>5
    <3>6. CASE c = left  BY <3>2, <3>3, <3>4, <3>6
    <3> QED BY <1>3, <3>5, <3>6
  <2> QED BY <1>8, <2>1, <2>2 DEF Sorted
<1>11. ASSUME NEW q, NEW w
       PROVE  Occurs(r, [key |-> q, value |-> w]) <=> Has(x, q, w) /\ left =< q /\ q =< right
  <2>1. PICK z : z = [key |-> q, value |-> w]  OBVIOUS
  <2>2. z.key = q  BY <2>1
  <2>3. ASSUME Occurs(r, z) PROVE Has(x, q, w) /\ left =< q /\ q =< right
    <3>1. PICK j \in 1 .. m : r[j] = z  BY <1>8, <2>3 DEF Occurs
    <3>2. PICK i \in 1 .. n : i = b + j /\ s[i] = z /\ ~ i =< b /\ i =< e
      BY <1>8, <1>9, <3>1
    <3>3. s[i].key = q /\ q \in Int  BY <1>4, <2>2, <3>2
    <3>4. left =< q /\ q =< right  BY <1>3, <3>2, <3>3
    <3> QED BY <1>1, <1>2, <2>1, <3>2, <3>4 DEF Has
  <2>4. ASSUME Has(x, q, w), left =< q, q =< right PROVE Occurs(r, z)
    <3>1. PICK i \in 1 .. n : s[i] = z  BY <1>1, <1>2, <2>1, <2>4 DEF Has
    <3>2. s[i].key = q /\ q \in Int  BY <1>4, <2>2, <3>1
    <3>3. ~ i =< b /\ i =< e  BY <1>3, <2>4, <3>1, <3>2
    <3>4. PICK j \in 1 .. m : b + j = i
      <4>1. i - b \in 1 .. m /\ b + (i - b) = i  BY <1>3, <1>6, <3>3
      <4> QED BY <4>1
    <3> QED BY <1>8, <3>1, <3>4 DEF Occurs
  <2> QED BY <2>1, <2>3, <2>4
<1> QED BY <1>8, <1>10, <1>11

\* What search_range copies of the i-th of its leaves s.
LEMMA RangePartIs ==
    ASSUME KeysNear, NEW g, Disjoint(DOMAIN leafs, g), Leaves(leafs, g),
           NEW left \in Keys, NEW right \in Keys, left =< right,
           NEW s \in Seq(DOMAIN leafs), NEW a, NEW d, Tiles(s, g, a, d),
           left < g.hi[s[1]], g.lo[s[Len(s)]] =< right,
           NEW i \in 1 .. Len(s), NEW r, r = RangePart(s, i, left, right),
           NEW c, c = IF i = 1 THEN left ELSE g.lo[s[i]]
    PROVE  /\ left =< c /\ c =< g.hi[s[i]]
           /\ r \in Seq(Record) /\ Sorted(r, c, g.hi[s[i]])
           /\ \A q, w : Occurs(r, [key |-> q, value |-> w])
                          <=> Has(leafs[s[i]], q, w) /\ left =< q /\ q =< right
<1>1. PICK n \in Nat : /\ n = Len(s) /\ n # 0 /\ i \in 1 .. n
                       /\ \A j \in 1 .. n : s[j] \in DOMAIN leafs
  BY DEF Tiles
<1>2. PICK o \in DOMAIN leafs : o = s[i]  BY <1>1
<1>3. PICK x : x = leafs[o]  OBVIOUS
<1>4. x \in Leaf /\ LeafSorted(x, g.lo[o], g.hi[o])  BY <1>2, <1>3 DEF Leaves
<1>5. left \in Int /\ right \in Int  BY KeyBounds
<1>6. PICK m \in Nat : m = Len(x.recs)
  <2>1. x.recs \in Seq(Record)  BY <1>4 DEF Leaf
  <2> QED BY <2>1
<1>7. \A j \in 1 .. m : /\ x.recs[j].key \in Int
                        /\ g.lo[o] =< x.recs[j].key /\ x.recs[j].key < g.hi[o]
  <2>1. \A j \in 1 .. m : x.recs[j].key \in Keys  BY <1>4, <1>6, RecordIs
  <2> QED BY <1>4, <1>6, <2>1, KeyBounds DEF LeafSorted
<1>8. /\ g.lo[o] \in Int /\ g.hi[o] \in Int /\ g.lo[o] < g.hi[o]
      /\ g.hi[s[1]] \in Int /\ g.lo[s[n]] \in Int
  <2>1. s[1] \in DOMAIN leafs /\ s[n] \in DOMAIN leafs  BY <1>1
  <2> QED BY <1>2, <2>1 DEF Disjoint
<1>9. i # 1 => left < g.lo[o]
  <2> SUFFICES ASSUME i # 1 PROVE left < g.lo[o]
    OBVIOUS
  <2>1. 1 \in 1 .. n /\ 1 < i  BY <1>1
  <2>2. g.hi[s[1]] =< g.lo[s[i]]  BY <1>1, <2>1, TilesAscend
  <2> QED BY <1>2, <1>5, <1>8, <2>2
<1>10. i # n => g.hi[o] =< right
  <2> SUFFICES ASSUME i # n PROVE g.hi[o] =< right
    OBVIOUS
  <2>1. n \in 1 .. n /\ i < n  BY <1>1
  <2>2. g.hi[s[i]] =< g.lo[s[n]]  BY <1>1, <2>1, TilesAscend
  <2> QED BY <1>1, <1>2, <1>5, <1>8, <2>2
<1>11. PICK b : b = IF i \in {1, n} THEN lower_bound(RecordKeys(x), left) ELSE 0
  OBVIOUS
<1>12. PICK e : e = IF i = n THEN upper_bound(RecordKeys(x), right) ELSE m  OBVIOUS
<1>13. PICK f : f = RecordKeys(x)  OBVIOUS
<1>14. f \in Seq(Keys) /\ Len(f) = m /\ Ascends(f) /\ \A j \in 1 .. m : f[j] = x.recs[j].key
  BY <1>4, <1>6, <1>13, RecordKeysIs
<1>15. b \in 0 .. m /\ \A j \in 1 .. m : x.recs[j].key < left <=> j =< b
  <2>1. CASE i \in {1, n}
    <3>1. IsLower(b, f, left)  BY <1>11, <1>13, <1>14, <2>1, LowerIs
    <3> QED BY <1>14, <3>1 DEF IsLower
  <2>2. CASE i \notin {1, n}
    <3>1. b = 0 /\ left < g.lo[o]  BY <1>9, <1>11, <2>2
    <3>2. \A j \in 1 .. m : ~ x.recs[j].key < left  BY <1>5, <1>7, <1>8, <3>1
    <3> QED BY <3>1, <3>2
  <2> QED BY <2>1, <2>2
<1>16. e \in 0 .. m /\ \A j \in 1 .. m : x.recs[j].key =< right <=> j =< e
  <2>1. CASE i = n
    <3>1. IsUpper(e, f, right)  BY <1>12, <1>13, <1>14, <2>1, UpperIs
    <3> QED BY <1>14, <3>1 DEF IsUpper
  <2>2. CASE i # n
    <3>1. e = m /\ g.hi[o] =< right  BY <1>10, <1>12, <2>2
    <3>2. \A j \in 1 .. m : x.recs[j].key =< right  BY <1>5, <1>7, <1>8, <3>1
    <3> QED BY <3>1, <3>2
  <2> QED BY <2>1, <2>2
<1>17. r = SubSeq(x.recs, b + 1, e)
  BY <1>1, <1>2, <1>3, <1>6, <1>11, <1>12 DEF RangePart
<1>18. PICK u : u = IF i = 1 THEN left ELSE g.lo[o]  OBVIOUS
<1>19. u = c /\ (u = g.lo[o] \/ u = left)  BY <1>2, <1>18
<1>20. /\ r \in Seq(Record) /\ Sorted(r, u, g.hi[o])
       /\ \A q, w : Occurs(r, [key |-> q, value |-> w])
                      <=> Has(x, q, w) /\ left =< q /\ q =< right
  <2>1. PICK l, h : l = g.lo[o] /\ h = g.hi[o]  OBVIOUS
  <2>2. /\ LeafSorted(x, l, h) /\ (u = l \/ u = left)
        /\ b \in 0 .. Len(x.recs) /\ e \in 0 .. Len(x.recs)
        /\ \A j \in 1 .. Len(x.recs) : x.recs[j].key < left <=> j =< b
        /\ \A j \in 1 .. Len(x.recs) : x.recs[j].key =< right <=> j =< e
    BY <1>4, <1>6, <1>15, <1>16, <1>19, <2>1
  <2>3. CopiedPart(x, l, h, left, right, b, e, r, u)
    BY <1>17, <2>2 DEF CopiedPart
  <2>4. /\ r \in Seq(Record) /\ Sorted(r, u, h)
        /\ \A q, w : Occurs(r, [key |-> q, value |-> w])
                       <=> Has(x, q, w) /\ left =< q /\ q =< right
    BY <1>4, <1>5, <2>3, PartIs
  <2> QED BY <2>1, <2>4
<1>21. left =< c /\ c =< g.hi[o]
  <2>1. CASE i = 1
    <3>1. c = left /\ left < g.hi[o]  BY <1>2, <2>1
    <3> QED BY <1>5, <1>8, <3>1
  <2>2. CASE i # 1
    <3>1. c = g.lo[o] /\ left < g.lo[o]  BY <1>2, <1>9, <2>2
    <3> QED BY <1>5, <1>8, <3>1
  <2> QED BY <2>1, <2>2
<1> QED BY <1>2, <1>3, <1>19, <1>20, <1>21

\* A range query copies the stored records of the range, in order.
LEMMA RangeIs ==
    ASSUME KeysNear, NEW g, SettledTree(g), NEW left \in Keys, NEW right \in Keys,
           left =< right, NEW s, s = RangeLeaves(left, right),
           NEW ss, ss = [i \in DOMAIN s |-> RangePart(s, i, left, right)]
    PROVE  FlattenSeq(ss) = Stored(left, right)
<1>1. Tree(nodes, leafs, meta, stored, g, {})  BY DEF SettledTree
<1>2. Disjoint(DOMAIN leafs, g) /\ Leaves(leafs, g)  BY <1>1, LeafsDisjoint DEF Tree
<1>3. s \in Seq(DOMAIN leafs)  BY RangeTiles
<1>4. PICK a, b \in Int : /\ Tiles(s, g, a, b) /\ a =< left /\ right < b
                          /\ left < g.hi[s[1]] /\ g.lo[s[Len(s)]] =< right
  BY RangeTiles
<1>5. PICK n \in Nat : /\ n = Len(s) /\ n # 0 /\ DOMAIN s = 1 .. n
                       /\ \A i \in 1 .. n : s[i] \in DOMAIN leafs
  BY <1>3, <1>4 DEF Tiles
<1>6. left \in Int /\ right \in Int  BY KeyBounds
<1>7. Len(ss) = n /\ \A i \in 1 .. n : ss[i] = RangePart(s, i, left, right)  BY <1>5
<1>8. PICK e : e = [i \in 0 .. n |-> IF i = 0 THEN left ELSE g.hi[s[i]]]  OBVIOUS
<1>9. e[0] = left /\ e[n] = b  BY <1>4, <1>5, <1>8 DEF Tiles
<1>10. \A i \in 0 .. n : e[i] \in Int
  <2> SUFFICES ASSUME NEW i \in 0 .. n PROVE e[i] \in Int
    OBVIOUS
  <2>1. CASE i = 0  BY <1>6, <1>9, <2>1
  <2>2. CASE i # 0
    <3>1. PICK o \in DOMAIN leafs : o = s[i] /\ e[i] = g.hi[o]  BY <1>5, <1>8, <2>2
    <3> QED BY <1>2, <3>1 DEF Disjoint
  <2> QED BY <2>1, <2>2
<1>11. ASSUME NEW i \in 1 .. n
       PROVE  /\ e[i] = g.hi[s[i]]
              /\ e[i - 1] = IF i = 1 THEN left ELSE g.lo[s[i]]
  <2>1. e[i] = g.hi[s[i]]  BY <1>8
  <2>2. CASE i = 1  BY <1>9, <2>1, <2>2
  <2>3. CASE i # 1
    <3>1. PICK j \in 1 .. n - 1 : i = j + 1 /\ i - 1 = j
      <4>1. i - 1 \in 1 .. n - 1 /\ i = (i - 1) + 1  BY <2>3
      <4> QED BY <4>1
    <3>2. g.hi[s[j]] = g.lo[s[j + 1]]  BY <1>4, <1>5 DEF Tiles
    <3>3. e[j] = g.hi[s[j]]  BY <1>8
    <3> QED BY <2>1, <2>3, <3>1, <3>2, <3>3
  <2> QED BY <2>2, <2>3
<1>12. ASSUME NEW i \in 1 .. n
       PROVE  /\ e[0] =< e[i - 1] /\ e[i - 1] =< e[i]
              /\ ss[i] \in Seq(Record) /\ Sorted(ss[i], e[i - 1], e[i])
              /\ \A q, w : Occurs(ss[i], [key |-> q, value |-> w])
                             <=> Has(leafs[s[i]], q, w) /\ left =< q /\ q =< right
  <2>1. PICK c : c = IF i = 1 THEN left ELSE g.lo[s[i]]  OBVIOUS
  <2>2. c = e[i - 1] /\ e[i] = g.hi[s[i]]  BY <1>11, <2>1
  <2>3. i \in 1 .. Len(s)  BY <1>5
  <2>4. /\ left =< c /\ c =< g.hi[s[i]]
        /\ ss[i] \in Seq(Record) /\ Sorted(ss[i], c, g.hi[s[i]])
        /\ \A q, w : Occurs(ss[i], [key |-> q, value |-> w])
                       <=> Has(leafs[s[i]], q, w) /\ left =< q /\ q =< right
    BY <1>2, <1>3, <1>4, <1>7, <2>1, <2>3, RangePartIs
  <2> QED BY <1>9, <2>2, <2>4
<1>13. PICK z : z = FlattenSeq(ss)  OBVIOUS
<1>14. /\ z \in Seq(Record) /\ Sorted(z, e[0], e[n])
       /\ \A r : Occurs(z, r) <=> \E i \in 1 .. n : Occurs(ss[i], r)
  BY <1>5, <1>7, <1>10, <1>12, <1>13, FlattenSorted
<1>15. DOMAIN stored \subseteq Keys
       /\ \A o \in DOMAIN leafs : \A q, w : Has(leafs[o], q, w)
              <=> q \in DOMAIN stored /\ w = stored[q] /\ g.lo[o] =< q /\ q < g.hi[o]
  BY <1>1 DEF Tree, Keeps
<1>16. ASSUME NEW q, NEW w
       PROVE  Occurs(z, [key |-> q, value |-> w])
                <=> q \in DOMAIN stored /\ w = stored[q] /\ left =< q /\ q =< right
  <2>1. ASSUME Occurs(z, [key |-> q, value |-> w])
        PROVE  q \in DOMAIN stored /\ w = stored[q] /\ left =< q /\ q =< right
    <3>1. PICK i \in 1 .. n : Has(leafs[s[i]], q, w) /\ left =< q /\ q =< right
      BY <1>12, <1>14, <2>1
    <3> QED BY <1>5, <1>15, <3>1
  <2>2. ASSUME q \in DOMAIN stored, w = stored[q], left =< q, q =< right
        PROVE  Occurs(z, [key |-> q, value |-> w])
    <3>1. q \in Int  BY <1>15, <2>2, KeyBounds
    <3>2. a =< q /\ q < b  BY <1>4, <1>6, <2>2, <3>1
    <3>3. \A c \in DOMAIN leafs : g.lo[c] \in Int /\ g.hi[c] \in Int  BY <1>2 DEF Disjoint
    <3>4. PICK i \in 1 .. n : g.lo[s[i]] =< q /\ q < g.hi[s[i]]
      BY <1>3, <1>4, <1>5, <3>1, <3>2, <3>3, TilesCover
    <3>5. Has(leafs[s[i]], q, w)  BY <1>5, <1>15, <2>2, <3>4
    <3>6. Occurs(ss[i], [key |-> q, value |-> w])  BY <1>12, <2>2, <3>5
    <3> QED BY <1>14, <3>6
  <2> QED BY <2>1, <2>2
<1>17. z = Stored(left, right)  BY <1>14, <1>15, <1>16, StoredIs
<1> QED BY <1>13, <1>17

\* A range query returns the first records of the range, in order, however the
\* range and the page lie to the borders of leaves (search_range copies from
\* part of its first leaf, whole leaves and part of its last): for every set of
\* keys among which keycmp is an order, every order of a tree and every caller,
\* as long as no removal leaves a leaf less than half full.
THEOREM RangesAreReturned ==
    ASSUME KeysNear
    PROVE  Spec /\ [][~ Underflow]_vars => []RangeIsPrefix
<1>1. /\ InOrder
      /\ caller \in Callers /\ loaded \in 0 .. Len(caller.loading)
      => RangeIsPrefix
  <2> SUFFICES ASSUME InOrder, caller \in Callers, pc = "idle",
                      NEW left \in caller.keys, NEW right \in caller.keys,
                      NEW max \in 1 .. Order, left =< right
               PROVE  search_range(left, right, max).values
                        = SubSeq(Stored(left, right), 1,
                                 IF max < Len(Stored(left, right)) THEN max
                                 ELSE Len(Stored(left, right)))
    BY DEF RangeIsPrefix
  <2>1. left \in Keys /\ right \in Keys  BY TreeAssumption
  <2>2. PICK g : SettledTree(g)  BY DEF InOrder, Rests, SettledTree
  <2>3. PICK s : s = RangeLeaves(left, right)  OBVIOUS
  <2>4. PICK ss : ss = [i \in DOMAIN s |-> RangePart(s, i, left, right)]  OBVIOUS
  <2>5. FlattenSeq(ss) = Stored(left, right)  BY <2>1, <2>2, <2>3, <2>4, RangeIs
  <2>6. search_range(left, right, max).values
          = SubSeq(FlattenSeq(ss), 1, IF max < Len(FlattenSeq(ss)) THEN max
                                      ELSE Len(FlattenSeq(ss)))
    BY <2>3, <2>4 DEF search_range
  <2> QED BY <2>5, <2>6
<1> QED BY <1>1, StaysInOrder, LoadedInBounds, PTL

=============================================================================
