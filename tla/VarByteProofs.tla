--------------------------- MODULE VarByteProofs ---------------------------
(***************************************************************************)
(* Proofs about VarByte, for every width of a value and of a group and for *)
(* arrays of every length.                                                 *)
(***************************************************************************)
EXTENDS VarByte, Induction, FiniteSetTheorems

-----------------------------------------------------------------------------
(* Powers of two.                                                          *)

\* Pow2 is a power: its recursion has a solution.
LEMMA Pow2IsPower == Powers(Pow2, 2)
<1>1. \E f : Powers(f, 2)  BY PowersExist
<1> QED BY <1>1 DEF Pow2, Powers

\* So it doubles.
LEMMA Pow2Def ==
    /\ Pow2 \in [Nat -> Nat \ {0}]
    /\ Pow2[0] = 1
    /\ \A n \in Nat : Pow2[n + 1] = 2 * Pow2[n]
BY Pow2IsPower, PowerDef

\* Shifting twice.
LEMMA Pow2Sum ==
    ASSUME NEW a \in Nat, NEW b \in Nat
    PROVE  Pow2[a + b] = Pow2[a] * Pow2[b]
BY Pow2IsPower, PowerSum

\* More bits, greater power.
LEMMA Pow2Grows ==
    ASSUME NEW a \in Nat, NEW b \in Nat, a =< b
    PROVE  Pow2[a] =< Pow2[b]
<1>1. b = a + (b - a) /\ b - a \in Nat  OBVIOUS
<1>2. Pow2[b] = Pow2[a] * Pow2[b - a]  BY <1>1, Pow2Sum
<1>3. Pow2[a] \in Nat \ {0} /\ Pow2[b - a] \in Nat \ {0}  BY <1>1, Pow2Def
<1> QED BY <1>2, <1>3

-----------------------------------------------------------------------------
(* The groups of a value.                                                  *)

Base == Pow2[GroupBits]

\* The highest group of a value.
Groups(t) == BitLength(t) \div GroupBits

\* The value above its groups 0 to k - 1.
Shift(t, k) == t \div Pow2[GroupBits * k]

\* The constants of the module are numbers.
LEMMA Words ==
    /\ Base \in Nat \ {0}
    /\ Pow2[WordBits] \in Nat \ {0}
    /\ Pow2[WordBits - GroupBits] \in Nat \ {0}
    /\ Pow2[WordBits] = Pow2[WordBits - GroupBits] * Base
    /\ Pow2[GroupBits + 1] = 2 * Base
<1>1. WordBits - GroupBits \in Nat /\ GroupBits \in Nat /\ WordBits \in Nat
  BY VarByteAssumption
<1>2. WordBits = (WordBits - GroupBits) + GroupBits  BY <1>1
<1> QED BY <1>1, <1>2, Pow2Def, Pow2Sum DEF Base

\* A value is below the power that its length names.
LEMMA BitLengthBounds ==
    ASSUME NEW t \in UnsignedInt
    PROVE  BitLength(t) \in 0 .. WordBits /\ t < Pow2[BitLength(t)]
<1> DEFINE S == {k \in 0 .. WordBits - 1 : Pow2[k] =< t}
           n == Cardinality(S)
<1>0. WordBits \in Nat \ {0}  BY VarByteAssumption
<1>1. IsFiniteSet(0 .. WordBits - 1) /\ Cardinality(0 .. WordBits - 1) = WordBits
  <2>1. WordBits - 1 - 0 + 1 = WordBits  BY <1>0
  <2> QED BY <1>0, <2>1, FS_Interval
<1>2. IsFiniteSet(S) /\ n \in Nat /\ n =< WordBits
  <2>1. S \subseteq 0 .. WordBits - 1  OBVIOUS
  <2> HIDE DEF S
  <2> QED BY <1>1, <2>1, FS_Subset, FS_CardinalityType
<1>3. CASE n = WordBits
  BY <1>2, <1>3, Words DEF UnsignedInt, BitLength
<1>4. CASE n # WordBits
  <2>1. n \in 0 .. WordBits - 1  BY <1>0, <1>2, <1>4
  <2>2. ASSUME Pow2[n] =< t PROVE FALSE
    <3>1. ASSUME NEW k \in 0 .. n PROVE k \in S
      <4>1. k \in Nat /\ n \in Nat /\ k =< n  BY <1>2
      <4>2. Pow2[k] =< Pow2[n] /\ Pow2[k] \in Nat /\ Pow2[n] \in Nat
        BY <4>1, Pow2Grows, Pow2Def
      <4>3. t \in Nat  BY Words DEF UnsignedInt
      <4>4. k \in 0 .. WordBits - 1  BY <1>0, <2>1
      <4> HIDE DEF n
      <4> QED BY <2>2, <4>2, <4>3, <4>4
    <3>2. 0 .. n \subseteq S  BY <3>1
    <3>3. Cardinality(0 .. n) = n + 1
      <4>1. n - 0 + 1 = n + 1 /\ 0 =< n  BY <1>2
      <4> HIDE DEF n
      <4> QED BY <1>2, <4>1, FS_Interval
    <3>4. Cardinality(0 .. n) =< n
      <4> HIDE DEF S
      <4> QED BY <1>2, <3>2, FS_Subset
    <3> HIDE DEF n
    <3> QED BY <1>2, <3>3, <3>4
  <2>3. Pow2[n] \in Nat /\ t \in Nat  BY <1>2, Pow2Def, Words DEF UnsignedInt
  <2> QED BY <1>2, <2>2, <2>3 DEF BitLength
<1> QED BY <1>3, <1>4

\* The groups of a value are as many as a buffer has room for, and the highest
\* is all that is left of it.
LEMMA HighestGroup ==
    ASSUME NEW t \in UnsignedInt
    PROVE  /\ Groups(t) \in 0 .. WordBits
           /\ Groups(t) =< WordBits \div GroupBits
           /\ Shift(t, Groups(t)) < Base
<1> DEFINE l == BitLength(t)
           n == Groups(t)
           r == l % GroupBits
           top == WordBits \div GroupBits
           rest == WordBits % GroupBits
           d == Pow2[GroupBits * n]
<1>0. GroupBits \in Nat \ {0} /\ WordBits \in Nat \ {0} /\ t \in Nat
  BY VarByteAssumption, Words DEF UnsignedInt
<1>1. l \in 0 .. WordBits /\ t < Pow2[l]  BY BitLengthBounds
<1>2. n \in Nat /\ r \in 0 .. GroupBits - 1 /\ l = GroupBits * n + r
  <2> HIDE DEF l
  <2>1. l \in Nat  BY <1>0, <1>1
  <2>2. n = l \div GroupBits  BY DEF Groups, l
  <2> HIDE DEF n
  <2> QED BY <1>0, <2>1, <2>2, DivMod
<1>3. top \in Nat /\ rest \in 0 .. GroupBits - 1 /\ WordBits = GroupBits * top + rest
  BY <1>0, DivMod
<1>4. GroupBits * n \in Nat  BY <1>0, <1>2
<1>5. d \in Nat \ {0}  BY <1>4, Pow2Def
<1> HIDE DEF l, n, r, top, rest
<1>6. n =< WordBits
  <2>1. n =< GroupBits * n  BY <1>0, <1>2
  <2> QED BY <1>0, <1>1, <1>2, <1>4, <2>1
<1>7. n =< top
  <2> SUFFICES ASSUME n >= top + 1 PROVE FALSE  BY <1>2, <1>3
  <2>1. GroupBits * n >= GroupBits * (top + 1)  BY <1>0, <1>2, <1>3
  <2>2. GroupBits * (top + 1) = GroupBits * top + GroupBits  BY <1>0, <1>3
  <2> QED BY <1>0, <1>1, <1>2, <1>3, <1>4, <2>1, <2>2
<1>8. t < d * Base
  <2>1. l \in Nat /\ GroupBits * n + GroupBits \in Nat /\ l =< GroupBits * n + GroupBits
    BY <1>0, <1>1, <1>2, <1>4
  <2>2. Pow2[l] =< Pow2[GroupBits * n + GroupBits]  BY <2>1, Pow2Grows
  <2>3. Pow2[GroupBits * n + GroupBits] = d * Base  BY <1>0, <1>4, Pow2Sum DEF Base
  <2>4. Pow2[l] \in Nat /\ d * Base \in Nat  BY <2>1, <1>5, Pow2Def, Words
  <2> QED BY <1>0, <1>1, <2>2, <2>3, <2>4
<1>9. t \div d < Base
  <2> DEFINE q == t \div d
  <2> HIDE DEF d
  <2>0. q \in Nat /\ t % d \in 0 .. d - 1 /\ t = d * q + (t % d)  BY <1>0, <1>5, DivMod
  <2>1. q \in Nat /\ t % d \in Nat /\ t = d * q + (t % d)  BY <1>5, <2>0
  <2>2. Base \in Nat  BY Words
  <2> HIDE DEF q
  <2> SUFFICES ASSUME q >= Base PROVE FALSE  BY <2>1, <2>2 DEF q
  <2>3. d * q >= d * Base  BY <1>5, <2>1, <2>2
  <2>4. d * q \in Nat /\ d * Base \in Nat  BY <1>5, <2>1, <2>2
  <2> QED BY <1>0, <1>8, <2>1, <2>3, <2>4
<1> QED BY <1>2, <1>6, <1>7, <1>9, <1>0 DEF n, top, Shift

\* A shift by one more group.
LEMMA NextGroup ==
    ASSUME NEW t \in UnsignedInt, NEW k \in Nat
    PROVE  /\ Shift(t, k) \in UnsignedInt
           /\ Shift(t, k) = Shift(t, k + 1) * Base + (Shift(t, k) % Base)
           /\ Shift(t, k) % Base \in 0 .. Base - 1
           /\ Shift(t, k + 1) < Pow2[WordBits - GroupBits]
           /\ Shift(t, 0) = t
<1> DEFINE d == Pow2[GroupBits * k]
           q == Shift(t, k)
           u == Shift(t, k + 1)
           high == Pow2[WordBits - GroupBits]
<1>0. GroupBits \in Nat \ {0} /\ t \in Nat /\ t < Pow2[WordBits]
  BY VarByteAssumption, Words DEF UnsignedInt
<1>1. GroupBits * k \in Nat /\ GroupBits * (k + 1) = GroupBits * k + GroupBits
  BY <1>0
<1>2. d \in Nat \ {0} /\ Pow2[GroupBits * (k + 1)] = d * Base
  BY <1>0, <1>1, Pow2Def, Pow2Sum DEF Base
<1>3. q \in Nat /\ t % d \in Nat /\ t = d * q + (t % d)
  <2>1. q = t \div d  BY DEF Shift
  <2> HIDE DEF d
  <2>2. t \div d \in Nat /\ t % d \in 0 .. d - 1 /\ t = d * (t \div d) + (t % d)
    BY <1>0, <1>2, DivMod
  <2>3. t % d \in Nat  BY <1>2, <2>2
  <2> QED BY <2>1, <2>2, <2>3
<1>4. u = q \div Base
  BY <1>0, <1>2, Words, DivDiv DEF Shift
<1>5. u \in Nat /\ q % Base \in 0 .. Base - 1 /\ q = Base * u + (q % Base)
  BY <1>3, <1>4, Words, DivMod
<1>6. high \in Nat \ {0} /\ Pow2[WordBits] = high * Base /\ Base \in Nat \ {0}
  BY Words
<1>7. q =< t
  <2> HIDE DEF d, q
  <2>1. q =< d * q /\ d * q \in Nat  BY <1>2, <1>3
  <2> QED BY <1>0, <1>3, <2>1
<1>8. u < high
  <2> DEFINE r == q % Base
  <2> HIDE DEF u, high, q, r
  <2> SUFFICES ASSUME u >= high PROVE FALSE  BY <1>5, <1>6
  <2>1. Base * u >= Base * high  BY <1>5, <1>6
  <2>2. Base * u \in Nat /\ Base * high \in Nat /\ Base * high = high * Base
    BY <1>5, <1>6
  <2>3. q = Base * u + r /\ r \in Nat  BY <1>5, <1>6 DEF r
  <2> QED BY <1>0, <1>3, <1>6, <1>7, <2>1, <2>2, <2>3
<1>9. q \in UnsignedInt
  <2> HIDE DEF q
  <2> QED BY <1>0, <1>3, <1>6, <1>7 DEF UnsignedInt
<1>10. Base * u = u * Base
  <2> HIDE DEF u
  <2> QED BY <1>5, <1>6
<1>11. Shift(t, 0) = t
  <2>1. GroupBits * 0 = 0 /\ t \div 1 = t  BY <1>0
  <2> QED BY <2>1, Pow2Def DEF Shift
<1> HIDE DEF u, q
<1> QED BY <1>5, <1>8, <1>9, <1>10, <1>11 DEF u, q

\* A byte holds one group and whether another one follows.
LEMMA ByteHolds ==
    ASSUME NEW t \in UnsignedInt, NEW k \in Nat
    PROVE  /\ GroupByte(t, k) \in 0 .. Pow2[GroupBits + 1] - 1
           /\ GroupByte(t, k) \div 2 = Shift(t, k) % Base
           /\ GroupByte(t, k) % 2 = IF k > 0 THEN 1 ELSE 0
<1> DEFINE q == Shift(t, k)
           c == IF k > 0 THEN 1 ELSE 0
           r == q % Base
           s == q \div Base
<1>1. q \in Nat /\ Base \in Nat \ {0}
  <2>1. Shift(t, k) \in UnsignedInt  BY NextGroup
  <2> QED BY <2>1, Words DEF UnsignedInt
<1>2. s \in Nat /\ r \in 0 .. Base - 1 /\ q = Base * s + r  BY <1>1, DivMod
<1>3. c \in 0 .. 1  OBVIOUS
<1>4. GroupByte(t, k) = (q * 2 + c) % (2 * Base)
  BY Words DEF GroupByte, Shift
<1> HIDE DEF q, c, r, s
<1>5. (q * 2 + c) % (2 * Base) = 2 * r + c
  <2> DEFINE d == 2 * Base
             x == q * 2 + c
             y == 2 * r + c
  <2>1. (2 * Base) * s = 2 * (Base * s)  BY <1>1, <1>2
  <2>2. x = d * s + y
    BY <1>1, <1>2, <1>3, <2>1
  <2>3. x \in Int /\ d \in Nat \ {0} /\ y \in Nat /\ y < d
    BY <1>1, <1>2, <1>3
  <2> HIDE DEF d, x, y
  <2>4. x % d = y  BY <1>2, <2>2, <2>3, DivIs
  <2> QED BY <2>4 DEF d, x, y
<1>6. 2 * r + c \in 0 .. 2 * Base - 1  BY <1>1, <1>2, <1>3
<1>7. (2 * r + c) \div 2 = r /\ (2 * r + c) % 2 = c
  BY <1>1, <1>2, <1>3
<1> QED BY <1>4, <1>5, <1>6, <1>7, Words DEF q, c, r

-----------------------------------------------------------------------------
(* The invariant.                                                          *)

\* The differences compress_data takes.
Differences(s) ==
    [k \in DOMAIN s |-> IF k = 1 THEN s[k] ELSE (s[k] - s[k - 1]) % Pow2[WordBits]]

\* Where the bytes of the first n values end.
Ends(s) ==
    LET end[n \in 0 .. Len(s)] ==
            IF n = 0 THEN 0 ELSE end[n - 1] + Groups(s[n]) + 1
    IN  end

\* The bytes of the n-th value from its highest group down to group g.
BytesFrom(n, g) ==
    \A k \in g .. Groups(arrays[n]) :
        buffer[Ends(arrays)[n] - k] = GroupByte(arrays[n], k)

\* The differences are of the array as it was.
Prepared ==
    /\ pc = "difference" => deltas
    /\ arrays = IF deltas /\ pc # "difference" THEN Differences(input) ELSE input

\* The values before the i-th are in the buffer, and of this one the groups
\* above j, and nothing else.
Written ==
    /\ i =< Len(arrays) + 1
    /\ \A n \in 1 .. i - 1 : BytesFrom(n, 0)
    /\ pc = "difference" => i = 1
    /\ pc = "group" =>
        /\ i =< Len(arrays)
        /\ j =< Groups(arrays[i])
        /\ Len(buffer) = Ends(arrays)[i] - j - 1
        /\ BytesFrom(i, j + 1)
    /\ pc # "group" => Len(buffer) = Ends(arrays)[i - 1]
    /\ pc \in {"decode", "more", "done"} => i = Len(arrays) + 1

\* The decoder is between two values or inside one, of which it holds the
\* groups down to g.
Read ==
    /\ pc \in {"difference", "encode", "group"} => out = << >> /\ p = 0
    /\ DecodesInOrder
    /\ pc = "decode" => p = Ends(arrays)[Len(out)]
    /\ pc = "more" =>
        /\ Len(out) < Len(arrays)
        /\ \E g \in 0 .. Groups(arrays[Len(out) + 1]) :
              /\ p = Ends(arrays)[Len(out) + 1] - g - 1
              /\ v = Shift(arrays[Len(out) + 1], g)

IInv == TypeOK /\ Prepared /\ Written /\ Read /\ RoundTrip

-----------------------------------------------------------------------------
(* Where the bytes of a value are.                                         *)

\* The code loops once for each group of a value, and not over more than fill
\* a word.
LEMMA Count ==
    ASSUME NEW s \in Seq(UnsignedInt), NEW n \in 1 .. Len(s)
    PROVE  Groups(s[n]) \in 0 .. WordBits /\ Groups(s[n]) =< WordBits \div GroupBits
<1>1. s[n] \in UnsignedInt  OBVIOUS
<1> QED BY <1>1, HighestGroup

\* A value ends behind the one before it and has one byte more than groups
\* above the lowest, which is at most what the callers allocate for it.
LEMMA EndsDef ==
    ASSUME NEW s \in Seq(UnsignedInt)
    PROVE  /\ Ends(s) \in [0 .. Len(s) -> Nat]
           /\ Ends(s)[0] = 0
           /\ \A n \in 1 .. Len(s) : Ends(s)[n] = Ends(s)[n - 1] + Groups(s[n]) + 1
<1> DEFINE S == 0 .. Len(s)
           stop == {0}
           T == Nat
           m == [n \in S |-> n]
           pred == [n \in S |-> n - 1]
           base == [n \in S |-> 0]
           step == [nt \in S \X Nat |-> nt[2] + Groups(s[nt[1]]) + 1]
           Body(f, n) == IF n = 0 THEN 0 ELSE f[n - 1] + Groups(s[n]) + 1
<1>0. \A n \in 1 .. Len(s) : Groups(s[n]) \in Nat  BY Count
<1>1. \E f \in [S -> T] :
        f = [n \in S |-> IF n \in stop THEN base[n] ELSE step[<<n, f[pred[n]]>>]]
  <2>1. m \in [S -> Nat]  OBVIOUS
  <2>2. \A n \in S \ stop : pred[n] \in S /\ m[pred[n]] < m[n]  OBVIOUS
  <2>3. \A n \in S \cap stop : base[n] \in T  OBVIOUS
  <2>4. \A n \in S \ stop, t \in T : step[<<n, t>>] \in T
    <3> SUFFICES ASSUME NEW n \in S \ stop, NEW t \in T PROVE step[<<n, t>>] \in T
      OBVIOUS
    <3>1. Groups(s[n]) \in Nat  BY <1>0
    <3> QED BY <3>1
  <2>5. Recursive(S, T, m, stop, pred, base, step)
    <3> HIDE DEF m, pred, base, step, stop, T, S
    <3> QED BY <2>1, <2>2, <2>3, <2>4 DEF Recursive
  <2> HIDE DEF m, pred, base, step, stop, T, S
  <2> QED BY <2>5, Recursion
<1>2. PICK f \in [S -> T] :
        f = [n \in S |-> IF n \in stop THEN base[n] ELSE step[<<n, f[pred[n]]>>]]
  BY <1>1
<1>3. \A n \in S \ stop : step[<<n, f[pred[n]]>>] = f[n - 1] + Groups(s[n]) + 1
  <2> SUFFICES ASSUME NEW n \in S \ stop
               PROVE  step[<<n, f[pred[n]]>>] = f[n - 1] + Groups(s[n]) + 1
    OBVIOUS
  <2>1. pred[n] = n - 1 /\ n - 1 \in S /\ n \in S  OBVIOUS
  <2>2. f[n - 1] \in Nat  BY <2>1
  <2> HIDE DEF pred, S
  <2> QED BY <2>1, <2>2
<1>4. f = [n \in S |-> Body(f, n)]
  <2> HIDE DEF step, pred
  <2> QED BY <1>2, <1>3
<1>5. Ends(s) = [n \in S |-> Body(Ends(s), n)]
  BY <1>4 DEF Ends
<1>6. ASSUME NEW n \in S PROVE Ends(s)[n] \in Nat
  <2> DEFINE N == {k \in S : Ends(s)[k] \in Nat}
             b == Len(s)
  <2>1. 0 \in N  BY <1>5
  <2>2. ASSUME NEW k \in 0 .. b - 1, k \in N PROVE k + 1 \in N
    <3>1. k + 1 \in 1 .. Len(s) /\ k + 1 - 1 = k /\ k + 1 # 0  OBVIOUS
    <3>2. Ends(s)[k + 1] = Ends(s)[k] + Groups(s[k + 1]) + 1
      BY <1>5, <3>1
    <3> QED BY <1>0, <2>2, <3>1, <3>2
  <2>3. b \in Nat  OBVIOUS
  <2>4. 0 .. b \subseteq N
    <3> HIDE DEF N, b
    <3> QED BY <2>1, <2>2, <2>3, AllUpTo
  <2> QED BY <2>4
<1>7. \A n \in 1 .. Len(s) : Ends(s)[n] = Ends(s)[n - 1] + Groups(s[n]) + 1
  BY SMTT(20), <1>5
<1>8. Ends(s)[0] = 0  BY <1>5
<1> QED BY <1>5, <1>6, <1>7, <1>8

\* The values lie one behind the other.
LEMMA EndsGrow ==
    ASSUME NEW s \in Seq(UnsignedInt), NEW a \in 0 .. Len(s), NEW b \in 0 .. Len(s), a < b
    PROVE  Ends(s)[a] < Ends(s)[b]
<1> DEFINE E == Ends(s)
           N == {k \in 0 .. Len(s) : k > a => E[a] < E[k]}
           l == Len(s)
<1>1. E \in [0 .. Len(s) -> Nat]
      /\ \A n \in 1 .. Len(s) : E[n] = E[n - 1] + Groups(s[n]) + 1
  BY EndsDef
<1> HIDE DEF E
<1>2. 0 \in N  OBVIOUS
<1>3. ASSUME NEW k \in 0 .. l - 1, k \in N PROVE k + 1 \in N
  <2>1. k + 1 \in 1 .. Len(s) /\ k + 1 - 1 = k  OBVIOUS
  <2>2. E[k + 1] = E[k] + Groups(s[k + 1]) + 1 /\ Groups(s[k + 1]) \in Nat
    BY <1>1, <2>1, Count
  <2>3. E[k] \in Nat /\ E[a] \in Nat  BY <1>1
  <2>4. k >= a => E[a] =< E[k]  BY <1>3, <2>3
  <2> QED BY <2>1, <2>2, <2>3, <2>4
<1>4. 0 .. l \subseteq N
  <2>1. l \in Nat  OBVIOUS
  <2> HIDE DEF N, l
  <2> QED BY <1>2, <1>3, <2>1, AllUpTo
<1> QED BY <1>4 DEF E

\* What the callers allocate is enough.
LEMMA EndsBounded ==
    ASSUME NEW s \in Seq(UnsignedInt), NEW n \in 0 .. Len(s)
    PROVE  Ends(s)[n] =< n * (WordBits \div GroupBits + 1)
<1> DEFINE E == Ends(s)
           c == WordBits \div GroupBits
           N == {k \in 0 .. Len(s) : E[k] =< k * (c + 1)}
           l == Len(s)
<1>0. c \in Nat  BY VarByteAssumption, DivMod
<1>1. E \in [0 .. Len(s) -> Nat] /\ E[0] = 0
      /\ \A k \in 1 .. Len(s) : E[k] = E[k - 1] + Groups(s[k]) + 1
  BY EndsDef
<1>2. \A k \in 1 .. Len(s) : Groups(s[k]) \in Nat /\ Groups(s[k]) =< c  BY Count
<1> HIDE DEF E, c
<1>3. 0 \in N  BY <1>0, <1>1
<1>4. ASSUME NEW k \in 0 .. l - 1, k \in N PROVE k + 1 \in N
  <2>1. k + 1 \in 1 .. Len(s) /\ k + 1 - 1 = k  OBVIOUS
  <2>2. E[k + 1] = E[k] + Groups(s[k + 1]) + 1 /\ Groups(s[k + 1]) \in Nat
        /\ Groups(s[k + 1]) =< c
    BY <1>1, <1>2, <2>1
  <2>3. E[k] \in Nat /\ E[k] =< k * (c + 1)  BY <1>1, <1>4
  <2>4. (k + 1) * (c + 1) = k * (c + 1) + (c + 1) /\ k * (c + 1) \in Nat  BY <1>0
  <2> QED BY <1>0, <2>1, <2>2, <2>3, <2>4
<1>5. 0 .. l \subseteq N
  <2>1. l \in Nat  OBVIOUS
  <2> HIDE DEF N, l
  <2> QED BY <1>3, <1>4, <2>1, AllUpTo
<1> QED BY <1>5 DEF E, c

-----------------------------------------------------------------------------
(* Differences and sums, modulo the width of a value.                      *)

\* What a difference takes away, the sum gives back.
LEMMA ModBack ==
    ASSUME NEW M \in Nat \ {0}, NEW a \in 0 .. M - 1, NEW b \in 0 .. M - 1
    PROVE  (((a - b) % M) + b) % M = a /\ (a - b) % M \in 0 .. M - 1
<1>1. CASE a >= b
  <2>1. a - b = M * 0 + (a - b) /\ a - b \in Nat /\ a - b < M  BY <1>1
  <2>2. (a - b) % M = a - b  BY <2>1, DivIs
  <2>3. a = M * 0 + a /\ a \in Nat  OBVIOUS
  <2>4. a % M = a  BY <2>3, DivIs
  <2> QED BY <1>1, <2>2, <2>4
<1>2. CASE a < b
  <2>1. a - b = M * (0 - 1) + (a - b + M) /\ a - b + M \in Nat /\ a - b + M < M  BY <1>2
  <2>2. (a - b) % M = a - b + M  BY <2>1, DivIs
  <2>3. a + M = M * 1 + a /\ a \in Nat  OBVIOUS
  <2>4. (a + M) % M = a  BY <2>3, DivIs
  <2> QED BY <1>2, <2>1, <2>2, <2>4
<1> QED BY <1>1, <1>2

\* Differences of unsigned integers are unsigned integers, and decompress_data
\* undoes compress_data whatever the values are.
LEMMA SumsOfDifferences ==
    ASSUME NEW s \in Seq(UnsignedInt)
    PROVE  /\ Differences(s) \in Seq(UnsignedInt)
           /\ Len(Differences(s)) = Len(s)
           /\ Sums(Differences(s)) = s
<1> DEFINE M == Pow2[WordBits]
           S == 1 .. Len(s)
           d == Differences(s)
           Body(f, k) == IF k = 1 THEN d[k] ELSE (d[k] + f[k - 1]) % M
<1>0. M \in Nat \ {0}  BY Words
<1>1. s = [k \in S |-> s[k]] /\ DOMAIN s = S /\ Len(s) \in Nat
      /\ \A k \in S : s[k] \in 0 .. M - 1
  BY SeqFunction DEF UnsignedInt
<1>2. d = [k \in S |-> IF k = 1 THEN s[k] ELSE (s[k] - s[k - 1]) % M]
  BY <1>1 DEF Differences
<1> HIDE DEF M, d
<1>3. ASSUME NEW k \in S PROVE d[k] \in 0 .. M - 1 /\ Body(s, k) = s[k]
  <2>1. CASE k = 1  BY <1>1, <1>2, <2>1
  <2>2. CASE k # 1
    <3>1. k - 1 \in S /\ k \in S  BY <2>2
    <3>2. s[k] \in 0 .. M - 1 /\ s[k - 1] \in 0 .. M - 1  BY <1>1, <3>1
    <3>3. d[k] = (s[k] - s[k - 1]) % M  BY <1>2, <2>2
    <3>4. (d[k] + s[k - 1]) % M = s[k] /\ d[k] \in 0 .. M - 1
      BY ZenonT(30), <1>0, <3>2, <3>3, ModBack
    <3> QED BY <2>2, <3>4
  <2> QED BY <2>1, <2>2
<1>4. d \in Seq(UnsignedInt) /\ Len(d) = Len(s) /\ DOMAIN d = S
  <2>1. DOMAIN d = S /\ d \in [S -> 0 .. M - 1]
    <3>1. d = [k \in S |-> d[k]]  BY <1>2
    <3> QED BY <1>3, <3>1
  <2>2. d \in Seq(0 .. M - 1) /\ Len(d) = Len(s)  BY <1>1, <2>1, FunctionSeq
  <2> QED BY <2>1, <2>2 DEF UnsignedInt, M
\* The original solves the recursion of the sums, and nothing else does.
<1>5. s = [k \in S |-> Body(s, k)]
  <2> HIDE DEF S, Body
  <2> QED BY <1>1, <1>3
<1> DEFINE sum == CHOOSE f : f = [k \in S |-> Body(f, k)]
<1>6. sum = [k \in S |-> Body(sum, k)]
  <2> HIDE DEF S, Body
  <2> QED BY <1>5
<1>7. Sums(d) = [k \in S |-> sum[k]]
  BY <1>4 DEF Sums, M
<1> HIDE DEF sum
<1>8. ASSUME NEW k \in S PROVE sum[k] = s[k]
  <2> DEFINE N == {n \in Nat : n \in S => sum[n] = s[n]}
             b == Len(s)
  <2>1. 0 \in N  OBVIOUS
  <2>2. ASSUME NEW n \in 0 .. b - 1, n \in N PROVE n + 1 \in N
    <3>1. n + 1 \in S /\ n + 1 - 1 = n  OBVIOUS
    <3>2. sum[n + 1] = Body(sum, n + 1) /\ s[n + 1] = Body(s, n + 1)
      <4> HIDE DEF Body, S
      <4> QED BY <1>5, <1>6, <3>1
    <3>3. CASE n = 0  BY <3>2, <3>3
    <3>4. CASE n # 0
      <4>1. sum[n] = s[n]  BY <2>2, <3>4
      <4> QED BY <3>1, <3>2, <3>4, <4>1
    <3> QED BY <3>3, <3>4
  <2>3. 0 .. b \subseteq N
    <3>1. b \in Nat  OBVIOUS
    <3> HIDE DEF N, b
    <3> QED BY <2>1, <2>2, <3>1, AllUpTo
  <2> QED BY <2>3
<1>9. Sums(d) = s
  <2> HIDE DEF S
  <2> QED BY <1>1, <1>7, <1>8
<1> QED BY <1>4, <1>9 DEF d

-----------------------------------------------------------------------------
(* The invariant holds initially and every step keeps it.                  *)

\* Nothing is encoded at first.
LEMMA InitInv ==
    ASSUME Init
    PROVE  IInv
<1>1. input \in Seq(UnsignedInt)
  BY VarByteAssumption DEF Init, UnsignedInt
<1>2. WordBits \in Nat /\ Pow2[WordBits] \in Nat \ {0} /\ Pow2[GroupBits + 1] \in Nat
  BY VarByteAssumption, Words
<1>3. Len(arrays) \in Nat /\ arrays \in Seq(UnsignedInt)  BY <1>1 DEF Init
<1>4. TypeOK
  BY <1>1, <1>2 DEF Init, TypeOK, UnsignedInt
<1>5. Prepared  BY DEF Init, Prepared
<1>6. Written
  <2>1. Ends(arrays)[i - 1] = 0  BY <1>3, EndsDef DEF Init
  <2> QED BY <1>3, <2>1 DEF Init, Written
<1>7. Read
  BY <1>3 DEF Init, Read, DecodesInOrder
<1>8. RoundTrip  BY DEF Init, RoundTrip
<1> QED BY <1>4, <1>5, <1>6, <1>7, <1>8 DEF IInv

\* Differences are of the same width as the numbers they come from.
LEMMA DifferenceInv ==
    ASSUME IInv, Difference
    PROVE  IInv'
<1> USE DEF IInv, Difference
<1>1. arrays = input /\ input \in Seq(UnsignedInt) /\ deltas = TRUE
  BY DEF Prepared, TypeOK
<1>2. arrays' = Differences(input)
  BY <1>1 DEF Differences
<1>3. arrays' \in Seq(UnsignedInt) /\ Len(arrays') = Len(arrays)
  BY <1>1, <1>2, SumsOfDifferences
<1>4. i = 1 /\ Len(buffer) = Ends(arrays)[i - 1] /\ out = << >> /\ p = 0
  BY DEF Written, Read
<1>5. Ends(arrays)[0] = 0 /\ Ends(arrays')[0] = 0
  BY <1>1, <1>3, EndsDef
<1>6. Len(buffer) = Ends(arrays')[0]  BY <1>4, <1>5
<1>7. Len(arrays') \in Nat  BY <1>3
<1>8. TypeOK'  BY <1>3 DEF TypeOK, UnsignedInt
<1>9. Prepared'  BY <1>1, <1>2 DEF Prepared
<1>10. Written'
  BY <1>4, <1>6, <1>7 DEF Written
<1>11. Read'
  BY <1>4, <1>7 DEF Read, DecodesInOrder
<1>12. RoundTrip'  BY DEF RoundTrip
<1> QED BY <1>8, <1>9, <1>10, <1>11, <1>12

\* A value's groups are still to be written when the code turns to it.
LEMMA EncodeValueInv ==
    ASSUME IInv, EncodeValue
    PROVE  IInv'
<1> USE DEF IInv, EncodeValue
<1>1. arrays \in Seq(UnsignedInt) /\ i \in 1 .. Len(arrays)
  BY DEF TypeOK
<1>2. j' = Groups(arrays[i]) /\ j' \in 0 .. WordBits
  <2>1. j' = Groups(arrays[i])  BY DEF Groups
  <2> QED BY <1>1, <2>1, Count
<1>3. Len(buffer) = Ends(arrays)[i - 1]  BY DEF Written
<1>4. Ends(arrays)[i] = Ends(arrays)[i - 1] + Groups(arrays[i]) + 1
      /\ Ends(arrays)[i - 1] \in Nat
  BY <1>1, EndsDef
<1>5. Len(buffer) = Ends(arrays)[i] - j' - 1
  BY <1>2, <1>3, <1>4
<1>6. TypeOK'  BY <1>2 DEF TypeOK, UnsignedInt
<1>7. Prepared'  BY DEF Prepared
<1>8. Written'
  <2>1. \A n : BytesFrom(n, 0)' <=> BytesFrom(n, 0)
    BY DEF BytesFrom
  <2>2. BytesFrom(i, j + 1)'
    BY <1>2 DEF BytesFrom
  <2> QED BY <1>1, <1>2, <1>5, <2>1, <2>2 DEF Written
<1>9. Read'
  BY DEF Read, DecodesInOrder
<1>10. RoundTrip'  BY DEF RoundTrip
<1> QED BY <1>6, <1>7, <1>8, <1>9, <1>10

\* Each group goes where Ends says and carries its share of the value.
LEMMA EncodeGroupInv ==
    ASSUME IInv, EncodeGroup
    PROVE  IInv'
<1> USE DEF IInv, EncodeGroup
<1> DEFINE t == arrays[i]
           E == Ends(arrays)
           byte == GroupByte(t, j)
<1>1. /\ arrays \in Seq(UnsignedInt) /\ i \in 1 .. Len(arrays) /\ t \in UnsignedInt
      /\ j \in Nat /\ j \in 0 .. Groups(t) /\ Groups(t) \in Nat /\ j \in 0 .. WordBits
  <2>1. arrays \in Seq(UnsignedInt) /\ i \in 1 .. Len(arrays) /\ j \in 0 .. WordBits
    BY VarByteAssumption DEF TypeOK, Written
  <2>2. t \in UnsignedInt  BY <2>1
  <2>3. Groups(t) \in 0 .. WordBits  BY <2>2, HighestGroup
  <2>4. j =< Groups(t)  BY DEF Written
  <2> QED BY <2>1, <2>2, <2>3, <2>4
<1>2. byte \in 0 .. Pow2[GroupBits + 1] - 1  BY <1>1, ByteHolds
<1>3. buffer \in Seq(0 .. Pow2[GroupBits + 1] - 1) /\ buffer' = Append(buffer, byte)
  BY DEF TypeOK
<1>4. /\ Len(buffer) \in Nat /\ Len(buffer') = Len(buffer) + 1
      /\ \A k \in 1 .. Len(buffer) : buffer'[k] = buffer[k]
      /\ buffer'[Len(buffer) + 1] = byte
      /\ buffer' \in Seq(0 .. Pow2[GroupBits + 1] - 1)
  <2> HIDE DEF byte, EncodeGroup
  <2> QED BY <1>2, <1>3
<1>5. E[i] \in Nat /\ E[i - 1] \in Nat /\ E[i] = E[i - 1] + Groups(t) + 1
  BY <1>1, EndsDef
<1>6. Len(buffer) = E[i] - j - 1 /\ BytesFrom(i, j + 1) /\ \A n \in 1 .. i - 1 : BytesFrom(n, 0)
  BY DEF Written
<1>6b. Len(buffer) = E[i - 1] + (Groups(t) - j) /\ Groups(t) - j \in Nat
  <2>1. Len(buffer) = E[i] - j - 1  BY <1>6
  <2>2. j \in Nat /\ Groups(t) \in Nat /\ j =< Groups(t)  BY <1>1
  <2>3. Len(buffer) \in Nat  BY <1>4
  <2> HIDE DEF E, t, EncodeGroup, byte, IInv
  <2> QED BY <1>5, <2>1, <2>2, <2>3
<1>7. ASSUME NEW n \in 1 .. i - 1 PROVE BytesFrom(n, 0)'
  <2> SUFFICES ASSUME NEW k \in 0 .. Groups(arrays[n])
               PROVE  buffer'[E[n] - k] = GroupByte(arrays[n], k)
    BY DEF BytesFrom
  <2>1. n \in 1 .. Len(arrays) /\ n - 1 \in 0 .. Len(arrays) /\ i - 1 \in 0 .. Len(arrays)
    BY <1>1
  <2>2. E[n] = E[n - 1] + Groups(arrays[n]) + 1 /\ E[n - 1] \in Nat /\ E[n] \in Nat
        /\ Groups(arrays[n]) \in Nat
    <3>1. Groups(arrays[n]) \in Nat  BY <1>1, <2>1, Count
    <3>2. E \in [0 .. Len(arrays) -> Nat]
          /\ \A m \in 1 .. Len(arrays) : E[m] = E[m - 1] + Groups(arrays[m]) + 1
      BY <1>1, EndsDef
    <3> HIDE DEF E, t, EncodeGroup, IInv, byte
    <3>3. n \in 0 .. Len(arrays)  BY <2>1
    <3> QED BY <2>1, <3>1, <3>2, <3>3
  <2>3. E[n] =< E[i - 1]
    <3>1. CASE n = i - 1  BY <2>2, <3>1
    <3>2. CASE n < i - 1
      <4>1. n \in 0 .. Len(arrays)  BY <2>1
      <4>2. E[n] < E[i - 1]  BY <1>1, <2>1, <3>2, <4>1, EndsGrow
      <4> QED BY <1>5, <2>2, <4>2
    <3> QED BY <1>1, <3>1, <3>2
  <2> HIDE DEF E, t, EncodeGroup, byte, IInv
  <2>4. E[n] - k \in 1 .. Len(buffer)
    <3>1. E[n] - k \in 1 .. E[n]  BY <2>2
    <3>2. E[n] =< Len(buffer) /\ Len(buffer) \in Nat  BY <1>4, <1>5, <1>6b, <2>2, <2>3
    <3> QED BY <2>2, <3>1, <3>2
  <2>5. buffer[E[n] - k] = GroupByte(arrays[n], k)
    BY <1>6 DEF BytesFrom, E
  <2> QED BY <1>4, <2>4, <2>5
<1>8. ASSUME NEW k \in j .. Groups(t) PROVE buffer'[E[i] - k] = GroupByte(t, k)
  <2>1. CASE k = j
    <3> HIDE DEF E, t, EncodeGroup, IInv
    <3>1. E[i] - k = Len(buffer) + 1  BY SMTT(20), <1>1, <1>4, <1>5, <1>6, <2>1
    <3> QED BY <1>4, <2>1, <3>1
  <2>2. CASE k # j
    <3>1. k \in j + 1 .. Groups(t)  BY <1>1, <2>2
    <3>2. buffer[E[i] - k] = GroupByte(t, k)  BY <1>6, <3>1 DEF BytesFrom
    <3> HIDE DEF E, t, EncodeGroup, IInv, byte
    <3>3. E[i] - k \in 1 .. Len(buffer)
      <4>1. k >= j + 1 /\ k =< Groups(t) /\ k \in Int  BY <1>1, <3>1
      <4>2. Len(buffer) = E[i] - j - 1  BY <1>6
      <4>3. E[i] \in Nat /\ E[i] >= Groups(t) + 1 /\ j \in Nat /\ Groups(t) \in Nat
        BY <1>1, <1>5
      <4> QED BY <4>1, <4>2, <4>3
    <3> QED BY <1>4, <3>2, <3>3
  <2> QED BY <2>1, <2>2
<1>9. Prepared'  BY DEF Prepared
<1>10. Read'  BY DEF Read, DecodesInOrder
<1>11. RoundTrip'  BY DEF RoundTrip
<1>12. CASE j > 0
  <2>1. j' = j - 1 /\ i' = i /\ pc' = pc  BY <1>12
  <2>2. TypeOK'
    <3>1. j' \in 0 .. WordBits  BY <1>1, <1>12, <2>1, VarByteAssumption
    <3>2. i' \in Nat \ {0}  BY <2>1 DEF TypeOK
    <3> QED BY <1>4, <2>1, <3>1, <3>2 DEF TypeOK, UnsignedInt
  <2>3. Len(buffer') = E[i] - (j - 1) - 1
    <3> HIDE DEF E, EncodeGroup, IInv
    <3> QED BY <1>1, <1>4, <1>5, <1>6
  <2>4. BytesFrom(i, j + 1)'
    <3>1. j' + 1 = j  BY <1>1, <2>1
    <3> QED BY <1>8, <2>1, <3>1 DEF BytesFrom
  <2>5. Written'
    <3>1. j' =< Groups(arrays'[i'])  BY <1>1, <2>1
    <3>2. Len(buffer') = Ends(arrays')[i'] - j' - 1  BY <2>1, <2>3
    <3> QED BY <1>1, <1>7, <2>1, <2>4, <3>1, <3>2 DEF Written
  <2> QED BY <1>9, <1>10, <1>11, <2>2, <2>5
<1>13. CASE ~ (j > 0)
  <2>1. j = 0 /\ j' = j /\ i' = i + 1 /\ pc' = "encode"  BY <1>1, <1>13
  <2>2. TypeOK'  BY <1>1, <1>4, <2>1 DEF TypeOK, UnsignedInt
  <2>3. Len(buffer') = E[i]
    <3> HIDE DEF E, EncodeGroup, IInv
    <3> QED BY <1>1, <1>4, <1>5, <1>6, <2>1
  <2>4. ASSUME NEW n \in 1 .. i' - 1 PROVE BytesFrom(n, 0)'
    <3>1. CASE n = i  BY <1>8, <2>1, <3>1 DEF BytesFrom
    <3>2. CASE n # i
      <4>1. n \in 1 .. i - 1  BY <1>1, <2>1, <3>2
      <4> QED BY <1>7, <4>1
    <3> QED BY <3>1, <3>2
  <2>5. Written'
    <3>1. i' =< Len(arrays') + 1 /\ i' - 1 = i  BY <1>1, <2>1
    <3> QED BY <2>1, <2>3, <2>4, <3>1 DEF Written
  <2> QED BY <1>9, <1>10, <1>11, <2>2, <2>5
<1> QED BY <1>12, <1>13

\* All values are written when the encoding ends.
LEMMA EncodeDoneInv ==
    ASSUME IInv, EncodeDone
    PROVE  IInv'
<1> USE DEF IInv, EncodeDone
<1>1. arrays \in Seq(UnsignedInt) /\ i = Len(arrays) + 1 /\ out = << >> /\ p = 0
  BY SMTT(20) DEF TypeOK, Written, Read
<1>2. Ends(arrays)[Len(out)] = 0 /\ Len(out) = 0  BY <1>1, EndsDef
<1>3. TypeOK'  BY DEF TypeOK, UnsignedInt
<1>4. Prepared'  BY DEF Prepared
<1>5. Written'  BY <1>1 DEF Written, BytesFrom
<1>6. Read'  BY <1>1, <1>2 DEF Read, DecodesInOrder
<1>7. RoundTrip'  BY DEF RoundTrip
<1> QED BY <1>3, <1>4, <1>5, <1>6, <1>7

\* Once all is encoded, the byte of group g of the n-th value is where the
\* decoder looks for it.
LEMMA ByteAt ==
    ASSUME IInv, pc \in {"decode", "more", "done"}, NEW n \in 1 .. Len(arrays),
           NEW g \in 0 .. Groups(arrays[n])
    PROVE  /\ Ends(arrays)[n] - g - 1 \in Nat
           /\ Ends(arrays)[n] - g - 1 < Len(buffer)
           /\ Byte(Ends(arrays)[n] - g - 1) = GroupByte(arrays[n], g)
           /\ Ends(arrays)[n] = Ends(arrays)[n - 1] + Groups(arrays[n]) + 1
<1> DEFINE E == Ends(arrays)
           l == Len(arrays)
<1>1. arrays \in Seq(UnsignedInt) /\ l \in Nat /\ i = l + 1 /\ i - 1 = l
      /\ Len(buffer) = E[i - 1]
  BY DEF IInv, TypeOK, Written
<1>2. BytesFrom(n, 0)  BY <1>1 DEF IInv, Written
<1>3. buffer[E[n] - g] = GroupByte(arrays[n], g)  BY <1>2 DEF BytesFrom
<1>4. Groups(arrays[n]) \in Nat  BY <1>1, Count
<1>5. E \in [0 .. l -> Nat] /\ E[n] = E[n - 1] + Groups(arrays[n]) + 1
  BY <1>1, EndsDef
<1>6. n - 1 \in 0 .. l /\ n \in 0 .. l /\ l \in 0 .. l  BY <1>1
<1>7. E[n - 1] \in Nat /\ E[n] \in Nat /\ E[l] \in Nat  BY <1>5, <1>6
<1>8. E[n] =< E[l]
  <2>1. CASE n = l  BY <1>7, <2>1
  <2>2. CASE n < l
    <3>1. E[n] < E[l]  BY <1>1, <1>6, <2>2, EndsGrow
    <3> QED BY <1>7, <3>1
  <2>3. n = l \/ n < l
    <3>1. n \in Nat /\ n =< l  BY <1>1
    <3> HIDE DEF l
    <3> QED BY <1>1, <3>1
  <2> QED BY <2>1, <2>2, <2>3
<1>9. Len(buffer) = E[l]  BY <1>1
<1> HIDE DEF E, l
<1>10. E[n] - g - 1 \in Nat /\ E[n] - g - 1 < Len(buffer) /\ E[n] - g - 1 + 1 = E[n] - g
  BY SMTT(20), <1>4, <1>5, <1>7, <1>8, <1>9
<1>11. Byte(E[n] - g - 1) = buffer[E[n] - g]  BY <1>10 DEF Byte
<1> QED BY <1>3, <1>5, <1>10, <1>11 DEF E

\* What the steps of the decoder have in common.
LEMMA DecoderKeeps ==
    ASSUME IInv, pc \in {"decode", "more"}, pc' \in {"decode", "more", "done"},
           UNCHANGED <<input, deltas, arrays, j, i, buffer>>
    PROVE  Prepared' /\ Written'
<1>1. Prepared'  BY DEF IInv, Prepared
<1>2. \A n : BytesFrom(n, 0)' <=> BytesFrom(n, 0)  BY DEF BytesFrom
<1>3. Written'  BY <1>2 DEF IInv, Written
<1> QED BY <1>1, <1>3

\* The decoder begins a value at the byte where it was written.
LEMMA DecodeValueInv ==
    ASSUME IInv, DecodeValue
    PROVE  IInv'
<1> DEFINE n == Len(out) + 1
           E == Ends(arrays)
           t == arrays[n]
           g == Groups(t)
<1>1. arrays \in Seq(UnsignedInt) /\ Len(arrays) \in Nat /\ i = Len(arrays) + 1
      /\ Len(buffer) = E[i - 1] /\ Len(out) \in Nat /\ Len(out) =< Len(arrays)
      /\ p = E[Len(out)] /\ p < Len(buffer)
  BY DEF IInv, TypeOK, Written, Read, DecodesInOrder, DecodeValue
<1>2. Len(out) < Len(arrays)
  <2> SUFFICES ASSUME Len(out) = Len(arrays) PROVE FALSE  BY <1>1
  <2>1. i - 1 = Len(out)  BY <1>1
  <2>2. E[Len(out)] \in Nat  BY <1>1, EndsDef
  <2> HIDE DEF E
  <2> QED BY <1>1, <2>1, <2>2
<1>3. n \in 1 .. Len(arrays) /\ n - 1 = Len(out)  BY <1>1, <1>2
<1>4. t \in UnsignedInt  BY <1>1, <1>3
<1>5. g \in Nat /\ g \in 0 .. g  BY <1>4, HighestGroup
<1>6. E[n] = E[n - 1] + g + 1 /\ E[n] - g - 1 \in Nat /\ Byte(E[n] - g - 1) = GroupByte(t, g)
  <2>1. pc \in {"decode", "more", "done"}  BY DEF DecodeValue
  <2> QED BY <1>3, <1>5, <2>1, ByteAt
<1>7. E[n - 1] \in Nat
  <2>1. n - 1 \in 0 .. Len(arrays)  BY <1>1, <1>3
  <2>2. E \in [0 .. Len(arrays) -> Nat]  BY <1>1, EndsDef
  <2> QED BY <2>1, <2>2
<1>8. p = E[n] - g - 1
  <2> HIDE DEF E, g, t
  <2> QED BY <1>1, <1>3, <1>5, <1>6, <1>7
<1>9. Byte(p) \div 2 = Shift(t, g) % Base
  BY <1>4, <1>5, <1>6, <1>8, ByteHolds
<1>10. Shift(t, g) % Base = Shift(t, g)
  <2> DEFINE q == Shift(t, g)
  <2>1. q \in Nat /\ q < Base /\ Base \in Nat \ {0}
    BY <1>4, <1>5, HighestGroup, NextGroup, Words DEF UnsignedInt
  <2> HIDE DEF q
  <2>2. q = Base * 0 + q  BY <2>1
  <2>3. q % Base = q  BY <2>1, <2>2, DivIs
  <2> QED BY <2>3 DEF q
<1>11. v' = Shift(t, g) /\ v' \in UnsignedInt
  BY <1>4, <1>5, <1>9, <1>10, NextGroup DEF DecodeValue
<1> HIDE DEF g, t, E
<1>12. TypeOK'  BY <1>11 DEF IInv, TypeOK, DecodeValue, UnsignedInt
<1>13. Prepared' /\ Written'  BY DecoderKeeps DEF DecodeValue
<1>14. Read'
  <2>1. pc' = "more" /\ DecodesInOrder'
    BY DEF IInv, Read, DecodesInOrder, DecodeValue
  <2>2. Len(out') < Len(arrays')  BY <1>2 DEF DecodeValue
  <2>3. g \in 0 .. Groups(arrays'[Len(out') + 1])
    BY <1>5 DEF DecodeValue, g, t
  <2>4. p' = Ends(arrays')[Len(out') + 1] - g - 1 /\ v' = Shift(arrays'[Len(out') + 1], g)
    BY <1>8, <1>11 DEF DecodeValue, E, t
  <2> QED BY <2>1, <2>2, <2>3, <2>4 DEF Read
<1>15. RoundTrip'  BY DEF RoundTrip, DecodeValue
<1> QED BY <1>12, <1>13, <1>14, <1>15 DEF IInv

\* Inside a value.
LEMMA Inside ==
    ASSUME IInv, pc = "more"
    PROVE  \E g \in Nat :
             /\ Len(out) + 1 \in 1 .. Len(arrays)
             /\ arrays[Len(out) + 1] \in UnsignedInt
             /\ g \in 0 .. Groups(arrays[Len(out) + 1])
             /\ Groups(arrays[Len(out) + 1]) \in Nat
             /\ Ends(arrays)[Len(out) + 1] \in Nat
             /\ p = Ends(arrays)[Len(out) + 1] - g - 1
             /\ p < Len(buffer)
             /\ v = Shift(arrays[Len(out) + 1], g)
             /\ Byte(p) = GroupByte(arrays[Len(out) + 1], g)
<1>1. arrays \in Seq(UnsignedInt) /\ Len(out) + 1 \in 1 .. Len(arrays)
  BY DEF IInv, TypeOK, Read
<1>2. PICK g \in 0 .. Groups(arrays[Len(out) + 1]) :
        /\ p = Ends(arrays)[Len(out) + 1] - g - 1
        /\ v = Shift(arrays[Len(out) + 1], g)
  BY DEF IInv, Read
<1>3. arrays[Len(out) + 1] \in UnsignedInt  BY <1>1
<1>4. Groups(arrays[Len(out) + 1]) \in Nat  BY <1>1, Count
<1>5. Ends(arrays)[Len(out) + 1] \in Nat  BY <1>1, EndsDef
<1>6. p < Len(buffer) /\ Byte(p) = GroupByte(arrays[Len(out) + 1], g)
  BY <1>1, <1>2, ByteAt
<1> QED BY <1>1, <1>2, <1>3, <1>4, <1>5, <1>6

\* A byte that is not the value's last adds its share.
LEMMA DecodeMoreInv ==
    ASSUME IInv, DecodeMore
    PROVE  IInv'
<1> DEFINE n == Len(out) + 1
           e == Ends(arrays)[n]
           t == arrays[n]
<1>1. PICK g \in Nat :
        /\ n \in 1 .. Len(arrays) /\ t \in UnsignedInt
        /\ g \in 0 .. Groups(t) /\ Groups(t) \in Nat /\ e \in Nat
        /\ p = e - g - 1 /\ v = Shift(t, g) /\ Byte(p) = GroupByte(t, g)
  BY Inside DEF DecodeMore
<1>2. g > 0
  BY <1>1, ByteHolds DEF DecodeMore
<1>3. g - 1 \in Nat /\ g - 1 \in 0 .. Groups(t) /\ g - 1 + 1 = g  BY <1>1, <1>2
<1>4. p + 1 = e - (g - 1) - 1
  <2> HIDE DEF e, t
  <2> QED BY <1>1
<1>5. e - (g - 1) - 1 \in Nat /\ Byte(p + 1) = GroupByte(t, g - 1)
  BY <1>1, <1>3, <1>4, ByteAt DEF DecodeMore
<1>6. Byte(p + 1) \div 2 = Shift(t, g - 1) % Base
  BY <1>1, <1>3, <1>5, ByteHolds
<1>7. /\ Shift(t, g - 1) = Shift(t, g) * Base + (Shift(t, g - 1) % Base)
      /\ Shift(t, g) < Pow2[WordBits - GroupBits]
      /\ Shift(t, g - 1) \in UnsignedInt
      /\ Shift(t, g) \in Nat
  <2>1. Shift(t, g) \in UnsignedInt  BY <1>1, NextGroup
  <2> DEFINE k == g - 1
  <2>2. k \in Nat /\ k + 1 = g  BY <1>3
  <2> HIDE DEF k, t
  <2>3. /\ Shift(t, k) = Shift(t, k + 1) * Base + (Shift(t, k) % Base)
        /\ Shift(t, k + 1) < Pow2[WordBits - GroupBits]
        /\ Shift(t, k) \in UnsignedInt
    BY <1>1, <2>2, NextGroup
  <2>4. Shift(t, g) \in Nat  BY <2>1, Words DEF UnsignedInt
  <2> QED BY <2>2, <2>3, <2>4 DEF k
<1>8. v % Pow2[WordBits - GroupBits] = v
  <2> DEFINE d == Pow2[WordBits - GroupBits]
  <2>1. d \in Nat \ {0} /\ v \in Nat /\ v < d  BY <1>1, <1>7, Words
  <2> HIDE DEF d
  <2>2. v = d * 0 + v  BY <2>1
  <2>3. v % d = v  BY <2>1, <2>2, DivIs
  <2> QED BY <2>3 DEF d
<1>9. v' = Shift(t, g - 1) /\ v' \in UnsignedInt
  BY <1>1, <1>6, <1>7, <1>8 DEF DecodeMore, Base
<1> HIDE DEF e, t
<1>10. p' = e - (g - 1) - 1 /\ p' \in Nat  BY <1>4, <1>5 DEF DecodeMore
<1>11. TypeOK'  BY <1>9, <1>10 DEF IInv, TypeOK, DecodeMore, UnsignedInt
<1>12. Prepared' /\ Written'  BY DecoderKeeps DEF DecodeMore
<1>13. Read'
  <2>1. pc' = "more" /\ DecodesInOrder' /\ Len(out') < Len(arrays')
    BY DEF IInv, Read, DecodesInOrder, DecodeMore
  <2>2. g - 1 \in 0 .. Groups(arrays'[Len(out') + 1])
    BY <1>3 DEF DecodeMore, t
  <2>3. p' = Ends(arrays')[Len(out') + 1] - (g - 1) - 1
        /\ v' = Shift(arrays'[Len(out') + 1], g - 1)
    BY <1>9, <1>10 DEF DecodeMore, e, t
  <2> QED BY <2>1, <2>2, <2>3 DEF Read
<1>14. RoundTrip'  BY DEF RoundTrip, DecodeMore
<1> QED BY <1>11, <1>12, <1>13, <1>14 DEF IInv

\* The last byte completes the value that was encoded.
LEMMA DecodeLastInv ==
    ASSUME IInv, DecodeLast
    PROVE  IInv'
<1> DEFINE n == Len(out) + 1
           e == Ends(arrays)[n]
           t == arrays[n]
<1>1. PICK g \in Nat :
        /\ n \in 1 .. Len(arrays) /\ t \in UnsignedInt /\ e \in Nat
        /\ p = e - g - 1 /\ v = Shift(t, g) /\ Byte(p) = GroupByte(t, g)
  BY Inside DEF DecodeLast
<1>2. g = 0
  BY <1>1, ByteHolds DEF DecodeLast
<1>3. v = t  BY <1>1, <1>2, NextGroup
<1>4. p' = e
  <2> HIDE DEF e, t
  <2> QED BY <1>1, <1>2 DEF DecodeLast
<1>5. out \in Seq(UnsignedInt) /\ out' = Append(out, t)
  BY <1>3 DEF IInv, TypeOK, DecodeLast
<1>6. /\ out' \in Seq(UnsignedInt) /\ Len(out') = n
      /\ \A k \in 1 .. Len(out) : out'[k] = out[k]
      /\ out'[n] = t /\ Len(out) \in Nat
  <2> HIDE DEF t
  <2> QED BY <1>1, <1>5
<1>7. TypeOK'
  <2>1. p' \in Nat  BY <1>1, <1>4
  <2> QED BY <1>6, <2>1 DEF IInv, TypeOK, DecodeLast, UnsignedInt
<1>8. Prepared' /\ Written'  BY DecoderKeeps DEF DecodeLast
<1>9. Read'
  <2>1. pc' = "decode"  BY DEF DecodeLast
  <2>2. p' = Ends(arrays')[Len(out')]  BY <1>4, <1>6 DEF DecodeLast
  <2>3. DecodesInOrder'
    <3>1. \A k \in DOMAIN out : out[k] = arrays[k]
      BY DEF IInv, Read, DecodesInOrder, DecodeLast
    <3>2. DOMAIN out = 1 .. Len(out) /\ DOMAIN out' = 1 .. n  BY <1>5, <1>6
    <3>3. ASSUME NEW k \in 1 .. n PROVE out'[k] = arrays[k]
      <4>1. CASE k = n  BY <1>6, <4>1
      <4>2. CASE k # n
        <5>1. k \in 1 .. Len(out)  BY <1>6, <4>2
        <5> QED BY <1>6, <3>1, <3>2, <5>1
      <4> QED BY <4>1, <4>2
    <3> QED BY <1>1, <1>6, <3>2, <3>3 DEF DecodesInOrder, DecodeLast
  <2> QED BY <2>1, <2>2, <2>3 DEF Read
<1>10. RoundTrip'  BY DEF RoundTrip, DecodeLast
<1> QED BY <1>7, <1>8, <1>9, <1>10 DEF IInv

\* All bytes are read when the decoding ends.
LEMMA DecodeDoneInv ==
    ASSUME IInv, DecodeDone
    PROVE  IInv'
<1>1. arrays \in Seq(UnsignedInt) /\ Len(arrays) \in Nat /\ i = Len(arrays) + 1
      /\ Len(buffer) = Ends(arrays)[i - 1]
      /\ out \in Seq(UnsignedInt) /\ Len(out) \in Nat /\ Len(out) =< Len(arrays)
      /\ p = Ends(arrays)[Len(out)] /\ p >= Len(buffer) /\ input \in Seq(UnsignedInt)
  BY DEF IInv, TypeOK, Written, Read, DecodesInOrder, DecodeDone
<1>2. Len(out) = Len(arrays)
  <2> SUFFICES ASSUME Len(out) < Len(arrays) PROVE FALSE  BY <1>1
  <2>1. i - 1 = Len(arrays) /\ Len(out) \in 0 .. Len(arrays)
        /\ Len(arrays) \in 0 .. Len(arrays)
    BY <1>1
  <2>2. Ends(arrays)[Len(out)] < Ends(arrays)[Len(arrays)]  BY <1>1, <2>1, EndsGrow
  <2>3. Ends(arrays) \in [0 .. Len(arrays) -> Nat]  BY <1>1, EndsDef
  <2>4. Ends(arrays)[Len(out)] \in Nat /\ Ends(arrays)[Len(arrays)] \in Nat
    BY <2>1, <2>3
  <2> QED BY <1>1, <2>1, <2>2, <2>4
<1>3. out = arrays
  <2>1. \A k \in 1 .. Len(out) : out[k] = arrays[k]
    BY <1>1 DEF IInv, Read, DecodesInOrder, DecodeDone
  <2>2. out = [k \in 1 .. Len(out) |-> out[k]] /\ arrays = [k \in 1 .. Len(out) |-> arrays[k]]
    BY <1>1, <1>2, SeqFunction
  <2> QED BY <2>1, <2>2
<1>4. out' = input
  <2>1. CASE deltas
    <3>1. out = Differences(input)  BY <1>3, <2>1 DEF IInv, Prepared, DecodeDone
    <3> QED BY <1>1, <2>1, <3>1, SumsOfDifferences DEF DecodeDone
  <2>2. CASE ~ deltas
    BY <1>3, <2>2 DEF IInv, Prepared, DecodeDone
  <2> QED BY <2>1, <2>2
<1>5. TypeOK'  BY <1>1, <1>4 DEF IInv, TypeOK, DecodeDone, UnsignedInt
<1>6. Prepared' /\ Written'  BY DecoderKeeps DEF DecodeDone
<1>7. Read'  BY DEF Read, DecodesInOrder, DecodeDone
<1>8. RoundTrip'  BY <1>4 DEF RoundTrip, DecodeDone
<1> QED BY <1>5, <1>6, <1>7, <1>8 DEF IInv

\* A step that changes nothing keeps the invariant.
LEMMA StutterInv ==
    ASSUME IInv, UNCHANGED vars
    PROVE  IInv'
BY DEF vars, IInv, TypeOK, UnsignedInt, Prepared, Written, BytesFrom, Read,
       DecodesInOrder, RoundTrip

\* So every step keeps it.
LEMMA NextInv ==
    ASSUME IInv, [Next]_vars
    PROVE  IInv'
<1>1. CASE Difference  BY <1>1, DifferenceInv
<1>2. CASE EncodeValue  BY <1>2, EncodeValueInv
<1>3. CASE EncodeGroup  BY <1>3, EncodeGroupInv
<1>4. CASE EncodeDone  BY <1>4, EncodeDoneInv
<1>5. CASE DecodeValue  BY <1>5, DecodeValueInv
<1>6. CASE DecodeMore  BY <1>6, DecodeMoreInv
<1>7. CASE DecodeLast  BY <1>7, DecodeLastInv
<1>8. CASE DecodeDone  BY <1>8, DecodeDoneInv
<1>9. CASE Done \/ UNCHANGED vars  BY <1>9, StutterInv DEF Done
<1> QED BY <1>1, <1>2, <1>3, <1>4, <1>5, <1>6, <1>7, <1>8, <1>9 DEF Next, Encode, Decode

\* It holds in every behaviour.
LEMMA Invariant == Spec => []IInv
<1>1. Init => IInv  BY InitInv
<1>2. IInv /\ [Next]_vars => IInv'  BY NextInv
<1> QED BY <1>1, <1>2, PTL DEF Spec

-----------------------------------------------------------------------------
(* The theorems.                                                           *)

\* variable_byte_encode, variable_byte_decode and the loops around them keep
\* every value in an unsigned int and every byte in a char.
THEOREM TypeCorrect == Spec => []TypeOK
<1>1. IInv => TypeOK  BY DEF IInv
<1> QED BY <1>1, Invariant, PTL

\* decompress_data gives back what compress_data was given, for every array
\* of values, ascending or not.
THEOREM RoundTripExact == Spec => []RoundTrip
<1>1. IInv => RoundTrip  BY DEF IInv
<1> QED BY <1>1, Invariant, PTL

\* variable_byte_decode gives the values one by one as they were encoded.
THEOREM DecodedInOrder == Spec => []DecodesInOrder
<1>1. IInv => DecodesInOrder  BY DEF IInv, Read
<1> QED BY <1>1, Invariant, PTL

\* variable_byte_encode writes no more than its callers allocate.
THEOREM BufferSuffices == Spec => []FitsBuffer
<1>1. ASSUME IInv PROVE FitsBuffer
  <2> DEFINE c == WordBits \div GroupBits + 1
             E == Ends(arrays)
             l == Len(arrays)
  <2>1. arrays \in Seq(UnsignedInt) /\ l \in Nat /\ i \in Nat \ {0} /\ i =< l + 1
    BY <1>1 DEF IInv, TypeOK, Written
  <2>2. c \in Nat  BY VarByteAssumption, DivMod
  <2>3. ASSUME NEW n \in 0 .. l PROVE E[n] =< l * c /\ E[n] \in Nat
    <3>1. E[n] =< n * c  BY <2>1, EndsBounded
    <3>2. E[n] \in Nat  BY <2>1, EndsDef
    <3> HIDE DEF c, E, l
    <3>3. n * c =< l * c /\ n * c \in Nat /\ l * c \in Nat  BY <2>1, <2>2
    <3> QED BY <3>1, <3>2, <3>3
  <2>4. CASE pc = "group"
    <3>1. i \in 0 .. l /\ Len(buffer) = E[i] - j - 1 /\ j \in Nat
      BY <1>1, <2>1, <2>4, VarByteAssumption DEF IInv, TypeOK, Written
    <3>2. E[i] =< l * c /\ E[i] \in Nat  BY <2>3, <3>1
    <3> HIDE DEF c, E
    <3>3. l * c \in Nat  BY <2>1, <2>2
    <3>4. Len(buffer) =< l * c  BY <3>1, <3>2, <3>3
    <3> QED BY <3>4 DEF FitsBuffer, c
  <2>5. CASE pc # "group"
    <3>1. i - 1 \in 0 .. l /\ Len(buffer) = E[i - 1]
      BY <1>1, <2>1, <2>5 DEF IInv, Written
    <3> QED BY <2>3, <3>1 DEF FitsBuffer
  <2> QED BY <2>4, <2>5
<1> QED BY <1>1, Invariant, PTL

\* The inner loop of variable_byte_decode, which does not look at len, ends
\* before the end of what was encoded.
THEOREM BufferNotLeft == Spec => []StaysInBuffer
<1>1. ASSUME IInv PROVE StaysInBuffer  BY <1>1, Inside DEF StaysInBuffer
<1> QED BY <1>1, Invariant, PTL

=============================================================================
