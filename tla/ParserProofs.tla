---------------------------- MODULE ParserProofs ----------------------------
(***************************************************************************)
(* Proofs about Parser, for any files, sizes of buffers, segmentation and  *)
(* codes that satisfy ParserAssumption, and first about MD5, over which it *)
(* works, for any sizes of blocks, words and bytes that satisfy            *)
(* MD5Assumption: however a message is cut into pieces, MD5Update makes    *)
(* the blocks of the message of them and keeps its length, and MD5Final    *)
(* adds to the message what the definition of MD5 adds.                    *)
(*                                                                         *)
(* StreamOf relates a context to the bytes it has been given: the blocks   *)
(* that are full, the rest in the buffer, and the length in two words.     *)
(***************************************************************************)
EXTENDS Parser, Induction, SequenceTheorems

-----------------------------------------------------------------------------
(* The arithmetic of the length.                                           *)

\* Words and blocks are positive numbers, and a word's bits whole blocks.
LEMMA Sizes ==
    /\ WordBytes \in Nat \ {0} /\ BlockBytes \in Nat \ {0}
    /\ 2 * WordBytes < BlockBytes
    /\ ByteMod \in Nat \ {0} /\ WordMod \in Nat \ {0}
    /\ WordMod = Power[WordBytes]
    /\ \E k \in Nat \ {0} : WordMod = 8 * (BlockBytes * k)
<1>1. /\ WordBytes \in Nat \ {0} /\ BlockBytes \in Nat \ {0}
      /\ 2 * WordBytes < BlockBytes
      /\ ByteMod \in Nat \ {0} /\ WordMod \in Nat \ {0}
      /\ WordMod = Power[WordBytes]
      /\ (WordMod % (8 * BlockBytes)) = 0
  BY MD5Assumption
<1> DEFINE d == 8 * BlockBytes
           k == WordMod \div d
<1>2. d \in Nat \ {0}  BY <1>1
<1>3. k \in Nat /\ WordMod = d * k + (WordMod % d)
  <2> HIDE DEF d
  <2> QED BY <1>1, <1>2, DivMod
<1>4. WordMod = d * k + 0  BY <1>1, <1>3
<1> HIDE DEF k
<1>5. WordMod = 8 * (BlockBytes * k)  BY <1>1, <1>3, <1>4
<1>6. k # 0  BY <1>1, <1>5
<1> QED BY <1>1, <1>3, <1>5, <1>6

\* A multiple of the divisor changes no remainder.
LEMMA ModShift ==
    ASSUME NEW t \in Int, NEW d \in Nat \ {0}, NEW q \in Int, NEW u \in Int,
           u = t + d * q
    PROVE  (u % d) = (t % d)
<1>1. PICK r \in Nat : r = t % d  OBVIOUS
<1>2. PICK p \in Int : p = t \div d  OBVIOUS
<1>3. r < d  BY <1>1
<1>4. t = d * p + r  BY <1>1, <1>2
<1>5. u = d * (p + q) + r
  <2>1. d * (p + q) = d * p + d * q  OBVIOUS
  <2>2. d * p \in Int /\ d * q \in Int  OBVIOUS
  <2> QED BY <1>4, <2>1, <2>2
<1>6. PICK z \in Int : z = p + q  OBVIOUS
<1>7. (u % d) = r  BY <1>3, <1>5, <1>6, DivIs
<1> QED BY <1>1, <1>7

\* Bits of a length, and the words they fill.
LEMMA BitsOf ==
    ASSUME NEW n \in Nat, NEW w \in Nat \ {0}
    PROVE  /\ (8 * n) \div w \in Nat
           /\ (8 * n) % w \in 0 .. w - 1
           /\ 8 * n = w * ((8 * n) \div w) + ((8 * n) % w)
<1>1. PICK t \in Nat : t = 8 * n  OBVIOUS
<1>2. /\ t \div w \in Nat /\ (t % w) \in 0 .. w - 1
      /\ t = w * (t \div w) + (t % w)
  BY DivMod
<1> QED BY <1>1, <1>2

\* The length of a message in bits, as two words hold it.
CountOf(n) == <<(8 * n) % WordMod, ((8 * n) \div WordMod) % WordMod>>

\* The low word says how much of a block is filled.
LEMMA FilledIs ==
    ASSUME NEW n \in Nat
    PROVE  (((8 * n) % WordMod) \div 8) % BlockBytes = n % BlockBytes
<1>1. PICK k \in Nat \ {0} : WordMod = 8 * (BlockBytes * k)  BY Sizes
<1>2. PICK b \in Nat \ {0} : b = BlockBytes  BY Sizes
<1>3. PICK w \in Nat \ {0} : w = WordMod  BY Sizes
<1> DEFINE c == (8 * n) % w
           q == (8 * n) \div w
           t == n - (b * k) * q
<1>4. q \in Nat /\ c \in 0 .. w - 1 /\ 8 * n = w * q + c
  BY BitsOf
<1> HIDE DEF c, q
<1>5. w = 8 * (b * k)  BY <1>1, <1>2, <1>3
<1>6. c = 8 * t
  <2>1. w * q = 8 * ((b * k) * q)
    <3>1. PICK e \in Nat : e = b * k  OBVIOUS
    <3>2. (8 * e) * q = 8 * (e * q)  BY <1>4
    <3> QED BY <1>5, <3>1, <3>2
  <2>2. (b * k) * q \in Nat  BY <1>4
  <2>3. PICK x \in Nat : x = (b * k) * q  BY <2>2
  <2>4. c = 8 * n - 8 * x  BY <1>4, <2>1, <2>3
  <2> QED BY <2>3, <2>4
<1>7. t \in Int  BY <1>4
<1>8. c \div 8 = t
  <2> HIDE DEF t
  <2>1. c \in Nat /\ c = 8 * t + 0  BY <1>4, <1>6, <1>7
  <2> QED BY <1>7, <2>1, DivIs
<1>9. (t % b) = (n % b)
  <2>1. PICK z \in Int : z = k * q  BY <1>4
  <2>2. (b * k) * q = b * z
    <3>1. (b * k) * q = b * (k * q)  BY <1>4
    <3> QED BY <2>1, <3>1
  <2>3. t = n + b * (0 - z)  BY <2>1, <2>2
  <2>4. PICK y \in Int : y = 0 - z  OBVIOUS
  <2>5. t = n + b * y  BY <2>3, <2>4
  <2> HIDE DEF t
  <2>6. n \in Int  OBVIOUS
  <2> QED BY <1>7, <2>5, <2>6, ModShift, Zenon
<1> QED BY <1>2, <1>3, <1>8, <1>9 DEF c

\* Adding a length adds to both words, with the carry.
LEMMA AddLengthIs ==
    ASSUME NEW n \in Nat, NEW m \in Nat
    PROVE  AddLength(CountOf(n), m) = CountOf(n + m)
<1>1. PICK k \in Nat \ {0} : WordMod = 8 * (BlockBytes * k)  BY Sizes
<1>2. PICK w \in Nat \ {0} : w = WordMod  BY Sizes
<1>3. PICK e \in Nat \ {0} : e = BlockBytes * k
  <2>1. BlockBytes * k \in Nat \ {0}  BY Sizes
  <2> QED BY <2>1
<1> DEFINE c == (8 * n) % w
           q == (8 * n) \div w
           b == (8 * m) % w
           p == (8 * m) \div w
           carry == IF c + b < w THEN 0 ELSE 1
<1>4. /\ q \in Nat /\ c \in 0 .. w - 1 /\ 8 * n = w * q + c
      /\ p \in Nat /\ b \in 0 .. w - 1 /\ 8 * m = w * p + b
  <2>1. q \in Nat /\ c \in 0 .. w - 1 /\ 8 * n = w * q + c  BY BitsOf
  <2>2. p \in Nat /\ b \in 0 .. w - 1 /\ 8 * m = w * p + b  BY BitsOf
  <2> QED BY <2>1, <2>2
<1>5. m \div (w \div 8) = p
  <2> HIDE DEF b, p
  <2>1. w = 8 * e  BY <1>1, <1>2, <1>3
  <2>2. w \div 8 = e  BY <2>1
  <2>3. PICK x \in Nat : x = e * p  BY <1>4
  <2>4. w * p = 8 * x
    <3>1. (8 * e) * p = 8 * (e * p)  BY <1>4
    <3> QED BY <2>1, <2>3, <3>1
  <2>5. m = e * p + (m - x) /\ m - x \in Nat /\ m - x < e
    BY <1>4, <2>1, <2>3, <2>4
  <2>6. m \div e = p  BY <1>4, <2>5, DivIs
  <2> QED BY <2>2, <2>6
<1>6. /\ (8 * (n + m)) % w = (c + b) % w
      /\ (8 * (n + m)) \div w = q + p + carry
      /\ ((c + b) % w) < b <=> carry = 1
  <2> HIDE DEF c, q, b, p
  <2>1. 8 * (n + m) = w * (q + p) + (c + b)
    <3>1. w * (q + p) = w * q + w * p  BY <1>4
    <3> QED BY <1>4, <3>1
  <2>2. CASE c + b < w
    <3>1. c + b \in Nat /\ q + p \in Int /\ 8 * (n + m) \in Int  BY <1>4
    <3>2. (8 * (n + m)) \div w = q + p /\ (8 * (n + m)) % w = c + b
      BY <2>1, <2>2, <3>1, DivIs
    <3>3. (c + b) % w = c + b  BY <2>2, <3>1
    <3> QED BY <1>4, <2>2, <3>2, <3>3
  <2>3. CASE c + b >= w
    <3>1. c + b - w \in Nat /\ c + b - w < w /\ q + p + 1 \in Int
          /\ 8 * (n + m) \in Int /\ c + b \in Int
      BY <1>4, <2>3
    <3>2. 8 * (n + m) = w * (q + p + 1) + (c + b - w)
      <4>1. w * (q + p + 1) = w * (q + p) + w  BY <1>4
      <4>2. w * (q + p) \in Int  BY <1>4
      <4> QED BY <1>4, <2>1, <4>1, <4>2
    <3>3. (8 * (n + m)) \div w = q + p + 1 /\ (8 * (n + m)) % w = c + b - w
      BY <3>1, <3>2, DivIs
    <3>4. c + b = w * 1 + (c + b - w)  BY <1>4
    <3>5. (c + b) % w = c + b - w  BY <3>1, <3>4, DivIs
    <3>6. c + b - w < b  BY <1>4
    <3> QED BY <1>4, <2>3, <3>3, <3>5, <3>6
  <2> QED BY <1>4, <2>2, <2>3
<1>7. ((q % w) + carry + p) % w = (q + p + carry) % w
  <2> DEFINE r == q % w
             s == q \div w
  <2>1. s \in Nat /\ r \in 0 .. w - 1 /\ q = w * s + r  BY <1>4, DivMod
  <2> HIDE DEF r, s, q, p, c, b
  <2>2. carry \in Nat  OBVIOUS
  <2> HIDE DEF carry
  <2>3. q + p + carry = (r + carry + p) + w * s  BY <1>4, <2>1, <2>2
  <2>4. r + carry + p \in Int /\ (r + carry + p) + w * s \in Int
    BY <1>4, <2>1, <2>2
  <2>5. PICK x \in Int : x = r + carry + p  BY <2>4
  <2>6. PICK y \in Int : y = x + w * s  BY <2>4, <2>5
  <2>8. s \in Int  BY <2>1
  <2>7. (y % w) = (x % w)  BY <2>6, <2>8, ModShift, Zenon
  <2> QED BY <2>3, <2>5, <2>6, <2>7 DEF r
<1>8. /\ CountOf(n) = <<c, q % w>>
      /\ CountOf(n + m) = <<(8 * (n + m)) % w, ((8 * (n + m)) \div w) % w>>
  BY <1>2 DEF CountOf
<1>9. AddLength(<<c, q % w>>, m)
         = <<(c + b) % w,
             ((q % w) + (IF ((c + b) % w) < b THEN 1 ELSE 0)
                 + m \div (w \div 8)) % w>>
  BY <1>2 DEF AddLength
<1>10. (IF ((c + b) % w) < b THEN 1 ELSE 0) = carry  BY <1>6
<1> HIDE DEF c, q, b, p, carry
<1> QED BY <1>5, <1>6, <1>7, <1>8, <1>9, <1>10

\* The byte behind a of t and of its remainder.
SameByte(t, w, a, m) == ((t % w) \div a) % m = (t \div a) % m

\* Bytes of the remainder are bytes of the number.
LEMMA LowByte ==
    ASSUME NEW t \in Nat, NEW a \in Nat \ {0}, NEW m \in Nat \ {0}, NEW z \in Nat \ {0},
           NEW w \in Nat \ {0}, w = a * (m * z)
    PROVE  SameByte(t, w, a, m)
<1> DEFINE q == t \div w
           r == t % w
           s == r \div a
           x == r % a
<1>2. q \in Nat /\ r \in Nat /\ t = w * q + r
  <2>1. q \in Nat /\ r \in 0 .. w - 1 /\ t = w * q + r  BY DivMod, Zenon
  <2> HIDE DEF q, r
  <2> QED BY <2>1
<1>3. s \in Nat /\ x \in 0 .. a - 1 /\ r = a * s + x
  <2> HIDE DEF r
  <2> QED BY <1>2, DivMod
<1> HIDE DEF q, r, s, x
<1>4. w * q = a * (m * (z * q))
  <2>1. PICK u \in Nat : u = m * z  OBVIOUS
  <2>2. (a * u) * q = a * (u * q)  BY <1>2
  <2>3. (m * z) * q = m * (z * q)  BY <1>2
  <2> QED BY <2>1, <2>2, <2>3
<1>5. PICK y \in Nat : y = z * q  BY <1>2
<1>6. PICK v \in Nat : v = m * y  BY <1>5
<1>7. t = a * (v + s) + x
  <2>1. w * q = a * v  BY <1>4, <1>5, <1>6
  <2>2. a * (v + s) = a * v + a * s  BY <1>3, <1>6
  <2>3. a * v \in Nat /\ a * s \in Nat  BY <1>3, <1>6
  <2> QED BY <1>2, <1>3, <2>1, <2>2, <2>3
<1>8. t \div a = v + s
  <2>1. v + s \in Int /\ x \in Nat /\ x < a  BY <1>3, <1>6
  <2> QED BY <1>7, <2>1, DivIs
<1>9. (v + s) % m = s % m
  <2>1. PICK u \in Int : u = v + s  BY <1>3, <1>6
  <2>2. u = s + m * y  BY <1>3, <1>6, <2>1
  <2>3. s \in Int  BY <1>3
  <2>4. y \in Int  BY <1>5
  <2>5. (u % m) = (s % m)  BY <2>2, <2>3, <2>4, ModShift, Zenon
  <2> QED BY <2>1, <2>5
<1> QED BY <1>8, <1>9 DEF r, s, SameByte

\* Power is one.
LEMMA PowerIsPower == Powers(Power, ByteMod)
<1>1. \E f : Powers(f, ByteMod)  BY PowersExist, Sizes
<1> QED BY <1>1 DEF Power, Powers

\* The two words' bytes are those of the length.
LEMMA EncodeIs ==
    ASSUME NEW n \in Nat
    PROVE  /\ MD5Encode(CountOf(n)) = LengthBytes(n)
           /\ LengthBytes(n) \in Seq(Nat) /\ Len(LengthBytes(n)) = 2 * WordBytes
<1>0. PICK t \in Nat : t = 8 * n  OBVIOUS
<1>1. PICK wb \in Nat \ {0} : wb = WordBytes  BY Sizes
<1>2. PICK m \in Nat \ {0} : m = ByteMod  BY Sizes
<1>3. /\ Power \in [Nat -> Nat \ {0}] /\ \A i \in Nat : Power[i + 1] = m * Power[i]
      /\ Power[0] = 1
  BY <1>2, PowerIsPower, PowerDef
<1>4. PICK w \in Nat \ {0} : w = WordMod /\ w = Power[wb]  BY <1>1, Sizes
<1>5. ASSUME NEW i \in 0 .. wb - 1, NEW s \in Nat
      PROVE  ((s % w) \div Power[i]) % m = (s \div Power[i]) % m
  <2>1. i \in Nat /\ wb - i - 1 \in Nat  BY <1>5
  <2>2. PICK j \in Nat : j = wb - i - 1  BY <2>1
  <2>3. w = Power[i + (j + 1)]
    <3>1. i + (j + 1) = wb  BY <2>2, <2>1
    <3> QED BY <1>4, <3>1
  <2>4. Power[i + (j + 1)] = Power[i] * Power[j + 1]
    BY <2>1, <2>2, PowerIsPower, PowerSum, Sizes
  <2>5. w = Power[i] * (m * Power[j])  BY <1>3, <2>2, <2>3, <2>4
  <2>6. Power[i] \in Nat \ {0} /\ Power[j] \in Nat \ {0}  BY <1>3, <2>1, <2>2
  <2>7. PICK a \in Nat \ {0} : a = Power[i]  BY <2>6
  <2>8. PICK z \in Nat \ {0} : z = Power[j]  BY <2>6
  <2>9. w = a * (m * z)  BY <2>5, <2>7, <2>8
  <2>10. PICK v \in Nat : v = m * z  OBVIOUS
  <2>11. w = a * v  BY <2>9, <2>10
  <2>12. SameByte(s, w, a, m)
    <3>1. w = a * (m * z)  BY <2>10, <2>11
    <3> QED BY <3>1, LowByte
  <2> QED BY <2>7, <2>12 DEF SameByte
<1> DEFINE c == CountOf(n)
<1>6. c[1] = (t % w) /\ c[2] = ((t \div w) % w)
  BY <1>0, <1>4 DEF CountOf
<1> HIDE DEF c
<1>7. ASSUME NEW k \in 1 .. 2 * wb
      PROVE  (c[(k - 1) \div wb + 1] \div Power[(k - 1) % wb]) % m
               = (t \div Power[k - 1]) % m
  <2>1. CASE k =< wb
    <3>1. (k - 1) \div wb = 0 /\ (k - 1) % wb = k - 1
      <4>1. k - 1 \in Nat /\ k - 1 < wb /\ k - 1 = wb * 0 + (k - 1)  BY <2>1
      <4> QED BY <4>1, DivIs
    <3>2. k - 1 \in 0 .. wb - 1  BY <2>1
    <3> QED BY <1>5, <1>6, <3>1, <3>2
  <2>2. CASE k > wb
    <3>1. PICK i \in 0 .. wb - 1 : i = k - 1 - wb  BY <2>2
    <3>2. (k - 1) \div wb = 1 /\ (k - 1) % wb = i
      <4>1. k - 1 = wb * 1 + i /\ i \in Nat /\ i < wb  BY <3>1
      <4> QED BY <4>1, DivIs
    <3>3. PICK s \in Nat : s = t \div w  BY DivMod
    <3>4. ((s % w) \div Power[i]) % m = (s \div Power[i]) % m  BY <1>5
    <3>5. s \div Power[i] = t \div (w * Power[i])
      BY <1>3, <3>1, <3>3, DivDiv
    <3>6. w * Power[i] = Power[k - 1]
      <4>1. Power[wb + i] = Power[wb] * Power[i]
        BY <3>1, PowerIsPower, PowerSum, Sizes
      <4>2. wb + i = k - 1  BY <3>1
      <4> QED BY <1>4, <4>1, <4>2
    <3>7. c[(k - 1) \div wb + 1] = (s % w)  BY <1>6, <3>2, <3>3
    <3> QED BY <3>2, <3>4, <3>5, <3>6, <3>7
  <2> QED BY <2>1, <2>2
<1>8. MD5Encode(c) = [k \in 1 .. 2 * wb |->
                        (c[(k - 1) \div wb + 1] \div Power[(k - 1) % wb]) % m]
  BY <1>1, <1>2 DEF MD5Encode
<1>9. LengthBytes(n) = [k \in 1 .. 2 * wb |-> (t \div Power[k - 1]) % m]
  BY <1>0, <1>1, <1>2 DEF LengthBytes
<1>10. MD5Encode(c) = LengthBytes(n)  BY <1>7, <1>8, <1>9
<1>11. LengthBytes(n) \in [1 .. 2 * wb -> Nat]
  <2>1. ASSUME NEW k \in 1 .. 2 * wb PROVE (t \div Power[k - 1]) % m \in Nat
    <3>1. t \div Power[k - 1] \in Nat
      <4>1. Power[k - 1] \in Nat \ {0}  BY <1>3
      <4> QED BY <4>1, DivMod
    <3> QED BY <3>1, DivMod
  <2> QED BY <1>9, <2>1
<1>12. LengthBytes(n) \in Seq(Nat) /\ Len(LengthBytes(n)) = 2 * WordBytes
  BY <1>1, <1>11, FunctionSeq
<1> QED BY <1>10, <1>12 DEF c

-----------------------------------------------------------------------------
(* The buffer.                                                             *)

\* z is the n values of s behind the first a.
IsPiece(z, s, a, n) ==
    /\ Len(z) = n
    /\ \A j \in 1 .. n : z[j] = s[a + j]

\* A piece of a sequence.
LEMMA PieceOf ==
    ASSUME NEW U, NEW s \in Seq(U), NEW a \in Nat, NEW n \in Nat, a + n =< Len(s)
    PROVE  \E z \in Seq(U) : z = SubSeq(s, a + 1, a + n) /\ IsPiece(z, s, a, n)
<1>1. PICK z : z = SubSeq(s, a + 1, a + n)  OBVIOUS
<1>2. PICK l \in Nat : l = Len(s) /\ a + n =< l  OBVIOUS
<1>3. \A j \in 1 .. n : s[a + j] \in U  BY <1>2
<1>4. /\ z \in Seq(U) /\ Len(z) = (a + n) - (a + 1) + 1
      /\ \A j \in 1 .. (a + n) - (a + 1) + 1 : z[j] = s[a + 1 + j - 1]
  BY <1>1, <1>3
<1>5. (a + n) - (a + 1) + 1 = n /\ \A j \in 1 .. n : a + 1 + j - 1 = a + j  OBVIOUS
<1> QED BY <1>1, <1>4, <1>5 DEF IsPiece

\* z is s with t behind it.
IsJoined(z, s, t) ==
    /\ Len(z) = Len(s) + Len(t)
    /\ \A j \in 1 .. Len(s) : z[j] = s[j]
    /\ \A j \in 1 .. Len(t) : z[Len(s) + j] = t[j]

\* Two sequences in one.
LEMMA JoinOf ==
    ASSUME NEW U, NEW s \in Seq(U), NEW t \in Seq(U)
    PROVE  \E z \in Seq(U) : z = s \o t /\ IsJoined(z, s, t)
<1>1. PICK z : z = s \o t  OBVIOUS
<1>2. z \in Seq(U) /\ IsJoined(z, s, t)  BY <1>1, JoinedSeq DEF IsJoined
<1> QED BY <1>1, <1>2

\* c is b with s written behind the first i values.
IsCopied(c, b, i, s) ==
    /\ c \in Seq(Int)
    /\ Len(c) = BlockBytes
    /\ \A j \in 1 .. i : c[j] = b[j]
    /\ \A j \in 1 .. Len(s) : c[i + j] = s[j]

\* memcpy leaves what is before its place and writes what it is given.
LEMMA CopiedIs ==
    ASSUME NEW b \in Seq(Int), Len(b) = BlockBytes, NEW i \in Nat,
           NEW s \in Seq(Int), i + Len(s) =< BlockBytes
    PROVE  IsCopied(Copied(b, i, s), b, i, s)
<1>0. PICK l \in Nat : l = BlockBytes  BY Sizes
<1>1. PICK n \in Nat : n = Len(s)  OBVIOUS
<1>2. i + n =< l  BY <1>0, <1>1
<1>3. PICK x \in Seq(Int) : x = SubSeq(b, 0 + 1, 0 + i) /\ IsPiece(x, b, 0, i)
  <2>1. 0 + i =< Len(b)  BY <1>0, <1>2
  <2> QED BY <2>1, PieceOf
<1>4. PICK k \in Nat : k = l - (i + n)  BY <1>2
<1>5. PICK y \in Seq(Int) : /\ y = SubSeq(b, (i + n) + 1, (i + n) + k)
                            /\ IsPiece(y, b, i + n, k)
  <2>1. (i + n) + k =< Len(b) /\ i + n \in Nat  BY <1>0, <1>2, <1>4
  <2> QED BY <2>1, PieceOf
<1>6. PICK z \in Seq(Int) : z = x \o s /\ IsJoined(z, x, s)  BY JoinOf
<1>7. PICK c \in Seq(Int) : c = z \o y /\ IsJoined(c, z, y)  BY JoinOf
<1>8. c = Copied(b, i, s)
  <2>1. 0 + 1 = 1 /\ 0 + i = i /\ (i + n) + k = l  BY <1>2, <1>4
  <2> QED BY <1>0, <1>1, <1>3, <1>5, <1>6, <1>7, <2>1 DEF Copied
<1>9. Len(x) = i /\ Len(y) = k /\ Len(z) = i + n
  BY <1>1, <1>3, <1>5, <1>6 DEF IsPiece, IsJoined
<1>10. Len(c) = l  BY <1>2, <1>4, <1>7, <1>9 DEF IsJoined
<1>11. ASSUME NEW j \in 1 .. i PROVE c[j] = b[j]
  <2>1. j \in 1 .. Len(x) /\ j \in 1 .. Len(z) /\ 0 + j = j  BY <1>9
  <2>2. c[j] = z[j] /\ z[j] = x[j]  BY <1>6, <1>7, <2>1 DEF IsJoined
  <2>3. x[j] = b[0 + j]  BY <1>3 DEF IsPiece
  <2> QED BY <2>1, <2>2, <2>3
<1>12. ASSUME NEW j \in 1 .. n PROVE c[i + j] = s[j]
  <2>1. i + j \in 1 .. Len(z) /\ j \in 1 .. Len(s)  BY <1>1, <1>9
  <2>2. c[i + j] = z[i + j]  BY <1>7, <2>1 DEF IsJoined
  <2>3. z[Len(x) + j] = s[j]  BY <1>6, <2>1 DEF IsJoined
  <2> QED BY <1>9, <2>2, <2>3
<1> QED BY <1>0, <1>1, <1>8, <1>10, <1>11, <1>12 DEF IsCopied

\* A block of a message.
LEMMA BlockIs ==
    ASSUME NEW s \in Seq(Nat), NEW q \in Nat, NEW t \in Nat, t = BlockBytes * q,
           t + BlockBytes =< Len(s)
    PROVE  /\ Block(s, q + 1) \in Seq(Int)
           /\ IsPiece(Block(s, q + 1), s, t, BlockBytes)
<1>1. PICK b \in Nat \ {0} : b = BlockBytes  BY Sizes
<1>2. t = b * q  BY <1>1
<1>3. b * (q + 1 - 1) + 1 = t + 1 /\ b * (q + 1) = t + b  BY <1>2, SMTT(20)
<1>4. Block(s, q + 1) = SubSeq(s, t + 1, t + b)  BY <1>1, <1>3 DEF Block
<1>5. s \in Seq(Int)  OBVIOUS
<1>6. \E z \in Seq(Int) : z = SubSeq(s, t + 1, t + b) /\ IsPiece(z, s, t, b)
  <2>1. t + b =< Len(s)  BY <1>1
  <2> QED BY <1>5, <2>1, PieceOf
<1> QED BY <1>1, <1>4, <1>6

\* A context that has been given the bytes m.
StreamOf(c, m) ==
    /\ c.count = CountOf(Len(m))
    /\ c.state = Blocks(m)
    /\ c.buffer \in Seq(Int)
    /\ Len(c.buffer) = BlockBytes
    /\ \A j \in 1 .. Len(m) % BlockBytes :
          c.buffer[j] = m[BlockBytes * (Len(m) \div BlockBytes) + j]

\* At first it has been given none.
LEMMA StreamInit == StreamOf(MD5Init, << >>)
<1>1. PICK b \in Nat \ {0} : b = BlockBytes  BY Sizes
<1>2. PICK w \in Nat \ {0} : w = WordMod  BY Sizes
<1>3. (0 % b) = 0 /\ 0 \div b = 0 /\ (0 % w) = 0 /\ 0 \div w = 0
  <2>1. 0 = b * 0 + 0 /\ 0 = w * 0 + 0 /\ 0 < b /\ 0 < w  OBVIOUS
  <2> QED BY <2>1, DivIs
<1>4. Len(<< >>) = 0 /\ 8 * 0 = 0  OBVIOUS
<1>5. CountOf(0) = <<0, 0>>  BY <1>2, <1>3, <1>4 DEF CountOf
<1>6. Blocks(<< >>) = << >>  BY <1>1, <1>3, <1>4 DEF Blocks
<1>7. [j \in 1 .. b |-> Garbage] \in [1 .. b -> Int]  BY DEF Garbage
<1>8. [j \in 1 .. b |-> Garbage] \in Seq(Int) /\ Len([j \in 1 .. b |-> Garbage]) = b
  BY <1>7, FunctionSeq
<1> QED BY <1>1, <1>3, <1>4, <1>5, <1>6, <1>8 DEF StreamOf, MD5Init

\* An update: the message so far is q blocks and i bytes, and with n bytes
\* of s it is x.
Together(c, m, s, x, i, q, t, n) ==
    /\ m \in Seq(Nat) /\ s \in Seq(Nat) /\ x \in Seq(Nat)
    /\ x = m \o s /\ IsJoined(x, m, s)
    /\ q \in Nat /\ t \in Nat /\ t = BlockBytes * q
    /\ i \in Nat /\ i < BlockBytes
    /\ n \in Nat /\ n = Len(s)
    /\ Len(m) = t + i
    /\ Filled(c) = i
    /\ AddLength(c.count, n) = CountOf(Len(x))
    /\ c.state = Blocks(m) /\ Len(m) \div BlockBytes = q
    /\ c.buffer \in Seq(Int) /\ Len(c.buffer) = BlockBytes
    /\ IsPiece(SubSeq(c.buffer, 1, i), m, t, i)

\* Every context and piece are so.
LEMMA TogetherIs ==
    ASSUME NEW c, NEW m \in Seq(Nat), NEW s \in Seq(Nat), StreamOf(c, m)
    PROVE  \E x, i, q, t, n : Together(c, m, s, x, i, q, t, n)
<1>1. PICK b \in Nat \ {0} : b = BlockBytes  BY Sizes
<1>2. PICK l \in Nat : l = Len(m)  OBVIOUS
<1>3. PICK n \in Nat : n = Len(s)  OBVIOUS
<1>4. PICK x \in Seq(Nat) : x = m \o s /\ IsJoined(x, m, s)  BY JoinOf
<1>5. l \div b \in Nat /\ (l % b) \in 0 .. b - 1 /\ l = b * (l \div b) + (l % b)
  BY DivMod
<1>6. PICK i \in Nat : i = l % b  BY <1>5
<1>7. PICK q \in Nat : q = l \div b  BY <1>5
<1>8. PICK t \in Nat : t = b * q  OBVIOUS
<1>9. i < b /\ l = t + i  BY <1>5, <1>6, <1>7, <1>8
<1>10. Filled(c) = i
  <2>1. c.count[1] = (8 * l) % WordMod  BY <1>2 DEF StreamOf, CountOf
  <2>2. (((8 * l) % WordMod) \div 8) % BlockBytes = l % BlockBytes  BY FilledIs
  <2> QED BY <1>1, <1>6, <2>1, <2>2 DEF Filled
<1>11. AddLength(c.count, n) = CountOf(Len(x))
  <2>1. c.count = CountOf(l)  BY <1>2 DEF StreamOf
  <2>2. Len(x) = l + n  BY <1>2, <1>3, <1>4 DEF IsJoined
  <2> QED BY <2>1, <2>2, AddLengthIs
<1>12. c.buffer \in Seq(Int) /\ Len(c.buffer) = b /\ c.state = Blocks(m)
       /\ \A j \in 1 .. i : c.buffer[j] = m[t + j]
  BY <1>1, <1>2, <1>6, <1>7, <1>8 DEF StreamOf
<1>13. IsPiece(SubSeq(c.buffer, 1, i), m, t, i)
  <2>1. \E z \in Seq(Int) : z = SubSeq(c.buffer, 0 + 1, 0 + i)
                            /\ IsPiece(z, c.buffer, 0, i)
    <3>1. 0 + i =< Len(c.buffer)  BY <1>9, <1>12
    <3> QED BY <1>12, <3>1, PieceOf
  <2>2. 0 + 1 = 1 /\ 0 + i = i /\ \A j \in 1 .. i : 0 + j = j  OBVIOUS
  <2> QED BY <1>12, <2>1, <2>2 DEF IsPiece
<1>14. Len(m) \div BlockBytes = q /\ t = BlockBytes * q /\ i < BlockBytes
       /\ Len(m) = t + i /\ Len(c.buffer) = BlockBytes
  BY <1>1, <1>2, <1>7, <1>8, <1>9, <1>12
<1> QED BY <1>3, <1>4, <1>10, <1>11, <1>12, <1>13, <1>14 DEF Together

\* The blocks of a message stay when something is put behind it.
LEMMA BlocksStay ==
    ASSUME NEW c, NEW m, NEW s, NEW x, NEW i, NEW q, NEW t, NEW n,
           Together(c, m, s, x, i, q, t, n), NEW k \in 1 .. q
    PROVE  /\ Block(x, k) = Block(m, k) /\ Blocks(m)[k] = Block(m, k)
           /\ Block(x, k) \in Seq(Int)
<1>1. PICK b \in Nat \ {0} : b = BlockBytes  BY Sizes
<1>2. /\ m \in Seq(Nat) /\ x \in Seq(Nat) /\ q \in Nat /\ t \in Nat /\ i \in Nat
      /\ t = b * q /\ Len(m) = t + i /\ Len(m) \div BlockBytes = q
      /\ Len(x) >= Len(m) /\ \A j \in 1 .. Len(m) : x[j] = m[j]
  <2>1. /\ m \in Seq(Nat) /\ x \in Seq(Nat) /\ q \in Nat /\ t \in Nat /\ i \in Nat
        /\ t = b * q /\ Len(m) = t + i /\ Len(m) \div BlockBytes = q
        /\ s \in Seq(Nat) /\ IsJoined(x, m, s)
    BY <1>1 DEF Together
  <2>0. m \in Seq(Nat) /\ s \in Seq(Nat)  BY <2>1
  <2>2. PICK l, n1 \in Nat : l = Len(m) /\ n1 = Len(s)  BY <2>0
  <2>3. Len(x) = l + n1 /\ \A j \in 1 .. l : x[j] = m[j]
    BY <2>1, <2>2 DEF IsJoined
  <2>4. Len(x) >= l  BY <2>2, <2>3
  <2> QED BY <2>1, <2>2, <2>3, <2>4
<1>3. PICK p \in Nat : k = p + 1 /\ p + 1 =< q  BY <1>2
<1>4. PICK d \in Nat : d = b * p  OBVIOUS
<1>5. d + b =< t
  <2>1. b * (p + 1) =< b * q  BY <1>2, <1>3
  <2>2. b * (p + 1) = b * p + b  OBVIOUS
  <2> QED BY <1>2, <1>4, <2>1, <2>2
<1>6. d = BlockBytes * p /\ d + BlockBytes =< Len(m) /\ d + BlockBytes =< Len(x)
  <2>0. m \in Seq(Nat) /\ x \in Seq(Nat)  BY <1>2
  <2>1. PICK l, lx \in Nat : l = Len(m) /\ lx = Len(x)  BY <2>0
  <2>2. d + b =< l /\ d + b =< lx  BY <1>2, <1>5, <2>1
  <2> QED BY <1>1, <1>4, <2>1, <2>2
<1>7. Block(x, p + 1) \in Seq(Int) /\ IsPiece(Block(x, p + 1), x, d, BlockBytes)
  BY <1>2, <1>6, BlockIs
<1>8. Block(m, p + 1) \in Seq(Int) /\ IsPiece(Block(m, p + 1), m, d, BlockBytes)
  BY <1>2, <1>6, BlockIs
<1>9. \A j \in 1 .. b : d + j \in 1 .. Len(m)  BY <1>2, <1>5
<1>10. PICK y, z \in Seq(Int) : y = Block(x, p + 1) /\ z = Block(m, p + 1)
  BY <1>7, <1>8
<1>11. /\ Len(y) = b /\ \A j \in 1 .. b : y[j] = x[d + j]
       /\ Len(z) = b /\ \A j \in 1 .. b : z[j] = m[d + j]
  BY <1>1, <1>7, <1>8, <1>10 DEF IsPiece
<1>12. \A j \in 1 .. b : y[j] = z[j]  BY <1>2, <1>9, <1>11
<1>13. y = z  BY <1>11, <1>12, SameSeq
<1>14. Blocks(m)[k] = Block(m, k)  BY <1>2 DEF Blocks
<1> QED BY <1>3, <1>10, <1>13, <1>14

\* A piece that does not fill the block waits in the buffer.
LEMMA ShortPiece ==
    ASSUME NEW c, NEW m, NEW s, NEW x, NEW i, NEW q, NEW t, NEW n,
           Together(c, m, s, x, i, q, t, n), i + n < BlockBytes
    PROVE  StreamOf(MD5Update(c, s), x)
<1>1. PICK b \in Nat \ {0} : b = BlockBytes  BY Sizes
<1>2. /\ m \in Seq(Nat) /\ s \in Seq(Nat) /\ x \in Seq(Nat)
      /\ i \in Nat /\ q \in Nat /\ n \in Nat /\ t \in Nat /\ n = Len(s)
      /\ t = b * q /\ Len(m) = t + i /\ Len(m) \div b = q
      /\ Filled(c) = i /\ AddLength(c.count, n) = CountOf(Len(x))
      /\ c.state = Blocks(m) /\ c.buffer \in Seq(Int) /\ Len(c.buffer) = BlockBytes
  BY <1>1 DEF Together
<1>3. /\ Len(x) = t + i + n
      /\ \A j \in 1 .. Len(m) : x[j] = m[j]
      /\ \A j \in 1 .. n : x[Len(m) + j] = s[j]
  BY <1>2 DEF Together, IsJoined
<1>4. \A j \in 1 .. i : c.buffer[j] = m[t + j]
  <2>1. \A j \in 1 .. i : SubSeq(c.buffer, 1, i)[j] = c.buffer[j]
    BY <1>2
  <2> QED BY <2>1 DEF Together, IsPiece
<1>5. Len(x) \div b = q /\ (Len(x) % b) = i + n
  <2>1. PICK r \in Nat : r = i + n  BY <1>2
  <2>2. PICK l \in Int : l = Len(x)  BY <1>2
  <2>3. l = b * q + r /\ r < b /\ q \in Int  BY <1>1, <1>2, <1>3, <2>1, <2>2
  <2>4. l \div b = q /\ (l % b) = r  BY <2>3, DivIs, Zenon
  <2> QED BY <2>1, <2>2, <2>4
<1>6. PICK u : u = MD5Update(c, s)  OBVIOUS
<1>7. u.count = CountOf(Len(x)) /\ u.state = c.state /\ u.buffer = Copied(c.buffer, i, s)
  <2>1. ~(n >= b - i)  BY <1>1, <1>2
  <2> QED BY <1>1, <1>2, <1>6, <2>1 DEF MD5Update
<1>8. Blocks(x) = Blocks(m)
  <2>1. \A k \in 1 .. q : Block(x, k) = Block(m, k)  BY BlocksStay
  <2> QED BY <1>1, <1>2, <1>5, <2>1 DEF Blocks
<1>9. IsCopied(u.buffer, c.buffer, i, s)
  <2>1. i + Len(s) =< BlockBytes /\ s \in Seq(Int)  BY <1>1, <1>2
  <2> QED BY <1>2, <1>7, <2>1, CopiedIs
<1>10. ASSUME NEW j \in 1 .. i + n PROVE u.buffer[j] = x[t + j]
  <2>1. CASE j =< i
    <3>0. PICK l \in Nat : l = Len(m) /\ l = t + i /\ t \in Nat /\ i \in Nat
      BY <1>2
    <3>1. j \in 1 .. i /\ t + j \in 1 .. Len(m)  BY <2>1, <3>0
    <3> QED BY <1>3, <1>4, <1>9, <3>1 DEF IsCopied
  <2>2. CASE j > i
    <3>1. PICK k \in 1 .. n : i + k = j
      <4>1. j - i \in 1 .. n /\ i + (j - i) = j  BY <1>2, <2>2
      <4> QED BY <4>1
    <3>2. Len(m) + k = t + j  BY <1>2, <3>1
    <3>3. x[Len(m) + k] = s[k] /\ u.buffer[i + k] = s[k]
      BY <1>2, <1>3, <1>9 DEF IsCopied
    <3> QED BY <3>1, <3>2, <3>3
  <2> QED BY <1>2, <2>1, <2>2
<1> QED BY <1>1, <1>2, <1>5, <1>6, <1>7, <1>8, <1>9, <1>10 DEF StreamOf, IsCopied

\* Behind what was there, the values of the piece.
LEMMA Behind ==
    ASSUME NEW c, NEW m, NEW s, NEW x, NEW i, NEW q, NEW t, NEW n,
           Together(c, m, s, x, i, q, t, n)
    PROVE  /\ x \in Seq(Nat) /\ s \in Seq(Nat) /\ m \in Seq(Nat)
           /\ i \in Nat /\ q \in Nat /\ t \in Nat /\ n \in Nat
           /\ i < BlockBytes /\ n = Len(s) /\ Len(m) = t + i
           /\ Len(x) = t + i + n
           /\ \A j \in 1 .. i : c.buffer[j] = x[t + j]
           /\ \A j \in 1 .. n : x[t + i + j] = s[j]
           /\ c.buffer \in Seq(Int) /\ Len(c.buffer) = BlockBytes
<1>1. PICK b \in Nat \ {0} : b = BlockBytes  BY Sizes
<1>2. /\ x \in Seq(Nat) /\ s \in Seq(Nat) /\ m \in Seq(Nat)
      /\ i \in Nat /\ q \in Nat /\ t \in Nat /\ n \in Nat
      /\ i < b /\ n = Len(s) /\ Len(m) = t + i
      /\ c.buffer \in Seq(Int) /\ Len(c.buffer) = b
  BY <1>1 DEF Together
<1>3. PICK l \in Nat : l = Len(m) /\ l = t + i  BY <1>2
<1>4. /\ Len(x) = l + n
      /\ \A j \in 1 .. l : x[j] = m[j]
      /\ \A j \in 1 .. n : x[l + j] = s[j]
  BY <1>2, <1>3 DEF Together, IsJoined
<1>5. PICK y \in Seq(Int) : y = c.buffer /\ Len(y) = b  BY <1>2
<1>6. \A j \in 1 .. i : SubSeq(y, 1, i)[j] = y[j]  BY <1>1, <1>2, <1>5
<1>7. \A j \in 1 .. i : SubSeq(y, 1, i)[j] = m[t + j]
  BY <1>5 DEF Together, IsPiece
<1>8. ASSUME NEW j \in 1 .. i PROVE c.buffer[j] = x[t + j]
  <2>1. t + j \in 1 .. l  BY <1>2, <1>3
  <2> QED BY <1>4, <1>5, <1>6, <1>7, <2>1
<1> QED BY <1>1, <1>2, <1>3, <1>4, <1>8

\* The buffer filled up is the next block.
LEMMA FirstFilled ==
    ASSUME NEW c, NEW m, NEW s, NEW x, NEW i, NEW q, NEW t, NEW n,
           Together(c, m, s, x, i, q, t, n),
           NEW p \in Nat, i + p = BlockBytes, p =< n
    PROVE  /\ Copied(c.buffer, i, SubSeq(s, 1, p)) = Block(x, q + 1)
           /\ Block(x, q + 1) \in Seq(Int)
           /\ Len(Block(x, q + 1)) = BlockBytes
<1>1. PICK b \in Nat \ {0} : b = BlockBytes  BY Sizes
<1>2. /\ x \in Seq(Nat) /\ s \in Seq(Nat)
      /\ i \in Nat /\ q \in Nat /\ t \in Nat /\ n \in Nat
      /\ i < b /\ n = Len(s)
      /\ Len(x) = t + i + n
      /\ \A j \in 1 .. i : c.buffer[j] = x[t + j]
      /\ \A j \in 1 .. n : x[t + i + j] = s[j]
      /\ c.buffer \in Seq(Int) /\ Len(c.buffer) = b
  <2>1. /\ x \in Seq(Nat) /\ s \in Seq(Nat) /\ m \in Seq(Nat)
        /\ i \in Nat /\ q \in Nat /\ t \in Nat /\ n \in Nat
        /\ i < BlockBytes /\ n = Len(s) /\ Len(m) = t + i
        /\ Len(x) = t + i + n
        /\ \A j \in 1 .. i : c.buffer[j] = x[t + j]
        /\ \A j \in 1 .. n : x[t + i + j] = s[j]
        /\ c.buffer \in Seq(Int) /\ Len(c.buffer) = BlockBytes
    BY Behind, Zenon
  <2> QED BY <1>1, <2>1
<1>3. PICK z \in Seq(Int) : z = SubSeq(s, 0 + 1, 0 + p) /\ IsPiece(z, s, 0, p)
  <2>1. s \in Seq(Int) /\ 0 + p =< Len(s)  BY <1>2
  <2> QED BY <2>1, PieceOf
<1>4. z = SubSeq(s, 1, p) /\ Len(z) = p /\ \A j \in 1 .. p : z[j] = s[j]
  <2>1. 0 + 1 = 1 /\ 0 + p = p /\ \A j \in 1 .. p : 0 + j = j  OBVIOUS
  <2> QED BY <1>3, <2>1 DEF IsPiece
<1>5. IsCopied(Copied(c.buffer, i, z), c.buffer, i, z)
  <2>1. i + Len(z) =< BlockBytes  BY <1>1, <1>2, <1>4
  <2> QED BY <1>1, <1>2, <2>1, CopiedIs
<1>6. PICK f : f = Copied(c.buffer, i, z)  OBVIOUS
<1>7. /\ f \in Seq(Int) /\ Len(f) = b
      /\ \A j \in 1 .. i : f[j] = c.buffer[j]
      /\ \A j \in 1 .. p : f[i + j] = z[j]
  BY <1>1, <1>4, <1>5, <1>6 DEF IsCopied
<1>8. t = BlockBytes * q  BY DEF Together
<1>9. Block(x, q + 1) \in Seq(Int) /\ IsPiece(Block(x, q + 1), x, t, BlockBytes)
  <2>1. t + BlockBytes =< Len(x)  BY <1>1, <1>2
  <2> QED BY <1>2, <1>8, <2>1, BlockIs
<1>10. PICK g \in Seq(Int) : g = Block(x, q + 1)  BY <1>9
<1>11. Len(g) = b /\ \A j \in 1 .. b : g[j] = x[t + j]
  BY <1>1, <1>9, <1>10 DEF IsPiece
<1>12. ASSUME NEW j \in 1 .. b PROVE f[j] = g[j]
  <2>1. CASE j =< i
    <3>1. j \in 1 .. i  BY <1>2, <2>1
    <3> QED BY <1>2, <1>7, <1>11, <3>1
  <2>2. CASE j > i
    <3>1. PICK k \in 1 .. p : j = i + k
      <4>1. j - i \in 1 .. p /\ j = i + (j - i)  BY <1>1, <1>2, <2>2
      <4> QED BY <4>1
    <3>2. k \in 1 .. n /\ t + j = t + i + k  BY <1>2, <3>1
    <3>3. f[j] = s[k]  BY <1>4, <1>7, <3>1
    <3>4. x[t + i + k] = s[k]  BY <1>2, <3>2
    <3> QED BY <1>11, <3>2, <3>3, <3>4
  <2> QED BY <1>2, <2>1, <2>2
<1>13. f = g  BY <1>7, <1>11, <1>12, SameSeq
<1> QED BY <1>1, <1>4, <1>6, <1>10, <1>11, <1>13

\* Where block v + 1 begins.
Begins(e, v) == e = BlockBytes * v

\* Whole blocks of the piece are blocks of the message.
LEMMA WholeBlock ==
    ASSUME NEW c, NEW m, NEW s, NEW x, NEW i, NEW q, NEW t, NEW n,
           Together(c, m, s, x, i, q, t, n),
           NEW p \in Nat, i + p = BlockBytes, p =< n,
           NEW v \in Nat, NEW e \in Nat, Begins(e, v),
           p + e + BlockBytes =< n
    PROVE  /\ Block(SubSeq(s, p + 1, n), v + 1) = Block(x, q + 1 + v + 1)
           /\ Block(x, q + 1 + v + 1) \in Seq(Int)
<1>1. PICK b \in Nat \ {0} : b = BlockBytes  BY Sizes
<1>2. /\ x \in Seq(Nat) /\ s \in Seq(Nat)
      /\ i \in Nat /\ q \in Nat /\ t \in Nat /\ n \in Nat
      /\ i < b /\ n = Len(s)
      /\ Len(x) = t + i + n
      /\ \A j \in 1 .. n : x[t + i + j] = s[j]
  <2>1. /\ x \in Seq(Nat) /\ s \in Seq(Nat) /\ m \in Seq(Nat)
        /\ i \in Nat /\ q \in Nat /\ t \in Nat /\ n \in Nat
        /\ i < BlockBytes /\ n = Len(s) /\ Len(m) = t + i
        /\ Len(x) = t + i + n
        /\ \A j \in 1 .. i : c.buffer[j] = x[t + j]
        /\ \A j \in 1 .. n : x[t + i + j] = s[j]
        /\ c.buffer \in Seq(Int) /\ Len(c.buffer) = BlockBytes
    BY Behind, Zenon
  <2> QED BY <1>1, <2>1
<1>3. PICK k \in Nat : p + k = n
  <2>1. n - p \in Nat /\ p + (n - p) = n  BY <1>2
  <2> QED BY <2>1
<1>4. PICK y \in Seq(Nat) : y = SubSeq(s, p + 1, p + k) /\ IsPiece(y, s, p, k)
  <2>1. p + k =< Len(s)  BY <1>2, <1>3
  <2> QED BY <1>2, <2>1, PieceOf
<1>5. y = SubSeq(s, p + 1, n) /\ Len(y) = k /\ \A j \in 1 .. k : y[j] = s[p + j]
  BY <1>3, <1>4 DEF IsPiece
<1>6. Block(y, v + 1) \in Seq(Int) /\ IsPiece(Block(y, v + 1), y, e, BlockBytes)
  <2>1. e + BlockBytes =< Len(y)  BY <1>1, <1>3, <1>5
  <2> QED BY <2>1, BlockIs DEF Begins
<1>7. PICK a \in Nat : a = q + 1 + v  BY <1>2
<1>8. PICK d \in Nat : d = t + b + e  BY <1>2
<1>9. Begins(d, a)
  <2>1. t = b * q /\ e = b * v  BY <1>1 DEF Together, Begins
  <2>2. b * (q + 1 + v) = b * q + b + b * v  BY <1>2
  <2> QED BY <1>1, <1>7, <1>8, <2>1, <2>2 DEF Begins
<1>10. Block(x, a + 1) \in Seq(Int) /\ IsPiece(Block(x, a + 1), x, d, BlockBytes)
  <2>0. i \in Nat /\ n \in Nat /\ t \in Nat /\ Len(x) = t + i + n  BY <1>2
  <2>1. d + BlockBytes =< Len(x)  BY <1>1, <1>8, <2>0
  <2> QED BY <1>2, <1>9, <2>1, BlockIs DEF Begins
<1>11. PICK f, g \in Seq(Int) : f = Block(y, v + 1) /\ g = Block(x, a + 1)
  BY <1>6, <1>10
<1>12. /\ Len(f) = b /\ \A j \in 1 .. b : f[j] = y[e + j]
       /\ Len(g) = b /\ \A j \in 1 .. b : g[j] = x[d + j]
  BY <1>1, <1>6, <1>10, <1>11 DEF IsPiece
<1>13. ASSUME NEW j \in 1 .. b PROVE f[j] = g[j]
  <2>1. e + j \in 1 .. k  BY <1>1, <1>3
  <2>2. PICK l \in 1 .. n : l = p + (e + j)  BY <1>3, <2>1
  <2>3. f[j] = s[l]  BY <1>5, <1>12, <2>1, <2>2
  <2>4. t + i + l = d + j  BY <1>1, <1>2, <1>8, <2>2
  <2>5. x[t + i + l] = s[l]  BY <1>2
  <2> QED BY <1>12, <2>3, <2>4, <2>5
<1>14. f = g  BY <1>12, <1>13, SameSeq
<1> QED BY <1>5, <1>7, <1>11, <1>14

\* Where a piece is cut: w whole blocks, d bytes, and r bytes are behind the
\* first p.
IsCut(n, p, w, d, r) ==
    /\ w \in Nat /\ d \in Nat /\ r \in Nat
    /\ Begins(d, w)
    /\ r < BlockBytes
    /\ n = p + d + r
    /\ (n - p) \div BlockBytes = w

\* Every piece can be cut so.
LEMMA CutOf ==
    ASSUME NEW n \in Nat, NEW p \in Nat, p =< n
    PROVE  \E w, d, r : IsCut(n, p, w, d, r)
<1>1. PICK b \in Nat \ {0} : b = BlockBytes  BY Sizes
<1>2. PICK k \in Nat : k = n - p  OBVIOUS
<1>3. k \div b \in Nat /\ (k % b) \in 0 .. b - 1 /\ k = b * (k \div b) + (k % b)
  BY DivMod
<1>4. PICK w \in Nat : w = k \div b  BY <1>3
<1>5. PICK r \in Nat : r = k % b  BY <1>3
<1>6. PICK d \in Nat : d = b * w  OBVIOUS
<1>7. r < b /\ k = d + r  BY <1>3, <1>4, <1>5, <1>6
<1>8. n = p + d + r  BY <1>2, <1>7
<1>9. IsCut(n, p, w, d, r)  BY <1>1, <1>2, <1>4, <1>6, <1>7, <1>8 DEF IsCut, Begins
<1> QED BY <1>9

\* A message of l bytes has a blocks, of e bytes, and r bytes.
EndsAt(l, a, e, r) ==
    /\ l \div BlockBytes = a
    /\ (l % BlockBytes) = r
    /\ BlockBytes * (l \div BlockBytes) = e

\* How many blocks a message has that ends behind whole blocks of a piece.
LEMMA LengthCut ==
    ASSUME NEW q \in Nat, NEW t \in Nat, Begins(t, q), NEW i \in Nat,
           NEW n \in Nat, NEW p \in Nat, i + p = BlockBytes,
           NEW w, NEW d, NEW r, IsCut(n, p, w, d, r),
           NEW l \in Nat, l = t + i + n
    PROVE  EndsAt(l, q + 1 + w, t + BlockBytes + d, r)
<1>1. PICK b \in Nat \ {0} : b = BlockBytes  BY Sizes
<1>2. w \in Nat /\ d \in Nat /\ r \in Nat /\ r < b /\ n = p + d + r
  BY <1>1 DEF IsCut
<1>3. PICK a \in Int : a = q + 1 + w  BY <1>2
<1>4. b * a = t + b + d
  <2>1. t = b * q /\ d = b * w  BY <1>1 DEF Begins, IsCut
  <2>2. b * (q + 1 + w) = b * q + b + b * w  BY <1>2
  <2> QED BY <1>3, <2>1, <2>2
<1>5. l = (t + b + d) + r  BY <1>1, <1>2
<1>6. l = b * a + r  BY <1>4, <1>5
<1>7. l \div b = a /\ (l % b) = r
  <2>1. l \in Int  OBVIOUS
  <2> QED BY <1>2, <1>6, <2>1, DivIs, Zenon
<1> QED BY <1>1, <1>3, <1>4, <1>7 DEF EndsAt

\* Nothing copied to the front changes nothing.
LEMMA CopiedNothing ==
    ASSUME NEW f \in Seq(Int), Len(f) = BlockBytes, NEW s, s = << >>
    PROVE  Copied(f, 0, s) = f
<1>1. PICK b \in Nat : b = BlockBytes  BY Sizes
<1>2. IsCopied(Copied(f, 0, s), f, 0, s)
  <2>1. s \in Seq(Int) /\ 0 + Len(s) =< BlockBytes  BY <1>1
  <2> QED BY <2>1, CopiedIs
<1>3. Copied(f, 0, s) = SubSeq(f, 1, 0) \o s \o SubSeq(f, 1, b)
  <2>1. 0 + Len(s) + 1 = 1  OBVIOUS
  <2> QED BY <1>1, <2>1 DEF Copied
<1>4. SubSeq(f, 1, b) = f /\ SubSeq(f, 1, 0) = << >>  BY <1>1
<1>5. << >> \o s = << >> /\ << >> \o f = f  OBVIOUS
<1> QED BY <1>3, <1>4, <1>5

\* y is s with g at its end.
IsAppended(y, s, g) ==
    /\ Len(y) = Len(s) + 1
    /\ y[Len(s) + 1] = g
    /\ \A k \in 1 .. Len(s) : y[k] = s[k]

\* One value behind.
LEMMA AppendOf ==
    ASSUME NEW U, NEW s \in Seq(U), NEW g \in U
    PROVE  \E y \in Seq(U) : y = Append(s, g) /\ IsAppended(y, s, g)
<1>1. PICK y : y = Append(s, g)  OBVIOUS
<1>2. y \in Seq(U) /\ Len(y) = Len(s) + 1  BY <1>1
<1>3. y[Len(s) + 1] = g  BY <1>1
<1>4. \A k \in 1 .. Len(s) : y[k] = s[k]  BY <1>1
<1> QED BY <1>1, <1>2, <1>3, <1>4 DEF IsAppended

\* The state with the block filled up and w whole blocks of a piece.
StateIs(c, s, x, q, p, n, w) ==
    MD5Transform(c.state, Block(x, q + 1))
        \o [k \in 1 .. w |-> Block(SubSeq(s, p + 1, n), k)] = Blocks(x)

\* The state behind a piece that fills the block is the blocks of both.
LEMMA LongState ==
    ASSUME NEW c, NEW m, NEW s, NEW x, NEW i, NEW q, NEW t, NEW n,
           Together(c, m, s, x, i, q, t, n),
           NEW p \in Nat, i + p = BlockBytes, p =< n,
           NEW w, NEW d, NEW r, IsCut(n, p, w, d, r),
           Len(x) \div BlockBytes = q + 1 + w
    PROVE  StateIs(c, s, x, q, p, n, w)
<1>1. PICK b \in Nat \ {0} : b = BlockBytes  BY Sizes
<1>2. /\ q \in Nat /\ w \in Nat /\ c.state = Blocks(m)
      /\ Len(m) \div BlockBytes = q
  BY DEF Together, IsCut
<1>3. ASSUME NEW k \in 1 .. q
      PROVE  Blocks(m)[k] = Block(x, k) /\ Block(x, k) \in Seq(Int)
  <2>1. /\ Block(x, k) = Block(m, k) /\ Blocks(m)[k] = Block(m, k)
        /\ Block(x, k) \in Seq(Int)
    BY BlocksStay
  <2> QED BY <2>1
<1>4. Block(x, q + 1) \in Seq(Int)  BY FirstFilled
<1>5. ASSUME NEW k \in 1 .. w
      PROVE  /\ Block(SubSeq(s, p + 1, n), k) = Block(x, q + 1 + k)
             /\ Block(x, q + 1 + k) \in Seq(Int)
  <2>1. PICK v \in Nat : k = v + 1 /\ v + 1 =< w  BY <1>2
  <2>2. PICK e \in Nat : e = b * v  OBVIOUS
  <2>3. Begins(e, v)  BY <1>1, <2>2 DEF Begins
  <2>4. e + b =< d
    <3>1. d = b * w  BY <1>1 DEF IsCut, Begins
    <3>2. b * (v + 1) =< b * w  BY <1>2, <2>1
    <3>3. b * (v + 1) = b * v + b  OBVIOUS
    <3> QED BY <2>2, <3>1, <3>2, <3>3
  <2>5. p + e + BlockBytes =< n
    <3>1. n = p + d + r /\ d \in Nat /\ r \in Nat  BY DEF IsCut
    <3> QED BY <1>1, <2>4, <3>1
  <2>6. /\ Block(SubSeq(s, p + 1, n), v + 1) = Block(x, q + 1 + v + 1)
        /\ Block(x, q + 1 + v + 1) \in Seq(Int)
    BY <2>3, <2>5, WholeBlock
  <2>7. q + 1 + v + 1 = q + 1 + k  BY <1>2, <2>1
  <2> QED BY <2>1, <2>6, <2>7
<1> DEFINE U == Seq(Int)
           whole == [k \in 1 .. w |-> Block(SubSeq(s, p + 1, n), k)]
           front == Blocks(m)
<1>6. whole \in Seq(U) /\ Len(whole) = w
      /\ \A k \in 1 .. w : whole[k] = Block(x, q + 1 + k)
  <2>1. whole \in [1 .. w -> U]  BY <1>5
  <2>2. \A k \in 1 .. w : whole[k] = Block(x, q + 1 + k)  BY <1>5
  <2> HIDE DEF whole, U
  <2> QED BY <1>2, <2>1, <2>2, FunctionSeq
<1>7. front \in Seq(U) /\ Len(front) = q
  <2>1. front \in [1 .. q -> U]  BY <1>2, <1>3 DEF Blocks
  <2> HIDE DEF front, U
  <2> QED BY <1>2, <2>1, FunctionSeq
<1>8. PICK g \in U : g = Block(x, q + 1)  BY <1>4
<1>9. PICK y \in Seq(U) : y = Append(front, g) /\ IsAppended(y, front, g)
  <2> HIDE DEF front, U
  <2> QED BY <1>7, <1>8, AppendOf
<1>10. Len(y) = q + 1 /\ y[q + 1] = g /\ \A k \in 1 .. q : y[k] = front[k]
  <2> HIDE DEF front, U
  <2> QED BY <1>7, <1>9 DEF IsAppended
<1>11. PICK z \in Seq(U) : z = y \o whole /\ IsJoined(z, y, whole)
  <2> HIDE DEF whole, U
  <2> QED BY <1>6, JoinOf
<1> HIDE DEF whole, U
<1>12. /\ Len(z) = q + 1 + w
       /\ \A k \in 1 .. q + 1 : z[k] = y[k]
       /\ \A k \in 1 .. w : z[q + 1 + k] = whole[k]
  BY <1>6, <1>10, <1>11 DEF IsJoined
<1>13. ASSUME NEW k \in 1 .. q + 1 + w PROVE z[k] = Block(x, k)
  <2>1. CASE k =< q
    <3>1. k \in 1 .. q /\ k \in 1 .. q + 1  BY <1>2, <2>1
    <3> QED BY <1>3, <1>10, <1>12, <3>1
  <2>2. CASE k = q + 1
    <3>1. q + 1 \in 1 .. q + 1  BY <1>2
    <3> QED BY <1>8, <1>10, <1>12, <2>2, <3>1
  <2>3. CASE k > q + 1
    <3>1. PICK l \in 1 .. w : k = q + 1 + l
      <4>1. k - (q + 1) \in 1 .. w /\ k = q + 1 + (k - (q + 1))  BY <1>2, <2>3
      <4> QED BY <4>1
    <3> QED BY <1>6, <1>12, <3>1
  <2> QED BY <1>2, <2>1, <2>2, <2>3
<1>14. z = [k \in 1 .. q + 1 + w |-> Block(x, k)]
  <2>1. z = [k \in 1 .. Len(z) |-> z[k]]  BY SeqFunction
  <2> QED BY <1>12, <1>13, <2>1
<1>15. Blocks(x) = [k \in 1 .. q + 1 + w |-> Block(x, k)]  BY DEF Blocks
<1> QED BY <1>2, <1>8, <1>9, <1>11, <1>14, <1>15 DEF StateIs, MD5Transform, whole

\* A piece that fills the block leaves what is behind its last whole block.
LEMMA LongPiece ==
    ASSUME NEW c, NEW m, NEW s, NEW x, NEW i, NEW q, NEW t, NEW n,
           Together(c, m, s, x, i, q, t, n),
           NEW p \in Nat, i + p = BlockBytes, p =< n
    PROVE  /\ StreamOf(MD5Update(c, s), x)
           /\ p = n => /\ Len(Blocks(x)) = q + 1
                       /\ MD5Update(c, s).buffer = Blocks(x)[q + 1]
<1>1. PICK b \in Nat \ {0} : b = BlockBytes  BY Sizes
<1>2. /\ x \in Seq(Nat) /\ s \in Seq(Nat)
      /\ i \in Nat /\ q \in Nat /\ t \in Nat /\ n \in Nat
      /\ i < b /\ n = Len(s)
      /\ Len(x) = t + i + n
      /\ \A j \in 1 .. n : x[t + i + j] = s[j]
  <2>1. /\ x \in Seq(Nat) /\ s \in Seq(Nat) /\ m \in Seq(Nat)
        /\ i \in Nat /\ q \in Nat /\ t \in Nat /\ n \in Nat
        /\ i < BlockBytes /\ n = Len(s) /\ Len(m) = t + i
        /\ Len(x) = t + i + n
        /\ \A j \in 1 .. i : c.buffer[j] = x[t + j]
        /\ \A j \in 1 .. n : x[t + i + j] = s[j]
        /\ c.buffer \in Seq(Int) /\ Len(c.buffer) = BlockBytes
    BY Behind, Zenon
  <2> QED BY <1>1, <2>1
<1>3. Begins(t, q) /\ Filled(c) = i /\ AddLength(c.count, n) = CountOf(Len(x))
  BY DEF Together, Begins
<1>4. PICK w, d, r : IsCut(n, p, w, d, r)  BY <1>2, CutOf
<1>5. w \in Nat /\ d \in Nat /\ r \in Nat /\ r < b /\ n = p + d + r
      /\ (n - p) \div b = w /\ Begins(d, w)
  BY <1>1, <1>4 DEF IsCut
<1>6. PICK l \in Nat : l = Len(x) /\ l = t + i + n  BY <1>2
<1>7. /\ l \div BlockBytes = q + 1 + w
      /\ (l % BlockBytes) = r
      /\ BlockBytes * (l \div BlockBytes) = t + BlockBytes + d
  <2>1. EndsAt(l, q + 1 + w, t + BlockBytes + d, r)
    BY <1>2, <1>3, <1>4, <1>6, LengthCut
  <2> QED BY <2>1 DEF EndsAt
<1>8. PICK g \in Seq(Int) :
         /\ g = Block(x, q + 1) /\ Len(g) = BlockBytes
         /\ Copied(c.buffer, i, SubSeq(s, 1, p)) = g
  <2>1. /\ Copied(c.buffer, i, SubSeq(s, 1, p)) = Block(x, q + 1)
        /\ Block(x, q + 1) \in Seq(Int)
        /\ Len(Block(x, q + 1)) = BlockBytes
    BY FirstFilled
  <2> QED BY <2>1
<1>9. PICK y \in Seq(Int) : /\ y = SubSeq(s, (p + d) + 1, (p + d) + r)
                            /\ IsPiece(y, s, p + d, r)
  <2>1. s \in Seq(Int) /\ (p + d) + r =< Len(s) /\ p + d \in Nat  BY <1>2, <1>5
  <2> QED BY <1>5, <2>1, PieceOf
<1>10. PICK u : u = MD5Update(c, s)  OBVIOUS
<1>11. /\ u.count = CountOf(Len(x))
       /\ u.state = MD5Transform(c.state, g)
                       \o [k \in 1 .. w |-> Block(SubSeq(s, p + 1, n), k)]
       /\ u.buffer = Copied(g, 0, y)
  <2>1. b - i = p /\ n >= p
    <3>1. i + p = b  BY <1>1
    <3>2. i \in Nat /\ n \in Nat  BY <1>2
    <3> QED BY <3>1, <3>2
  <2>3. b * w = d  BY <1>1, <1>5 DEF Begins
  <2>2. y = SubSeq(s, p + BlockBytes * w + 1, n)
    <3>1. y = SubSeq(s, p + d + 1, p + d + r)  BY <1>9
    <3>2. BlockBytes * w = d  BY <1>1, <2>3
    <3> QED BY <1>5, <3>1, <3>2
  <2>4. BlockBytes - Filled(c) = p /\ n = Len(s) /\ n >= p /\ Filled(c) = i
        /\ (n - p) \div BlockBytes = w
    BY <1>1, <1>2, <1>3, <1>5, <2>1
  <2>5. /\ u.count = AddLength(c.count, n)
        /\ u.state = MD5Transform(c.state, Copied(c.buffer, i, SubSeq(s, 1, p)))
                        \o [k \in 1 .. w |-> Block(SubSeq(s, p + 1, n), k)]
        /\ u.buffer = Copied(Copied(c.buffer, i, SubSeq(s, 1, p)), 0,
                             SubSeq(s, p + BlockBytes * w + 1, n))
    BY <1>10, <2>4 DEF MD5Update
  <2>6. u.count = CountOf(Len(x))  BY <1>3, <2>5
  <2>7. u.state = MD5Transform(c.state, g)
                     \o [k \in 1 .. w |-> Block(SubSeq(s, p + 1, n), k)]
    BY <1>8, <2>5, Zenon
  <2>8. u.buffer = Copied(g, 0, y)  BY <1>8, <2>2, <2>5, Zenon
  <2> QED BY <2>6, <2>7, <2>8
<1>12. u.state = Blocks(x)
  <2>1. Len(x) \div BlockBytes = q + 1 + w  BY <1>6, <1>7
  <2>2. StateIs(c, s, x, q, p, n, w)  BY <1>4, <2>1, LongState
  <2> QED BY <1>8, <1>11, <2>2, Zenon DEF StateIs
<1>13. IsCopied(u.buffer, g, 0, y)
  <2>1. 0 + Len(y) =< BlockBytes  BY <1>1, <1>5, <1>9 DEF IsPiece
  <2> QED BY <1>8, <1>11, <2>1, CopiedIs
<1>14. ASSUME NEW j \in 1 .. r PROVE u.buffer[j] = x[(t + BlockBytes + d) + j]
  <2>1. j \in 1 .. Len(y) /\ 0 + j = j  BY <1>5, <1>9 DEF IsPiece
  <2>2. u.buffer[j] = y[j]  BY <1>13, <2>1 DEF IsCopied
  <2>3. y[j] = s[(p + d) + j]  BY <1>9 DEF IsPiece
  <2>4. PICK k \in 1 .. n : k = (p + d) + j  BY <1>5
  <2>5. t + i + k = (t + BlockBytes + d) + j  BY <1>1, <1>2, <1>5, <2>4
  <2>6. x[t + i + k] = s[k]  BY <1>2
  <2> QED BY <2>2, <2>3, <2>4, <2>5, <2>6
<1>15. StreamOf(u, x)
  BY <1>6, <1>7, <1>11, <1>12, <1>13, <1>14 DEF StreamOf, IsCopied
<1>16. ASSUME p = n PROVE Len(Blocks(x)) = q + 1 /\ u.buffer = Blocks(x)[q + 1]
  <2>1. d = 0 /\ r = 0 /\ w = 0
    <3>1. d = 0 /\ r = 0  BY <1>5, <1>16
    <3>2. n - p = 0 /\ 0 \div b = 0  BY <1>2, <1>16
    <3> QED BY <1>5, <3>1, <3>2
  <2>2. y = << >>  BY <1>9, <2>1 DEF IsPiece
  <2>3. u.buffer = g  BY <1>8, <1>11, <2>2, CopiedNothing
  <2>4. Blocks(x) = [k \in 1 .. q + 1 |-> Block(x, k)]
    <3>1. q + 1 + w = q + 1  BY <1>2, <2>1
    <3> QED BY <1>6, <1>7, <3>1 DEF Blocks
  <2>5. q + 1 \in 1 .. q + 1 /\ q + 1 \in Nat  BY <1>2
  <2>6. Blocks(x)[q + 1] = g  BY <1>8, <2>4, <2>5
  <2>7. Len(Blocks(x)) = q + 1
    <3> DEFINE f == [k \in 1 .. q + 1 |-> Block(x, k)]
    <3>1. DOMAIN f = 1 .. q + 1  OBVIOUS
    <3>2. f \in [1 .. q + 1 -> {Block(x, k) : k \in 1 .. q + 1}]  OBVIOUS
    <3> HIDE DEF f
    <3>3. Len(f) = q + 1  BY <2>5, <3>2, FunctionSeq
    <3> QED BY <2>4, <3>3 DEF f
  <2> QED BY <2>3, <2>6, <2>7
<1> QED BY <1>10, <1>15, <1>16

\* An update adds its piece to what the context has been given, whatever the
\* piece's length.
LEMMA StreamUpdate ==
    ASSUME NEW c, NEW m \in Seq(Nat), NEW s \in Seq(Nat), StreamOf(c, m)
    PROVE  /\ m \o s \in Seq(Nat)
           /\ StreamOf(MD5Update(c, s), m \o s)
           /\ Filled(c) + Len(s) = BlockBytes
              => /\ Len(Blocks(m \o s)) \in Nat \ {0}
                 /\ MD5Update(c, s).buffer = Blocks(m \o s)[Len(Blocks(m \o s))]
<1>1. PICK x, i, q, t, n : Together(c, m, s, x, i, q, t, n)  BY TogetherIs
<1>2. PICK b \in Nat \ {0} : b = BlockBytes  BY Sizes
<1>3. /\ x = m \o s /\ x \in Seq(Nat) /\ i \in Nat /\ i < b /\ n \in Nat /\ q \in Nat
      /\ n = Len(s) /\ Filled(c) = i
  BY <1>1, <1>2 DEF Together
<1>4. CASE i + n < b
  <2>1. StreamOf(MD5Update(c, s), x)  BY <1>1, <1>2, <1>4, ShortPiece
  <2>2. ~(Filled(c) + Len(s) = BlockBytes)  BY <1>2, <1>3, <1>4
  <2> QED BY <1>3, <2>1, <2>2
<1>5. CASE i + n >= b
  <2>1. PICK p \in Nat : i + p = b /\ p =< n
    <3>1. b - i \in Nat /\ i + (b - i) = b /\ b - i =< n  BY <1>3, <1>5
    <3> QED BY <3>1
  <2>2. /\ StreamOf(MD5Update(c, s), x)
        /\ p = n => /\ Len(Blocks(x)) = q + 1
                    /\ MD5Update(c, s).buffer = Blocks(x)[q + 1]
    BY <1>1, <1>2, <2>1, LongPiece
  <2>3. Filled(c) + Len(s) = BlockBytes => p = n  BY <1>2, <1>3, <2>1
  <2> QED BY <1>3, <2>2, <2>3
<1> QED BY <1>3, <1>4, <1>5

-----------------------------------------------------------------------------
(* The end.                                                                *)

\* The padding goes up to where the length does, and fits PADDING.
LEMMA PadIs ==
    ASSUME NEW i \in Nat, i < BlockBytes
    PROVE  /\ PadLength(i) \in 1 .. BlockBytes
           /\ \/ i + PadLength(i) = BlockBytes - 2 * WordBytes
              \/ i + PadLength(i) = 2 * BlockBytes - 2 * WordBytes
<1>1. PICK b \in Nat \ {0} : b = BlockBytes  BY Sizes
<1>2. PICK w \in Nat \ {0} : w = WordBytes  BY Sizes
<1>3. 2 * w < b  BY <1>1, <1>2, Sizes
<1> QED BY <1>1, <1>2, <1>3 DEF PadLength

\* What follows the one bit are as many zeros as Padded wants.
LEMMA ZerosAre ==
    ASSUME NEW l \in Nat
    PROVE  PadLength(l % BlockBytes)
             = 1 + ((BlockBytes - ((l + 1 + 2 * WordBytes) % BlockBytes)) % BlockBytes)
<1>1. PICK b \in Nat \ {0} : b = BlockBytes  BY Sizes
<1>2. PICK w \in Nat \ {0} : w = 2 * WordBytes /\ w < b
  <2>1. PICK v \in Nat \ {0} : v = WordBytes /\ 2 * v < b  BY <1>1, Sizes
  <2> QED BY <2>1
<1>3. PICK i \in Nat, q \in Nat : i = l % b /\ l = b * q + i /\ i < b
  <2>1. l \div b \in Nat /\ (l % b) \in 0 .. b - 1 /\ l = b * (l \div b) + (l % b)
    BY DivMod
  <2>2. PICK q \in Nat : q = l \div b  BY <2>1
  <2>3. PICK i \in Nat : i = l % b  BY <2>1
  <2>4. l = b * q + i /\ i < b  BY <2>1, <2>2, <2>3
  <2> QED BY <2>3, <2>4, Zenon
<1>4. PICK k \in Int : k = i + 1 + w  BY <1>2, <1>3
<1>5. PICK u \in Int : u = l + 1 + w  BY <1>2
<1>6. (u % b) = (k % b)
  <2>1. u = k + b * q
    <3>1. PICK e \in Nat : e = b * q  OBVIOUS
    <3> QED BY <1>2, <1>3, <1>4, <1>5, <3>1
  <2>2. q \in Int  OBVIOUS
  <2> QED BY <2>1, <2>2, ModShift, Zenon
<1>7. k >= 0 /\ k < b + b  BY <1>2, <1>3, <1>4
<1>7a. PICK z \in Int : z = k % b  OBVIOUS
<1>8. (k < b => z = k) /\ (k >= b => z = k - b)
  <2>1. CASE k < b
    <3>1. k = b * 0 + k /\ k \in Nat  BY <1>7
    <3>2. (k % b) = k  BY <2>1, <3>1, DivIs
    <3> QED BY <1>7a, <2>1, <3>2
  <2>2. CASE k >= b
    <3>1. PICK j \in Nat : j = k - b  BY <2>2
    <3>2. k = b * 1 + j /\ j < b  BY <1>7, <3>1
    <3>3. (k % b) = j  BY <3>2, DivIs
    <3> QED BY <1>7a, <2>2, <3>1, <3>3
  <2> QED BY <2>1, <2>2
<1>9. PICK j \in Nat : j = b - z  BY <1>7, <1>8
<1>10. (j % b) = IF z = 0 THEN 0 ELSE j
  <2>1. CASE z = 0
    <3>1. j = b * 1 + 0  BY <1>9, <2>1
    <3>2. (j % b) = 0  BY <3>1, DivIs
    <3> QED BY <2>1, <3>2
  <2>2. CASE z # 0
    <3>1. j = b * 0 + j /\ j < b  BY <1>7, <1>8, <1>9, <2>2
    <3>2. (j % b) = j  BY <3>1, DivIs
    <3> QED BY <2>2, <3>2
  <2> QED BY <2>1, <2>2
<1>11. PadLength(i) = 1 + (IF z = 0 THEN 0 ELSE j)
  <2>1. PadLength(i) = IF i < b - w THEN b - w - i ELSE 2 * b - w - i
    BY <1>1, <1>2 DEF PadLength
  <2>2. i < b /\ k = i + 1 + w  BY <1>3, <1>4
  <2>3. CASE k < b
    <3>1. z = k /\ j = b - k /\ z # 0  BY <1>2, <1>8, <1>9, <2>2, <2>3
    <3> QED BY <1>2, <2>1, <2>2, <2>3, <3>1
  <2>4. CASE k >= b
    <3>1. z = k - b /\ j = b - (k - b)  BY <1>8, <1>9, <2>4
    <3> QED BY <1>2, <2>1, <2>2, <2>4, <3>1
  <2> QED BY <2>3, <2>4
<1>12. PadLength(i) = 1 + (j % b)  BY <1>10, <1>11
<1> QED BY <1>7a, <1>1, <1>2, <1>3, <1>5, <1>6, <1>9, <1>12

\* A value between two sequences.
LEMMA Between ==
    ASSUME NEW U, NEW s \in Seq(U), NEW a \in U, NEW t \in Seq(U)
    PROVE  s \o <<a>> \o t = s \o (<<a>> \o t)
<1>1. <<a>> \in [1 .. 1 -> U]  OBVIOUS
<1>2. PICK f : f = <<a>>  OBVIOUS
<1>3. f \in Seq(U)  BY <1>1, <1>2, FunctionSeq
<1>4. s \o f \o t = s \o (f \o t)  BY <1>3, ConcatAssociative
<1> QED BY <1>2, <1>4

\* The padding is what Padded puts between the message and its length.
LEMMA PaddingIs ==
    ASSUME NEW n \in Nat, n + 1 =< BlockBytes
    PROVE  /\ SubSeq(PADDING, 1, n + 1) = <<128>> \o [j \in 1 .. n |-> 0]
           /\ <<128>> \o [j \in 1 .. n |-> 0] \in Seq(Nat)
           /\ [j \in 1 .. n |-> 0] \in Seq(Nat)
           /\ Len(<<128>> \o [j \in 1 .. n |-> 0]) = n + 1
<1>1. PICK b \in Nat \ {0} : b = BlockBytes  BY Sizes
<1>2. PICK z : z = [j \in 1 .. n |-> 0]  OBVIOUS
<1>3. z \in [1 .. n -> Nat] /\ \A j \in 1 .. n : z[j] = 0  BY <1>2
<1>4. z \in Seq(Nat) /\ Len(z) = n  BY <1>3, FunctionSeq
<1>5. /\ <<128>> \o z \in Seq(Nat) /\ Len(<<128>> \o z) = 1 + Len(z)
      /\ (<<128>> \o z)[1] = 128
      /\ \A j \in 1 .. Len(z) : (<<128>> \o z)[1 + j] = z[j]
  BY <1>4, PutInFront
<1>6. PICK y \in Seq(Nat) : y = <<128>> \o z  BY <1>5
<1>7. Len(y) = n + 1 /\ y[1] = 128 /\ \A j \in 1 .. n : y[1 + j] = 0
  BY <1>3, <1>4, <1>5, <1>6
<1>8. PICK f \in Seq(Nat) : f = PADDING /\ Len(f) = b
  <2>1. PADDING \in [1 .. b -> Nat]  BY <1>1 DEF PADDING
  <2>2. PADDING \in Seq(Nat) /\ Len(PADDING) = b  BY <2>1, FunctionSeq
  <2> QED BY <2>2
<1>9. \A j \in 1 .. b : f[j] = IF j = 1 THEN 128 ELSE 0  BY <1>1, <1>8 DEF PADDING
<1>10. PICK g \in Seq(Nat) : g = SubSeq(f, 0 + 1, 0 + (n + 1)) /\ IsPiece(g, f, 0, n + 1)
  <2>1. PICK k \in Nat : k = n + 1  OBVIOUS
  <2>2. 0 + k =< Len(f)  BY <1>1, <1>8, <2>1
  <2>3. \E x \in Seq(Nat) : x = SubSeq(f, 0 + 1, 0 + k) /\ IsPiece(x, f, 0, k)
    BY <2>2, PieceOf
  <2> QED BY <2>1, <2>3
<1>11. /\ Len(g) = n + 1
       /\ \A j \in 1 .. n + 1 : g[j] = f[j]
  <2>1. \A j \in 1 .. n + 1 : 0 + j = j  OBVIOUS
  <2> QED BY <1>10, <2>1 DEF IsPiece
<1>12. ASSUME NEW j \in 1 .. n + 1 PROVE g[j] = y[j]
  <2>1. j \in 1 .. b  BY <1>1
  <2>2. CASE j = 1  BY <1>7, <1>9, <1>11, <2>1, <2>2
  <2>3. CASE j # 1
    <3>1. PICK k \in 1 .. n : j = 1 + k
      <4>1. j - 1 \in 1 .. n /\ j = 1 + (j - 1)  BY <2>3
      <4> QED BY <4>1
    <3> QED BY <1>7, <1>9, <1>11, <2>1, <2>3, <3>1
  <2> QED BY <2>2, <2>3
<1>13. g = y  BY <1>7, <1>11, <1>12, SameSeq
<1>14. g = SubSeq(PADDING, 1, n + 1)
  <2>1. 0 + 1 = 1 /\ 0 + (n + 1) = n + 1  OBVIOUS
  <2> QED BY <1>8, <1>10, <2>1
<1> QED BY <1>2, <1>4, <1>6, <1>7, <1>13, <1>14

\* MD5Final leaves the blocks of the whole message in the state, and the last
\* of them in the buffer.
LEMMA FinalIs ==
    ASSUME NEW c, NEW m \in Seq(Nat), StreamOf(c, m)
    PROVE  /\ MD5Final(c).state = Blocks(Padded(m))
           /\ MD5Final(c).buffer = Blocks(Padded(m))[Len(Blocks(Padded(m)))]
<1>1. PICK b \in Nat \ {0} : b = BlockBytes  BY Sizes
<1>2. PICK w \in Nat \ {0} : w = 2 * WordBytes /\ w < b
  <2>1. PICK v \in Nat \ {0} : v = WordBytes /\ 2 * v < b  BY <1>1, Sizes
  <2> QED BY <2>1
<1>3. PICK l \in Nat : l = Len(m)  OBVIOUS
<1>4. PICK i \in Nat, q \in Nat : i = l % b /\ l = b * q + i /\ i < b
  <2>1. l \div b \in Nat /\ (l % b) \in 0 .. b - 1 /\ l = b * (l \div b) + (l % b)
    BY DivMod
  <2>2. PICK q \in Nat : q = l \div b  BY <2>1
  <2>3. PICK i \in Nat : i = l % b  BY <2>1
  <2>4. l = b * q + i /\ i < b  BY <2>1, <2>2, <2>3
  <2> QED BY <2>3, <2>4, Zenon
<1>5. Filled(c) = i
  <2>1. c.count[1] = (8 * l) % WordMod  BY <1>3 DEF StreamOf, CountOf
  <2>2. (((8 * l) % WordMod) \div 8) % BlockBytes = l % BlockBytes  BY FilledIs
  <2> QED BY <1>1, <1>4, <2>1, <2>2 DEF Filled
<1>6. PICK n \in Nat : PadLength(i) = n + 1 /\ n + 1 =< b
  <2>1. PadLength(i) \in 1 .. b  BY <1>1, <1>4, PadIs
  <2>2. PadLength(i) - 1 \in Nat /\ PadLength(i) = (PadLength(i) - 1) + 1  BY <2>1
  <2> QED BY <2>1, <2>2
<1>7. n = (b - ((l + 1 + w) % b)) % b
  <2>1. PICK z : z = (b - ((l + 1 + w) % b)) % b  OBVIOUS
  <2>2. z \in Int  BY <1>2, <2>1
  <2>3. PadLength(i) = 1 + z  BY <1>1, <1>2, <1>4, <2>1, ZerosAre
  <2> QED BY <1>6, <2>1, <2>2, <2>3
<1>8. PICK pad \in Seq(Nat) : /\ pad = SubSeq(PADDING, 1, PadLength(i))
                              /\ pad = <<128>> \o [j \in 1 .. n |-> 0]
                              /\ Len(pad) = n + 1
  BY <1>1, <1>6, PaddingIs
<1>9. PICK lb \in Seq(Nat) : lb = MD5Encode(c.count) /\ lb = LengthBytes(l) /\ Len(lb) = w
  <2>1. c.count = CountOf(l)  BY <1>3 DEF StreamOf
  <2> QED BY <1>2, <2>1, EncodeIs
<1>10. PICK c1 : c1 = MD5Update(c, pad)  OBVIOUS
<1>11. PICK x1 \in Seq(Nat) : x1 = m \o pad /\ IsJoined(x1, m, pad)  BY JoinOf
<1>12. StreamOf(c1, x1)  BY <1>10, <1>11, StreamUpdate
<1>13. Filled(c1) + Len(lb) = b
  <2>1. PICK k \in Nat : k = Len(x1) /\ k = l + (n + 1)
    BY <1>3, <1>8, <1>11 DEF IsJoined
  <2>2. c1.count[1] = (8 * k) % WordMod  BY <1>12, <2>1 DEF StreamOf, CountOf
  <2>3. (((8 * k) % WordMod) \div 8) % BlockBytes = k % BlockBytes  BY FilledIs
  <2>4. Filled(c1) = k % b  BY <1>1, <2>2, <2>3 DEF Filled
  <2>5. PICK r \in Nat : r = b - w /\ r < b  BY <1>2
  <2>6. i + (n + 1) = r \/ i + (n + 1) = r + b
    <3>1. i < BlockBytes  BY <1>1, <1>4
    <3>2. \/ i + PadLength(i) = b - w
          \/ i + PadLength(i) = 2 * b - w
      BY <1>1, <1>2, <3>1, PadIs
    <3> QED BY <1>2, <1>6, <2>5, <3>2
  <2>7. (k % b) = r
    <3>1. PICK e \in Nat : e = b * q  OBVIOUS
    <3>2. k = e + (i + (n + 1))  BY <1>4, <2>1, <3>1
    <3>3. \E a \in Int : k = b * a + r
      <4>1. CASE i + (n + 1) = r
        <5>1. k = b * q + r  BY <3>1, <3>2, <4>1
        <5>2. q \in Int  OBVIOUS
        <5> QED BY <5>1, <5>2, Zenon
      <4>2. CASE i + (n + 1) = r + b
        <5>1. k = b * (q + 1) + r
          <6>1. b * (q + 1) = e + b  BY <3>1
          <6> QED BY <2>5, <3>2, <4>2, <6>1
        <5>2. q + 1 \in Int  OBVIOUS
        <5> QED BY <5>1, <5>2, Zenon
      <4> QED BY <2>6, <4>1, <4>2
    <3>4. PICK a \in Int : k = b * a + r  BY <3>3
    <3>5. k \in Int  OBVIOUS
    <3> QED BY <2>5, <3>4, <3>5, DivIs, Zenon
  <2> QED BY <1>2, <1>9, <2>4, <2>5, <2>7
<1>14. PICK c2 : c2 = MD5Update(c1, lb)  OBVIOUS
<1>15. PICK x2 \in Seq(Nat) : x2 = x1 \o lb  BY JoinOf
<1>16. c2.state = Blocks(x2) /\ c2.buffer = Blocks(x2)[Len(Blocks(x2))]
  <2>1. /\ StreamOf(c2, x2)
        /\ c2.buffer = Blocks(x2)[Len(Blocks(x2))]
    BY <1>1, <1>12, <1>13, <1>14, <1>15, StreamUpdate
  <2> QED BY <2>1 DEF StreamOf
<1>17. MD5Final(c) = c2
  BY <1>5, <1>8, <1>9, <1>10, <1>14 DEF MD5Final
<1>18. Padded(m) = x2
  <2> DEFINE zeros == [j \in 1 .. n |-> 0]
  <2>1. Padded(m) = m \o <<128>> \o zeros \o lb
    <3>1. Padded(m) = m \o <<128>>
             \o [j \in 1 .. (b - ((l + 1 + w) % b)) % b |-> 0] \o lb
      BY <1>1, <1>2, <1>3, <1>9 DEF Padded
    <3> QED BY <1>7, <3>1
  <2>2. zeros \in Seq(Nat)  BY <1>1, <1>6, PaddingIs
  <2> HIDE DEF zeros
  <2>3. m \o <<128>> \o zeros = m \o (<<128>> \o zeros)
    <3>1. PICK a \in Nat : a = 128  OBVIOUS
    <3>2. m \o <<a>> \o zeros = m \o (<<a>> \o zeros)  BY <2>2, Between, SMTT(20)
    <3> QED BY <3>1, <3>2
  <2> QED BY <1>8, <1>11, <1>15, <2>1, <2>3 DEF zeros
<1> QED BY <1>16, <1>17, <1>18

-----------------------------------------------------------------------------
(* Pieces of texts.                                                        *)

\* Min of two numbers.
LEMMA MinOfTwo ==
    ASSUME NEW a \in Nat, NEW b \in Nat
    PROVE  /\ Min({a, b}) \in {a, b}
           /\ Min({a, b}) =< a
           /\ Min({a, b}) =< b
<1>1. \E x \in {a, b} : \A y \in {a, b} : x =< y
  <2>1. CASE a =< b  BY <2>1
  <2>2. CASE b =< a  BY <2>2
  <2> QED BY <2>1, <2>2
<1> QED BY <1>1 DEF Min

\* What is left of a content, or of nothing.
Remainders ==
    {<< >>} \cup
    UNION {{SubSeq(c, k, Len(c)) : k \in 1 .. Len(c) + 1} : c \in Contents}

\* Contents are sequences of bytes.
LEMMA ContentsSeq == ASSUME NEW c \in Contents PROVE c \in Seq(Nat)
BY ParserAssumption

\* A content is what is left of it at first.
LEMMA WholeIsSuffix == ASSUME NEW c \in Contents PROVE c \in Remainders
<1>1. c \in Seq(Nat)  BY ContentsSeq
<1>2. Len(c) \in Nat  BY <1>1
<1>3. c = SubSeq(c, 1, Len(c))  BY <1>1
<1>4. 1 \in 1 .. Len(c) + 1  BY <1>2
<1> QED BY <1>3, <1>4 DEF Remainders

\* Cutting off the front of what is left leaves what is left, and what was
\* cut off is a piece of a content.
LEMMA CutSuffix ==
    ASSUME NEW s \in Remainders, NEW n \in 1 .. Len(s)
    PROVE  /\ SubSeq(s, n + 1, Len(s)) \in Remainders
           /\ \E c \in Contents : SubSeq(s, 1, n) \in Pieces(c)
           /\ Len(SubSeq(s, 1, n)) = n
<1>1. s # << >>  OBVIOUS
<1>2. PICK c \in Contents : \E k \in 1 .. Len(c) + 1 : s = SubSeq(c, k, Len(c))
  BY <1>1 DEF Remainders
<1>3. PICK k \in 1 .. Len(c) + 1 : s = SubSeq(c, k, Len(c))
  BY <1>2
<1>4. c \in Seq(Nat) /\ Len(c) \in Nat  BY ContentsSeq
<1>5. Len(s) = Len(c) - k + 1  BY <1>3, <1>4
<1>6. SubSeq(s, n + 1, Len(s)) = SubSeq(c, k + n, Len(c))
  BY <1>3, <1>4, <1>5
<1>7. SubSeq(s, 1, n) = SubSeq(c, k, k + n - 1)
  BY <1>3, <1>4, <1>5
<1>8. k + n \in 1 .. Len(c) + 1 /\ k + n - 1 \in 0 .. Len(c)
  BY <1>4, <1>5
<1>9. SubSeq(s, n + 1, Len(s)) \in Remainders
  <2>1. SubSeq(c, k + n, Len(c)) \in {SubSeq(c, j, Len(c)) : j \in 1 .. Len(c) + 1}
    BY <1>8
  <2> QED BY <1>6, <2>1 DEF Remainders
<1>10. SubSeq(s, 1, n) \in Pieces(c)
  BY <1>7, <1>8, <1>3 DEF Pieces
<1>11. Len(SubSeq(s, 1, n)) = n
  BY <1>3, <1>4, <1>5
<1> QED BY <1>9, <1>10, <1>11

\* A content is a piece of itself.
LEMMA WholeIsPiece == ASSUME NEW c \in Contents PROVE c \in Pieces(c)
<1>1. c \in Seq(Nat) /\ Len(c) \in Nat  BY ContentsSeq
<1>2. c = SubSeq(c, 1, Len(c))  BY <1>1
<1> QED BY <1>1, <1>2 DEF Pieces

\* The words of a piece begin inside it, one after the other.
Ascending(ws, len) ==
    /\ ws \in Seq(SegValue)
    /\ \A k \in DOMAIN ws : ws[k].off < len
    /\ \A k, l \in DOMAIN ws : k < l => ws[k].off < ws[l].off

\* Words start at numbers.
LEMMA OffsetsType ==
    ASSUME NEW ws, NEW len, Ascending(ws, len)
    PROVE  \A k \in DOMAIN ws : ws[k].off \in Nat
<1>1. ws \in Seq(SegValue)  BY DEF Ascending
<1>2. \A k \in DOMAIN ws : ws[k] \in SegValue  BY <1>1
<1>3. \A w \in SegValue : w.off \in Nat  BY DEF SegValue
<1> QED BY <1>2, <1>3

\* The segmentation of every piece is such a sequence of words.
LEMMA SegmentAscends ==
    ASSUME NEW c \in Contents, NEW t \in Pieces(c)
    PROVE  /\ Ascending(Segment(t), Len(t))
           /\ \A k \in DOMAIN Segment(t) : Lies(Segment(t)[k], t)
<1> DEFINE ws == Segment(t)
<1>1. /\ ws \in Seq(SegValue)
      /\ \A k \in DOMAIN ws : Lies(ws[k], t)
      /\ \A k, l \in DOMAIN ws : k < l => ws[k].off < ws[l].off
  BY ParserAssumption
<1>2. Len(t) \in Nat
  <2>1. c \in Seq(Nat)  BY ContentsSeq
  <2> QED BY <2>1 DEF Pieces
<1> HIDE DEF ws
<1>3. ASSUME NEW k \in DOMAIN ws PROVE ws[k].off < Len(t)
  <2>1. ws[k] \in SegValue  BY <1>1
  <2>2. ws[k].off \in Nat /\ Len(ws[k].word) \in Nat \ {0}
    BY <1>1, <2>1 DEF SegValue, Lies
  <2> QED BY <1>1, <1>2, <2>2 DEF Lies
<1> QED BY <1>1, <1>3 DEF Ascending, ws

\* What follows the first word still ascends, behind it.
LEMMA TailAscends ==
    ASSUME NEW ws, NEW len \in Nat, Ascending(ws, len), ws # << >>
    PROVE  /\ Ascending(Tail(ws), len)
           /\ Head(ws) \in SegValue
           /\ Head(ws).off < len
           /\ \A k \in DOMAIN Tail(ws) : Head(ws).off < Tail(ws)[k].off
<1>1. ws \in Seq(SegValue)  BY DEF Ascending
<1>2. Head(ws) = ws[1] /\ 1 \in DOMAIN ws  BY <1>1
<1>3. Tail(ws) \in Seq(SegValue)  BY <1>1
<1>4. \A k \in DOMAIN Tail(ws) : k + 1 \in DOMAIN ws /\ Tail(ws)[k] = ws[k + 1]
  BY <1>1
<1>5. DOMAIN Tail(ws) \subseteq Nat \ {0}  BY <1>3
<1>6. \A k \in DOMAIN Tail(ws) : Tail(ws)[k].off < len
  BY <1>4 DEF Ascending
<1>7. \A k, l \in DOMAIN Tail(ws) : k < l => Tail(ws)[k].off < Tail(ws)[l].off
  BY <1>4, <1>5 DEF Ascending
<1>8. \A k \in DOMAIN Tail(ws) : ws[1].off < ws[k + 1].off
  BY <1>2, <1>4, <1>5 DEF Ascending
<1> QED BY <1>1, <1>2, <1>3, <1>4, <1>6, <1>7, <1>8 DEF Ascending

-----------------------------------------------------------------------------
(* Types.                                                                  *)

\* A document maps ids to words with positions.
IsDocument(d) ==
    /\ d = [doc_id |-> d.doc_id, doc_path |-> d.doc_path, words |-> d.words]
    /\ d.doc_path \in Paths
    /\ d.words = [id \in DOMAIN d.words |-> d.words[id]]
    /\ \A id \in DOMAIN d.words :
          d.words[id] \in [word : Seq(Nat), positions : Seq(Nat)]

\* Besides the types, what they rest on: a call under way has a path, the
\* second pass a document, and it reads what is left of a content.
TypeInv ==
    /\ TypeOK
    /\ pc \in {"hash", "open", "read", "words"} => path \in Paths
    /\ pc \in {"read", "words"} => IsDocument(m_document) /\ left \in Remainders
    /\ m_document # NULL => IsDocument(m_document)

\* A new document has no words.
LEMMA NewDocumentType ==
    ASSUME NEW id, NEW p \in Paths
    PROVE  /\ IsDocument(NewDocument(id, p))
           /\ DOMAIN NewDocument(id, p).words = {}
BY DEF IsDocument, NewDocument, Nothing

\* What a file gives is a content or nothing.
LEMMA BytesType ==
    ASSUME NEW f \in Contents \cup {Absent, Unreadable}, f # Absent
    PROVE  Bytes(f) \in Remainders /\ Bytes(f) \in Seq(Nat)
<1>1. CASE f = Unreadable  BY <1>1 DEF Bytes, Remainders
<1>2. CASE f # Unreadable  BY <1>2, WholeIsSuffix, ContentsSeq DEF Bytes
<1> QED BY <1>1, <1>2

\* What is left of a content is a sequence of bytes.
LEMMA SuffixType == ASSUME NEW s \in Remainders PROVE s \in Seq(Nat)
<1>1. CASE s = << >>  BY <1>1
<1>2. CASE s # << >>
  <2>1. PICK c \in Contents : \E k \in 1 .. Len(c) + 1 : s = SubSeq(c, k, Len(c))
    BY <1>2 DEF Remainders
  <2>2. PICK k \in 1 .. Len(c) + 1 : s = SubSeq(c, k, Len(c))
    BY <2>1
  <2>3. c \in Seq(Nat)  BY ContentsSeq
  <2> QED BY <2>2, <2>3
<1> QED BY <1>1, <1>2

\* The initial states are typed.
LEMMA TypeInit == Init => TypeInv
<1> SUFFICES ASSUME Init PROVE TypeInv
  OBVIOUS
<1>1. << >> \in Seq(Nat) /\ << >> \in Seq(SegValue)  OBVIOUS
<1>2. TypeOK
  BY <1>1 DEF Init, NoLocals, TypeOK
<1> QED BY <1>2 DEF Init, TypeInv

\* The first pass keeps the types.
LEMMA TypeHash ==
    ASSUME TypeInv, Hash \/ \E p \in Paths : ParseFile(p)
    PROVE  TypeInv'
<1> USE DEF pass1, pass2, registries, outside, TypeInv, TypeOK, Listed
<1>1. ASSUME NEW p \in Paths, ParseFile(p) PROVE TypeInv'
  <2>1. files[p] \in Contents \cup {Absent, Unreadable}  OBVIOUS
  <2>2. files[p] # Absent => Bytes(files[p]) \in Seq(Nat)  BY <2>1, BytesType
  <2>3. << >> \in Seq(Nat)  OBVIOUS
  <2>4. left' \in Seq(Nat)
    BY <1>1, <2>2, <2>3 DEF ParseFile
  <2> QED BY <1>1, <2>4 DEF ParseFile
<1>2. CASE HashRead
  <2>1. PICK n \in 1 .. Len(left) : left' = SubSeq(left, n + 1, Len(left))
    BY <1>2 DEF HashRead
  <2>2. left' \in Seq(Nat)  BY <2>1
  <2> QED BY <1>2, <2>2 DEF HashRead
<1>3. CASE HashDone  BY <1>3 DEF HashDone
<1> QED BY <1>1, <1>2, <1>3 DEF Hash

\* A block is taken off the front of what is left.
LEMMA BlockRead ==
    ASSUME TypeInv, ReadBlock
    PROVE  /\ length' \in 1 .. Len(left)
           /\ left' \in Remainders
           /\ Ascending(words', length')
<1>1. left \in Remainders /\ left # << >>  BY DEF ReadBlock, TypeInv
<1>2. left \in Seq(Nat) /\ Len(left) \in Nat \ {0}  BY <1>1, SuffixType
<1>3. length' \in 1 .. Len(left)
  <2>1. ReadBytes \in Nat \ {0}  BY ParserAssumption
  <2>2. length' = Min({ReadBytes, Len(left)})  BY DEF ReadBlock
  <2>3. length' \in {ReadBytes, Len(left)} /\ length' =< Len(left)
    BY <1>2, <2>1, <2>2, MinOfTwo
  <2> QED BY <1>2, <2>1, <2>3
<1>4. left' \in Remainders
  BY <1>1, <1>3, CutSuffix DEF ReadBlock
<1>5. PICK c \in Contents : SubSeq(left, 1, length') \in Pieces(c)
  BY <1>1, <1>3, CutSuffix
<1>6. Len(SubSeq(left, 1, length')) = length'
  BY <1>1, <1>3, CutSuffix
<1>7. Ascending(words', length')
  BY <1>5, <1>6, SegmentAscends DEF ReadBlock, BlockWords
<1> QED BY <1>3, <1>4, <1>7

\* The second pass keeps the types while it reads.
LEMMA TypeRead == ASSUME TypeInv, Read PROVE TypeInv'
<1> USE DEF pass1, pass2, registries, outside, TypeInv, TypeOK, Listed
<1>1. CASE OpenFails  BY <1>1 DEF OpenFails
<1>2. CASE OpenFile
  <2>1. left' \in Remainders /\ left' \in Seq(Nat)
    BY <1>2, BytesType DEF OpenFile
  <2>2. IsDocument(m_document')
    BY <1>2, NewDocumentType DEF OpenFile
  <2>3. \A id \in DOMAIN m_document'.words : Listed(id)' \in Seq(Nat)
    BY <2>2 DEF IsDocument, Listed
  <2>4. m_document'.doc_path \in Paths  BY <2>2 DEF IsDocument
  <2> QED BY <1>2, <2>1, <2>2, <2>3, <2>4 DEF OpenFile
<1>3. CASE ReadBlock
  <2>1. left' \in Seq(Nat)  BY <1>3, BlockRead, SuffixType
  <2>2. length' \in Nat
    <3>1. Len(left) \in Nat  OBVIOUS
    <3> QED BY <1>3, <3>1, BlockRead
  <2>3. words' \in Seq(SegValue)  BY <1>3, BlockRead DEF Ascending
  <2>4. borders' \subseteq Nat  BY <1>3 DEF ReadBlock
  <2>5. eof' \in BOOLEAN  BY <1>3 DEF ReadBlock
  <2> QED BY <1>3, <2>1, <2>2, <2>3, <2>4, <2>5, BlockRead DEF ReadBlock, Listed
<1>4. CASE ReadEnd  BY <1>4 DEF ReadEnd, Listed
<1>5. CASE ReadError  BY <1>5 DEF ReadError, vars, Listed
<1> QED BY <1>1, <1>2, <1>3, <1>4, <1>5 DEF Read

\* parse_text starts with a new document and the words of the text.
LEMMA TypeText ==
    ASSUME TypeInv, NEW p \in Paths, NEW text \in Contents, ParseText(p, text)
    PROVE  TypeInv' /\ Ascending(words', length') /\ DOMAIN m_document'.words = {}
<1> USE DEF pass1, pass2, registries, outside, TypeInv, TypeOK, Listed
<1>1. Ascending(words', length')
  BY WholeIsPiece, SegmentAscends DEF ParseText
<1>2. IsDocument(m_document') /\ DOMAIN m_document'.words = {}
  BY NewDocumentType DEF ParseText
<1>3. length' \in Nat  BY ContentsSeq DEF ParseText
<1>4. left' \in Remainders /\ left' \in Seq(Nat)  BY DEF ParseText, Remainders
<1>5. words' \in Seq(SegValue)  BY <1>1 DEF Ascending
<1>6. m_document'.doc_path \in Paths  BY <1>2 DEF IsDocument
<1>7. TypeInv'
  BY <1>2, <1>3, <1>4, <1>5, <1>6 DEF ParseText, Listed
<1> QED BY <1>1, <1>2, <1>7

\* An entry with a further position is an entry.
LEMMA EntryAppended ==
    ASSUME NEW r \in [word : Seq(Nat), positions : Seq(Nat)], NEW p \in Nat
    PROVE  /\ [r EXCEPT !.positions = Append(@, p)]
                 \in [word : Seq(Nat), positions : Seq(Nat)]
           /\ [r EXCEPT !.positions = Append(@, p)].positions
                 = Append(r.positions, p)
<1> DEFINE q == Append(r.positions, p)
           e == [r EXCEPT !.positions = q]
<1>1. r.positions \in Seq(Nat)  OBVIOUS
<1>2. q \in Seq(Nat)  BY <1>1
<1> HIDE DEF q
<1>3. e \in [word : Seq(Nat), positions : Seq(Nat)] /\ e.positions = q
  BY <1>2
<1> QED BY <1>3 DEF q

\* A further position of a word the document has.
LEMMA KnownType ==
    ASSUME TypeInv, EnterKnown
    PROVE  /\ Head(words) \in SegValue
           /\ Position \in Nat
           /\ IsDocument(m_document)
           /\ IsDocument(m_document')
           /\ DOMAIN m_document'.words = DOMAIN m_document.words
           /\ \A id \in DOMAIN m_document.words :
                 m_document'.words[id].positions =
                     IF id = WordId THEN Append(m_document.words[id].positions, Position)
                     ELSE m_document.words[id].positions
<1>1. IsDocument(m_document) /\ WordId \in DOMAIN m_document.words
  BY DEF EnterKnown, TypeInv
<1>2. Head(words) \in SegValue  BY DEF EnterKnown, TypeInv, TypeOK
<1>3. Position \in Nat
  BY <1>2 DEF Position, SegValue, TypeInv, TypeOK
<1>4. m_document' = [m_document EXCEPT !.words[WordId].positions = Append(@, Position)]
  BY DEF EnterKnown
<1> HIDE DEF WordId, Position
<1> DEFINE d == m_document
           e == [d.words[WordId] EXCEPT !.positions = Append(@, Position)]
           ws == [d.words EXCEPT ![WordId] = e]
<1>5. m_document' = [d EXCEPT !.words = ws]
  BY <1>4
<1>6. d.words[WordId] \in [word : Seq(Nat), positions : Seq(Nat)]
  BY <1>1 DEF IsDocument
<1>7. /\ e \in [word : Seq(Nat), positions : Seq(Nat)]
      /\ e.positions = Append(d.words[WordId].positions, Position)
  BY <1>3, <1>6, EntryAppended
<1> HIDE DEF e
<1>8. /\ DOMAIN ws = DOMAIN d.words
      /\ ws = [id \in DOMAIN ws |-> ws[id]]
      /\ \A id \in DOMAIN ws : ws[id] = IF id = WordId THEN e ELSE d.words[id]
  BY <1>1 DEF IsDocument
<1> HIDE DEF ws
<1>9. m_document' = [doc_id |-> d.doc_id, doc_path |-> d.doc_path, words |-> ws]
  BY <1>1, <1>5 DEF IsDocument
<1>10. IsDocument(m_document')
  BY <1>1, <1>7, <1>8, <1>9 DEF IsDocument
<1> QED BY <1>1, <1>2, <1>3, <1>7, <1>8, <1>9, <1>10

\* The first position of a word that is new to the document.
LEMMA NewType ==
    ASSUME TypeInv, EnterNew
    PROVE  /\ Head(words) \in SegValue
           /\ FirstPosition \in Nat
           /\ IsDocument(m_document)
           /\ IsDocument(m_document')
           /\ DOMAIN m_document'.words = DOMAIN m_document.words \cup {WordId}
           /\ \A id \in DOMAIN m_document'.words :
                 m_document'.words[id].positions =
                     IF id = WordId THEN <<FirstPosition>>
                     ELSE m_document.words[id].positions
<1>1. IsDocument(m_document)  BY DEF EnterNew, TypeInv
<1>2. Head(words) \in SegValue  BY DEF EnterNew, TypeInv, TypeOK
<1>3. FirstPosition \in Nat
  BY <1>2 DEF FirstPosition, Position, SegValue, TypeInv, TypeOK
<1> HIDE DEF WordId, FirstPosition
<1> DEFINE d == m_document
           e == [word |-> Head(words).word, positions |-> <<FirstPosition>>]
           ws == Put(d.words, WordId, e)
<1>4. m_document' = [d EXCEPT !.words = ws]
  BY DEF EnterNew
<1>5. e \in [word : Seq(Nat), positions : Seq(Nat)] /\ e.positions = <<FirstPosition>>
  BY <1>2, <1>3 DEF SegValue
<1> HIDE DEF e
<1>6. /\ DOMAIN ws = DOMAIN d.words \cup {WordId}
      /\ ws = [id \in DOMAIN ws |-> ws[id]]
      /\ \A id \in DOMAIN ws : ws[id] = IF id = WordId THEN e ELSE d.words[id]
  BY <1>1 DEF IsDocument, Put
<1> HIDE DEF ws
<1>7. m_document' = [doc_id |-> d.doc_id, doc_path |-> d.doc_path, words |-> ws]
  BY <1>1, <1>4 DEF IsDocument
<1>8. IsDocument(m_document')
  BY <1>1, <1>5, <1>6, <1>7 DEF IsDocument
<1> QED BY <1>1, <1>2, <1>3, <1>5, <1>6, <1>7, <1>8

\* Entering words and registering the document keep the types.
LEMMA TypeEnter == ASSUME TypeInv, Enter PROVE TypeInv'
<1> USE DEF pass1, pass2, registries, outside
<1>1. words # << >> => Tail(words) \in Seq(SegValue)
  BY DEF TypeInv, TypeOK
<1>2. \A d : IsDocument(d) =>
          d.doc_path \in Paths /\ \A id \in DOMAIN d.words : d.words[id].positions \in Seq(Nat)
  BY DEF IsDocument
<1>3. CASE EnterKnown
  <2>1. IsDocument(m_document')  BY <1>3, KnownType
  <2>2. word_count' \in Nat  BY <1>3 DEF EnterKnown, Counted, TypeInv, TypeOK
  <2> QED BY <1>1, <1>2, <1>3, <2>1, <2>2 DEF EnterKnown, TypeInv, TypeOK, Listed
<1>4. CASE EnterNew
  <2>1. IsDocument(m_document')  BY <1>4, NewType
  <2>2. word_count' \in Nat  BY <1>4 DEF EnterNew, Counted, TypeInv, TypeOK
  <2> QED BY <1>1, <1>2, <1>4, <2>1, <2>2 DEF EnterNew, TypeInv, TypeOK, Listed
<1>5. CASE BlockDone
  BY <1>5 DEF BlockDone, TypeInv, TypeOK, Listed
<1>6. CASE Register
  BY <1>6 DEF Register, TypeInv, TypeOK, Listed
<1> QED BY <1>3, <1>4, <1>5, <1>6 DEF Enter

\* Whoever takes the document over, and whoever writes files, keeps the types.
LEMMA TypeOutside ==
    ASSUME TypeInv,
           \/ Hand
           \/ HandNull
           \/ \E p \in Paths, f \in Contents \cup {Absent, Unreadable} : Edit(p, f)
           \/ UNCHANGED vars
    PROVE  TypeInv'
<1> USE DEF pass1, pass2, registries, outside, TypeInv, TypeOK, Listed
<1>1. CASE Hand
  <2>1. << >> \in Seq(Nat) /\ << >> \in Seq(SegValue)  OBVIOUS
  <2> QED BY <1>1, <2>1 DEF Hand, Forget
<1>2. CASE HandNull  BY <1>2 DEF HandNull
<1>3. ASSUME NEW p \in Paths, NEW f \in Contents \cup {Absent, Unreadable}, Edit(p, f)
      PROVE  TypeInv'
  BY <1>3 DEF Edit
<1>4. CASE UNCHANGED vars  BY <1>4 DEF vars
<1> QED BY <1>1, <1>2, <1>3, <1>4

\* Every step keeps the types.
LEMMA TypeStep == TypeInv /\ [Next]_vars => TypeInv'
BY TypeHash, TypeRead, TypeText, TypeEnter, TypeOutside DEF Next, Step

\* Documents map ids to words with positions, and counters count, in every
\* behaviour, also where a call hands over the document of an earlier one.
THEOREM TypeCorrect == Spec => []TypeOK
<1>1. TypeInv => TypeOK  BY DEF TypeInv
<1> QED BY <1>1, TypeInit, TypeStep, PTL DEF Spec

-----------------------------------------------------------------------------
(* Positions ascend.                                                       *)

\* Every position lies before the words still to come, which ascend, and
\* before the next block.
ListsAscend ==
    \A id \in DOMAIN m_document.words : \A i, j \in DOMAIN Listed(id) :
        i < j => Listed(id)[i] < Listed(id)[j]

AscendInv ==
    /\ Building =>
          \A id \in DOMAIN m_document.words : \A i \in DOMAIN Listed(id) :
              /\ pc = "read" => Listed(id)[i] < file_read_pos
              /\ pc = "words" =>
                    /\ Listed(id)[i] < file_read_pos + length
                    /\ \A k \in DOMAIN words :
                          Listed(id)[i] < file_read_pos + words[k].off
    /\ pc = "words" => Ascending(words, length)
    /\ Building \/ m_document # NULL => ListsAscend

\* What comes before the running word may be appended to by its position.
LEMMA AppendAscends ==
    ASSUME NEW s \in Seq(Nat), NEW p \in Nat,
           \A i \in DOMAIN s : s[i] < p,
           \A i, j \in DOMAIN s : i < j => s[i] < s[j]
    PROVE  \A i, j \in DOMAIN Append(s, p) :
               i < j => Append(s, p)[i] < Append(s, p)[j]
<1>1. DOMAIN Append(s, p) = 1 .. Len(s) + 1 /\ DOMAIN s = 1 .. Len(s) /\ Len(s) \in Nat
  OBVIOUS
<1>2. \A i \in 1 .. Len(s) : Append(s, p)[i] = s[i]
  OBVIOUS
<1>3. Append(s, p)[Len(s) + 1] = p
  OBVIOUS
<1> SUFFICES ASSUME NEW i \in DOMAIN Append(s, p), NEW j \in DOMAIN Append(s, p), i < j
             PROVE  Append(s, p)[i] < Append(s, p)[j]
  OBVIOUS
<1>4. i \in 1 .. Len(s)  BY <1>1
<1>5. CASE j = Len(s) + 1  BY <1>1, <1>2, <1>3, <1>4, <1>5
<1>6. CASE j \in 1 .. Len(s)  BY <1>1, <1>2, <1>4, <1>6
<1> QED BY <1>1, <1>5, <1>6

\* What comes before the running word comes before those after it.
LEMMA RunningWord ==
    ASSUME TypeInv, AscendInv, pc = "words", words # << >>
    PROVE  /\ Head(words) \in SegValue
           /\ file_read_pos \in Nat /\ length \in Nat /\ Position \in Nat
           /\ file_read_pos =< Position
           /\ Position < file_read_pos + length
           /\ Ascending(Tail(words), length)
           /\ \A k \in DOMAIN Tail(words) :
                 /\ Tail(words)[k].off \in Nat
                 /\ Position < file_read_pos + Tail(words)[k].off
           /\ \A id \in DOMAIN m_document.words : \A i \in DOMAIN Listed(id) :
                 Listed(id)[i] \in Nat /\ Listed(id)[i] < Position
<1>1. file_read_pos \in Nat /\ length \in Nat  BY DEF TypeInv, TypeOK
<1>2. Ascending(words, length)  BY DEF AscendInv
<1>3. /\ Ascending(Tail(words), length)
      /\ Head(words) \in SegValue
      /\ Head(words).off < length
      /\ \A k \in DOMAIN Tail(words) : Head(words).off < Tail(words)[k].off
  BY <1>1, <1>2, TailAscends
<1>4. \A k \in DOMAIN Tail(words) : Tail(words)[k].off \in Nat
  BY <1>3, OffsetsType
<1>5. Head(words).off \in Nat  BY <1>3 DEF SegValue
<1>6. 1 \in DOMAIN words /\ words[1] = Head(words)
  BY <1>2 DEF Ascending
<1>7. ASSUME NEW id \in DOMAIN m_document.words, NEW i \in DOMAIN Listed(id)
      PROVE  Listed(id)[i] \in Nat /\ Listed(id)[i] < Position
  <2>1. Listed(id) \in Seq(Nat)
    BY DEF TypeInv, IsDocument, Listed
  <2>2. Listed(id)[i] < file_read_pos + words[1].off
    BY <1>6, <1>7 DEF AscendInv, Building
  <2> QED BY <1>6, <2>1, <2>2 DEF Position
<1> QED BY <1>1, <1>3, <1>4, <1>5, <1>7 DEF Position

\* In the initial states nothing is listed.
LEMMA AscendInit == Init => AscendInv
BY DEF Init, AscendInv, Building

\* Steps that list nothing, and end or precede the second pass.
LEMMA AscendQuiet ==
    ASSUME AscendInv, UNCHANGED m_document, ~Building'
    PROVE  AscendInv'
BY DEF AscendInv, Building, ListsAscend, Listed

\* A document without words.
LEMMA AscendEmpty ==
    ASSUME DOMAIN m_document'.words = {},
           pc' = "words" => Ascending(words', length')
    PROVE  AscendInv'
BY DEF AscendInv, Building, ListsAscend, Listed

\* Reading a block, and the end of one, list nothing.
LEMMA AscendRead ==
    ASSUME TypeInv, AscendInv, ReadBlock \/ BlockDone \/ ReadEnd \/ ReadError
    PROVE  AscendInv'
<1> DEFINE Before(n) == \A id \in DOMAIN m_document.words :
                            \A i \in DOMAIN Listed(id) : Listed(id)[i] < n
<1>1. /\ file_read_pos \in Nat /\ length \in Nat
      /\ pc \in {"read", "words"} =>
            \A id \in DOMAIN m_document.words : Listed(id) \in Seq(Nat)
  BY DEF TypeInv, TypeOK, IsDocument, Listed
<1>2. UNCHANGED m_document /\ Building /\ Building' /\ ListsAscend /\ ListsAscend'
  BY DEF ReadBlock, BlockDone, ReadEnd, ReadError, vars, pass1, pass2,
         Building, AscendInv, ListsAscend, Listed
<1>3. CASE ReadBlock
  <2>1. pc = "read" /\ pc' = "words" /\ UNCHANGED file_read_pos
    BY <1>3 DEF ReadBlock
  <2>2. length' \in Nat \ {0} /\ Ascending(words', length')
    <3>1. Len(left) \in Nat  BY DEF TypeInv, TypeOK
    <3> QED BY <1>3, <3>1, BlockRead
  <2>3. \A k \in DOMAIN words' : words'[k].off \in Nat
    BY <2>2, OffsetsType
  <2>4. ASSUME NEW id \in DOMAIN m_document.words, NEW i \in DOMAIN Listed(id)
        PROVE  /\ Listed(id)[i] < file_read_pos + length'
               /\ \A k \in DOMAIN words' :
                     Listed(id)[i] < file_read_pos + words'[k].off
    <3>1. Listed(id)[i] < file_read_pos  BY <2>1, <2>4 DEF AscendInv, Building
    <3>2. Listed(id)[i] \in Nat  BY <1>1, <2>1
    <3> QED BY <1>1, <2>2, <2>3, <3>1, <3>2
  <2> QED BY <1>2, <2>1, <2>2, <2>4 DEF AscendInv, Building, Listed
<1>4. CASE BlockDone
  <2>1. /\ pc = "words" /\ pc' = "read"
        /\ file_read_pos' = file_read_pos + length
    BY <1>4 DEF BlockDone
  <2> QED BY <1>2, <2>1 DEF AscendInv, Building, Listed
<1>5. CASE ReadEnd \/ ReadError
  <2>1. UNCHANGED <<pc, file_read_pos>> /\ pc = "read"
    BY <1>5 DEF ReadEnd, ReadError, vars, pass2
  <2> QED BY <1>2, <2>1 DEF AscendInv, Building, Listed
<1> QED BY <1>3, <1>4, <1>5

\* Whatever is listed up to the running word, the rest comes after.
LEMMA AscendListed ==
    ASSUME TypeInv, AscendInv,
           pc = "words", words # << >>, words' = Tail(words),
           UNCHANGED <<pc, file_read_pos, length>>,
           \A id \in DOMAIN m_document'.words :
              /\ \A i \in DOMAIN Listed(id)' :
                    Listed(id)'[i] \in Nat /\ Listed(id)'[i] =< Position
              /\ \A i, j \in DOMAIN Listed(id)' :
                    i < j => Listed(id)'[i] < Listed(id)'[j]
    PROVE  AscendInv'
<1>1. /\ file_read_pos \in Nat /\ length \in Nat /\ Position \in Nat
      /\ Position < file_read_pos + length
      /\ Ascending(Tail(words), length)
      /\ \A k \in DOMAIN Tail(words) :
            /\ Tail(words)[k].off \in Nat
            /\ Position < file_read_pos + Tail(words)[k].off
  BY RunningWord
<1> HIDE DEF Position, Listed
<1>2. ASSUME NEW id \in DOMAIN m_document'.words, NEW i \in DOMAIN Listed(id)'
      PROVE  /\ Listed(id)'[i] < file_read_pos + length
             /\ \A k \in DOMAIN Tail(words) :
                   Listed(id)'[i] < file_read_pos + Tail(words)[k].off
  <2>1. Listed(id)'[i] \in Nat /\ Listed(id)'[i] =< Position  BY <1>2
  <2> QED BY <1>1, <2>1
<1>3. pc' = "words" /\ Ascending(words', length')  BY <1>1
<1>4. ListsAscend'  BY DEF ListsAscend
<1> QED BY <1>2, <1>3, <1>4 DEF AscendInv

\* A known word's position is behind all that is listed.
LEMMA AscendKnown == ASSUME TypeInv, AscendInv, EnterKnown PROVE AscendInv'
<1>1. /\ pc = "words" /\ pc' = "words" /\ words # << >>
      /\ UNCHANGED <<file_read_pos, length>>
      /\ words' = Tail(words)
  BY DEF EnterKnown
<1>2. /\ DOMAIN m_document'.words = DOMAIN m_document.words
      /\ \A id \in DOMAIN m_document.words :
            Listed(id)' = IF id = WordId THEN Append(Listed(id), Position)
                          ELSE Listed(id)
  BY KnownType DEF Listed
<1>3. \A id \in DOMAIN m_document.words : Listed(id) \in Seq(Nat)
  BY <1>1 DEF TypeInv, IsDocument, Listed
<1> HIDE DEF WordId, Position, Listed
<1>4. ASSUME NEW id \in DOMAIN m_document.words
      PROVE  /\ \A i \in DOMAIN Listed(id)' :
                   Listed(id)'[i] \in Nat /\ Listed(id)'[i] =< Position
             /\ \A i, j \in DOMAIN Listed(id)' :
                   i < j => Listed(id)'[i] < Listed(id)'[j]
  <2>1. \A i \in DOMAIN Listed(id) :
            Listed(id)[i] \in Nat /\ Listed(id)[i] < Position
    BY <1>1, RunningWord
  <2>2. Position \in Nat  BY <1>1, RunningWord
  <2>3. \A i, j \in DOMAIN Listed(id) : i < j => Listed(id)[i] < Listed(id)[j]
    BY <1>1 DEF AscendInv, Building, ListsAscend
  <2>4. CASE id = WordId
    <3>1. Listed(id)' = Append(Listed(id), Position)  BY <1>2, <2>4
    <3>2. Listed(id) \in Seq(Nat)  BY <1>3
    <3>3. \A i \in DOMAIN Append(Listed(id), Position) :
              \/ i \in DOMAIN Listed(id)
                    /\ Append(Listed(id), Position)[i] = Listed(id)[i]
              \/ Append(Listed(id), Position)[i] = Position
      BY <2>2, <3>2
    <3>4. \A i, j \in DOMAIN Append(Listed(id), Position) :
              i < j => Append(Listed(id), Position)[i]
                         < Append(Listed(id), Position)[j]
      BY <2>1, <2>2, <2>3, <3>2, AppendAscends
    <3>5. \A i \in DOMAIN Append(Listed(id), Position) :
              /\ Append(Listed(id), Position)[i] \in Nat
              /\ Append(Listed(id), Position)[i] =< Position
      BY <2>1, <2>2, <3>3
    <3> QED BY <3>1, <3>4, <3>5
  <2>5. CASE id # WordId
    <3>1. Listed(id)' = Listed(id)  BY <1>2, <2>5
    <3> QED BY <2>1, <2>2, <2>3, <3>1
  <2> QED BY <2>4, <2>5
<1> QED BY <1>1, <1>2, <1>4, AscendListed


\* A new word's first position is at most that of the word.
LEMMA AscendNew == ASSUME TypeInv, AscendInv, EnterNew PROVE AscendInv'
<1>1. /\ pc = "words" /\ pc' = "words" /\ words # << >>
      /\ UNCHANGED <<pc, file_read_pos, length>>
      /\ words' = Tail(words)
  BY DEF EnterNew, pass1, pass2
<1>2. /\ DOMAIN m_document'.words = DOMAIN m_document.words \cup {WordId}
      /\ \A id \in DOMAIN m_document'.words :
            Listed(id)' = IF id = WordId THEN <<FirstPosition>> ELSE Listed(id)
  BY NewType DEF Listed
<1>3. /\ FirstPosition \in Nat /\ Position \in Nat
      /\ FirstPosition =< Position
  BY <1>1, NewType, RunningWord DEF FirstPosition
<1> HIDE DEF WordId, Position, FirstPosition, Listed
<1>4. ASSUME NEW id \in DOMAIN m_document'.words
      PROVE  /\ \A i \in DOMAIN Listed(id)' :
                   Listed(id)'[i] \in Nat /\ Listed(id)'[i] =< Position
             /\ \A i, j \in DOMAIN Listed(id)' :
                   i < j => Listed(id)'[i] < Listed(id)'[j]
  <2>1. CASE id = WordId
    <3>1. Listed(id)' = <<FirstPosition>>  BY <1>2, <2>1
    <3>2. DOMAIN <<FirstPosition>> = {1} /\ <<FirstPosition>>[1] = FirstPosition
      OBVIOUS
    <3> QED BY <1>3, <3>1, <3>2
  <2>2. CASE id # WordId
    <3>1. Listed(id)' = Listed(id) /\ id \in DOMAIN m_document.words
      BY <1>2, <2>2
    <3>2. \A i \in DOMAIN Listed(id) :
              Listed(id)[i] \in Nat /\ Listed(id)[i] < Position
      BY <1>1, <3>1, RunningWord
    <3>3. \A i, j \in DOMAIN Listed(id) : i < j => Listed(id)[i] < Listed(id)[j]
      BY <1>1, <3>1 DEF AscendInv, Building, ListsAscend
    <3> QED BY <1>3, <3>1, <3>2, <3>3
  <2> QED BY <2>1, <2>2
<1> QED BY <1>1, <1>4, AscendListed

\* Every step keeps the positions in order.
LEMMA AscendStep == TypeInv /\ AscendInv /\ [Next]_vars => AscendInv'
<1> SUFFICES ASSUME TypeInv, AscendInv, [Next]_vars PROVE AscendInv'
  OBVIOUS
<1>1. CASE Hash \/ \E p \in Paths : ParseFile(p)
  <2>1. UNCHANGED m_document /\ ~Building'
    BY <1>1 DEF Hash, HashRead, HashDone, ParseFile, pass2, Building
  <2> QED BY <2>1, AscendQuiet
<1>2. CASE \E p \in Paths, text \in Contents : ParseText(p, text)
  BY <1>2, TypeText, AscendEmpty
<1>3. CASE OpenFails \/ Register \/ Hand \/ HandNull
  <2>1. UNCHANGED m_document /\ ~Building'
    BY <1>3 DEF OpenFails, Register, Hand, HandNull, pass2, Building
  <2> QED BY <2>1, AscendQuiet
<1>4. CASE OpenFile
  <2>1. DOMAIN m_document'.words = {} /\ pc' = "read"
    BY <1>4 DEF OpenFile, NewDocument, Nothing
  <2> QED BY <2>1, AscendEmpty
<1>5. CASE ReadBlock \/ BlockDone \/ ReadEnd \/ ReadError
  BY <1>5, AscendRead
<1>6. CASE EnterKnown  BY <1>6, AscendKnown
<1>7. CASE EnterNew  BY <1>7, AscendNew
<1>8. ASSUME NEW p \in Paths, NEW f \in Contents \cup {Absent, Unreadable}, Edit(p, f)
      PROVE  AscendInv'
  <2>1. UNCHANGED m_document /\ ~Building'
    BY <1>8 DEF Edit, pass2, Building
  <2> QED BY <2>1, AscendQuiet
<1>9. CASE UNCHANGED vars
  BY <1>9 DEF vars, pass2, AscendInv, Building, ListsAscend, Listed
<1> QED BY <1>1, <1>2, <1>3, <1>4, <1>5, <1>6, <1>7, <1>8, <1>9
        DEF Next, Step, Read, Enter

\* The positions of a word ascend in every document that is built, or handed
\* on, in every behaviour, though parse_file notes a block's start for the
\* first of a word and the word's own start for the others.
THEOREM AscendingPositions == Spec => []PositionsAscend
<1>1. AscendInv => PositionsAscend
  BY DEF AscendInv, ListsAscend, PositionsAscend
<1> QED BY <1>1, TypeInit, TypeStep, AscendInit, AscendStep, PTL DEF Spec

-----------------------------------------------------------------------------
(* Totals agree.                                                           *)

\* The lengths of the lists of positions of a document's words, added up.
ListTotal(ws) == MapThenSumSet(LAMBDA id : Len(ws[id].positions), DOMAIN ws)

\* The words of a document.
IsList(ws) ==
    /\ IsFiniteSet(DOMAIN ws)
    /\ \A id \in DOMAIN ws : ws[id].positions \in Seq(Nat)

\* How long the lists are.
Lengths(ws) == [id \in DOMAIN ws |-> Len(ws[id].positions)]

\* The lists are finitely many, so MapThenSumSet is their total.
LEMMA ListTotalIs ==
    ASSUME NEW ws, IsList(ws)
    PROVE  /\ Lengths(ws) \in [DOMAIN ws -> Nat]
           /\ ListTotal(ws) = Total(Lengths(ws), DOMAIN ws)
           /\ ListTotal(ws) \in Nat
           /\ DOMAIN ws = {} => ListTotal(ws) = 0
<1> DEFINE D == DOMAIN ws
           P(h) == h = [s \in SUBSET D |->
                          IF s = {} THEN 0
                          ELSE Len(ws[CHOOSE x \in s : TRUE].positions)
                                 + h[s \ {CHOOSE x \in s : TRUE}]]
<1>1. Lengths(ws) \in [D -> Nat]  BY DEF IsList, Lengths
<1>2. ASSUME NEW h PROVE P(h) <=> Summing(h, Lengths(ws), D)
  <2>1. ASSUME NEW s \in SUBSET D, s # {}
        PROVE  Lengths(ws)[CHOOSE x \in s : TRUE]
                 = Len(ws[CHOOSE x \in s : TRUE].positions)
    BY <2>1 DEF Lengths
  <2> QED BY <2>1 DEF Summing
<1>3. PICK h : h = CHOOSE f : P(f)  OBVIOUS
<1>4. ListTotal(ws) = h[D]
  BY <1>3 DEF ListTotal, MapThenSumSet, MapThenFoldSet
<1>5. P(h)
  <2>1. \E f : Summing(f, Lengths(ws), D)  BY <1>1, SumExists DEF IsList
  <2> HIDE DEF P
  <2> QED BY <1>2, <1>3, <2>1
<1>6. h[D] = Total(Lengths(ws), D)
  <2> HIDE DEF P
  <2> QED BY <1>1, <1>2, <1>5, TotalSame DEF IsList
<1> QED BY <1>1, <1>4, <1>6, TotalApart DEF IsList

\* One position more, of a word that is listed or of another.
LEMMA OneMore ==
    ASSUME NEW ws, IsList(ws), NEW vs, NEW id,
           DOMAIN vs = DOMAIN ws \cup {id},
           \A x \in DOMAIN ws \ {id} : vs[x].positions = ws[x].positions,
           vs[id].positions \in Seq(Nat),
           Len(vs[id].positions)
             = 1 + IF id \in DOMAIN ws THEN Len(ws[id].positions) ELSE 0
    PROVE  IsList(vs) /\ ListTotal(vs) = ListTotal(ws) + 1
<1> DEFINE R == DOMAIN ws \ {id}
           k == [x \in R |-> Len(ws[x].positions)]
<1>1. IsList(vs)
  BY FS_AddElement DEF IsList
<1>2. R = DOMAIN vs \ {id} /\ id \in DOMAIN vs  OBVIOUS
<1>3. /\ k \in [R -> Nat]
      /\ \A y \in R : k[y] = Lengths(ws)[y] /\ k[y] = Lengths(vs)[y]
  BY <1>2 DEF IsList, Lengths
<1>4. /\ Lengths(vs)[id] = Len(vs[id].positions)
      /\ id \in DOMAIN ws => Lengths(ws)[id] = Len(ws[id].positions)
                             /\ Len(ws[id].positions) \in Nat
  BY <1>2 DEF Lengths, IsList
<1> HIDE DEF R, k
<1>5. ListTotal(vs) = Lengths(vs)[id] + Total(k, R)
  <2>1. /\ Lengths(vs) \in [DOMAIN vs -> Nat]
        /\ ListTotal(vs) = Total(Lengths(vs), DOMAIN vs)
    BY <1>1, ListTotalIs
  <2>2. IsFiniteSet(DOMAIN vs)  BY <1>1 DEF IsList
  <2>3. Total(Lengths(vs), DOMAIN vs) = Lengths(vs)[id] + Total(k, DOMAIN vs \ {id})
    BY <1>2, <1>3, <2>1, <2>2, TotalApart
  <2> QED BY <1>2, <2>1, <2>3
<1>6. IsFiniteSet(R) /\ Total(k, R) \in Nat
  <2>1. IsFiniteSet(R)  BY FS_Subset DEF IsList, R
  <2> QED BY <1>3, <2>1, TotalApart
<1>7. /\ Lengths(ws) \in [DOMAIN ws -> Nat]
      /\ ListTotal(ws) = Total(Lengths(ws), DOMAIN ws)
      /\ IsFiniteSet(DOMAIN ws)
  BY ListTotalIs DEF IsList
<1>8. CASE id \in DOMAIN ws
  <2>1. Total(Lengths(ws), DOMAIN ws) = Lengths(ws)[id] + Total(k, DOMAIN ws \ {id})
    BY <1>3, <1>7, <1>8, TotalApart DEF R
  <2>2. ListTotal(ws) = Len(ws[id].positions) + Total(k, R)
    BY <1>4, <1>7, <1>8, <2>1 DEF R
  <2> QED BY <1>1, <1>4, <1>5, <1>6, <1>8, <2>2
<1>9. CASE id \notin DOMAIN ws
  <2>1. R = DOMAIN ws  BY <1>9 DEF R
  <2>2. k = Lengths(ws)  BY <2>1 DEF k, Lengths
  <2> QED BY <1>1, <1>4, <1>5, <1>6, <1>7, <1>9, <2>1, <2>2
<1> QED BY <1>8, <1>9

\* The document's entry in the registry.
Recorded ==
    /\ m_document.doc_id \in DOMAIN docs_db
    /\ docs_db[m_document.doc_id].path = m_document.doc_path
    /\ docs_db[m_document.doc_id].word_count = ListTotal(m_document.words)

\* While a document is built its total is counted, and else it is recorded,
\* if there is one.
TotalsInv ==
    IF Building
    THEN /\ IsList(m_document.words)
         /\ m_document.doc_path = path
         /\ word_count = ListTotal(m_document.words)
    ELSE m_document # NULL => Recorded

\* Nothing is built at first.
LEMMA TotalsInit == Init => TotalsInv
BY DEF Init, TotalsInv, Building

\* Steps that leave the document alone, and those that do not build it the
\* registry.
LEMMA TotalsQuiet ==
    ASSUME TotalsInv, UNCHANGED <<m_document, word_count>>,
           \/ Building /\ Building' /\ UNCHANGED path
           \/ ~Building /\ ~Building' /\ UNCHANGED docs_db
    PROVE  TotalsInv'
BY DEF TotalsInv, Recorded

\* A document without words.
LEMMA TotalsEmpty ==
    ASSUME NEW id, m_document' = NewDocument(id, path'), word_count' = 0, Building'
    PROVE  TotalsInv'
<1>1. m_document'.words = Nothing /\ m_document'.doc_path = path'
  BY DEF NewDocument
<1>2. DOMAIN Nothing = {}  BY DEF Nothing
<1>3. IsList(Nothing)  BY <1>2, FS_EmptySet DEF IsList
<1>4. ListTotal(Nothing) = 0  BY <1>2, <1>3, ListTotalIs
<1> QED BY <1>1, <1>3, <1>4 DEF TotalsInv

\* A word adds one to its list and to the count.
LEMMA TotalsWord ==
    ASSUME TypeInv, TotalsInv, EnterKnown \/ EnterNew
    PROVE  TotalsInv'
<1>1. /\ Building /\ Building' /\ UNCHANGED path
      /\ word_count' = word_count + 1
  BY DEF EnterKnown, EnterNew, Building, Counted
<1>2. IsList(m_document.words)  BY <1>1 DEF TotalsInv
<1>3. CASE EnterKnown
  <2>1. /\ Position \in Nat
        /\ DOMAIN m_document'.words = DOMAIN m_document.words
        /\ \A id \in DOMAIN m_document.words :
              m_document'.words[id].positions =
                  IF id = WordId THEN Append(m_document.words[id].positions, Position)
                  ELSE m_document.words[id].positions
    BY <1>3, KnownType
  <2>2. WordId \in DOMAIN m_document.words  BY <1>3 DEF EnterKnown
  <2>3. m_document.words[WordId].positions \in Seq(Nat)  BY <1>2, <2>2 DEF IsList
  <2>4. m_document'.doc_path = m_document.doc_path  BY <1>3 DEF EnterKnown
  <2> HIDE DEF WordId, Position
  <2>5. /\ m_document'.words[WordId].positions \in Seq(Nat)
        /\ Len(m_document'.words[WordId].positions)
             = 1 + Len(m_document.words[WordId].positions)
    <3>1. PICK q : q = m_document.words[WordId].positions  OBVIOUS
    <3>2. q \in Seq(Nat)  BY <2>3, <3>1
    <3>3. Append(q, Position) \in Seq(Nat) /\ Len(Append(q, Position)) = 1 + Len(q)
      BY <2>1, <3>2
    <3>4. m_document'.words[WordId].positions = Append(q, Position)
      BY <2>1, <2>2, <3>1
    <3> QED BY <3>1, <3>3, <3>4
  <2>6. /\ IsList(m_document'.words)
        /\ ListTotal(m_document'.words) = ListTotal(m_document.words) + 1
    <3> DEFINE ws == m_document.words
               vs == m_document'.words
    <3>1. DOMAIN vs = DOMAIN ws \cup {WordId}  BY <2>1, <2>2
    <3>2. \A x \in DOMAIN ws \ {WordId} : vs[x].positions = ws[x].positions
      BY <2>1
    <3>3. /\ vs[WordId].positions \in Seq(Nat)
          /\ Len(vs[WordId].positions)
               = 1 + IF WordId \in DOMAIN ws THEN Len(ws[WordId].positions) ELSE 0
      BY <2>2, <2>5
    <3> HIDE DEF ws, vs
    <3> QED BY <1>2, <3>1, <3>2, <3>3, OneMore DEF ws, vs
  <2> QED BY <1>1, <2>4, <2>6 DEF TotalsInv
<1>4. CASE EnterNew
  <2>1. /\ FirstPosition \in Nat
        /\ DOMAIN m_document'.words = DOMAIN m_document.words \cup {WordId}
        /\ \A id \in DOMAIN m_document'.words :
              m_document'.words[id].positions =
                  IF id = WordId THEN <<FirstPosition>>
                  ELSE m_document.words[id].positions
    BY <1>4, NewType
  <2>2. WordId \notin DOMAIN m_document.words  BY <1>4 DEF EnterNew
  <2>3. m_document'.doc_path = m_document.doc_path  BY <1>4 DEF EnterNew
  <2> HIDE DEF WordId, FirstPosition
  <2>4. /\ m_document'.words[WordId].positions \in Seq(Nat)
        /\ Len(m_document'.words[WordId].positions) = 1 + 0
    <3>1. m_document'.words[WordId].positions = <<FirstPosition>>  BY <2>1
    <3>2. PICK a \in Nat : a = FirstPosition  BY <2>1
    <3>3. <<a>> \in Seq(Nat) /\ Len(<<a>>) = 1  OBVIOUS
    <3> QED BY <3>1, <3>2, <3>3
  <2>5. /\ IsList(m_document'.words)
        /\ ListTotal(m_document'.words) = ListTotal(m_document.words) + 1
    BY <1>2, <2>1, <2>2, <2>4, OneMore
  <2> QED BY <1>1, <2>3, <2>5 DEF TotalsInv
<1> QED BY <1>3, <1>4

\* The end of a parse records what was counted.
LEMMA TotalsRegister == ASSUME TotalsInv, Register PROVE TotalsInv'
<1>1. Building /\ ~Building' /\ UNCHANGED m_document
  BY DEF Register, Building, pass2
<1>2. docs_db' = Put(docs_db, m_document.doc_id,
                     [path |-> path, word_count |-> word_count])
  BY DEF Register
<1>3. /\ m_document.doc_id \in DOMAIN docs_db'
      /\ docs_db'[m_document.doc_id] = [path |-> path, word_count |-> word_count]
  BY <1>2 DEF Put
<1> QED BY <1>1, <1>3 DEF TotalsInv, Recorded

\* Every step keeps the totals.
LEMMA TotalsStep == TypeInv /\ TotalsInv /\ [Next]_vars => TotalsInv'
<1> SUFFICES ASSUME TypeInv, TotalsInv, [Next]_vars PROVE TotalsInv'
  OBVIOUS
<1> USE DEF pass2, registries
<1>1. CASE Hash \/ \E p \in Paths : ParseFile(p)
  BY <1>1, TotalsQuiet DEF Hash, HashRead, HashDone, ParseFile, Building
<1>2. ASSUME NEW p \in Paths, NEW text \in Contents, ParseText(p, text)
      PROVE  TotalsInv'
  BY <1>2, TotalsEmpty DEF ParseText, Building
<1>3. CASE OpenFile
  BY <1>3, TotalsEmpty DEF OpenFile, Building
<1>4. CASE OpenFails \/ HandNull
  BY <1>4, TotalsQuiet DEF OpenFails, HandNull, Building
<1>5. CASE Hand
  BY <1>5 DEF Hand, TotalsInv, Recorded, Building
<1>6. CASE ReadBlock \/ BlockDone \/ ReadEnd \/ ReadError
  BY <1>6, TotalsQuiet DEF ReadBlock, BlockDone, ReadEnd, ReadError, vars, Building
<1>7. CASE EnterKnown \/ EnterNew  BY <1>7, TotalsWord
<1>8. CASE Register  BY <1>8, TotalsRegister
<1>9. ASSUME NEW p \in Paths, NEW f \in Contents \cup {Absent, Unreadable}, Edit(p, f)
      PROVE  TotalsInv'
  BY <1>9, TotalsQuiet DEF Edit, Building
<1>10. CASE UNCHANGED vars
  BY <1>10, TotalsQuiet DEF vars, Building
<1> QED BY <1>1, <1>2, <1>3, <1>4, <1>5, <1>6, <1>7, <1>8, <1>9, <1>10
        DEF Next, Step, Read, Enter

\* The total that get_similarity divides by is the sum of the counts it
\* divides, in every behaviour, for the document of the last call that got as
\* far as that.
THEOREM TotalsAreSums == Spec => []TotalsAgree
<1>1. TotalsInv => TotalsAgree
  <2> SUFFICES ASSUME TotalsInv, pc \in {"idle", "done"}, m_document # NULL
               PROVE  /\ m_document.doc_id \in DOMAIN docs_db
                      /\ docs_db[m_document.doc_id].path = m_document.doc_path
                      /\ docs_db[m_document.doc_id].word_count =
                            MapThenSumSet(LAMBDA id : Len(Listed(id)),
                                          DOMAIN m_document.words)
    BY DEF TotalsAgree
  <2>1. Recorded  BY DEF TotalsInv, Building
  <2> QED BY <2>1 DEF Recorded, ListTotal, Listed
<1> QED BY <1>1, TypeInit, TypeStep, TotalsInit, TotalsStep, PTL DEF Spec

-----------------------------------------------------------------------------
(* Positions point at words.                                               *)

\* The running segment's word lies in the body, of which block begins at p.
LiesAt(v, p) ==
    /\ v.word # << >>
    /\ p + v.off + Len(v.word) =< Len(body)
    /\ v.word = SubSeq(body, p + v.off + 1, p + v.off + Len(v.word))

\* A word of that id begins there.
Points(id, p) ==
    \E n \in 1 .. Len(body) - p : BufferCode(SubSeq(body, p + 1, p + n)) = id

\* The first of a file's is where a block begins, and there is a first one.
ListPoints(id, s) ==
    /\ s # << >>
    /\ \A i \in DOMAIN s :
          IF kind = "file" /\ i = 1 THEN s[i] \in borders ELSE Points(id, s[i])

\* What is left is the rest of the body, and the words are of its block.
PointInv ==
    Building =>
        /\ body \in Seq(Nat)
        /\ \A id \in DOMAIN m_document.words : ListPoints(id, Listed(id))
        /\ pc = "read" =>
              /\ kind = "file"
              /\ file_read_pos =< Len(body)
              /\ left = SubSeq(body, file_read_pos + 1, Len(body))
        /\ pc = "words" =>
              /\ kind = "file" => file_read_pos \in borders
              /\ file_read_pos + length =< Len(body)
              /\ left = SubSeq(body, file_read_pos + length + 1, Len(body))
              /\ \A k \in DOMAIN words : LiesAt(words[k], file_read_pos)

\* Steps of the second pass that leave its words and document alone.
LEMMA PointQuiet ==
    ASSUME PointInv, Building' => Building,
           UNCHANGED <<pc, kind, m_document, body, borders, file_read_pos, length,
                       left, words>>
    PROVE  PointInv'
BY DEF PointInv, Building, ListPoints, Points, LiesAt, Listed

\* A segment of a block lies in the body, the block's place added.
LEMMA PieceLies ==
    ASSUME NEW v \in SegValue, NEW p \in Nat, NEW n \in Nat, body \in Seq(Nat),
           p + n =< Len(body), Lies(v, SubSeq(body, p + 1, p + n))
    PROVE  LiesAt(v, p)
<1>1. PICK b : b = body  OBVIOUS
<1>2. PICK o \in Nat : o = v.off  BY DEF SegValue
<1>3. PICK w \in Seq(Nat) : w = v.word  BY DEF SegValue
<1>4. b \in Seq(Nat) /\ p + n =< Len(b)  BY <1>1
<1> DEFINE t == SubSeq(b, p + 1, p + n)
<1>5. /\ w # << >> /\ o + Len(w) =< Len(t) /\ w = SubSeq(t, o + 1, o + Len(w))
  BY <1>1, <1>2, <1>3 DEF Lies
<1>6. Len(t) = n  BY <1>4
<1>7. PICK l \in Nat : l = Len(w)  OBVIOUS
<1>8. o + l =< n  BY <1>5, <1>6, <1>7
<1>9. SubSeq(t, o + 1, o + l) = SubSeq(b, p + o + 1, p + o + l)
  BY <1>4, <1>8
<1>10. w = SubSeq(b, p + o + 1, p + o + l)
  <2> HIDE DEF t
  <2> QED BY <1>5, <1>7, <1>9
<1>11. p + o + l =< Len(b)
  <2>1. Len(b) \in Nat  BY <1>4
  <2> QED BY <1>4, <1>8, <2>1
<1> QED BY <1>1, <1>2, <1>3, <1>5, <1>7, <1>10, <1>11 DEF LiesAt

\* A block is read from behind the one before.
LEMMA PointBlock == ASSUME TypeInv, PointInv, ReadBlock PROVE PointInv'
<1>1. /\ pc = "read" /\ pc' = "words" /\ Building
      /\ UNCHANGED <<kind, m_document, body, file_read_pos>>
      /\ borders' = borders \cup {file_read_pos}
      /\ words' = Segment(SubSeq(left, 1, length'))
      /\ left' = SubSeq(left, length' + 1, Len(left))
      /\ left # << >>
  BY DEF ReadBlock, BlockWords, Building
<1>2. PICK b \in Seq(Nat) : b = body  BY <1>1 DEF PointInv
<1>3. PICK p \in Nat : p = file_read_pos  BY DEF TypeInv, TypeOK
<1>4. PICK r \in Seq(Nat) : r = left  BY DEF TypeInv, TypeOK
<1>5. /\ kind = "file" /\ p =< Len(b) /\ r = SubSeq(b, p + 1, Len(b))
      /\ \A id \in DOMAIN m_document.words : ListPoints(id, Listed(id))
  BY <1>1, <1>2, <1>3, <1>4 DEF PointInv
<1>6. PICK n : n = length'  OBVIOUS
<1>7. n \in 1 .. Len(r)  BY <1>4, <1>6, BlockRead
<1>8. Len(r) = Len(b) - p /\ Len(b) \in Nat  BY <1>5
<1>9. /\ n \in Nat /\ p + n =< Len(b)
      /\ SubSeq(r, 1, n) = SubSeq(b, p + 1, p + n)
      /\ SubSeq(r, n + 1, Len(r)) = SubSeq(b, p + n + 1, Len(b))
  <2>1. n \in Nat /\ p + n =< Len(b)  BY <1>7, <1>8
  <2>2. SubSeq(r, 1, n) = SubSeq(b, p + 1, p + n)  BY <1>5, <1>8, <2>1
  <2>3. SubSeq(r, n + 1, Len(r)) = SubSeq(b, p + n + 1, Len(b))
    BY <1>5, <1>8, <2>1
  <2> QED BY <2>1, <2>2, <2>3
<1>10. \A k \in DOMAIN words' : LiesAt(words'[k], p)
  <2>1. left \in Remainders  BY <1>1 DEF TypeInv
  <2>2. PICK c \in Contents : SubSeq(left, 1, n) \in Pieces(c)
    BY <1>4, <1>7, <2>1, CutSuffix
  <2>3. \A k \in DOMAIN words' : words'[k] \in SegValue /\ Lies(words'[k], SubSeq(r, 1, n))
    BY <1>1, <1>4, <1>6, <2>2, SegmentAscends DEF Ascending
  <2> QED BY <1>2, <1>9, <2>3, PieceLies
<1>11. \A k \in DOMAIN words' : LiesAt(words[k], file_read_pos)'
  BY <1>1, <1>3, <1>10 DEF LiesAt
<1>12. \A id \in DOMAIN m_document.words : ListPoints(id, Listed(id))'
  BY <1>1, <1>5 DEF ListPoints, Points, Listed
<1> QED BY <1>1, <1>2, <1>3, <1>4, <1>5, <1>6, <1>9, <1>11, <1>12 DEF PointInv

\* The running word begins at its position.
LEMMA PositionPoints ==
    ASSUME TypeInv, PointInv, pc = "words", words # << >>
    PROVE  Points(WordId, Position)
<1>1. words \in Seq(SegValue) /\ file_read_pos \in Nat  BY DEF TypeInv, TypeOK
<1>2. 1 \in DOMAIN words /\ Head(words) = words[1] /\ words[1] \in SegValue
  BY <1>1
<1>3. PICK v \in SegValue : v = Head(words)  BY <1>2
<1>4. LiesAt(v, file_read_pos)  BY <1>2, <1>3 DEF PointInv, Building
<1>5. body \in Seq(Nat)  BY DEF PointInv, Building
<1>6. PICK n \in Nat : n = Len(v.word)  BY DEF SegValue
<1>7. n # 0  BY <1>4, <1>6 DEF LiesAt, SegValue
<1>8. PICK p \in Nat : p = file_read_pos + v.off  BY <1>1 DEF SegValue
<1>9. n \in 1 .. Len(body) - p /\ v.word = SubSeq(body, p + 1, p + n)
  <2>1. p + n =< Len(body) /\ v.word = SubSeq(body, p + 1, p + n)
    BY <1>4, <1>6, <1>8 DEF LiesAt
  <2>2. Len(body) \in Nat  BY <1>5
  <2> QED BY <1>7, <2>1, <2>2
<1> QED BY <1>3, <1>8, <1>9 DEF Points, WordId, Position

\* Whatever is entered, the rest of the words still lies in the body.
LEMMA PointEntered ==
    ASSUME TypeInv, PointInv, pc = "words", words # << >>, words' = Tail(words),
           UNCHANGED <<pc, kind, body, borders, file_read_pos, length, left>>,
           \A id \in DOMAIN m_document'.words : ListPoints(id, Listed(id)')
    PROVE  PointInv'
<1>1. words \in Seq(SegValue)  BY DEF TypeInv, TypeOK
<1>2. \A k \in DOMAIN Tail(words) : k + 1 \in DOMAIN words /\ Tail(words)[k] = words[k + 1]
  BY <1>1
<1>3. \A k \in DOMAIN words' : LiesAt(words'[k], file_read_pos)
  BY <1>2 DEF PointInv, Building
<1>4. \A k \in DOMAIN words' : LiesAt(words[k], file_read_pos)'
  BY <1>3 DEF LiesAt
<1>5. \A id \in DOMAIN m_document'.words : ListPoints(id, Listed(id))'
  BY DEF ListPoints, Points
<1> QED BY <1>4, <1>5 DEF PointInv, Building

\* A word that is known is listed behind another one.
LEMMA PointKnown == ASSUME TypeInv, PointInv, EnterKnown PROVE PointInv'
<1>1. /\ pc = "words" /\ words # << >> /\ words' = Tail(words)
      /\ UNCHANGED <<pc, kind, body, borders, file_read_pos, length, left>>
  BY DEF EnterKnown, pass1
<1>2. /\ DOMAIN m_document'.words = DOMAIN m_document.words
      /\ Position \in Nat
      /\ \A id \in DOMAIN m_document.words :
            Listed(id)' = IF id = WordId THEN Append(Listed(id), Position)
                          ELSE Listed(id)
  BY KnownType DEF Listed
<1>3. \A id \in DOMAIN m_document.words :
         ListPoints(id, Listed(id)) /\ Listed(id) \in Seq(Nat)
  BY <1>1 DEF PointInv, Building, TypeInv, IsDocument, Listed
<1>4. Points(WordId, Position)  BY <1>1, PositionPoints
<1> HIDE DEF WordId, Position, Listed, Points
<1>5. ASSUME NEW id \in DOMAIN m_document.words
      PROVE  ListPoints(id, Listed(id)')
  <2>1. CASE id # WordId  BY <1>2, <1>3, <2>1
  <2>2. CASE id = WordId
    <3>1. PICK s \in Seq(Nat) : s = Listed(id)  BY <1>3
    <3>2. PICK q \in Nat : q = Position  BY <1>2
    <3>3. Listed(id)' = Append(s, q)  BY <1>2, <2>2, <3>1, <3>2
    <3>4. /\ Append(s, q) # << >>
          /\ DOMAIN Append(s, q) = 1 .. Len(s) + 1
          /\ \A i \in DOMAIN s : Append(s, q)[i] = s[i]
          /\ Append(s, q)[Len(s) + 1] = q
          /\ DOMAIN s = 1 .. Len(s) /\ Len(s) \in Nat /\ (s # << >> => Len(s) # 0)
      OBVIOUS
    <3>5. ListPoints(id, s)  BY <1>3, <3>1
    <3>6. ASSUME NEW i \in DOMAIN Append(s, q)
          PROVE  IF kind = "file" /\ i = 1 THEN Append(s, q)[i] \in borders
                 ELSE Points(id, Append(s, q)[i])
      <4>1. CASE i \in DOMAIN s  BY <3>4, <3>5, <4>1 DEF ListPoints
      <4>2. CASE i \notin DOMAIN s
        <5>1. i = Len(s) + 1 /\ i # 1  BY <3>4, <3>5, <4>2 DEF ListPoints
        <5>2. Append(s, q)[i] = q  BY <3>4, <5>1
        <5> QED BY <1>4, <2>2, <3>2, <5>1, <5>2
      <4> QED BY <4>1, <4>2
    <3> QED BY <3>3, <3>4, <3>6 DEF ListPoints
  <2> QED BY <2>1, <2>2
<1> QED BY <1>1, <1>2, <1>5, PointEntered

\* A new word is listed where its block begins, or where it does.
LEMMA PointNew == ASSUME TypeInv, PointInv, EnterNew PROVE PointInv'
<1>1. /\ pc = "words" /\ words # << >> /\ words' = Tail(words)
      /\ UNCHANGED <<pc, kind, body, borders, file_read_pos, length, left>>
  BY DEF EnterNew, pass1
<1>2. /\ DOMAIN m_document'.words = DOMAIN m_document.words \cup {WordId}
      /\ \A id \in DOMAIN m_document'.words :
            Listed(id)' = IF id = WordId THEN <<FirstPosition>> ELSE Listed(id)
  BY NewType DEF Listed
<1>3. \A id \in DOMAIN m_document.words : ListPoints(id, Listed(id))
  BY <1>1 DEF PointInv, Building
<1>4. Points(WordId, Position)  BY <1>1, PositionPoints
<1>5. IF kind = "file" THEN FirstPosition \in borders
      ELSE Points(WordId, FirstPosition)
  BY <1>1, <1>4 DEF FirstPosition, PointInv, Building
<1> HIDE DEF WordId, Position, FirstPosition, Listed, Points
<1>6. ListPoints(WordId, <<FirstPosition>>)
  <2>1. PICK x : x = FirstPosition  OBVIOUS
  <2>2. <<x>> # << >> /\ DOMAIN <<x>> = {1} /\ <<x>>[1] = x  OBVIOUS
  <2> QED BY <1>5, <2>1, <2>2 DEF ListPoints
<1>7. \A id \in DOMAIN m_document'.words : ListPoints(id, Listed(id)')
  BY <1>2, <1>3, <1>6
<1> QED BY <1>1, <1>7, PointEntered

\* The second pass begins at the front of the file.
LEMMA PointOpen == ASSUME TypeInv, OpenFile, kind = "file" PROVE PointInv'
<1>1. /\ pc' = "read" /\ kind' = "file" /\ body' = left' /\ file_read_pos' = 0
      /\ left' = Bytes(files[path]) /\ files[path] # Absent
      /\ DOMAIN m_document'.words = {}
  BY DEF OpenFile, NewDocument, Nothing
<1>2. path \in Paths  BY DEF OpenFile, TypeInv
<1>3. PICK b \in Seq(Nat) : b = Bytes(files[path])
  BY <1>1, <1>2, BytesType DEF TypeInv, TypeOK
<1>4. b = SubSeq(b, 0 + 1, Len(b)) /\ 0 =< Len(b)  OBVIOUS
<1> QED BY <1>1, <1>3, <1>4 DEF PointInv, Building

\* A text is one block.
LEMMA PointText ==
    ASSUME TypeInv, NEW p \in Paths, NEW text \in Contents, ParseText(p, text)
    PROVE  PointInv'
<1>1. /\ pc' = "words" /\ kind' = "text" /\ body' = text /\ file_read_pos' = 0
      /\ left' = << >> /\ length' = Len(text) /\ words' = Segment(text)
      /\ DOMAIN m_document'.words = {}
  BY DEF ParseText, NewDocument, Nothing
<1>2. text \in Seq(Nat) /\ Len(text) \in Nat  BY ContentsSeq
<1>3. 0 + Len(text) =< Len(text) /\ SubSeq(text, 0 + Len(text) + 1, Len(text)) = << >>
  BY <1>2
<1>4. ASSUME NEW k \in DOMAIN words' PROVE LiesAt(words[k], file_read_pos)'
  <2>1. Segment(text)[k] \in SegValue /\ Lies(Segment(text)[k], text)
    BY <1>1, WholeIsPiece, SegmentAscends DEF Ascending
  <2>2. PICK v \in SegValue : v = Segment(text)[k]  BY <2>1
  <2>3. /\ 0 + v.off + Len(v.word) = v.off + Len(v.word)
        /\ 0 + v.off + 1 = v.off + 1
    BY DEF SegValue
  <2> QED BY <1>1, <2>1, <2>2, <2>3 DEF Lies, LiesAt
<1> QED BY <1>1, <1>2, <1>3, <1>4 DEF PointInv, Building

\* The next block begins where the last one ended.
LEMMA PointBlockDone == ASSUME TypeInv, PointInv, BlockDone PROVE PointInv'
<1>1. /\ pc = "words" /\ pc' = "read" /\ kind = "file" /\ kind' = kind
      /\ file_read_pos' = file_read_pos + length
      /\ UNCHANGED <<m_document, body, borders, left>>
  BY DEF BlockDone, pass1
<1> QED BY <1>1 DEF PointInv, Building, ListPoints, Points, Listed

\* A call of parse_file stays one until it has opened the file.
KindInv == pc \in {"hash", "open"} => kind = "file"

\* Every step keeps the positions pointing at words.
LEMMA PointStep ==
    TypeInv /\ KindInv /\ PointInv /\ [Next]_vars => KindInv' /\ PointInv'
<1> SUFFICES ASSUME TypeInv, KindInv, PointInv, [Next]_vars
             PROVE  KindInv' /\ PointInv'
  OBVIOUS
<1> USE DEF pass1, pass2, registries
<1>1. CASE Hash \/ \E p \in Paths : ParseFile(p)
  BY <1>1 DEF Hash, HashRead, HashDone, ParseFile, KindInv, PointInv, Building
<1>2. ASSUME NEW p \in Paths, NEW text \in Contents, ParseText(p, text)
      PROVE  KindInv' /\ PointInv'
  BY <1>2, PointText DEF ParseText, KindInv
<1>3. CASE OpenFile
  BY <1>3, PointOpen DEF OpenFile, KindInv
<1>4. CASE OpenFails \/ Register \/ Hand \/ HandNull
  BY <1>4 DEF OpenFails, Register, Hand, HandNull, KindInv, PointInv, Building
<1>5. CASE ReadBlock  BY <1>5, PointBlock DEF ReadBlock, KindInv
<1>6. CASE ReadEnd \/ ReadError
  <2>1. /\ UNCHANGED <<pc, kind, m_document, body, borders, file_read_pos, length,
                      left, words>>
        /\ pc = "read"
    BY <1>6 DEF ReadEnd, ReadError, vars
  <2> QED BY <2>1, PointQuiet DEF KindInv, Building
<1>7. CASE BlockDone  BY <1>7, PointBlockDone DEF BlockDone, KindInv
<1>8. CASE EnterKnown  BY <1>8, PointKnown DEF EnterKnown, KindInv
<1>9. CASE EnterNew  BY <1>9, PointNew DEF EnterNew, KindInv
<1>10. ASSUME NEW p \in Paths, NEW f \in Contents \cup {Absent, Unreadable}, Edit(p, f)
       PROVE  KindInv' /\ PointInv'
  BY <1>10, PointQuiet DEF Edit, KindInv, Building
<1>11. CASE UNCHANGED vars
  BY <1>11, PointQuiet DEF vars, KindInv, Building
<1> QED BY <1>1, <1>2, <1>3, <1>4, <1>5, <1>6, <1>7, <1>8, <1>9, <1>10, <1>11
        DEF Next, Step, Read, Enter

\* Each position of a word is where a word of its id begins in what was read,
\* the first one in a file apart, which is where a block begins: in every
\* behaviour, for any sizes of blocks and any segmentation.
THEOREM PositionsPointAtWords == Spec => []PositionsPoint
<1>1. Init => KindInv /\ PointInv  BY DEF Init, KindInv, PointInv, Building
<1>2. PointInv => PositionsPoint
  BY DEF PointInv, ListPoints, Points, PositionsPoint
<1> QED BY <1>1, <1>2, TypeInit, TypeStep, PointStep, PTL DEF Spec

-----------------------------------------------------------------------------
(* The first pass.                                                         *)

\* The code of a message that is hashed whole.
DigestOf(m) ==
    LET blocks == Blocks(Padded(m))
    IN  DocCode(blocks, SubSeq(blocks[Len(blocks)], 1, WordBytes))

\* While it runs, the context has been given what has been read of the file;
\* when it is over, the id is that of all of it.
DigestInv ==
    /\ pc = "hash" =>
          /\ hashed # Absent
          /\ \E m \in Seq(Nat) : StreamOf(ctx, m) /\ m \o left = Bytes(hashed)
    /\ pc = "open" /\ hashed # Absent => doc_id = DigestOf(Bytes(hashed))

\* A read moves a piece of what is left to what has been given.
LEMMA DigestRead == ASSUME TypeInv, DigestInv, HashRead PROVE DigestInv'
<1>1. PICK n \in 1 .. Len(left) :
         /\ ctx' = MD5Update(ctx, SubSeq(left, 1, n))
         /\ left' = SubSeq(left, n + 1, Len(left))
  BY DEF HashRead
<1>2. pc = "hash" /\ pc' = "hash" /\ hashed' = hashed  BY DEF HashRead
<1>3. PICK m \in Seq(Nat) : StreamOf(ctx, m) /\ m \o left = Bytes(hashed)
  BY <1>2 DEF DigestInv
<1>4. left \in Seq(Nat)  BY DEF TypeInv, TypeOK
<1>5. PICK l \in Nat : l = Len(left)  BY <1>4
<1>6. PICK x, y \in Seq(Nat) : /\ x = SubSeq(left, 1, n)
                               /\ y = SubSeq(left, n + 1, l)
  <2>1. \A k \in 1 .. n : left[k] \in Nat  BY <1>4
  <2>2. SubSeq(left, 1, n) \in Seq(Nat)  BY <2>1, SubSeqProperties
  <2>3. PICK a \in Int : a = n + 1  OBVIOUS
  <2>4. \A k \in a .. l : left[k] \in Nat  BY <1>4, <1>5, <2>3
  <2>5. SubSeq(left, a, l) \in Seq(Nat)  BY <2>4, SubSeqProperties
  <2> QED BY <2>2, <2>3, <2>5
<1>7. x \o y = left
  <2>1. SubSeq(left, 1, n) \o SubSeq(left, n + 1, l) = SubSeq(left, 1, l)
    BY <1>4, <1>5, ConcatAdjacentSubSeq
  <2> QED BY <1>4, <1>5, <1>6, <2>1
<1>8. m \o x \in Seq(Nat) /\ StreamOf(ctx', m \o x)
  BY <1>1, <1>3, <1>6, StreamUpdate
<1>9. (m \o x) \o y = m \o (x \o y)  BY ConcatAssociative
<1>10. (m \o x) \o left' = Bytes(hashed')
  BY <1>1, <1>2, <1>3, <1>5, <1>6, <1>7, <1>9
<1>11. hashed' # Absent  BY <1>2 DEF DigestInv
<1> QED BY <1>2, <1>8, <1>10, <1>11 DEF DigestInv

\* At the end of the file the digest is taken.
LEMMA DigestDone == ASSUME TypeInv, DigestInv, HashDone PROVE DigestInv'
<1>1. /\ pc = "hash" /\ pc' = "open" /\ hashed' = hashed /\ left = << >>
      /\ doc_id' = FileCode(MD5Final(ctx))
  BY DEF HashDone
<1>2. PICK m \in Seq(Nat) : StreamOf(ctx, m) /\ m \o left = Bytes(hashed)
  BY <1>1 DEF DigestInv
<1>3. m = Bytes(hashed)  BY <1>1, <1>2
<1>4. FileCode(MD5Final(ctx)) = DigestOf(m)
  BY <1>2, FinalIs DEF FileCode, DigestOf
<1> QED BY <1>1, <1>3, <1>4 DEF DigestInv

\* A file that can be opened is read from its front with a new context.
LEMMA DigestBegin ==
    ASSUME TypeInv, NEW p \in Paths, ParseFile(p)
    PROVE  DigestInv'
<1>1. /\ ctx' = MD5Init /\ hashed' = files[p]
      /\ IF files[p] = Absent THEN pc' = "open"
         ELSE pc' = "hash" /\ left' = Bytes(files[p])
  BY DEF ParseFile
<1>2. CASE files[p] = Absent  BY <1>1, <1>2 DEF DigestInv
<1>3. CASE files[p] # Absent
  <2>1. Bytes(files[p]) \in Seq(Nat)  BY <1>3, BytesType DEF TypeInv, TypeOK
  <2>2. PICK s \in Seq(Nat) : s = Bytes(files[p])  BY <2>1
  <2>0. << >> \in Seq(Nat)  OBVIOUS
  <2>3. PICK m \in Seq(Nat) : m = << >>  BY <2>0
  <2>4. m \o s = s  BY <2>3
  <2>5. StreamOf(ctx', m)  BY <1>1, <2>3, StreamInit
  <2> QED BY <1>1, <1>3, <2>2, <2>4, <2>5 DEF DigestInv
<1> QED BY <1>2, <1>3

\* Every step keeps the digest.
LEMMA DigestStep == TypeInv /\ DigestInv /\ [Next]_vars => DigestInv'
<1> SUFFICES ASSUME TypeInv, DigestInv, [Next]_vars PROVE DigestInv'
  OBVIOUS
<1> USE DEF pass1, pass2
<1>1. ASSUME NEW p \in Paths, ParseFile(p) PROVE DigestInv'
  BY <1>1, DigestBegin
<1>2. CASE Hash  BY <1>2, DigestRead, DigestDone DEF Hash
<1>3. ASSUME NEW p \in Paths, NEW text \in Contents, ParseText(p, text)
      PROVE  DigestInv'
  BY <1>3 DEF ParseText, DigestInv
<1>4. CASE Read
  <2>1. pc' \notin {"hash", "open"}
        \/ (pc \in {"read"} /\ pc' = pc)
    BY <1>4 DEF Read, OpenFails, OpenFile, ReadBlock, ReadEnd, ReadError, vars
  <2> QED BY <2>1 DEF DigestInv
<1>5. CASE Enter
  <2>1. pc' \notin {"hash", "open"}
    BY <1>5 DEF Enter, EnterKnown, EnterNew, BlockDone, Register
  <2> QED BY <2>1 DEF DigestInv
<1>6. CASE Hand \/ HandNull
  BY <1>6 DEF Hand, HandNull, DigestInv
<1>7. ASSUME NEW p \in Paths, NEW f \in Contents \cup {Absent, Unreadable}, Edit(p, f)
      PROVE  DigestInv'
  BY <1>7 DEF Edit, DigestInv
<1>8. CASE UNCHANGED vars  BY <1>8 DEF vars, DigestInv
<1> QED BY <1>1, <1>2, <1>3, <1>4, <1>5, <1>6, <1>7, <1>8 DEF Next, Step

\* The id of a file is the digest of its bytes, padded and with the length as
\* MD5 defines it, whatever pieces the file was read in and however long it
\* is, and the word behind the state is the last block's first one.
THEOREM IdsAreDigests == Spec => []IdIsDigest
<1>1. Init => DigestInv  BY DEF Init, DigestInv
<1>2. DigestInv => IdIsDigest  BY DEF DigestInv, IdIsDigest, DigestOf
<1> QED BY <1>1, <1>2, TypeInit, TypeStep, DigestStep, PTL DEF Spec

-----------------------------------------------------------------------------
(* Words are entered.                                                      *)

\* The document and the registry have its id.
IsEntered(v) ==
    /\ BufferCode(v.word) \in DOMAIN m_document.words
    /\ BufferCode(v.word) \in DOMAIN word_db

\* It is among the words of the running block.
IsWaiting(v) == pc = "words" /\ \E k \in DOMAIN words : words[k] = v

\* Where reading has got to.
ReadTo == IF pc = "read" THEN file_read_pos ELSE file_read_pos + length

IsCovered(i) == \E b \in borders : i \in b + 1 .. b + Len(BlockAt(b))

\* Bytes are ahead of the reading or in a block.
CoverInv == \A i \in DOMAIN body : (Building /\ ReadTo < i) \/ IsCovered(i)

\* Words of a block are entered or wait.
WordsInv ==
    \A b \in borders : \A v \in Range(Segment(BlockAt(b))) :
        IsEntered(v) \/ IsWaiting(v)

\* No block is forgotten.  The registry has all words of the running document;
\* a body is there only from the opening of the file on; when the end of the
\* file was seen, and of a text always, nothing is left to read.
EnterInv ==
    /\ Building => DOMAIN m_document.words \subseteq DOMAIN word_db
    /\ pc \in {"idle", "hash", "open"} => body = << >>
    /\ Building /\ (eof \/ kind = "text") => left = << >>
    /\ pc \in {"read", "words", "done"} /\ body # << >> => CoverInv /\ WordsInv

\* Steps that leave the second pass alone.
LEMMA EnterQuiet ==
    ASSUME EnterInv,
           UNCHANGED <<pc, kind, m_document, word_db, body, borders,
                       file_read_pos, length, words, left, eof>>
    PROVE  EnterInv'
BY DEF EnterInv, CoverInv, WordsInv, IsCovered, IsEntered, IsWaiting, ReadTo,
       BlockAt, Building

\* A block is read.
LEMMA EnterBlock ==
    ASSUME TypeInv, PointInv, EnterInv, ReadBlock
    PROVE  EnterInv'
<1>1. /\ pc = "read" /\ pc' = "words" /\ Building
      /\ UNCHANGED <<kind, m_document, word_db, body, file_read_pos>>
      /\ borders' = borders \cup {file_read_pos}
      /\ words' = Segment(SubSeq(left, 1, length'))
      /\ left' = SubSeq(left, length' + 1, Len(left))
      /\ left # << >>
      /\ length' = Min({ReadBytes, Len(left)})
      /\ eof' = (length' < ReadBytes)
  BY DEF ReadBlock, BlockWords, Building, registries
<1>2. PICK b \in Seq(Nat) : b = body  BY <1>1 DEF PointInv
<1>3. PICK p \in Nat : p = file_read_pos  BY DEF TypeInv, TypeOK
<1>4. PICK r \in Seq(Nat) : r = left  BY DEF TypeInv, TypeOK
<1>5. kind = "file" /\ p =< Len(b) /\ r = SubSeq(b, p + 1, Len(b))
  BY <1>1, <1>2, <1>3, <1>4 DEF PointInv
<1>6. PICK n : n = length'  OBVIOUS
<1>7. n \in 1 .. Len(r)  BY <1>4, <1>6, BlockRead
<1>8. Len(r) = Len(b) - p /\ Len(b) \in Nat  BY <1>5
<1>9. /\ n \in Nat /\ p + n =< Len(b) /\ p + n \in Nat
      /\ SubSeq(r, 1, n) = SubSeq(b, p + 1, p + n)
  <2>1. n \in Nat /\ p + n =< Len(b)  BY <1>7, <1>8
  <2>2. SubSeq(r, 1, n) = SubSeq(b, p + 1, p + n)  BY <1>5, <1>8, <2>1
  <2> QED BY <2>1, <2>2
<1>0. PICK k \in Nat \ {0} : k = ReadBytes  BY ParserAssumption
<1>10. n = Min({k, Len(r)})  BY <1>0, <1>1, <1>4, <1>6
<1>11. n \in {k, Len(r)} /\ n =< k /\ n =< Len(r)
  BY <1>0, <1>8, <1>10, MinOfTwo
<1>12. eof' \/ kind' = "text" => left' = << >>
  <2> SUFFICES ASSUME eof' PROVE left' = << >>
    BY <1>1, <1>5
  <2>1. n < k  BY <1>0, <1>1, <1>6
  <2>2. n = Len(r)  BY <1>0, <1>8, <1>11, <2>1
  <2>3. left' = SubSeq(r, n + 1, Len(r))  BY <1>1, <1>4, <1>6
  <2> QED BY <1>4, <2>2, <2>3
<1>13. BlockAt(p)' = SubSeq(b, p + 1, p + n)
  <2>0. p + k \in Nat  BY <1>0, <1>3
  <2>1. PICK x \in Nat, y \in Nat : x = p + k /\ y = Len(b)  BY <1>8, <2>0
  <2>2. PICK m : m = Min({x, y})  OBVIOUS
  <2>3. m \in {x, y} /\ m =< x /\ m =< y  BY <2>2, MinOfTwo
  <2>5. m = p + n  BY <1>0, <1>8, <1>11, <2>1, <2>3
  <2>4. BlockAt(p)' = SubSeq(b, p + 1, Min({x, y}))
    BY <1>0, <1>1, <1>2, <1>5, <2>1 DEF BlockAt
  <2> QED BY <2>2, <2>4, <2>5
<1>14. \A c : BlockAt(c)' = BlockAt(c)  BY <1>1 DEF BlockAt
<1>15. b # << >>  BY <1>7, <1>8
<1>16. CoverInv /\ WordsInv  BY <1>1, <1>2, <1>15 DEF EnterInv
<1>17. ReadTo = p /\ ReadTo' = p + n  BY <1>1, <1>3, <1>6 DEF ReadTo
<1>18. CoverInv'
  <2> SUFFICES ASSUME NEW i \in DOMAIN b, ~ (p + n < i) PROVE IsCovered(i)'
    BY <1>1, <1>2, <1>17 DEF CoverInv, Building
  <2>1. i \in Nat  BY <1>2
  <2>2. CASE p < i
    <3>1. Len(SubSeq(b, p + 1, p + n)) = n  BY <1>2, <1>3, <1>9
    <3>2. i \in p + 1 .. p + n  BY <1>9, <2>1, <2>2
    <3>3. p \in borders'  BY <1>1, <1>3
    <3> QED BY <1>13, <3>1, <3>2, <3>3 DEF IsCovered
  <2>3. CASE ~ (p < i)
    <3>1. IsCovered(i)  BY <1>2, <1>16, <1>17, <2>3 DEF CoverInv
    <3> QED BY <1>1, <1>14, <3>1 DEF IsCovered
  <2> QED BY <2>2, <2>3
<1>19. WordsInv'
  <2> SUFFICES ASSUME NEW c \in borders', NEW v \in Range(Segment(BlockAt(c)'))
               PROVE  (IsEntered(v) \/ IsWaiting(v))'
    BY DEF WordsInv
  <2>1. CASE c = p
    <3>1. words' = Segment(BlockAt(p)')  BY <1>1, <1>4, <1>6, <1>9, <1>13
    <3>2. \E j \in DOMAIN words' : words'[j] = v  BY <2>1, <3>1 DEF Range
    <3> QED BY <1>1, <3>2 DEF IsWaiting
  <2>2. CASE c # p
    <3>1. IsEntered(v) \/ IsWaiting(v)
      BY <1>1, <1>3, <1>14, <1>16, <2>2 DEF WordsInv
    <3>2. ~ IsWaiting(v)  BY <1>1 DEF IsWaiting
    <3> QED BY <1>1, <3>1, <3>2 DEF IsEntered
  <2> QED BY <2>1, <2>2
<1> QED BY <1>1, <1>12, <1>16, <1>18, <1>19 DEF EnterInv, Building

\* A word is entered.
LEMMA EnterWord ==
    ASSUME TypeInv, EnterInv, EnterKnown \/ EnterNew
    PROVE  EnterInv'
<1>1. /\ pc = "words" /\ pc' = "words" /\ Building
      /\ words # << >> /\ words' = Tail(words)
      /\ UNCHANGED <<kind, body, borders, file_read_pos, length, left, eof>>
  BY DEF EnterKnown, EnterNew, pass1, Building
<1>2. /\ WordId \in DOMAIN m_document'.words
      /\ DOMAIN m_document.words \subseteq DOMAIN m_document'.words
      /\ DOMAIN m_document'.words \subseteq DOMAIN word_db'
      /\ DOMAIN word_db \subseteq DOMAIN word_db'
  <2>1. DOMAIN m_document.words \subseteq DOMAIN word_db
    BY <1>1 DEF EnterInv
  <2>2. CASE EnterKnown
    <3>1. DOMAIN m_document'.words = DOMAIN m_document.words  BY <2>2, KnownType
    <3> QED BY <2>1, <2>2, <3>1 DEF EnterKnown, registries
  <2>3. CASE EnterNew
    <3>1. DOMAIN m_document'.words = DOMAIN m_document.words \cup {WordId}
      BY <2>3, NewType
    <3>2. DOMAIN word_db' = DOMAIN word_db \cup {WordId}  BY <2>3 DEF EnterNew, Put
    <3> QED BY <2>1, <3>1, <3>2
  <2> QED BY <2>2, <2>3
<1>3. words \in Seq(SegValue)  BY DEF TypeInv, TypeOK
<1>4. \A c : BlockAt(c)' = BlockAt(c)  BY <1>1 DEF BlockAt
<1>5. ASSUME body # << >> PROVE CoverInv'
  <2>1. CoverInv  BY <1>1, <1>5 DEF EnterInv
  <2> QED BY <1>1, <1>4, <2>1 DEF CoverInv, IsCovered, ReadTo, Building
<1>6. ASSUME body # << >>, NEW c \in borders, NEW v \in Range(Segment(BlockAt(c)))
      PROVE  (IsEntered(v) \/ IsWaiting(v))'
  <2>1. IsEntered(v) \/ IsWaiting(v)  BY <1>1, <1>6 DEF EnterInv, WordsInv
  <2>2. CASE IsEntered(v)  BY <1>2, <2>2 DEF IsEntered, BufferCode
  <2>3. CASE IsWaiting(v)
    <3>1. PICK k \in DOMAIN words : words[k] = v  BY <2>3 DEF IsWaiting
    <3>2. CASE k = 1
      <4>1. WordId = BufferCode(v.word)  BY <1>1, <1>3, <3>1, <3>2 DEF WordId
      <4> QED BY <1>2, <4>1 DEF IsEntered, BufferCode
    <3>3. CASE k # 1
      <4>1. k - 1 \in DOMAIN Tail(words) /\ Tail(words)[k - 1] = words[k]
        BY <1>3, <3>1, <3>3
      <4> QED BY <1>1, <3>1, <4>1 DEF IsWaiting
    <3> QED BY <3>2, <3>3
  <2> QED BY <2>1, <2>2, <2>3
<1>7. body # << >> => WordsInv'
  BY <1>1, <1>4, <1>6 DEF WordsInv
<1> QED BY <1>1, <1>2, <1>5, <1>7 DEF EnterInv, Building

\* Before the first block, all bytes are ahead.
LEMMA EnterOpen ==
    ASSUME TypeInv, KindInv, EnterInv, OpenFile PROVE EnterInv'
<1>1. /\ pc = "open" /\ pc' = "read" /\ kind' = "file" /\ eof' = FALSE
      /\ body' = Bytes(files[path]) /\ files[path] # Absent /\ file_read_pos' = 0
      /\ borders' = {}
      /\ DOMAIN m_document'.words = {} /\ word_db' = word_db
  BY DEF OpenFile, KindInv, NewDocument, Nothing, registries
<1>2. body' \in Seq(Nat)  BY <1>1, BytesType DEF TypeInv, TypeOK
<1>3. PICK b \in Seq(Nat) : b = body'  BY <1>2
<1>4. ASSUME NEW i \in DOMAIN b PROVE ReadTo' < i
  BY <1>1, <1>4 DEF ReadTo
<1>5. CoverInv'  BY <1>1, <1>3, <1>4 DEF CoverInv, Building
<1>6. WordsInv'  BY <1>1 DEF WordsInv
<1> QED BY <1>1, <1>5, <1>6 DEF EnterInv, Building

\* A text is one block, and its words wait.
LEMMA EnterText ==
    ASSUME TypeInv, EnterInv, NEW p \in Paths, NEW text \in Contents,
           ParseText(p, text)
    PROVE  EnterInv'
<1>1. /\ pc' = "words" /\ body' = text /\ left' = << >> /\ words' = Segment(text)
      /\ kind' = "text" /\ borders' = {0}
      /\ DOMAIN m_document'.words = {} /\ word_db' = word_db
  BY DEF ParseText, NewDocument, Nothing, registries
<1>2. PICK t \in Seq(Nat) : t = text  BY ParserAssumption
<1>3. \A c : BlockAt(c)' = t  BY <1>1, <1>2 DEF BlockAt
<1>4. CoverInv'
  <2> SUFFICES ASSUME NEW i \in DOMAIN t PROVE IsCovered(i)'
    BY <1>1, <1>2 DEF CoverInv
  <2>1. i \in 0 + 1 .. 0 + Len(t)  BY <1>2
  <2> QED BY <1>1, <1>3, <2>1 DEF IsCovered
<1>5. WordsInv'
  <2> SUFFICES ASSUME NEW v \in Range(Segment(t)) PROVE IsWaiting(v)'
    BY <1>1, <1>3 DEF WordsInv
  <2>1. \E k \in DOMAIN words' : words'[k] = v  BY <1>1, <1>2 DEF Range
  <2> QED BY <1>1, <2>1 DEF IsWaiting
<1> QED BY <1>1, <1>4, <1>5 DEF EnterInv, Building

\* When the document is registered nothing waits and nothing is ahead.
LEMMA EnterRegister ==
    ASSUME TypeInv, PointInv, EnterInv, Register PROVE EnterInv'
<1>1. /\ pc' = "done" /\ Building /\ left = << >>
      /\ UNCHANGED <<kind, m_document, word_db, body, borders>>
      /\ (pc = "read" \/ (pc = "words" /\ words = << >>))
  BY DEF Register, pass1, pass2, EnterInv, Building
<1>2. \A c : BlockAt(c)' = BlockAt(c)  BY <1>1 DEF BlockAt
<1>3. ASSUME body # << >>, NEW i \in DOMAIN body PROVE IsCovered(i)'
  <2>1. PICK b \in Seq(Nat) : b = body  BY <1>1 DEF PointInv
  <2>2. PICK p : p = ReadTo  OBVIOUS
  <2>3. p \in Nat  BY <2>2 DEF ReadTo, TypeInv, TypeOK
  <2>4. p =< Len(b) /\ << >> = SubSeq(b, p + 1, Len(b))
    BY <1>1, <2>1, <2>2 DEF PointInv, ReadTo, Building
  <2>5. p = Len(b)
    <3>1. PICK z : z = SubSeq(b, p + 1, Len(b))  OBVIOUS
    <3>2. Len(z) = Len(b) - p  BY <2>1, <2>3, <2>4, <3>1
    <3>3. Len(z) = 0  BY <2>4, <3>1
    <3> QED BY <2>1, <2>3, <3>2, <3>3
  <2>6. ~ (p < i)  BY <1>3, <2>1, <2>5
  <2>7. IsCovered(i)  BY <1>1, <1>3, <2>2, <2>6 DEF EnterInv, CoverInv, Building
  <2> QED BY <1>1, <1>2, <2>7 DEF IsCovered
<1>4. ASSUME body # << >>, NEW c \in borders, NEW v \in Range(Segment(BlockAt(c)))
      PROVE  IsEntered(v)'
  <2>1. IsEntered(v) \/ IsWaiting(v)
    BY <1>1, <1>4 DEF EnterInv, WordsInv, Building
  <2>2. ~ IsWaiting(v)
    <3>1. DOMAIN << >> = {}  OBVIOUS
    <3> QED BY <1>1, <3>1 DEF IsWaiting
  <2> QED BY <1>1, <2>1, <2>2 DEF IsEntered
<1>5. body # << >> => CoverInv'  BY <1>1, <1>3 DEF CoverInv
<1>6. body # << >> => WordsInv'  BY <1>1, <1>2, <1>4 DEF WordsInv
<1> QED BY <1>1, <1>5, <1>6 DEF EnterInv, Building

\* The block's words are in; reading goes on behind it.
LEMMA EnterDone == ASSUME EnterInv, BlockDone PROVE EnterInv'
<1>1. /\ pc = "words" /\ pc' = "read" /\ words = << >>
      /\ file_read_pos' = file_read_pos + length
      /\ UNCHANGED <<kind, m_document, word_db, body, borders, left, eof>>
  BY DEF BlockDone, pass1, registries
<1>2. ReadTo' = ReadTo /\ Building /\ Building'
  BY <1>1 DEF ReadTo, Building
<1>3. \A c : BlockAt(c)' = BlockAt(c)  BY <1>1 DEF BlockAt
<1>4. CoverInv => CoverInv'  BY <1>1, <1>2, <1>3 DEF CoverInv, IsCovered
<1>5. DOMAIN << >> = {}  OBVIOUS
<1>6. WordsInv => WordsInv'
  BY <1>1, <1>3, <1>5 DEF WordsInv, IsEntered, IsWaiting
<1> QED BY <1>1, <1>2, <1>4, <1>6 DEF EnterInv, Building

\* Every step keeps every block accounted for.
LEMMA EnterStep ==
    ASSUME TypeInv, KindInv, PointInv, EnterInv, [Next]_vars
    PROVE  EnterInv'
<1> USE DEF pass1, pass2, registries, outside
<1>1. CASE Hash \/ \E p \in Paths : ParseFile(p)
  BY <1>1 DEF Hash, HashRead, HashDone, ParseFile, EnterInv, Building
<1>2. ASSUME NEW p \in Paths, NEW text \in Contents, ParseText(p, text)
      PROVE  EnterInv'
  BY <1>2, EnterText
<1>3. CASE OpenFile  BY <1>3, EnterOpen
<1>4. CASE OpenFails \/ Hand \/ HandNull
  BY <1>4 DEF OpenFails, Hand, Forget, HandNull, EnterInv, Building
<1>5. CASE ReadBlock  BY <1>5, EnterBlock
<1>6. CASE ReadEnd
  <2>1. /\ pc = "read" /\ left = << >>
        /\ UNCHANGED <<pc, kind, m_document, word_db, body, borders,
                       file_read_pos, length, words, left>>
    BY <1>6 DEF ReadEnd
  <2> QED BY <2>1 DEF EnterInv, CoverInv, WordsInv, IsCovered, IsEntered,
                      IsWaiting, ReadTo, BlockAt, Building
<1>7. CASE BlockDone  BY <1>7, EnterDone
<1>8. CASE EnterKnown \/ EnterNew  BY <1>8, EnterWord
<1>9. CASE Register  BY <1>9, EnterRegister
<1>10. ASSUME NEW p \in Paths, NEW f \in Contents \cup {Absent, Unreadable}, Edit(p, f)
       PROVE  EnterInv'
  BY <1>10, EnterQuiet DEF Edit
<1>11. CASE ReadError \/ UNCHANGED vars
  BY <1>11, EnterQuiet DEF vars, ReadError
<1> QED BY <1>1, <1>2, <1>3, <1>4, <1>5, <1>6, <1>7, <1>8, <1>9, <1>10, <1>11
        DEF Next, Step, Read, Enter

\* When a parse ends every byte of the content was in a block, and every word
\* the library finds in a block is in the document and in the registry of
\* words, whatever other words have its id and whenever the end of the file is
\* seen: for any files, block sizes, segmentations and codes.
THEOREM BlockWordsAreEntered == Spec => []BlocksEntered
<1>1. Init => KindInv /\ PointInv /\ EnterInv
  BY DEF Init, NoLocals, KindInv, PointInv, EnterInv, Building
<1>2. EnterInv => BlocksEntered
  <2> SUFFICES ASSUME EnterInv, pc = "done", body # << >> PROVE BlocksEntered
    BY DEF BlocksEntered
  <2>1. CoverInv /\ WordsInv  BY DEF EnterInv
  <2>2. \A i \in DOMAIN body : IsCovered(i)  BY <2>1 DEF CoverInv, Building
  <2>3. ASSUME NEW b \in borders, NEW v \in Range(Segment(BlockAt(b)))
        PROVE  IsEntered(v)
    BY <2>1 DEF WordsInv, IsWaiting
  <2> QED BY <2>2, <2>3 DEF BlocksEntered, IsCovered, IsEntered
<1>3. TypeInv /\ KindInv /\ PointInv /\ EnterInv /\ [Next]_vars => EnterInv'
  BY EnterStep
<1> QED BY <1>1, <1>2, <1>3, TypeInit, TypeStep, PointStep, PTL DEF Spec

=============================================================================
