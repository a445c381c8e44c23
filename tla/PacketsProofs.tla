--------------------------- MODULE PacketsProofs ---------------------------
(***************************************************************************)
(* UnpackData stays within its packet and returns the field's bits, for    *)
(* packets of any length, fields of any size and place, and whatever       *)
(* handler it is called from.  The handlers read what was sent, and stay   *)
(* near their packets, for messages of any length.                         *)
(***************************************************************************)
EXTENDS Packets, SequenceTheorems, NaturalsInduction, WellFoundedInduction, TLAPS

(* Numbers.                                                                *)

LEMMA Least ==
  ASSUME NEW S, S \subseteq Nat, S # {}
  PROVE  \E n \in S : \A m \in S : n <= m
<1> DEFINE R == {ss \in Nat \X Nat : ss[1] < ss[2]}
<1>1. IsWellFoundedOn(R, Nat)
  BY NatLessThanWellFounded, Zenon DEF OpToRel
<1> HIDE DEF R
<1>2. PICK n \in S : \A m \in S : <<m, n>> \notin R
  BY <1>1, WFMin
<1>3. \A m \in S : ~ m < n
  BY <1>2 DEF R
<1> QED
  BY <1>3

LEMMA UpTo ==
  ASSUME NEW N \in Nat, NEW S, 0 \in S, \A n \in 0 .. N - 1 : n \in S => n + 1 \in S
  PROVE  \A n \in 0 .. N : n \in S
<1> DEFINE T == {n \in 0 .. N : n \notin S}
<1> SUFFICES ASSUME T # {} PROVE FALSE
  OBVIOUS
<1>1. PICK n \in T : \A m \in T : n <= m
  <2>1. T \subseteq Nat
    OBVIOUS
  <2> HIDE DEF T
  <2> QED
    BY <2>1, Least
<1>2. n \in 0 .. N /\ n # 0 /\ n \notin S
  OBVIOUS
<1>3. n - 1 \in 0 .. N - 1 /\ n - 1 \notin T /\ (n - 1) + 1 = n
  BY <1>1, <1>2
<1> QED
  BY <1>2, <1>3

LEMMA Powers ==
  /\ \A a \in 0 .. 29 : 2 ^ (a + 1) = 2 * 2 ^ a
  /\ \A a \in 0 .. 30 : 2 ^ a \in Nat \ {0}
  /\ 2 ^ 0 = 1 /\ 2 ^ 8 = 256
<1> DEFINE P == [a \in 0 .. 30 |-> 2 ^ a]
<1>1. /\ TRUE
      /\ P[0] = 1 /\ P[1] = 2 /\ P[2] = 4 /\ P[3] = 8
      /\ P[4] = 16 /\ P[5] = 32 /\ P[6] = 64 /\ P[7] = 128
      /\ P[8] = 256 /\ P[9] = 512 /\ P[10] = 1024 /\ P[11] = 2048
      /\ P[12] = 4096 /\ P[13] = 8192 /\ P[14] = 16384 /\ P[15] = 32768
      /\ P[16] = 65536 /\ P[17] = 131072 /\ P[18] = 262144 /\ P[19] = 524288
      /\ P[20] = 1048576 /\ P[21] = 2097152 /\ P[22] = 4194304 /\ P[23] = 8388608
      /\ P[24] = 16777216 /\ P[25] = 33554432 /\ P[26] = 67108864 /\ P[27] = 134217728
      /\ P[28] = 268435456 /\ P[29] = 536870912 /\ P[30] = 1073741824
  OBVIOUS
<1>2. \A a \in 0 .. 30 : 2 ^ a = P[a]
  OBVIOUS
<1> HIDE DEF P
<1>3. \A a \in 0 .. 29 : P[a + 1] = 2 * P[a]
  BY <1>1
<1>4. \A a \in 0 .. 30 : P[a] \in Nat \ {0}
  BY <1>1
<1>5. \A a \in 0 .. 29 : a \in 0 .. 30 /\ a + 1 \in 0 .. 30
  OBVIOUS
<1> QED
  BY <1>2, <1>3, <1>4, <1>5

LEMMA PowerSum ==
  ASSUME NEW a \in 0 .. 30, NEW m \in 0 .. 30, a + m <= 30
  PROVE  2 ^ (a + m) = 2 ^ a * 2 ^ m
<1> DEFINE S == {n \in 0 .. 30 : a + n <= 30 => 2 ^ (a + n) = 2 ^ a * 2 ^ n}
<1>1. 0 \in S
  <2>1. 2 ^ 0 = 1 /\ 2 ^ a \in Nat
    BY Powers
  <2> QED
    BY <2>1
<1>2. ASSUME NEW n \in 0 .. 29, n \in S PROVE n + 1 \in S
  <2> SUFFICES ASSUME a + n <= 29 PROVE 2 ^ (a + (n + 1)) = 2 ^ a * 2 ^ (n + 1)
    OBVIOUS
  <2>1. 2 ^ (a + n) = 2 ^ a * 2 ^ n
    BY <1>2
  <2>2. n \in 0 .. 30 /\ n \in 0 .. 29 /\ a + n \in 0 .. 29 /\ (a + n) + 1 = a + (n + 1)
    OBVIOUS
  <2>3. /\ 2 ^ a \in Nat \ {0} /\ 2 ^ n \in Nat \ {0}
        /\ 2 ^ (n + 1) = 2 * 2 ^ n /\ 2 ^ ((a + n) + 1) = 2 * 2 ^ (a + n)
    BY <2>2, Powers, Zenon
  <2>4. PICK p, q, r : p = 2 ^ a /\ q = 2 ^ n /\ r = 2 ^ (n + 1)
    OBVIOUS
  <2>5. p \in Nat /\ q \in Nat /\ r = 2 * q
    BY <2>3, <2>4, Zenon
  <2>6. 2 * (p * q) = p * r
    BY <2>5
  <2>7. 2 ^ (a + (n + 1)) = 2 * (p * q)
    BY <2>1, <2>2, <2>3, <2>4, Zenon
  <2> QED
    BY <2>4, <2>6, <2>7, Zenon
<1> HIDE DEF S
<1>3. m \in S
  BY <1>1, <1>2, UpTo
<1> QED
  BY <1>3 DEF S

(* The rest by a larger number.                                            *)
LEMMA SmallRest ==
  ASSUME NEW x \in Nat, NEW N \in Nat, x < N
  PROVE  x % N = x
  OBVIOUS

(* A number is the rest when a multiple of the divisor is added.           *)
LEMMA Quotient ==
  ASSUME NEW m \in Nat \ {0}, NEW k \in Nat, NEW v \in 0 .. m - 1
  PROVE  (k * m + v) % m = v
<1>1. PICK x, y, w : x = k * m + v /\ y = x \div m /\ w = x % m
  OBVIOUS
<1>2. x \in Nat
  BY <1>1
<1>3. y \in Nat /\ w \in 0 .. m - 1 /\ x = y * m + w
  BY <1>1, <1>2
<1>4. \A d \in Nat \ {0} : d * m >= m
  OBVIOUS
<1>5. CASE k > y
  <2>1. k - y \in Nat \ {0} /\ (k - y) * m = k * m - y * m
    BY <1>3, <1>5
  <2> QED
    BY <1>1, <1>3, <1>4, <2>1
<1>6. CASE y > k
  <2>1. y - k \in Nat \ {0} /\ (y - k) * m = y * m - k * m
    BY <1>3, <1>6
  <2> QED
    BY <1>1, <1>3, <1>4, <2>1
<1>7. CASE k = y
  BY <1>1, <1>3, <1>7
<1> QED
  BY <1>3, <1>5, <1>6, <1>7

(* Taking the rest early changes nothing: a sum kept in eight bits is the  *)
(* sum's low eight bits.                                                   *)
LEMMA RestSum ==
  ASSUME NEW m \in Nat \ {0}, NEW a \in Nat, NEW b \in Nat
  PROVE  ((a % m) + b) % m = (a + b) % m
<1>1. PICK q, r : q = a \div m /\ r = a % m
  OBVIOUS
<1>2. q \in Nat /\ r \in 0 .. m - 1 /\ a = q * m + r
  BY <1>1
<1>3. PICK n, s, v : n = r + b /\ s = n \div m /\ v = n % m
  OBVIOUS
<1>4. n \in Nat
  BY <1>2, <1>3
<1>5. s \in Nat /\ v \in 0 .. m - 1 /\ r + b = s * m + v
  <2>1. s \in Nat /\ v \in 0 .. m - 1 /\ n = s * m + v
    <3>1. s = n \div m /\ v = n % m
      BY <1>3
    <3>2. m \in Nat \ {0}
      OBVIOUS
    <3>3. v \in 0 .. m - 1 /\ n = s * m + v /\ s \in Int
      BY <1>4, <3>1, <3>2
    <3>4. s >= 0
      BY <1>4, <3>1, <3>2
    <3> QED
      BY <3>3, <3>4
  <2> QED
    BY <1>3, <2>1, Zenon
<1>6. q + s \in Nat /\ a + b = (q + s) * m + v
  BY <1>2, <1>5
<1>7. ((q + s) * m + v) % m = v
  BY <1>5, <1>6, Quotient
<1> QED
  BY <1>1, <1>3, <1>6, <1>7

(* The offset does not start again before the entries.                     *)
LEMMA SmallRests == \A n \in 0 .. 16 : n % OffsetMod = n
<1> SUFFICES ASSUME NEW n \in 0 .. 16 PROVE n % OffsetMod = n
  OBVIOUS
<1>1. n \in Nat /\ OffsetMod \in Nat /\ n < OffsetMod
  BY PacketsConstants
<1> QED
  BY <1>1, SmallRest, Zenon

(* The offset is at most what was read.                                    *)
LEMMA RestBound ==
  ASSUME NEW a \in Nat
  PROVE  a % OffsetMod \in Nat /\ a % OffsetMod <= a
<1>1. PICK m, q, r : m = OffsetMod /\ q = a \div m /\ r = a % m
  OBVIOUS
<1>2. m \in Nat \ {0}
  BY <1>1, PacketsConstants
<1>3. q = a \div m /\ r = a % m
  BY <1>1
<1>4. q \in Int /\ r \in Nat /\ a = q * m + r
  BY <1>2, <1>3
<1>5. q >= 0
  BY <1>2, <1>3
<1>6. PICK w : w = q * m
  OBVIOUS
<1>7. r <= a
  <2>1. w \in Int /\ w >= 0
    BY <1>2, <1>4, <1>5, <1>6
  <2>2. a = w + r /\ r \in Nat
    BY <1>4, <1>6, Zenon
  <2> QED
    BY <2>1, <2>2
<1> QED
  BY <1>1, <1>4, <1>7, Zenon

-----------------------------------------------------------------------------
(* Fields.                                                                 *)

(* There is a function as Field wants it.                                  *)
LEMMA FieldExists ==
  ASSUME NEW k
  PROVE  \E F : F = [m \in 0 .. 30 |-> IF m = 0 THEN 0 ELSE 2 * F[m - 1] + Bit(k + m - 1)]
<1> DEFINE Begun(F, n) == F = [m \in 0 .. n |-> IF m = 0 THEN 0 ELSE 2 * F[m - 1] + Bit(k + m - 1)]
           S == {n \in 0 .. 30 : \E F : Begun(F, n)}
<1>1. 0 \in S
  <2> DEFINE G == [m \in 0 .. 0 |-> 0]
  <2>1. G = [m \in 0 .. 0 |-> IF m = 0 THEN 0 ELSE 2 * G[m - 1] + Bit(k + m - 1)]
    OBVIOUS
  <2> HIDE DEF G
  <2> QED
    BY <2>1
<1>2. ASSUME NEW n \in 0 .. 29, n \in S PROVE n + 1 \in S
  <2>1. PICK F : Begun(F, n)
    BY <1>2
  <2> DEFINE G == [m \in 0 .. n + 1 |-> IF m <= n THEN F[m] ELSE 2 * F[n] + Bit(k + n)]
  <2>2. ASSUME NEW m \in 0 .. n + 1
        PROVE  G[m] = IF m = 0 THEN 0 ELSE 2 * G[m - 1] + Bit(k + m - 1)
    <3>1. CASE m = 0
      BY <2>1, <3>1
    <3>2. CASE m \in 1 .. n
      BY <2>1, <3>2
    <3>3. CASE m = n + 1
      <4>1. m - 1 = n /\ k + m - 1 = k + n /\ m # 0 /\ ~ m <= n
        BY <3>3
      <4> QED
        BY <4>1
    <3> QED
      BY <3>1, <3>2, <3>3
  <2>3. G = [m \in 0 .. n + 1 |-> G[m]]
    OBVIOUS
  <2> HIDE DEF G
  <2>4. Begun(G, n + 1)
    BY <2>2, <2>3
  <2> QED
    BY <2>4
<1> HIDE DEF S
<1>3. 30 \in S
  BY <1>1, <1>2, UpTo
<1> QED
  BY <1>3, Zenon DEF S

LEMMA FieldNext ==
  ASSUME NEW k
  PROVE  /\ Field(k, 0) = 0
         /\ \A m \in 0 .. 29 : Field(k, m + 1) = 2 * Field(k, m) + Bit(k + m)
<1> DEFINE F[m \in 0 .. 30] == IF m = 0 THEN 0 ELSE 2 * F[m - 1] + Bit(k + m - 1)
<1>1. F = [m \in 0 .. 30 |-> IF m = 0 THEN 0 ELSE 2 * F[m - 1] + Bit(k + m - 1)]
  BY FieldExists, Zenon
<1>2. \A m : Field(k, m) = F[m]
  BY Zenon DEF Field
<1>3. PICK f : f = F
  OBVIOUS
<1>4. f = [m \in 0 .. 30 |-> IF m = 0 THEN 0 ELSE 2 * f[m - 1] + Bit(k + m - 1)]
  BY <1>1, <1>3, Zenon
<1> HIDE DEF F
<1>5. f[0] = 0
  BY <1>4
<1>6. ASSUME NEW m \in 0 .. 29 PROVE f[m + 1] = 2 * f[m] + Bit(k + m)
  <2>1. m + 1 \in 0 .. 30 /\ m + 1 # 0 /\ (m + 1) - 1 = m /\ k + (m + 1) - 1 = k + m
    OBVIOUS
  <2> QED
    BY <1>4, <2>1
<1> QED
  BY <1>2, <1>3, <1>5, <1>6

LEMMA Element ==
  ASSUME NEW T, NEW s \in Seq(T), NEW j \in 1 .. Len(s)
  PROVE  s[j] \in T
  OBVIOUS

LEMMA BitBound ==
  ASSUME data \in Seq(0 .. 255), NEW k \in Nat, k < 8 * Len(data)
  PROVE  Bit(k) \in {0, 1}
<1>1. PICK x : x = data[k \div 8 + 1]
  OBVIOUS
<1>2. x \in 0 .. 255
  <2>1. PICK j : j = k \div 8 + 1
    OBVIOUS
  <2>2. Len(data) \in Nat
    OBVIOUS
  <2>3. j \in 1 .. Len(data)
    BY <2>1, <2>2
  <2>4. data[j] \in 0 .. 255
    BY <2>3, Element, Zenon
  <2> QED
    BY <1>1, <2>1, <2>4, Zenon
<1>3. PICK p : p = 2 ^ (7 - (k % 8))
  OBVIOUS
<1>4. p \in Nat \ {0}
  <2>1. 7 - (k % 8) \in 0 .. 30
    OBVIOUS
  <2> QED
    BY <1>3, <2>1, Powers, Zenon
<1>5. x \div p \in Int
  BY <1>2, <1>4
<1>6. (x \div p) % 2 \in {0, 1}
  BY <1>5
<1> QED
  BY <1>1, <1>3, <1>6, Zenon DEF Bit

LEMMA FieldBound ==
  ASSUME data \in Seq(0 .. 255), NEW k \in Nat, NEW n \in 0 .. 30, k + n <= 8 * Len(data)
  PROVE  Field(k, n) \in Nat /\ Field(k, n) < 2 ^ n
<1> DEFINE S == {m \in 0 .. n : Field(k, m) \in Nat /\ Field(k, m) < 2 ^ m}
<1>1. 0 \in S
  <2>1. Field(k, 0) = 0 /\ 2 ^ 0 = 1
    BY FieldNext, Powers, Zenon
  <2>2. Field(k, 0) \in Nat /\ Field(k, 0) < 2 ^ 0 /\ 0 \in 0 .. n
    BY <2>1
  <2> QED
    BY <2>2
<1>2. ASSUME NEW m \in 0 .. n - 1, m \in S PROVE m + 1 \in S
  <2>1. PICK f, p, b : f = Field(k, m) /\ p = 2 ^ m /\ b = Bit(k + m)
    OBVIOUS
  <2>2. f \in Nat /\ f < p
    BY <1>2, <2>1
  <2>3. m \in 0 .. 29 /\ m \in 0 .. 30 /\ k + m \in Nat /\ k + m < 8 * Len(data)
    OBVIOUS
  <2>4. b \in {0, 1}
    BY <2>1, <2>3, BitBound
  <2>5. p \in Nat /\ 2 ^ (m + 1) = 2 * p /\ Field(k, m + 1) = 2 * f + b
    BY <2>1, <2>3, Powers, FieldNext, Zenon
  <2>6. 2 * f + b \in Nat /\ 2 * f + b < 2 * p
    BY <2>2, <2>4, <2>5
  <2>7. Field(k, m + 1) \in Nat /\ Field(k, m + 1) < 2 ^ (m + 1)
    BY <2>5, <2>6, Zenon
  <2> QED
    BY <2>7
<1> HIDE DEF S
<1>3. n \in Nat /\ n \in 0 .. n
  OBVIOUS
<1>4. n \in S
  BY <1>1, <1>2, <1>3, UpTo, Zenon
<1> QED
  BY <1>4 DEF S

(* A field is its front, in place, and its rest.                           *)
LEMMA FieldSplit ==
  ASSUME data \in Seq(0 .. 255), NEW k \in Nat, NEW n \in 0 .. 30, NEW m \in 0 .. 30,
         n + m <= 30, k + n + m <= 8 * Len(data)
  PROVE  Field(k, n + m) = Field(k, n) * 2 ^ m + Field(k + n, m)
<1> DEFINE S == {j \in 0 .. m : Field(k, n + j) = Field(k, n) * 2 ^ j + Field(k + n, j)}
<1>1. PICK f : f = Field(k, n)
  OBVIOUS
<1>2. f \in Nat
  <2>1. Len(data) \in Nat
    OBVIOUS
  <2>2. k + n <= 8 * Len(data)
    BY <2>1
  <2>3. Field(k, n) \in Nat
    BY <2>2, FieldBound, Zenon
  <2> QED
    BY <1>1, <2>3
<1>3. 0 \in S
  <2>1. n + 0 = n /\ f * 1 + 0 = f
    BY <1>2
  <2>2. Field(k + n, 0) = 0 /\ 2 ^ 0 = 1
    BY FieldNext, Powers
  <2>3. Field(k, n + 0) = Field(k, n) * 2 ^ 0 + Field(k + n, 0)
    BY <1>1, <2>1, <2>2, Zenon
  <2> QED
    BY <2>3
<1>4. ASSUME NEW j \in 0 .. m - 1, j \in S PROVE j + 1 \in S
  <2>1. PICK p, g, b, h : p = 2 ^ j /\ g = Field(k + n, j) /\ b = Bit((k + n) + j) /\ h = Field(k, n + j)
    OBVIOUS
  <2>2. /\ j \in 0 .. 29 /\ j \in 0 .. 30 /\ n + j \in 0 .. 29 /\ k + (n + j) = (k + n) + j
        /\ n + (j + 1) = (n + j) + 1 /\ k + n \in Nat /\ (k + n) + j \in Nat
        /\ (k + n) + j <= 8 * Len(data) /\ (k + n) + j < 8 * Len(data)
    OBVIOUS
  <2>3. b \in {0, 1} /\ g \in Nat /\ p \in Nat
    BY <2>1, <2>2, BitBound, FieldBound, Powers, Zenon
  <2>4. h = f * p + g
    BY <1>1, <1>4, <2>1
  <2>5. /\ 2 ^ (j + 1) = 2 * p /\ Field(k + n, j + 1) = 2 * g + b
        /\ Field(k, n + (j + 1)) = 2 * h + b
    <3>1. 2 ^ (j + 1) = 2 * p /\ Field(k + n, j + 1) = 2 * g + b
      BY <2>1, <2>2, Powers, FieldNext, Zenon
    <3>2. Field(k, (n + j) + 1) = 2 * Field(k, n + j) + Bit(k + (n + j))
      BY <2>2, FieldNext, Zenon
    <3> QED
      BY <2>1, <2>2, <3>1, <3>2, Zenon
  <2>6. 2 * h + b = f * (2 * p) + (2 * g + b)
    BY <1>2, <2>3, <2>4
  <2>7. Field(k, n + (j + 1)) = Field(k, n) * 2 ^ (j + 1) + Field(k + n, j + 1)
    BY <1>1, <2>5, <2>6, Zenon
  <2> QED
    BY <2>7
<1> HIDE DEF S
<1>5. m \in Nat /\ m \in 0 .. m
  OBVIOUS
<1>6. m \in S
  BY <1>3, <1>4, <1>5, UpTo, Zenon
<1> QED
  BY <1>6 DEF S

(* One more bit of a byte.                                                 *)
LEMMA ByteBit ==
  ASSUME NEW x \in 0 .. 255, NEW e \in 0 .. 7, NEW b \in 0 .. 7
  PROVE  (x \div 2 ^ e) % 2 ^ (b + 1) = 2 * ((x \div 2 ^ (e + 1)) % 2 ^ b) + ((x \div 2 ^ e) % 2)
<1>1. PICK y : y = x \div 2 ^ e
  OBVIOUS
<1>2. y \in Nat /\ y \div 2 = x \div 2 ^ (e + 1)
  <2>1. CASE e = 0
    BY <1>1, <2>1
  <2>2. CASE e = 1
    BY <1>1, <2>2
  <2>3. CASE e = 2
    BY <1>1, <2>3
  <2>4. CASE e = 3
    BY <1>1, <2>4
  <2>5. CASE e = 4
    BY <1>1, <2>5
  <2>6. CASE e = 5
    BY <1>1, <2>6
  <2>7. CASE e = 6
    BY <1>1, <2>7
  <2>8. CASE e = 7
    BY <1>1, <2>8
  <2> QED
    BY <2>1, <2>2, <2>3, <2>4, <2>5, <2>6, <2>7, <2>8
<1>3. y % 2 ^ (b + 1) = 2 * ((y \div 2) % 2 ^ b) + (y % 2)
  <2>1. CASE b = 0
    BY <1>2, <2>1
  <2>2. CASE b = 1
    BY <1>2, <2>2
  <2>3. CASE b = 2
    BY <1>2, <2>3
  <2>4. CASE b = 3
    BY <1>2, <2>4
  <2>5. CASE b = 4
    BY <1>2, <2>5
  <2>6. CASE b = 5
    BY <1>2, <2>6
  <2>7. CASE b = 6
    BY <1>2, <2>7
  <2>8. CASE b = 7
    BY <1>2, <2>8
  <2> QED
    BY <2>1, <2>2, <2>3, <2>4, <2>5, <2>6, <2>7, <2>8
<1> QED
  BY <1>1, <1>2, <1>3, Zenon

(* A field within a byte, c bits from the byte's end, is the byte shifted  *)
(* and masked.                                                             *)
LEMMA FieldOfByte ==
  ASSUME data \in Seq(0 .. 255), NEW p \in Nat, p < Len(data), NEW c \in 1 .. 8, NEW n \in 0 .. c
  PROVE  Field(8 * p + (8 - c), n) = (Byte(p) \div 2 ^ (c - n)) % 2 ^ n
<1> DEFINE k == 8 * p + (8 - c)
           S == {b \in 0 .. n : Field(k, b) = (Byte(p) \div 2 ^ (c - b)) % 2 ^ b}
<1>1. PICK x : x = Byte(p)
  OBVIOUS
<1>2. x \in 0 .. 255 /\ x = data[p + 1]
  <2>1. p + 1 \in 1 .. Len(data)
    OBVIOUS
  <2>2. data[p + 1] \in 0 .. 255
    BY <2>1, Element, Zenon
  <2> QED
    BY <1>1, <2>2, Zenon DEF Byte
<1>3. 0 \in S
  <2>1. 2 ^ 0 = 1 /\ 2 ^ (c - 0) \in Nat \ {0}
    <3>1. c - 0 \in 0 .. 30
      OBVIOUS
    <3> QED
      BY <3>1, Powers, Zenon
  <2>2. PICK q : q = 2 ^ (c - 0)
    OBVIOUS
  <2>3. (x \div q) % 1 = 0
    BY <1>2, <2>1, <2>2
  <2>4. Field(k, 0) = (Byte(p) \div 2 ^ (c - 0)) % 2 ^ 0
    BY <1>1, <2>1, <2>2, <2>3, FieldNext, Zenon
  <2> QED
    BY <2>4
<1>4. ASSUME NEW b \in 0 .. n - 1, b \in S PROVE b + 1 \in S
  <2>1. PICK e : e = c - (b + 1)
    OBVIOUS
  <2>2. e \in 0 .. 7 /\ b \in 0 .. 7 /\ b \in 0 .. 29 /\ e + 1 = c - b
    BY <2>1
  <2>3. (x \div 2 ^ e) % 2 ^ (b + 1) = 2 * ((x \div 2 ^ (e + 1)) % 2 ^ b) + ((x \div 2 ^ e) % 2)
    BY <1>2, <2>2, ByteBit, Zenon
  <2>4. Bit(k + b) = (x \div 2 ^ e) % 2
    <3>1. (k + b) \div 8 = p /\ 7 - ((k + b) % 8) = e
      BY <2>1
    <3> QED
      BY <1>2, <3>1, Zenon DEF Bit
  <2>5. Field(k, b + 1) = 2 * Field(k, b) + Bit(k + b)
    BY <2>2, FieldNext, Zenon
  <2>6. Field(k, b) = (x \div 2 ^ (e + 1)) % 2 ^ b
    BY <1>1, <1>4, <2>2
  <2>7. Field(k, b + 1) = (Byte(p) \div 2 ^ (c - (b + 1))) % 2 ^ (b + 1)
    BY <1>1, <2>1, <2>3, <2>4, <2>5, <2>6, Zenon
  <2> QED
    BY <2>7
<1> HIDE DEF S
<1>5. n \in Nat /\ n \in 0 .. n
  OBVIOUS
<1>6. n \in S
  BY <1>3, <1>4, <1>5, UpTo, Zenon
<1> QED
  BY <1>6 DEF S
-----------------------------------------------------------------------------
(* UnpackData.                                                             *)

(* The arguments are those of a field within the packet, unless there is   *)
(* no field.  The bytes and bits that were passed and the bits still to be *)
(* read make up the field's end.                                           *)
ArgsOK ==
  /\ data \in Seq(0 .. 255)
  /\ bitSize \in 1 .. 30 /\ bitIndex \in Nat /\ i \in Nat
  /\ bitOffset \in 1 .. 8 /\ shiftBy \in Nat
Placed ==
  /\ bitIndex + bitSize <= 8 * Len(data)
  /\ 8 * i + (8 - bitOffset) + shiftBy = bitIndex + bitSize
BitsInv ==
  /\ ArgsOK
  /\ pc \in {"none", "loop", "done"}
  /\ IF pc = "none" THEN i = 0 ELSE Placed

LEMMA FieldStarts == Init => BitsInv
<1> SUFFICES ASSUME Init PROVE BitsInv
  OBVIOUS
<1>1. data \in Seq(0 .. 255) /\ Len(data) \in Nat
  BY PacketsAssumption DEF Init
<1>2. bitSize \in 1 .. 30
  BY SizesAssumption DEF Init
<1>3. bitIndex \in Nat /\ bitIndex + bitSize <= 8 * Len(data)
  BY <1>1, <1>2 DEF Init
<1>4. /\ bitIndex \div 8 \in Nat /\ bitIndex % 8 \in 0 .. 7
      /\ bitIndex = 8 * (bitIndex \div 8) + (bitIndex % 8)
  BY <1>3
<1>5. i = bitIndex \div 8 /\ bitOffset = 8 - (bitIndex % 8) /\ shiftBy = bitSize /\ pc = "loop"
  BY DEF Init
<1>6. ArgsOK
  BY <1>1, <1>2, <1>3, <1>4, <1>5 DEF ArgsOK
<1>7. Placed
  BY <1>2, <1>3, <1>4, <1>5 DEF Placed
<1> QED
  BY <1>5, <1>6, <1>7 DEF BitsInv

LEMMA BitsInit == HandlerInit => BitsInv
<1> SUFFICES ASSUME HandlerInit PROVE BitsInv
  OBVIOUS
<1>1. CASE Init
  BY <1>1, FieldStarts
<1>2. CASE NoField
  BY <1>2 DEF NoField, BitsInv, ArgsOK
<1> QED
  BY <1>1, <1>2 DEF HandlerInit

LEMMA BitsStep == BitsInv /\ [HandlerNext]_<<bitVars, handlerVars>> => BitsInv'
<1> SUFFICES ASSUME BitsInv, [HandlerNext]_<<bitVars, handlerVars>> PROVE BitsInv'
  OBVIOUS
<1>1. CASE TakeByte
  <2>1. pc = "loop" /\ Placed /\ ArgsOK
    BY <1>1 DEF TakeByte, BitsInv
  <2>2. /\ UNCHANGED <<data, bitSize, bitIndex, pc>>
        /\ shiftBy' = shiftBy - bitOffset /\ shiftBy >= bitOffset
        /\ i' = i + 1 /\ bitOffset' = 8
    BY <1>1 DEF TakeByte, args
  <2>3. ArgsOK'
    BY <2>1, <2>2 DEF ArgsOK
  <2>4. Placed'
    BY <2>1, <2>2 DEF ArgsOK, Placed
  <2> QED
    BY <2>1, <2>2, <2>3, <2>4 DEF BitsInv
<1>2. CASE Return
  BY <1>2 DEF Return, args, BitsInv, ArgsOK, Placed
<1>3. CASE UNCHANGED bitVars
  BY <1>3 DEF bitVars, args, BitsInv, ArgsOK, Placed
<1>4. TakeByte \/ Return \/ UNCHANGED bitVars
  BY DEF HandlerNext, Next, Header, Slot, ItemId, Quantity, Count, EntryStep, SlotDone, ChatType,
     Content, InterfaceId, SplitTile, Read
<1> QED
  BY <1>1, <1>2, <1>3, <1>4

(* No byte is read further than one behind the packet (net.h): that the    *)
(* field ends with the packet is enough, however long both are.            *)
THEOREM ReadsWithinCorrect == HandlerSpec => []ReadsWithin
<1>1. BitsInv => ReadsWithin
  <2> SUFFICES ASSUME BitsInv PROVE i <= Len(data)
    BY DEF ReadsWithin
  <2>1. Len(data) \in Nat
    BY DEF BitsInv, ArgsOK
  <2> QED
    BY <2>1 DEF BitsInv, ArgsOK, Placed
<1> QED
  BY <1>1, BitsInit, BitsStep, PTL DEF HandlerSpec

-----------------------------------------------------------------------------

LEMMA CutSum ==
  ASSUME width \in {8, 16, 32}, NEW x \in Nat, NEW y \in Nat
  PROVE  Cut(x) \in Nat /\ Cut(x) <= x /\ Cut(Cut(x) + y) = Cut(x + y) /\ Cut(0) = 0
<1>1. CASE width = 8
  BY <1>1 DEF Cut
<1>2. CASE width = 16
  BY <1>2 DEF Cut
<1>3. CASE width = 32
  BY <1>3 DEF Cut
<1> QED
  BY <1>1, <1>2, <1>3

LEMMA FieldSame ==
  ASSUME UNCHANGED data, NEW k, NEW n
  PROVE  Field(k, n)' = Field(k, n)
  BY DEF Field, Bit

(* What was read is the front of the field, in its place.  A byte is read  *)
(* from its first bit on, unless it is the field's first.                  *)
ValuesInv ==
  /\ width \in {8, 16, 32} /\ stray \in 0 .. 255 /\ shiftBy <= bitSize
  /\ shiftBy = bitSize \/ bitOffset = 8
  /\ Accumulated /\ Unpacked

LEMMA TakeByteValues == BitsInv /\ ValuesInv /\ TakeByte => ValuesInv'
<1> SUFFICES ASSUME BitsInv, ValuesInv, TakeByte PROVE ValuesInv'
  OBVIOUS
<1>1. /\ UNCHANGED <<data, stray, width, bitSize, bitIndex, pc>> /\ pc = "loop"
      /\ shiftBy' = shiftBy - bitOffset /\ shiftBy >= bitOffset
      /\ i' = i + 1 /\ bitOffset' = 8
      /\ unpacked' = Cut(unpacked + (Byte(i) % 2 ^ bitOffset) * 2 ^ (shiftBy - bitOffset))
  BY DEF TakeByte, args
<1>2. PICK k, n, c, s, p, d :
        k = bitIndex /\ n = bitSize - shiftBy /\ c = bitOffset /\ s = shiftBy /\ p = i /\ d = s - c
  OBVIOUS
<1>3. /\ data \in Seq(0 .. 255) /\ k \in Nat /\ n \in 0 .. 30 /\ c \in 1 .. 8 /\ s \in 0 .. 30 /\ d \in 0 .. 30
      /\ p \in Nat /\ p < Len(data) /\ k + n = 8 * p + (8 - c) /\ k + n + c <= 8 * Len(data)
      /\ n + c <= 30 /\ c + d = s /\ c \in 0 .. 30 /\ width \in {8, 16, 32}
  <2>1. Len(data) \in Nat
    BY DEF BitsInv, ArgsOK
  <2> QED
    BY <1>1, <1>2, <2>1 DEF BitsInv, ArgsOK, Placed, ValuesInv
<1>4. PICK f, x, z, y :
        /\ f = Field(k, n) /\ x = Byte(p) % 2 ^ c /\ z = Field(k, n + c)
        /\ y = x * 2 ^ d
  OBVIOUS
<1>5. x = Field(k + n, c)
  <2>1. Byte(p) \in Nat
    <3>1. p + 1 \in 1 .. Len(data)
      BY <1>3
    <3>2. data[p + 1] \in 0 .. 255
      BY <1>3, <3>1, Element, Zenon
    <3>3. Byte(p) = data[p + 1]
      BY <1>3, Zenon DEF Byte
    <3> QED
      BY <3>2, <3>3
  <2>2. c - c = 0 /\ 2 ^ 0 = 1 /\ Byte(p) \div 1 = Byte(p) /\ c \in 0 .. c
    BY <1>3, <2>1
  <2>3. Field(8 * p + (8 - c), c) = (Byte(p) \div 2 ^ (c - c)) % 2 ^ c
    BY <1>3, <2>2, FieldOfByte, Zenon
  <2> QED
    BY <1>3, <1>4, <2>2, <2>3, Zenon
<1>6. z = f * 2 ^ c + x
  <2>1. Field(k, n + c) = Field(k, n) * 2 ^ c + Field(k + n, c)
    BY <1>3, FieldSplit
  <2> QED
    BY <1>4, <1>5, <2>1, Zenon
<1>7. f \in Nat /\ x \in Nat /\ 2 ^ c \in Nat /\ 2 ^ d \in Nat /\ 2 ^ s = 2 ^ c * 2 ^ d
  <2>1. k + n <= 8 * Len(data) /\ k + n \in Nat /\ (k + n) + c <= 8 * Len(data) /\ c + d <= 30
    BY <1>3
  <2>2. Field(k, n) \in Nat /\ Field(k + n, c) \in Nat
    BY <1>3, <2>1, FieldBound
  <2>3. 2 ^ c \in Nat /\ 2 ^ d \in Nat
    BY <1>3, Powers, Zenon
  <2>4. 2 ^ (c + d) = 2 ^ c * 2 ^ d
    BY <1>3, <2>1, PowerSum, Zenon
  <2> QED
    BY <1>3, <1>4, <1>5, <2>2, <2>3, <2>4, Zenon
<1>8. z * 2 ^ d = f * 2 ^ s + y
  <2>1. PICK u, v : u = 2 ^ c /\ v = 2 ^ d
    OBVIOUS
  <2>2. (f * u + x) * v = f * (u * v) + x * v
    BY <1>7, <2>1
  <2> QED
    BY <1>4, <1>6, <1>7, <2>1, <2>2, Zenon
<1>9. unpacked' = Cut(z * 2 ^ d)
  <2>1. unpacked = Cut(f * 2 ^ s)
    BY <1>2, <1>4 DEF ValuesInv, Accumulated
  <2>2. f * 2 ^ s \in Nat /\ y \in Nat
    BY <1>4, <1>7
  <2>3. unpacked' = Cut(unpacked + y)
    BY <1>1, <1>2, <1>4
  <2>4. Cut(Cut(f * 2 ^ s) + y) = Cut(f * 2 ^ s + y)
    BY <1>3, <2>2, CutSum, Zenon
  <2> QED
    BY <1>8, <2>1, <2>3, <2>4, Zenon
<1>10. Accumulated'
  <2>1. bitIndex' = k /\ bitSize' - shiftBy' = n + c /\ shiftBy' = d
    BY <1>1, <1>2, <1>3 DEF BitsInv, ArgsOK
  <2>2. Field(k, n + c)' = z
    BY <1>1, <1>4, FieldSame
  <2>3. \A w : Cut(w)' = Cut(w)
    BY <1>1 DEF Cut
  <2> QED
    BY <1>9, <2>1, <2>2, <2>3 DEF Accumulated
<1> QED
  BY <1>1, <1>10 DEF ValuesInv, Unpacked, BitsInv, ArgsOK

LEMMA ReturnValues == BitsInv /\ ValuesInv /\ Return => ValuesInv'
<1> SUFFICES ASSUME BitsInv, ValuesInv, Return PROVE ValuesInv'
  OBVIOUS
<1>1. /\ UNCHANGED <<data, stray, width, bitSize, bitIndex, shiftBy, bitOffset, unpacked>> /\ pc = "loop"
      /\ shiftBy < bitOffset
      /\ result' = Cut((unpacked + Byte(i) \div 2 ^ (bitOffset - shiftBy)) % 2 ^ bitSize)
  BY DEF Return, args
<1>2. PICK k, n, c, s, p :
        k = bitIndex /\ n = bitSize - shiftBy /\ c = bitOffset /\ s = shiftBy /\ p = i
  OBVIOUS
<1>3. /\ data \in Seq(0 .. 255) /\ Len(data) \in Nat /\ k \in Nat /\ n \in 0 .. 30 /\ c \in 1 .. 8 /\ s \in 0 .. 7
      /\ p \in Nat /\ k + n = 8 * p + (8 - c) /\ k + n + s <= 8 * Len(data)
      /\ n + s = bitSize /\ bitSize \in 1 .. 30 /\ width \in {8, 16, 32}
      /\ s < c /\ (n = 0 \/ c = 8) /\ c - s \in 0 .. 30
  <2>1. Len(data) \in Nat
    BY DEF BitsInv, ArgsOK
  <2> QED
    BY <1>1, <1>2, <2>1 DEF BitsInv, ArgsOK, Placed, ValuesInv
<1>4. PICK f, q : f = Field(k, n) /\ q = Byte(p) \div 2 ^ (c - s)
  OBVIOUS
<1>5. /\ unpacked = Cut(f * 2 ^ s) /\ result' = Cut((unpacked + q) % 2 ^ bitSize)
  BY <1>1, <1>2, <1>4 DEF ValuesInv, Accumulated
<1>6. Byte(p) \in 0 .. 255
  <2>1. CASE p < Len(data)
    <3>1. p + 1 \in 1 .. Len(data)
      BY <1>3, <2>1
    <3>2. data[p + 1] \in 0 .. 255
      BY <1>3, <3>1, Element, Zenon
    <3> QED
      BY <2>1, <3>2, Zenon DEF Byte
  <2>2. CASE ~ p < Len(data)
    BY <2>2, Zenon DEF Byte, ValuesInv
  <2> QED
    BY <2>1, <2>2
<1>7. s # 0 => p < Len(data)
  BY <1>3
<1>8. q \in Nat /\ 2 ^ s \in Nat \ {0}
  <2>1. 2 ^ (c - s) \in Nat \ {0} /\ 2 ^ s \in Nat \ {0}
    <3>1. s \in 0 .. 30
      BY <1>3
    <3> QED
      BY <1>3, <3>1, Powers, Zenon
  <2>2. PICK u : u = 2 ^ (c - s)
    OBVIOUS
  <2>3. Byte(p) \div u \in Nat
    <3>1. PICK x : x = Byte(p)
      OBVIOUS
    <3>2. u \in Nat \ {0}
      BY <2>1, <2>2, Zenon
    <3>3. x \in 0 .. 255
      BY <1>6, <3>1, Zenon
    <3>4. x \div u \in Nat
      BY <3>2, <3>3
    <3> QED
      BY <3>1, <3>4, Zenon
  <2> QED
    BY <1>4, <2>1, <2>2, <2>3, Zenon
<1>9. ASSUME n = 0 PROVE result' = Cut(Field(bitIndex, bitSize))
  <2>1. s = bitSize /\ s # 0 /\ s \in 0 .. c /\ k = 8 * p + (8 - c) /\ p < Len(data)
    BY <1>3, <1>7, <1>9
  <2>2. f = 0 /\ unpacked = 0
    <3>1. f = 0
      BY <1>4, <1>9, FieldNext, Zenon
    <3>2. f * 2 ^ s = 0
      BY <1>8, <3>1
    <3>3. Cut(0) = 0
      BY <1>3, CutSum
    <3> QED
      BY <1>5, <3>1, <3>2, <3>3
  <2>3. Field(k, s) = q % 2 ^ s
    BY <1>3, <1>4, <2>1, FieldOfByte, Zenon
  <2>4. unpacked + q = q
    BY <1>8, <2>2
  <2> QED
    BY <1>2, <1>5, <2>1, <2>3, <2>4, Zenon
<1>10. ASSUME c = 8 PROVE result' = Cut(Field(bitIndex, bitSize))
  <2>1. Field(k + n, s) = q /\ q \in Nat
    <3>1. CASE s = 0
      <4>1. q = 0
        BY <1>4, <1>6, <1>10, <3>1
      <4> QED
        BY <3>1, <4>1, FieldNext, Zenon
    <3>2. CASE s # 0
      <4>1. s \in 0 .. c /\ p < Len(data)
        BY <1>3, <1>7, <3>2
      <4>2. Field(k + n, s) = q % 2 ^ s
        BY <1>3, <1>4, <4>1, FieldOfByte, Zenon
      <4>3. q < 2 ^ s
        <5>1. PICK x : x = Byte(p)
          OBVIOUS
        <5>2. x \in 0 .. 255
          BY <1>6, <5>1, Zenon
        <5>3. s \in 1 .. 7
          BY <1>3, <3>2
        <5>4. CASE s = 1
          <6>1. c - s = 7
            BY <1>10, <5>4
          <6>2. q = x \div 2 ^ 7
            BY <1>4, <5>1, <6>1, Zenon
          <6>3. q = x \div 128
            BY <6>2
          <6> QED
            BY <5>2, <5>4, <6>3
        <5>5. CASE s = 2
          <6>1. c - s = 6
            BY <1>10, <5>5
          <6>2. q = x \div 2 ^ 6
            BY <1>4, <5>1, <6>1, Zenon
          <6>3. q = x \div 64
            BY <6>2
          <6> QED
            BY <5>2, <5>5, <6>3
        <5>6. CASE s = 3
          <6>1. c - s = 5
            BY <1>10, <5>6
          <6>2. q = x \div 2 ^ 5
            BY <1>4, <5>1, <6>1, Zenon
          <6>3. q = x \div 32
            BY <6>2
          <6> QED
            BY <5>2, <5>6, <6>3
        <5>7. CASE s = 4
          <6>1. c - s = 4
            BY <1>10, <5>7
          <6>2. q = x \div 2 ^ 4
            BY <1>4, <5>1, <6>1, Zenon
          <6>3. q = x \div 16
            BY <6>2
          <6> QED
            BY <5>2, <5>7, <6>3
        <5>8. CASE s = 5
          <6>1. c - s = 3
            BY <1>10, <5>8
          <6>2. q = x \div 2 ^ 3
            BY <1>4, <5>1, <6>1, Zenon
          <6>3. q = x \div 8
            BY <6>2
          <6> QED
            BY <5>2, <5>8, <6>3
        <5>9. CASE s = 6
          <6>1. c - s = 2
            BY <1>10, <5>9
          <6>2. q = x \div 2 ^ 2
            BY <1>4, <5>1, <6>1, Zenon
          <6>3. q = x \div 4
            BY <6>2
          <6> QED
            BY <5>2, <5>9, <6>3
        <5>10. CASE s = 7
          <6>1. c - s = 1
            BY <1>10, <5>10
          <6>2. q = x \div 2 ^ 1
            BY <1>4, <5>1, <6>1, Zenon
          <6>3. q = x \div 2
            BY <6>2
          <6> QED
            BY <5>2, <5>10, <6>3
        <5> QED
          BY <5>3, <5>4, <5>5, <5>6, <5>7, <5>8, <5>9, <5>10
      <4>4. q % 2 ^ s = q
        BY <1>8, <4>3, SmallRest, Zenon
      <4> QED
        BY <1>8, <4>2, <4>4
    <3> QED
      BY <3>1, <3>2
  <2>2. Field(k, n + s) = f * 2 ^ s + q
    <3>1. s \in 0 .. 30 /\ n + s <= 30
      BY <1>3
    <3>2. Field(k, n + s) = Field(k, n) * 2 ^ s + Field(k + n, s)
      BY <1>3, <3>1, FieldSplit
    <3> QED
      BY <1>4, <2>1, <3>2, Zenon
  <2>3. Field(k, n + s) \in Nat /\ Field(k, n + s) < 2 ^ bitSize /\ f \in Nat
    <3>1. n + s \in 0 .. 30 /\ k + (n + s) <= 8 * Len(data) /\ k + n <= 8 * Len(data)
      BY <1>3
    <3>2. Field(k, n + s) \in Nat /\ Field(k, n + s) < 2 ^ (n + s) /\ Field(k, n) \in Nat
      BY <1>3, <3>1, FieldBound
    <3> QED
      BY <1>3, <1>4, <3>2, Zenon
  <2>4. f * 2 ^ s \in Nat
    BY <1>8, <2>3
  <2>5. /\ Cut(f * 2 ^ s) \in Nat /\ Cut(f * 2 ^ s) <= f * 2 ^ s
        /\ Cut(Cut(f * 2 ^ s) + q) = Cut(f * 2 ^ s + q)
    BY <1>3, <2>1, <2>4, CutSum, Zenon
  <2>6. PICK a, b, m : a = f * 2 ^ s /\ b = Cut(f * 2 ^ s) /\ m = 2 ^ bitSize
    OBVIOUS
  <2>7. m \in Nat /\ b + q \in Nat /\ b + q < m
    <3>1. m \in Nat
      <4>1. bitSize \in 0 .. 30
        BY <1>3
      <4> QED
        BY <2>6, <4>1, Powers, Zenon
    <3>2. a + q < m /\ a \in Nat /\ b \in Nat /\ b <= a
      BY <2>2, <2>3, <2>4, <2>5, <2>6, Zenon
    <3> QED
      BY <2>1, <3>1, <3>2
  <2>8. (b + q) % m = b + q
    BY <2>7, SmallRest, Zenon
  <2> QED
    BY <1>2, <1>3, <1>5, <2>2, <2>5, <2>6, <2>8, Zenon
<1>11. result' = Cut(Field(bitIndex, bitSize))
  BY <1>3, <1>9, <1>10
<1>12. /\ (\A w : Cut(w)' = Cut(w))
       /\ Field(bitIndex, bitSize)' = Field(bitIndex, bitSize)
       /\ Field(bitIndex, bitSize - shiftBy)' = Field(bitIndex, bitSize - shiftBy)
  <2>1. PICK l : l = bitSize
    OBVIOUS
  <2>2. Field(k, l)' = Field(k, l) /\ Field(k, n)' = Field(k, n)
    BY <1>1, FieldSame
  <2> QED
    BY <1>1, <1>2, <2>1, <2>2 DEF Cut
<1> QED
  BY <1>1, <1>11, <1>12 DEF ValuesInv, Accumulated, Unpacked

LEMMA ValuesInit == HandlerInit => ValuesInv
<1> SUFFICES ASSUME HandlerInit PROVE ValuesInv
  OBVIOUS
<1>1. /\ width \in {8, 16, 32} /\ stray \in 0 .. 255 /\ pc # "done"
      /\ shiftBy = bitSize /\ bitSize \in 1 .. 30 /\ unpacked = 0
  <2>1. CASE Init
    BY <2>1, SizesAssumption DEF Init
  <2>2. CASE NoField
    BY <2>2, SizesAssumption DEF NoField
  <2> QED
    BY <2>1, <2>2 DEF HandlerInit
<1>2. bitSize - shiftBy = 0
  BY <1>1
<1>3. Field(bitIndex, bitSize - shiftBy) * 2 ^ shiftBy = 0
  <2>1. Field(bitIndex, bitSize - shiftBy) = 0
    BY <1>2, FieldNext, Zenon
  <2>2. 2 ^ shiftBy \in Nat \ {0}
    <3>1. shiftBy \in 0 .. 30
      BY <1>1
    <3> QED
      BY <3>1, Powers, Zenon
  <2> QED
    BY <2>1, <2>2
<1>4. Accumulated
  BY <1>1, <1>3, CutSum DEF Accumulated
<1> QED
  BY <1>1, <1>4 DEF ValuesInv, Unpacked

LEMMA ValuesStep == BitsInv /\ ValuesInv /\ [HandlerNext]_<<bitVars, handlerVars>> => ValuesInv'
<1> SUFFICES ASSUME BitsInv, ValuesInv, UNCHANGED bitVars PROVE ValuesInv'
  BY TakeByteValues, ReturnValues
  DEF HandlerNext, Next, Header, Slot, ItemId, Quantity, Count, EntryStep, SlotDone, ChatType,
      Content, InterfaceId, SplitTile, Read, bitVars
<1>1. UNCHANGED <<data, stray, width, bitSize, bitIndex, pc, shiftBy, bitOffset, unpacked, result>>
  BY DEF bitVars, args
<1>2. PICK k, n, l : k = bitIndex /\ n = bitSize - shiftBy /\ l = bitSize
  OBVIOUS
<1>3. Field(k, l)' = Field(k, l) /\ Field(k, n)' = Field(k, n) /\ \A w : Cut(w)' = Cut(w)
  BY <1>1, FieldSame DEF Cut
<1> QED
  BY <1>1, <1>2, <1>3 DEF ValuesInv, Accumulated, Unpacked

(* What is read so far is the field's front, in its place, after every     *)
(* byte of UnpackData, whatever the packet, the field and T: the invariant *)
(* ties the byte and the bit reached to the bits still to be read.         *)
THEOREM AccumulatedCorrect == HandlerSpec => []Accumulated
<1>1. BitsInv /\ ValuesInv => Accumulated
  BY DEF ValuesInv
<1> QED
  BY <1>1, BitsInit, BitsStep, ValuesInit, ValuesStep, PTL DEF HandlerSpec

(* UnpackData returns the field, as much of it as T holds, although its    *)
(* last step reads the byte behind a field that ends with the packet and   *)
(* masks the sum as a whole.                                               *)
THEOREM UnpackedCorrect == HandlerSpec => []Unpacked
<1>1. BitsInv /\ ValuesInv => Unpacked
  BY DEF ValuesInv
<1> QED
  BY <1>1, BitsInit, BitsStep, ValuesInit, ValuesStep, PTL DEF HandlerSpec

-----------------------------------------------------------------------------
(* Packets.                                                                *)

Bytes == 0 .. 255

LEMMA EmptyBytes == <<>> \in Seq(Bytes) /\ Len(<<>>) = 0
  OBVIOUS

(* Short sequences of bytes.                                               *)
LEMMA Short ==
  /\ \A x \in Bytes : <<x>> \in Seq(Bytes) /\ Len(<<x>>) = 1 /\ <<x>>[1] = x
  /\ \A x, y \in Bytes : /\ <<x, y>> \in Seq(Bytes) /\ Len(<<x, y>>) = 2
                         /\ <<x, y>>[1] = x /\ <<x, y>>[2] = y
  /\ \A x, y, z \in Bytes : /\ <<x, y, z>> \in Seq(Bytes) /\ Len(<<x, y, z>>) = 3
                            /\ <<x, y, z>>[3] = z
  OBVIOUS

(* Where the bytes of two pieces are found in the packet they are put      *)
(* together to, and those of four.                                         *)
LEMMA Concat ==
  ASSUME NEW a \in Seq(Bytes), NEW b \in Seq(Bytes)
  PROVE  /\ a \o b \in Seq(Bytes) /\ Len(a \o b) = Len(a) + Len(b)
         /\ \A k \in 1 .. Len(a) : (a \o b)[k] = a[k]
         /\ \A k \in 1 .. Len(b) : (a \o b)[Len(a) + k] = b[k]
<1>1. PICK p, la, lb : p = a \o b /\ la = Len(a) /\ lb = Len(b)
  OBVIOUS
<1>2. la \in Nat /\ lb \in Nat
  BY <1>1, LenProperties, Zenon
<1>3. /\ p \in Seq(Bytes) /\ Len(p) = la + lb
      /\ \A k \in 1 .. la + lb : p[k] = IF k <= la THEN a[k] ELSE b[k - la]
  BY <1>1, ConcatProperties, Zenon
<1>4. \A k \in 1 .. la : p[k] = a[k]
  BY <1>2, <1>3
<1>5. \A k \in 1 .. lb : p[la + k] = b[k]
  <2> SUFFICES ASSUME NEW k \in 1 .. lb PROVE p[la + k] = b[k]
    OBVIOUS
  <2>1. la + k \in 1 .. la + lb /\ ~ la + k <= la /\ (la + k) - la = k
    BY <1>2
  <2> QED
    BY <1>3, <2>1, Zenon
<1> QED
  BY <1>1, <1>3, <1>4, <1>5, Zenon

JoinOf(p, a, b, c, d) ==
  /\ p \in Seq(Bytes) /\ Len(p) = Len(a) + Len(b) + Len(c) + Len(d)
  /\ \A k \in 1 .. Len(a) : p[k] = a[k]
  /\ \A k \in 1 .. Len(b) : p[Len(a) + k] = b[k]
  /\ \A k \in 1 .. Len(c) : p[Len(a) + Len(b) + k] = c[k]
  /\ \A k \in 1 .. Len(d) : p[Len(a) + Len(b) + Len(c) + k] = d[k]

LEMMA Joined ==
  ASSUME NEW a \in Seq(Bytes), NEW b \in Seq(Bytes), NEW c \in Seq(Bytes), NEW d \in Seq(Bytes)
  PROVE  JoinOf(a \o b \o c \o d, a, b, c, d)
<1>1. PICK ab : ab = a \o b
  OBVIOUS
<1>2. PICK abc : abc = ab \o c
  OBVIOUS
<1>3. PICK p : p = abc \o d
  OBVIOUS
<1>4. PICK la, lb, lc, ld : la = Len(a) /\ lb = Len(b) /\ lc = Len(c) /\ ld = Len(d)
  OBVIOUS
<1>5. la \in Nat /\ lb \in Nat /\ lc \in Nat /\ ld \in Nat
  BY <1>4, LenProperties, Zenon
<1>6. /\ ab \in Seq(Bytes) /\ Len(ab) = la + lb
      /\ (\A k \in 1 .. la : ab[k] = a[k]) /\ (\A k \in 1 .. lb : ab[la + k] = b[k])
  BY <1>1, <1>4, Concat, Zenon
<1>7. /\ abc \in Seq(Bytes) /\ Len(abc) = la + lb + lc
      /\ (\A k \in 1 .. la + lb : abc[k] = ab[k]) /\ (\A k \in 1 .. lc : abc[la + lb + k] = c[k])
  <2>1. ab \in Seq(Bytes)
    BY <1>6
  <2>2. /\ abc \in Seq(Bytes) /\ Len(abc) = Len(ab) + lc
        /\ (\A k \in 1 .. Len(ab) : abc[k] = ab[k]) /\ (\A k \in 1 .. lc : abc[Len(ab) + k] = c[k])
    BY <1>2, <1>4, <2>1, Concat, Zenon
  <2> QED
    BY <1>6, <2>2, Zenon
<1>8. /\ p \in Seq(Bytes) /\ Len(p) = la + lb + lc + ld
      /\ (\A k \in 1 .. la + lb + lc : p[k] = abc[k])
      /\ (\A k \in 1 .. ld : p[la + lb + lc + k] = d[k])
  <2>1. abc \in Seq(Bytes)
    BY <1>7
  <2>2. /\ p \in Seq(Bytes) /\ Len(p) = Len(abc) + ld
        /\ (\A k \in 1 .. Len(abc) : p[k] = abc[k]) /\ (\A k \in 1 .. ld : p[Len(abc) + k] = d[k])
    BY <1>3, <1>4, <2>1, Concat, Zenon
  <2> QED
    BY <1>7, <2>2, Zenon
<1>9. \A k \in 1 .. la : p[k] = a[k]
  <2> SUFFICES ASSUME NEW k \in 1 .. la PROVE p[k] = a[k]
    OBVIOUS
  <2>1. k \in 1 .. la + lb /\ k \in 1 .. la + lb + lc
    BY <1>5
  <2> QED
    BY <1>6, <1>7, <1>8, <2>1, Zenon
<1>10. \A k \in 1 .. lb : p[la + k] = b[k]
  <2> SUFFICES ASSUME NEW k \in 1 .. lb PROVE p[la + k] = b[k]
    OBVIOUS
  <2>1. la + k \in 1 .. la + lb /\ la + k \in 1 .. la + lb + lc
    BY <1>5
  <2> QED
    BY <1>6, <1>7, <1>8, <2>1, Zenon
<1>11. \A k \in 1 .. lc : p[la + lb + k] = c[k]
  <2> SUFFICES ASSUME NEW k \in 1 .. lc PROVE p[la + lb + k] = c[k]
    OBVIOUS
  <2>1. la + lb + k \in 1 .. la + lb + lc
    BY <1>5
  <2> QED
    BY <1>7, <1>8, <2>1, Zenon
<1>12. p = a \o b \o c \o d
  BY <1>1, <1>2, <1>3, Zenon
<1>13. JoinOf(p, a, b, c, d)
  BY <1>4, <1>8, <1>9, <1>10, <1>11, Zenon DEF JoinOf
<1> QED
  BY <1>12, <1>13, Zenon

(* Three large numbers by name.                                            *)
Signs == 32768
Words == 65536
Quantities == 16777216

(* The forms of the numbers: two bytes, a smart number and a quantity.     *)
LEMMA Wide ==
  ASSUME NEW n \in Nat, n < Words
  PROVE  \A s : s = BE16(n) =>
           /\ s \in Seq(Bytes) /\ Len(s) = 2 /\ s[1] * 256 + s[2] = n
           /\ n >= Signs => s[1] >= 128
<1>1. PICK x, y : x = n \div 256 /\ y = n % 256
  OBVIOUS
<1>2. x \in Bytes /\ y \in Bytes /\ x * 256 + y = n /\ (n >= Signs => x >= 128)
  BY <1>1 DEF Bytes, Words, Signs
<1>3. PICK s : s = <<x, y>>
  OBVIOUS
<1>4. s = BE16(n)
  BY <1>1, <1>3 DEF BE16
<1>5. s \in Seq(Bytes) /\ Len(s) = 2 /\ s[1] = x /\ s[2] = y
  BY <1>2, <1>3, Short
<1>6. s[1] * 256 + s[2] = n /\ (n >= Signs => s[1] >= 128)
  BY <1>2, <1>5
<1> QED
  BY <1>4, <1>5, <1>6

SmartOf(s, n) ==
  \/ Len(s) = 1 /\ s[1] = n /\ s[1] < 128
  \/ Len(s) = 2 /\ s[1] >= 128 /\ (s[1] * 256 + s[2] + Signs) % Words = n

LEMMA SmartForm ==
  ASSUME NEW n \in Nat, n < Signs
  PROVE  SmartBytes(n) \in Seq(Bytes) /\ SmartOf(SmartBytes(n), n)
<1> SUFFICES ASSUME NEW s, s = SmartBytes(n) PROVE s \in Seq(Bytes) /\ SmartOf(s, n)
  OBVIOUS
<1>1. CASE n < 128
  <2>1. n \in Bytes
    BY <1>1 DEF Bytes
  <2>2. s = <<n>>
    BY <1>1 DEF SmartBytes
  <2>3. s \in Seq(Bytes) /\ Len(s) = 1 /\ s[1] = n
    BY <2>1, <2>2, Short
  <2> QED
    BY <1>1, <2>3 DEF SmartOf
<1>2. CASE ~ n < 128
  <2>1. PICK m : m = n + Signs
    OBVIOUS
  <2>2. m \in Nat /\ m < Words /\ m >= Signs /\ (m + Signs) % Words = n
    BY <2>1 DEF Signs, Words
  <2>3. s = BE16(m)
    BY <1>2, <2>1 DEF SmartBytes, Signs
  <2>4. s \in Seq(Bytes) /\ Len(s) = 2 /\ s[1] >= 128 /\ s[1] * 256 + s[2] = m
    BY <2>2, <2>3, Wide, Zenon
  <2>5. (s[1] * 256 + s[2] + Signs) % Words = n
    BY <2>2, <2>4, Zenon
  <2> QED
    BY <2>4, <2>5 DEF SmartOf
<1> QED
  BY <1>1, <1>2

QuantitySize(s) == (s[1] = 255 /\ Len(s) = 5) \/ (s[1] # 255 /\ Len(s) = 1)

LEMMA QuantityForm ==
  ASSUME NEW n \in Nat, n < Quantities
  PROVE  QuantityBytes(n) \in Seq(Bytes) /\ QuantitySize(QuantityBytes(n))
<1> SUFFICES ASSUME NEW s, s = QuantityBytes(n) PROVE s \in Seq(Bytes) /\ QuantitySize(s)
  OBVIOUS
<1>1. CASE n < 255
  <2>1. n \in Bytes /\ n # 255
    BY <1>1 DEF Bytes
  <2>2. s = <<n>>
    BY <1>1 DEF QuantityBytes
  <2>3. s \in Seq(Bytes) /\ Len(s) = 1 /\ s[1] = n
    BY <2>1, <2>2, Short
  <2> QED
    BY <2>1, <2>3 DEF QuantitySize
<1>2. CASE ~ n < 255
  <2>1. PICK h, l : h = n \div 256 /\ l = n % 256
    OBVIOUS
  <2>2. h \in Nat /\ h < Words /\ l \in Bytes
    BY <2>1 DEF Bytes, Words, Quantities
  <2>3. PICK w : w = BE16(h)
    OBVIOUS
  <2>4. w \in Seq(Bytes) /\ Len(w) = 2
    BY <2>2, <2>3, Wide, Zenon
  <2>5. PICK x, e : x = <<255, 0>> /\ e = <<l>>
    OBVIOUS
  <2>6. x \in Seq(Bytes) /\ Len(x) = 2 /\ x[1] = 255
    <3>1. 255 \in Bytes /\ 0 \in Bytes
      BY DEF Bytes
    <3> QED
      BY <2>5, <3>1, Short
  <2>7. e \in Seq(Bytes) /\ Len(e) = 1
    BY <2>2, <2>5, Short
  <2>8. s = (x \o w) \o e
    BY <1>2, <2>1, <2>3, <2>5 DEF QuantityBytes
  <2>9. PICK v : v = x \o w
    OBVIOUS
  <2>10. v \in Seq(Bytes) /\ Len(v) = Len(x) + Len(w) /\ \A k \in 1 .. Len(x) : v[k] = x[k]
    <3>1. x \in Seq(Bytes) /\ w \in Seq(Bytes)
      BY <2>4, <2>6
    <3> QED
      BY <2>9, <3>1, Concat, Zenon
  <2>11. s \in Seq(Bytes) /\ Len(s) = Len(v) + Len(e) /\ \A k \in 1 .. Len(v) : s[k] = v[k]
    <3>1. v \in Seq(Bytes) /\ e \in Seq(Bytes) /\ s = v \o e
      BY <2>7, <2>8, <2>9, <2>10, Zenon
    <3>2. v \o e \in Seq(Bytes) /\ Len(v \o e) = Len(v) + Len(e) /\ \A k \in 1 .. Len(v) : (v \o e)[k] = v[k]
      BY <3>1, Concat, Zenon
    <3> QED
      BY <3>1, <3>2, Zenon
  <2> QED
    BY <2>4, <2>6, <2>7, <2>10, <2>11 DEF QuantitySize
<1> QED
  BY <1>1, <1>2

(* The entries have six bytes each.                                        *)
LEMMA EntriesForm ==
  ASSUME NEW n \in 0 .. 255
  PROVE  \A s : s = [j \in 1 .. 6 * n |-> Entry[((j - 1) % 6) + 1]] => s \in Seq(Bytes) /\ Len(s) = 6 * n
<1>1. ASSUME NEW j \in 1 .. 6 * n PROVE Entry[((j - 1) % 6) + 1] \in Bytes
  <2>1. PICK k : k = ((j - 1) % 6) + 1
    OBVIOUS
  <2>2. j - 1 \in Nat
    OBVIOUS
  <2>3. k \in 1 .. 6
    BY <2>1, <2>2
  <2>4. Entry[k] \in Bytes
    BY <2>3 DEF Entry, Bytes
  <2> QED
    BY <2>1, <2>4, Zenon
<1>2. PICK l : l = 6 * n
  OBVIOUS
<1>3. l \in Nat
  BY <1>2
<1>4. PICK s : s = [j \in 1 .. l |-> Entry[((j - 1) % 6) + 1]]
  OBVIOUS
<1>5. s \in [1 .. l -> Bytes]
  BY <1>1, <1>2, <1>4, Zenon
<1>6. s \in Seq(Bytes) /\ Len(s) = l
  BY <1>3, <1>5
<1> QED
  BY <1>2, <1>4, <1>6, Zenon

(* At place k of p stands n, as a smart number of y bytes.                 *)
SmartAt(p, k, y, n) ==
  \/ y = 1 /\ p[k] = n /\ p[k] < 128
  \/ y = 2 /\ p[k] >= 128 /\ (p[k] * 256 + p[k + 1] + Signs) % Words = n

(* p is u's packet: its slot has y bytes and its quantity z.               *)
SlotOf(p, u, y, z) ==
  /\ p \in Seq(Bytes) /\ y \in {1, 2} /\ z \in {1, 5} /\ u.item \in Nat
  /\ u.entries \in Bytes \/ u.entries = None
  /\ Len(p) = 5 + y + (IF u.item = 0 THEN 0 ELSE z + (IF u.entries = None THEN 0 ELSE 1 + 6 * u.entries))
  /\ p[3] = (IF u.entries = None THEN 0 ELSE 2)
  /\ SmartAt(p, 4, y, u.slot)
  /\ p[4 + y] * 256 + p[5 + y] = u.item
  /\ u.item # 0 => (p[6 + y] = 255 <=> z = 5)
  /\ u.item # 0 /\ u.entries # None => p[6 + y + z] = u.entries

(* SlotPacket puts together such a packet.                                 *)
LEMMA SlotBytes ==
  ASSUME NEW u \in SlotUpdates
  PROVE  \E y, z : SlotOf(SlotPacket(u), u, y, z)
<1>1. /\ u.slot \in Nat /\ u.slot < Signs /\ u.item \in Nat /\ u.item < Words
      /\ u.quantity \in Nat /\ u.quantity < Quantities
      /\ u.entries \in Bytes \/ u.entries = None
  <2>1. u \in [slot : 0 .. 2 ^ 15 - 1, item : 0 .. 2 ^ 16 - 1, quantity : 0 .. 2 ^ 24 - 1,
              entries : 0 .. 255 \cup {None}]
    BY MessagesAssumption, Zenon
  <2>2. /\ u.slot \in 0 .. 2 ^ 15 - 1 /\ u.item \in 0 .. 2 ^ 16 - 1 /\ u.quantity \in 0 .. 2 ^ 24 - 1
        /\ u.entries \in 0 .. 255 \cup {None}
    BY <2>1, Zenon
  <2>3. PICK slot, item, quantity : slot = u.slot /\ item = u.item /\ quantity = u.quantity
    OBVIOUS
  <2>4. slot \in Nat /\ slot < Signs /\ item \in Nat /\ item < Words /\ quantity \in Nat /\ quantity < Quantities
    <3>1. slot \in 0 .. 2 ^ 15 - 1 /\ item \in 0 .. 2 ^ 16 - 1 /\ quantity \in 0 .. 2 ^ 24 - 1
      BY <2>2, <2>3, Zenon
    <3>2. 2 ^ 15 = Signs /\ 2 ^ 16 = Words /\ 2 ^ 24 = Quantities
      BY DEF Signs, Words, Quantities
    <3>3. Signs \in Nat /\ Words \in Nat /\ Quantities \in Nat
      BY DEF Signs, Words, Quantities
    <3> QED
      BY <3>1, <3>2, <3>3
  <2>5. u.entries \in Bytes \/ u.entries = None
    BY <2>2, Zenon DEF Bytes
  <2> QED
    BY <2>3, <2>4, <2>5, Zenon
<1>2. PICK h, a, b, q, e : /\ h = <<0, 5, IF u.entries = None THEN 0 ELSE 2>>
                           /\ a = SmartBytes(u.slot) /\ b = BE16(u.item)
                           /\ q = QuantityBytes(u.quantity)
                           /\ e = [j \in 1 .. 6 * u.entries |-> Entry[((j - 1) % 6) + 1]]
  OBVIOUS
<1>3. /\ h \in Seq(Bytes) /\ Len(h) = 3 /\ h[3] = IF u.entries = None THEN 0 ELSE 2
  <2>1. PICK f : f = IF u.entries = None THEN 0 ELSE 2
    OBVIOUS
  <2>2. f \in Bytes /\ 0 \in Bytes /\ 5 \in Bytes
    BY <2>1 DEF Bytes
  <2>3. h = <<0, 5, f>>
    BY <1>2, <2>1, Zenon
  <2> QED
    BY <2>1, <2>2, <2>3, Short
<1>4. a \in Seq(Bytes) /\ SmartOf(a, u.slot)
  <2>1. u.slot \in Nat /\ u.slot < Signs /\ a = SmartBytes(u.slot)
    BY <1>1, <1>2
  <2> QED
    BY <2>1, SmartForm, Zenon
<1>5. /\ b \in Seq(Bytes) /\ Len(b) = 2 /\ b[1] * 256 + b[2] = u.item
  BY <1>1, <1>2, Wide, Zenon
<1>6. q \in Seq(Bytes) /\ QuantitySize(q)
  <2>1. u.quantity \in Nat /\ u.quantity < Quantities /\ q = QuantityBytes(u.quantity)
    BY <1>1, <1>2
  <2> QED
    BY <2>1, QuantityForm, Zenon
<1>7. PICK g : g = IF u.entries = None THEN <<>> ELSE <<u.entries>> \o e
  OBVIOUS
<1>8. /\ g \in Seq(Bytes) /\ Len(g) = IF u.entries = None THEN 0 ELSE 1 + 6 * u.entries
      /\ u.entries # None => g[1] = u.entries
  <2>1. CASE u.entries = None
    <3>1. g = <<>>
      BY <1>7, <2>1, Zenon
    <3>2. g \in Seq(Bytes) /\ Len(g) = 0
      BY <3>1, EmptyBytes, Zenon
    <3> QED
      BY <2>1, <3>2
  <2>2. CASE u.entries # None
    <3>1. u.entries \in Bytes
      BY <1>1, <2>2
    <3>2. PICK n, c : n = u.entries /\ c = <<n>>
      OBVIOUS
    <3>3. c \in Seq(Bytes) /\ Len(c) = 1 /\ c[1] = n
      BY <3>1, <3>2, Short
    <3>4. e \in Seq(Bytes) /\ Len(e) = 6 * n
      <4>1. n \in 0 .. 255
        BY <3>1, <3>2 DEF Bytes
      <4> QED
        BY <1>2, <3>2, <4>1, EntriesForm, Zenon
    <3>5. g = c \o e
      BY <1>7, <2>2, <3>2, Zenon
    <3>6. c \in Seq(Bytes) /\ e \in Seq(Bytes)
      BY <3>3, <3>4
    <3>7. g \in Seq(Bytes) /\ Len(g) = Len(c) + Len(e) /\ \A k \in 1 .. Len(c) : g[k] = c[k]
      BY <3>5, <3>6, Concat, Zenon
    <3>8. g[1] = n /\ Len(g) = 1 + 6 * n
      BY <3>3, <3>4, <3>7
    <3> QED
      BY <2>2, <3>2, <3>7, <3>8
  <2> QED
    BY <2>1, <2>2
<1>9. PICK r : r = IF u.item = 0 THEN <<>> ELSE q \o g
  OBVIOUS
<1>10. /\ r \in Seq(Bytes) /\ Len(r) = IF u.item = 0 THEN 0 ELSE Len(q) + Len(g)
       /\ u.item # 0 => r[1] = q[1] /\ (u.entries # None => r[Len(q) + 1] = u.entries)
  <2>1. CASE u.item = 0
    <3>1. r = <<>>
      BY <1>9, <2>1, Zenon
    <3> QED
      BY <2>1, <3>1, EmptyBytes, Zenon
  <2>2. CASE u.item # 0
    <3>1. q \in Seq(Bytes) /\ g \in Seq(Bytes) /\ r = q \o g
      BY <1>6, <1>8, <1>9, <2>2, Zenon
    <3>2. /\ r \in Seq(Bytes) /\ Len(r) = Len(q) + Len(g)
          /\ (\A k \in 1 .. Len(q) : r[k] = q[k]) /\ (\A k \in 1 .. Len(g) : r[Len(q) + k] = g[k])
      BY <3>1, Concat, Zenon
    <3>3. r[1] = q[1]
      BY <1>6, <3>2 DEF QuantitySize
    <3>4. ASSUME u.entries # None PROVE r[Len(q) + 1] = u.entries
      <4>1. 1 \in 1 .. Len(g)
        <5>1. PICK n : n = u.entries
          OBVIOUS
        <5>2. n \in Nat /\ Len(g) = 1 + 6 * n
          <6>1. u.entries \in Bytes /\ Len(g) = 1 + 6 * u.entries
            BY <1>1, <1>8, <3>4, Zenon
          <6>2. n \in Bytes /\ Len(g) = 1 + 6 * n
            BY <5>1, <6>1, Zenon
          <6> QED
            BY <6>2 DEF Bytes
        <5> QED
          BY <5>2
      <4> QED
        BY <1>8, <3>2, <3>4, <4>1
    <3> QED
      BY <2>2, <3>2, <3>3, <3>4
  <2> QED
    BY <2>1, <2>2
<1>11. SlotPacket(u) = h \o a \o b \o r
  BY <1>2, <1>7, <1>9, Zenon DEF SlotPacket
<1>12. PICK p : p = SlotPacket(u)
  OBVIOUS
<1>13. /\ p \in Seq(Bytes) /\ Len(p) = Len(h) + Len(a) + Len(b) + Len(r)
       /\ \A k \in 1 .. Len(h) : p[k] = h[k]
       /\ \A k \in 1 .. Len(a) : p[Len(h) + k] = a[k]
       /\ \A k \in 1 .. Len(b) : p[Len(h) + Len(a) + k] = b[k]
       /\ \A k \in 1 .. Len(r) : p[Len(h) + Len(a) + Len(b) + k] = r[k]
  <2>1. h \in Seq(Bytes) /\ a \in Seq(Bytes) /\ b \in Seq(Bytes) /\ r \in Seq(Bytes)
    BY <1>3, <1>4, <1>5, <1>10
  <2> QED
    <3>1. JoinOf(h \o a \o b \o r, h, a, b, r)
      BY <2>1, Joined, Zenon
    <3> QED
      BY <1>11, <1>12, <3>1, Zenon DEF JoinOf
<1>14. PICK y, z : y = Len(a) /\ z = Len(q)
  OBVIOUS
<1>15. y \in {1, 2} /\ z \in {1, 5}
  BY <1>4, <1>6, <1>14 DEF SmartOf, QuantitySize
<1>16. Len(p) = 5 + y + (IF u.item = 0 THEN 0 ELSE z + (IF u.entries = None THEN 0 ELSE 1 + 6 * u.entries))
  BY <1>1, <1>3, <1>5, <1>8, <1>10, <1>13, <1>14, <1>15 DEF Bytes
<1>17. /\ p[3] = (IF u.entries = None THEN 0 ELSE 2)
       /\ p[4] = a[1] /\ (y = 2 => p[5] = a[2])
       /\ p[4 + y] = b[1] /\ p[5 + y] = b[2]
  <2>1. p[3] = h[3]
    BY <1>3, <1>13
  <2>2. p[4] = a[1] /\ (y = 2 => p[5] = a[2])
    BY <1>3, <1>13, <1>14, <1>15
  <2>3. p[3 + y + 1] = b[1] /\ p[3 + y + 2] = b[2]
    BY <1>3, <1>5, <1>13, <1>14, <1>15
  <2>4. 3 + y + 1 = 4 + y /\ 3 + y + 2 = 5 + y
    BY <1>15
  <2> QED
    BY <1>3, <2>1, <2>2, <2>3, <2>4
<1>18. ASSUME u.item # 0 PROVE (p[6 + y] = 255 <=> z = 5) /\ (u.entries # None => p[6 + y + z] = u.entries)
  <2>1. \A k \in 1 .. Len(r) : p[3 + y + 2 + k] = r[k]
    BY <1>3, <1>5, <1>13, <1>14
  <2>2. Len(r) = z + Len(g) /\ Len(g) \in Nat /\ (u.entries # None => Len(g) >= 1)
    <3>1. Len(r) = z + Len(g)
      BY <1>10, <1>14, <1>18
    <3>2. Len(g) \in Nat
      BY <1>8, LenProperties, Zenon
    <3>3. ASSUME u.entries # None PROVE Len(g) >= 1
      <4>1. PICK n : n = u.entries
        OBVIOUS
      <4>2. n \in Nat /\ Len(g) = 1 + 6 * n
        <5>1. u.entries \in Bytes /\ Len(g) = 1 + 6 * u.entries
          BY <1>1, <1>8, <3>3, Zenon
        <5>2. n \in Bytes /\ Len(g) = 1 + 6 * n
          BY <4>1, <5>1, Zenon
        <5> QED
          BY <5>2 DEF Bytes
      <4> QED
        BY <4>2
    <3> QED
      BY <3>1, <3>2, <3>3
  <2>3. p[3 + y + 2 + 1] = q[1]
    BY <1>10, <1>15, <1>18, <2>1, <2>2
  <2>4. ASSUME u.entries # None PROVE p[3 + y + 2 + (z + 1)] = u.entries
    <3>1. z + 1 \in 1 .. Len(r)
      BY <1>15, <2>2, <2>4
    <3> QED
      BY <1>10, <1>14, <1>18, <2>1, <2>4, <3>1
  <2>5. 3 + y + 2 + 1 = 6 + y /\ 3 + y + 2 + (z + 1) = 6 + y + z
    BY <1>15
  <2>6. q[1] = 255 <=> z = 5
    BY <1>6, <1>14 DEF QuantitySize
  <2> QED
    BY <2>3, <2>4, <2>5, <2>6
<1>19. SmartAt(p, 4, y, u.slot)
  BY <1>4, <1>14, <1>17 DEF SmartOf, SmartAt
<1>20. p[4 + y] * 256 + p[5 + y] = u.item
  BY <1>5, <1>17
<1>21. u.item \in Nat /\ (u.entries \in Bytes \/ u.entries = None)
  BY <1>1
<1>22. p[3] = (IF u.entries = None THEN 0 ELSE 2)
  BY <1>17
<1>23. SlotOf(p, u, y, z)
  BY <1>13, <1>15, <1>16, <1>18, <1>19, <1>20, <1>21, <1>22 DEF SlotOf
<1> QED
  BY <1>12, <1>23, Zenon

(* The same of a game message, and of a dialog.                            *)
ChatOf(p, c, y) ==
  /\ p \in Seq(Bytes) /\ y \in {1, 2} /\ c.content \in Seq(1 .. 255)
  /\ Len(p) = y + 6 + Len(c.content)
  /\ SmartAt(p, 1, y, c.type)
  /\ \A k \in 1 .. Len(c.content) : p[y + 5 + k] = c.content[k]
  /\ p[y + 6 + Len(c.content)] = 0

LEMMA ChatBytes ==
  ASSUME NEW c \in Chats
  PROVE  (\E y : ChatOf(ChatPacket(c), c, y)) /\ c = [type |-> c.type, content |-> c.content]
<1>1. c \in [type : 0 .. 2 ^ 15 - 1, content : Seq(1 .. 255)]
  BY MessagesAssumption, Zenon
<1>2. /\ c.type \in 0 .. 2 ^ 15 - 1 /\ c.content \in Seq(1 .. 255)
      /\ c = [type |-> c.type, content |-> c.content]
  BY <1>1
<1>3. c.type \in Nat /\ c.type < Signs
  <2>1. PICK n : n = c.type
    OBVIOUS
  <2>2. n \in 0 .. 2 ^ 15 - 1
    BY <1>2, <2>1, Zenon
  <2>3. n \in Nat /\ n < Signs
    <3>1. 2 ^ 15 = Signs /\ Signs \in Nat
      BY DEF Signs
    <3> QED
      BY <2>2, <3>1
  <2> QED
    BY <2>1, <2>3, Zenon
<1>4. PICK a, h, t, e : a = SmartBytes(c.type) /\ h = <<0, 0, 0, 9, 1>> /\ t = c.content /\ e = <<0>>
  OBVIOUS
<1>5. a \in Seq(Bytes) /\ SmartOf(a, c.type)
  BY <1>3, <1>4, SmartForm, Zenon
<1>6. h \in Seq(Bytes) /\ Len(h) = 5
  BY <1>4 DEF Bytes
<1>7. e \in Seq(Bytes) /\ Len(e) = 1 /\ e[1] = 0
  BY <1>4 DEF Bytes
<1>8. t \in Seq(Bytes) /\ Len(t) \in Nat
  <2>1. t \in Seq(1 .. 255)
    BY <1>2, <1>4, Zenon
  <2>2. 1 .. 255 \subseteq Bytes
    BY DEF Bytes
  <2>3. t \in Seq(Bytes)
    BY <2>1, <2>2, SeqMonotonic, Zenon
  <2> QED
    BY <2>3, LenProperties, Zenon
<1>9. PICK p : p = ChatPacket(c)
  OBVIOUS
<1>10. JoinOf(p, a, h, t, e)
  <2>1. a \in Seq(Bytes) /\ h \in Seq(Bytes) /\ t \in Seq(Bytes) /\ e \in Seq(Bytes)
    BY <1>5, <1>6, <1>7, <1>8
  <2>2. JoinOf(a \o h \o t \o e, a, h, t, e)
    BY <2>1, Joined, Zenon
  <2>3. p = a \o h \o t \o e
    BY <1>4, <1>9 DEF ChatPacket
  <2> QED
    BY <2>2, <2>3, Zenon
<1>11. PICK y, l : y = Len(a) /\ l = Len(t)
  OBVIOUS
<1>12. y \in {1, 2} /\ l \in Nat
  BY <1>5, <1>8, <1>11 DEF SmartOf
<1>13. p \in Seq(Bytes) /\ Len(p) = y + 6 + l
  BY <1>6, <1>7, <1>10, <1>11, <1>12 DEF JoinOf
<1>14. p[1] = a[1] /\ (y = 2 => p[2] = a[2])
  BY <1>10, <1>11, <1>12 DEF JoinOf
<1>15. SmartAt(p, 1, y, c.type)
  BY <1>5, <1>11, <1>14 DEF SmartOf, SmartAt
<1>16. \A k \in 1 .. l : p[y + 5 + k] = t[k]
  BY <1>6, <1>10, <1>11 DEF JoinOf
<1>17. p[y + 6 + l] = 0
  <2>1. p[y + 5 + l + 1] = e[1]
    BY <1>6, <1>7, <1>10, <1>11 DEF JoinOf
  <2>2. y + 5 + l + 1 = y + 6 + l
    BY <1>12
  <2> QED
    BY <1>7, <2>1, <2>2
<1>18. ChatOf(p, c, y)
  <2>1. t = c.content /\ l = Len(c.content)
    BY <1>4, <1>11, Zenon
  <2> QED
    BY <1>2, <1>12, <1>13, <1>15, <1>16, <1>17, <2>1 DEF ChatOf
<1> QED
  BY <1>2, <1>9, <1>18, Zenon

LEMMA DialogBytes ==
  ASSUME NEW id \in Dialogs
  PROVE  Len(DialogPacket(id)) = 14 /\ SubSeq(DialogPacket(id), 11, 14) = id
<1>1. id \in Seq(Bytes) /\ Len(id) = 4
  BY MessagesAssumption DEF Bytes
<1>2. PICK h : h = <<0, 0, 0, 0, 0, 0, 0, 0, 0, 0>>
  OBVIOUS
<1>3. h \in Seq(Bytes) /\ Len(h) = 10
  BY <1>2 DEF Bytes
<1>4. PICK p : p = h \o id
  OBVIOUS
<1>5. p = DialogPacket(id)
  BY <1>2, <1>4 DEF DialogPacket
<1>6. /\ p \in Seq(Bytes) /\ Len(p) = Len(h) + Len(id)
      /\ \A k \in 1 .. Len(id) : p[Len(h) + k] = id[k]
  <2>1. h \in Seq(Bytes) /\ id \in Seq(Bytes)
    BY <1>1, <1>3
  <2> QED
    BY <1>4, <2>1, Concat, Zenon
<1>7. PICK s : s = SubSeq(p, 11, 14)
  OBVIOUS
<1>8. s \in Seq(Bytes) /\ Len(s) = 4 /\ \A k \in 1 .. 4 : s[k] = p[10 + k]
  <2>1. Len(p) = 14
    BY <1>1, <1>3, <1>6
  <2>2. \A k \in 11 .. 14 : p[k] \in Bytes
    <3> SUFFICES ASSUME NEW k \in 11 .. 14 PROVE p[k] \in Bytes
      OBVIOUS
    <3>1. k \in 1 .. Len(p)
      BY <2>1
    <3> QED
      BY <1>6, <3>1, Element, Zenon
  <2> QED
    BY <1>7, <2>2, SubSeqProperties
<1>9. \A k \in 1 .. 4 : s[k] = id[k]
  BY <1>1, <1>3, <1>6, <1>8
<1>10. s = id
  BY <1>1, <1>8, <1>9, SeqEqual
<1> QED
  BY <1>1, <1>3, <1>5, <1>6, <1>7, <1>10

-----------------------------------------------------------------------------
(* Reading.                                                                *)

(* A smart number is read as it was written.                               *)
LEMMA SmartRead ==
  ASSUME NEW p \in Seq(Bytes), packet = p, NEW k \in Nat, NEW y \in {1, 2}, NEW n,
         k + y <= Len(p), SmartAt(p, k + 1, y, n)
  PROVE  Smart(k) = n /\ SmartSize(k) = y
<1>1. CASE y = 1
  <2>1. p[k + 1] = n /\ p[k + 1] < 128 /\ At(k) = p[k + 1]
    BY <1>1 DEF SmartAt, At
  <2>2. p[k + 1] \in Nat
    <3>1. k + 1 \in 1 .. Len(p)
      BY <1>1
    <3>2. PICK x : x = p[k + 1]
      OBVIOUS
    <3>3. x \in Bytes
      BY <3>1, <3>2, Element, Zenon
    <3>4. x \in Nat
      BY <3>3 DEF Bytes
    <3> QED
      BY <3>2, <3>4, Zenon
  <2>3. ~ At(k) >= 128
    BY <2>1, <2>2
  <2> QED
    BY <1>1, <2>1, <2>3 DEF Smart, SmartSize
<1>2. CASE y = 2
  <2>1. /\ At(k) = p[k + 1] /\ At(k + 1) = p[k + 1 + 1]
        /\ p[k + 1] >= 128 /\ (p[k + 1] * 256 + p[k + 1 + 1] + Signs) % Words = n
    BY <1>2 DEF SmartAt, At
  <2>2. Smart(k) = (At(k) * 256 + At(k + 1) + Signs) % Words
    BY <2>1 DEF Smart, Word, Signs, Words
  <2>3. SmartSize(k) = 2
    BY <2>1 DEF SmartSize
  <2> QED
    BY <1>2, <2>1, <2>2, <2>3, Zenon
<1> QED
  BY <1>1, <1>2

(* SetSlotItem at each of its fields: where it is and what it has read.    *)
(* The offset is what there is of the packet before the entries that are   *)
(* left, counted with eight bits; reach is not, and what the quantity's    *)
(* four bytes read too much is made up for by the entries, if there are    *)
(* any.                                                                    *)
FieldsOf(u) ==
  {"slot", "item", "left"} \subseteq DOMAIN fields /\ fields.slot = u.slot /\ fields.item = u.item

Beyond(u) == IF u.item # 0 /\ u.entries \in {None, 0} THEN 3 ELSE 0

SlotAt(p, u, y, z) ==
  \/ at = "first" /\ offset = 0 /\ reach = 0
  \/ at = "slot" /\ offset = 3 /\ reach = 3
  \/ at = "item" /\ offset = 3 + y /\ reach = 3 + y /\ fields.slot = u.slot
  \/ /\ at = "quantity" /\ offset = 5 + y /\ reach = 5 + y
     /\ u.item # 0 /\ FieldsOf(u) /\ fields.left = 0
  \/ /\ at = "count" /\ offset = 5 + y + z /\ reach = 9 + y
     /\ u.item # 0 /\ u.entries # None /\ FieldsOf(u)
  \/ /\ at = "entries" /\ fields.left \in Nat /\ 6 * fields.left <= Len(p)
     /\ offset = (Len(p) - 6 * fields.left) % OffsetMod
     /\ reach \in Nat /\ reach <= Len(p) + Beyond(u) /\ FieldsOf(u)
  \/ /\ at = "done" /\ offset = Len(p) % OffsetMod
     /\ reach <= Len(p) + Beyond(u) /\ FieldsOf(u)
SlotInv(p, u, y, z) ==
  /\ handler = "SetSlotItem" /\ sent = u /\ packet = p
  /\ SlotOf(p, u, y, z) /\ SlotAt(p, u, y, z)

(* Each field is read where it was written, so the next one is too.        *)
LEMMA SlotStep ==
  ASSUME NEW p, NEW u \in SlotUpdates, NEW y, NEW z, SlotInv(p, u, y, z),
         [HandlerNext]_<<bitVars, handlerVars>>
  PROVE  SlotInv(p, u, y, z)'
<1>1. /\ p \in Seq(Bytes) /\ y \in {1, 2} /\ z \in {1, 5} /\ u.item \in Nat
      /\ u.entries \in Bytes \/ u.entries = None
      /\ handler = "SetSlotItem" /\ sent = u /\ packet = p
  BY DEF SlotInv, SlotOf
<1>2. PICK l, item, n : l = Len(p) /\ item = u.item /\ n = u.entries
  OBVIOUS
<1>3. l = 5 + y + (IF item = 0 THEN 0 ELSE z + (IF n = None THEN 0 ELSE 1 + 6 * n))
  BY <1>2 DEF SlotInv, SlotOf
<1>4. item \in Nat /\ (n \in 0 .. 255 \/ n = None)
  BY <1>1, <1>2 DEF Bytes
<1>5. /\ l \in Nat /\ l >= 5 + y /\ (item # 0 => l >= 5 + y + z)
      /\ (item # 0 /\ n # None => l = 6 + y + z + 6 * n)
      /\ (item # 0 /\ n = None => l = 5 + y + z) /\ (item = 0 => l = 5 + y)
  <2>1. CASE item = 0
    BY <1>1, <1>3, <2>1
  <2>2. CASE item # 0 /\ n = None
    BY <1>1, <1>3, <2>2
  <2>3. CASE item # 0 /\ n # None
    <3>1. n \in 0 .. 255 /\ l = 5 + y + (z + (1 + 6 * n))
      BY <1>3, <1>4, <2>3
    <3> QED
      BY <1>1, <2>3, <3>1
  <2> QED
    BY <2>1, <2>2, <2>3
<1>6. \A k \in Nat : k < l => At(k) = p[k + 1]
  BY <1>1, <1>2 DEF At
<1>7. SUFFICES ASSUME HandlerNext PROVE SlotAt(p, u, y, z)' /\ UNCHANGED <<handler, sent, packet>>
  <2>1. CASE UNCHANGED <<bitVars, handlerVars>>
    BY <2>1 DEF SlotInv, SlotAt, FieldsOf, handlerVars
  <2>2. CASE HandlerNext
    <3>1. SlotAt(p, u, y, z)' /\ UNCHANGED <<handler, sent, packet>>
      BY <1>7, <2>2
    <3> QED
      BY <1>1, <3>1 DEF SlotInv
  <2> QED
    BY <2>1, <2>2
<1>8. CASE Header
  <2>1. at = "first" /\ offset = 0 /\ reach = 0
    BY <1>8 DEF Header, SlotInv, SlotAt
  <2>2. /\ reach' = IF 3 > reach THEN 3 ELSE reach
        /\ offset' = (offset + 3) % OffsetMod /\ at' = "slot"
        /\ UNCHANGED <<handler, sent, packet>>
    BY <1>8 DEF Header, Read
  <2>3. offset' = 3 /\ reach' = 3
    BY <2>1, <2>2, SmallRests
  <2> QED
    BY <2>2, <2>3 DEF SlotAt
<1>9. CASE Slot
  <2>1. at = "slot" /\ offset = 3 /\ reach = 3
    BY <1>9 DEF Slot, SlotInv, SlotAt
  <2>2. Smart(3) = u.slot /\ SmartSize(3) = y
    <3>1. SmartAt(p, 3 + 1, y, u.slot)
      BY DEF SlotInv, SlotOf
    <3>2. 3 \in Nat /\ 3 + y <= Len(p)
      BY <1>1, <1>2, <1>5
    <3> QED
      BY <1>1, <3>1, <3>2, SmartRead, Zenon
  <2>3. Smart(offset) = u.slot /\ SmartSize(offset) = y
    BY <2>1, <2>2, Zenon
  <2>4. /\ reach' = IF 3 + y - 1 + 1 > 3 THEN 3 + y - 1 + 1 ELSE 3
        /\ offset' = (3 + y) % OffsetMod /\ at' = "item"
        /\ fields' = [f \in DOMAIN fields \cup {"slot"} |-> IF f = "slot" THEN u.slot ELSE fields[f]]
        /\ UNCHANGED <<handler, sent, packet>>
    BY <1>9, <2>1, <2>3 DEF Slot, Read, Also
  <2>5. offset' = 3 + y /\ reach' = 3 + y
    BY <1>1, <2>4, SmallRests
  <2>6. fields'.slot = u.slot
    BY <2>4
  <2> QED
    BY <2>4, <2>5, <2>6 DEF SlotAt
<1>10. CASE ItemId
  <2>1. at = "item" /\ offset = 3 + y /\ reach = 3 + y /\ fields.slot = u.slot
    BY <1>10 DEF ItemId, SlotInv, SlotAt
  <2>2. Word(offset) = item
    <3>1. At(3 + y) = p[4 + y] /\ At(3 + y + 1) = p[5 + y]
      <4>1. /\ 3 + y \in Nat /\ 3 + y < l /\ (3 + y) + 1 = 4 + y
            /\ 3 + y + 1 \in Nat /\ 3 + y + 1 < l /\ (3 + y + 1) + 1 = 5 + y
        BY <1>1, <1>5
      <4> QED
        BY <1>6, <4>1
    <3>2. p[4 + y] * 256 + p[5 + y] = item
      BY <1>2 DEF SlotInv, SlotOf
    <3>3. Word(offset) = At(3 + y) * 256 + At(3 + y + 1)
      BY <2>1 DEF Word
    <3> QED
      BY <3>1, <3>2, <3>3
  <2>3. /\ reach' = IF 3 + y + 1 + 1 > 3 + y THEN 3 + y + 1 + 1 ELSE 3 + y
        /\ offset' = (3 + y + 2) % OffsetMod /\ at' = (IF item # 0 THEN "quantity" ELSE "entries")
        /\ fields' = [slot |-> fields.slot, item |-> item, left |-> 0]
        /\ UNCHANGED <<handler, sent, packet>>
    BY <1>10, <2>1, <2>2 DEF ItemId, Read
  <2>4. offset' = 5 + y /\ reach' = 5 + y /\ (5 + y) % OffsetMod = 5 + y
    BY <1>1, <2>3, SmallRests
  <2>5. FieldsOf(u)' /\ fields'.left = 0
    BY <1>2, <2>1, <2>3 DEF FieldsOf
  <2>6. CASE item # 0
    BY <1>2, <2>3, <2>4, <2>5, <2>6 DEF SlotAt
  <2>7. CASE item = 0
    <3>1. Len(p) = 5 + y /\ Beyond(u) = 0
      BY <1>2, <1>5, <2>7 DEF Beyond
    <3> QED
      BY <1>1, <2>3, <2>4, <2>5, <2>7, <3>1 DEF SlotAt
  <2> QED
    BY <2>6, <2>7
<1>11. CASE Quantity
  <2>1. /\ at = "quantity" /\ offset = 5 + y /\ reach = 5 + y
        /\ item # 0 /\ FieldsOf(u) /\ fields.left = 0
    BY <1>2, <1>11 DEF Quantity, SlotInv, SlotAt
  <2>2. At(offset) = 255 <=> z = 5
    <3>1. 5 + y \in Nat /\ 5 + y < l /\ (5 + y) + 1 = 6 + y
      BY <1>1, <1>5, <2>1
    <3>2. At(5 + y) = p[6 + y]
      BY <1>6, <3>1
    <3> QED
      BY <1>2, <2>1, <3>2 DEF SlotInv, SlotOf
  <2>3. Flag <=> n # None
    <3>1. At(2) = p[2 + 1]
      BY <1>1, <1>5, <1>6
    <3>2. p[3] = (IF n = None THEN 0 ELSE 2)
      BY <1>2 DEF SlotInv, SlotOf
    <3>3. At(2) = IF n = None THEN 0 ELSE 2
      BY <3>1, <3>2
    <3> QED
      BY <3>3 DEF Flag
  <2>4. /\ reach' = IF 5 + y + 3 + 1 > 5 + y THEN 5 + y + 3 + 1 ELSE 5 + y
        /\ offset' = (5 + y + z) % OffsetMod /\ at' = (IF n # None THEN "count" ELSE "entries")
        /\ UNCHANGED <<handler, sent, packet, fields>>
    BY <1>1, <1>11, <2>1, <2>2, <2>3 DEF Quantity, Read
  <2>5. offset' = 5 + y + z /\ reach' = 9 + y /\ (5 + y + z) % OffsetMod = 5 + y + z
    BY <1>1, <2>4, SmallRests
  <2>6. FieldsOf(u)' /\ fields'.left = 0
    BY <2>1, <2>4 DEF FieldsOf
  <2>7. CASE n # None
    BY <1>2, <2>1, <2>4, <2>5, <2>6, <2>7 DEF SlotAt
  <2>8. CASE n = None
    <3>1. Len(p) = 5 + y + z /\ Beyond(u) = 3
      BY <1>2, <1>5, <2>1, <2>8 DEF Beyond
    <3>2. at' = "entries"
      BY <2>4, <2>8
    <3>3. /\ 6 * fields'.left <= Len(p) /\ fields'.left \in Nat
          /\ offset' = (Len(p) - 6 * fields'.left) % OffsetMod
      <4>1. (5 + y + z) - 6 * 0 = 5 + y + z /\ 6 * 0 <= 5 + y + z
        BY <1>1
      <4> QED
        BY <2>5, <2>6, <3>1, <4>1
    <3>4. reach' \in Nat /\ reach' <= Len(p) + Beyond(u)
      BY <1>1, <2>5, <3>1
    <3> QED
      BY <2>4, <2>6, <3>2, <3>3, <3>4 DEF SlotAt
  <2> QED
    BY <2>4, <2>7, <2>8
<1>12. CASE Count
  <2>1. /\ at = "count" /\ offset = 5 + y + z /\ reach = 9 + y
        /\ item # 0 /\ n # None /\ FieldsOf(u)
    BY <1>2, <1>12 DEF Count, SlotInv, SlotAt
  <2>2. n \in Nat /\ l = 6 + y + z + 6 * n
    BY <1>4, <1>5, <2>1
  <2>3. At(offset) = n
    <3>1. 5 + y + z \in Nat /\ 5 + y + z < l /\ (5 + y + z) + 1 = 6 + y + z
      BY <1>1, <2>2
    <3>2. At(5 + y + z) = p[6 + y + z]
      BY <1>6, <3>1
    <3> QED
      BY <1>2, <2>1, <3>2 DEF SlotInv, SlotOf
  <2>4. /\ reach' = IF 5 + y + z + 1 > 9 + y THEN 5 + y + z + 1 ELSE 9 + y
        /\ offset' = (5 + y + z + 1) % OffsetMod /\ at' = "entries"
        /\ fields' = [f \in DOMAIN fields \cup {"left"} |-> IF f = "left" THEN n ELSE fields[f]]
        /\ UNCHANGED <<handler, sent, packet>>
    BY <1>12, <2>1, <2>3 DEF Count, Read, Also
  <2>5. FieldsOf(u)' /\ fields'.left = n
    BY <2>1, <2>4 DEF FieldsOf
  <2>6. offset' = (Len(p) - 6 * n) % OffsetMod /\ 6 * n <= Len(p)
    <3>1. 5 + y + z + 1 = l - 6 * n /\ 6 * n <= l
      BY <1>1, <2>2
    <3> QED
      BY <1>2, <2>4, <3>1
  <2>7. reach' \in Nat /\ reach' <= Len(p) + Beyond(u)
    <3>1. Beyond(u) = IF n = 0 THEN 3 ELSE 0
      BY <1>2, <2>1 DEF Beyond
    <3>2. CASE n = 0
      <4>1. l = 6 + y + z /\ Beyond(u) = 3
        BY <1>1, <2>2, <3>1, <3>2
      <4> QED
        BY <1>1, <1>2, <2>4, <4>1
    <3>3. CASE n # 0
      <4>1. l >= 12 + y + z /\ l \in Nat /\ Beyond(u) = 0
        BY <1>1, <1>5, <2>2, <3>1, <3>3
      <4> QED
        BY <1>1, <1>2, <2>4, <4>1
    <3> QED
      BY <3>2, <3>3
  <2> QED
    BY <2>2, <2>4, <2>5, <2>6, <2>7 DEF SlotAt
<1>13. CASE EntryStep
  <2>1. /\ at = "entries" /\ fields.left \in Nat /\ 6 * fields.left <= l
        /\ offset = (l - 6 * fields.left) % OffsetMod
        /\ reach \in Nat /\ reach <= l + Beyond(u) /\ FieldsOf(u) /\ fields.left > 0
    BY <1>2, <1>13 DEF EntryStep, SlotInv, SlotAt
  <2>2. PICK m, a, s : m = fields.left /\ a = l - 6 * m /\ s = (offset + 2) % OffsetMod
    OBVIOUS
  <2>3. m \in Nat \ {0} /\ 6 * m <= l /\ offset = a % OffsetMod
    BY <2>1, <2>2
  <2>4. a \in Nat /\ a + 6 = l - 6 * (m - 1) /\ a + 6 <= l
    BY <1>5, <2>2, <2>3
  <2>5. offset \in Nat /\ offset <= a
    BY <2>3, <2>4, RestBound
  <2>6. s \in Nat /\ s <= offset + 2
    <3>1. offset + 2 \in Nat
      BY <2>5
    <3> QED
      BY <2>2, <3>1, RestBound, Zenon
  <2>7. PICK last : last = IF s < offset THEN offset + 1 ELSE s + 3
    OBVIOUS
  <2>8. last \in Nat /\ last + 1 <= l
    <3>1. a \in Nat /\ a + 6 <= l /\ l \in Nat
      BY <1>5, <2>4
    <3> QED
      BY <2>5, <2>6, <2>7, <3>1
  <2>9. /\ reach' = IF last + 1 > reach THEN last + 1 ELSE reach
        /\ offset' = (offset + 6) % OffsetMod /\ at' = "entries"
        /\ fields' = [f \in DOMAIN fields \cup {"left"} |-> IF f = "left" THEN m - 1 ELSE fields[f]]
        /\ UNCHANGED <<handler, sent, packet>>
    BY <1>13, <2>2, <2>7 DEF EntryStep, Read, Also
  <2>10. offset' = (l - 6 * (m - 1)) % OffsetMod
    <3>1. OffsetMod \in Nat \ {0} /\ 6 \in Nat
      BY PacketsConstants
    <3>2. ((a % OffsetMod) + 6) % OffsetMod = (a + 6) % OffsetMod
      BY <2>4, <3>1, RestSum
    <3> QED
      BY <2>3, <2>4, <2>9, <3>2, Zenon
  <2>11. FieldsOf(u)' /\ fields'.left = m - 1
    BY <2>1, <2>9 DEF FieldsOf
  <2>12. reach' \in Nat /\ reach' <= l + Beyond(u)
    <3>1. Beyond(u) \in {0, 3}
      BY DEF Beyond
    <3> QED
      BY <1>5, <2>1, <2>8, <2>9, <3>1
  <2>13. m - 1 \in Nat /\ 6 * (m - 1) <= l
    BY <1>5, <2>3
  <2> QED
    BY <1>2, <2>9, <2>10, <2>11, <2>12, <2>13 DEF SlotAt
<1>14. CASE SlotDone
  <2>1. /\ at = "entries" /\ fields.left = 0 /\ offset = (l - 6 * fields.left) % OffsetMod
        /\ reach <= l + Beyond(u) /\ FieldsOf(u)
    BY <1>2, <1>14 DEF SlotDone, SlotInv, SlotAt
  <2>2. offset = l % OffsetMod
    <3>1. l - 6 * 0 = l
      BY <1>5
    <3> QED
      BY <2>1, <3>1
  <2>3. at' = "done" /\ UNCHANGED <<handler, sent, packet, offset, reach, fields>>
    BY <1>14 DEF SlotDone
  <2> QED
    BY <1>2, <2>1, <2>2, <2>3 DEF SlotAt, FieldsOf
<1>15. CASE Next /\ UNCHANGED handlerVars
  BY <1>15 DEF SlotInv, SlotAt, FieldsOf, handlerVars
<1>16. ~ ChatType /\ ~ Content /\ ~ InterfaceId /\ ~ SplitTile
  BY <1>1 DEF ChatType, Content, InterfaceId, SplitTile, SlotInv, SlotAt
<1> QED
  BY <1>7, <1>8, <1>9, <1>10, <1>11, <1>12, <1>13, <1>14, <1>15, <1>16 DEF HandlerNext

(* HandleRecvGameMessage.                                                  *)
ChatAt(p, c, y) ==
  \/ at = "first" /\ offset = 0 /\ reach = 0
  \/ at = "content" /\ offset = y + 4 /\ reach = y + 4 /\ fields.type = c.type
  \/ at = "done" /\ event = c /\ reach = Len(p)
ChatInv(p, c, y) ==
  /\ handler = "HandleRecvGameMessage" /\ sent = c /\ packet = p
  /\ ChatOf(p, c, y) /\ ChatAt(p, c, y)

(* The content has no 0, so the C string that is read ends where it ends.  *)
LEMMA ContentRead ==
  ASSUME NEW p, NEW c, NEW y, ChatOf(p, c, y), packet = p
  PROVE  \E t \in Nat :
         /\ (CHOOSE k \in y + 5 .. Len(p) : At(k) = 0 /\ \A j \in y + 5 .. k - 1 : At(j) # 0) = t
         /\ SubSeq(p, y + 6, t) = c.content /\ Len(p) = t + 1 /\ t + 1 > y + 4
<1>1. PICK s, l, n : s = c.content /\ l = Len(s) /\ n = Len(p)
  OBVIOUS
<1>2. /\ p \in Seq(Bytes) /\ s \in Seq(1 .. 255)
      /\ (\A k \in 1 .. l : p[y + 5 + k] = s[k]) /\ p[y + 6 + l] = 0
  BY <1>1 DEF ChatOf
<1>3. PICK t : t = y + 5 + l
  OBVIOUS
<1>4. y \in {1, 2} /\ l \in Nat /\ t \in Nat /\ t = y + 5 + l /\ n = t + 1
  <2>1. l \in Nat
    BY <1>1, <1>2, LenProperties, Zenon
  <2>2. y \in {1, 2} /\ n = y + 6 + l
    BY <1>1 DEF ChatOf
  <2> QED
    BY <1>3, <2>1, <2>2
<1>5. At(t) = 0
  <2>1. t < n /\ t + 1 = y + 6 + l
    BY <1>4
  <2>2. At(t) = p[t + 1]
    BY <1>1, <2>1 DEF At
  <2> QED
    BY <1>2, <2>1, <2>2
<1>6. ASSUME NEW j \in y + 5 .. t - 1 PROVE At(j) # 0
  <2>1. PICK k : k = j - (y + 4)
    OBVIOUS
  <2>2. k \in 1 .. l /\ y + 5 + k = j + 1 /\ j < n
    BY <1>4, <2>1
  <2>3. At(j) = p[j + 1]
    BY <1>1, <2>2 DEF At
  <2>4. p[j + 1] = s[k]
    BY <1>2, <2>2
  <2>5. s[k] \in 1 .. 255
    <3>1. k \in 1 .. Len(s)
      BY <1>1, <2>2
    <3> QED
      BY <1>2, <3>1, Element, Zenon
  <2>6. s[k] # 0
    BY <2>5
  <2> QED
    BY <2>3, <2>4, <2>6, Zenon
<1>7. ASSUME NEW k \in y + 5 .. n, At(k) = 0, \A j \in y + 5 .. k - 1 : At(j) # 0 PROVE k = t
  <2>1. CASE k < t
    <3>1. k \in y + 5 .. t - 1
      BY <1>4, <2>1
    <3> QED
      BY <1>6, <1>7, <3>1
  <2>2. CASE t < k
    <3>1. t \in y + 5 .. k - 1
      BY <1>4, <2>2
    <3> QED
      BY <1>5, <1>7, <3>1
  <2>3. k \in Int
    BY <1>4
  <2> QED
    BY <1>4, <2>1, <2>2, <2>3
<1>8. (CHOOSE k \in y + 5 .. n : At(k) = 0 /\ \A j \in y + 5 .. k - 1 : At(j) # 0) = t
  <2>1. t \in y + 5 .. n
    BY <1>4
  <2>2. \E k \in y + 5 .. n : At(k) = 0 /\ \A j \in y + 5 .. k - 1 : At(j) # 0
    BY <1>5, <1>6, <2>1, Zenon
  <2> QED
    BY <1>7, <2>2, Zenon
<1>9. PICK m, v : m = y + 6 /\ v = SubSeq(p, m, t)
  OBVIOUS
<1>10. m \in Int /\ t \in Int /\ t - m + 1 = l /\ (~ m <= t => l = 0)
  <2>1. m = y + 6
    BY <1>9
  <2> QED
    BY <1>4, <2>1
<1>11. v \in Seq(Bytes) /\ Len(v) = l /\ \A k \in 1 .. l : v[k] = s[k]
  <2>1. ASSUME NEW k \in m .. t PROVE p[k] \in Bytes
    <3>1. k \in 1 .. n
      <4>1. m = y + 6
        BY <1>9
      <4> QED
        BY <1>4, <4>1
    <3> QED
      BY <1>1, <1>2, <3>1, Element, Zenon
  <2>2. /\ SubSeq(p, m, t) \in Seq(Bytes)
        /\ Len(SubSeq(p, m, t)) = IF m <= t THEN t - m + 1 ELSE 0
        /\ \A k \in 1 .. t - m + 1 : SubSeq(p, m, t)[k] = p[m + k - 1]
    <3>1. \A k \in m .. t : p[k] \in Bytes
      BY <2>1
    <3>2. m \in Int /\ t \in Int
      BY <1>10
    <3> QED
      BY <3>1, <3>2, SubSeqProperties
  <2>3. v \in Seq(Bytes) /\ (Len(v) = IF m <= t THEN t - m + 1 ELSE 0) /\ \A k \in 1 .. l : v[k] = p[m + k - 1]
    BY <1>9, <1>10, <2>2, Zenon
  <2>4. Len(v) = l
    BY <1>10, <2>3
  <2>5. ASSUME NEW k \in 1 .. l PROVE v[k] = s[k]
    <3>1. m + k - 1 = y + 5 + k
      <4>1. m = y + 6
        BY <1>9
      <4> QED
        BY <1>4, <4>1
    <3>2. v[k] = p[y + 5 + k]
      BY <2>3, <3>1
    <3> QED
      BY <1>2, <3>2, Zenon
  <2> QED
    BY <2>3, <2>4, <2>5
<1>12. v = s
  <2>1. s \in Seq(Bytes)
    <3>1. 1 .. 255 \subseteq Bytes
      BY DEF Bytes
    <3> QED
      BY <1>2, <3>1, SeqMonotonic, Zenon
  <2>2. Len(v) = Len(s) /\ \A k \in 1 .. Len(v) : v[k] = s[k]
    BY <1>1, <1>11
  <2> QED
    BY <1>11, <2>1, <2>2, SeqEqual, Zenon
<1>13. t + 1 > y + 4
  BY <1>4
<1> QED
  BY <1>1, <1>4, <1>8, <1>9, <1>12, <1>13, Zenon

LEMMA ChatStep ==
  ASSUME NEW p, NEW c \in Chats, NEW y, ChatInv(p, c, y), [HandlerNext]_<<bitVars, handlerVars>>
  PROVE  ChatInv(p, c, y)'
<1>1. /\ p \in Seq(Bytes) /\ y \in {1, 2} /\ Len(p) = y + 6 + Len(c.content) /\ Len(c.content) \in Nat
      /\ handler = "HandleRecvGameMessage" /\ sent = c /\ packet = p /\ ChatOf(p, c, y)
  <2>1. c.content \in Seq(1 .. 255)
    BY DEF ChatInv, ChatOf
  <2>2. Len(c.content) \in Nat
    BY <2>1, LenProperties, Zenon
  <2> QED
    BY <2>2 DEF ChatInv, ChatOf
<1>2. SUFFICES ASSUME HandlerNext PROVE ChatAt(p, c, y)' /\ UNCHANGED <<handler, sent, packet>>
  <2>1. CASE UNCHANGED <<bitVars, handlerVars>>
    BY <2>1 DEF ChatInv, ChatAt, handlerVars
  <2>2. CASE HandlerNext
    <3>1. ChatAt(p, c, y)' /\ UNCHANGED <<handler, sent, packet>>
      BY <1>2, <2>2
    <3> QED
      BY <1>1, <3>1 DEF ChatInv
  <2> QED
    BY <2>1, <2>2
<1>3. CASE ChatType
  <2>1. at = "first" /\ offset = 0 /\ reach = 0
    BY <1>3 DEF ChatType, ChatInv, ChatAt
  <2>2. Smart(0) = c.type /\ SmartSize(0) = y
    <3>1. SmartAt(p, 0 + 1, y, c.type)
      BY DEF ChatInv, ChatOf
    <3>2. 0 \in Nat /\ 0 + y <= Len(p)
      <4>1. PICK l, n : l = Len(c.content) /\ n = Len(p)
        OBVIOUS
      <4>2. y \in {1, 2} /\ l \in Nat /\ n = y + 6 + l
        BY <1>1, <4>1, Zenon
      <4>3. 0 + y <= n
        BY <4>2
      <4> QED
        BY <4>1, <4>3, Zenon
    <3> QED
      BY <1>1, <3>1, <3>2, SmartRead, Zenon
  <2>3. /\ reach' = IF y + 3 + 1 > 0 THEN y + 3 + 1 ELSE 0
        /\ offset' = (0 + (y + 4)) % OffsetMod /\ at' = "content"
        /\ fields' = [f \in DOMAIN fields \cup {"type"} |-> IF f = "type" THEN c.type ELSE fields[f]]
        /\ UNCHANGED <<handler, sent, packet>>
    BY <1>3, <2>1, <2>2 DEF ChatType, Read, Also
  <2>4. offset' = y + 4 /\ reach' = y + 4
    BY <1>1, <2>3, SmallRests
  <2>5. fields'.type = c.type
    BY <2>3
  <2> QED
    BY <2>3, <2>4, <2>5 DEF ChatAt
<1>4. CASE Content
  <2> DEFINE first == offset + 1
             last == CHOOSE k \in first .. Len(packet) : At(k) = 0 /\ \A j \in first .. k - 1 : At(j) # 0
  <2>1. at = "content" /\ offset = y + 4 /\ reach = y + 4 /\ fields.type = c.type
    BY <1>4 DEF Content, ChatInv, ChatAt
  <2>2. PICK t \in Nat :
          /\ (CHOOSE k \in y + 5 .. Len(p) : At(k) = 0 /\ \A j \in y + 5 .. k - 1 : At(j) # 0) = t
          /\ SubSeq(p, y + 6, t) = c.content /\ Len(p) = t + 1 /\ t + 1 > y + 4
    BY <1>1, ContentRead, Zenon
  <2>3. first = y + 5 /\ first + 1 = y + 6
    BY <1>1, <2>1
  <2> HIDE DEF first
  <2>4. last = t
    BY <1>1, <2>2, <2>3, Zenon
  <2> HIDE DEF last
  <2>5. Read(last, 1, "done") /\ event' = [type |-> fields.type, content |-> SubSeq(packet, first + 1, last)]
    BY <1>4, Zenon DEF Content, first, last
  <2>6. event' = [type |-> c.type, content |-> c.content]
    BY <1>1, <2>1, <2>2, <2>3, <2>4, <2>5, Zenon
  <2>7. c = [type |-> c.type, content |-> c.content]
    BY ChatBytes, Zenon
  <2>8. reach' = (IF t + 1 > y + 4 THEN t + 1 ELSE y + 4) /\ at' = "done" /\ UNCHANGED <<handler, sent, packet>>
    BY <2>1, <2>4, <2>5 DEF Read
  <2>9. reach' = Len(p)
    BY <2>2, <2>8
  <2> QED
    BY <2>6, <2>7, <2>8, <2>9 DEF ChatAt
<1>5. CASE Next /\ UNCHANGED handlerVars
  BY <1>5 DEF ChatInv, ChatAt, handlerVars
<1>6. /\ ~ Header /\ ~ Slot /\ ~ ItemId /\ ~ Quantity /\ ~ Count /\ ~ EntryStep /\ ~ SlotDone
      /\ ~ InterfaceId /\ ~ SplitTile
  BY <1>1 DEF Header, Slot, ItemId, Quantity, Count, EntryStep, SlotDone, InterfaceId, SplitTile,
              ChatInv, ChatAt
<1> QED
  BY <1>2, <1>3, <1>4, <1>5, <1>6 DEF HandlerNext

(* HandleOpenDialog.                                                       *)
DialogInv(p, id) ==
  /\ handler = "HandleOpenDialog" /\ sent = id /\ packet = p /\ p = DialogPacket(id)
  /\ \/ at = "first" /\ reach = 0
     \/ at = "done" /\ event = id /\ reach = Len(p)

LEMMA DialogStep ==
  ASSUME NEW p, NEW id \in Dialogs, DialogInv(p, id), [HandlerNext]_<<bitVars, handlerVars>>
  PROVE  DialogInv(p, id)'
<1>1. Len(p) = 14 /\ SubSeq(p, 11, 14) = id
  BY DialogBytes DEF DialogInv
<1>2. CASE InterfaceId
  <2>1. at = "first" /\ reach = 0 /\ packet = p
    BY <1>2 DEF InterfaceId, DialogInv
  <2>2. /\ reach' = IF 13 + 1 > reach THEN 13 + 1 ELSE reach
        /\ at' = "done" /\ event' = SubSeq(packet, 11, 14) /\ UNCHANGED <<handler, sent, packet>>
    BY <1>2 DEF InterfaceId, Read
  <2>3. reach' = 14 /\ event' = id
    BY <1>1, <2>1, <2>2
  <2> QED
    BY <1>1, <2>2, <2>3 DEF DialogInv
<1>3. CASE (Next /\ UNCHANGED handlerVars) \/ UNCHANGED <<bitVars, handlerVars>>
  BY <1>3 DEF DialogInv, handlerVars
<1>4. /\ ~ Header /\ ~ Slot /\ ~ ItemId /\ ~ Quantity /\ ~ Count /\ ~ EntryStep /\ ~ SlotDone
      /\ ~ ChatType /\ ~ Content /\ ~ SplitTile
  BY DEF Header, Slot, ItemId, Quantity, Count, EntryStep, SlotDone, ChatType, Content, SplitTile, DialogInv
<1> QED
  BY <1>2, <1>3, <1>4 DEF HandlerNext

(* HandleLoadWorld.                                                        *)
WorldInv ==
  /\ handler = "HandleLoadWorld" /\ pc # "none"
  /\ \/ at = "first"
     \/ at = "done" /\ fields.x = Field(2, 14) /\ fields.y = Field(16, 14)

(* The 30 bits of a tile are a level of two and coordinates of 14 each.    *)
LEMMA TileSplit ==
  ASSUME data \in Seq(0 .. 255), 30 <= 8 * Len(data)
  PROVE  /\ (Field(0, 30) \div 2 ^ 14) % 2 ^ 14 = Field(2, 14)
         /\ Field(0, 30) % 2 ^ 14 = Field(16, 14)
<1>1. PICK f, a, b, x, y : /\ f = Field(0, 30) /\ a = Field(0, 16) /\ b = Field(0, 2)
                           /\ x = Field(2, 14) /\ y = Field(16, 14)
  OBVIOUS
<1>2. Len(data) \in Nat
  BY LenProperties, Zenon
<1>3. f = a * 2 ^ 14 + y
  <2>1. 0 \in Nat /\ 16 \in 0 .. 30 /\ 14 \in 0 .. 30 /\ 16 + 14 <= 30 /\ 0 + 16 + 14 <= 8 * Len(data)
    BY <1>2
  <2>2. Field(0, 16 + 14) = Field(0, 16) * 2 ^ 14 + Field(0 + 16, 14)
    BY <2>1, FieldSplit
  <2>3. 16 + 14 = 30 /\ 0 + 16 = 16
    OBVIOUS
  <2> QED
    BY <1>1, <2>2, <2>3
<1>4. a = b * 2 ^ 14 + x
  <2>1. 0 \in Nat /\ 2 \in 0 .. 30 /\ 14 \in 0 .. 30 /\ 2 + 14 <= 30 /\ 0 + 2 + 14 <= 8 * Len(data)
    BY <1>2
  <2>2. Field(0, 2 + 14) = Field(0, 2) * 2 ^ 14 + Field(0 + 2, 14)
    BY <2>1, FieldSplit
  <2>3. 2 + 14 = 16 /\ 0 + 2 = 2
    OBVIOUS
  <2> QED
    BY <1>1, <2>2, <2>3
<1>5. b \in Nat /\ x \in Nat /\ y \in Nat /\ x < 2 ^ 14 /\ y < 2 ^ 14
  <2>1. /\ 0 \in Nat /\ 2 \in Nat /\ 16 \in Nat /\ 2 \in 0 .. 30 /\ 14 \in 0 .. 30
        /\ 0 + 2 <= 8 * Len(data) /\ 2 + 14 <= 8 * Len(data) /\ 16 + 14 <= 8 * Len(data)
    BY <1>2
  <2>2. Field(0, 2) \in Nat
    BY <2>1, FieldBound
  <2>3. Field(2, 14) \in Nat /\ Field(2, 14) < 2 ^ 14
    BY <2>1, FieldBound
  <2>4. Field(16, 14) \in Nat /\ Field(16, 14) < 2 ^ 14
    BY <2>1, FieldBound
  <2> QED
    BY <1>1, <2>2, <2>3, <2>4
<1>6. (f \div 16384) % 16384 = x /\ f % 16384 = y
  <2>1. 2 ^ 14 = 16384
    OBVIOUS
  <2>2. /\ f = a * 16384 + y /\ a = b * 16384 + x
        /\ b \in Nat /\ x \in Nat /\ y \in Nat /\ x < 16384 /\ y < 16384
    BY <1>3, <1>4, <1>5, <2>1
  <2>3. a \in Nat
    BY <2>2
  <2>4. f \div 16384 = a /\ f % 16384 = y
    BY <2>2, <2>3
  <2>5. a % 16384 = x
    BY <2>2
  <2> QED
    BY <2>4, <2>5
<1> QED
  BY <1>1, <1>6

LEMMA WorldStep ==
  ASSUME BitsInv, ValuesInv, WorldInv, [HandlerNext]_<<bitVars, handlerVars>>
  PROVE  WorldInv'
<1>1. CASE SplitTile
  <2>1. /\ pc = "done" /\ bitSize = 30 /\ bitIndex = 0 /\ width = 32
        /\ fields' = [x |-> (result \div 2 ^ 14) % 2 ^ 14, y |-> result % 2 ^ 14]
        /\ at' = "done" /\ UNCHANGED <<handler, data, pc>>
    BY <1>1 DEF SplitTile, bitVars, args
  <2>2. result = Field(0, 30)
    BY <2>1 DEF ValuesInv, Unpacked, Cut
  <2>3. data \in Seq(0 .. 255) /\ 30 <= 8 * Len(data)
    BY <2>1 DEF BitsInv, ArgsOK, Placed
  <2>4. fields'.x = Field(2, 14) /\ fields'.y = Field(16, 14)
    BY <2>1, <2>2, <2>3, TileSplit
  <2>5. Field(2, 14)' = Field(2, 14) /\ Field(16, 14)' = Field(16, 14)
    BY <2>1, FieldSame
  <2> QED
    BY <2>1, <2>4, <2>5 DEF WorldInv
<1>2. CASE (Next /\ UNCHANGED handlerVars) \/ UNCHANGED <<bitVars, handlerVars>>
  <2>1. UNCHANGED <<data, handlerVars>> /\ pc' # "none"
    BY <1>2 DEF Next, TakeByte, Return, args, bitVars, WorldInv
  <2>2. Field(2, 14)' = Field(2, 14) /\ Field(16, 14)' = Field(16, 14)
    BY <2>1, FieldSame
  <2> QED
    BY <2>1, <2>2 DEF WorldInv, handlerVars
<1>3. /\ ~ Header /\ ~ Slot /\ ~ ItemId /\ ~ Quantity /\ ~ Count /\ ~ EntryStep /\ ~ SlotDone
      /\ ~ ChatType /\ ~ Content /\ ~ InterfaceId
  BY DEF Header, Slot, ItemId, Quantity, Count, EntryStep, SlotDone, ChatType, Content, InterfaceId, WorldInv
<1> QED
  BY <1>1, <1>2, <1>3 DEF HandlerNext

(* The packet was put together from what was sent, and the handler that    *)
(* has it is where its fields say.                                         *)
ReadInv ==
  \/ \E p : \E u \in SlotUpdates : \E y, z : SlotInv(p, u, y, z)
  \/ \E p : \E c \in Chats : \E y : ChatInv(p, c, y)
  \/ \E p : \E id \in Dialogs : DialogInv(p, id)
  \/ WorldInv

LEMMA ReadInit == HandlerInit => ReadInv
<1>1. ASSUME Init, NoPacket PROVE WorldInv
  BY <1>1 DEF Init, NoPacket, Arrives, WorldInv
<1>2. ASSUME NEW u \in SlotUpdates, Arrives("SetSlotItem", u, SlotPacket(u)) PROVE ReadInv
  <2>1. PICK y, z : SlotOf(SlotPacket(u), u, y, z)
    BY SlotBytes
  <2>2. PICK p : p = SlotPacket(u)
    OBVIOUS
  <2>3. SlotInv(p, u, y, z)
    BY <1>2, <2>1, <2>2 DEF Arrives, SlotInv, SlotAt
  <2> QED
    BY <2>3 DEF ReadInv
<1>3. ASSUME NEW c \in Chats, Arrives("HandleRecvGameMessage", c, ChatPacket(c)) PROVE ReadInv
  <2>1. PICK y : ChatOf(ChatPacket(c), c, y)
    BY ChatBytes
  <2>2. PICK p : p = ChatPacket(c)
    OBVIOUS
  <2>3. ChatInv(p, c, y)
    BY <1>3, <2>1, <2>2 DEF Arrives, ChatInv, ChatAt
  <2> QED
    BY <2>3 DEF ReadInv
<1>4. ASSUME NEW id \in Dialogs, Arrives("HandleOpenDialog", id, DialogPacket(id)) PROVE ReadInv
  <2>1. PICK p : p = DialogPacket(id)
    OBVIOUS
  <2>2. DialogInv(p, id)
    BY <1>4, <2>1 DEF Arrives, DialogInv
  <2> QED
    BY <2>2 DEF ReadInv
<1> QED
  BY <1>1, <1>2, <1>3, <1>4 DEF HandlerInit, ReadInv

LEMMA ReadStep == BitsInv /\ ValuesInv /\ ReadInv /\ [HandlerNext]_<<bitVars, handlerVars>> => ReadInv'
<1> SUFFICES ASSUME BitsInv, ValuesInv, ReadInv, [HandlerNext]_<<bitVars, handlerVars>> PROVE ReadInv'
  OBVIOUS
<1>1. ASSUME NEW p, NEW u \in SlotUpdates, NEW y, NEW z, SlotInv(p, u, y, z) PROVE ReadInv'
  <2>1. SlotInv(p, u, y, z)'
    BY <1>1, SlotStep
  <2> QED
    BY <2>1 DEF ReadInv
<1>2. ASSUME NEW p, NEW c \in Chats, NEW y, ChatInv(p, c, y) PROVE ReadInv'
  <2>1. ChatInv(p, c, y)'
    BY <1>2, ChatStep
  <2> QED
    BY <2>1 DEF ReadInv
<1>3. ASSUME NEW p, NEW id \in Dialogs, DialogInv(p, id) PROVE ReadInv'
  <2>1. DialogInv(p, id)'
    BY <1>3, DialogStep
  <2> QED
    BY <2>1 DEF ReadInv
<1>4. WorldInv => ReadInv'
  BY WorldStep DEF ReadInv
<1> QED
  BY <1>1, <1>2, <1>3, <1>4 DEF ReadInv

LEMMA ReadAlways == HandlerSpec => []ReadInv
  BY BitsInit, BitsStep, ValuesInit, ValuesStep, ReadInit, ReadStep, PTL DEF HandlerSpec

(* The handlers read what was sent: the slot and item of SetSlotItem, the  *)
(* tile of HandleLoadWorld, and the events that clients are given of       *)
(* HandleRecvGameMessage and HandleOpenDialog, for every message, its      *)
(* lengths included.                                                       *)
THEOREM FieldsRightCorrect == HandlerSpec => []FieldsRight
<1>1. ReadInv => FieldsRight
  BY DEF ReadInv, SlotInv, SlotAt, FieldsOf, ChatInv, ChatAt, DialogInv, WorldInv, FieldsRight
<1> QED
  BY <1>1, ReadAlways, PTL

(* SetSlotItem's eight-bit offset ends at the packet's length modulo 256,  *)
(* however many entries there are; for an update of less than 256 bytes    *)
(* that is the end of the packet.                                          *)
THEOREM ConsumedExactlyCorrect == HandlerSpec => []ConsumedExactly
<1>1. ReadInv => ConsumedExactly
  BY DEF ReadInv, SlotInv, SlotAt, ChatInv, DialogInv, WorldInv, ConsumedExactly
<1> QED
  BY <1>1, ReadAlways, PTL

(* SetSlotItem, HandleRecvGameMessage and HandleOpenDialog, which do not   *)
(* look at the packet's size, read no further than three bytes behind it,  *)
(* also when the offset has started again, and whatever bytes follow.      *)
THEOREM StaysNearPacketCorrect == HandlerSpec => []StaysNearPacket
<1>1. ASSUME NEW p, NEW u \in SlotUpdates, NEW y, NEW z, SlotInv(p, u, y, z) PROVE StaysNearPacket
  <2>1. /\ p \in Seq(Bytes) /\ y \in {1, 2} /\ z \in {1, 5} /\ u.item \in Nat
        /\ u.entries \in Bytes \/ u.entries = None
        /\ handler = "SetSlotItem" /\ sent = u /\ packet = p
    BY <1>1 DEF SlotInv, SlotOf
  <2>2. PICK l, item, n : l = Len(p) /\ item = u.item /\ n = u.entries
    OBVIOUS
  <2>3. l = 5 + y + (IF item = 0 THEN 0 ELSE z + (IF n = None THEN 0 ELSE 1 + 6 * n))
    BY <1>1, <2>2 DEF SlotInv, SlotOf
  <2>4. /\ l \in Nat /\ l >= 5 + y
        /\ (item # 0 => l >= 5 + y + z) /\ (item # 0 /\ n # None => l >= 6 + y + z)
        /\ (item # 0 /\ n # None /\ n # 0 => l >= 12 + y + z)
    <3>1. CASE item = 0
      BY <2>1, <2>3, <3>1
    <3>2. CASE item # 0 /\ n = None
      BY <2>1, <2>3, <3>2
    <3>3. CASE item # 0 /\ n # None
      <4>1. n \in Nat /\ l = 5 + y + (z + (1 + 6 * n))
        <5>1. n \in Bytes
          BY <2>1, <2>2, <3>3, Zenon
        <5>2. l = 5 + y + (z + (1 + 6 * n))
          BY <2>3, <3>3
        <5> QED
          BY <5>1, <5>2 DEF Bytes
      <4> QED
        BY <2>1, <3>3, <4>1
    <3> QED
      BY <3>1, <3>2, <3>3
  <2>5. reach <= l + Beyond(u)
    <3>1. Beyond(u) = IF item # 0 /\ n \in {None, 0} THEN 3 ELSE 0
      BY <2>2 DEF Beyond
    <3>2. \/ reach = 0 \/ reach = 3 \/ reach = 3 + y
          \/ reach = 5 + y
          \/ reach = 9 + y /\ item # 0 /\ n # None
          \/ reach <= l + Beyond(u)
      BY <1>1, <2>2 DEF SlotInv, SlotAt
    <3> QED
      BY <2>1, <2>4, <3>1, <3>2
  <2> QED
    BY <2>1, <2>2, <2>5 DEF StaysNearPacket, Beyond
<1>2. ASSUME NEW p, NEW c \in Chats, NEW y, ChatInv(p, c, y) PROVE StaysNearPacket
  <2>1. y \in {1, 2} /\ c.content \in Seq(1 .. 255) /\ Len(p) = y + 6 + Len(c.content)
        /\ handler = "HandleRecvGameMessage" /\ packet = p
    BY <1>2 DEF ChatInv, ChatOf
  <2>2. PICK l, n : l = Len(c.content) /\ n = Len(p)
    OBVIOUS
  <2>3. l \in Nat
    BY <2>1, <2>2, LenProperties, Zenon
  <2>4. n = y + 6 + l
    BY <2>1, <2>2, Zenon
  <2>5. reach \in {0, y + 4, n}
    BY <1>2, <2>2 DEF ChatInv, ChatAt
  <2>6. reach <= n + 0
    BY <2>1, <2>3, <2>4, <2>5
  <2> QED
    BY <2>1, <2>2, <2>6 DEF StaysNearPacket
<1>3. ASSUME NEW p, NEW id \in Dialogs, DialogInv(p, id) PROVE StaysNearPacket
  <2>1. Len(p) = 14
    BY <1>3, DialogBytes DEF DialogInv
  <2> QED
    BY <1>3, <2>1 DEF DialogInv, StaysNearPacket
<1>4. WorldInv => StaysNearPacket
  BY DEF WorldInv, StaysNearPacket
<1>5. ReadInv => StaysNearPacket
  BY <1>1, <1>2, <1>3, <1>4 DEF ReadInv
<1> QED
  BY <1>5, ReadAlways, PTL
=============================================================================
