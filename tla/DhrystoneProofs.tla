-------------------------- MODULE DhrystoneProofs --------------------------
(***************************************************************************)
(* Proofs about strcpy, strcmp and memcpy of the C library, for bytes and  *)
(* strings of any size and pointers of any alignment; about print_hex; and *)
(* about the Dhrystone program, for any number of runs and any cycle       *)
(* counter.                                                                *)
(***************************************************************************)
EXTENDS Dhrystone, TLAPS

(***************************************************************************)
(* THE BYTES OF A WORD                                                     *)
(***************************************************************************)
LEMMA Quotient ==
  ASSUME NEW d \in Nat \ {0}, NEW q \in Int, NEW r \in 0 .. d - 1
  PROVE  (r + d * q) \div d = q /\ (r + d * q) % d = r
  OBVIOUS

LEMMA BaseType == Base \in Nat \ {0} /\ Base = 2 * TopBit /\ TopBit \in Nat \ {0}
  BY BytesAssumption DEF Base

LEMMA Weights ==
  /\ Weight(0) = 1 /\ Weight(1) = Base /\ Weight(2) = Base * Base /\ Weight(3) = Base * Base * Base
  /\ \A k \in 0 .. 3 : Weight(k) \in Nat \ {0}
<1>1. Weight(0) = 1 /\ Weight(1) = Base /\ Weight(2) = Base * Base /\ Weight(3) = Base * Base * Base
  BY DEF Weight
<1>2. Base * Base \in Nat \ {0}
  BY BaseType
<1>3. Base * Base * Base \in Nat \ {0}
  BY <1>2, BaseType
<1> QED BY <1>1, <1>2, <1>3, BaseType

Chars == 0 .. Base - 1

LEMMA LowDigits ==
  ASSUME NEW B \in Nat \ {0}, NEW x \in 0 .. B - 1, NEW y \in 0 .. B - 1, NEW z \in 0 .. B - 1
  PROVE  x + B * y \in 0 .. B * B - 1 /\ x + B * y + B * B * z \in 0 .. B * B * B - 1
<1>1. x + B * y \in 0 .. B * B - 1
  OBVIOUS
<1>2. x + B * y + B * B * z \in 0 .. B * B * B - 1
  OBVIOUS
<1> QED BY <1>1, <1>2

\* The bytes of a number whose digits in the base of a byte are given, the ones
\* that stand above digits out of range left open.
LEMMA BytesOf ==
  ASSUME NEW w \in Int, NEW x \in Int, NEW y \in Int, NEW z \in Int,
         NEW v, v = w + Base * x + Weight(2) * y + Weight(3) * z
  PROVE  /\ w \in Chars => Byte(v, 0) = w
         /\ w \in Chars /\ x \in Chars => Byte(v, 1) = x
         /\ w \in Chars /\ x \in Chars /\ y \in Chars => Byte(v, 2) = y /\ Byte(v, 3) = z % Base
<1> DEFINE B == Base
<1>1. B \in Nat \ {0} /\ Chars = 0 .. B - 1
  BY BaseType DEF Chars
<1>2. Weight(0) = 1 /\ Weight(1) = B /\ Weight(2) = B * B /\ Weight(3) = B * B * B
  BY Weights
<1>3. v = w + B * x + B * B * y + B * B * B * z
  BY <1>2
<1>4. B * B \in Nat \ {0} /\ B * B * B \in Nat \ {0}
  BY <1>2, Weights
<1>5. \A k \in 0 .. 3 : Byte(v, k) = (v \div Weight(k)) % B
  BY DEF Byte
<1> HIDE DEF B
<1>6. /\ y + B * z \in Int /\ x + B * (y + B * z) \in Int
      /\ w + B * x \in Int /\ w + B * x + B * B * y \in Int
  BY <1>1
<1>7. v = w + B * (x + B * (y + B * z))
  BY <1>1, <1>3
<1>8. ASSUME w \in Chars
      PROVE  Byte(v, 0) = w
  <2>1. Byte(v, 0) = (v \div 1) % B /\ v \in Int
    BY <1>1, <1>2, <1>5, <1>6, <1>7
  <2>2. v \div 1 = v
    BY <2>1
  <2>3. (w + B * (x + B * (y + B * z))) % B = w
    BY <1>1, <1>6, <1>8, Quotient
  <2> QED BY <1>7, <2>1, <2>2, <2>3
<1>9. ASSUME w \in Chars, x \in Chars
      PROVE  Byte(v, 1) = x
  <2>1. v \div B = x + B * (y + B * z)
    BY <1>1, <1>6, <1>7, <1>9, Quotient
  <2>2. (x + B * (y + B * z)) % B = x
    BY <1>1, <1>6, <1>9, Quotient
  <2> QED BY <1>2, <1>5, <2>1, <2>2
<1>10. ASSUME w \in Chars, x \in Chars, y \in Chars
       PROVE  Byte(v, 2) = y /\ Byte(v, 3) = z % B
  <2>1. w + B * x \in 0 .. B * B - 1 /\ w + B * x + B * B * y \in 0 .. B * B * B - 1
    BY <1>1, <1>10, LowDigits
  <2>2. v = (w + B * x) + (B * B) * (y + B * z)
    BY <1>1, <1>3
  <2>3. v \div (B * B) = y + B * z
    BY <1>4, <1>6, <2>1, <2>2, Quotient
  <2>4. (y + B * z) % B = y
    BY <1>1, <1>10, Quotient
  <2>5. v = (w + B * x + B * B * y) + (B * B * B) * z
    BY <1>1, <1>3
  <2>6. v \div (B * B * B) = z
    BY <1>4, <1>6, <2>1, <2>5, Quotient
  <2> QED BY <1>2, <1>5, <2>3, <2>4, <2>6
<1> QED BY <1>8, <1>9, <1>10 DEF B

\* The word with four given bytes.
Joined(c) == c[0] + Base * c[1] + Weight(2) * c[2] + Weight(3) * c[3]

LEMMA JoinedBytes ==
  ASSUME NEW c \in [0 .. 3 -> Chars]
  PROVE  \A k \in 0 .. 3 : Byte(Joined(c), k) = c[k]
<1>1. /\ c[0] \in Chars /\ c[1] \in Chars /\ c[2] \in Chars /\ c[3] \in Chars
      /\ c[0] \in Int /\ c[1] \in Int /\ c[2] \in Int /\ c[3] \in Int
  BY DEF Chars
<1>2. /\ Byte(Joined(c), 0) = c[0] /\ Byte(Joined(c), 1) = c[1] /\ Byte(Joined(c), 2) = c[2]
      /\ Byte(Joined(c), 3) = c[3] % Base
  BY <1>1, BytesOf DEF Joined
<1>3. c[3] % Base = c[3]
  BY <1>1, BaseType DEF Chars
<1>4. \A k \in 0 .. 3 : k = 0 \/ k = 1 \/ k = 2 \/ k = 3
  OBVIOUS
<1> QED BY <1>2, <1>3, <1>4

LEMMA OneAbove ==
  ASSUME NEW d \in Nat \ {0}, NEW r \in 0 .. d - 1
  PROVE  (r + d) % d = r
  OBVIOUS

\* The difference without a borrow, and with one out of the first, the second or
\* the third byte.
LEMMA Differences ==
  ASSUME NEW B \in Int, NEW P \in Int, NEW Q \in Int, B * B = P, B * P = Q,
         NEW w \in Int, NEW x \in Int, NEW y \in Int, NEW z \in Int,
         NEW v, v = w + B * x + P * y + Q * z + B * Q - (1 + B + P + Q)
  PROVE  /\ v = (w - 1) + B * (x - 1) + P * (y - 1) + Q * (z - 1 + B)
         /\ v = (w - 1 + B) + B * (x - 2) + P * (y - 1) + Q * (z - 1 + B)
         /\ v = (w - 1) + B * (x - 1 + B) + P * (y - 2) + Q * (z - 1 + B)
         /\ v = (w - 1) + B * (x - 1) + P * (y - 1 + B) + Q * (z - 2 + B)
<1>1. v = (w - 1) + B * (x - 1) + P * (y - 1) + Q * (z - 1 + B)
  OBVIOUS
<1>2. (w - 1) + B * (x - 1) + P * (y - 1) + Q * (z - 1 + B)
        = (w - 1 + B) + B * (x - 2) + P * (y - 1) + Q * (z - 1 + B)
  OBVIOUS
<1>3. (w - 1) + B * (x - 1) + P * (y - 1) + Q * (z - 1 + B)
        = (w - 1) + B * (x - 1 + B) + P * (y - 2) + Q * (z - 1 + B)
  OBVIOUS
<1>4. (w - 1) + B * (x - 1) + P * (y - 1) + Q * (z - 1 + B)
        = (w - 1) + B * (x - 1) + P * (y - 1 + B) + Q * (z - 2 + B)
  OBVIOUS
<1> QED BY <1>1, <1>2, <1>3, <1>4

\* The test for a word with a zero byte finds exactly these words
\* (legacy/dhrystone/stdlib.c:133): the borrow of a subtraction starts at a zero
\* byte, and the first one gives itself away.
LEMMA ZeroByteFound ==
  ASSUME NEW c \in [0 .. 3 -> Chars]
  PROVE  HasZeroByte(Joined(c)) <=> \E k \in 0 .. 3 : c[k] = 0
<1> DEFINE w == c[0]  x == c[1]  y == c[2]  z == c[3]
           less == Joined(c) + Base * Weight(3) - (1 + Base + Weight(2) + Weight(3))
<1>1. w \in Chars /\ x \in Chars /\ y \in Chars /\ z \in Chars
  OBVIOUS
<1>2. HasZeroByte(Joined(c)) <=> \E k \in 0 .. 3 : Byte(less, k) >= TopBit /\ c[k] < TopBit
  BY JoinedBytes DEF HasZeroByte
<1>3. less = w + Base * x + Weight(2) * y + Weight(3) * z + Base * Weight(3) - (1 + Base + Weight(2) + Weight(3))
  BY DEF Joined
<1>4. \A k \in 0 .. 3 : k = 0 \/ k = 1 \/ k = 2 \/ k = 3
  OBVIOUS
<1>5. HasZeroByte(Joined(c)) <=>
        \/ Byte(less, 0) >= TopBit /\ w < TopBit
        \/ Byte(less, 1) >= TopBit /\ x < TopBit
        \/ Byte(less, 2) >= TopBit /\ y < TopBit
        \/ Byte(less, 3) >= TopBit /\ z < TopBit
  <2>1. 0 \in 0 .. 3 /\ 1 \in 0 .. 3 /\ 2 \in 0 .. 3 /\ 3 \in 0 .. 3
    OBVIOUS
  <2> HIDE DEF less
  <2> QED BY <1>2, <1>4, <2>1
<1>6. (\E k \in 0 .. 3 : c[k] = 0) <=> w = 0 \/ x = 0 \/ y = 0 \/ z = 0
  BY <1>4
<1> HIDE DEF w, x, y, z, less
<1>7. Base \in Nat \ {0} /\ Base = 2 * TopBit /\ TopBit \in Nat \ {0} /\ Chars = 0 .. Base - 1
  BY BaseType DEF Chars
<1>0. w \in Int /\ x \in Int /\ y \in Int /\ z \in Int
  BY <1>1, <1>7
<1>8. Weight(2) \in Nat /\ Weight(3) \in Nat /\ Base * Weight(2) = Weight(3) /\ Base * Base = Weight(2)
  BY Weights, BaseType
<1>9. /\ less = (w - 1) + Base * (x - 1) + Weight(2) * (y - 1) + Weight(3) * (z - 1 + Base)
      /\ less = (w - 1 + Base) + Base * (x - 2) + Weight(2) * (y - 1) + Weight(3) * (z - 1 + Base)
      /\ less = (w - 1) + Base * (x - 1 + Base) + Weight(2) * (y - 2) + Weight(3) * (z - 1 + Base)
      /\ less = (w - 1) + Base * (x - 1) + Weight(2) * (y - 1 + Base) + Weight(3) * (z - 2 + Base)
  <2>1. Base \in Int /\ Weight(2) \in Int /\ Weight(3) \in Int
    BY <1>7, <1>8
  <2> QED BY <1>0, <1>3, <1>8, <2>1, Differences
<1>14. /\ w - 1 \in Int /\ x - 1 \in Int /\ y - 1 \in Int /\ z - 1 + Base \in Int
       /\ w - 1 + Base \in Int /\ x - 2 \in Int
       /\ x - 1 + Base \in Int /\ y - 2 \in Int
       /\ y - 1 + Base \in Int /\ z - 2 + Base \in Int
  BY <1>0, <1>7
<1>15. /\ w - 1 \in Chars /\ x - 1 \in Chars /\ y - 1 \in Chars =>
            /\ Byte(less, 0) = w - 1 /\ Byte(less, 1) = x - 1 /\ Byte(less, 2) = y - 1
            /\ Byte(less, 3) = (z - 1 + Base) % Base
       /\ w - 1 + Base \in Chars => Byte(less, 0) = w - 1 + Base
       /\ w - 1 \in Chars /\ x - 1 + Base \in Chars => Byte(less, 1) = x - 1 + Base
       /\ w - 1 \in Chars /\ x - 1 \in Chars /\ y - 1 + Base \in Chars => Byte(less, 2) = y - 1 + Base
  BY <1>9, <1>14, BytesOf
<1>16. CASE w # 0 /\ x # 0 /\ y # 0 /\ z # 0
  <2>1. w - 1 \in Chars /\ x - 1 \in Chars /\ y - 1 \in Chars /\ z - 1 \in Chars
    BY <1>1, <1>7, <1>16
  <2>2. (z - 1 + Base) % Base = z - 1
    <3>1. z - 1 \in 0 .. Base - 1
      BY <1>7, <2>1
    <3> QED BY <1>7, <3>1, OneAbove
  <2> QED BY <1>0, <1>5, <1>6, <1>7, <1>15, <1>16, <2>1, <2>2
<1>17. CASE w = 0
  BY <1>0, <1>5, <1>6, <1>7, <1>15, <1>17
<1>18. CASE w # 0 /\ x = 0
  BY <1>0, <1>1, <1>5, <1>6, <1>7, <1>15, <1>18
<1>19. CASE w # 0 /\ x # 0 /\ y = 0
  BY <1>0, <1>1, <1>5, <1>6, <1>7, <1>15, <1>19
<1>20. CASE w # 0 /\ x # 0 /\ y # 0 /\ z = 0
  <2>1. z - 1 + Base \in 0 .. Base - 1 /\ z - 1 + Base >= TopBit
    BY <1>7, <1>20
  <2>2. (z - 1 + Base) % Base = z - 1 + Base
    BY <1>7, <2>1
  <2> QED BY <1>0, <1>1, <1>5, <1>6, <1>7, <1>15, <1>20, <2>1, <2>2
<1> QED BY <1>16, <1>17, <1>18, <1>19, <1>20

(***************************************************************************)
(* THE STRING FUNCTIONS                                                    *)
(***************************************************************************)
\* The character of a string at an index, with its terminator.
CharOf(s, k) == IF k < Len(s) THEN s[k + 1] ELSE 0

StringFns == {"strcpy", "strcmp", "memcpy"}
Cells == 0 .. 2 * Region - 1

StringType ==
  /\ call.s1 \in 0 .. 3 /\ call.s2 \in Region .. Region + 3
  /\ call.left \in Seq(Letters) /\ Len(call.left) <= MaxLength
  /\ call.right \in Seq(Letters) /\ Len(call.right) <= MaxLength
  /\ mem \in [Cells -> Chars]

\* The strings lie where they were put, the second for all functions.
SecondKept == \A k \in 0 .. Len(call.right) : mem[call.s2 + k] = CharOf(call.right, k)
FirstKept == \A k \in 0 .. Len(call.left) : mem[call.s1 + k] = CharOf(call.left, k)

\* The first i bytes are copied and no others are changed.
Copied(i) ==
  \A x \in 0 .. Region - 1 :
    mem[x] = IF x \in call.s1 .. call.s1 + i - 1 THEN mem[call.s2 + (x - call.s1)]
             ELSE IF x = call.s1 THEN 0 ELSE call.before

\* The strings do not differ before the index i.
AgreeUpTo(i) ==
  /\ i <= Len(call.left) /\ i <= Len(call.right)
  /\ \A k \in 0 .. i - 1 : CharOf(call.left, k) = CharOf(call.right, k)

\* The pointers are at the same index of the strings; what lies before it is done.
Progress ==
  \E i \in 0 .. Len(call.right) + 1 :
    /\ a = call.s1 + i /\ b = call.s2 + i
    /\ call.fn = "strcpy" => i <= Len(call.right) /\ Copied(i)
    /\ call.fn = "memcpy" => n = Len(call.right) + 1 - i /\ Copied(i)
    /\ call.fn = "strcmp" => AgreeUpTo(i)

StringInv ==
  call.fn \in StringFns =>
    /\ StringType /\ SecondKept
    /\ call.fn = "strcmp" => FirstKept
    /\ ret = Running => Progress
    /\ CopiesExactly /\ OrdersStrings

LEMMA RegionSize ==
  Region \in Nat /\ Region % 4 = 0 /\ (2 * Region) % 4 = 0 /\ MaxLength + 4 <= Region /\ MaxLength \in Nat
  BY BytesAssumption DEF Region

LEMMA AlignedFits ==
  ASSUME NEW p \in Nat, NEW end \in Nat, p % 4 = 0, end % 4 = 0, p < end
  PROVE  p + 3 < end
  OBVIOUS

LEMMA CharOfType ==
  ASSUME NEW s \in Seq(Letters), NEW k \in 0 .. Len(s)
  PROVE  CharOf(s, k) \in Chars /\ (CharOf(s, k) = 0 <=> k = Len(s))
<1>1. CASE k < Len(s)
  <2>1. s[k + 1] \in Letters
    BY <1>1
  <2>2. s[k + 1] \in 1 .. Base - 1
    BY <2>1, BytesAssumption
  <2> QED BY <1>1, <2>2, BaseType DEF CharOf, Chars
<1>2. CASE k = Len(s)
  BY <1>2, BaseType DEF CharOf, Chars
<1> QED BY <1>1, <1>2

\* The bytes of a word in memory and the test for a zero among them.
LEMMA WordBytes ==
  ASSUME NEW p \in Nat, p + 3 < 2 * Region, mem \in [Cells -> Chars]
  PROVE  /\ \A k \in 0 .. 3 : Byte(Word(p), k) = mem[p + k]
         /\ HasZeroByte(Word(p)) <=> \E k \in 0 .. 3 : mem[p + k] = 0
<1> DEFINE c == [k \in 0 .. 3 |-> mem[p + k]]
<1>1. c \in [0 .. 3 -> Chars]
  BY RegionSize DEF Cells
<1>2. Word(p) = Joined(c)
  <2>1. c[0] = mem[p] /\ c[1] = mem[p + 1] /\ c[2] = mem[p + 2] /\ c[3] = mem[p + 3]
    OBVIOUS
  <2> HIDE DEF c
  <2> QED BY <2>1 DEF Word, Joined
<1>3. \A k \in 0 .. 3 : c[k] = mem[p + k]
  OBVIOUS
<1> HIDE DEF c
<1> QED BY <1>1, <1>2, <1>3, JoinedBytes, ZeroByteFound

\* What the three functions do to the memory: m bytes are copied from the one
\* pointer to the other, within the two regions.
CopiesBytes(i, m) ==
  mem' = [x \in DOMAIN mem |-> IF x \in call.s1 + i .. call.s1 + i + m - 1
                               THEN mem[call.s2 + i + (x - (call.s1 + i))] ELSE mem[x]]

LEMMA CopyOf ==
  ASSUME NEW R \in Nat, NEW f \in [0 .. 2 * R - 1 -> Chars], NEW g,
         NEW p \in Nat, NEW q \in Int, R <= q, NEW i \in Nat, NEW m \in Nat,
         p + i + m <= R, q + i + m <= 2 * R,
         g = [x \in 0 .. 2 * R - 1 |-> IF x \in p + i .. p + i + m - 1 THEN f[q + i + (x - (p + i))] ELSE f[x]]
  PROVE  /\ g \in [0 .. 2 * R - 1 -> Chars]
         /\ \A x \in 0 .. 2 * R - 1 : x >= R => g[x] = f[x]
         /\ \A x \in 0 .. R - 1 :
              g[x] = IF x \in p + i .. p + i + m - 1 THEN f[q + (x - p)] ELSE f[x]
<1>1. ASSUME NEW x \in 0 .. 2 * R - 1
      PROVE  g[x] = IF x \in p + i .. p + i + m - 1 THEN f[q + (x - p)] ELSE f[x]
  <2>1. q + i + (x - (p + i)) = q + (x - p)
    OBVIOUS
  <2> QED BY <2>1
<1>2. ASSUME NEW x \in 0 .. 2 * R - 1
      PROVE  g[x] \in Chars
  <2>1. x \in p + i .. p + i + m - 1 => q + (x - p) \in 0 .. 2 * R - 1
    OBVIOUS
  <2> QED BY <1>1, <2>1
<1>3. g = [x \in 0 .. 2 * R - 1 |-> g[x]]
  OBVIOUS
<1>4. \A x \in 0 .. 2 * R - 1 : x >= R => g[x] = f[x]
  BY <1>1
<1>5. \A x \in 0 .. R - 1 : x \in 0 .. 2 * R - 1
  OBVIOUS
<1>6. g \in [0 .. 2 * R - 1 -> Chars]
  BY <1>2, <1>3
<1> QED BY <1>1, <1>4, <1>5, <1>6

\* A prefix of length i of what is copied, extended by m bytes.
LEMMA PrefixGrows ==
  ASSUME NEW R \in Nat, NEW f, NEW g, NEW h,
         NEW p \in Nat, NEW q \in Int, R <= q, NEW i \in Nat, NEW m \in Nat,
         p + i + m <= R, q + i + m <= 2 * R,
         \A x \in 0 .. 2 * R - 1 : x >= R => g[x] = f[x],
         \A x \in 0 .. R - 1 : g[x] = IF x \in p + i .. p + i + m - 1 THEN f[q + (x - p)] ELSE f[x],
         \A x \in 0 .. R - 1 : f[x] = IF x \in p .. p + i - 1 THEN f[q + (x - p)]
                                      ELSE IF x = p THEN 0 ELSE h
  PROVE  \A x \in 0 .. R - 1 : g[x] = IF x \in p .. p + (i + m) - 1 THEN g[q + (x - p)]
                                      ELSE IF x = p THEN 0 ELSE h
<1> SUFFICES ASSUME NEW x \in 0 .. R - 1
             PROVE  g[x] = IF x \in p .. p + (i + m) - 1 THEN g[q + (x - p)]
                           ELSE IF x = p THEN 0 ELSE h
  OBVIOUS
<1>1. ASSUME x \in p .. p + (i + m) - 1
      PROVE  g[q + (x - p)] = f[q + (x - p)]
  <2>1. q + (x - p) \in 0 .. 2 * R - 1 /\ q + (x - p) >= R
    BY <1>1
  <2> QED BY <2>1
<1>2. CASE x \in p + i .. p + i + m - 1
  <2>1. x \in p .. p + (i + m) - 1
    BY <1>2
  <2> QED BY <1>1, <1>2, <2>1
<1>3. CASE x \in p .. p + i - 1
  <2>1. x \in p .. p + (i + m) - 1 /\ x \notin p + i .. p + i + m - 1
    BY <1>3
  <2> QED BY <1>1, <1>3, <2>1
<1>4. CASE x \notin p .. p + (i + m) - 1
  <2>1. x \notin p .. p + i - 1 /\ x \notin p + i .. p + i + m - 1
    BY <1>4
  <2> QED BY <1>4, <2>1
<1>5. \/ x \in p + i .. p + i + m - 1 \/ x \in p .. p + i - 1 \/ x \notin p .. p + (i + m) - 1
  OBVIOUS
<1> QED BY <1>2, <1>3, <1>4, <1>5

LEMMA CopyGrows ==
  ASSUME StringType, SecondKept, NEW i \in Nat, NEW m \in Nat, Copied(i),
         i + m <= Len(call.right) + 1,
         CopiesBytes(i, m), call' = call
  PROVE  StringType' /\ SecondKept' /\ Copied(i + m)'
<1> DEFINE p == call.s1
           q == call.s2
           R == Region
           L == Len(call.right)
<1>1. /\ p \in 0 .. 3 /\ q \in R .. R + 3
      /\ mem \in [0 .. 2 * R - 1 -> Chars] /\ Cells = 0 .. 2 * R - 1
      /\ L \in Nat /\ L + 4 <= R /\ R \in Nat
  <2>1. /\ p \in 0 .. 3 /\ q \in R .. R + 3 /\ L <= MaxLength /\ L \in Nat
        /\ mem \in [0 .. 2 * R - 1 -> Chars] /\ Cells = 0 .. 2 * R - 1
    BY DEF StringType, Cells
  <2>2. Region \in Nat /\ MaxLength + 4 <= Region /\ MaxLength \in Nat
    BY RegionSize
  <2> HIDE DEF p, q, L
  <2> QED BY <2>1, <2>2
<1>3. mem' = [x \in 0 .. 2 * R - 1 |-> IF x \in p + i .. p + i + m - 1 THEN mem[q + i + (x - (p + i))] ELSE mem[x]]
  BY <1>1 DEF CopiesBytes
<1>4. \A x \in 0 .. R - 1 : mem[x] = IF x \in p .. p + i - 1 THEN mem[q + (x - p)]
                                     ELSE IF x = p THEN 0 ELSE call.before
  BY DEF Copied
<1>5. \A k \in 0 .. L : mem[q + k] = CharOf(call.right, k)
  BY DEF SecondKept
<1>6. p' = p /\ q' = q /\ L' = L
  OBVIOUS
<1> HIDE DEF p, q, R, L
<1>0. p \in Nat /\ q \in Int /\ R <= q /\ q <= R + 3
  BY <1>1
<1>2. p + i + m <= R /\ q + i + m <= 2 * R
  <2>1. i + m <= L + 1
    BY DEF L
  <2> QED BY <1>0, <1>1, <2>1
<1>7. /\ mem' \in [0 .. 2 * R - 1 -> Chars]
      /\ \A x \in 0 .. 2 * R - 1 : x >= R => mem'[x] = mem[x]
      /\ \A x \in 0 .. R - 1 :
           mem'[x] = IF x \in p + i .. p + i + m - 1 THEN mem[q + (x - p)] ELSE mem[x]
  BY <1>0, <1>1, <1>2, <1>3, CopyOf
<1>8. \A x \in 0 .. R - 1 : mem'[x] = IF x \in p .. p + (i + m) - 1 THEN mem'[q + (x - p)]
                                      ELSE IF x = p THEN 0 ELSE call.before
  BY <1>0, <1>1, <1>2, <1>4, <1>7, PrefixGrows
<1>9. Copied(i + m)'
  BY <1>8 DEF Copied, p, q, R
<1>10. \A k \in 0 .. L : q + k \in 0 .. 2 * R - 1 /\ q + k >= R
  BY <1>0, <1>1
<1>11. \A k \in 0 .. L : mem'[q + k] = CharOf(call.right, k)
  BY <1>5, <1>7, <1>10
<1>12. SecondKept'
  BY <1>11 DEF SecondKept, q, L
<1>13. StringType'
  BY <1>1, <1>7 DEF StringType
<1> QED BY <1>9, <1>12, <1>13

\* A copy that has got as far as the terminator is what was asked for.
LEMMA CopyDone ==
  ASSUME StringType, SecondKept, Copied(Len(call.right) + 1), ret = call.s1,
         call.fn \in {"strcpy", "memcpy"}
  PROVE  CopiesExactly
<1> DEFINE p == call.s1
           q == call.s2
           L == Len(call.right)
           R == Region
<1>1. p \in 0 .. 3 /\ q \in R .. R + 3 /\ L \in Nat /\ L + 4 <= R /\ R \in Nat
  BY RegionSize DEF StringType
<1>2. \A x \in 0 .. R - 1 : mem[x] = IF x \in p .. p + (L + 1) - 1 THEN mem[q + (x - p)]
                                     ELSE IF x = p THEN 0 ELSE call.before
  BY DEF Copied
<1>3. \A k \in 0 .. L : mem[q + k] = CharOf(call.right, k)
  BY DEF SecondKept
<1>4. call.right \in Seq(Letters) /\ DOMAIN call.right = 1 .. L
  BY DEF StringType
<1>5. Ends(p, call.right) = p + L
  BY DEF Ends
<1> HIDE DEF p, q, L, R
<1>6. ASSUME NEW x \in 0 .. R - 1
      PROVE  mem[x] = IF x \in p .. p + L THEN mem[q + (x - p)] ELSE call.before
  <2>1. p + (L + 1) - 1 = p + L /\ p \in p .. p + L
    BY <1>1
  <2>2. mem[x] = IF x \in p .. p + L THEN mem[q + (x - p)]
                 ELSE IF x = p THEN 0 ELSE call.before
    BY <1>2, <2>1
  <2> QED BY <2>1, <2>2
<1>7. ASSUME NEW k \in DOMAIN call.right
      PROVE  mem[q + k - 1] = call.right[k]
  <2>1. k \in 1 .. L /\ k - 1 \in 0 .. L /\ k - 1 < L /\ (k - 1) + 1 = k /\ q + k - 1 = q + (k - 1)
    BY <1>1, <1>4
  <2>2. CharOf(call.right, k - 1) = call.right[k]
    BY <2>1 DEF CharOf, L
  <2>3. mem[q + (k - 1)] = CharOf(call.right, k - 1)
    BY <1>3, <2>1
  <2> QED BY <2>1, <2>2, <2>3
<1> QED BY <1>5, <1>6, <1>7 DEF CopiesExactly, p, q, R

\* What a copying function needs of a step to keep the invariant.
CopyGoesOn ==
  call.fn \in {"strcpy", "memcpy"} /\ StringType /\ SecondKept /\ ret = Running /\ Progress
CopyIsOver ==
  /\ call.fn \in {"strcpy", "memcpy"} /\ StringType /\ SecondKept
  /\ Copied(Len(call.right) + 1) /\ ret = call.s1

LEMMA CopyContinues == CopyGoesOn => StringInv
<1> SUFFICES ASSUME CopyGoesOn PROVE StringInv
  OBVIOUS
<1>1. CopiesExactly /\ OrdersStrings
  BY DEF CopyGoesOn, CopiesExactly, OrdersStrings
<1> QED BY <1>1 DEF CopyGoesOn, StringInv

LEMMA CopyReturns == CopyIsOver => StringInv
<1> SUFFICES ASSUME CopyIsOver PROVE StringInv
  OBVIOUS
<1>1. ret # Running
  BY DEF CopyIsOver, StringType, Running
<1>2. OrdersStrings
  BY DEF CopyIsOver, OrdersStrings
<1> QED BY <1>1, <1>2, CopyDone DEF CopyIsOver, StringInv

LEMMA CopyKeepsInv == CopyGoesOn' \/ CopyIsOver' => StringInv'
  BY CopyContinues, CopyReturns, PTL

\* Where the pointers of a copying function are.
LEMMA CopyPlace ==
  ASSUME StringType, SecondKept, NEW i \in 0 .. Len(call.right), b = call.s2 + i
  PROVE  /\ mem[b] \in Chars /\ (mem[b] = 0 <=> i = Len(call.right))
         /\ b \in Nat /\ b >= Region /\ b < 2 * Region /\ call.s1 + i < Region
<1>1. /\ call.s1 \in 0 .. 3 /\ call.s2 \in Region .. Region + 3
      /\ Len(call.right) \in Nat /\ Len(call.right) + 4 <= Region /\ Region \in Nat
      /\ call.right \in Seq(Letters)
  <2>1. /\ call.right \in Seq(Letters) /\ Len(call.right) <= MaxLength
        /\ call.s1 \in 0 .. 3 /\ call.s2 \in Region .. Region + 3
    BY DEF StringType
  <2>2. Region \in Nat /\ MaxLength + 4 <= Region /\ MaxLength \in Nat
    BY RegionSize
  <2> QED BY <2>1, <2>2
<1>2. mem[b] = CharOf(call.right, i)
  BY DEF SecondKept
<1>3. b \in Nat /\ b >= Region /\ b < 2 * Region /\ call.s1 + i < Region
  BY <1>1
<1> QED BY <1>1, <1>2, <1>3, CharOfType

LEMMA PlacesType ==
  ASSUME StringType
  PROVE  call.s1 \in Int /\ call.s2 \in Int /\ Len(call.right) \in Nat
  BY RegionSize DEF StringType

LEMMA ByteCopied ==
  ASSUME StringType, NEW i \in Nat, a = call.s1 + i, b = call.s2 + i,
         mem' = [mem EXCEPT ![a] = mem[b]]
  PROVE  CopiesBytes(i, 1)
<1>1. call.s1 + i + 1 - 1 = call.s1 + i /\ call.s1 + i \in Int /\ call.s2 + i \in Int
  BY PlacesType
<1>2. \A x \in DOMAIN mem : x \in call.s1 + i .. call.s1 + i <=> x = call.s1 + i
  BY <1>1
<1>3. call.s2 + i + ((call.s1 + i) - (call.s1 + i)) = b
  BY <1>1
<1> QED BY <1>1, <1>2, <1>3 DEF CopiesBytes

LEMMA Advanced ==
  ASSUME StringType, NEW i \in Nat, NEW m \in Nat, a = call.s1 + i, b = call.s2 + i
  PROVE  a + m = call.s1 + (i + m) /\ b + m = call.s2 + (i + m)
  BY PlacesType

LEMMA StrcpyByteStep ==
  ASSUME StringInv, StrcpyByte
  PROVE  StringInv'
<1>1. call.fn = "strcpy" /\ StringType /\ SecondKept /\ Progress
  BY DEF StrcpyByte, StringInv, StringFns
<1>2. PICK i \in 0 .. Len(call.right) + 1 :
        a = call.s1 + i /\ b = call.s2 + i /\ i <= Len(call.right) /\ Copied(i)
  BY <1>1 DEF Progress
<1>3. i \in 0 .. Len(call.right) /\ i \in Nat
  BY <1>2
<1>4. mem[b] \in Chars /\ (mem[b] = 0 <=> i = Len(call.right)) /\ i + 1 <= Len(call.right) + 1
  BY <1>1, <1>2, <1>3, CopyPlace, PlacesType
<1>5. CopiesBytes(i, 1)
  BY <1>1, <1>2, <1>3, ByteCopied DEF StrcpyByte
<1>6. call' = call /\ a' = call.s1 + (i + 1) /\ b' = call.s2 + (i + 1)
  BY <1>1, <1>2, <1>3, Advanced DEF StrcpyByte
<1>7. StringType' /\ SecondKept' /\ Copied(i + 1)'
  BY <1>1, <1>2, <1>3, <1>4, <1>5, <1>6, CopyGrows
<1>8. CASE i = Len(call.right)
  <2>1. ret' = call.s1
    BY <1>4, <1>8 DEF StrcpyByte
  <2>2. Copied(Len(call.right) + 1)'
    BY <1>6, <1>7, <1>8
  <2> QED BY <1>1, <1>6, <1>7, <2>1, <2>2, CopyKeepsInv DEF CopyIsOver
<1>9. CASE i # Len(call.right)
  <2>1. ret' = Running
    BY <1>4, <1>9 DEF StrcpyByte
  <2>2. i + 1 \in 0 .. Len(call'.right) + 1 /\ i + 1 <= Len(call'.right)
    BY <1>1, <1>3, <1>6, <1>9, PlacesType
  <2>3. Progress'
    BY <1>1, <1>6, <1>7, <2>2 DEF Progress
  <2> QED BY <1>1, <1>6, <1>7, <2>1, <2>3, CopyKeepsInv DEF CopyGoesOn
<1> QED BY <1>8, <1>9

\* An aligned word of the source lies in the memory, and its first zero byte, if
\* it has one, is the terminator.
LEMMA SourceWord ==
  ASSUME StringType, SecondKept, NEW i \in 0 .. Len(call.right), b = call.s2 + i, b % 4 = 0
  PROVE  /\ b \in Nat /\ b + 3 < 2 * Region
         /\ \A k \in 0 .. 3 : Byte(Word(b), k) = mem[b + k]
         /\ HasZeroByte(Word(b)) <=> Len(call.right) - i \in 0 .. 3
         /\ \A k \in 0 .. 3 : i + k <= Len(call.right) => (mem[b + k] = 0 <=> i + k = Len(call.right))
<1>1. b \in Nat /\ b < 2 * Region
  BY CopyPlace
<1>2. b + 3 < 2 * Region
  <2>1. 2 * Region \in Nat /\ (2 * Region) % 4 = 0
    BY RegionSize
  <2> QED BY <1>1, <2>1, AlignedFits
<1>3. /\ \A k \in 0 .. 3 : Byte(Word(b), k) = mem[b + k]
      /\ HasZeroByte(Word(b)) <=> \E k \in 0 .. 3 : mem[b + k] = 0
  BY <1>1, <1>2, WordBytes DEF StringType
<1>4. ASSUME NEW k \in 0 .. 3, i + k <= Len(call.right)
      PROVE  mem[b + k] = 0 <=> i + k = Len(call.right)
  <2>0. Len(call.right) \in Nat /\ call.s2 \in Int /\ i \in Nat
    BY PlacesType
  <2>1. i + k \in 0 .. Len(call.right) /\ b + k = call.s2 + (i + k)
    BY <1>4, <2>0
  <2>2. mem[b + k] = CharOf(call.right, i + k)
    BY <2>1 DEF SecondKept
  <2>3. call.right \in Seq(Letters)
    BY DEF StringType
  <2> QED BY <2>1, <2>2, <2>3, CharOfType
<1>5. (\E k \in 0 .. 3 : mem[b + k] = 0) <=> Len(call.right) - i \in 0 .. 3
  <2>1. Len(call.right) \in Nat
    BY PlacesType
  <2>2. ASSUME Len(call.right) - i \in 0 .. 3
        PROVE  \E k \in 0 .. 3 : mem[b + k] = 0
    <3>1. i + (Len(call.right) - i) = Len(call.right) /\ i + (Len(call.right) - i) <= Len(call.right)
      BY <2>1
    <3> QED BY <1>4, <2>2, <3>1
  <2>3. ASSUME NEW k \in 0 .. 3, mem[b + k] = 0, Len(call.right) - i \notin 0 .. 3
        PROVE  FALSE
    <3>1. i + k <= Len(call.right) /\ i + k # Len(call.right)
      BY <2>1, <2>3
    <3> QED BY <1>4, <2>3, <3>1
  <2> QED BY <2>2, <2>3
<1> QED BY <1>1, <1>2, <1>3, <1>4, <1>5

LEMMA StrcpyWordStep ==
  ASSUME StringInv, StrcpyWord
  PROVE  StringInv'
<1>1. call.fn = "strcpy" /\ StringType /\ SecondKept /\ Progress
  BY DEF StrcpyWord, StringInv, StringFns
<1>2. PICK i \in 0 .. Len(call.right) + 1 :
        a = call.s1 + i /\ b = call.s2 + i /\ i <= Len(call.right) /\ Copied(i)
  BY <1>1 DEF Progress
<1>3. i \in 0 .. Len(call.right) /\ i \in Nat /\ 4 \in Nat /\ b % 4 = 0
  BY <1>2 DEF StrcpyWord, Aligned
<1>4. i + 4 <= Len(call.right)
  <2>1. Len(call.right) - i \notin 0 .. 3
    BY <1>1, <1>2, <1>3, SourceWord DEF StrcpyWord
  <2> QED BY <1>1, <1>3, <2>1, PlacesType
<1>5. i + 4 <= Len(call.right) + 1
  BY <1>1, <1>3, <1>4, PlacesType
<1>6. CopiesBytes(i, 4)
  <2>1. call.s1 + i + 4 - 1 = a + 3
    BY <1>1, <1>2, <1>3, PlacesType
  <2> QED BY <1>2, <2>1 DEF StrcpyWord, CopiesBytes
<1>7. call' = call /\ a' = call.s1 + (i + 4) /\ b' = call.s2 + (i + 4) /\ ret' = Running
  BY <1>1, <1>2, <1>3, Advanced DEF StrcpyWord
<1>8. StringType' /\ SecondKept' /\ Copied(i + 4)'
  BY <1>1, <1>2, <1>3, <1>5, <1>6, <1>7, CopyGrows
<1>9. i + 4 \in 0 .. Len(call'.right) + 1 /\ i + 4 <= Len(call'.right)
  BY <1>1, <1>3, <1>4, <1>7, PlacesType
<1>10. Progress'
  BY <1>1, <1>7, <1>8, <1>9 DEF Progress
<1> QED BY <1>1, <1>7, <1>8, <1>10, CopyKeepsInv DEF CopyGoesOn

LEMMA StrcpyTailStep ==
  ASSUME StringInv, StrcpyTail
  PROVE  StringInv'
<1>1. call.fn = "strcpy" /\ StringType /\ SecondKept /\ Progress
  BY DEF StrcpyTail, StringInv, StringFns
<1>2. PICK i \in 0 .. Len(call.right) + 1 :
        a = call.s1 + i /\ b = call.s2 + i /\ i <= Len(call.right) /\ Copied(i)
  BY <1>1 DEF Progress
<1>3. i \in 0 .. Len(call.right) /\ i \in Nat /\ b % 4 = 0
  BY <1>2 DEF StrcpyTail, Aligned
<1> DEFINE v == Word(b)
           d == Len(call.right) - i
           end(k) == /\ k = 3 \/ Byte(v, k) = 0
                     /\ \A j \in 0 .. k - 1 : Byte(v, j) # 0
           last == CHOOSE k \in 0 .. 3 : end(k)
<1>4. /\ d \in 0 .. 3
      /\ \A k \in 0 .. 3 : Byte(v, k) = mem[b + k]
      /\ \A k \in 0 .. 3 : i + k <= Len(call.right) => (mem[b + k] = 0 <=> i + k = Len(call.right))
  BY <1>1, <1>2, <1>3, SourceWord DEF StrcpyTail
<1>5. /\ mem' = [x \in DOMAIN mem |-> IF x \in a .. a + last THEN Byte(v, x - a) ELSE mem[x]]
      /\ ret' = call.s1 /\ call' = call
  BY DEF StrcpyTail
<1>6. Len(call.right) \in Nat /\ call.s1 \in Int /\ call.s2 \in Int
  BY <1>1, PlacesType
<1>7. last = d
  <2>1. Byte(v, d) = 0 /\ \A j \in 0 .. d - 1 : Byte(v, j) # 0
    <3>1. i + d = Len(call.right) /\ \A j \in 0 .. d - 1 : j \in 0 .. 3 /\ i + j < Len(call.right)
      BY <1>3, <1>4, <1>6
    <3> HIDE DEF d
    <3> QED BY <1>3, <1>4, <1>6, <3>1
  <2>2. end(d)
    BY <2>1
  <2>3. ASSUME NEW k \in 0 .. 3, end(k)
        PROVE  k = d
    <3> HIDE DEF d
    <3> QED BY <1>4, <2>1, <2>3
  <2> HIDE DEF end
  <2> QED BY <1>4, <2>2, <2>3
<1> HIDE DEF last, d, v
<1>8. CopiesBytes(i, d + 1)
  <2>1. call.s1 + i + (d + 1) - 1 = a + d /\ a \in Int
    <3>1. PICK p \in Int : p = call.s1
      BY <1>6
    <3>2. p + i + (d + 1) - 1 = (p + i) + d /\ p + i \in Int /\ a = p + i
      BY <1>2, <1>3, <1>4, <3>1
    <3> QED BY <3>1, <3>2
  <2>2. ASSUME NEW x \in a .. a + d
        PROVE  Byte(v, x - a) = mem[b + (x - a)]
    <3>1. x - a \in 0 .. 3
      BY <1>4, <2>1
    <3> QED BY <1>4, <3>1
  <2>3. call.s2 + i = b /\ call.s1 + i = a
    BY <1>2
  <2> QED BY <1>5, <1>7, <2>1, <2>2, <2>3 DEF CopiesBytes
<1>9. i + (d + 1) = Len(call.right) + 1 /\ d + 1 \in Nat
  BY <1>3, <1>4, <1>6 DEF d
<1>10. i + (d + 1) <= Len(call.right) + 1
  <2>1. PICK L \in Nat : L = Len(call.right)
    BY <1>6
  <2> QED BY <1>9, <2>1
<1>13. PICK m \in Nat : m = d + 1
  BY <1>9
<1>11. StringType' /\ SecondKept' /\ Copied(i + m)'
  BY <1>1, <1>2, <1>3, <1>5, <1>8, <1>10, <1>13, CopyGrows
<1>12. Copied(Len(call.right) + 1)'
  BY <1>5, <1>9, <1>11, <1>13
<1> QED BY <1>1, <1>5, <1>11, <1>12, CopyKeepsInv DEF CopyIsOver

LEMMA MemcpyByteStep ==
  ASSUME StringInv, MemcpyByte
  PROVE  StringInv'
<1>1. call.fn = "memcpy" /\ StringType /\ SecondKept /\ Progress
  BY DEF MemcpyByte, StringInv, StringFns
<1>2. PICK i \in 0 .. Len(call.right) + 1 :
        a = call.s1 + i /\ b = call.s2 + i /\ n = Len(call.right) + 1 - i /\ Copied(i)
  BY <1>1 DEF Progress
<1>3. i \in 0 .. Len(call.right) /\ i \in Nat
  BY <1>1, <1>2, PlacesType DEF MemcpyByte
<1>4. i + 1 <= Len(call.right) + 1
  BY <1>1, <1>3, PlacesType
<1>5. CopiesBytes(i, 1)
  BY <1>1, <1>2, <1>3, ByteCopied DEF MemcpyByte
<1>6. call' = call /\ a' = call.s1 + (i + 1) /\ b' = call.s2 + (i + 1) /\ ret' = Running
  BY <1>1, <1>2, <1>3, Advanced DEF MemcpyByte
<1>7. StringType' /\ SecondKept' /\ Copied(i + 1)'
  BY <1>1, <1>2, <1>3, <1>4, <1>5, <1>6, CopyGrows
<1>8. i + 1 \in 0 .. Len(call'.right) + 1 /\ n' = Len(call'.right) + 1 - (i + 1)
  <2>1. PICK L \in Nat : L = Len(call.right)
    BY <1>1, PlacesType
  <2>2. i + 1 \in 0 .. L + 1 /\ n' = L + 1 - (i + 1)
    BY <1>2, <1>3, <2>1 DEF MemcpyByte
  <2> QED BY <1>6, <2>1, <2>2
<1>9. Progress'
  BY <1>1, <1>6, <1>7, <1>8 DEF Progress
<1> QED BY <1>1, <1>6, <1>7, <1>9, CopyKeepsInv DEF CopyGoesOn

LEMMA MemcpyReturnStep ==
  ASSUME StringInv, MemcpyReturn
  PROVE  StringInv'
<1>1. call.fn = "memcpy" /\ StringType /\ SecondKept /\ Progress
  BY DEF MemcpyReturn, StringInv, StringFns
<1>2. PICK i \in 0 .. Len(call.right) + 1 : n = Len(call.right) + 1 - i /\ Copied(i)
  BY <1>1 DEF Progress
<1>3. i = Len(call.right) + 1
  BY <1>1, <1>2, PlacesType DEF MemcpyReturn
<1>4. call' = call /\ mem' = mem /\ ret' = call.s1
  BY DEF MemcpyReturn
<1>5. StringType' /\ SecondKept' /\ Copied(Len(call.right) + 1)'
  BY <1>1, <1>2, <1>3, <1>4 DEF StringType, SecondKept, Copied
<1> QED BY <1>1, <1>4, <1>5, CopyKeepsInv DEF CopyIsOver

(***************************************************************************)
(* strcmp                                                                  *)
(***************************************************************************)
LEMMA LettersType == Letters \subseteq Int
<1>1. Letters \subseteq 1 .. Base - 1
  BY BytesAssumption
<1> QED BY <1>1, BaseType

LEMMA SameString ==
  ASSUME NEW l \in Seq(Letters), NEW r \in Seq(Letters), Len(l) = Len(r),
         \A k \in 1 .. Len(l) : l[k] = r[k]
  PROVE  l = r
<1>1. l = [k \in 1 .. Len(l) |-> l[k]] /\ r = [k \in 1 .. Len(r) |-> r[k]]
  OBVIOUS
<1> QED BY <1>1

LEMMA StrictPrefix ==
  ASSUME NEW l \in Seq(Letters), NEW r \in Seq(Letters)
  PROVE  IsStrictPrefix(l, r) <=> Len(l) < Len(r) /\ \A k \in 1 .. Len(l) : l[k] = r[k]
<1>1. Len(l) \in Nat /\ Len(r) \in Nat
  OBVIOUS
<1>2. SubSeq(l, 1, Len(l)) \in Seq(Letters) /\ Len(SubSeq(l, 1, Len(l))) = Len(l)
  BY <1>1
<1>3. \A k \in 1 .. Len(l) : SubSeq(l, 1, Len(l))[k] = l[k]
  BY <1>1
<1>4. ASSUME Len(l) <= Len(r)
      PROVE  /\ SubSeq(r, 1, Len(l)) \in Seq(Letters) /\ Len(SubSeq(r, 1, Len(l))) = Len(l)
             /\ \A k \in 1 .. Len(l) : SubSeq(r, 1, Len(l))[k] = r[k]
  BY <1>1, <1>4
<1>5. ASSUME IsStrictPrefix(l, r)
      PROVE  Len(l) < Len(r) /\ \A k \in 1 .. Len(l) : l[k] = r[k]
  <2>1. Len(l) <= Len(r) /\ SubSeq(l, 1, Len(l)) = SubSeq(r, 1, Len(l)) /\ l # r
    BY <1>5 DEF IsStrictPrefix, IsPrefix
  <2>2. \A k \in 1 .. Len(l) : l[k] = r[k]
    BY <1>3, <1>4, <2>1
  <2>3. Len(l) # Len(r)
    BY <2>1, <2>2, SameString
  <2> QED BY <1>1, <2>1, <2>2, <2>3
<1>6. ASSUME Len(l) < Len(r), \A k \in 1 .. Len(l) : l[k] = r[k]
      PROVE  IsStrictPrefix(l, r)
  <2>1. Len(l) <= Len(r) /\ l # r
    BY <1>1, <1>6
  <2>2. SubSeq(l, 1, Len(l)) = SubSeq(r, 1, Len(l))
    BY <1>1, <1>2, <1>3, <1>4, <1>6, <2>1, SameString
  <2> QED BY <2>1, <2>2 DEF IsStrictPrefix, IsPrefix
<1> QED BY <1>5, <1>6

\* The characters, counted from 0, decide the order of two strings at the first
\* place where they differ, the terminator being the smallest character.
LEMMA FirstDifference ==
  ASSUME NEW l \in Seq(Letters), NEW r \in Seq(Letters),
         NEW i \in Nat, i <= Len(l), i <= Len(r),
         \A k \in 0 .. i - 1 : CharOf(l, k) = CharOf(r, k), CharOf(l, i) # CharOf(r, i)
  PROVE  l # r /\ (Smaller(l, r) <=> CharOf(l, i) < CharOf(r, i))
<1>1. Len(l) \in Nat /\ Len(r) \in Nat /\ DOMAIN l = 1 .. Len(l) /\ DOMAIN r = 1 .. Len(r)
  OBVIOUS
<1>2. i \in 0 .. Len(l) /\ i \in 0 .. Len(r)
  BY <1>1
<1>3. /\ CharOf(l, i) \in Nat /\ (CharOf(l, i) = 0 <=> i = Len(l))
      /\ CharOf(r, i) \in Nat /\ (CharOf(r, i) = 0 <=> i = Len(r))
  BY <1>2, CharOfType, BaseType DEF Chars
<1>4. \A j \in 1 .. i : l[j] = r[j]
  <2>1. ASSUME NEW j \in 1 .. i
        PROVE  l[j] = r[j]
    <3>1. j - 1 \in 0 .. i - 1 /\ j - 1 < Len(l) /\ j - 1 < Len(r) /\ (j - 1) + 1 = j
      BY <1>1
    <3>2. CharOf(l, j - 1) = l[j] /\ CharOf(r, j - 1) = r[j]
      BY <3>1 DEF CharOf
    <3> QED BY <3>1, <3>2
  <2> QED BY <2>1
<1>5. /\ i < Len(l) => CharOf(l, i) = l[i + 1]
      /\ i < Len(r) => CharOf(r, i) = r[i + 1]
  BY DEF CharOf
<1>6. /\ i < Len(l) \/ i = Len(l)
      /\ i < Len(r) \/ i = Len(r)
      /\ CharOf(l, i) < CharOf(r, i) => i < Len(r)
      /\ i = Len(l) /\ i < Len(r) => CharOf(l, i) < CharOf(r, i)
  <2>1. PICK L \in Nat, R \in Nat, x \in Nat, y \in Nat :
          L = Len(l) /\ R = Len(r) /\ x = CharOf(l, i) /\ y = CharOf(r, i)
    BY <1>1, <1>3
  <2>2. i <= L /\ i <= R /\ (x = 0 <=> i = L) /\ (y = 0 <=> i = R)
    BY <1>3, <2>1
  <2>3. /\ i < L \/ i = L
        /\ i < R \/ i = R
        /\ x < y => i < R
        /\ i = L /\ i < R => x < y
    BY <2>2
  <2> QED BY <2>1, <2>3
<1>7. ASSUME CharOf(l, i) < CharOf(r, i)
      PROVE  Smaller(l, r)
  <2>1. i < Len(r)
    BY <1>6, <1>7
  <2>2. CASE i = Len(l)
    BY <1>1, <1>4, <2>1, <2>2, StrictPrefix DEF Smaller
  <2>3. CASE i < Len(l)
    <3>1. i + 1 \in DOMAIN l \cap DOMAIN r /\ l[i + 1] < r[i + 1] /\ \A j \in 1 .. (i + 1) - 1 : l[j] = r[j]
      BY <1>1, <1>4, <1>5, <1>7, <2>1, <2>3
    <3> QED BY <3>1 DEF Smaller
  <2> QED BY <1>6, <2>2, <2>3
<1>8. ASSUME Smaller(l, r)
      PROVE  CharOf(l, i) < CharOf(r, i)
  <2>1. CASE IsStrictPrefix(l, r)
    <3>1. Len(l) < Len(r) /\ \A k \in 1 .. Len(l) : l[k] = r[k]
      BY <2>1, StrictPrefix
    <3>2. i = Len(l)
      <4>1. ASSUME i < Len(l) PROVE FALSE
        <5>1. i + 1 \in 1 .. Len(l) /\ i < Len(r)
          BY <1>1, <3>1, <4>1
        <5>2. l[i + 1] = r[i + 1] /\ CharOf(l, i) = l[i + 1] /\ CharOf(r, i) = r[i + 1]
          BY <1>5, <3>1, <4>1, <5>1
        <5> QED BY <5>2
      <4> QED BY <1>6, <4>1
    <3> QED BY <1>6, <3>1, <3>2
  <2>2. CASE \E k \in DOMAIN l \cap DOMAIN r : l[k] < r[k] /\ \A j \in 1 .. k - 1 : l[j] = r[j]
    <3>1. PICK k \in DOMAIN l \cap DOMAIN r : l[k] < r[k] /\ \A j \in 1 .. k - 1 : l[j] = r[j]
      BY <2>2
    <3>2. k \in Nat /\ k >= 1 /\ k <= Len(l) /\ k <= Len(r)
      BY <1>1, <3>1
    <3>3. ~(k <= i)
      <4>1. ASSUME k <= i PROVE FALSE
        <5>1. k \in 1 .. i
          BY <3>2, <4>1
        <5>2. l[k] = r[k] /\ l[k] \in Letters
          BY <1>1, <1>4, <3>1, <5>1
        <5>3. l[k] \in Int
          BY <5>2, LettersType
        <5> QED BY <3>1, <5>2, <5>3
      <4> QED BY <4>1
    <3>4. ~(i + 1 < k)
      <4>1. ASSUME i + 1 < k PROVE FALSE
        <5>1. i + 1 \in 1 .. k - 1 /\ i < Len(l) /\ i < Len(r)
          BY <3>2, <4>1
        <5> QED BY <1>5, <3>1, <5>1
      <4> QED BY <4>1
    <3>5. k = i + 1 /\ i < Len(l) /\ i < Len(r)
      BY <1>1, <3>2, <3>3, <3>4
    <3> QED BY <1>5, <3>1, <3>5
  <2> QED BY <1>8, <2>1, <2>2 DEF Smaller
<1> QED BY <1>7, <1>8

LEMMA NoDifference ==
  ASSUME NEW l \in Seq(Letters), NEW r \in Seq(Letters),
         NEW i \in Nat, i <= Len(l), i <= Len(r),
         \A k \in 0 .. i - 1 : CharOf(l, k) = CharOf(r, k), CharOf(l, i) = 0, CharOf(r, i) = 0
  PROVE  l = r
<1>1. Len(l) \in Nat /\ Len(r) \in Nat
  OBVIOUS
<1>2. i \in 0 .. Len(l) /\ i \in 0 .. Len(r)
  BY <1>1
<1>3. i = Len(l) /\ i = Len(r)
  BY <1>2, CharOfType
<1>4. ASSUME NEW j \in 1 .. Len(l)
      PROVE  l[j] = r[j]
  <2>1. j - 1 \in 0 .. i - 1 /\ j - 1 < Len(l) /\ j - 1 < Len(r) /\ (j - 1) + 1 = j
    BY <1>1, <1>3
  <2>2. CharOf(l, j - 1) = l[j] /\ CharOf(r, j - 1) = r[j]
    BY <2>1 DEF CharOf
  <2> QED BY <2>1, <2>2
<1> QED BY <1>3, <1>4, SameString

LEMMA NotSmaller ==
  ASSUME NEW s \in Seq(Letters)
  PROVE  ~Smaller(s, s)
<1>1. ~IsStrictPrefix(s, s)
  BY DEF IsStrictPrefix
<1>2. \A k \in DOMAIN s : s[k] \in Int
  <2>1. \A k \in DOMAIN s : s[k] \in Letters
    OBVIOUS
  <2> QED BY <2>1, LettersType
<1>3. \A k \in DOMAIN s : ~(s[k] < s[k])
  BY <1>2
<1> QED BY <1>1, <1>3 DEF Smaller

\* The strings lie in the memory, as at every step of strcmp.
StringsKept == call.fn = "strcmp" /\ StringType /\ FirstKept /\ SecondKept

\* What strcmp needs of a step to keep the invariant.
CompareGoesOn == StringsKept /\ ret = Running /\ Progress
CompareIsOver == StringsKept /\ ret # Running /\ OrdersStrings

LEMMA CompareContinues == CompareGoesOn => StringInv
<1> SUFFICES ASSUME CompareGoesOn PROVE StringInv
  OBVIOUS
<1>1. CopiesExactly /\ OrdersStrings
  BY DEF CompareGoesOn, StringsKept, CopiesExactly, OrdersStrings
<1> QED BY <1>1 DEF CompareGoesOn, StringsKept, StringInv

LEMMA CompareReturns == CompareIsOver => StringInv
<1> SUFFICES ASSUME CompareIsOver PROVE StringInv
  OBVIOUS
<1>1. CopiesExactly
  BY DEF CompareIsOver, StringsKept, CopiesExactly
<1> QED BY <1>1 DEF CompareIsOver, StringsKept, StringInv

LEMMA CompareKeepsInv == CompareGoesOn' \/ CompareIsOver' => StringInv'
  BY CompareContinues, CompareReturns, PTL

LEMMA StringTypes ==
  ASSUME StringType
  PROVE  /\ call.s1 \in 0 .. 3 /\ call.s2 \in Region .. Region + 3
         /\ call.left \in Seq(Letters) /\ Len(call.left) \in Nat /\ Len(call.left) + 4 <= Region
         /\ call.right \in Seq(Letters) /\ Len(call.right) \in Nat /\ Len(call.right) + 4 <= Region
         /\ Region \in Nat
<1>1. /\ call.right \in Seq(Letters) /\ Len(call.right) <= MaxLength
      /\ call.left \in Seq(Letters) /\ Len(call.left) <= MaxLength
      /\ call.s1 \in 0 .. 3 /\ call.s2 \in Region .. Region + 3
  BY DEF StringType
<1>2. Region \in Nat /\ MaxLength + 4 <= Region /\ MaxLength \in Nat
  BY RegionSize
<1> QED BY <1>1, <1>2

\* A step that goes on to the index i.
LEMMA Advances ==
  ASSUME StringsKept, NEW i \in Nat, AgreeUpTo(i),
         call' = call, mem' = mem, ret' = Running, a' = call.s1 + i, b' = call.s2 + i
  PROVE  StringInv'
<1>1. StringsKept' /\ AgreeUpTo(i)'
  BY DEF StringsKept, StringType, FirstKept, SecondKept, AgreeUpTo
<1>2. i \in 0 .. Len(call'.right) + 1
  <2>1. Len(call.right) \in Nat /\ i <= Len(call.right)
    BY StringTypes DEF StringsKept, AgreeUpTo
  <2> QED BY <2>1
<1>3. Progress'
  BY <1>1, <1>2 DEF Progress, StringsKept
<1> QED BY <1>1, <1>3, CompareKeepsInv DEF CompareGoesOn

\* A step that compares the characters at the index i and returns.
LEMMA Returns ==
  ASSUME StringsKept, NEW i \in Nat, AgreeUpTo(i), call' = call, mem' = mem,
         CharOf(call.left, i) # CharOf(call.right, i) \/ CharOf(call.left, i) = 0,
         ret' = IF CharOf(call.left, i) # CharOf(call.right, i)
                THEN Order(CharOf(call.left, i), CharOf(call.right, i)) ELSE 0
  PROVE  StringInv'
<1>1. StringsKept' 
  BY DEF StringsKept, StringType, FirstKept, SecondKept
<1>2. /\ call.left \in Seq(Letters) /\ call.right \in Seq(Letters)
      /\ i <= Len(call.left) /\ i <= Len(call.right)
      /\ \A k \in 0 .. i - 1 : CharOf(call.left, k) = CharOf(call.right, k)
  BY DEF StringsKept, StringType, AgreeUpTo
<1>3. CASE CharOf(call.left, i) # CharOf(call.right, i)
  <2>1. call.left # call.right
        /\ (Smaller(call.left, call.right) <=> CharOf(call.left, i) < CharOf(call.right, i))
    BY <1>2, <1>3, FirstDifference
  <2>2. ret' = IF Smaller(call.left, call.right) THEN -1 ELSE 1
    BY <1>3, <2>1 DEF Order
  <2>3. OrdersStrings' /\ ret' # Running
    BY <2>1, <2>2 DEF OrdersStrings, Running
  <2> QED BY <1>1, <2>3, CompareKeepsInv DEF CompareIsOver, Running
<1>4. CASE CharOf(call.left, i) = CharOf(call.right, i)
  <2>1. call.left = call.right
    BY <1>2, <1>4, NoDifference
  <2>2. ~Smaller(call.left, call.right) /\ ret' = 0
    BY <1>2, <1>4, <2>1, NotSmaller
  <2>3. OrdersStrings' /\ ret' # Running
    BY <2>1, <2>2 DEF OrdersStrings, Running
  <2> QED BY <1>1, <2>3, CompareKeepsInv DEF CompareIsOver, Running
<1> QED BY <1>3, <1>4

\* The bytes at the pointers, from the index i on.
LEMMA ComparedBytes ==
  ASSUME StringsKept, NEW i \in Nat, AgreeUpTo(i), a = call.s1 + i, b = call.s2 + i
  PROVE  /\ a \in Nat /\ b \in Nat /\ a < Region /\ b < 2 * Region
         /\ \A k \in Nat : i + k <= Len(call.left) => mem[a + k] = CharOf(call.left, i + k)
         /\ \A k \in Nat : i + k <= Len(call.right) => mem[b + k] = CharOf(call.right, i + k)
<1>1. /\ call.s1 \in 0 .. 3 /\ call.s2 \in Region .. Region + 3
      /\ Len(call.left) \in Nat /\ Len(call.left) + 4 <= Region
      /\ Len(call.right) \in Nat /\ Len(call.right) + 4 <= Region
      /\ Region \in Nat
  BY StringTypes DEF StringsKept
<1>2. i <= Len(call.left) /\ i <= Len(call.right)
  BY DEF AgreeUpTo
<1> DEFINE p == call.s1
           q == call.s2
           L == Len(call.left)
           R == Len(call.right)
<1>6. /\ p \in Int /\ q \in Int /\ p \in 0 .. 3 /\ q \in Region .. Region + 3
      /\ L \in Nat /\ L + 4 <= Region /\ R \in Nat /\ R + 4 <= Region /\ Region \in Nat
      /\ i <= L /\ i <= R /\ a = p + i /\ b = q + i
  <2>1. p \in Int /\ q \in Int
    BY PlacesType DEF StringsKept
  <2> QED BY <1>1, <1>2, <2>1
<1>3. a \in Nat /\ b \in Nat /\ a < Region /\ b < 2 * Region
  <2> HIDE DEF p, q, L, R
  <2> QED BY <1>6
<1>4. ASSUME NEW k \in Nat, i + k <= Len(call.left)
      PROVE  mem[a + k] = CharOf(call.left, i + k)
  <2>1. i + k \in 0 .. L /\ a + k = p + (i + k)
    <3>1. i + k <= L
      BY <1>4
    <3> HIDE DEF p, q, L, R
    <3> QED BY <1>6, <3>1
  <2> QED BY <2>1 DEF StringsKept, FirstKept
<1>5. ASSUME NEW k \in Nat, i + k <= Len(call.right)
      PROVE  mem[b + k] = CharOf(call.right, i + k)
  <2>1. i + k \in 0 .. R /\ b + k = q + (i + k)
    <3>1. i + k <= R
      BY <1>5
    <3> HIDE DEF p, q, L, R
    <3> QED BY <1>6, <3>1
  <2> QED BY <2>1 DEF StringsKept, SecondKept
<1> QED BY <1>3, <1>4, <1>5

LEMMA ComparedWords ==
  ASSUME StringsKept, NEW i \in Nat, AgreeUpTo(i), a = call.s1 + i, b = call.s2 + i, Aligned
  PROVE  /\ \A k \in 0 .. 3 : Byte(Word(a), k) = mem[a + k] /\ Byte(Word(b), k) = mem[b + k]
         /\ HasZeroByte(Word(a)) <=> \E k \in 0 .. 3 : mem[a + k] = 0
<1>1. a \in Nat /\ b \in Nat /\ a < Region /\ b < 2 * Region
  BY ComparedBytes
<1>2. Region \in Nat /\ Region % 4 = 0 /\ 2 * Region \in Nat /\ (2 * Region) % 4 = 0
  BY RegionSize
<1>3. a + 3 < Region
  BY <1>1, <1>2, AlignedFits DEF Aligned
<1>4. b + 3 < 2 * Region
  <2>1. PICK R \in Nat : R = 2 * Region
    BY <1>2
  <2>2. b + 3 < R
    BY <1>1, <1>2, <2>1, AlignedFits DEF Aligned
  <2> QED BY <2>1, <2>2
<1>5. a + 3 < 2 * Region
  BY <1>1, <1>2, <1>3
<1> QED BY <1>1, <1>4, <1>5, WordBytes DEF StringsKept, StringType

LEMMA AgreesFurther ==
  ASSUME StringType, NEW j \in Nat, AgreeUpTo(j),
         CharOf(call.left, j) = CharOf(call.right, j), CharOf(call.left, j) # 0
  PROVE  AgreeUpTo(j + 1)
<1>1. /\ call.left \in Seq(Letters) /\ call.right \in Seq(Letters)
      /\ Len(call.left) \in Nat /\ Len(call.right) \in Nat
  BY StringTypes
<1>2. j <= Len(call.left) /\ j <= Len(call.right) /\ j \in 0 .. Len(call.left) /\ j \in 0 .. Len(call.right)
  BY <1>1 DEF AgreeUpTo
<1>3. j # Len(call.left) /\ j # Len(call.right)
  BY <1>1, <1>2, CharOfType
<1>4. j + 1 <= Len(call.left) /\ j + 1 <= Len(call.right)
  BY <1>1, <1>2, <1>3
<1>5. \A k \in 0 .. (j + 1) - 1 : k \in 0 .. j - 1 \/ k = j
  OBVIOUS
<1> QED BY <1>4, <1>5 DEF AgreeUpTo

\* Bytes that are equal and no terminators take the comparison further.
LEMMA AgreesAlong ==
  ASSUME StringsKept, NEW i \in Nat, AgreeUpTo(i), a = call.s1 + i, b = call.s2 + i,
         NEW m \in 0 .. 4, \A k \in 0 .. m - 1 : mem[a + k] = mem[b + k] /\ mem[a + k] # 0
  PROVE  AgreeUpTo(i + m)
<1>1. ASSUME NEW k \in 0 .. m - 1, AgreeUpTo(i + k)
      PROVE  AgreeUpTo(i + k + 1)
  <2>1. k \in Nat /\ i + k \in Nat /\ i + k <= Len(call.left) /\ i + k <= Len(call.right)
    BY <1>1 DEF AgreeUpTo
  <2>2. CharOf(call.left, i + k) = CharOf(call.right, i + k) /\ CharOf(call.left, i + k) # 0
    BY <2>1, ComparedBytes
  <2>3. PICK j \in Nat : j = i + k
    BY <2>1
  <2>4. AgreeUpTo(j + 1)
    BY <1>1, <2>2, <2>3, AgreesFurther DEF StringsKept
  <2> QED BY <2>3, <2>4
<1>2. i + 0 = i /\ i + 0 + 1 = i + 1 /\ i + 1 + 1 = i + 2 /\ i + 2 + 1 = i + 3 /\ i + 3 + 1 = i + 4
  OBVIOUS
<1>3. AgreeUpTo(i + 0)
  BY <1>2
<1>4. m > 0 => AgreeUpTo(i + 1)
  <2>1. m > 0 => 0 \in 0 .. m - 1
    OBVIOUS
  <2> QED BY <1>1, <1>2, <1>3, <2>1
<1>5. m > 1 => AgreeUpTo(i + 2)
  <2>1. m > 1 => 1 \in 0 .. m - 1 /\ m > 0
    OBVIOUS
  <2> QED BY <1>1, <1>2, <1>4, <2>1
<1>6. m > 2 => AgreeUpTo(i + 3)
  <2>1. m > 2 => 2 \in 0 .. m - 1 /\ m > 1
    OBVIOUS
  <2> QED BY <1>1, <1>2, <1>5, <2>1
<1>7. m > 3 => AgreeUpTo(i + 4)
  <2>1. m > 3 => 3 \in 0 .. m - 1 /\ m > 2
    OBVIOUS
  <2> QED BY <1>1, <1>2, <1>6, <2>1
<1>8. m = 0 \/ m = 1 \/ m = 2 \/ m = 3 \/ m = 4
  OBVIOUS
<1> QED BY <1>3, <1>4, <1>5, <1>6, <1>7, <1>8

LEMMA StrcmpByteStep ==
  ASSUME StringInv, StrcmpByte
  PROVE  StringInv'
<1>1. StringsKept /\ Progress
  BY DEF StrcmpByte, StringInv, StringFns, StringsKept
<1>2. PICK i \in 0 .. Len(call.right) + 1 : a = call.s1 + i /\ b = call.s2 + i /\ AgreeUpTo(i)
  BY <1>1 DEF Progress, StringsKept
<1>3. i \in Nat
  BY <1>2
<1>4. mem[a] = CharOf(call.left, i) /\ mem[b] = CharOf(call.right, i)
  <2>1. 0 \in Nat /\ i + 0 = i /\ i <= Len(call.left) /\ i <= Len(call.right)
    BY <1>2, <1>3 DEF AgreeUpTo
  <2>2. a \in Nat /\ b \in Nat /\ mem[a + 0] = CharOf(call.left, i) /\ mem[b + 0] = CharOf(call.right, i)
    BY <1>1, <1>2, <1>3, <2>1, ComparedBytes
  <2>3. a + 0 = a /\ b + 0 = b
    BY <2>2
  <2> QED BY <2>2, <2>3
<1>5. /\ ret' = IF CharOf(call.left, i) # CharOf(call.right, i)
                THEN Order(CharOf(call.left, i), CharOf(call.right, i))
                ELSE IF CharOf(call.left, i) = 0 THEN 0 ELSE Running
      /\ call' = call /\ mem' = mem /\ a' = a + 1 /\ b' = b + 1
  BY <1>4 DEF StrcmpByte
<1>6. CASE CharOf(call.left, i) # CharOf(call.right, i) \/ CharOf(call.left, i) = 0
  BY <1>1, <1>2, <1>3, <1>5, <1>6, Returns
<1>7. CASE CharOf(call.left, i) = CharOf(call.right, i) /\ CharOf(call.left, i) # 0
  <2>4. 1 \in Nat /\ i + 1 \in Nat
    BY <1>3
  <2>1. a' = call.s1 + (i + 1) /\ b' = call.s2 + (i + 1) /\ i + 1 \in Nat
    BY <1>1, <1>2, <1>3, <1>5, <2>4, Advanced DEF StringsKept
  <2>2. AgreeUpTo(i + 1)
    BY <1>1, <1>2, <1>3, <1>7, AgreesFurther DEF StringsKept
  <2>3. PICK j \in Nat : j = i + 1
    BY <2>1
  <2> QED BY <1>1, <1>5, <1>7, <2>1, <2>2, <2>3, Advances
<1> QED BY <1>6, <1>7

LEMMA StrcmpEqualWordsStep ==
  ASSUME StringInv, StrcmpEqualWords
  PROVE  StringInv'
<1>1. StringsKept /\ Progress
  BY DEF StrcmpEqualWords, StringInv, StringFns, StringsKept
<1>2. PICK i \in 0 .. Len(call.right) + 1 : a = call.s1 + i /\ b = call.s2 + i /\ AgreeUpTo(i)
  BY <1>1 DEF Progress, StringsKept
<1>3. i \in Nat
  BY <1>2
<1>4. Aligned /\ Word(a) = Word(b) /\ call' = call /\ mem' = mem
  BY DEF StrcmpEqualWords
<1>5. /\ \A k \in 0 .. 3 : mem[a + k] = mem[b + k]
      /\ HasZeroByte(Word(a)) <=> \E k \in 0 .. 3 : mem[a + k] = 0
  BY <1>1, <1>2, <1>3, <1>4, ComparedWords
<1>6. CASE HasZeroByte(Word(a))
  <2>1. \E m \in 0 .. 3 : mem[a + m] = 0 /\ \A k \in 0 .. m - 1 : mem[a + k] # 0
    <3>1. PICK k \in 0 .. 3 : mem[a + k] = 0
      BY <1>5, <1>6
    <3>2. k = 0 \/ k = 1 \/ k = 2 \/ k = 3
      OBVIOUS
    <3>3. CASE mem[a + 0] = 0
      BY <3>3
    <3>4. CASE mem[a + 0] # 0 /\ mem[a + 1] = 0
      <4>1. \A j \in 0 .. 1 - 1 : j = 0
        OBVIOUS
      <4> QED BY <3>4, <4>1
    <3>5. CASE mem[a + 0] # 0 /\ mem[a + 1] # 0 /\ mem[a + 2] = 0
      <4>1. \A j \in 0 .. 2 - 1 : j = 0 \/ j = 1
        OBVIOUS
      <4> QED BY <3>5, <4>1
    <3>6. CASE mem[a + 0] # 0 /\ mem[a + 1] # 0 /\ mem[a + 2] # 0 /\ mem[a + 3] = 0
      <4>1. \A j \in 0 .. 3 - 1 : j = 0 \/ j = 1 \/ j = 2
        OBVIOUS
      <4> QED BY <3>6, <4>1
    <3> QED BY <3>1, <3>2, <3>3, <3>4, <3>5, <3>6
  <2>2. PICK m \in 0 .. 3 : mem[a + m] = 0 /\ \A k \in 0 .. m - 1 : mem[a + k] # 0
    BY <2>1
  <2>3. m \in 0 .. 4 /\ m \in Nat /\ \A k \in 0 .. m - 1 : k \in 0 .. 3
    OBVIOUS
  <2>4. AgreeUpTo(i + m)
    BY <1>1, <1>2, <1>3, <1>5, <2>2, <2>3, AgreesAlong
  <2>5. i + m <= Len(call.left) /\ i + m <= Len(call.right)
    BY <2>4 DEF AgreeUpTo
  <2>6. CharOf(call.left, i + m) = 0 /\ CharOf(call.right, i + m) = 0
    BY <1>1, <1>2, <1>3, <1>5, <2>2, <2>3, <2>5, ComparedBytes
  <2>7. ret' = 0
    BY <1>6 DEF StrcmpEqualWords
  <2>8. PICK j \in Nat : j = i + m
    BY <1>3, <2>3
  <2> QED BY <1>1, <1>4, <2>4, <2>6, <2>7, <2>8, Returns
<1>7. CASE ~HasZeroByte(Word(a))
  <2>1. a' = a + 4 /\ b' = b + 4 /\ ret' = Running
    BY <1>7 DEF StrcmpEqualWords
  <2>2. a' = call.s1 + (i + 4) /\ b' = call.s2 + (i + 4)
    BY <1>1, <1>2, <1>3, <2>1, Advanced DEF StringsKept
  <2>3. 4 \in 0 .. 4 /\ \A k \in 0 .. 4 - 1 : k \in 0 .. 3
    OBVIOUS
  <2>4. AgreeUpTo(i + 4)
    BY <1>1, <1>2, <1>3, <1>5, <1>7, <2>3, AgreesAlong
  <2>5. PICK j \in Nat : j = i + 4
    BY <1>3
  <2> QED BY <1>1, <1>4, <2>1, <2>2, <2>4, <2>5, Advances
<1> QED BY <1>6, <1>7

\* Two words whose bytes are equal are equal.
LEMMA WordsDiffer ==
  ASSUME Word(a) # Word(b), a \in Nat, b \in Nat
  PROVE  \E k \in 0 .. 3 : mem[a + k] # mem[b + k]
<1> SUFFICES ASSUME \A k \in 0 .. 3 : mem[a + k] = mem[b + k]
             PROVE  Word(a) = Word(b)
  OBVIOUS
<1>1. mem[a + 0] = mem[b + 0] /\ mem[a + 1] = mem[b + 1] /\ mem[a + 2] = mem[b + 2] /\ mem[a + 3] = mem[b + 3]
  OBVIOUS
<1>2. a + 0 = a /\ b + 0 = b
  OBVIOUS
<1> QED BY <1>1, <1>2 DEF Word

LEMMA StrcmpDifferentWordsStep ==
  ASSUME StringInv, StrcmpDifferentWords
  PROVE  StringInv'
<1>1. StringsKept /\ Progress
  BY DEF StrcmpDifferentWords, StringInv, StringFns, StringsKept
<1>2. PICK i \in 0 .. Len(call.right) + 1 : a = call.s1 + i /\ b = call.s2 + i /\ AgreeUpTo(i)
  BY <1>1 DEF Progress, StringsKept
<1>3. i \in Nat
  BY <1>2
<1>4. Aligned /\ Word(a) # Word(b) /\ call' = call /\ mem' = mem
  BY DEF StrcmpDifferentWords
<1> DEFINE c1(k) == Byte(Word(a), k)
           c2(k) == Byte(Word(b), k)
           end(k) == /\ k = 3 \/ c1(k) # c2(k) \/ c1(k) = 0
                     /\ \A j \in 0 .. k - 1 : c1(j) = c2(j) /\ c1(j) # 0
           last == CHOOSE k \in 0 .. 3 : end(k)
<1>5. \A k \in 0 .. 3 : c1(k) = mem[a + k] /\ c2(k) = mem[b + k]
  BY <1>1, <1>2, <1>3, <1>4, ComparedWords
<1>6. ret' = IF c1(last) # c2(last) THEN Order(c1(last), c2(last)) ELSE 0
  BY DEF StrcmpDifferentWords
<1> HIDE DEF c1, c2
<1>7. last \in 0 .. 3 /\ end(last)
  <2>1. \E k \in 0 .. 3 : end(k)
    <3>1. CASE c1(0) # c2(0) \/ c1(0) = 0
      BY <3>1
    <3>2. CASE ~(c1(0) # c2(0) \/ c1(0) = 0) /\ (c1(1) # c2(1) \/ c1(1) = 0)
      <4>1. \A j \in 0 .. 1 - 1 : j = 0
        OBVIOUS
      <4> QED BY <3>2, <4>1
    <3>3. CASE /\ ~(c1(0) # c2(0) \/ c1(0) = 0) /\ ~(c1(1) # c2(1) \/ c1(1) = 0)
               /\ c1(2) # c2(2) \/ c1(2) = 0
      <4>1. \A j \in 0 .. 2 - 1 : j = 0 \/ j = 1
        OBVIOUS
      <4> QED BY <3>3, <4>1
    <3>4. CASE /\ ~(c1(0) # c2(0) \/ c1(0) = 0) /\ ~(c1(1) # c2(1) \/ c1(1) = 0)
               /\ ~(c1(2) # c2(2) \/ c1(2) = 0)
      <4>1. \A j \in 0 .. 3 - 1 : j = 0 \/ j = 1 \/ j = 2
        OBVIOUS
      <4> QED BY <3>4, <4>1
    <3> QED BY <3>1, <3>2, <3>3, <3>4
  <2> HIDE DEF end
  <2> QED BY <2>1
<1> HIDE DEF last
<1>8. c1(last) # c2(last) \/ c1(last) = 0
  <2>1. CASE last = 3 /\ c1(3) = c2(3)
    <3>1. \A k \in 0 .. 3 : k \in 0 .. 3 - 1 \/ k = 3
      OBVIOUS
    <3>2. \A k \in 0 .. 3 : c1(k) = c2(k)
      BY <1>7, <2>1, <3>1
    <3>3. a \in Nat /\ b \in Nat
      BY <1>1, <1>2, <1>3, ComparedBytes
    <3> QED BY <1>4, <1>5, <3>2, <3>3, WordsDiffer
  <2> QED BY <1>7, <2>1
<1>9. PICK m \in 0 .. 3 : m = last
  BY <1>7
<1>10. m \in 0 .. 4 /\ m \in Nat /\ \A k \in 0 .. m - 1 : k \in 0 .. 3
  OBVIOUS
<1>11. \A k \in 0 .. m - 1 : mem[a + k] = mem[b + k] /\ mem[a + k] # 0
  BY <1>5, <1>7, <1>9, <1>10
<1>12. AgreeUpTo(i + m)
  BY <1>1, <1>2, <1>3, <1>10, <1>11, AgreesAlong
<1>13. i + m <= Len(call.left) /\ i + m <= Len(call.right)
  BY <1>12 DEF AgreeUpTo
<1>14. CharOf(call.left, i + m) = c1(last) /\ CharOf(call.right, i + m) = c2(last)
  BY <1>1, <1>2, <1>3, <1>5, <1>9, <1>10, <1>13, ComparedBytes
<1>15. PICK j \in Nat : j = i + m
  BY <1>3, <1>10
<1> QED BY <1>1, <1>4, <1>6, <1>8, <1>12, <1>14, <1>15, Returns

(***************************************************************************)
(* Every call of the library                                               *)
(***************************************************************************)
LEMMA StringsAreSequences ==
  ASSUME NEW s \in Strings
  PROVE  s \in Seq(Letters) /\ Len(s) \in Nat /\ Len(s) <= MaxLength
<1>1. PICK k \in 0 .. MaxLength : s \in [1 .. k -> Letters]
  BY DEF Strings
<1>2. k \in Nat /\ k <= MaxLength
  BY BytesAssumption
<1>3. s \in Seq(Letters) /\ Len(s) = k
  BY <1>1, <1>2
<1> QED BY <1>2, <1>3

LEMMA PlaceOf ==
  ASSUME NEW from \in Nat, NEW at \in from .. from + 3, NEW s \in Strings, NEW g \in Letters
  PROVE  /\ \A x \in from .. from + Region - 1 : Place(from, at, s, g)[x] \in Chars
         /\ \A k \in 0 .. Len(s) : /\ at + k \in from .. from + Region - 1
                                   /\ Place(from, at, s, g)[at + k] = CharOf(s, k)
<1>1. s \in Seq(Letters) /\ Len(s) \in Nat /\ Len(s) <= MaxLength
  BY StringsAreSequences
<1>2. Region \in Nat /\ MaxLength + 4 <= Region /\ MaxLength \in Nat
  BY RegionSize
<1>3. \A x \in from .. from + Region - 1 :
        Place(from, at, s, g)[x] = IF x \in at .. at + Len(s) - 1 THEN s[x - at + 1]
                                   ELSE IF x = at + Len(s) THEN 0 ELSE g
  BY DEF Place, Ends
<1>4. \A c \in Letters : c \in Chars
  <2>1. \A c \in Letters : c \in 1 .. Base - 1
    BY BytesAssumption
  <2> QED BY <2>1, BaseType DEF Chars
<1>5. ASSUME NEW x \in from .. from + Region - 1
      PROVE  Place(from, at, s, g)[x] \in Chars
  <2>1. CASE x \in at .. at + Len(s) - 1
    <3>1. x - at + 1 \in 1 .. Len(s)
      BY <1>1, <2>1
    <3>2. s[x - at + 1] \in Letters
      BY <1>1, <3>1
    <3> QED BY <1>3, <1>4, <2>1, <3>2
  <2>2. 0 \in Chars
    BY BaseType DEF Chars
  <2> QED BY <1>3, <1>4, <2>1, <2>2
<1>6. ASSUME NEW k \in 0 .. Len(s)
      PROVE  at + k \in from .. from + Region - 1 /\ Place(from, at, s, g)[at + k] = CharOf(s, k)
  <2>1. at + k \in from .. from + Region - 1
    BY <1>1, <1>2
  <2>2. CASE k < Len(s)
    <3>1. at + k \in at .. at + Len(s) - 1 /\ (at + k) - at + 1 = k + 1
      BY <1>1, <2>2
    <3> QED BY <1>3, <2>1, <2>2, <3>1 DEF CharOf
  <2>3. CASE k = Len(s)
    <3>1. at + k \notin at .. at + Len(s) - 1 /\ at + k = at + Len(s) /\ ~(k < Len(s))
      BY <1>1, <2>3
    <3> QED BY <1>3, <2>1, <2>3, <3>1 DEF CharOf
  <2> QED BY <1>1, <2>1, <2>2, <2>3
<1> QED BY <1>5, <1>6

LEMMA CallStarts ==
  ASSUME NEW fn \in StringFns, StringCall(fn), ret = Running
  PROVE  StringInv
<1>1. PICK t \in Strings, o1 \in 0 .. 3, g \in Letters, s \in Strings : \E o2 \in {o1, 1} :
        /\ fn # "strcmp" => s = <<>>
        /\ call = [fn |-> fn, s1 |-> o1, s2 |-> Second + o2, left |-> s, right |-> t, before |-> g]
        /\ mem = [x \in 0 .. 2 * Region - 1 |->
                    IF x < Second THEN Place(0, o1, s, g)[x]
                    ELSE Place(Second, Second + o2, t, CHOOSE h \in Letters : TRUE)[x]]
        /\ a = o1 /\ b = Second + o2
        /\ n = IF fn = "memcpy" THEN Len(t) + 1 ELSE 0
  BY DEF StringCall
<1>2. PICK o2 \in {o1, 1} :
        /\ fn # "strcmp" => s = <<>>
        /\ call = [fn |-> fn, s1 |-> o1, s2 |-> Second + o2, left |-> s, right |-> t, before |-> g]
        /\ mem = [x \in 0 .. 2 * Region - 1 |->
                    IF x < Second THEN Place(0, o1, s, g)[x]
                    ELSE Place(Second, Second + o2, t, CHOOSE h \in Letters : TRUE)[x]]
        /\ a = o1 /\ b = Second + o2
        /\ n = IF fn = "memcpy" THEN Len(t) + 1 ELSE 0
  BY <1>1
<1>3. /\ call.fn = fn /\ call.s1 = o1 /\ call.s2 = Region + o2 /\ call.left = s /\ call.right = t
      /\ call.before = g /\ a = o1 /\ b = Region + o2
  BY <1>2 DEF Second
<1> DEFINE h == CHOOSE x \in Letters : TRUE
<1>4. h \in Letters
  OBVIOUS
<1> HIDE DEF h
<1>5. \A x \in 0 .. 2 * Region - 1 :
        mem[x] = IF x < Region THEN Place(0, o1, s, g)[x] ELSE Place(Region, Region + o2, t, h)[x]
  BY <1>2 DEF Second, h
<1>6. o2 \in 0 .. 3 /\ Region \in Nat /\ Region + o2 \in Region .. Region + 3 /\ o1 \in 0 .. 0 + 3
  BY RegionSize
<1>7. /\ \A x \in 0 .. 0 + Region - 1 : Place(0, o1, s, g)[x] \in Chars
      /\ \A k \in 0 .. Len(s) : /\ o1 + k \in 0 .. 0 + Region - 1
                                /\ Place(0, o1, s, g)[o1 + k] = CharOf(s, k)
  BY <1>6, PlaceOf
<1>8. /\ \A x \in Region .. Region + Region - 1 : Place(Region, Region + o2, t, h)[x] \in Chars
      /\ \A k \in 0 .. Len(t) : /\ Region + o2 + k \in Region .. Region + Region - 1
                                /\ Place(Region, Region + o2, t, h)[Region + o2 + k] = CharOf(t, k)
  <2>1. PICK at \in Region .. Region + 3 : at = Region + o2
    BY <1>6
  <2> QED BY <1>4, <1>6, <2>1, PlaceOf
<1>9. /\ s \in Seq(Letters) /\ Len(s) \in Nat /\ Len(s) <= MaxLength
      /\ t \in Seq(Letters) /\ Len(t) \in Nat /\ Len(t) <= MaxLength
  BY StringsAreSequences
<1>10. mem \in [Cells -> Chars]
  <2>1. ASSUME NEW x \in 0 .. 2 * Region - 1
        PROVE  mem[x] \in Chars
    <3>1. /\ x < Region => x \in 0 .. 0 + Region - 1
          /\ ~(x < Region) => x \in Region .. Region + Region - 1
      BY <1>6
    <3> QED BY <1>5, <1>7, <1>8, <3>1
  <2>2. mem = [x \in 0 .. 2 * Region - 1 |-> mem[x]]
    BY <1>2
  <2> QED BY <2>1, <2>2 DEF Cells
<1>11. StringType
  BY <1>3, <1>6, <1>9, <1>10 DEF StringType
<1>12. SecondKept
  <2>1. ASSUME NEW k \in 0 .. Len(t)
        PROVE  mem[Region + o2 + k] = CharOf(t, k)
    <3>1. Region + o2 + k \in 0 .. 2 * Region - 1 /\ ~(Region + o2 + k < Region)
      BY <1>6, <1>8
    <3> QED BY <1>5, <1>8, <3>1
  <2> QED BY <1>3, <2>1 DEF SecondKept
<1>13. FirstKept
  <2>1. ASSUME NEW k \in 0 .. Len(s)
        PROVE  mem[o1 + k] = CharOf(s, k)
    <3>1. o1 + k \in 0 .. 2 * Region - 1 /\ o1 + k < Region
      BY <1>6, <1>7
    <3> QED BY <1>5, <1>7, <3>1
  <2> QED BY <1>3, <2>1 DEF FirstKept
<1>14. fn # "strcmp" => Copied(0)
  <2>1. ASSUME fn # "strcmp", NEW x \in 0 .. Region - 1
        PROVE  mem[x] = IF x = o1 THEN 0 ELSE g
    <3>1. x \in 0 .. 2 * Region - 1 /\ x < Region /\ x \in 0 .. 0 + Region - 1
      BY <1>6
    <3>2. Place(0, o1, <<>>, g)[x] = IF x = o1 THEN 0 ELSE g
      <4>1. Ends(o1, <<>>) = o1 /\ x \notin o1 .. o1 - 1
        BY DEF Ends
      <4> QED BY <3>1, <4>1 DEF Place
    <3> QED BY <1>2, <1>5, <2>1, <3>1, <3>2
  <2>2. \A x \in 0 .. Region - 1 : x \notin o1 .. o1 + 0 - 1
    BY <1>6
  <2> QED BY <1>3, <2>1, <2>2 DEF Copied
<1>15. AgreeUpTo(0)
  <2>1. \A k \in 0 .. 0 - 1 : FALSE
    OBVIOUS
  <2> QED BY <1>3, <1>9, <2>1 DEF AgreeUpTo
<1>16. Progress
  <2>1. 0 \in 0 .. Len(call.right) + 1 /\ 0 <= Len(call.right) /\ Len(t) + 1 = Len(t) + 1 - 0
    BY <1>3, <1>9
  <2>2. a = call.s1 + 0 /\ b = call.s2 + 0
    BY <1>3, <1>6
  <2>3. call.fn = "memcpy" => n = Len(call.right) + 1 - 0
    BY <1>2, <1>3, <2>1
  <2> QED BY <1>3, <1>14, <1>15, <2>1, <2>2, <2>3 DEF Progress
<1>17. CopiesExactly /\ OrdersStrings
  BY DEF CopiesExactly, OrdersStrings
<1> QED BY <1>11, <1>12, <1>13, <1>16, <1>17 DEF StringInv

LEMMA LibStarts ==
  ASSUME LibInit
  PROVE  StringInv
<1>1. ret = Running
  BY DEF LibInit
<1>2. CASE StringCall("strcpy") \/ StringCall("strcmp") \/ StringCall("memcpy")
  BY <1>1, <1>2, CallStarts DEF StringFns
<1>3. CASE PrintfCall \/ PrintHexCall \/ PrintDecCall
  <2>1. call.fn = "printf" \/ call.fn = "print_hex" \/ call.fn = "print_dec"
    BY <1>3 DEF PrintfCall, PrintHexCall, PrintDecCall
  <2> QED BY <2>1 DEF StringInv, StringFns
<1> QED BY <1>2, <1>3 DEF LibInit

LEMMA StringStep ==
  ASSUME StringInv, LibNext \/ UNCHANGED libVars
  PROVE  StringInv'
<1>1. CASE Strcpy
  BY <1>1, StrcpyByteStep, StrcpyWordStep, StrcpyTailStep DEF Strcpy
<1>2. CASE Strcmp
  BY <1>2, StrcmpByteStep, StrcmpEqualWordsStep, StrcmpDifferentWordsStep DEF Strcmp
<1>3. CASE Memcpy
  BY <1>3, MemcpyByteStep, MemcpyReturnStep DEF Memcpy
<1>4. CASE Printf \/ PrintHexDigit \/ PrintDec
  <2>1. call' = call /\ call.fn \notin StringFns
    BY <1>4 DEF Printf, PrintfOrdinary, PrintfConversion, PrintfReturn, PrintHexDigit, PrintDec, StringFns
  <2> QED BY <2>1 DEF StringInv
<1>5. CASE UNCHANGED libVars
  <2>1. call' = call /\ mem' = mem /\ a' = a /\ b' = b /\ n' = n /\ ret' = ret
    BY <1>5 DEF libVars
  <2> QED BY <2>1 DEF StringInv, StringType, SecondKept, FirstKept, Progress, Copied, AgreeUpTo,
                      CopiesExactly, OrdersStrings
<1> QED BY <1>1, <1>2, <1>3, <1>4, <1>5 DEF LibNext

LEMMA PointersInside ==
  ASSUME StringInv
  PROVE  NeverPastTerminator
<1> SUFFICES ASSUME ret = Running, call.fn \in {"strcpy", "strcmp"}
             PROVE  /\ b <= Ends(call.s2, call.right)
                    /\ call.fn = "strcmp" => a <= Ends(call.s1, call.left)
  BY DEF NeverPastTerminator
<1>1. StringType /\ Progress
  BY DEF StringInv, StringFns
<1>2. PICK i \in 0 .. Len(call.right) + 1 :
        /\ a = call.s1 + i /\ b = call.s2 + i
        /\ i <= Len(call.right)
        /\ call.fn = "strcmp" => i <= Len(call.left)
  BY <1>1 DEF Progress, AgreeUpTo
<1>3. /\ call.s1 \in Int /\ call.s2 \in Int /\ Len(call.right) \in Nat /\ Len(call.left) \in Nat /\ i \in Int
  BY <1>1, StringTypes, PlacesType
<1>4. b <= call.s2 + Len(call.right)
  <2>1. PICK q \in Int, L \in Int : q = call.s2 /\ L = Len(call.right)
    BY <1>3
  <2>2. q + i <= q + L
    BY <1>2, <1>3, <2>1
  <2> QED BY <1>2, <2>1, <2>2
<1>5. call.fn = "strcmp" => a <= call.s1 + Len(call.left)
  <2>1. PICK q \in Int, L \in Int : q = call.s1 /\ L = Len(call.left)
    BY <1>3
  <2>2. i <= L => q + i <= q + L
    BY <1>3, <2>1
  <2> QED BY <1>2, <2>1, <2>2
<1> QED BY <1>4, <1>5 DEF Ends

LEMMA StringInvariant == Spec => []StringInv
<1>1. ASSUME Init PROVE StringInv
  <2>1. CASE LibIdle
    BY <2>1 DEF LibIdle, StringInv, StringFns
  <2>2. CASE LibInit
    BY <2>2, LibStarts
  <2> QED BY <1>1, <2>1, <2>2 DEF Init
<1>2. StringInv /\ [Next]_vars => StringInv'
  BY StringStep DEF Next, vars
<1> QED BY <1>1, <1>2, PTL DEF Spec

\* The pointers of strcpy and strcmp (legacy/dhrystone/stdlib.c:118-208) stay at
\* or before the terminators while they run, for strings and alignments of any
\* kind: no word that lies wholly behind a string is read.
THEOREM NothingReadBehind == Spec => []NeverPastTerminator
<1>1. StringInv => NeverPastTerminator
  BY PointersInside
<1> QED BY <1>1, StringInvariant, PTL

\* strcpy and memcpy (legacy/dhrystone/stdlib.c:109-158) change the bytes
\* they were asked to and no others, although strcpy stores words, for strings of
\* any length and pointers of any alignment.
THEOREM CopiesAreExact == Spec => []CopiesExactly
<1>1. StringInv => CopiesExactly
  BY DEF StringInv, StringFns, CopiesExactly
<1> QED BY <1>1, StringInvariant, PTL

\* strcmp (legacy/dhrystone/stdlib.c:160-208) returns the order of the strings,
\* whatever lies behind their terminators in the last words compared.
THEOREM StringsAreOrdered == Spec => []OrdersStrings
<1>1. StringInv => OrdersStrings
  BY DEF StringInv, StringFns, OrdersStrings
<1> QED BY <1>1, StringInvariant, PTL

(***************************************************************************)
(* print_hex                                                               *)
(***************************************************************************)
\* A digit that must be written, whatever stands before it.
Significant(i) == call.v[i] # 0 \/ i < call.digits

\* The digits from c down to the one above n.
Digits(c, last) == [k \in 1 .. c - last |-> call.v[c + 1 - k]]

HexType ==
  /\ call.digits \in 1 .. 8
  /\ n \in -1 .. 7
  /\ ret = IF n = -1 THEN 0 ELSE Running

\* Nothing is written before the first significant digit, and everything from it
\* on, since b follows n from then on.
HexProgress ==
  \/ b = call.digits /\ out = <<>> /\ \A i \in n + 1 .. 7 : ~Significant(i)
  \/ \E c \in n + 1 .. 7 :
       /\ Significant(c) /\ \A i \in c + 1 .. 7 : ~Significant(i)
       /\ b = n + 1 /\ out = Digits(c, n)

HexInv == call.fn = "print_hex" => HexType /\ HexProgress

LEMMA DigitsGrow ==
  ASSUME NEW c \in 0 .. 7, NEW m \in 0 .. 7, m <= c
  PROVE  Append(Digits(c, m), call.v[m]) = Digits(c, m - 1)
<1> DEFINE v == call.v
           s == [k \in 1 .. c - m |-> v[c + 1 - k]]
<1>1. s = Digits(c, m)
  BY DEF Digits
<1>2. c - m \in Nat /\ c - m + 1 = c - (m - 1) /\ c + 1 - (c - m + 1) = m
  OBVIOUS
<1>3. Len(s) = c - m /\ DOMAIN s = 1 .. c - m
  BY <1>2
<1>4. Append(s, v[m]) = [k \in 1 .. c - m + 1 |-> IF k = c - m + 1 THEN v[m] ELSE s[k]]
  BY <1>2, <1>3
<1>5. \A k \in 1 .. c - m + 1 : (IF k = c - m + 1 THEN v[m] ELSE s[k]) = v[c + 1 - k]
  BY <1>2
<1>6. Append(s, v[m]) = [k \in 1 .. c - (m - 1) |-> v[c + 1 - k]]
  BY <1>2, <1>4, <1>5
<1> QED BY <1>1, <1>6 DEF Digits

LEMMA HexStep ==
  ASSUME HexInv, PrintHexDigit
  PROVE  HexInv'
<1>1. /\ call.digits \in 1 .. 8 /\ n \in 0 .. 7 /\ HexProgress
      /\ call' = call /\ n' = n - 1 /\ ret' = IF n = 0 THEN 0 ELSE Running
  BY DEF HexInv, HexType, PrintHexDigit, Running
<1>2. HexType'
  BY <1>1 DEF HexType
<1>3. /\ call.v[n] = 0 /\ n >= b => b' = b /\ out' = out
      /\ ~(call.v[n] = 0 /\ n >= b) => b' = n /\ out' = Append(out, call.v[n])
  BY DEF PrintHexDigit
<1>4. \A i \in 0 .. 7 : Significant(i)' <=> Significant(i)
  BY <1>1 DEF Significant
<1>5. \A c : Digits(c, n - 1) = Digits(c, n)'
  BY <1>1 DEF Digits
<1>6. ASSUME b = call.digits, out = <<>>, \A i \in n + 1 .. 7 : ~Significant(i)
      PROVE  HexProgress'
  <2>1. Significant(n) <=> ~(call.v[n] = 0 /\ n >= b)
    BY <1>1, <1>6 DEF Significant
  <2>2. CASE Significant(n)
    <3>1. PICK c \in 0 .. 7 : c = n
      BY <1>1
    <3>2. b' = c /\ out' = Append(out, call.v[c])
      BY <1>3, <2>1, <2>2, <3>1
    <3>3. out' = Digits(c, c - 1)
      <4>1. Digits(c, c) = <<>>
        BY <3>1 DEF Digits
      <4>2. Append(Digits(c, c), call.v[c]) = Digits(c, c - 1)
        <5>1. c \in 0 .. 7 /\ c <= c
          OBVIOUS
        <5> QED BY <5>1, DigitsGrow
      <4> QED BY <1>6, <3>2, <4>1, <4>2
    <3>4. c \in n' + 1 .. 7 /\ b' = n' + 1
      BY <1>1, <3>1, <3>2
    <3>5. Significant(c)'
      BY <1>4, <2>2, <3>1
    <3>6. \A i \in c + 1 .. 7 : ~Significant(i)'
      BY <1>1, <1>4, <1>6, <3>1
    <3>7. out' = Digits(c, n)'
      BY <1>5, <3>1, <3>3
    <3> QED BY <3>4, <3>5, <3>6, <3>7 DEF HexProgress
  <2>3. CASE ~Significant(n)
    <3>1. b' = call'.digits /\ out' = <<>>
      BY <1>1, <1>3, <1>6, <2>1, <2>3
    <3>2. \A i \in n' + 1 .. 7 : ~Significant(i)'
      BY <1>1, <1>4, <1>6, <2>3
    <3> QED BY <3>1, <3>2 DEF HexProgress
  <2> QED BY <2>2, <2>3
<1>7. ASSUME NEW c \in n + 1 .. 7, Significant(c), \A i \in c + 1 .. 7 : ~Significant(i),
             b = n + 1, out = Digits(c, n)
      PROVE  HexProgress'
  <2>1. ~(n >= b)
    BY <1>1, <1>7
  <2>2. b' = n' + 1 /\ c \in n' + 1 .. 7 /\ c \in 0 .. 7 /\ n <= c
    BY <1>1, <1>3, <2>1
  <2>3. out' = Digits(c, n - 1)
    BY <1>1, <1>3, <1>7, <2>1, <2>2, DigitsGrow
  <2>4. Significant(c)' /\ \A i \in c + 1 .. 7 : ~Significant(i)'
    BY <1>4, <1>7, <2>2
  <2>5. out' = Digits(c, n)'
    BY <1>5, <2>3
  <2> QED BY <2>2, <2>4, <2>5 DEF HexProgress
<1>8. HexProgress'
  BY <1>1, <1>6, <1>7 DEF HexProgress
<1> QED BY <1>2, <1>8 DEF HexInv

LEMMA HexStarts ==
  ASSUME PrintHexCall, out = <<>>, ret = Running
  PROVE  HexInv
<1>1. call.digits \in 1 .. 8 /\ b = call.digits /\ n = 7
  BY DEF PrintHexCall
<1>2. HexType
  BY <1>1 DEF HexType
<1>3. HexProgress
  <2>1. \A i \in n + 1 .. 7 : FALSE
    BY <1>1
  <2> QED BY <1>1, <2>1 DEF HexProgress
<1> QED BY <1>2, <1>3 DEF HexInv

LEMMA HexInvariant == Spec => []HexInv
<1>1. ASSUME Init PROVE HexInv
  <2>1. CASE LibIdle
    BY <2>1 DEF LibIdle, HexInv
  <2>2. CASE LibInit
    <3>1. out = <<>> /\ ret = Running
      BY <2>2 DEF LibInit
    <3>2. CASE PrintHexCall
      BY <3>1, <3>2, HexStarts
    <3>3. CASE ~PrintHexCall
      <4>1. call.fn # "print_hex"
        BY <2>2, <3>3 DEF LibInit, StringCall, PrintfCall, PrintDecCall
      <4> QED BY <4>1 DEF HexInv
    <3> QED BY <3>2, <3>3
  <2> QED BY <1>1, <2>1, <2>2 DEF Init
<1>2. ASSUME HexInv, [Next]_vars PROVE HexInv'
  <2>1. CASE PrintHexDigit
    BY <1>2, <2>1, HexStep
  <2>2. CASE LibNext /\ ~PrintHexDigit
    <3>1. call' = call /\ call.fn # "print_hex"
      BY <2>2 DEF LibNext, Strcpy, StrcpyByte, StrcpyWord, StrcpyTail, Strcmp, StrcmpByte,
                  StrcmpEqualWords, StrcmpDifferentWords, Memcpy, MemcpyByte, MemcpyReturn,
                  Printf, PrintfOrdinary, PrintfConversion, PrintfReturn, PrintDec
    <3> QED BY <3>1 DEF HexInv
  <2>3. CASE UNCHANGED libVars
    <3>1. call' = call /\ b' = b /\ n' = n /\ out' = out /\ ret' = ret
      BY <2>3 DEF libVars
    <3> QED BY <1>2, <3>1 DEF HexInv, HexType, HexProgress, Significant, Digits
  <2> QED BY <1>2, <2>1, <2>2, <2>3 DEF Next, vars
<1> QED BY <1>1, <1>2, PTL DEF Spec

\* print_hex of the PicoSoC firmware (legacy/picosoc/firmware.c:171-179) writes
\* every number from its first digit that is not zero, or with the digits asked
\* for if that is more: once it has written a digit it leaves no zero out.
THEOREM HexIsRight == Spec => []PrintsHex
<1>1. HexInv => PrintsHex
  <2> DEFINE significant == {i \in 0 .. 7 : Significant(i)}
             count == CHOOSE i \in significant : \A j \in significant : j <= i
  <2> SUFFICES ASSUME HexInv, call.fn = "print_hex", ret # Running
               PROVE  out = [k \in 1 .. count + 1 |-> call.v[count + 1 - k]]
    BY DEF PrintsHex, Significant
  <2>1. n = -1 /\ call.digits \in 1 .. 8 /\ HexProgress
    BY DEF HexInv, HexType
  <2>2. Significant(0)
    BY <2>1 DEF Significant
  <2>3. PICK c \in 0 .. 7 : /\ Significant(c) /\ \A i \in c + 1 .. 7 : ~Significant(i)
                            /\ out = Digits(c, -1)
    BY <2>1, <2>2 DEF HexProgress
  <2>4. \A j \in significant : j <= c
    BY <2>3
  <2>5. \A i \in significant : (\A j \in significant : j <= i) => i = c
    BY <2>3, <2>4
  <2>6. count = c
    BY <2>3, <2>4, <2>5
  <2>7. Digits(c, -1) = [k \in 1 .. c + 1 |-> call.v[c + 1 - k]]
    <3>1. c - (-1) = c + 1
      OBVIOUS
    <3> QED BY <3>1 DEF Digits
  <2> QED BY <2>3, <2>6, <2>7
<1> QED BY <1>1, HexInvariant, PTL


(***************************************************************************)
(* THE PROGRAM                                                             *)
(***************************************************************************)
GlobalNames ==
  {"Int_Glob", "Bool_Glob", "Ch_1_Glob", "Ch_2_Glob", "Ptr_Glob", "Next_Ptr_Glob",
   "Arr_1_Glob", "Arr_2_Glob", "Heap"}
LocalNames ==
  {"Int_1_Loc", "Int_2_Loc", "Int_3_Loc", "Ch_Index", "Enum_Loc", "Str_1_Loc", "Str_2_Loc",
   "Run_Index", "Int_Loc", "Ch_Loc", "Begin_Time", "User_Time"}

MainType ==
  /\ DOMAIN glob = GlobalNames /\ DOMAIN loc = LocalNames
  /\ DOMAIN glob.Arr_1_Glob = 0 .. 49
  /\ DOMAIN glob.Arr_2_Glob = 0 .. 49 /\ DOMAIN glob.Arr_2_Glob[8] = 0 .. 49
  /\ DOMAIN glob.Heap = 1 .. 2
  /\ loc.Begin_Time \in Int /\ spent \in Cycles /\ clock \in 0 .. ClockRange - 1

\* A record that is linked to the first one.
Holds(r, enum, int) ==
  /\ DOMAIN r = {"Ptr_Comp", "Discr", "Enum_Comp", "Int_Comp", "Str_Comp"}
  /\ r.Ptr_Comp = 1 /\ r.Discr = Ident_1 /\ r.Enum_Comp = enum /\ r.Int_Comp = int
  /\ r.Str_Comp = "SOME"

\* The heap and the first string, from the first statement on; 40 and 17 are what
\* the first record holds before and after a run.
Linked ==
  /\ glob.Ptr_Glob = 2 /\ glob.Next_Ptr_Glob = 1 /\ loc.Str_1_Loc = "1'ST"
  /\ \E int \in {40, 17} : Holds(glob.Heap[2], Ident_3, int)

\* The runs the counting element of the array has seen, and those the cycle
\* counter has seen, up to a multiple of its range.
Counted(k) == glob.Arr_2_Glob[8][7] = 10 + k
Measured(k) == (clock - loc.Begin_Time - k * spent) % ClockRange = 0

\* What holds from the head of a run on, and what from Proc_8 and Proc_1 on.
Assigned ==
  /\ glob.Ch_1_Glob = Letter.A /\ glob.Ch_2_Glob = Letter.B /\ glob.Bool_Glob = 1
  /\ loc.Enum_Loc = Ident_2 /\ loc.Str_2_Loc = "2'ND"
Updated ==
  /\ Holds(glob.Heap[1], Ident_2, 18) /\ Holds(glob.Heap[2], Ident_3, 17)
  /\ glob.Arr_1_Glob[8] = 7 /\ glob.Int_Glob = 5
RunDone ==
  Assigned /\ Updated /\ loc.Int_1_Loc = 5 /\ loc.Int_2_Loc = 13 /\ loc.Int_3_Loc = 7

InRun == {"Func_2", "while", "chars", "Proc_2", "next"}

ProgramInv ==
  /\ pc \in {"start", "begin", "for", "done"} \union InRun
  /\ MainType
  /\ pc # "start" => Linked
  /\ pc = "begin" => Counted(0)
  /\ pc = "for" => /\ loc.Run_Index \in 1 .. Number_Of_Runs + 1
                   /\ Counted(loc.Run_Index - 1) /\ Measured(loc.Run_Index - 1)
                   /\ loc.Run_Index > 1 => RunDone
  /\ pc \in InRun => /\ loc.Run_Index \in 1 .. Number_Of_Runs /\ Measured(loc.Run_Index)
                     /\ Assigned
  /\ pc \in {"Func_2", "while"} => Counted(loc.Run_Index - 1) /\ loc.Int_2_Loc = 3
  /\ pc = "Func_2" => /\ loc.Int_1_Loc = 2 /\ loc.Int_Loc \in 2 .. 3
                      /\ loc.Int_Loc = 3 => loc.Ch_Loc = Letter.A
  /\ pc = "while" => loc.Int_1_Loc \in 2 .. 3 /\ (loc.Int_1_Loc = 3 => loc.Int_3_Loc = 7)
  /\ pc \in {"chars", "Proc_2", "next"} => Updated /\ Counted(loc.Run_Index) /\ loc.Int_3_Loc = 7
  /\ pc = "chars" => /\ loc.Int_1_Loc = 3 /\ loc.Int_2_Loc = 3
                     /\ loc.Ch_Index \in Letter.A .. Letter.B + 1
  /\ pc = "Proc_2" => loc.Int_1_Loc = 1 /\ loc.Int_2_Loc = 13
  /\ pc = "next" => loc.Int_1_Loc = 5 /\ loc.Int_2_Loc = 13
  /\ pc = "done" => RunDone /\ Counted(Number_Of_Runs) /\ loc.User_Time = Number_Of_Runs * spent

MainInv == pc # "none" => ProgramInv

LEMMA Numbers ==
  /\ Letter.A = 65 /\ Letter.B = 66 /\ Letter.C = 67 /\ Letter.R = 82 /\ Letter.W = 87
  /\ Letter.Y = 89 /\ Letter.Z = 90
  /\ Ident_1 = 0 /\ Ident_2 = 1 /\ Ident_3 = 2
  BY DEF Letter, Ident_1, Ident_2, Ident_3

LEMMA ZeroTable ==
  ASSUME NEW arr, arr = [i \in 0 .. 49 |-> [j \in 0 .. 49 |-> 0]]
  PROVE  DOMAIN arr = 0 .. 49 /\ DOMAIN arr[8] = 0 .. 49
  OBVIOUS

\* The heap has room for the two records (legacy/dhrystone/stdlib.c:43-52).
LEMMA RecordsFit ==
  malloc(0, RecordBytes).fits /\ malloc(malloc(0, RecordBytes).used, RecordBytes).fits
<1>1. ASSUME NEW u \in Int, NEW s \in Int
      PROVE  malloc(u, s).fits <=> u + s <= 1024
  BY DEF malloc, HeapBytes
<1>2. RecordBytes = 48
  BY DEF RecordBytes
<1>3. malloc(0, 48).used = 48
  BY DEF malloc
<1>4. malloc(0, 48).fits
  BY <1>1
<1>5. malloc(48, 48).fits
  BY <1>1
<1> QED BY <1>2, <1>3, <1>4, <1>5

LEMMA MainStarts ==
  ASSUME MainInit
  PROVE  MainInv
<1>1. DOMAIN glob = GlobalNames /\ DOMAIN loc = LocalNames
  BY DEF MainInit, GlobalNames, LocalNames
<1>2. /\ glob.Arr_1_Glob = [i \in 0 .. 49 |-> 0]
      /\ glob.Arr_2_Glob = [i \in 0 .. 49 |-> [j \in 0 .. 49 |-> 0]]
      /\ glob.Heap = [p \in 1 .. 2 |-> Record(Null, Ident_1, 0, "")]
      /\ loc.Begin_Time = 0
  BY DEF MainInit
<1>3. /\ DOMAIN glob.Arr_1_Glob = 0 .. 49
      /\ DOMAIN glob.Arr_2_Glob = 0 .. 49 /\ DOMAIN glob.Arr_2_Glob[8] = 0 .. 49
      /\ DOMAIN glob.Heap = 1 .. 2
  <2>1. DOMAIN glob.Arr_1_Glob = 0 .. 49 /\ DOMAIN glob.Heap = 1 .. 2
    BY <1>2
  <2>2. DOMAIN glob.Arr_2_Glob = 0 .. 49 /\ DOMAIN glob.Arr_2_Glob[8] = 0 .. 49
    BY <1>2, ZeroTable, Zenon
  <2> QED BY <2>1, <2>2
<1>4. clock \in 0 .. ClockRange - 1 /\ spent \in Cycles /\ loc.Begin_Time \in Int
  <2>1. Starts \subseteq 0 .. ClockRange - 1
    BY RunsAssumption DEF ClockRange
  <2>2. clock \in Starts /\ spent \in Cycles /\ loc.Begin_Time = 0
    BY DEF MainInit
  <2> QED BY <2>1, <2>2
<1>5. MainType
  BY <1>1, <1>3, <1>4 DEF MainType
<1> QED BY <1>5 DEF MainInit, MainInv, ProgramInv, InRun

LEMMA InitializeStep ==
  ASSUME MainInv, Initialize
  PROVE  MainInv'
<1>1. pc = "start" /\ MainType
  BY DEF Initialize, MainInv, ProgramInv
<1>2. pc' = "begin"
  BY RecordsFit DEF Initialize
<1>3. /\ glob' = [glob EXCEPT !.Next_Ptr_Glob = 1, !.Ptr_Glob = 2,
                          !.Heap[2] = Record(1, Ident_3, 40, "SOME"),
                          !.Arr_2_Glob[8][7] = 10]
      /\ loc' = [loc EXCEPT !.Str_1_Loc = "1'ST"]
      /\ clock' = clock /\ spent' = spent
  BY DEF Initialize
<1>4. /\ glob'.Ptr_Glob = 2 /\ glob'.Next_Ptr_Glob = 1 /\ DOMAIN glob' = GlobalNames
      /\ glob'.Arr_1_Glob = glob.Arr_1_Glob
      /\ glob'.Heap = [glob.Heap EXCEPT ![2] = Record(1, Ident_3, 40, "SOME")]
      /\ glob'.Arr_2_Glob = [glob.Arr_2_Glob EXCEPT ![8] = [glob.Arr_2_Glob[8] EXCEPT ![7] = 10]]
  BY <1>1, <1>3 DEF MainType, GlobalNames
<1>5. DOMAIN glob'.Heap = 1 .. 2 /\ glob'.Heap[2] = Record(1, Ident_3, 40, "SOME")
  BY <1>1, <1>4 DEF MainType
<1>6. /\ DOMAIN glob'.Arr_2_Glob = 0 .. 49 /\ DOMAIN glob'.Arr_2_Glob[8] = 0 .. 49
      /\ glob'.Arr_2_Glob[8][7] = 10
  BY <1>1, <1>4 DEF MainType
<1>7. /\ loc'.Str_1_Loc = "1'ST" /\ loc'.Begin_Time = loc.Begin_Time
      /\ DOMAIN loc' = LocalNames
  BY <1>1, <1>3 DEF MainType, LocalNames
<1>8. MainType'
  BY <1>1, <1>3, <1>4, <1>5, <1>6, <1>7 DEF MainType
<1>9. Linked' /\ Counted(0)'
  <2>1. Holds(Record(1, Ident_3, 40, "SOME"), Ident_3, 40)
    BY DEF Holds, Record
  <2> QED BY <1>4, <1>5, <1>6, <1>7, <2>1 DEF Linked, Counted
<1> QED BY <1>2, <1>8, <1>9 DEF MainInv, ProgramInv, InRun

\* Congruence modulo the range of the cycle counter.
LEMMA Multiple ==
  ASSUME NEW d \in Nat \ {0}, NEW x \in Int
  PROVE  /\ x % d = 0 <=> \E q \in Int : x = d * q
         /\ \E q \in Int : x = (x % d) + d * q
         /\ x % d \in 0 .. d - 1
<1>1. ASSUME NEW q \in Int, x = d * q
      PROVE  x % d = 0
  <2>1. 0 \in 0 .. d - 1 /\ x = 0 + d * q
    BY <1>1
  <2>2. (0 + d * q) % d = 0
    BY <2>1, Quotient
  <2> QED BY <2>1, <2>2
<1>2. x = (x % d) + d * (x \div d) /\ x \div d \in Int
  OBVIOUS
<1>3. x % d = 0 => x = d * (x \div d)
  BY <1>2
<1>4. x % d \in 0 .. d - 1
  OBVIOUS
<1> QED BY <1>1, <1>2, <1>3, <1>4

LEMMA ClockType == ClockRange \in Nat \ {0} /\ ClockRange = 2 * SignBit /\ SignBit \in Nat \ {0}
  BY RunsAssumption DEF ClockRange

LEMMA SignedValue ==
  ASSUME NEW v \in Int
  PROVE  /\ Signed(v) \in Int
         /\ \E q \in Int : v = Signed(v) + ClockRange * q
         /\ v % ClockRange < SignBit => Signed(v) = v % ClockRange
<1>1. PICK q \in Int : v = (v % ClockRange) + ClockRange * q
  BY ClockType, Multiple
<1>2. v % ClockRange \in Int
  BY ClockType
<1>3. CASE v % ClockRange < SignBit
  BY <1>1, <1>2, <1>3 DEF Signed
<1>4. CASE ~(v % ClockRange < SignBit)
  <2>1. Signed(v) = (v % ClockRange) - ClockRange
    BY <1>4 DEF Signed
  <2>2. v = ((v % ClockRange) - ClockRange) + ClockRange * (q + 1) /\ q + 1 \in Int
    BY <1>1, <1>2, ClockType
  <2> QED BY <1>2, <1>4, <2>1, <2>2, ClockType
<1> QED BY <1>3, <1>4

\* Two numbers a multiple of d apart, the one k steps and the other k + 1 steps on.
LEMMA OneStepOn ==
  ASSUME NEW d \in Nat \ {0}, NEW x \in Int, NEW y \in Int, NEW from \in Int, NEW k \in Int, NEW s \in Int,
         (x - from - k * s) % d = 0, y = (x + s) % d
  PROVE  (y - from - (k + 1) * s) % d = 0
<1>1. PICK q \in Int : x - from - k * s = d * q
  <2>1. x - from - k * s \in Int
    OBVIOUS
  <2> QED BY <2>1, Multiple
<1>2. PICK r \in Int : x + s = ((x + s) % d) + d * r
  <2>1. x + s \in Int
    OBVIOUS
  <2> QED BY <2>1, Multiple
<1>3. (k + 1) * s = k * s + s
  OBVIOUS
<1>4. y - from - (k + 1) * s = d * (q - r) /\ q - r \in Int /\ y - from - (k + 1) * s \in Int
  <2>1. PICK ks \in Int : ks = k * s
    OBVIOUS
  <2>2. y = x + s - d * r /\ x = d * q + from + ks
    BY <1>1, <1>2, <2>1
  <2>3. d * (q - r) = d * q - d * r
    OBVIOUS
  <2> QED BY <1>3, <2>1, <2>2, <2>3
<1> QED BY <1>4, Multiple

LEMMA BeginMeasurementStep ==
  ASSUME MainInv, BeginMeasurement
  PROVE  MainInv'
<1>1. pc = "begin" /\ MainType /\ Linked /\ Counted(0)
  BY DEF BeginMeasurement, MainInv, ProgramInv
<1>2. /\ loc' = [loc EXCEPT !.Begin_Time = time, !.Run_Index = 1] /\ pc' = "for"
      /\ glob' = glob /\ clock' = clock /\ spent' = spent
  BY DEF BeginMeasurement
<1>3. clock \in Int /\ time \in Int /\ spent \in Int
  BY <1>1, ClockType, SignedValue, RunsAssumption DEF MainType, time
<1>4. /\ DOMAIN loc' = LocalNames /\ loc'.Begin_Time = time /\ loc'.Run_Index = 1
      /\ loc'.Str_1_Loc = loc.Str_1_Loc
  BY <1>1, <1>2 DEF MainType, LocalNames
<1>5. Measured(0)'
  <2>1. PICK q \in Int : clock = time + ClockRange * q
    BY <1>3, SignedValue DEF time
  <2>2. clock - time - 0 * spent = ClockRange * q /\ clock - time - 0 * spent \in Int
    BY <1>3, <2>1, ClockType
  <2>3. (clock - time - 0 * spent) % ClockRange = 0
    BY <2>2, ClockType, Multiple
  <2> QED BY <1>2, <1>4, <2>3 DEF Measured
<1>6. loc'.Run_Index - 1 = 0 /\ loc'.Run_Index \in 1 .. Number_Of_Runs + 1 /\ ~(loc'.Run_Index > 1)
  BY <1>4, RunsAssumption
<1>7. Counted(loc.Run_Index - 1)' /\ Measured(loc.Run_Index - 1)'
  BY <1>1, <1>2, <1>5, <1>6 DEF Counted, Measured
<1>8. MainType' /\ Linked'
  BY <1>1, <1>2, <1>3, <1>4 DEF MainType, Linked
<1> QED BY <1>2, <1>6, <1>7, <1>8 DEF MainInv, ProgramInv, InRun

\* A run counts as one more for the cycle counter when it starts.
LEMMA StartRunStep ==
  ASSUME MainInv, StartRun
  PROVE  MainInv'
<1>1. /\ pc = "for" /\ MainType /\ Linked /\ loc.Run_Index \in 1 .. Number_Of_Runs + 1
      /\ Counted(loc.Run_Index - 1) /\ Measured(loc.Run_Index - 1)
  BY DEF StartRun, MainInv, ProgramInv
<1>2. /\ glob' = Proc_4(Proc_5(glob))
      /\ loc' = [loc EXCEPT !.Int_1_Loc = 2, !.Int_2_Loc = 3, !.Str_2_Loc = "2'ND",
                            !.Enum_Loc = Ident_2, !.Int_Loc = 2]
      /\ clock' = (clock + spent) % ClockRange
      /\ pc' = "Func_2" /\ spent' = spent
  BY DEF StartRun
<1>3. loc.Run_Index \in 1 .. Number_Of_Runs /\ loc.Run_Index \in Int
  BY <1>1, RunsAssumption DEF StartRun
<1>4. /\ DOMAIN glob' = GlobalNames /\ glob'.Ch_1_Glob = Letter.A /\ glob'.Ch_2_Glob = Letter.B
      /\ glob'.Bool_Glob = 1 /\ glob'.Ptr_Glob = glob.Ptr_Glob
      /\ glob'.Next_Ptr_Glob = glob.Next_Ptr_Glob /\ glob'.Heap = glob.Heap
      /\ glob'.Arr_1_Glob = glob.Arr_1_Glob /\ glob'.Arr_2_Glob = glob.Arr_2_Glob
  <2> DEFINE g == [glob EXCEPT !.Ch_1_Glob = Letter.A, !.Bool_Glob = 0]
  <2>1. /\ DOMAIN g = GlobalNames /\ g.Ch_1_Glob = Letter.A /\ g.Ptr_Glob = glob.Ptr_Glob
        /\ g.Next_Ptr_Glob = glob.Next_Ptr_Glob /\ g.Heap = glob.Heap
        /\ g.Arr_1_Glob = glob.Arr_1_Glob /\ g.Arr_2_Glob = glob.Arr_2_Glob
    BY <1>1 DEF MainType, GlobalNames
  <2>2. g = Proc_5(glob)
    BY DEF Proc_5
  <2> HIDE DEF g
  <2>3. glob' = [g EXCEPT !.Bool_Glob = 1, !.Ch_2_Glob = Letter.B]
    BY <1>2, <2>1, <2>2 DEF Proc_4
  <2> QED BY <2>1, <2>3 DEF GlobalNames
<1>5. /\ DOMAIN loc' = LocalNames /\ loc'.Int_1_Loc = 2 /\ loc'.Int_2_Loc = 3
      /\ loc'.Str_2_Loc = "2'ND" /\ loc'.Enum_Loc = Ident_2 /\ loc'.Int_Loc = 2
      /\ loc'.Str_1_Loc = loc.Str_1_Loc /\ loc'.Begin_Time = loc.Begin_Time
      /\ loc'.Run_Index = loc.Run_Index
  BY <1>1, <1>2 DEF MainType, LocalNames
<1>6. clock \in Int /\ spent \in Int /\ loc.Begin_Time \in Int
  BY <1>1, ClockType, RunsAssumption DEF MainType
<1>7. clock' \in 0 .. ClockRange - 1
  <2>1. clock + spent \in Int
    BY <1>6
  <2> QED BY <1>2, <2>1, ClockType, Multiple
<1>8. Measured(loc.Run_Index)'
  <2>1. PICK k \in Int : k = loc.Run_Index - 1
    BY <1>3
  <2>2. k + 1 = loc.Run_Index
    BY <1>3, <2>1
  <2>3. (clock - loc.Begin_Time - k * spent) % ClockRange = 0
    BY <1>1, <2>1 DEF Measured
  <2>4. (clock' - loc.Begin_Time - (k + 1) * spent) % ClockRange = 0
    <3>1. clock' \in Int
      BY <1>7, ClockType
    <3> QED BY <1>2, <1>6, <2>3, <3>1, ClockType, OneStepOn
  <2> QED BY <1>2, <1>5, <2>2, <2>4 DEF Measured
<1>9. MainType' /\ Linked' /\ Assigned' /\ Counted(loc.Run_Index - 1)'
  BY <1>1, <1>2, <1>4, <1>5, <1>7 DEF MainType, Linked, Assigned, Counted
<1>10. 2 \in 2 .. 3 /\ 2 # 3
  OBVIOUS
<1> QED BY <1>2, <1>3, <1>5, <1>8, <1>9, <1>10 DEF MainInv, ProgramInv, InRun

\* The first letters of the two strings are in order, and their third and fourth
\* characters differ.
LEMMA Characters ==
  /\ CharAt("1'ST", 2) = 82 /\ CharAt("2'ND", 3) = 89
  /\ ~Greater("1'ST", "2'ND")
<1>1. FirstLetter("1'ST") = 49 /\ FirstLetter("2'ND") = 50
  BY DEF FirstLetter
<1> QED BY <1>1, Numbers DEF CharAt, Greater

\* Func_1 leaves the global character alone when its arguments differ.
LEMMA Func_1Differ ==
  ASSUME NEW ch1, NEW ch2, ch1 # ch2, DOMAIN glob = GlobalNames
  PROVE  Func_1(ch1, ch2) = Ident_1 /\ Func_1Ch_1_Glob(glob, ch1, ch2) = [glob EXCEPT !.Ch_1_Glob = @]
  BY DEF Func_1, Func_1Ch_1_Glob

\* The global variables and the heap are as they were.
GlobalsKept ==
  /\ DOMAIN glob' = DOMAIN glob /\ glob'.Ch_1_Glob = glob.Ch_1_Glob /\ glob'.Ch_2_Glob = glob.Ch_2_Glob
  /\ glob'.Ptr_Glob = glob.Ptr_Glob /\ glob'.Next_Ptr_Glob = glob.Next_Ptr_Glob
  /\ glob'.Heap = glob.Heap /\ glob'.Arr_1_Glob = glob.Arr_1_Glob /\ glob'.Arr_2_Glob = glob.Arr_2_Glob

LEMMA Func_2LoopStep ==
  ASSUME MainInv, Func_2Loop
  PROVE  MainInv'
<1>1. /\ pc = "Func_2" /\ MainType /\ Linked /\ loc.Run_Index \in 1 .. Number_Of_Runs
      /\ Measured(loc.Run_Index) /\ Assigned /\ Counted(loc.Run_Index - 1) /\ loc.Int_2_Loc = 3
      /\ loc.Int_1_Loc = 2 /\ loc.Int_Loc = 2
  BY DEF Func_2Loop, MainInv, ProgramInv, InRun
<1>2. CharAt(loc.Str_1_Loc, loc.Int_Loc) = 82 /\ CharAt(loc.Str_2_Loc, loc.Int_Loc + 1) = 89
  <2>1. loc.Int_Loc + 1 = 3
    BY <1>1
  <2> QED BY <1>1, <2>1, Characters DEF Linked, Assigned
<1>3. /\ glob' = [glob EXCEPT !.Ch_1_Glob = @]
      /\ loc' = [loc EXCEPT !.Ch_Loc = Letter.A, !.Int_Loc = @ + 1]
      /\ pc' = pc /\ clock' = clock /\ spent' = spent
  <2>1. DOMAIN glob = GlobalNames /\ 82 # 89
    BY <1>1 DEF MainType
  <2> QED BY <1>2, <2>1, Func_1Differ DEF Func_2Loop
<1>4. GlobalsKept /\ glob'.Bool_Glob = glob.Bool_Glob
  BY <1>1, <1>3 DEF GlobalsKept, MainType, GlobalNames
<1>5. /\ DOMAIN loc' = LocalNames /\ loc'.Ch_Loc = Letter.A /\ loc'.Int_Loc = 3
      /\ loc'.Int_1_Loc = loc.Int_1_Loc /\ loc'.Int_2_Loc = loc.Int_2_Loc
      /\ loc'.Str_1_Loc = loc.Str_1_Loc /\ loc'.Str_2_Loc = loc.Str_2_Loc
      /\ loc'.Enum_Loc = loc.Enum_Loc /\ loc'.Begin_Time = loc.Begin_Time
      /\ loc'.Run_Index = loc.Run_Index
  BY <1>1, <1>3 DEF MainType, LocalNames
<1>6. MainType' /\ Linked' /\ Assigned' /\ Counted(loc.Run_Index - 1)' /\ Measured(loc.Run_Index)'
  BY <1>1, <1>3, <1>4, <1>5 DEF MainType, Linked, Assigned, Counted, Measured, GlobalsKept
<1>7. 3 \in 2 .. 3
  OBVIOUS
<1> QED BY <1>1, <1>3, <1>5, <1>6, <1>7 DEF MainInv, ProgramInv, InRun

LEMMA Func_2ReturnStep ==
  ASSUME MainInv, Func_2Return
  PROVE  MainInv'
<1>1. /\ pc = "Func_2" /\ MainType /\ Linked /\ loc.Run_Index \in 1 .. Number_Of_Runs
      /\ Measured(loc.Run_Index) /\ Assigned /\ Counted(loc.Run_Index - 1) /\ loc.Int_2_Loc = 3
      /\ loc.Int_1_Loc = 2 /\ loc.Int_Loc = 3 /\ loc.Ch_Loc = Letter.A
  BY DEF Func_2Return, MainInv, ProgramInv, InRun
<1>2. loc.Ch_Loc # Letter.R /\ ~Greater(loc.Str_1_Loc, loc.Str_2_Loc)
  BY <1>1, Numbers, Characters DEF Linked, Assigned
<1>3. /\ glob' = [glob EXCEPT !.Int_Glob = @, !.Bool_Glob = 1]
      /\ pc' = "while" /\ loc' = loc /\ clock' = clock /\ spent' = spent
  BY <1>2 DEF Func_2Return
<1>4. GlobalsKept /\ glob'.Bool_Glob = 1
  BY <1>1, <1>3 DEF GlobalsKept, MainType, GlobalNames
<1>5. MainType' /\ Linked' /\ Assigned' /\ Counted(loc.Run_Index - 1)' /\ Measured(loc.Run_Index)'
  BY <1>1, <1>3, <1>4 DEF MainType, Linked, Assigned, Counted, Measured, GlobalsKept
<1>6. 2 \in 2 .. 3 /\ 2 # 3
  OBVIOUS
<1> QED BY <1>1, <1>3, <1>5, <1>6 DEF MainInv, ProgramInv, InRun

LEMMA WhileBodyStep ==
  ASSUME MainInv, WhileBody
  PROVE  MainInv'
<1>1. /\ pc = "while" /\ MainType /\ Linked /\ loc.Run_Index \in 1 .. Number_Of_Runs
      /\ Measured(loc.Run_Index) /\ Assigned /\ Counted(loc.Run_Index - 1) /\ loc.Int_2_Loc = 3
      /\ loc.Int_1_Loc = 2
  BY DEF WhileBody, MainInv, ProgramInv, InRun
<1>2. /\ loc' = [loc EXCEPT !.Int_3_Loc = Proc_7(loc.Int_1_Loc, loc.Int_2_Loc), !.Int_1_Loc = @ + 1]
      /\ pc' = pc /\ glob' = glob /\ clock' = clock /\ spent' = spent
  BY DEF WhileBody
<1>3. Proc_7(loc.Int_1_Loc, loc.Int_2_Loc) = 7
  BY <1>1 DEF Proc_7
<1>4. /\ DOMAIN loc' = LocalNames /\ loc'.Int_3_Loc = 7 /\ loc'.Int_1_Loc = 3
      /\ loc'.Int_2_Loc = loc.Int_2_Loc
      /\ loc'.Str_1_Loc = loc.Str_1_Loc /\ loc'.Str_2_Loc = loc.Str_2_Loc
      /\ loc'.Enum_Loc = loc.Enum_Loc /\ loc'.Begin_Time = loc.Begin_Time
      /\ loc'.Run_Index = loc.Run_Index
  BY <1>1, <1>2, <1>3 DEF MainType, LocalNames
<1>5. MainType' /\ Linked' /\ Assigned' /\ Counted(loc.Run_Index - 1)' /\ Measured(loc.Run_Index)'
  BY <1>1, <1>2, <1>4 DEF MainType, Linked, Assigned, Counted, Measured
<1>6. 3 \in 2 .. 3
  OBVIOUS
<1> QED BY <1>1, <1>2, <1>4, <1>5, <1>6 DEF MainInv, ProgramInv, InRun

\* What Proc_8 does to the arrays (legacy/dhrystone/dhry_2.c:84-106), called as
\* main calls it.
LEMMA Proc_8Result ==
  ASSUME MainType, NEW c \in Int, glob.Arr_2_Glob[8][7] = c,
         NEW g, g = Proc_8(glob, 3, 7)
  PROVE  /\ DOMAIN g = GlobalNames /\ DOMAIN g.Arr_1_Glob = 0 .. 49
         /\ DOMAIN g.Arr_2_Glob = 0 .. 49 /\ DOMAIN g.Arr_2_Glob[8] = 0 .. 49
         /\ g.Heap = glob.Heap /\ g.Ptr_Glob = glob.Ptr_Glob /\ g.Next_Ptr_Glob = glob.Next_Ptr_Glob
         /\ g.Ch_1_Glob = glob.Ch_1_Glob /\ g.Ch_2_Glob = glob.Ch_2_Glob /\ g.Bool_Glob = glob.Bool_Glob
         /\ g.Arr_1_Glob[8] = 7 /\ g.Arr_2_Glob[8][7] = c + 1 /\ g.Int_Glob = 5
<1> DEFINE i == 3 + 5
           arr1 == [glob.Arr_1_Glob EXCEPT ![i] = 7, ![i + 1] = 7, ![i + 30] = i]
           row == [glob.Arr_2_Glob[i] EXCEPT ![i] = i, ![i + 1] = i, ![i - 1] = @ + 1]
           arr2 == [glob.Arr_2_Glob EXCEPT ![i] = row, ![i + 20][i] = arr1[i]]
<1>1. g = [glob EXCEPT !.Arr_1_Glob = arr1, !.Arr_2_Glob = arr2, !.Int_Glob = 5]
  BY DEF Proc_8
<1>2. i = 8
  OBVIOUS
<1> HIDE DEF i
<1>3. DOMAIN arr1 = 0 .. 49 /\ arr1[8] = 7
  BY <1>2 DEF MainType
<1>4. DOMAIN row = 0 .. 49 /\ row[7] = c + 1
  BY <1>2 DEF MainType
<1>5. DOMAIN arr2 = 0 .. 49 /\ arr2[8] = row
  <2> HIDE DEF row, arr1
  <2> QED BY <1>2 DEF MainType
<1> HIDE DEF arr1, arr2, row
<1> QED BY <1>1, <1>3, <1>4, <1>5 DEF MainType, GlobalNames

\* What Proc_1 makes of the two records (legacy/dhrystone/dhry_1.c:321-353): the
\* parameter is the record Ptr_Glob points to, and its successor is overwritten.
LEMMA Proc_1Result ==
  ASSUME NEW g, DOMAIN g = GlobalNames, DOMAIN g.Heap = 1 .. 2, g.Ptr_Glob = 2, g.Int_Glob = 5,
         NEW x, Holds(g.Heap[2], Ident_3, x),
         NEW f, f = Proc_1(g, g.Ptr_Glob)
  PROVE  /\ DOMAIN f = GlobalNames /\ DOMAIN f.Heap = 1 .. 2
         /\ Holds(f.Heap[1], Ident_2, 18) /\ Holds(f.Heap[2], Ident_3, 17)
         /\ f.Ptr_Glob = g.Ptr_Glob /\ f.Next_Ptr_Glob = g.Next_Ptr_Glob
         /\ f.Ch_1_Glob = g.Ch_1_Glob /\ f.Ch_2_Glob = g.Ch_2_Glob /\ f.Bool_Glob = g.Bool_Glob
         /\ f.Int_Glob = g.Int_Glob /\ f.Arr_1_Glob = g.Arr_1_Glob /\ f.Arr_2_Glob = g.Arr_2_Glob
<1> DEFINE p == g.Ptr_Glob
           next == g.Heap[p].Ptr_Comp
           copied == [[g.Heap EXCEPT ![next] = g.Heap[p]] EXCEPT ![p].Int_Comp = 5]
           h1 == [copied EXCEPT ![next].Int_Comp = copied[p].Int_Comp,
                                ![next].Ptr_Comp = copied[p].Ptr_Comp]
           g1 == [g EXCEPT !.Heap = h1]
           h2 == [h1 EXCEPT ![next].Ptr_Comp = h1[p].Ptr_Comp]
           h3 == [h2 EXCEPT ![p].Int_Comp = 17]
           h4 == [h3 EXCEPT ![next] = [@ EXCEPT !.Enum_Comp = Proc_6(g, h3[p].Enum_Comp),
                                                !.Ptr_Comp = h3[p].Ptr_Comp,
                                                !.Int_Comp = Proc_7(6, 10)]]
<1>0. p = 2
  OBVIOUS
<1> HIDE DEF p
<1>1. next = 1
  BY <1>0 DEF Holds
<1> HIDE DEF next
<1>2. DOMAIN copied = 1 .. 2 /\ Holds(copied[1], Ident_3, x) /\ Holds(copied[2], Ident_3, 5)
  <2>1. DOMAIN copied = 1 .. 2 /\ copied[1] = g.Heap[2] /\ copied[2] = [g.Heap[2] EXCEPT !.Int_Comp = 5]
    BY <1>0, <1>1
  <2>2. Holds([g.Heap[2] EXCEPT !.Int_Comp = 5], Ident_3, 5)
    BY DEF Holds
  <2> HIDE DEF copied
  <2> QED BY <2>1, <2>2
<1> HIDE DEF copied
<1>3. DOMAIN h1 = 1 .. 2 /\ Holds(h1[1], Ident_3, 5) /\ Holds(h1[2], Ident_3, 5)
  <2>1. copied[p].Int_Comp = 5 /\ copied[p].Ptr_Comp = 1
    BY <1>0, <1>2 DEF Holds
  <2>2. /\ DOMAIN h1 = 1 .. 2 /\ h1[2] = copied[2]
        /\ h1[1] = [[copied[1] EXCEPT !.Int_Comp = 5] EXCEPT !.Ptr_Comp = 1]
    BY <1>1, <1>2, <2>1
  <2>3. Holds([copied[1] EXCEPT !.Int_Comp = 5], Ident_3, 5)
    BY <1>2 DEF Holds
  <2>4. Holds([[copied[1] EXCEPT !.Int_Comp = 5] EXCEPT !.Ptr_Comp = 1], Ident_3, 5)
    BY <2>3 DEF Holds
  <2> HIDE DEF h1
  <2> QED BY <1>2, <2>2, <2>4
<1> HIDE DEF h1
<1>4. DOMAIN h2 = 1 .. 2 /\ Holds(h2[1], Ident_3, 5) /\ Holds(h2[2], Ident_3, 5)
  <2>1. h1[p].Ptr_Comp = 1
    BY <1>0, <1>3 DEF Holds
  <2>2. DOMAIN h2 = 1 .. 2 /\ h2[1] = [h1[1] EXCEPT !.Ptr_Comp = 1] /\ h2[2] = h1[2]
    BY <1>1, <1>3, <2>1
  <2>3. Holds([h1[1] EXCEPT !.Ptr_Comp = 1], Ident_3, 5)
    BY <1>3 DEF Holds
  <2> HIDE DEF h2
  <2> QED BY <1>3, <2>2, <2>3
<1> HIDE DEF h2
<1>5. DOMAIN h3 = 1 .. 2 /\ Holds(h3[1], Ident_3, 5) /\ Holds(h3[2], Ident_3, 17)
  <2>1. DOMAIN h3 = 1 .. 2 /\ h3[1] = h2[1] /\ h3[2] = [h2[2] EXCEPT !.Int_Comp = 17]
    BY <1>0, <1>4
  <2>2. Holds([h2[2] EXCEPT !.Int_Comp = 17], Ident_3, 17)
    BY <1>4 DEF Holds
  <2> HIDE DEF h3
  <2> QED BY <1>4, <2>1, <2>2
<1>6. Proc_6(g, Ident_3) = Ident_2 /\ Proc_7(6, 10) = 18 /\ Proc_7(10, 5) = 17
  <2>1. Proc_6(g, Ident_3) = Ident_2
    BY DEF Proc_6, Ident_1, Ident_2, Ident_3, Ident_4, Ident_5
  <2> QED BY <2>1 DEF Proc_7
<1>7. DOMAIN g1 = GlobalNames /\ g1.Heap = h1 /\ g1.Ptr_Glob = p /\ g1.Int_Glob = 5
  BY DEF GlobalNames, p
<1>8. [g1 EXCEPT !.Heap = h3] = [g EXCEPT !.Heap = h3]
  <2> HIDE DEF h3
  <2> QED OBVIOUS
<1>9. Proc_3(g1, next) = [g EXCEPT !.Heap = h3]
  <2>1. Proc_3(g1, next) = [g1 EXCEPT !.Heap = h3]
    <3> HIDE DEF g1
    <3> QED BY <1>0, <1>6, <1>7 DEF Proc_3, Null, h2
  <2> QED BY <1>8, <2>1
<1>10. f = [Proc_3(g1, next) EXCEPT !.Heap =
              IF Proc_3(g1, next).Heap[next].Discr = Ident_1
              THEN [Proc_3(g1, next).Heap EXCEPT ![next] =
                      [@ EXCEPT !.Enum_Comp = Proc_6(g, Proc_3(g1, next).Heap[p].Enum_Comp),
                                !.Ptr_Comp = Proc_3(g1, next).Heap[p].Ptr_Comp,
                                !.Int_Comp = Proc_7(6, 10)]]
              ELSE [Proc_3(g1, next).Heap EXCEPT
                      ![p] = Proc_3(g1, next).Heap[Proc_3(g1, next).Heap[p].Ptr_Comp]]]
  BY DEF Proc_1, p, next, copied, h1
<1>11. h3[next].Discr = Ident_1 /\ h3[p].Enum_Comp = Ident_3 /\ h3[p].Ptr_Comp = 1
  <2> HIDE DEF h3
  <2> QED BY <1>0, <1>1, <1>5 DEF Holds
<1> HIDE DEF h3, g1
<1>12. DOMAIN h4 = 1 .. 2 /\ Holds(h4[1], Ident_2, 18) /\ Holds(h4[2], Ident_3, 17)
  <2>1. /\ DOMAIN h4 = 1 .. 2 /\ h4[2] = h3[2]
        /\ h4[1] = [h3[1] EXCEPT !.Enum_Comp = Ident_2, !.Ptr_Comp = 1, !.Int_Comp = 18]
    <3>1. h4 = [h3 EXCEPT ![1] = [@ EXCEPT !.Enum_Comp = Ident_2, !.Ptr_Comp = 1, !.Int_Comp = 18]]
      BY <1>1, <1>6, <1>11
    <3> HIDE DEF h4
    <3> QED BY <1>5, <3>1
  <2>2. Holds([h3[1] EXCEPT !.Enum_Comp = Ident_2, !.Ptr_Comp = 1, !.Int_Comp = 18], Ident_2, 18)
    BY <1>5 DEF Holds
  <2> HIDE DEF h4
  <2> QED BY <1>5, <2>1, <2>2
<1>13. f = [g EXCEPT !.Heap = h4]
  <2> DEFINE l == [g EXCEPT !.Heap = h3]
  <2>1. l.Heap = h3
    BY DEF GlobalNames
  <2>2. f = [l EXCEPT !.Heap =
              IF l.Heap[next].Discr = Ident_1
              THEN [l.Heap EXCEPT ![next] =
                      [@ EXCEPT !.Enum_Comp = Proc_6(g, l.Heap[p].Enum_Comp),
                                !.Ptr_Comp = l.Heap[p].Ptr_Comp,
                                !.Int_Comp = Proc_7(6, 10)]]
              ELSE [l.Heap EXCEPT ![p] = l.Heap[l.Heap[p].Ptr_Comp]]]
    BY <1>9, <1>10
  <2> HIDE DEF l
  <2>3. f = [l EXCEPT !.Heap = h4]
    BY <1>11, <2>1, <2>2
  <2> HIDE DEF h4
  <2> QED BY <2>3 DEF l
<1> HIDE DEF h4
<1> QED BY <1>12, <1>13 DEF GlobalNames

LEMMA AfterWhileStep ==
  ASSUME MainInv, AfterWhile
  PROVE  MainInv'
<1>1. /\ pc = "while" /\ MainType /\ Linked /\ loc.Run_Index \in 1 .. Number_Of_Runs
      /\ Measured(loc.Run_Index) /\ Assigned /\ Counted(loc.Run_Index - 1) /\ loc.Int_2_Loc = 3
      /\ loc.Int_1_Loc = 3 /\ loc.Int_3_Loc = 7
  BY DEF AfterWhile, MainInv, ProgramInv, InRun
<1> DEFINE g == Proc_8(glob, 3, 7)
<1>2. /\ glob' = Proc_1(g, g.Ptr_Glob)
      /\ loc' = [loc EXCEPT !.Ch_Index = Letter.A]
      /\ pc' = "chars" /\ clock' = clock /\ spent' = spent
  BY <1>1 DEF AfterWhile
<1>3. loc.Run_Index \in Int
  BY <1>1, RunsAssumption
<1>4. PICK c \in Int : c = 10 + (loc.Run_Index - 1)
  BY <1>3
<1>5. /\ DOMAIN g = GlobalNames /\ DOMAIN g.Arr_1_Glob = 0 .. 49
      /\ DOMAIN g.Arr_2_Glob = 0 .. 49 /\ DOMAIN g.Arr_2_Glob[8] = 0 .. 49
      /\ g.Heap = glob.Heap /\ g.Ptr_Glob = glob.Ptr_Glob /\ g.Next_Ptr_Glob = glob.Next_Ptr_Glob
      /\ g.Ch_1_Glob = glob.Ch_1_Glob /\ g.Ch_2_Glob = glob.Ch_2_Glob /\ g.Bool_Glob = glob.Bool_Glob
      /\ g.Arr_1_Glob[8] = 7 /\ g.Arr_2_Glob[8][7] = c + 1 /\ g.Int_Glob = 5
  <2>1. glob.Arr_2_Glob[8][7] = c
    BY <1>1, <1>4 DEF Counted
  <2> QED BY <1>1, <2>1, Proc_8Result
<1> HIDE DEF g
<1>6. PICK x : Holds(glob.Heap[2], Ident_3, x)
  BY <1>1 DEF Linked
<1>7. DOMAIN g.Heap = 1 .. 2 /\ g.Ptr_Glob = 2 /\ Holds(g.Heap[2], Ident_3, x)
  BY <1>1, <1>5, <1>6 DEF MainType, Linked
<1>8. /\ DOMAIN glob' = GlobalNames /\ DOMAIN glob'.Heap = 1 .. 2
      /\ Holds(glob'.Heap[1], Ident_2, 18) /\ Holds(glob'.Heap[2], Ident_3, 17)
      /\ glob'.Ptr_Glob = g.Ptr_Glob /\ glob'.Next_Ptr_Glob = g.Next_Ptr_Glob
      /\ glob'.Ch_1_Glob = g.Ch_1_Glob /\ glob'.Ch_2_Glob = g.Ch_2_Glob /\ glob'.Bool_Glob = g.Bool_Glob
      /\ glob'.Int_Glob = g.Int_Glob /\ glob'.Arr_1_Glob = g.Arr_1_Glob /\ glob'.Arr_2_Glob = g.Arr_2_Glob
  BY <1>2, <1>5, <1>7, Proc_1Result
<1>9. /\ DOMAIN loc' = LocalNames /\ loc'.Ch_Index = Letter.A
      /\ loc'.Int_1_Loc = 3 /\ loc'.Int_2_Loc = 3 /\ loc'.Int_3_Loc = 7
      /\ loc'.Str_1_Loc = loc.Str_1_Loc /\ loc'.Str_2_Loc = loc.Str_2_Loc
      /\ loc'.Enum_Loc = loc.Enum_Loc /\ loc'.Begin_Time = loc.Begin_Time
      /\ loc'.Run_Index = loc.Run_Index
  BY <1>1, <1>2 DEF MainType, LocalNames
<1>10. MainType'
  BY <1>1, <1>2, <1>5, <1>8, <1>9 DEF MainType
<1>11. Linked'
  BY <1>1, <1>5, <1>8, <1>9 DEF Linked
<1>12. Assigned' /\ Measured(loc.Run_Index)'
  BY <1>1, <1>2, <1>5, <1>8, <1>9 DEF Assigned, Measured
<1>13. Updated'
  BY <1>5, <1>8 DEF Updated
<1>14. Counted(loc.Run_Index)'
  <2>1. c + 1 = 10 + loc.Run_Index
    BY <1>3, <1>4
  <2> QED BY <1>5, <1>8, <1>9, <2>1 DEF Counted
<1>15. loc'.Ch_Index \in Letter.A .. Letter.B + 1
  BY <1>9, Numbers
<1> QED BY <1>1, <1>2, <1>9, <1>10, <1>11, <1>12, <1>13, <1>14, <1>15 DEF MainInv, ProgramInv, InRun

\* The loop over the characters finds none that equals C, and so leaves what the
\* run has computed alone.
LEMMA CharsBodyStep ==
  ASSUME MainInv, CharsBody
  PROVE  MainInv'
<1>1. /\ pc = "chars" /\ MainType /\ Linked /\ loc.Run_Index \in 1 .. Number_Of_Runs
      /\ Measured(loc.Run_Index) /\ Assigned /\ Updated /\ Counted(loc.Run_Index)
      /\ loc.Int_1_Loc = 3 /\ loc.Int_2_Loc = 3 /\ loc.Int_3_Loc = 7
      /\ loc.Ch_Index \in Letter.A .. Letter.B + 1
  BY DEF CharsBody, MainInv, ProgramInv, InRun
<1>2. loc.Ch_Index \in 65 .. 66
  BY <1>1, Numbers DEF CharsBody, Assigned
<1>3. loc.Ch_Index # Letter.C
  BY <1>2, Numbers
<1>4. Func_1(loc.Ch_Index, Letter.C) = Ident_1 /\ loc.Enum_Loc # Ident_1
  BY <1>1, <1>3, Numbers DEF Func_1, Assigned
<1>5. /\ glob' = [glob EXCEPT !.Ch_1_Glob = @]
      /\ loc' = [loc EXCEPT !.Ch_Index = @ + 1]
      /\ pc' = pc /\ clock' = clock /\ spent' = spent
  <2>1. DOMAIN glob = GlobalNames
    BY <1>1 DEF MainType
  <2>2. Func_1Ch_1_Glob(glob, loc.Ch_Index, Letter.C) = [glob EXCEPT !.Ch_1_Glob = @]
    BY <1>3, <2>1, Func_1Differ
  <2> QED BY <1>4, <2>2 DEF CharsBody
<1>6. GlobalsKept /\ glob'.Bool_Glob = glob.Bool_Glob /\ glob'.Int_Glob = glob.Int_Glob
  BY <1>1, <1>5 DEF GlobalsKept, MainType, GlobalNames
<1>7. /\ DOMAIN loc' = LocalNames /\ loc'.Ch_Index = loc.Ch_Index + 1
      /\ loc'.Int_1_Loc = 3 /\ loc'.Int_2_Loc = 3 /\ loc'.Int_3_Loc = 7
      /\ loc'.Str_1_Loc = loc.Str_1_Loc /\ loc'.Str_2_Loc = loc.Str_2_Loc
      /\ loc'.Enum_Loc = loc.Enum_Loc /\ loc'.Begin_Time = loc.Begin_Time
      /\ loc'.Run_Index = loc.Run_Index
  BY <1>1, <1>5 DEF MainType, LocalNames
<1>8. MainType' /\ Linked'
  BY <1>1, <1>5, <1>6, <1>7 DEF MainType, Linked, GlobalsKept
<1>9. Assigned' /\ Updated' /\ Counted(loc.Run_Index)' /\ Measured(loc.Run_Index)'
  BY <1>1, <1>5, <1>6, <1>7 DEF Assigned, Updated, Counted, Measured, GlobalsKept
<1>10. loc'.Ch_Index \in Letter.A .. Letter.B + 1
  BY <1>2, <1>7, Numbers
<1> QED BY <1>1, <1>5, <1>7, <1>8, <1>9, <1>10 DEF MainInv, ProgramInv, InRun

LEMMA AfterCharsStep ==
  ASSUME MainInv, AfterChars
  PROVE  MainInv'
<1>1. /\ pc = "chars" /\ MainType /\ Linked /\ loc.Run_Index \in 1 .. Number_Of_Runs
      /\ Measured(loc.Run_Index) /\ Assigned /\ Updated /\ Counted(loc.Run_Index)
      /\ loc.Int_1_Loc = 3 /\ loc.Int_2_Loc = 3 /\ loc.Int_3_Loc = 7
  BY DEF AfterChars, MainInv, ProgramInv, InRun
<1>2. /\ loc' = [loc EXCEPT !.Int_1_Loc = 1, !.Int_2_Loc = 13]
      /\ pc' = "Proc_2" /\ glob' = glob /\ clock' = clock /\ spent' = spent
  <2>1. 3 * 3 = 9 /\ 9 \div 7 = 1 /\ 7 * (9 - 7) - 1 = 13
    OBVIOUS
  <2> QED BY <1>1, <2>1 DEF AfterChars
<1>3. /\ DOMAIN loc' = LocalNames
      /\ loc'.Int_1_Loc = 1 /\ loc'.Int_2_Loc = 13 /\ loc'.Int_3_Loc = 7
      /\ loc'.Str_1_Loc = loc.Str_1_Loc /\ loc'.Str_2_Loc = loc.Str_2_Loc
      /\ loc'.Enum_Loc = loc.Enum_Loc /\ loc'.Begin_Time = loc.Begin_Time
      /\ loc'.Run_Index = loc.Run_Index
  BY <1>1, <1>2 DEF MainType, LocalNames
<1>4. MainType' /\ Linked'
  BY <1>1, <1>2, <1>3 DEF MainType, Linked
<1>5. Assigned' /\ Updated' /\ Counted(loc.Run_Index)' /\ Measured(loc.Run_Index)'
  BY <1>1, <1>2, <1>3 DEF Assigned, Updated, Counted, Measured
<1> QED BY <1>1, <1>2, <1>3, <1>4, <1>5 DEF MainInv, ProgramInv, InRun

\* The uninitialized variable of Proc_2 is assigned before it is read.
LEMMA Proc_2LoopStep ==
  ASSUME MainInv, Proc_2Loop
  PROVE  MainInv'
<1>1. /\ pc = "Proc_2" /\ MainType /\ Linked /\ loc.Run_Index \in 1 .. Number_Of_Runs
      /\ Measured(loc.Run_Index) /\ Assigned /\ Updated /\ Counted(loc.Run_Index)
      /\ loc.Int_1_Loc = 1 /\ loc.Int_2_Loc = 13 /\ loc.Int_3_Loc = 7
  BY DEF Proc_2Loop, MainInv, ProgramInv, InRun
<1>2. /\ loc' = [loc EXCEPT !.Int_1_Loc = 5]
      /\ pc' = "next" /\ glob' = glob /\ clock' = clock /\ spent' = spent
  <2>1. (1 + 10) - 1 - 5 = 5
    OBVIOUS
  <2>2. glob.Ch_1_Glob = Letter.A /\ glob.Int_Glob = 5
    BY <1>1 DEF Assigned, Updated
  <2> QED BY <1>1, <2>1, <2>2 DEF Proc_2Loop
<1>3. /\ DOMAIN loc' = LocalNames
      /\ loc'.Int_1_Loc = 5 /\ loc'.Int_2_Loc = 13 /\ loc'.Int_3_Loc = 7
      /\ loc'.Str_1_Loc = loc.Str_1_Loc /\ loc'.Str_2_Loc = loc.Str_2_Loc
      /\ loc'.Enum_Loc = loc.Enum_Loc /\ loc'.Begin_Time = loc.Begin_Time
      /\ loc'.Run_Index = loc.Run_Index
  BY <1>1, <1>2 DEF MainType, LocalNames
<1>4. MainType' /\ Linked'
  BY <1>1, <1>2, <1>3 DEF MainType, Linked
<1>5. Assigned' /\ Updated' /\ Counted(loc.Run_Index)' /\ Measured(loc.Run_Index)'
  BY <1>1, <1>2, <1>3 DEF Assigned, Updated, Counted, Measured
<1> QED BY <1>1, <1>2, <1>3, <1>4, <1>5 DEF MainInv, ProgramInv, InRun

LEMMA NextRunStep ==
  ASSUME MainInv, NextRun
  PROVE  MainInv'
<1>1. /\ pc = "next" /\ MainType /\ Linked /\ loc.Run_Index \in 1 .. Number_Of_Runs
      /\ Measured(loc.Run_Index) /\ Assigned /\ Updated /\ Counted(loc.Run_Index)
      /\ loc.Int_1_Loc = 5 /\ loc.Int_2_Loc = 13 /\ loc.Int_3_Loc = 7
  BY DEF NextRun, MainInv, ProgramInv, InRun
<1>2. /\ loc' = [loc EXCEPT !.Run_Index = @ + 1]
      /\ pc' = "for" /\ glob' = glob /\ clock' = clock /\ spent' = spent
  BY DEF NextRun
<1>3. /\ DOMAIN loc' = LocalNames /\ loc'.Run_Index = loc.Run_Index + 1
      /\ loc'.Int_1_Loc = 5 /\ loc'.Int_2_Loc = 13 /\ loc'.Int_3_Loc = 7
      /\ loc'.Str_1_Loc = loc.Str_1_Loc /\ loc'.Str_2_Loc = loc.Str_2_Loc
      /\ loc'.Enum_Loc = loc.Enum_Loc /\ loc'.Begin_Time = loc.Begin_Time
  BY <1>1, <1>2 DEF MainType, LocalNames
<1>4. MainType' /\ Linked'
  BY <1>1, <1>2, <1>3 DEF MainType, Linked
<1>5. RunDone'
  BY <1>1, <1>2, <1>3 DEF RunDone, Assigned, Updated
<1>6. loc'.Run_Index \in 1 .. Number_Of_Runs + 1 /\ loc'.Run_Index - 1 = loc.Run_Index
  BY <1>1, <1>3, RunsAssumption
<1>7. Counted(loc.Run_Index - 1)' /\ Measured(loc.Run_Index - 1)'
  BY <1>1, <1>2, <1>3, <1>6 DEF Counted, Measured
<1> QED BY <1>2, <1>4, <1>5, <1>6, <1>7 DEF MainInv, ProgramInv, InRun

\* A time that is short enough for the signed type is read off two values of the
\* counter, wherever it changes its sign or wraps.
LEMMA Elapsed ==
  ASSUME NEW t \in Nat, t < SignBit, NEW x \in Int, NEW from \in Int,
         (x - from - t) % ClockRange = 0
  PROVE  Signed(Signed(x) - from) = t
<1>1. PICK q \in Int : x - from - t = ClockRange * q
  <2>1. x - from - t \in Int
    OBVIOUS
  <2> QED BY <2>1, ClockType, Multiple
<1>2. PICK r \in Int : x = Signed(x) + ClockRange * r
  BY SignedValue
<1>3. PICK s \in Int : s = Signed(x)
  BY SignedValue
<1>4. s - from = t + ClockRange * (q - r) /\ q - r \in Int
  <2>1. s = t + from + ClockRange * q - ClockRange * r
    BY <1>1, <1>2, <1>3, ClockType
  <2>2. ClockRange * (q - r) = ClockRange * q - ClockRange * r
    BY ClockType
  <2> QED BY <2>1, <2>2, ClockType
<1>5. t \in 0 .. ClockRange - 1
  BY ClockType
<1>6. (s - from) % ClockRange = t
  BY <1>4, <1>5, ClockType, Quotient
<1> QED BY <1>3, <1>6, SignedValue

LEMMA EndMeasurementStep ==
  ASSUME MainInv, EndMeasurement
  PROVE  MainInv'
<1>1. /\ pc = "for" /\ MainType /\ Linked /\ loc.Run_Index \in 1 .. Number_Of_Runs + 1
      /\ Counted(loc.Run_Index - 1) /\ Measured(loc.Run_Index - 1)
      /\ loc.Run_Index > 1 => RunDone
  BY DEF EndMeasurement, MainInv, ProgramInv
<1>2. /\ loc' = [loc EXCEPT !.User_Time = Signed(time - loc.Begin_Time)]
      /\ pc' = "done" /\ glob' = glob /\ clock' = clock /\ spent' = spent
  BY DEF EndMeasurement
<1>3. loc.Run_Index - 1 = Number_Of_Runs /\ loc.Run_Index > 1
  BY <1>1, RunsAssumption DEF EndMeasurement
<1>4. Signed(time - loc.Begin_Time) = Number_Of_Runs * spent
  <2>1. Number_Of_Runs * spent \in Nat /\ Number_Of_Runs * spent < SignBit
    BY <1>1, RunsAssumption DEF MainType
  <2>2. clock \in Int /\ loc.Begin_Time \in Int
    BY <1>1, ClockType DEF MainType
  <2>3. (clock - loc.Begin_Time - Number_Of_Runs * spent) % ClockRange = 0
    BY <1>1, <1>3 DEF Measured
  <2> QED BY <2>1, <2>2, <2>3, Elapsed DEF time
<1>5. /\ DOMAIN loc' = LocalNames /\ loc'.User_Time = Number_Of_Runs * spent
      /\ loc'.Int_1_Loc = loc.Int_1_Loc /\ loc'.Int_2_Loc = loc.Int_2_Loc
      /\ loc'.Int_3_Loc = loc.Int_3_Loc
      /\ loc'.Str_1_Loc = loc.Str_1_Loc /\ loc'.Str_2_Loc = loc.Str_2_Loc
      /\ loc'.Enum_Loc = loc.Enum_Loc /\ loc'.Begin_Time = loc.Begin_Time
  BY <1>1, <1>2, <1>4 DEF MainType, LocalNames
<1>6. MainType' /\ Linked'
  BY <1>1, <1>2, <1>5 DEF MainType, Linked
<1>7. RunDone'
  BY <1>1, <1>2, <1>3, <1>5 DEF RunDone, Assigned, Updated
<1>8. Counted(Number_Of_Runs)'
  BY <1>1, <1>2, <1>3 DEF Counted
<1> QED BY <1>2, <1>5, <1>6, <1>7, <1>8 DEF MainInv, ProgramInv, InRun

LEMMA MainStep ==
  ASSUME MainInv, MainNext \/ UNCHANGED mainVars
  PROVE  MainInv'
<1>1. CASE MainNext
  BY <1>1, InitializeStep, BeginMeasurementStep, StartRunStep, Func_2LoopStep, Func_2ReturnStep,
     WhileBodyStep, AfterWhileStep, CharsBodyStep, AfterCharsStep, Proc_2LoopStep, NextRunStep,
     EndMeasurementStep DEF MainNext
<1>2. CASE UNCHANGED mainVars
  <2>1. pc' = pc /\ glob' = glob /\ loc' = loc /\ clock' = clock /\ spent' = spent
    BY <1>2 DEF mainVars
  <2> QED BY <2>1 DEF MainInv, ProgramInv, MainType, Linked, Counted, Measured, Assigned, Updated,
                      RunDone, InRun
<1> QED BY <1>1, <1>2

LEMMA MainInvariant == Spec => []MainInv
<1>1. ASSUME Init PROVE MainInv
  <2>1. CASE MainInit
    BY <2>1, MainStarts
  <2>2. CASE MainIdle
    BY <2>2 DEF MainIdle, MainInv
  <2> QED BY <1>1, <2>1, <2>2 DEF Init
<1>2. MainInv /\ [Next]_vars => MainInv'
  BY MainStep DEF Next, vars
<1> QED BY <1>1, <1>2, PTL DEF Spec

\* Between the statements of its loop main's variables have the values main's own
\* comments state (legacy/dhrystone/dhry_1.c:156-198), in every run of any number
\* of runs.
THEOREM MainCommentsAreTrue == Spec => []MainCommentsHold
<1>1. MainInv => MainCommentsHold
  <2> SUFFICES ASSUME MainInv PROVE MainCommentsHold
    OBVIOUS
  <2>1. CASE pc \in {"Func_2", "while", "chars", "Proc_2", "next"}
    <3>1. ProgramInv
      BY <2>1 DEF MainInv
    <3>2. Linked /\ Assigned /\ loc.Run_Index \in Int
      BY <2>1, <3>1, RunsAssumption DEF ProgramInv, InRun
    <3>3. pc = "chars" => Updated
      BY <3>1 DEF ProgramInv
    <3>4. pc = "chars" => glob.Heap[glob.Next_Ptr_Glob].Ptr_Comp = glob.Heap[glob.Ptr_Glob].Ptr_Comp
      BY <3>2, <3>3 DEF Linked, Updated, Holds
    <3>5. pc = "next" => glob.Arr_2_Glob[8][7] = loc.Run_Index + 10
      BY <3>1, <3>2 DEF ProgramInv, Counted
    <3>6. pc = "Func_2" => glob.Ch_1_Glob = Letter.A /\ glob.Ch_2_Glob = Letter.B /\ glob.Bool_Glob = 1
      BY <3>2 DEF Assigned
    <3>7. pc = "while" => /\ glob.Bool_Glob = 1
                          /\ loc.Int_1_Loc = 3 => loc.Int_2_Loc = 3 /\ loc.Int_3_Loc = 7
      BY <3>1, <3>2 DEF ProgramInv, Assigned
    <3>8. pc = "chars" => /\ loc.Int_1_Loc = 3 /\ loc.Int_2_Loc = 3 /\ loc.Int_3_Loc = 7
                          /\ glob.Int_Glob = 5
      BY <3>1, <3>3 DEF ProgramInv, Updated
    <3>9. /\ pc = "Proc_2" => loc.Int_1_Loc = 1 /\ loc.Int_2_Loc = 13 /\ loc.Int_3_Loc = 7
          /\ pc = "next" => loc.Int_1_Loc = 5
      BY <3>1 DEF ProgramInv
    <3> QED BY <3>4, <3>5, <3>6, <3>7, <3>8, <3>9 DEF MainCommentsHold
  <2>2. CASE pc \notin {"Func_2", "while", "chars", "Proc_2", "next"}
    BY <2>2 DEF MainCommentsHold
  <2> QED BY <2>1, <2>2
<1> QED BY <1>1, MainInvariant, PTL

\* The program prints the values it says it should print, and the time it reports
\* is what the runs took, for every cycle counter a measurement fits into and
\* wherever it starts (legacy/dhrystone/dhry_1.c:206-270).
THEOREM ReportsAreRight == Spec => []ReportIsRight
<1>1. MainInv => ReportIsRight
  <2> SUFFICES ASSUME MainInv, pc = "done"
               PROVE  /\ \A k \in DOMAIN Printed : Printed[k][1] = Printed[k][2]
                      /\ loc.User_Time = Number_Of_Runs * spent
    BY DEF ReportIsRight
  <2>1. Linked /\ Assigned /\ Updated /\ RunDone /\ Counted(Number_Of_Runs)
        /\ loc.User_Time = Number_Of_Runs * spent
    BY DEF MainInv, ProgramInv, RunDone
  <2>2. glob.Arr_2_Glob[8][7] = Number_Of_Runs + 10
    BY <2>1, RunsAssumption DEF Counted
  <2> DEFINE ptr == glob.Heap[glob.Ptr_Glob]
             next == glob.Heap[glob.Next_Ptr_Glob]
  <2>3. Holds(ptr, Ident_3, 17) /\ Holds(next, Ident_2, 18)
    BY <2>1 DEF Linked, Updated
  <2> HIDE DEF ptr, next
  <2>4. /\ ptr.Discr = 0 /\ ptr.Enum_Comp = 2 /\ ptr.Int_Comp = 17 /\ ptr.Str_Comp = "SOME"
        /\ next.Ptr_Comp = ptr.Ptr_Comp /\ next.Discr = 0 /\ next.Enum_Comp = 1 /\ next.Int_Comp = 18
        /\ next.Str_Comp = "SOME"
    BY <2>3, Numbers DEF Holds
  <2>5. /\ glob.Int_Glob = 5 /\ glob.Bool_Glob = 1 /\ glob.Ch_1_Glob = Letter.A
        /\ glob.Ch_2_Glob = Letter.B /\ glob.Arr_1_Glob[8] = 7
        /\ loc.Int_1_Loc = 5 /\ loc.Int_2_Loc = 13 /\ loc.Int_3_Loc = 7 /\ loc.Enum_Loc = 1
        /\ loc.Str_1_Loc = "1'ST" /\ loc.Str_2_Loc = "2'ND"
    BY <2>1, Numbers DEF Linked, Assigned, Updated, RunDone
  <2>6. Printed =
          << <<glob.Int_Glob, 5>>, <<glob.Bool_Glob, 1>>, <<glob.Ch_1_Glob, Letter.A>>,
             <<glob.Ch_2_Glob, Letter.B>>, <<glob.Arr_1_Glob[8], 7>>,
             <<glob.Arr_2_Glob[8][7], Number_Of_Runs + 10>>,
             <<ptr.Discr, 0>>, <<ptr.Enum_Comp, 2>>, <<ptr.Int_Comp, 17>>, <<ptr.Str_Comp, "SOME">>,
             <<next.Ptr_Comp, ptr.Ptr_Comp>>, <<next.Discr, 0>>, <<next.Enum_Comp, 1>>,
             <<next.Int_Comp, 18>>, <<next.Str_Comp, "SOME">>,
             <<loc.Int_1_Loc, 5>>, <<loc.Int_2_Loc, 13>>, <<loc.Int_3_Loc, 7>>, <<loc.Enum_Loc, 1>>,
             <<loc.Str_1_Loc, "1'ST">>, <<loc.Str_2_Loc, "2'ND">> >>
    BY DEF Printed, ptr, next
  <2>7. \A k \in DOMAIN Printed : Printed[k][1] = Printed[k][2]
    BY <2>2, <2>4, <2>5, <2>6
  <2> QED BY <2>1, <2>7
<1> QED BY <1>1, MainInvariant, PTL

=============================================================================
