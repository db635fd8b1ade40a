------------------------------- MODULE AesProofs -------------------------------
(***************************************************************************)
(* Proofs, for any key, any initialization vector and any text of whole    *)
(* blocks, that what is decrypted is what was encrypted, transformation by *)
(* transformation.  The key schedule is not looked at: whatever is in      *)
(* RoundKey, it is taken off as it was put on.                             *)
(***************************************************************************)
EXTENDS Aes, TLAPS

-----------------------------------------------------------------------------
(* Bytes and their bits                                                    *)

LEMMA Weights ==
  /\ Weight[1] = 1 /\ Weight[2] = 2 /\ Weight[3] = 4 /\ Weight[4] = 8
  /\ Weight[5] = 16 /\ Weight[6] = 32 /\ Weight[7] = 64 /\ Weight[8] = 128
BY DEF Weight

LEMMA XorByte ==
  ASSUME NEW a, NEW b
  PROVE  a ## b \in Byte
<1> DEFINE d(i) == Differ(a, b, i)
<1>1. /\ d(0) \in {0, 1} /\ d(1) \in {0, 2} /\ d(2) \in {0, 4} /\ d(3) \in {0, 8}
      /\ d(4) \in {0, 16} /\ d(5) \in {0, 32} /\ d(6) \in {0, 64} /\ d(7) \in {0, 128}
  BY Weights DEF Differ
<1>2. a ## b = d(0) + d(1) + d(2) + d(3) + d(4) + d(5) + d(6) + d(7)
  BY DEF ##
<1> HIDE DEF d
<1> QED BY <1>1, <1>2 DEF Byte

\* A bit of a ## b is set where a and b differ, whatever a and b are.
LEMMA XorOn ==
  ASSUME NEW a, NEW b, NEW k \in Bits
  PROVE  On(a ## b, k) <=> ~(On(a, k) <=> On(b, k))
<1>1. \A i \in Bits : /\ Differ(a, b, i) \in {0, Weight[i + 1]}
                      /\ Differ(a, b, i) # 0 <=> ~(On(a, i) <=> On(b, i))
  BY Weights DEF Differ, Bits
<1> DEFINE d(i) == Differ(a, b, i)
<1>2. a ## b = d(0) + d(1) + d(2) + d(3) + d(4) + d(5) + d(6) + d(7)
  BY DEF ##
<1>3. d(k) # 0 <=> ~(On(a, k) <=> On(b, k))
  BY <1>1
<1>4. On(a ## b, k) <=> d(k) # 0
  <2>1. \A i \in Bits : d(i) \in {0, Weight[i + 1]}
    BY <1>1
  <2> HIDE DEF d
  <2> QED BY <1>2, <2>1, Weights, SMTT(60) DEF On, Bit, Bits
<1> QED BY <1>3, <1>4

\* The quotients of a byte by the powers of two.
LEMMA Halves ==
  ASSUME NEW y \in Byte
  PROVE  /\ y = 2 * (y \div 2) + (y % 2)
         /\ y \div 2 = 2 * (y \div 4) + ((y \div 2) % 2)
         /\ y \div 4 = 2 * (y \div 8) + ((y \div 4) % 2)
         /\ y \div 8 = 2 * (y \div 16) + ((y \div 8) % 2)
         /\ y \div 16 = 2 * (y \div 32) + ((y \div 16) % 2)
         /\ y \div 32 = 2 * (y \div 64) + ((y \div 32) % 2)
         /\ y \div 64 = 2 * (y \div 128) + ((y \div 64) % 2)
         /\ y \div 128 = (y \div 128) % 2
<1>1. y = 2 * (y \div 2) + (y % 2)
  BY DEF Byte
<1>2. y \div 2 = 2 * (y \div 4) + ((y \div 2) % 2)
  BY DEF Byte
<1>3. y \div 4 = 2 * (y \div 8) + ((y \div 4) % 2)
  BY DEF Byte
<1>4. y \div 8 = 2 * (y \div 16) + ((y \div 8) % 2)
  BY DEF Byte
<1>5. y \div 16 = 2 * (y \div 32) + ((y \div 16) % 2)
  BY DEF Byte
<1>6. y \div 32 = 2 * (y \div 64) + ((y \div 32) % 2)
  BY DEF Byte
<1>7. y \div 64 = 2 * (y \div 128) + ((y \div 64) % 2)
  BY DEF Byte
<1>8. y \div 128 = (y \div 128) % 2
  BY DEF Byte
<1> QED BY <1>1, <1>2, <1>3, <1>4, <1>5, <1>6, <1>7, <1>8

LEMMA SameBits ==
  ASSUME NEW a \in Byte, NEW b \in Byte, \A k \in Bits : On(a, k) <=> On(b, k)
  PROVE  a = b
<1>1. a \in Int /\ b \in Int
  BY DEF Byte
<1>2. \A k \in Bits : (a \div Weight[k + 1]) % 2 = (b \div Weight[k + 1]) % 2
  <2> TAKE k \in Bits
  <2>1. Weight[k + 1] \in {1, 2, 4, 8, 16, 32, 64, 128}
    BY Weights DEF Bits
  <2>2. (a \div Weight[k + 1]) % 2 \in {0, 1} /\ (b \div Weight[k + 1]) % 2 \in {0, 1}
    BY <1>1, <2>1
  <2> QED BY <2>2 DEF On, Bit
<1>3. /\ a % 2 = b % 2 /\ (a \div 2) % 2 = (b \div 2) % 2 /\ (a \div 4) % 2 = (b \div 4) % 2
      /\ (a \div 8) % 2 = (b \div 8) % 2 /\ (a \div 16) % 2 = (b \div 16) % 2
      /\ (a \div 32) % 2 = (b \div 32) % 2 /\ (a \div 64) % 2 = (b \div 64) % 2
      /\ (a \div 128) % 2 = (b \div 128) % 2
  <2>1. /\ 0 \in Bits /\ 1 \in Bits /\ 2 \in Bits /\ 3 \in Bits
        /\ 4 \in Bits /\ 5 \in Bits /\ 6 \in Bits /\ 7 \in Bits
    BY DEF Bits
  <2>2. a \div 1 = a /\ b \div 1 = b
    BY <1>1
  <2> QED BY <1>2, <2>1, <2>2, Weights
<1> DEFINE Chain(y) ==
      /\ y = 2 * (y \div 2) + (y % 2)
      /\ y \div 2 = 2 * (y \div 4) + ((y \div 2) % 2)
      /\ y \div 4 = 2 * (y \div 8) + ((y \div 4) % 2)
      /\ y \div 8 = 2 * (y \div 16) + ((y \div 8) % 2)
      /\ y \div 16 = 2 * (y \div 32) + ((y \div 16) % 2)
      /\ y \div 32 = 2 * (y \div 64) + ((y \div 32) % 2)
      /\ y \div 64 = 2 * (y \div 128) + ((y \div 64) % 2)
      /\ y \div 128 = (y \div 128) % 2
<1>4. Chain(a) /\ Chain(b)
  BY Halves
<1>5. a \div 128 = b \div 128
  BY <1>3, <1>4
<1>6. a \div 64 = b \div 64
  BY <1>3, <1>4, <1>5
<1>7. a \div 32 = b \div 32
  BY <1>3, <1>4, <1>6
<1>8. a \div 16 = b \div 16
  BY <1>3, <1>4, <1>7
<1>9. a \div 8 = b \div 8
  BY <1>3, <1>4, <1>8
<1>10. a \div 4 = b \div 4
  BY <1>3, <1>4, <1>9
<1>11. a \div 2 = b \div 2
  BY <1>3, <1>4, <1>10
<1> QED BY <1>3, <1>4, <1>11

\* What is put on twice is taken off.
LEMMA XorTwice ==
  ASSUME NEW a \in Byte, NEW b
  PROVE  (a ## b) ## b = a
<1>1. (a ## b) ## b \in Byte
  BY XorByte
<1>2. \A k \in Bits : On((a ## b) ## b, k) <=> On(a, k)
  BY XorOn
<1> QED BY <1>1, <1>2, SameBits

LEMMA Zero ==
  /\ 0 \in Byte
  /\ \A k \in Bits : ~On(0, k)
<1>1. \A k \in Bits : Weight[k + 1] \in {1, 2, 4, 8, 16, 32, 64, 128}
  BY Weights DEF Bits
<1> QED BY <1>1 DEF On, Bit, Byte

-----------------------------------------------------------------------------
(* xtime is linear                                                         *)

LEMMA DoubledOn ==
  ASSUME NEW x \in Byte
  PROVE  /\ (2 * x) % 256 \in Byte
         /\ ~On((2 * x) % 256, 0)
         /\ \A k \in 1 .. 7 : On((2 * x) % 256, k) <=> On(x, k - 1)
         /\ x >= 128 <=> On(x, 7)
<1>1. x \in Int /\ x \in 0 .. 255
  BY DEF Byte
<1>2. (2 * x) % 256 \in Byte
  BY <1>1 DEF Byte
<1>3. ~On((2 * x) % 256, 0)
  BY <1>1, Weights DEF On, Bit
<1>4. x >= 128 <=> On(x, 7)
  BY <1>1, Weights DEF On, Bit
<1>5. \A k \in 1 .. 7 : On((2 * x) % 256, k) <=> On(x, k - 1)
  <2>1. (2 * x) % 256 = 2 * (x % 128)
    BY <1>1
  <2>2. ((2 * x) % 256) \div 2 = x % 128
    BY <1>1
  <2>3. On((2 * x) % 256, 1) <=> On(x, 0)
    BY <1>1, Weights DEF On, Bit
  <2>4. On((2 * x) % 256, 2) <=> On(x, 1)
    BY <1>1, Weights DEF On, Bit
  <2>5. On((2 * x) % 256, 3) <=> On(x, 2)
    BY <1>1, Weights DEF On, Bit
  <2>6. On((2 * x) % 256, 4) <=> On(x, 3)
    BY <1>1, Weights DEF On, Bit
  <2>7. On((2 * x) % 256, 5) <=> On(x, 4)
    BY <1>1, Weights DEF On, Bit
  <2>8. On((2 * x) % 256, 6) <=> On(x, 5)
    BY <1>1, Weights DEF On, Bit
  <2>9. On((2 * x) % 256, 7) <=> On(x, 6)
    BY <1>1, Weights DEF On, Bit
  <2>10. \A k \in 1 .. 7 : k = 1 \/ k = 2 \/ k = 3 \/ k = 4 \/ k = 5 \/ k = 6 \/ k = 7
    OBVIOUS
  <2> QED BY <2>3, <2>4, <2>5, <2>6, <2>7, <2>8, <2>9, <2>10
<1> QED BY <1>2, <1>3, <1>4, <1>5

LEMMA xtimeByte == ASSUME NEW x PROVE xtime(x) \in Byte
BY XorByte DEF xtime

LEMMA xtimeOn ==
  ASSUME NEW x \in Byte, NEW k \in Bits
  PROVE  On(xtime(x), k) <=>
           IF k = 0 THEN On(x, 7)
           ELSE IF k \in {1, 3, 4} THEN ~(On(x, k - 1) <=> On(x, 7)) ELSE On(x, k - 1)
<1> DEFINE back == IF x >= 128 THEN \h1b ELSE 0
<1>1. On(back, k) <=> k \in {0, 1, 3, 4} /\ On(x, 7)
  <2>1. \A j \in Bits : On(27, j) <=> j \in {0, 1, 3, 4}
    BY Weights DEF On, Bit, Bits
  <2> QED BY <2>1, Zero, DoubledOn
<1>2. On(xtime(x), k) <=> ~(On((2 * x) % 256, k) <=> On(back, k))
  BY XorOn DEF xtime
<1>3. k = 0 \/ k \in 1 .. 7
  BY DEF Bits
<1> QED BY <1>1, <1>2, <1>3, DoubledOn

\* xtime(a ^ b) = xtime(a) ^ xtime(b).
LEMMA xtimeLinear ==
  ASSUME NEW a \in Byte, NEW b \in Byte
  PROVE  xtime(a ## b) = xtime(a) ## xtime(b)
<1>1. a ## b \in Byte /\ xtime(a ## b) \in Byte /\ xtime(a) ## xtime(b) \in Byte
  BY XorByte, xtimeByte
<1>2. \A k \in Bits : On(xtime(a ## b), k) <=> On(xtime(a) ## xtime(b), k)
  <2> TAKE k \in Bits
  <2>1. On(xtime(a) ## xtime(b), k) <=> ~(On(xtime(a), k) <=> On(xtime(b), k))
    BY XorOn
  <2>2. 7 \in Bits /\ (k # 0 => k - 1 \in Bits)
    BY DEF Bits
  <2>3. /\ On(a ## b, 7) <=> ~(On(a, 7) <=> On(b, 7))
        /\ k # 0 => (On(a ## b, k - 1) <=> ~(On(a, k - 1) <=> On(b, k - 1)))
    BY <2>2, XorOn
  <2>4. CASE k = 0
    BY <1>1, <2>1, <2>3, <2>4, xtimeOn
  <2>5. CASE k # 0 /\ k \in {1, 3, 4}
    BY <1>1, <2>1, <2>3, <2>5, xtimeOn
  <2>6. CASE k # 0 /\ k \notin {1, 3, 4}
    BY <1>1, <2>1, <2>3, <2>6, xtimeOn
  <2> QED BY <2>4, <2>5, <2>6
<1> QED BY <1>1, <1>2, SameBits

-----------------------------------------------------------------------------
(* The exclusive or, as a sum                                              *)

LEMMA XorComm ==
  ASSUME NEW a \in Byte, NEW b \in Byte
  PROVE  a ## b = b ## a
BY XorByte, XorOn, SameBits

LEMMA XorAssoc ==
  ASSUME NEW a \in Byte, NEW b \in Byte, NEW c \in Byte
  PROVE  (a ## b) ## c = a ## (b ## c)
<1>1. (a ## b) ## c \in Byte /\ a ## (b ## c) \in Byte
  BY XorByte
<1>2. \A k \in Bits : On((a ## b) ## c, k) <=> On(a ## (b ## c), k)
  BY XorOn
<1> QED BY <1>1, <1>2, SameBits

LEMMA XorZero ==
  ASSUME NEW a \in Byte
  PROVE  a ## 0 = a /\ 0 ## a = a /\ a ## a = 0
<1>1. a ## 0 \in Byte /\ 0 ## a \in Byte /\ a ## a \in Byte /\ 0 \in Byte
  BY XorByte, Zero
<1>2. \A k \in Bits : /\ On(a ## 0, k) <=> On(a, k)
                      /\ On(0 ## a, k) <=> On(a, k)
                      /\ On(a ## a, k) <=> On(0, k)
  BY XorOn, Zero
<1> QED BY <1>1, <1>2, SameBits

-----------------------------------------------------------------------------
(* Each transformation of InvCipher takes back its transformation of Cipher *)

LEMMA XorBlockType ==
  ASSUME NEW s, NEW key
  PROVE  XorBlocks(s, key) \in Block
BY XorByte DEF XorBlocks, Block

\* AddRoundKey and XorWithIv take back themselves, whatever the key is.
LEMMA AddRoundKeyTwice ==
  ASSUME NEW s \in Block, NEW key
  PROVE  XorBlocks(XorBlocks(s, key), key) = s
<1>1. \A k \in 1 .. 16 : s[k] \in Byte
  BY DEF Block
<1>2. \A k \in 1 .. 16 : (s[k] ## key[k]) ## key[k] = s[k]
  BY <1>1, XorTwice
<1> QED BY <1>2 DEF XorBlocks, Block

LEMMA BoxBytes == \A b \in Byte : sbox[b + 1] \in Byte
BY SMTT(60) DEF sbox, Byte

LEMMA BoxInverse == \A b \in Byte : rsbox[sbox[b + 1] + 1] = b
BY SMTT(60) DEF sbox, rsbox, Byte

LEMMA SubBytesInverse ==
  ASSUME NEW s \in Block
  PROVE  SubBytes(s) \in Block /\ InvSubBytes(SubBytes(s)) = s
<1>1. \A k \in 1 .. 16 : s[k] \in Byte
  BY DEF Block
<1>2. SubBytes(s) \in Block
  BY <1>1, BoxBytes DEF SubBytes, Block, getSBoxValue
<1>3. \A k \in 1 .. 16 : getSBoxInvert(getSBoxValue(s[k])) = s[k]
  BY <1>1, BoxInverse DEF getSBoxValue, getSBoxInvert
<1> QED BY <1>2, <1>3 DEF SubBytes, InvSubBytes, Block

LEMMA RowsAndColumns ==
  ASSUME NEW k \in 1 .. 16
  PROVE  /\ Col(k) \in Cols /\ Row(k) \in Cols /\ At(Col(k), Row(k)) = k
         /\ \A i, j \in Cols : At(i, j) \in 1 .. 16 /\ Col(At(i, j)) = i /\ Row(At(i, j)) = j
BY DEF Col, Row, At, Cols

LEMMA ShiftRowsInverse ==
  ASSUME NEW s \in Block
  PROVE  ShiftRows(s) \in Block /\ InvShiftRows(ShiftRows(s)) = s
<1>1. \A k \in 1 .. 16 :
        /\ At((Col(k) + Row(k)) % 4, Row(k)) \in 1 .. 16
        /\ At((Col(k) + 4 - Row(k)) % 4, Row(k)) \in 1 .. 16
  BY RowsAndColumns DEF Cols
<1>2. \A k \in 1 .. 16 :
        LET j == At((Col(k) + 4 - Row(k)) % 4, Row(k))
        IN At((Col(j) + Row(j)) % 4, Row(j)) = k
  <2> TAKE k \in 1 .. 16
  <2> DEFINE i == (Col(k) + 4 - Row(k)) % 4
  <2>1. Col(k) \in 0 .. 3 /\ Row(k) \in 0 .. 3 /\ At(Col(k), Row(k)) = k
    BY RowsAndColumns DEF Cols
  <2>2. i \in 0 .. 3 /\ (i + Row(k)) % 4 = Col(k)
    BY <2>1
  <2>3. Col(At(i, Row(k))) = i /\ Row(At(i, Row(k))) = Row(k)
    BY <2>1, <2>2, RowsAndColumns DEF Cols
  <2> QED BY <2>1, <2>2, <2>3
<1>3. ShiftRows(s) \in Block
  BY <1>1 DEF ShiftRows, Block
<1> DEFINE to(k) == At((Col(k) + Row(k)) % 4, Row(k))
           from(k) == At((Col(k) + 4 - Row(k)) % 4, Row(k))
<1>4. \A k \in 1 .. 16 : from(k) \in 1 .. 16 /\ to(from(k)) = k
  BY <1>1, <1>2
<1>5. ShiftRows(s) = [k \in 1 .. 16 |-> s[to(k)]]
  BY DEF ShiftRows
<1>6. \A t : InvShiftRows(t) = [k \in 1 .. 16 |-> t[from(k)]]
  BY DEF InvShiftRows
<1> HIDE DEF to, from
<1>7. \A k \in 1 .. 16 : InvShiftRows(ShiftRows(s))[k] = s[k]
  BY <1>4, <1>5, <1>6
<1>8. InvShiftRows(ShiftRows(s)) = [k \in 1 .. 16 |-> ShiftRows(s)[from(k)]]
  BY <1>6
<1> QED BY <1>3, <1>7, <1>8 DEF Block

-----------------------------------------------------------------------------
(* Columns: the four products of InvMixColumns undo MixColumns, by the     *)
(* linearity of xtime alone                                                *)

Twice(x) == xtime(xtime(x))
Thrice(x) == xtime(Twice(x))

LEMMA PowersLinear ==
  ASSUME NEW a \in Byte, NEW b \in Byte
  PROVE  Twice(a ## b) = Twice(a) ## Twice(b) /\ Thrice(a ## b) = Thrice(a) ## Thrice(b)
<1>1. Twice(a ## b) = Twice(a) ## Twice(b)
  BY xtimeLinear, xtimeByte DEF Twice
<1>2. Thrice(a ## b) = Thrice(a) ## Thrice(b)
  BY <1>1, xtimeLinear, xtimeByte DEF Thrice, Twice
<1> QED BY <1>1, <1>2

LEMMA Products ==
  ASSUME NEW x \in Byte
  PROVE  /\ Multiply(x, 14) = (xtime(x) ## Twice(x)) ## Thrice(x)
         /\ Multiply(x, 11) = (x ## xtime(x)) ## Thrice(x)
         /\ Multiply(x, 13) = (x ## Twice(x)) ## Thrice(x)
         /\ Multiply(x, 9) = x ## Thrice(x)
<1>1. /\ Bit(14, 0) = 0 /\ Bit(14, 1) = 1 /\ Bit(14, 2) = 1 /\ Bit(14, 3) = 1 /\ Bit(14, 4) = 0
      /\ Bit(11, 0) = 1 /\ Bit(11, 1) = 1 /\ Bit(11, 2) = 0 /\ Bit(11, 3) = 1 /\ Bit(11, 4) = 0
      /\ Bit(13, 0) = 1 /\ Bit(13, 1) = 0 /\ Bit(13, 2) = 1 /\ Bit(13, 3) = 1 /\ Bit(13, 4) = 0
      /\ Bit(9, 0) = 1 /\ Bit(9, 1) = 0 /\ Bit(9, 2) = 0 /\ Bit(9, 3) = 1 /\ Bit(9, 4) = 0
  BY Weights DEF Bit
<1> DEFINE x2 == xtime(x)  x4 == xtime(x2)  x8 == xtime(x4)  x16 == xtime(x8)
<1>2. x2 \in Byte /\ x4 \in Byte /\ x8 \in Byte /\ x16 \in Byte
  BY xtimeByte
<1>3. x4 = Twice(x) /\ x8 = Thrice(x)
  BY DEF Twice, Thrice
<1>4. \A y : Multiply(x, y) =
        ((((Bit(y, 0) * x) ## (Bit(y, 1) * x2)) ## (Bit(y, 2) * x4)) ## (Bit(y, 3) * x8)) ## (Bit(y, 4) * x16)
  BY DEF Multiply
<1> HIDE DEF x2, x4, x8, x16
<1>5. \A u \in Byte : 0 * u = 0 /\ 1 * u = u
  BY DEF Byte
<1>6. /\ Multiply(x, 14) = (((0 ## x2) ## x4) ## x8) ## 0
      /\ Multiply(x, 11) = (((x ## x2) ## 0) ## x8) ## 0
      /\ Multiply(x, 13) = (((x ## 0) ## x4) ## x8) ## 0
      /\ Multiply(x, 9) = (((x ## 0) ## 0) ## x8) ## 0
  BY <1>1, <1>2, <1>4, <1>5
<1>7. \A u \in Byte, v \in Byte : u ## v \in Byte
  BY XorByte
<1>8. \A u \in Byte : u ## 0 = u /\ 0 ## u = u
  BY XorZero
<1> QED BY <1>2, <1>3, <1>6, <1>7, <1>8 DEF x2

\* A byte of MixColumns: p of the column, q of the row below, t the sum of the column.
Mixed(p, q, t) == (p ## xtime(p ## q)) ## t

LEMMA MixedSums ==
  ASSUME NEW a \in Byte, NEW b \in Byte, NEW c \in Byte, NEW d \in Byte,
         NEW t, t = ((a ## b) ## c) ## d,
         NEW w, w = Mixed(a, b, t), NEW x, x = Mixed(b, c, t),
         NEW y, y = Mixed(c, d, t), NEW z, z = Mixed(d, a, t)
  PROVE  /\ ((w ## x) ## y) ## z = t
         /\ w ## y = (a ## c) ## xtime(t)
         /\ w ## x = (a ## b) ## xtime(a ## c)
<1>1. /\ xtime(a ## b) = xtime(a) ## xtime(b) /\ xtime(b ## c) = xtime(b) ## xtime(c)
      /\ xtime(c ## d) = xtime(c) ## xtime(d) /\ xtime(d ## a) = xtime(d) ## xtime(a)
      /\ xtime(a ## c) = xtime(a) ## xtime(c)
  BY xtimeLinear
<1>2. xtime(t) = ((xtime(a) ## xtime(b)) ## xtime(c)) ## xtime(d)
  BY XorByte, xtimeLinear
<1>3. /\ w = (a ## (xtime(a) ## xtime(b))) ## t /\ x = (b ## (xtime(b) ## xtime(c))) ## t
      /\ y = (c ## (xtime(c) ## xtime(d))) ## t /\ z = (d ## (xtime(d) ## xtime(a))) ## t
  BY <1>1 DEF Mixed
<1>4. \A k \in Bits : \A u, v : On(u ## v, k) <=> ~(On(u, k) <=> On(v, k))
  BY XorOn
<1>5. /\ ((w ## x) ## y) ## z \in Byte /\ t \in Byte
      /\ w ## y \in Byte /\ (a ## c) ## xtime(t) \in Byte
      /\ w ## x \in Byte /\ (a ## b) ## xtime(a ## c) \in Byte
  BY XorByte
<1>6. ((w ## x) ## y) ## z = t
  <2>1. \A k \in Bits : On(((w ## x) ## y) ## z, k) <=> On(t, k)
    BY <1>3, <1>4
  <2> QED BY <1>5, <2>1, SameBits
<1>7. w ## y = (a ## c) ## xtime(t)
  <2>1. \A k \in Bits : On(w ## y, k) <=> On((a ## c) ## xtime(t), k)
    BY <1>2, <1>3, <1>4
  <2> QED BY <1>5, <2>1, SameBits
<1>8. w ## x = (a ## b) ## xtime(a ## c)
  <2>1. \A k \in Bits : On(w ## x, k) <=> On((a ## b) ## xtime(a ## c), k)
    BY <1>1, <1>3, <1>4
  <2> QED BY <1>5, <2>1, SameBits
<1> QED BY <1>6, <1>7, <1>8

\* {0e}w + {0b}x + {0d}y + {09}z is the byte that w was mixed from.
LEMMA ColumnInverse ==
  ASSUME NEW a \in Byte, NEW b \in Byte, NEW c \in Byte, NEW d \in Byte,
         NEW t, t = ((a ## b) ## c) ## d,
         NEW w, w = Mixed(a, b, t), NEW x, x = Mixed(b, c, t),
         NEW y, y = Mixed(c, d, t), NEW z, z = Mixed(d, a, t)
  PROVE  ((Multiply(w, 14) ## Multiply(x, 11)) ## Multiply(y, 13)) ## Multiply(z, 9) = a
<1>1. t \in Byte /\ w \in Byte /\ x \in Byte /\ y \in Byte /\ z \in Byte
  BY XorByte DEF Mixed
<1>2. /\ ((w ## x) ## y) ## z = t
      /\ w ## y = (a ## c) ## xtime(t)
      /\ w ## x = (a ## b) ## xtime(a ## c)
  BY MixedSums
<1>3. \A u, v : u ## v \in Byte /\ xtime(u) \in Byte
  BY XorByte, xtimeByte
<1>4. ((Thrice(w) ## Thrice(x)) ## Thrice(y)) ## Thrice(z) = Thrice(t)
  <2>1. Thrice(((w ## x) ## y) ## z) = Thrice((w ## x) ## y) ## Thrice(z)
    BY <1>1, <1>3, PowersLinear
  <2>2. Thrice((w ## x) ## y) = Thrice(w ## x) ## Thrice(y)
    BY <1>1, <1>3, PowersLinear
  <2>3. Thrice(w ## x) = Thrice(w) ## Thrice(x)
    BY <1>1, PowersLinear
  <2> QED BY <1>2, <2>1, <2>2, <2>3
<1>5. Twice(w) ## Twice(y) = Twice(a ## c) ## Thrice(t)
  <2>1. Twice(w ## y) = Twice(a ## c) ## Twice(xtime(t))
    BY <1>1, <1>2, <1>3, PowersLinear
  <2> QED BY <1>1, <2>1, PowersLinear DEF Twice, Thrice
<1>6. xtime(w) ## xtime(x) = xtime(a ## b) ## Twice(a ## c)
  BY <1>1, <1>2, <1>3, xtimeLinear DEF Twice
<1>7. w = (a ## xtime(a ## b)) ## t
  BY DEF Mixed
<1> DEFINE sum == ((((xtime(w) ## Twice(w)) ## Thrice(w)) ## ((x ## xtime(x)) ## Thrice(x)))
                     ## ((y ## Twice(y)) ## Thrice(y))) ## (z ## Thrice(z))
<1>8. ((Multiply(w, 14) ## Multiply(x, 11)) ## Multiply(y, 13)) ## Multiply(z, 9) = sum
  BY <1>1, Products
<1>9. \A k \in Bits : On(sum, k) <=> On(a, k)
  <2> TAKE k \in Bits
  <2>1. \A u, v : On(u ## v, k) <=> ~(On(u, k) <=> On(v, k))
    BY XorOn
  <2>2. On(t, k) <=> ~(~(~(On(w, k) <=> On(x, k)) <=> On(y, k)) <=> On(z, k))
    BY <1>2, <2>1
  <2>3. On(Thrice(t), k) <=>
          ~(~(~(On(Thrice(w), k) <=> On(Thrice(x), k)) <=> On(Thrice(y), k)) <=> On(Thrice(z), k))
    BY <1>4, <2>1
  <2>4. ~(On(Twice(w), k) <=> On(Twice(y), k)) <=> ~(On(Twice(a ## c), k) <=> On(Thrice(t), k))
    BY <1>5, <2>1
  <2>5. ~(On(xtime(w), k) <=> On(xtime(x), k)) <=> ~(On(xtime(a ## b), k) <=> On(Twice(a ## c), k))
    BY <1>6, <2>1
  <2>6. On(w, k) <=> ~(~(On(a, k) <=> On(xtime(a ## b), k)) <=> On(t, k))
    BY <1>7, <2>1
  <2> QED BY <2>1, <2>2, <2>3, <2>4, <2>5, <2>6
<1>10. sum \in Byte
  BY XorByte
<1> QED BY <1>8, <1>9, <1>10, SameBits

LEMMA Rotated ==
  ASSUME NEW p, NEW q, NEW r, NEW s
  PROVE  ((p ## q) ## r) ## s = ((q ## r) ## s) ## p
<1>1. ((p ## q) ## r) ## s \in Byte /\ ((q ## r) ## s) ## p \in Byte
  BY XorByte
<1>2. \A k \in Bits : On(((p ## q) ## r) ## s, k) <=> On(((q ## r) ## s) ## p, k)
  BY XorOn
<1> QED BY <1>1, <1>2, SameBits

LEMMA MixedColumn ==
  ASSUME NEW s, NEW i \in Cols,
         NEW a, a = s[At(i, 0)], NEW b, b = s[At(i, 1)],
         NEW c, c = s[At(i, 2)], NEW d, d = s[At(i, 3)],
         NEW t, t = ((a ## b) ## c) ## d
  PROVE  /\ MixColumns(s)[At(i, 0)] = Mixed(a, b, t)
         /\ MixColumns(s)[At(i, 1)] = Mixed(b, c, t)
         /\ MixColumns(s)[At(i, 2)] = Mixed(c, d, t)
         /\ MixColumns(s)[At(i, 3)] = Mixed(d, a, t)
<1> DEFINE at(k, j) == s[At(Col(k), j % 4)]
           Tmp(k) == ((at(k, 0) ## at(k, 1)) ## at(k, 2)) ## at(k, 3)
<1>1. \A k \in 1 .. 16 : MixColumns(s)[k] = (at(k, Row(k)) ## xtime(at(k, Row(k)) ## at(k, Row(k) + 1))) ## Tmp(k)
  BY DEF MixColumns
<1>2. \A j \in Cols : At(i, j) \in 1 .. 16 /\ Col(At(i, j)) = i /\ Row(At(i, j)) = j
  BY DEF Col, Row, At, Cols
<1>3. /\ 0 % 4 = 0 /\ 1 % 4 = 1 /\ 2 % 4 = 2 /\ 3 % 4 = 3
      /\ (0 + 1) % 4 = 1 /\ (1 + 1) % 4 = 2 /\ (2 + 1) % 4 = 3 /\ (3 + 1) % 4 = 0
  OBVIOUS
<1>4. 0 \in Cols /\ 1 \in Cols /\ 2 \in Cols /\ 3 \in Cols
  BY DEF Cols
<1>5. \A j \in Cols : Tmp(At(i, j)) = t
  BY <1>2, <1>3
<1>6. \A j \in Cols : MixColumns(s)[At(i, j)] =
        Mixed(s[At(i, j % 4)], s[At(i, (j + 1) % 4)], t)
  <2> TAKE j \in Cols
  <2>1. At(i, j) \in 1 .. 16 /\ Col(At(i, j)) = i /\ Row(At(i, j)) = j
    BY <1>2
  <2>2. at(At(i, j), Row(At(i, j))) = s[At(i, j % 4)] /\ at(At(i, j), Row(At(i, j)) + 1) = s[At(i, (j + 1) % 4)]
    BY <2>1
  <2>3. Tmp(At(i, j)) = t
    BY <1>5
  <2> HIDE DEF at, Tmp
  <2> QED BY <1>1, <2>1, <2>2, <2>3 DEF Mixed
<1> HIDE DEF at, Tmp
<1>7. MixColumns(s)[At(i, 0)] = Mixed(a, b, t)
  BY <1>3, <1>4, <1>6
<1>8. MixColumns(s)[At(i, 1)] = Mixed(b, c, t)
  BY <1>3, <1>4, <1>6
<1>9. MixColumns(s)[At(i, 2)] = Mixed(c, d, t)
  BY <1>3, <1>4, <1>6
<1>10. MixColumns(s)[At(i, 3)] = Mixed(d, a, t)
  BY <1>3, <1>4, <1>6
<1> QED BY <1>7, <1>8, <1>9, <1>10

LEMMA UnmixedColumn ==
  ASSUME NEW s, NEW i \in Cols,
         NEW w, w = s[At(i, 0)], NEW x, x = s[At(i, 1)],
         NEW y, y = s[At(i, 2)], NEW z, z = s[At(i, 3)]
  PROVE  /\ InvMixColumns(s)[At(i, 0)] = ((Multiply(w, 14) ## Multiply(x, 11)) ## Multiply(y, 13)) ## Multiply(z, 9)
         /\ InvMixColumns(s)[At(i, 1)] = ((Multiply(w, 9) ## Multiply(x, 14)) ## Multiply(y, 11)) ## Multiply(z, 13)
         /\ InvMixColumns(s)[At(i, 2)] = ((Multiply(w, 13) ## Multiply(x, 9)) ## Multiply(y, 14)) ## Multiply(z, 11)
         /\ InvMixColumns(s)[At(i, 3)] = ((Multiply(w, 11) ## Multiply(x, 13)) ## Multiply(y, 9)) ## Multiply(z, 14)
<1> DEFINE factor == <<14, 11, 13, 9>>
           term(k, j) == Multiply(s[At(Col(k), j)], factor[((j + 4 - Row(k)) % 4) + 1])
<1>1. \A k \in 1 .. 16 : InvMixColumns(s)[k] = ((term(k, 0) ## term(k, 1)) ## term(k, 2)) ## term(k, 3)
  BY DEF InvMixColumns
<1>2. \A j \in Cols : At(i, j) \in 1 .. 16 /\ Col(At(i, j)) = i /\ Row(At(i, j)) = j
  BY DEF Col, Row, At, Cols
<1>3. 0 \in Cols /\ 1 \in Cols /\ 2 \in Cols /\ 3 \in Cols
  BY DEF Cols
<1>4. \A j, r \in Cols : term(At(i, r), j) = Multiply(s[At(i, j)], factor[((j + 4 - r) % 4) + 1])
  BY <1>2
<1>5. /\ factor[((0 + 4 - 0) % 4) + 1] = 14 /\ factor[((1 + 4 - 0) % 4) + 1] = 11
      /\ factor[((2 + 4 - 0) % 4) + 1] = 13 /\ factor[((3 + 4 - 0) % 4) + 1] = 9
      /\ factor[((0 + 4 - 1) % 4) + 1] = 9 /\ factor[((1 + 4 - 1) % 4) + 1] = 14
      /\ factor[((2 + 4 - 1) % 4) + 1] = 11 /\ factor[((3 + 4 - 1) % 4) + 1] = 13
      /\ factor[((0 + 4 - 2) % 4) + 1] = 13 /\ factor[((1 + 4 - 2) % 4) + 1] = 9
      /\ factor[((2 + 4 - 2) % 4) + 1] = 14 /\ factor[((3 + 4 - 2) % 4) + 1] = 11
      /\ factor[((0 + 4 - 3) % 4) + 1] = 11 /\ factor[((1 + 4 - 3) % 4) + 1] = 13
      /\ factor[((2 + 4 - 3) % 4) + 1] = 9 /\ factor[((3 + 4 - 3) % 4) + 1] = 14
  OBVIOUS
<1>6. \A r \in Cols : InvMixColumns(s)[At(i, r)] =
        ((term(At(i, r), 0) ## term(At(i, r), 1)) ## term(At(i, r), 2)) ## term(At(i, r), 3)
  BY <1>1, <1>2
<1> HIDE DEF factor, term
<1>7. /\ term(At(i, 0), 0) = Multiply(w, 14) /\ term(At(i, 0), 1) = Multiply(x, 11)
      /\ term(At(i, 0), 2) = Multiply(y, 13) /\ term(At(i, 0), 3) = Multiply(z, 9)
  BY <1>3, <1>4, <1>5
<1>8. /\ term(At(i, 1), 0) = Multiply(w, 9) /\ term(At(i, 1), 1) = Multiply(x, 14)
      /\ term(At(i, 1), 2) = Multiply(y, 11) /\ term(At(i, 1), 3) = Multiply(z, 13)
  BY <1>3, <1>4, <1>5
<1>9. /\ term(At(i, 2), 0) = Multiply(w, 13) /\ term(At(i, 2), 1) = Multiply(x, 9)
      /\ term(At(i, 2), 2) = Multiply(y, 14) /\ term(At(i, 2), 3) = Multiply(z, 11)
  BY <1>3, <1>4, <1>5
<1>10. /\ term(At(i, 3), 0) = Multiply(w, 11) /\ term(At(i, 3), 1) = Multiply(x, 13)
       /\ term(At(i, 3), 2) = Multiply(y, 9) /\ term(At(i, 3), 3) = Multiply(z, 14)
  BY <1>3, <1>4, <1>5
<1> QED BY <1>3, <1>6, <1>7, <1>8, <1>9, <1>10

LEMMA MixColumnsInverse ==
  ASSUME NEW s \in Block
  PROVE  MixColumns(s) \in Block /\ InvMixColumns(MixColumns(s)) = s
<1>1. MixColumns(s) \in Block
  BY XorByte DEF MixColumns, Block
<1> DEFINE u == InvMixColumns(MixColumns(s))
<1>2. \A i \in Cols : \A j \in Cols : u[At(i, j)] = s[At(i, j)]
  <2> TAKE i \in Cols
  <2>0. 0 \in Cols /\ 1 \in Cols /\ 2 \in Cols /\ 3 \in Cols /\ \A j \in Cols : At(i, j) \in 1 .. 16
    BY DEF At, Cols
  <2>1. PICK a \in Byte : a = s[At(i, 0)]
    BY <2>0 DEF Block
  <2>2. PICK b \in Byte : b = s[At(i, 1)]
    BY <2>0 DEF Block
  <2>3. PICK c \in Byte : c = s[At(i, 2)]
    BY <2>0 DEF Block
  <2>4. PICK d \in Byte : d = s[At(i, 3)]
    BY <2>0 DEF Block
  <2>5. PICK t \in Byte : t = ((a ## b) ## c) ## d
    BY XorByte
  <2>6. PICK w : w = Mixed(a, b, t)
    OBVIOUS
  <2>7. PICK x : x = Mixed(b, c, t)
    OBVIOUS
  <2>8. PICK y : y = Mixed(c, d, t)
    OBVIOUS
  <2>9. PICK z : z = Mixed(d, a, t)
    OBVIOUS
  <2>10. /\ w = MixColumns(s)[At(i, 0)] /\ x = MixColumns(s)[At(i, 1)]
         /\ y = MixColumns(s)[At(i, 2)] /\ z = MixColumns(s)[At(i, 3)]
    BY <2>1, <2>2, <2>3, <2>4, <2>5, <2>6, <2>7, <2>8, <2>9, MixedColumn
  <2>11. t = ((b ## c) ## d) ## a
    BY <2>5, Rotated
  <2>16. t = ((c ## d) ## a) ## b
    BY <2>11, Rotated
  <2>17. t = ((d ## a) ## b) ## c
    BY <2>16, Rotated
  <2>12. u[At(i, 0)] = a
    <3>1. u[At(i, 0)] = ((Multiply(w, 14) ## Multiply(x, 11)) ## Multiply(y, 13)) ## Multiply(z, 9)
      BY <2>10, UnmixedColumn
    <3> QED BY <3>1, <2>5, <2>6, <2>7, <2>8, <2>9, ColumnInverse
  <2>13. u[At(i, 1)] = b
    <3>1. u[At(i, 1)] = ((Multiply(w, 9) ## Multiply(x, 14)) ## Multiply(y, 11)) ## Multiply(z, 13)
      BY <2>10, UnmixedColumn
    <3>2. @ = ((Multiply(x, 14) ## Multiply(y, 11)) ## Multiply(z, 13)) ## Multiply(w, 9)
      BY Rotated
    <3>3. ((Multiply(x, 14) ## Multiply(y, 11)) ## Multiply(z, 13)) ## Multiply(w, 9) = b
      BY <2>11, <2>6, <2>7, <2>8, <2>9, ColumnInverse
    <3> QED BY <3>1, <3>2, <3>3
  <2>14. u[At(i, 2)] = c
    <3>1. u[At(i, 2)] = ((Multiply(w, 13) ## Multiply(x, 9)) ## Multiply(y, 14)) ## Multiply(z, 11)
      BY <2>10, UnmixedColumn
    <3>2. @ = ((Multiply(y, 14) ## Multiply(z, 11)) ## Multiply(w, 13)) ## Multiply(x, 9)
      BY Rotated
    <3>3. ((Multiply(y, 14) ## Multiply(z, 11)) ## Multiply(w, 13)) ## Multiply(x, 9) = c
      BY <2>16, <2>6, <2>7, <2>8, <2>9, ColumnInverse
    <3> QED BY <3>1, <3>2, <3>3
  <2>15. u[At(i, 3)] = d
    <3>1. u[At(i, 3)] = ((Multiply(w, 11) ## Multiply(x, 13)) ## Multiply(y, 9)) ## Multiply(z, 14)
      BY <2>10, UnmixedColumn
    <3>2. @ = ((Multiply(z, 14) ## Multiply(w, 11)) ## Multiply(x, 13)) ## Multiply(y, 9)
      BY Rotated
    <3>3. ((Multiply(z, 14) ## Multiply(w, 11)) ## Multiply(x, 13)) ## Multiply(y, 9) = d
      BY <2>17, <2>6, <2>7, <2>8, <2>9, ColumnInverse
    <3> QED BY <3>1, <3>2, <3>3
  <2> HIDE DEF u
  <2> QED BY <2>1, <2>2, <2>3, <2>4, <2>12, <2>13, <2>14, <2>15 DEF Cols
<1>3. \A k \in 1 .. 16 : u[k] = s[k]
  BY <1>2, RowsAndColumns
<1>4. u = [k \in 1 .. 16 |-> u[k]]
  BY DEF InvMixColumns
<1> QED BY <1>1, <1>3, <1>4 DEF Block

-----------------------------------------------------------------------------
(* The inductive invariant: the trace is a run of the cipher, and the      *)
(* state is where that run, or its way back, has got to                    *)

Encrypting == {"xor_iv", "add_key", "sub_bytes", "shift_rows", "mix_columns", "encrypted"}
Decrypting == {"sent", "next_block", "inv_add_key", "inv_shift_rows", "inv_sub_bytes", "inv_mix_columns", "inv_xor_iv"}

\* The vector block b is chained with, given the trace tr.
Previous(tr, m, b) == IF b = 1 THEN m.iv ELSE tr[b - 1][Nr + 1]

\* The state of block b when AddRoundKey(r) is called.
Before(tr, m, b, r) ==
  IF r = 0 THEN XorBlocks(m.text[b], Previous(tr, m, b))
  ELSE IF r = Nr THEN ShiftRows(SubBytes(tr[b][r]))
  ELSE MixColumns(ShiftRows(SubBytes(tr[b][r])))

IsTrace(tr, m, keys) ==
  \A b \in 1 .. Len(m.text) : \A r \in 0 .. Len(tr[b]) - 1 :
    tr[b][r + 1] = XorBlocks(Before(tr, m, b, r), keys[r])

\* Block b of a message on its way out, at stage st of round r, with state s.
OnItsWayOut(tr, m, b, r, st, s) ==
  /\ st = "xor_iv" => tr[b] = <<>> /\ s = m.text[b]
  /\ st = "add_key" => Len(tr[b]) = r /\ s = Before(tr, m, b, r)
  /\ st \in {"sub_bytes", "shift_rows", "mix_columns"} => Len(tr[b]) = r /\ r > 0
  /\ st = "sub_bytes" => s = tr[b][r]
  /\ st = "shift_rows" => s = SubBytes(tr[b][r])
  /\ st = "mix_columns" => r < Nr /\ s = ShiftRows(SubBytes(tr[b][r]))
  /\ st = "encrypted" => Len(tr[b]) = Nr + 1 /\ s = tr[b][Nr + 1]

\* And on its way back.
OnItsWayBack(tr, m, b, r, st, s) ==
  /\ st \in {"sent", "next_block"} => s = tr[b][Nr + 1]
  /\ st = "inv_add_key" => s = tr[b][r + 1]
  /\ st \in {"inv_shift_rows", "inv_sub_bytes"} => r < Nr
  /\ st = "inv_shift_rows" => s = ShiftRows(SubBytes(tr[b][r + 1]))
  /\ st = "inv_sub_bytes" => s = SubBytes(tr[b][r + 1])
  /\ st = "inv_mix_columns" => 0 < r /\ r < Nr /\ s = Before(tr, m, b, r)
  /\ st = "inv_xor_iv" => s = XorBlocks(m.text[b], Previous(tr, m, b))

Blocks == 1 .. Len(msg.text)

TypeOK ==
  /\ msg \in Messages /\ n \in Blocks /\ round \in 0 .. Nr
  /\ buf \in Seq(Block) /\ Len(buf) = Len(msg.text)
  /\ stage \in Encrypting \cup Decrypting \cup {"received"}
  /\ trace \in [Blocks -> Seq(Block)]

Sending ==
  stage \in Encrypting =>
    /\ Iv = msg.iv
    /\ \A b \in Blocks : b < n => Len(trace[b]) = Nr + 1 /\ buf[b] = trace[b][Nr + 1]
    /\ \A b \in Blocks : b > n => trace[b] = <<>> /\ buf[b] = msg.text[b]
    /\ OnItsWayOut(trace, msg, n, round, stage, buf[n])

Receiving ==
  stage \in Decrypting =>
    /\ Iv = Previous(trace, msg, n)
    /\ \A b \in Blocks : Len(trace[b]) = Nr + 1
    /\ \A b \in Blocks : b < n => buf[b] = msg.text[b]
    /\ \A b \in Blocks : b > n => buf[b] = trace[b][Nr + 1]
    /\ stage \notin {"sent", "next_block"} => storeNextIv = trace[n][Nr + 1]
    /\ OnItsWayBack(trace, msg, n, round, stage, buf[n])

IInv == TypeOK /\ IsTrace(trace, msg, RoundKey) /\ Sending /\ Receiving /\ RoundTrip

-----------------------------------------------------------------------------
(* Init                                                                    *)

LEMMA InitInv == Init => IInv
<1> SUFFICES ASSUME Init PROVE IInv
  OBVIOUS
<1>1. msg.text \in Seq(Block) /\ msg.text # <<>>
  BY MessagesAssumption DEF Init
<1>2. Len(msg.text) \in Nat \ {0}
  BY <1>1
<1>3. \A b \in Blocks : trace[b] = <<>>
  BY DEF Init, Blocks
<1>4. Len(<<>>) = 0
  OBVIOUS
<1>5. trace \in [Blocks -> Seq(Block)]
  BY DEF Init, Blocks
<1>6. TypeOK
  BY <1>1, <1>2, <1>5 DEF Init, TypeOK, Blocks, Encrypting, Nr
<1>7. IsTrace(trace, msg, RoundKey)
  BY <1>3, <1>4 DEF IsTrace, Blocks
<1>8. Sending
  <2>1. 1 \in Blocks /\ ~\E b \in Blocks : b < 1
    BY <1>2 DEF Blocks
  <2>2. OnItsWayOut(trace, msg, n, round, stage, buf[n])
    BY <1>3, <2>1 DEF Init, OnItsWayOut
  <2> QED BY <1>3, <2>1, <2>2 DEF Init, Sending
<1>9. Receiving /\ RoundTrip
  BY DEF Init, Receiving, RoundTrip, Decrypting
<1> QED BY <1>6, <1>7, <1>8, <1>9 DEF IInv

-----------------------------------------------------------------------------
(* Steps that transform the state of block n                               *)

LEMMA StateType ==
  ASSUME TypeOK
  PROVE  /\ Len(msg.text) \in Nat \ {0} /\ Blocks = 1 .. Len(msg.text)
         /\ n \in 1 .. Len(buf) /\ state \in Block
         /\ \A b \in Blocks : buf[b] \in Block /\ trace[b] \in Seq(Block)
         /\ \A b \in Blocks : Len(trace[b]) \in Nat
<1>1. msg.text \in Seq(Block) /\ msg.text # <<>>
  BY MessagesAssumption DEF TypeOK
<1>2. Len(msg.text) \in Nat \ {0}
  BY <1>1
<1>3. \A b \in Blocks : buf[b] \in Block
  BY DEF TypeOK, Blocks
<1>4. \A b \in Blocks : trace[b] \in Seq(Block)
  BY DEF TypeOK
<1>5. \A b \in Blocks : Len(trace[b]) \in Nat
  BY <1>4
<1> QED BY <1>2, <1>3, <1>4, <1>5 DEF TypeOK, Blocks, state

LEMMA Replaced ==
  ASSUME TypeOK, NEW new \in Block, buf' = [buf EXCEPT ![n] = new]
  PROVE  /\ buf' \in Seq(Block) /\ Len(buf') = Len(buf) /\ buf'[n] = new
         /\ \A b \in Blocks : b # n => buf'[b] = buf[b]
<1>1. buf \in Seq(Block) /\ n \in 1 .. Len(buf)
  BY StateType DEF TypeOK
<1>2. buf' \in Seq(Block) /\ Len(buf') = Len(buf) /\ buf'[n] = new
  BY <1>1
<1>3. \A b \in 1 .. Len(buf) : b # n => buf'[b] = buf[b]
  BY <1>1
<1> QED BY <1>2, <1>3, StateType DEF TypeOK, Blocks

LEMMA StepTypes ==
  ASSUME TypeOK, NEW from, NEW new \in Block, NEW label, Transform(from, new, label),
         label \in Encrypting \cup Decrypting \cup {"received"},
         n' \in Blocks, round' \in 0 .. Nr, trace' \in [Blocks -> Seq(Block)]
  PROVE  TypeOK'
<1>1. msg' = msg /\ Blocks' = Blocks
  BY DEF Transform, Blocks
<1>2. buf' \in Seq(Block) /\ Len(buf') = Len(buf)
  BY Replaced DEF Transform
<1> QED BY <1>1, <1>2 DEF TypeOK, Transform

\* Block n on its way out: nothing is added to the trace.
LEMMA OutStep ==
  ASSUME IInv, NEW from \in Encrypting, NEW new \in Block, NEW label \in Encrypting,
         Transform(from, new, label), UNCHANGED <<Iv, n, storeNextIv, trace>>, round' \in 0 .. Nr,
         OnItsWayOut(trace, msg, n, round', label, new)
  PROVE  IInv'
<1>1. TypeOK /\ Sending /\ stage = from /\ stage' = label
  BY DEF IInv, Transform
<1>2. msg' = msg /\ RoundKey' = RoundKey /\ Blocks' = Blocks
  BY DEF Transform, Blocks
<1>3. TypeOK'
  BY <1>1, StepTypes DEF TypeOK
<1>4. buf'[n] = new /\ \A b \in Blocks : b # n => buf'[b] = buf[b]
  BY <1>1, Replaced DEF Transform
<1>5. Sending'
  <2>1. /\ Iv = msg.iv
        /\ \A b \in Blocks : b < n => Len(trace[b]) = Nr + 1 /\ buf[b] = trace[b][Nr + 1]
        /\ \A b \in Blocks : b > n => trace[b] = <<>> /\ buf[b] = msg.text[b]
    BY <1>1 DEF Sending
  <2>2. \A b \in Blocks : b < n \/ b > n => b # n
    BY <1>1 DEF Blocks, TypeOK
  <2> QED BY <1>1, <1>2, <1>4, <2>1, <2>2 DEF Sending
<1>6. IsTrace(trace, msg, RoundKey)'
  BY <1>2 DEF IInv
<1>7. Receiving' /\ RoundTrip'
  BY <1>1 DEF Receiving, RoundTrip, Encrypting, Decrypting
<1> QED BY <1>3, <1>5, <1>6, <1>7 DEF IInv

\* And on its way back.
LEMMA BackStep ==
  ASSUME IInv, NEW from \in Decrypting \ {"sent", "next_block"}, NEW new \in Block, NEW label \in Decrypting,
         Transform(from, new, label), UNCHANGED <<Iv, n, storeNextIv, trace>>, round' \in 0 .. Nr,
         OnItsWayBack(trace, msg, n, round', label, new)
  PROVE  IInv'
<1>1. TypeOK /\ Receiving /\ stage = from /\ stage' = label
  BY DEF IInv, Transform
<1>2. msg' = msg /\ RoundKey' = RoundKey /\ Blocks' = Blocks
  BY DEF Transform, Blocks
<1>3. TypeOK'
  BY <1>1, StepTypes DEF TypeOK
<1>4. buf'[n] = new /\ \A b \in Blocks : b # n => buf'[b] = buf[b]
  BY <1>1, Replaced DEF Transform
<1>5. Receiving'
  <2>1. /\ Iv = Previous(trace, msg, n)
        /\ \A b \in Blocks : Len(trace[b]) = Nr + 1
        /\ \A b \in Blocks : b < n => buf[b] = msg.text[b]
        /\ \A b \in Blocks : b > n => buf[b] = trace[b][Nr + 1]
        /\ storeNextIv = trace[n][Nr + 1]
    BY <1>1 DEF Receiving
  <2>2. \A b \in Blocks : b < n \/ b > n => b # n
    BY <1>1 DEF Blocks, TypeOK
  <2> QED BY <1>1, <1>2, <1>4, <2>1, <2>2 DEF Receiving
<1>6. IsTrace(trace, msg, RoundKey)'
  BY <1>2 DEF IInv
<1>7. Sending' /\ RoundTrip'
  BY <1>1 DEF Sending, RoundTrip, Encrypting, Decrypting
<1> QED BY <1>3, <1>5, <1>6, <1>7 DEF IInv

-----------------------------------------------------------------------------
(* Encryption                                                              *)

LEMMA CbcXorInv ==
  ASSUME IInv, CbcXor
  PROVE  IInv'
<1> DEFINE new == XorBlocks(state, IF n = 1 THEN Iv ELSE buf[n - 1])
<1>1. TypeOK /\ Sending /\ stage = "xor_iv" /\ round' = 0 /\ UNCHANGED <<Iv, n, storeNextIv, trace>>
  BY DEF IInv, CbcXor, Transform
<1>2. /\ Iv = msg.iv
      /\ \A b \in Blocks : b < n => buf[b] = trace[b][Nr + 1]
      /\ trace[n] = <<>> /\ state = msg.text[n]
  BY <1>1 DEF Sending, OnItsWayOut, Encrypting, state
<1>3. n # 1 => n - 1 \in Blocks /\ n - 1 < n
  BY <1>1 DEF TypeOK, Blocks
<1>4. new = XorBlocks(msg.text[n], Previous(trace, msg, n))
  BY <1>2, <1>3 DEF Previous
<1>5. new \in Block
  BY XorBlockType
<1>6. Len(<<>>) = 0
  OBVIOUS
<1>7. OnItsWayOut(trace, msg, n, 0, "add_key", new)
  BY <1>2, <1>4, <1>6 DEF OnItsWayOut, Before
<1>8. Transform("xor_iv", new, "add_key")
  BY DEF CbcXor
<1> HIDE DEF new
<1> QED BY <1>1, <1>5, <1>7, <1>8, OutStep DEF Encrypting, Nr

LEMMA CipherSubBytesInv ==
  ASSUME IInv, CipherSubBytes
  PROVE  IInv'
<1>1. TypeOK /\ Sending /\ stage = "sub_bytes" /\ UNCHANGED <<Iv, n, storeNextIv, round, trace>>
  BY DEF IInv, CipherSubBytes, Transform
<1>2. Len(trace[n]) = round /\ round > 0 /\ state = trace[n][round]
  BY <1>1 DEF Sending, OnItsWayOut, Encrypting, state
<1>3. SubBytes(state) \in Block
  BY <1>1, StateType, SubBytesInverse
<1>4. OnItsWayOut(trace, msg, n, round, "shift_rows", SubBytes(state))
  BY <1>2 DEF OnItsWayOut
<1>5. Transform("sub_bytes", SubBytes(state), "shift_rows") /\ round' = round /\ round \in 0 .. Nr
  BY <1>1 DEF CipherSubBytes, TypeOK
<1> QED BY <1>1, <1>3, <1>4, <1>5, OutStep DEF Encrypting

LEMMA CipherShiftRowsInv ==
  ASSUME IInv, CipherShiftRows
  PROVE  IInv'
<1> DEFINE label == IF round = Nr THEN "add_key" ELSE "mix_columns"
<1>1. TypeOK /\ Sending /\ stage = "shift_rows" /\ UNCHANGED <<Iv, n, storeNextIv, round, trace>>
  BY DEF IInv, CipherShiftRows, Transform
<1>2. /\ Len(trace[n]) = round /\ round > 0 /\ state = SubBytes(trace[n][round])
      /\ round \in 0 .. Nr
  BY <1>1 DEF Sending, OnItsWayOut, Encrypting, state, TypeOK
<1>3. ShiftRows(state) \in Block
  BY <1>1, StateType, ShiftRowsInverse
<1>4. OnItsWayOut(trace, msg, n, round, label, ShiftRows(state))
  BY <1>2 DEF OnItsWayOut, Before, Nr
<1>5. Transform("shift_rows", ShiftRows(state), label) /\ round' = round
  BY <1>1 DEF CipherShiftRows
<1>6. label \in Encrypting
  BY DEF Encrypting
<1> HIDE DEF label
<1> QED BY <1>1, <1>2, <1>3, <1>4, <1>5, <1>6, OutStep DEF Encrypting

LEMMA CipherMixColumnsInv ==
  ASSUME IInv, CipherMixColumns
  PROVE  IInv'
<1>1. TypeOK /\ Sending /\ stage = "mix_columns" /\ UNCHANGED <<Iv, n, storeNextIv, round, trace>>
  BY DEF IInv, CipherMixColumns, Transform
<1>2. /\ Len(trace[n]) = round /\ round > 0 /\ round < Nr /\ state = ShiftRows(SubBytes(trace[n][round]))
      /\ round \in 0 .. Nr
  BY <1>1 DEF Sending, OnItsWayOut, Encrypting, state, TypeOK
<1>3. MixColumns(state) \in Block
  BY <1>1, StateType, MixColumnsInverse
<1>4. OnItsWayOut(trace, msg, n, round, "add_key", MixColumns(state))
  BY <1>2 DEF OnItsWayOut, Before, Nr
<1>5. Transform("mix_columns", MixColumns(state), "add_key") /\ round' = round
  BY <1>1 DEF CipherMixColumns
<1> QED BY <1>1, <1>2, <1>3, <1>4, <1>5, OutStep DEF Encrypting

\* AddRoundKey adds a state to the trace of block n.
LEMMA Appended ==
  ASSUME NEW L \in Nat, NEW old \in [1 .. L -> Seq(Block)], NEW b \in 1 .. L,
         NEW r \in Nat, Len(old[b]) = r, NEW new \in Block,
         NEW tr, tr = [old EXCEPT ![b] = Append(@, new)]
  PROVE  /\ tr \in [1 .. L -> Seq(Block)]
         /\ Len(tr[b]) = r + 1 /\ tr[b][r + 1] = new
         /\ \A i \in 1 .. r : tr[b][i] = old[b][i]
         /\ \A c \in 1 .. L : c # b => tr[c] = old[c]
<1>1. old[b] \in Seq(Block) /\ tr[b] = Append(old[b], new)
  OBVIOUS
<1>2. tr \in [1 .. L -> Seq(Block)] /\ Len(tr[b]) = r + 1 /\ tr[b][r + 1] = new
  BY <1>1
<1>3. \A c \in 1 .. L : c # b => tr[c] = old[c]
  OBVIOUS
<1>4. \A i \in 1 .. r : tr[b][i] = old[b][i]
  BY <1>1
<1> QED BY <1>2, <1>3, <1>4

\* tr is old with the state after AddRoundKey(r) of block b, the last one begun.
Extends(tr, old, m, keys, L, b, r) ==
  /\ L \in Nat /\ L = Len(m.text) /\ b \in 1 .. L /\ r \in Nat /\ Len(old[b]) = r
  /\ \A c \in 1 .. L : c > b => old[c] = <<>>
  /\ Len(tr[b]) = r + 1 /\ tr[b][r + 1] = XorBlocks(Before(old, m, b, r), keys[r])
  /\ \A i \in 1 .. r : tr[b][i] = old[b][i]
  /\ \A c \in 1 .. L : c # b => tr[c] = old[c]

LEMMA Extended ==
  ASSUME NEW m, NEW keys, NEW L, NEW b, NEW r, NEW old, NEW tr,
         IsTrace(old, m, keys), Extends(tr, old, m, keys, L, b, r)
  PROVE  IsTrace(tr, m, keys)
<1> USE DEF Extends
<1>1. \A c \in 1 .. L : c <= b => Previous(tr, m, c) = Previous(old, m, c)
  <2> SUFFICES ASSUME NEW c \in 1 .. L, c <= b, c # 1
               PROVE  tr[c - 1] = old[c - 1]
    BY DEF Previous
  <2>1. c - 1 \in 1 .. L /\ c - 1 # b
    OBVIOUS
  <2> QED BY <2>1
<1>2. \A i \in 0 .. r : Before(tr, m, b, i) = Before(old, m, b, i)
  <2> TAKE i \in 0 .. r
  <2>1. Previous(tr, m, b) = Previous(old, m, b)
    BY <1>1
  <2>2. i # 0 => tr[b][i] = old[b][i]
    OBVIOUS
  <2> QED BY <2>1, <2>2 DEF Before
<1>3. \A c \in 1 .. L : \A i \in 0 .. Len(old[c]) - 1 : old[c][i + 1] = XorBlocks(Before(old, m, c, i), keys[i])
  BY DEF IsTrace
<1>4. ASSUME NEW c \in 1 .. L, NEW i \in 0 .. Len(tr[c]) - 1
      PROVE  tr[c][i + 1] = XorBlocks(Before(tr, m, c, i), keys[i])
  <2>1. CASE c = b /\ i = r
    BY <1>2, <2>1
  <2>2. CASE c = b /\ i # r
    <3>1. i \in 0 .. r - 1 /\ i + 1 \in 1 .. r
      BY <2>2
    <3>2. old[b][i + 1] = XorBlocks(Before(old, m, b, i), keys[i])
      BY <1>3, <3>1
    <3>3. Before(tr, m, b, i) = Before(old, m, b, i) /\ tr[b][i + 1] = old[b][i + 1]
      BY <1>2, <3>1
    <3> QED BY <2>2, <3>2, <3>3
  <2>3. CASE c < b
    <3>1. tr[c] = old[c]
      BY <2>3
    <3>2. old[c][i + 1] = XorBlocks(Before(old, m, c, i), keys[i])
      BY <1>3, <3>1
    <3>3. Previous(tr, m, c) = Previous(old, m, c)
      BY <1>1, <2>3
    <3>4. Before(tr, m, c, i) = Before(old, m, c, i)
      BY <3>1, <3>3 DEF Before
    <3> QED BY <3>1, <3>2, <3>4
  <2>4. CASE c > b
    <3>1. tr[c] = <<>>
      BY <2>4
    <3>2. Len(<<>>) = 0
      BY Zenon
    <3> QED BY <3>1, <3>2
  <2> QED BY <2>1, <2>2, <2>3, <2>4
<1> QED BY <1>4 DEF IsTrace

LEMMA CipherAddRoundKeyInv ==
  ASSUME IInv, CipherAddRoundKey
  PROVE  IInv'
<1> DEFINE new == XorBlocks(state, RoundKey[round])
           label == IF round < Nr THEN "sub_bytes" ELSE "encrypted"
<1>1. /\ TypeOK /\ Sending /\ IsTrace(trace, msg, RoundKey)
      /\ stage = "add_key" /\ UNCHANGED <<Iv, n>>
  BY DEF IInv, CipherAddRoundKey, Transform
<1>2. /\ Len(trace[n]) = round /\ state = Before(trace, msg, n, round)
      /\ round \in 0 .. Nr /\ n \in Blocks
  BY <1>1 DEF Sending, OnItsWayOut, Encrypting, state, TypeOK
<1>3. /\ Transform("add_key", new, label)
      /\ trace' = [trace EXCEPT ![n] = Append(@, new)]
      /\ round' = IF round < Nr THEN round + 1 ELSE round
  BY DEF CipherAddRoundKey
<1>4. new \in Block /\ new = XorBlocks(Before(trace, msg, n, round), RoundKey[round])
  BY <1>2, XorBlockType
<1>5. label \in Encrypting /\ label \in {"sub_bytes", "encrypted"}
  BY DEF Encrypting
<1>6. label = "sub_bytes" <=> round < Nr
  OBVIOUS
<1> HIDE DEF new, label
<1>7. /\ Iv = msg.iv
      /\ \A b \in Blocks : b < n => Len(trace[b]) = Nr + 1 /\ buf[b] = trace[b][Nr + 1]
      /\ \A b \in Blocks : b > n => trace[b] = <<>> /\ buf[b] = msg.text[b]
  BY <1>1 DEF Sending, Encrypting
<1>8. Len(msg.text) \in Nat /\ Blocks = 1 .. Len(msg.text) /\ trace \in [1 .. Len(msg.text) -> Seq(Block)]
  BY <1>1, StateType DEF TypeOK
<1>9. /\ trace' \in [Blocks -> Seq(Block)]
      /\ Len(trace'[n]) = round + 1 /\ trace'[n][round + 1] = new
      /\ \A b \in Blocks : b # n => trace'[b] = trace[b]
      /\ IsTrace(trace', msg, RoundKey)
  <2>1. /\ trace' \in [Blocks -> Seq(Block)]
        /\ Len(trace'[n]) = round + 1 /\ trace'[n][round + 1] = new
        /\ \A i \in 1 .. round : trace'[n][i] = trace[n][i]
        /\ \A b \in Blocks : b # n => trace'[b] = trace[b]
    BY <1>2, <1>3, <1>4, <1>8, Appended
  <2>2. PICK L \in Nat : L = Len(msg.text)
    BY <1>8
  <2>3. n \in 1 .. L /\ round \in Nat /\ Len(trace[n]) = round
    BY <1>2, <1>8, <2>2
  <2>4. trace'[n][round + 1] = XorBlocks(Before(trace, msg, n, round), RoundKey[round])
    BY <1>4, <2>1
  <2>5. \A c \in 1 .. L : c > n => trace[c] = <<>>
    BY <1>7, <1>8, <2>2
  <2>7. \A c \in 1 .. L : c # n => trace'[c] = trace[c]
    BY <1>8, <2>1, <2>2
  <2>8. Len(trace'[n]) = round + 1 /\ \A i \in 1 .. round : trace'[n][i] = trace[n][i]
    BY <2>1
  <2>9. IsTrace(trace, msg, RoundKey)
    BY <1>1
  <2>6. IsTrace(trace', msg, RoundKey)
    <3>1. Extends(trace', trace, msg, RoundKey, L, n, round)
      BY <2>2, <2>3, <2>4, <2>5, <2>7, <2>8 DEF Extends
    <3> QED BY <3>1, <2>9, Extended
  <2> QED BY <2>1, <2>6
<1>10. msg' = msg /\ RoundKey' = RoundKey /\ Blocks' = Blocks /\ stage' = label
  BY <1>3 DEF Transform, Blocks
<1>11. round' \in 0 .. Nr
  BY <1>2, <1>3 DEF Nr
<1>12. TypeOK'
  BY <1>1, <1>2, <1>3, <1>4, <1>5, <1>9, <1>11, StepTypes
<1>13. buf'[n] = new /\ \A b \in Blocks : b # n => buf'[b] = buf[b]
  BY <1>1, <1>3, <1>4, Replaced DEF Transform
<1>14. OnItsWayOut(trace', msg, n, round', label, new)
  <2>1. CASE round < Nr
    <3>1. label = "sub_bytes" /\ round' = round + 1
      BY <1>3, <1>6, <2>1
    <3>2. Len(trace'[n]) = round' /\ round' > 0 /\ new = trace'[n][round']
      BY <1>2, <1>9, <3>1
    <3> QED BY <3>1, <3>2 DEF OnItsWayOut
  <2>2. CASE ~(round < Nr)
    <3>1. label = "encrypted" /\ round = Nr
      BY <1>2, <1>5, <1>6, <2>2 DEF Nr
    <3> QED BY <1>9, <3>1 DEF OnItsWayOut
  <2> QED BY <2>1, <2>2
<1>15. Sending'
  <2>1. \A b \in Blocks : b < n \/ b > n => b # n
    BY <1>1 DEF Blocks, TypeOK
  <2> QED BY <1>1, <1>7, <1>9, <1>10, <1>13, <1>14, <2>1 DEF Sending
<1>16. IsTrace(trace, msg, RoundKey)'
  BY <1>9, <1>10
<1>17. Receiving' /\ RoundTrip'
  BY <1>5, <1>10 DEF Receiving, RoundTrip, Decrypting
<1> QED BY <1>12, <1>15, <1>16, <1>17 DEF IInv

LEMMA CbcEncryptedInv ==
  ASSUME IInv, CbcEncrypted
  PROVE  IInv'
<1>1. TypeOK /\ Sending /\ stage = "encrypted" /\ UNCHANGED <<msg, RoundKey, Iv, buf, storeNextIv, round, trace>>
  BY DEF IInv, CbcEncrypted
<1>2. /\ Iv = msg.iv
      /\ \A b \in Blocks : b < n => Len(trace[b]) = Nr + 1 /\ buf[b] = trace[b][Nr + 1]
      /\ \A b \in Blocks : b > n => trace[b] = <<>> /\ buf[b] = msg.text[b]
      /\ Len(trace[n]) = Nr + 1 /\ buf[n] = trace[n][Nr + 1]
  BY <1>1 DEF Sending, Encrypting, OnItsWayOut
<1>3. Len(buf) = Len(msg.text) /\ Len(buf) \in Nat /\ Blocks = 1 .. Len(buf) /\ n \in Blocks
  BY <1>1, StateType DEF TypeOK
<1>4. \A b \in Blocks : b < n \/ b = n \/ b > n
  BY <1>3
<1>5. Blocks' = Blocks /\ IsTrace(trace, msg, RoundKey)'
  BY <1>1 DEF Blocks, IInv
<1>6. CASE n < Len(buf)
  <2>1. n' = n + 1 /\ stage' = "xor_iv" /\ n + 1 \in Blocks
    BY <1>3, <1>6 DEF CbcEncrypted
  <2>2. TypeOK'
    BY <1>1, <1>5, <2>1 DEF TypeOK, Encrypting
  <2>3. \A b \in Blocks : (b < n + 1 => b < n \/ b = n) /\ (b > n + 1 => b > n)
    BY <1>3
  <2>4. OnItsWayOut(trace, msg, n + 1, round, "xor_iv", buf[n + 1])
    BY <1>2, <1>3, <2>1 DEF OnItsWayOut
  <2>5. Sending'
    BY <1>1, <1>2, <1>5, <2>1, <2>3, <2>4 DEF Sending
  <2>6. Receiving' /\ RoundTrip'
    BY <2>1 DEF Receiving, RoundTrip, Decrypting
  <2> QED BY <1>5, <2>2, <2>5, <2>6 DEF IInv
<1>7. CASE ~(n < Len(buf))
  <2>1. n' = 1 /\ stage' = "sent" /\ 1 \in Blocks /\ n = Len(buf)
    BY <1>3, <1>7 DEF CbcEncrypted
  <2>2. TypeOK'
    BY <1>1, <1>5, <2>1 DEF TypeOK, Decrypting
  <2>3. \A b \in Blocks : ~(b > n)
    BY <1>3, <2>1
  <2>4. \A b \in Blocks : Len(trace[b]) = Nr + 1 /\ buf[b] = trace[b][Nr + 1]
    BY <1>2, <1>4, <2>3
  <2>5. OnItsWayBack(trace, msg, 1, round, "sent", buf[1])
    BY <2>1, <2>4 DEF OnItsWayBack
  <2>6. Iv = Previous(trace, msg, 1)
    BY <1>2 DEF Previous
  <2>7. \A b \in Blocks : ~(b < 1)
    BY <1>3
  <2>8. Receiving'
    BY <1>1, <1>5, <2>1, <2>4, <2>5, <2>6, <2>7 DEF Receiving
  <2>9. Sending' /\ RoundTrip'
    BY <2>1 DEF Sending, RoundTrip, Encrypting
  <2> QED BY <1>5, <2>2, <2>8, <2>9 DEF IInv
<1> QED BY <1>6, <1>7

-----------------------------------------------------------------------------
(* Decryption                                                              *)

LEMMA BeginBlockInv ==
  ASSUME IInv, BeginBlock
  PROVE  IInv'
<1>1. /\ TypeOK /\ Receiving /\ stage \in {"sent", "next_block"} /\ stage' = "inv_add_key" /\ round' = Nr
      /\ storeNextIv' = state /\ UNCHANGED <<msg, RoundKey, Iv, buf, n, trace>>
  BY DEF IInv, BeginBlock
<1>2. Blocks' = Blocks /\ IsTrace(trace, msg, RoundKey)'
  BY <1>1 DEF Blocks, IInv
<1>3. TypeOK'
  BY <1>1, <1>2 DEF TypeOK, Decrypting, Nr
<1>4. buf[n] = trace[n][Nr + 1]
  BY <1>1 DEF Receiving, Decrypting, OnItsWayBack
<1>5. OnItsWayBack(trace, msg, n, Nr, "inv_add_key", buf[n])
  BY <1>4 DEF OnItsWayBack
<1>6. Receiving'
  BY <1>1, <1>2, <1>4, <1>5 DEF Receiving, Decrypting, state
<1>7. Sending' /\ RoundTrip'
  BY <1>1 DEF Sending, RoundTrip, Encrypting
<1> QED BY <1>2, <1>3, <1>6, <1>7 DEF IInv

LEMMA InvAddRoundKeyInv ==
  ASSUME IInv, InvAddRoundKey
  PROVE  IInv'
<1> DEFINE new == XorBlocks(state, RoundKey[round])
           label == IF round = Nr THEN "inv_shift_rows" ELSE IF round > 0 THEN "inv_mix_columns" ELSE "inv_xor_iv"
<1>1. /\ TypeOK /\ Receiving /\ IsTrace(trace, msg, RoundKey)
      /\ stage = "inv_add_key" /\ UNCHANGED <<Iv, n, storeNextIv, trace>>
  BY DEF IInv, InvAddRoundKey, Transform
<1>2. /\ state = trace[n][round + 1] /\ Len(trace[n]) = Nr + 1
      /\ round \in 0 .. Nr /\ n \in Blocks
  BY <1>1 DEF Receiving, OnItsWayBack, Decrypting, state, TypeOK
<1>3. state = XorBlocks(Before(trace, msg, n, round), RoundKey[round])
  <2>1. round \in 0 .. Len(trace[n]) - 1 /\ n \in 1 .. Len(msg.text)
    BY <1>2 DEF Blocks, Nr
  <2>2. \A b \in 1 .. Len(msg.text) : \A r \in 0 .. Len(trace[b]) - 1 :
          trace[b][r + 1] = XorBlocks(Before(trace, msg, b, r), RoundKey[r])
    BY <1>1 DEF IsTrace
  <2> QED BY <1>2, <2>1, <2>2
<1>4. Before(trace, msg, n, round) \in Block
  <2>1. CASE round = 0
    BY <2>1, XorBlockType DEF Before
  <2>2. CASE round # 0
    <3>1. trace[n][round] \in Block
      <4>1. trace[n] \in Seq(Block) /\ round \in 1 .. Len(trace[n])
        BY <1>1, <1>2, <2>2, StateType DEF Nr
      <4> QED BY <4>1
    <3> QED BY <2>2, <3>1, SubBytesInverse, ShiftRowsInverse, MixColumnsInverse DEF Before
  <2> QED BY <2>1, <2>2
<1>5. new = Before(trace, msg, n, round)
  BY <1>3, <1>4, AddRoundKeyTwice
<1>6. /\ Transform("inv_add_key", new, label)
      /\ round' = IF round = Nr THEN round - 1 ELSE round
  BY DEF InvAddRoundKey
<1>7. label \in Decrypting
  BY DEF Decrypting
<1>8. OnItsWayBack(trace, msg, n, round', label, new)
  BY <1>2, <1>5, <1>6 DEF OnItsWayBack, Before, Nr
<1>9. round' \in 0 .. Nr
  BY <1>2, <1>6 DEF Nr
<1> HIDE DEF new, label
<1> QED BY <1>1, <1>4, <1>5, <1>6, <1>7, <1>8, <1>9, BackStep DEF Decrypting

\* The blocks that the way back goes through.
LEMMA TracedBlock ==
  ASSUME TypeOK, NEW r \in 0 .. Nr, Len(trace[n]) = Nr + 1
  PROVE  trace[n][r + 1] \in Block
<1>1. trace[n] \in Seq(Block) /\ r + 1 \in 1 .. Len(trace[n])
  BY StateType DEF Nr, TypeOK
<1> QED BY <1>1

LEMMA CipherInvShiftRowsInv ==
  ASSUME IInv, CipherInvShiftRows
  PROVE  IInv'
<1>1. TypeOK /\ Receiving /\ stage = "inv_shift_rows" /\ UNCHANGED <<Iv, n, storeNextIv, round, trace>>
  BY DEF IInv, CipherInvShiftRows, Transform
<1>2. /\ state = ShiftRows(SubBytes(trace[n][round + 1])) /\ round < Nr
      /\ Len(trace[n]) = Nr + 1 /\ round \in 0 .. Nr
  BY <1>1 DEF Receiving, OnItsWayBack, Decrypting, state, TypeOK
<1>3. trace[n][round + 1] \in Block
  BY <1>1, <1>2, TracedBlock
<1>4. InvShiftRows(state) = SubBytes(trace[n][round + 1]) /\ InvShiftRows(state) \in Block
  BY <1>2, <1>3, SubBytesInverse, ShiftRowsInverse
<1>5. OnItsWayBack(trace, msg, n, round, "inv_sub_bytes", InvShiftRows(state))
  BY <1>2, <1>4 DEF OnItsWayBack
<1>6. Transform("inv_shift_rows", InvShiftRows(state), "inv_sub_bytes") /\ round' = round
  BY <1>1 DEF CipherInvShiftRows
<1> QED BY <1>1, <1>2, <1>4, <1>5, <1>6, BackStep DEF Decrypting

LEMMA CipherInvSubBytesInv ==
  ASSUME IInv, CipherInvSubBytes
  PROVE  IInv'
<1>1. TypeOK /\ Receiving /\ stage = "inv_sub_bytes" /\ UNCHANGED <<Iv, n, storeNextIv, round, trace>>
  BY DEF IInv, CipherInvSubBytes, Transform
<1>2. /\ state = SubBytes(trace[n][round + 1]) /\ round < Nr
      /\ Len(trace[n]) = Nr + 1 /\ round \in 0 .. Nr
  BY <1>1 DEF Receiving, OnItsWayBack, Decrypting, state, TypeOK
<1>3. trace[n][round + 1] \in Block
  BY <1>1, <1>2, TracedBlock
<1>4. InvSubBytes(state) = trace[n][round + 1] /\ InvSubBytes(state) \in Block
  BY <1>2, <1>3, SubBytesInverse
<1>5. OnItsWayBack(trace, msg, n, round, "inv_add_key", InvSubBytes(state))
  BY <1>2, <1>4 DEF OnItsWayBack
<1>6. Transform("inv_sub_bytes", InvSubBytes(state), "inv_add_key") /\ round' = round
  BY <1>1 DEF CipherInvSubBytes
<1> QED BY <1>1, <1>2, <1>4, <1>5, <1>6, BackStep DEF Decrypting

LEMMA CipherInvMixColumnsInv ==
  ASSUME IInv, CipherInvMixColumns
  PROVE  IInv'
<1>1. TypeOK /\ Receiving /\ stage = "inv_mix_columns" /\ UNCHANGED <<Iv, n, storeNextIv, trace>> /\ round' = round - 1
  BY DEF IInv, CipherInvMixColumns, Transform
<1>2. /\ state = Before(trace, msg, n, round) /\ 0 < round /\ round < Nr
      /\ Len(trace[n]) = Nr + 1 /\ round \in 0 .. Nr
  BY <1>1 DEF Receiving, OnItsWayBack, Decrypting, state, TypeOK
<1>3. trace[n][round] \in Block
  <2>1. round - 1 \in 0 .. Nr /\ (round - 1) + 1 = round
    BY <1>2 DEF Nr
  <2>2. trace[n][(round - 1) + 1] \in Block
    BY <1>1, <1>2, <2>1, TracedBlock
  <2> QED BY <2>1, <2>2
<1>4. state = MixColumns(ShiftRows(SubBytes(trace[n][round])))
  BY <1>2 DEF Before
<1>5. ShiftRows(SubBytes(trace[n][round])) \in Block
  BY <1>3, SubBytesInverse, ShiftRowsInverse
<1>6. InvMixColumns(state) = ShiftRows(SubBytes(trace[n][round])) /\ InvMixColumns(state) \in Block
  BY <1>4, <1>5, MixColumnsInverse
<1>7. round - 1 \in 0 .. Nr /\ round - 1 < Nr /\ (round - 1) + 1 = round
  BY <1>2 DEF Nr
<1>8. OnItsWayBack(trace, msg, n, round - 1, "inv_shift_rows", InvMixColumns(state))
  BY <1>6, <1>7 DEF OnItsWayBack
<1>9. Transform("inv_mix_columns", InvMixColumns(state), "inv_shift_rows")
  BY DEF CipherInvMixColumns
<1> QED BY <1>1, <1>6, <1>7, <1>8, <1>9, BackStep DEF Decrypting

LEMMA CbcInvXorInv ==
  ASSUME IInv, CbcInvXor
  PROVE  IInv'
<1> DEFINE new == XorBlocks(state, Iv)
           label == IF n < Len(buf) THEN "next_block" ELSE "received"
<1>1. /\ TypeOK /\ Receiving /\ IsTrace(trace, msg, RoundKey) /\ stage = "inv_xor_iv"
      /\ UNCHANGED <<storeNextIv, round, trace>> /\ Transform("inv_xor_iv", new, label)
      /\ Iv' = (IF n < Len(buf) THEN NextIv ELSE msg.iv)
      /\ n' = (IF n < Len(buf) THEN n + 1 ELSE n)
  BY DEF IInv, CbcInvXor, Transform
<1>2. /\ Iv = Previous(trace, msg, n)
      /\ \A b \in Blocks : Len(trace[b]) = Nr + 1
      /\ \A b \in Blocks : b < n => buf[b] = msg.text[b]
      /\ \A b \in Blocks : b > n => buf[b] = trace[b][Nr + 1]
      /\ storeNextIv = trace[n][Nr + 1]
      /\ state = XorBlocks(msg.text[n], Previous(trace, msg, n))
  BY <1>1 DEF Receiving, OnItsWayBack, Decrypting, state
<1>3. Len(buf) = Len(msg.text) /\ Len(buf) \in Nat /\ Blocks = 1 .. Len(buf) /\ n \in Blocks
  BY <1>1, StateType DEF TypeOK
<1>4. msg.text \in Seq(Block)
  BY <1>1, MessagesAssumption DEF TypeOK
<1>5. msg.text[n] \in Block
  BY <1>3, <1>4
<1>6. new = msg.text[n]
  BY <1>2, <1>5, AddRoundKeyTwice
<1>7. new \in Block /\ label \in {"next_block", "received"}
  BY <1>5, <1>6
<1>8. label = "next_block" <=> n < Len(buf)
  OBVIOUS
<1> HIDE DEF new, label
<1>9. msg' = msg /\ RoundKey' = RoundKey /\ Blocks' = Blocks /\ stage' = label
  BY <1>1 DEF Transform, Blocks
<1>10. buf' \in Seq(Block) /\ Len(buf') = Len(buf) /\ buf'[n] = new /\ \A b \in Blocks : b # n => buf'[b] = buf[b]
  BY <1>1, <1>7, Replaced DEF Transform
<1>11. n' \in Blocks
  BY <1>1, <1>3
<1>12. TypeOK'
  BY <1>1, <1>7, <1>11, StepTypes DEF TypeOK, Decrypting
<1>13. \A b \in Blocks : b <= n => buf'[b] = msg.text[b]
  <2>1. \A b \in Blocks : b <= n => b = n \/ (b < n /\ b # n)
    BY <1>3
  <2> QED BY <1>2, <1>6, <1>10, <2>1
<1>14. \A b \in Blocks : b > n => buf'[b] = trace[b][Nr + 1]
  <2>1. \A b \in Blocks : b > n => b # n
    BY <1>3
  <2> QED BY <1>2, <1>10, <2>1
<1>15. Receiving'
  <2> SUFFICES ASSUME label = "next_block" PROVE Receiving'
    BY <1>7, <1>9 DEF Receiving, Decrypting
  <2>1. n' = n + 1 /\ n + 1 # 1 /\ (n + 1) - 1 = n /\ Iv' = trace[n][Nr + 1]
    BY <1>1, <1>2, <1>3, <1>8 DEF NextIv
  <2>2. Iv' = Previous(trace, msg, n + 1)
    BY <2>1 DEF Previous
  <2>3. \A b \in Blocks : (b < n + 1 => b <= n) /\ (b > n + 1 => b > n)
    BY <1>3
  <2>4. buf'[n + 1] = trace[n + 1][Nr + 1]
    BY <1>3, <1>11, <1>14, <2>1
  <2>5. OnItsWayBack(trace, msg, n + 1, round, "next_block", buf'[n + 1])
    BY <2>4 DEF OnItsWayBack
  <2> QED BY <1>1, <1>2, <1>9, <1>13, <1>14, <2>1, <2>2, <2>3, <2>5 DEF Receiving
<1>16. RoundTrip'
  <2> SUFFICES ASSUME label = "received" PROVE buf' = msg.text /\ Iv' = msg.iv
    BY <1>9 DEF RoundTrip
  <2>1. n = Len(buf) /\ Iv' = msg.iv
    BY <1>1, <1>3, <1>8
  <2>2. \A b \in 1 .. Len(buf) : buf'[b] = msg.text[b]
    BY <1>3, <1>13, <2>1
  <2> QED BY <1>3, <1>4, <1>10, <2>1, <2>2
<1>17. Sending' /\ IsTrace(trace, msg, RoundKey)'
  BY <1>1, <1>7, <1>9 DEF Sending, Encrypting
<1> QED BY <1>12, <1>15, <1>16, <1>17 DEF IInv

-----------------------------------------------------------------------------
(* The theorems                                                            *)

LEMMA StepInv == IInv /\ [Next]_vars => IInv'
<1> SUFFICES ASSUME IInv, [Next]_vars PROVE IInv'
  OBVIOUS
<1>1. CASE CbcXor
  BY <1>1, CbcXorInv
<1>2. CASE Cipher
  BY <1>2, CipherSubBytesInv, CipherShiftRowsInv, CipherMixColumnsInv, CipherAddRoundKeyInv DEF Cipher
<1>3. CASE CbcEncrypted
  BY <1>3, CbcEncryptedInv
<1>4. CASE BeginBlock
  BY <1>4, BeginBlockInv
<1>5. CASE InvCipher
  BY <1>5, InvAddRoundKeyInv, CipherInvShiftRowsInv, CipherInvSubBytesInv, CipherInvMixColumnsInv DEF InvCipher
<1>6. CASE CbcInvXor
  BY <1>6, CbcInvXorInv
<1>7. CASE UNCHANGED vars
  BY <1>7 DEF vars, IInv, TypeOK, Sending, Receiving, RoundTrip, Blocks
<1> QED BY <1>1, <1>2, <1>3, <1>4, <1>5, <1>6, <1>7 DEF Next

\* Each transformation of InvCipher undoes the one of Cipher, on every block.
THEOREM TransformationsInverse ==
  \A s \in Block :
    /\ InvSubBytes(SubBytes(s)) = s
    /\ InvShiftRows(ShiftRows(s)) = s
    /\ InvMixColumns(MixColumns(s)) = s
    /\ \A key : XorBlocks(XorBlocks(s, key), key) = s
BY SubBytesInverse, ShiftRowsInverse, MixColumnsInverse, AddRoundKeyTwice

\* At every stage the block at hand is what its trace and its round say, the
\* blocks before it are done, the others untouched, and Iv is the block before.
THEOREM Invariant == Spec => []IInv
<1>1. Init => IInv
  BY InitInv
<1>2. IInv /\ [Next]_vars => IInv'
  BY StepInv
<1> QED BY <1>1, <1>2, PTL DEF Spec

\* Every round of InvCipher takes back its round of Cipher, for any key schedule.
THEOREM RoundsUndone == Spec => []UndoesEachRound
<1>1. IInv => UndoesEachRound
  BY DEF IInv, Receiving, Decrypting, OnItsWayBack, UndoesEachRound, state
<1> QED BY <1>1, Invariant, PTL

\* What aes_cbc_decrypt gives back is what aes_cbc_encrypt was given, and the
\* vector of the context is set back for the next message.
THEOREM TextRestored == Spec => []RoundTrip
<1>1. IInv => RoundTrip
  BY DEF IInv
<1> QED BY <1>1, Invariant, PTL
=============================================================================
