----------------------- MODULE ShardProcessorProofs -----------------------
(* What peers compute on their shards is what the mock processor computes  *)
(* on the data, for any number of peers, any data and any program of       *)
(* additions, subtractions and inversions.                                 *)
EXTENDS ShardProcessor, WellFoundedInduction, FiniteSetTheorems, TLAPS

-----------------------------------------------------------------------------
(* Induction over the numbers up to a bound, in terms of sets.             *)

(* A set that holds zero and the successors of what it holds holds all     *)
(* numbers up to the bound.                                                *)
LEMMA SetInduction ==
  ASSUME NEW n \in Nat, NEW S, 0 \in S, \A i \in 0 .. n - 1 : i \in S => i + 1 \in S
  PROVE  0 .. n \subseteq S
<1> DEFINE R == {ss \in Nat \X Nat : ss[1] < ss[2]}
           T == {i \in 0 .. n : i \notin S}
<1>1. IsWellFoundedOn(R, Nat)
  BY NatLessThanWellFounded DEF OpToRel
<1>2. SUFFICES ASSUME T # {} PROVE FALSE
  OBVIOUS
<1>3. PICK x \in T : \A y \in T : ~ (<<y, x>> \in R)
  <2>1. T \subseteq Nat
    OBVIOUS
  <2> QED
    BY <1>1, <1>2, <2>1, WFMin
<1>4. x \in 1 .. n /\ x \notin S
  BY <1>3
<1>5. x - 1 \in 0 .. n - 1 /\ x - 1 + 1 = x
  BY <1>4
<1>6. x - 1 \in T
  BY <1>4, <1>5
<1>7. <<x - 1, x>> \in R
  BY <1>4, <1>5
<1> QED
  BY <1>3, <1>6, <1>7

-----------------------------------------------------------------------------
(* The field.                                                              *)

(* Sums are bytes. *)
LEMMA AddType ==
  ASSUME NEW a \in Bytes, NEW b \in Bytes
  PROVE  add(a, b) \in Bytes
  BY DEF add, SymDiff, Bytes

(* The sum does not depend on the order, *)
LEMMA AddCommutes ==
  ASSUME NEW a, NEW b
  PROVE  add(a, b) = add(b, a)
  BY DEF add, SymDiff

(* nor on the grouping of its terms, *)
LEMMA AddAssociates ==
  ASSUME NEW a, NEW b, NEW c
  PROVE  add(add(a, b), c) = add(a, add(b, c))
  BY DEF add, SymDiff

(* zero is neutral, and a byte is its own negative, which is why Plus and  *)
(* Sub are one operation.                                                  *)
LEMMA AddZero ==
  ASSUME NEW a
  PROVE  add(a, Zero) = a /\ add(Zero, a) = a /\ add(a, a) = Zero
  BY DEF add, SymDiff, Zero

(* The two constants are different bytes. *)
LEMMA ConstantsAreBytes == Zero \in Bytes /\ One \in Bytes /\ One # Zero
  BY DEF Zero, One, Bytes

(* Multiplication by x is additive. *)
LEMMA TimesXAdds ==
  ASSUME NEW a \in Bytes, NEW b \in Bytes
  PROVE  TimesX(add(a, b)) = add(TimesX(a), TimesX(b))
<1> DEFINE up(c) == {i + 1 : i \in c \ {7}}
           over(c) == IF 7 \in c THEN {0, 2, 3, 4} ELSE {}
<1>1. up(add(a, b)) = SymDiff(up(a), up(b))
  BY DEF add, SymDiff, Bytes
<1>2. over(add(a, b)) = SymDiff(over(a), over(b))
  BY DEF add, SymDiff
<1>3. \A c : TimesX(c) = SymDiff(up(c), over(c))
  BY DEF TimesX
<1> HIDE DEF up, over
<1>4. SymDiff(SymDiff(up(a), up(b)), SymDiff(over(a), over(b)))
        = SymDiff(SymDiff(up(a), over(a)), SymDiff(up(b), over(b)))
  BY DEF SymDiff
<1> QED
  BY <1>1, <1>2, <1>3, <1>4 DEF add

(* What the table of powers holds: bytes other than zero, each at exactly  *)
(* one exponent.                                                           *)
LEMMA Powers ==
  /\ EXP_TABLE \in [0 .. 254 -> Bytes \ {Zero}]
  /\ EXP_TABLE[0] = One
  BY TableAssumption, Zenon

(* Every byte other than zero is a power of x, *)
LEMMA EveryBytePower ==
  ASSUME NEW a \in Bytes, a # Zero
  PROVE  \E i \in 0 .. 254 : EXP_TABLE[i] = a
<1>1. a \in Bytes \ {Zero}
  OBVIOUS
<1> QED
  BY <1>1, TableAssumption, Zenon

(* of one exponent only. *)
LEMMA PowersDiffer ==
  ASSUME NEW i \in 0 .. 254, NEW j \in 0 .. 254, EXP_TABLE[i] = EXP_TABLE[j]
  PROVE  i = j
  BY TableAssumption, Zenon

(* The next entry of the table is x times as much. *)
LEMMA NextPower ==
  \A i \in 0 .. 254 : TimesX(EXP_TABLE[i]) = EXP_TABLE[(i + 1) % 255]
  BY TableAssumption, ZenonT(60)

(* The table of logarithms is the inverse of the table of powers. *)
LEMMA LogType ==
  ASSUME NEW a \in Bytes, a # Zero
  PROVE  LOG_TABLE[a] \in 0 .. 254 /\ EXP_TABLE[LOG_TABLE[a]] = a
<1> DEFINE P(i) == EXP_TABLE[i] = a
<1>1. \E i \in 0 .. 254 : P(i)
  BY EveryBytePower, Zenon
<1>2. LOG_TABLE[a] = CHOOSE i \in 0 .. 254 : P(i)
  BY DEF LOG_TABLE
<1> HIDE DEF P
<1>3. (CHOOSE i \in 0 .. 254 : P(i)) \in 0 .. 254 /\ P(CHOOSE i \in 0 .. 254 : P(i))
  BY <1>1, Zenon
<1>4. LOG_TABLE[a] \in 0 .. 254 /\ P(LOG_TABLE[a])
  BY <1>2, <1>3, Zenon
<1> QED
  BY <1>4, Zenon DEF P

(* The logarithm of a power is its exponent. *)
LEMMA LogOfExp ==
  ASSUME NEW i \in 0 .. 254
  PROVE  EXP_TABLE[i] \in Bytes /\ EXP_TABLE[i] # Zero /\ LOG_TABLE[EXP_TABLE[i]] = i
<1>1. EXP_TABLE[i] \in Bytes /\ EXP_TABLE[i] # Zero
  BY Powers
<1>2. LOG_TABLE[EXP_TABLE[i]] \in 0 .. 254
        /\ EXP_TABLE[LOG_TABLE[EXP_TABLE[i]]] = EXP_TABLE[i]
  BY <1>1, LogType
<1> QED
  BY <1>1, <1>2, PowersDiffer

(* Sums modulo 255. *)
LEMMA ModSum ==
  \A i, j \in 0 .. 254 : (i + j) % 255 \in 0 .. 254 /\ i + j = j + i
  OBVIOUS

(* A product of two bytes other than zero, in terms of their logarithms.   *)
LEMMA MulLog ==
  ASSUME NEW a \in Bytes, NEW b \in Bytes, a # Zero, b # Zero
  PROVE  /\ mul(a, b) \in Bytes /\ mul(a, b) # Zero
         /\ LOG_TABLE[mul(a, b)] = (LOG_TABLE[a] + LOG_TABLE[b]) % 255
<1> DEFINE i == (LOG_TABLE[a] + LOG_TABLE[b]) % 255
<1>1. i \in 0 .. 254
  <2>1. LOG_TABLE[a] \in 0 .. 254 /\ LOG_TABLE[b] \in 0 .. 254
    BY LogType
  <2>2. PICK j \in 0 .. 254 : j = LOG_TABLE[a]
    BY <2>1
  <2>3. PICK k \in 0 .. 254 : k = LOG_TABLE[b]
    BY <2>1
  <2>4. (j + k) % 255 \in 0 .. 254
    OBVIOUS
  <2> QED
    BY <2>2, <2>3, <2>4
<1>2. mul(a, b) = EXP_TABLE[i]
  BY DEF mul
<1> QED
  BY <1>1, <1>2, LogOfExp

(* Products with zero are zero, without a look at the tables. *)
LEMMA MulZero ==
  ASSUME NEW a
  PROVE  mul(a, Zero) = Zero /\ mul(Zero, a) = Zero
  BY DEF mul

(* Products are bytes. *)
LEMMA MulType ==
  ASSUME NEW a \in Bytes, NEW b \in Bytes
  PROVE  mul(a, b) \in Bytes
<1>1. CASE a = Zero \/ b = Zero
  BY <1>1, MulZero, ConstantsAreBytes
<1>2. CASE a # Zero /\ b # Zero
  BY <1>2, MulLog
<1> QED
  BY <1>1, <1>2

(* Bytes with one logarithm are one. *)
LEMMA LogInjective ==
  ASSUME NEW a \in Bytes, NEW b \in Bytes, a # Zero, b # Zero, LOG_TABLE[a] = LOG_TABLE[b]
  PROVE  a = b
<1>1. EXP_TABLE[LOG_TABLE[a]] = a /\ EXP_TABLE[LOG_TABLE[b]] = b
  BY LogType
<1> QED
  BY <1>1

(* The product does not depend on the order, *)
LEMMA MulCommutes ==
  ASSUME NEW a \in Bytes, NEW b \in Bytes
  PROVE  mul(a, b) = mul(b, a)
<1>1. CASE a = Zero \/ b = Zero
  BY <1>1, MulZero
<1>2. CASE a # Zero /\ b # Zero
  <2>1. LOG_TABLE[a] + LOG_TABLE[b] = LOG_TABLE[b] + LOG_TABLE[a]
    <3>1. LOG_TABLE[a] \in 0 .. 254 /\ LOG_TABLE[b] \in 0 .. 254
      BY <1>2, LogType
    <3> QED
      BY <3>1, ModSum, Zenon
  <2> QED
    BY <1>2, <2>1 DEF mul
<1> QED
  BY <1>1, <1>2

(* nor on the grouping of its factors, *)
LEMMA MulAssociates ==
  ASSUME NEW a \in Bytes, NEW b \in Bytes, NEW c \in Bytes
  PROVE  mul(mul(a, b), c) = mul(a, mul(b, c))
<1>1. CASE a = Zero \/ b = Zero \/ c = Zero
  BY <1>1, MulZero
<1>2. CASE a # Zero /\ b # Zero /\ c # Zero
  <2>1. /\ mul(a, b) \in Bytes /\ mul(a, b) # Zero
        /\ LOG_TABLE[mul(a, b)] = (LOG_TABLE[a] + LOG_TABLE[b]) % 255
    BY <1>2, MulLog
  <2>2. /\ mul(b, c) \in Bytes /\ mul(b, c) # Zero
        /\ LOG_TABLE[mul(b, c)] = (LOG_TABLE[b] + LOG_TABLE[c]) % 255
    BY <1>2, MulLog
  <2>3. /\ mul(mul(a, b), c) \in Bytes /\ mul(mul(a, b), c) # Zero
        /\ LOG_TABLE[mul(mul(a, b), c)] = (LOG_TABLE[mul(a, b)] + LOG_TABLE[c]) % 255
    BY <1>2, <2>1, MulLog
  <2>4. /\ mul(a, mul(b, c)) \in Bytes /\ mul(a, mul(b, c)) # Zero
        /\ LOG_TABLE[mul(a, mul(b, c))] = (LOG_TABLE[a] + LOG_TABLE[mul(b, c)]) % 255
    BY <1>2, <2>2, MulLog
  <2>5. LOG_TABLE[a] \in 0 .. 254 /\ LOG_TABLE[b] \in 0 .. 254 /\ LOG_TABLE[c] \in 0 .. 254
    BY <1>2, LogType
  <2>6. LOG_TABLE[mul(mul(a, b), c)] = LOG_TABLE[mul(a, mul(b, c))]
    <3>1. PICK i \in 0 .. 254 : i = LOG_TABLE[a]
      BY <2>5, Zenon
    <3>2. PICK j \in 0 .. 254 : j = LOG_TABLE[b]
      BY <2>5, Zenon
    <3>3. PICK k \in 0 .. 254 : k = LOG_TABLE[c]
      BY <2>5, Zenon
    <3>4. (((i + j) % 255) + k) % 255 = (i + ((j + k) % 255)) % 255
      OBVIOUS
    <3> QED
      BY <2>1, <2>2, <2>3, <2>4, <3>1, <3>2, <3>3, <3>4
  <2> QED
    BY <2>3, <2>4, <2>6, LogInjective
<1> QED
  BY <1>1, <1>2

(* and one is neutral. *)
LEMMA MulOne ==
  ASSUME NEW a \in Bytes
  PROVE  mul(One, a) = a
<1>1. CASE a = Zero
  BY <1>1, MulZero
<1>2. CASE a # Zero
  <2>1. LOG_TABLE[One] = 0
    <3>1. 0 \in 0 .. 254
      OBVIOUS
    <3> QED
      BY <3>1, LogOfExp, Powers
  <2>2. LOG_TABLE[a] \in 0 .. 254 /\ EXP_TABLE[LOG_TABLE[a]] = a
    BY <1>2, LogType
  <2>3. (LOG_TABLE[One] + LOG_TABLE[a]) % 255 = LOG_TABLE[a]
    BY <2>1, <2>2
  <2> QED
    BY <1>2, <2>2, <2>3, ConstantsAreBytes DEF mul
<1> QED
  BY <1>1, <1>2

(* Every byte other than zero has an inverse. *)
LEMMA MulInverse ==
  ASSUME NEW a \in Bytes, a # Zero
  PROVE  inverse(a) \in Bytes /\ mul(inverse(a), a) = One
<1> DEFINE i == (255 - LOG_TABLE[a]) % 255
<1>1. LOG_TABLE[a] \in 0 .. 254
  BY LogType
<1>2. i \in 0 .. 254 /\ (i + LOG_TABLE[a]) % 255 = 0
  BY <1>1
<1>3. inverse(a) \in Bytes /\ inverse(a) # Zero /\ LOG_TABLE[inverse(a)] = i
  <2>1. EXP_TABLE[i] \in Bytes /\ EXP_TABLE[i] # Zero /\ LOG_TABLE[EXP_TABLE[i]] = i
    <3> HIDE DEF i
    <3> QED
      BY <1>2, LogOfExp
  <2> QED
    BY <2>1 DEF inverse
<1>4. mul(inverse(a), a) = EXP_TABLE[0]
  BY <1>2, <1>3 DEF mul
<1> QED
  BY <1>3, <1>4, Powers

(* The product with the next power of x is x times as much. *)
LEMMA MulNextPower ==
  ASSUME NEW i \in 0 .. 253, NEW b \in Bytes
  PROVE  mul(EXP_TABLE[i + 1], b) = TimesX(mul(EXP_TABLE[i], b))
<1>0. i \in 0 .. 254 /\ i + 1 \in 0 .. 254
  OBVIOUS
<1>1. CASE b = Zero
  <2>1. TimesX(Zero) = Zero
    BY DEF TimesX, SymDiff, Zero
  <2> QED
    BY <1>1, <2>1, MulZero
<1>2. CASE b # Zero
  <2>1. PICK k \in 0 .. 254 : k = LOG_TABLE[b]
    BY <1>2, LogType, Zenon
  <2>2. mul(EXP_TABLE[i], b) = EXP_TABLE[(i + k) % 255]
    <3>1. EXP_TABLE[i] # Zero /\ LOG_TABLE[EXP_TABLE[i]] = i
      BY <1>0, LogOfExp, Zenon
    <3> QED
      BY <1>2, <2>1, <3>1, Zenon DEF mul
  <2>3. mul(EXP_TABLE[i + 1], b) = EXP_TABLE[(i + 1 + k) % 255]
    <3>1. EXP_TABLE[i + 1] # Zero /\ LOG_TABLE[EXP_TABLE[i + 1]] = i + 1
      BY <1>0, LogOfExp, Zenon
    <3> QED
      BY <1>2, <2>1, <3>1, Zenon DEF mul
  <2>4. (i + k) % 255 \in 0 .. 254 /\ (((i + k) % 255) + 1) % 255 = (i + 1 + k) % 255
    OBVIOUS
  <2>5. PICK n \in 0 .. 254 : n = (i + k) % 255
    BY <2>4
  <2>6. TimesX(EXP_TABLE[n]) = EXP_TABLE[(n + 1) % 255]
    BY NextPower
  <2>7. (n + 1) % 255 = (i + 1 + k) % 255
    BY <2>4, <2>5
  <2> QED
    BY <2>2, <2>3, <2>5, <2>6, <2>7
<1> QED
  BY <1>1, <1>2

(* Products distribute over sums: for powers of x by induction over the    *)
(* exponent, and every byte other than zero is one.                        *)
LEMMA MulDistributes ==
  ASSUME NEW a \in Bytes, NEW b \in Bytes, NEW c \in Bytes
  PROVE  mul(a, add(b, c)) = add(mul(a, b), mul(a, c))
<1> DEFINE S == {i \in 0 .. 254 : mul(EXP_TABLE[i], add(b, c))
                                    = add(mul(EXP_TABLE[i], b), mul(EXP_TABLE[i], c))}
<1>1. add(b, c) \in Bytes
  BY AddType
<1>2. 0 \in S
  <2>1. EXP_TABLE[0] = One
    BY Powers
  <2> QED
    BY <1>1, <2>1, MulOne
<1>3. ASSUME NEW i \in 0 .. 253, i \in S PROVE i + 1 \in S
  <2>1. mul(EXP_TABLE[i], add(b, c)) = add(mul(EXP_TABLE[i], b), mul(EXP_TABLE[i], c))
    BY <1>3
  <2>2. EXP_TABLE[i] \in Bytes
    BY Powers
  <2>3. mul(EXP_TABLE[i], b) \in Bytes /\ mul(EXP_TABLE[i], c) \in Bytes
    BY <2>2, MulType
  <2>4. TimesX(mul(EXP_TABLE[i], add(b, c)))
          = add(TimesX(mul(EXP_TABLE[i], b)), TimesX(mul(EXP_TABLE[i], c)))
    BY <2>1, <2>3, TimesXAdds
  <2>5. mul(EXP_TABLE[i + 1], add(b, c))
          = add(mul(EXP_TABLE[i + 1], b), mul(EXP_TABLE[i + 1], c))
    BY <1>1, <2>4, MulNextPower
  <2>6. i + 1 \in 0 .. 254
    OBVIOUS
  <2> QED
    BY <2>5, <2>6
<1>4. 0 .. 254 \subseteq S
  <2> HIDE DEF S
  <2>1. 254 \in Nat /\ 254 - 1 = 253
    OBVIOUS
  <2> QED
    BY <1>2, <1>3, <2>1, SetInduction
<1>5. CASE a = Zero
  BY <1>5, MulZero, AddZero
<1>6. CASE a # Zero
  <2>1. LOG_TABLE[a] \in S /\ EXP_TABLE[LOG_TABLE[a]] = a
    BY <1>4, <1>6, LogType
  <2> QED
    BY <2>1
<1> QED
  BY <1>5, <1>6

(* The same for the other factor. *)
LEMMA MulDistributesRight ==
  ASSUME NEW a \in Bytes, NEW b \in Bytes, NEW c \in Bytes
  PROVE  mul(add(b, c), a) = add(mul(b, a), mul(c, a))
<1>1. add(b, c) \in Bytes
  BY AddType
<1> QED
  BY <1>1, MulCommutes, MulDistributes

(* Products of three factors, in the orders that decoding needs. *)
LEMMA MulThree ==
  ASSUME NEW a \in Bytes, NEW b \in Bytes, NEW c \in Bytes
  PROVE  /\ mul(mul(a, b), c) = mul(mul(a, c), b)
         /\ mul(mul(a, b), c) = mul(mul(c, b), a)
         /\ mul(a, mul(b, c)) = mul(b, mul(a, c))
         /\ mul(a, mul(b, c)) = mul(mul(a, b), c)
<1>1. mul(mul(a, b), c) = mul(a, mul(b, c))
  BY MulAssociates
<1>2. mul(mul(a, c), b) = mul(a, mul(c, b))
  BY MulAssociates
<1>3. mul(b, c) = mul(c, b)
  BY MulCommutes
<1>4. mul(mul(c, b), a) = mul(a, mul(c, b))
  BY MulCommutes, MulType
<1>5. mul(b, mul(a, c)) = mul(mul(b, a), c) /\ mul(b, a) = mul(a, b)
  BY MulAssociates, MulCommutes
<1> QED
  BY <1>1, <1>2, <1>3, <1>4, <1>5

-----------------------------------------------------------------------------
(* The code.                                                               *)

(* The bits of a number are a byte, *)
LEMMA ByteType ==
  ASSUME NEW n
  PROVE  Byte(n) \in Bytes
  BY DEF Byte, Bytes

(* and different numbers of a byte have different ones, bit by bit. *)
LEMMA ByteInjective ==
  ASSUME NEW m \in 0 .. 255, NEW n \in 0 .. 255, Byte(m) = Byte(n)
  PROVE  m = n
<1>1. 2^0 = 1 /\ 2^1 = 2 /\ 2^2 = 4 /\ 2^3 = 8 /\ 2^4 = 16 /\ 2^5 = 32 /\ 2^6 = 64 /\ 2^7 = 128
  OBVIOUS
<1>2. \A i \in 0 .. 7 : (m \div 2^i) % 2 = 1 <=> (n \div 2^i) % 2 = 1
  BY Zenon DEF Byte
<1>3. 0 \in 0 .. 7 /\ 1 \in 0 .. 7 /\ 2 \in 0 .. 7 /\ 3 \in 0 .. 7
        /\ 4 \in 0 .. 7 /\ 5 \in 0 .. 7 /\ 6 \in 0 .. 7 /\ 7 \in 0 .. 7
  OBVIOUS
<1>4. /\ (m \div 1) % 2 = 1 <=> (n \div 1) % 2 = 1
      /\ (m \div 2) % 2 = 1 <=> (n \div 2) % 2 = 1
      /\ (m \div 4) % 2 = 1 <=> (n \div 4) % 2 = 1
      /\ (m \div 8) % 2 = 1 <=> (n \div 8) % 2 = 1
      /\ (m \div 16) % 2 = 1 <=> (n \div 16) % 2 = 1
      /\ (m \div 32) % 2 = 1 <=> (n \div 32) % 2 = 1
      /\ (m \div 64) % 2 = 1 <=> (n \div 64) % 2 = 1
      /\ (m \div 128) % 2 = 1 <=> (n \div 128) % 2 = 1
  <2>0. (m \div 2^0) % 2 = 1 <=> (n \div 2^0) % 2 = 1
    BY <1>2, <1>3, Zenon
  <2>1. (m \div 2^1) % 2 = 1 <=> (n \div 2^1) % 2 = 1
    BY <1>2, <1>3, Zenon
  <2>2. (m \div 2^2) % 2 = 1 <=> (n \div 2^2) % 2 = 1
    BY <1>2, <1>3, Zenon
  <2>3. (m \div 2^3) % 2 = 1 <=> (n \div 2^3) % 2 = 1
    BY <1>2, <1>3, Zenon
  <2>4. (m \div 2^4) % 2 = 1 <=> (n \div 2^4) % 2 = 1
    BY <1>2, <1>3, Zenon
  <2>5. (m \div 2^5) % 2 = 1 <=> (n \div 2^5) % 2 = 1
    BY <1>2, <1>3, Zenon
  <2>6. (m \div 2^6) % 2 = 1 <=> (n \div 2^6) % 2 = 1
    BY <1>2, <1>3, Zenon
  <2>7. (m \div 2^7) % 2 = 1 <=> (n \div 2^7) % 2 = 1
    BY <1>2, <1>3, Zenon
  <2> QED
    BY <1>1, <2>0, <2>1, <2>2, <2>3, <2>4, <2>5, <2>6, <2>7
<1>5. \A k \in {m, n} :
        k = ((k \div 1) % 2) + 2 * ((k \div 2) % 2) + 4 * ((k \div 4) % 2)
            + 8 * ((k \div 8) % 2) + 16 * ((k \div 16) % 2) + 32 * ((k \div 32) % 2)
            + 64 * ((k \div 64) % 2) + 128 * ((k \div 128) % 2)
  OBVIOUS
<1> QED
  BY <1>4, <1>5

(* Shard ids are numbers that fit into a byte. *)
LEMMA SidsAreNumbers == Sids \subseteq 0 .. 254 /\ Sids \subseteq Int
  BY SizeAssumption DEF Sids

(* The rows of the matrix have bytes of the field in them, *)
LEMMA RowType ==
  ASSUME NEW s
  PROVE  /\ Row(s)[1] \in Bytes /\ Row(s)[2] \in Bytes
         /\ Row(s)[1] = add(Byte(s), One) /\ Row(s)[2] = Byte(s)
  BY ByteType, AddType, ConstantsAreBytes DEF Row

(* and so have shards. *)
LEMMA EncodeType ==
  ASSUME NEW value \in [1 .. K -> Bytes], NEW s \in Sids
  PROVE  encode(value)[s] \in Bytes
<1>1. value[1] \in Bytes /\ value[2] \in Bytes
  BY DEF K
<1>2. mul(Row(s)[1], value[1]) \in Bytes /\ mul(Row(s)[2], value[2]) \in Bytes
  BY <1>1, RowType, MulType
<1>3. encode(value)[s] = add(mul(Row(s)[1], value[1]), mul(Row(s)[2], value[2]))
  BY DEF encode
<1> QED
  BY <1>2, <1>3, AddType

(* A shard of a sum is the sum of the shards. *)
LEMMA EncodeAdds ==
  ASSUME NEW x \in [1 .. K -> Bytes], NEW y \in [1 .. K -> Bytes], NEW s \in Sids
  PROVE  encode([d \in 1 .. K |-> add(x[d], y[d])])[s] = add(encode(x)[s], encode(y)[s])
<1> DEFINE sum == [d \in 1 .. K |-> add(x[d], y[d])]
           a == Row(s)[1]
           b == Row(s)[2]
<1>1. /\ x[1] \in Bytes /\ x[2] \in Bytes /\ y[1] \in Bytes /\ y[2] \in Bytes
      /\ sum[1] = add(x[1], y[1]) /\ sum[2] = add(x[2], y[2])
  BY DEF K
<1>2. /\ encode(x)[s] = add(mul(a, x[1]), mul(b, x[2]))
      /\ encode(y)[s] = add(mul(a, y[1]), mul(b, y[2]))
      /\ encode(sum)[s] = add(mul(a, sum[1]), mul(b, sum[2]))
  BY DEF encode
<1>3. a \in Bytes /\ b \in Bytes
  BY RowType
<1> HIDE DEF sum, a, b
<1>4. /\ mul(a, sum[1]) = add(mul(a, x[1]), mul(a, y[1]))
      /\ mul(b, sum[2]) = add(mul(b, x[2]), mul(b, y[2]))
  BY <1>1, <1>3, MulDistributes
<1>5. add(add(mul(a, x[1]), mul(a, y[1])), add(mul(b, x[2]), mul(b, y[2])))
        = add(add(mul(a, x[1]), mul(b, x[2])), add(mul(a, y[1]), mul(b, y[2])))
  BY DEF add, SymDiff
<1>6. encode(sum)[s] = add(encode(x)[s], encode(y)[s])
  BY <1>2, <1>4, <1>5
<1> QED
  BY <1>6 DEF sum

(* The equations of two shards have the data as their solution. *)
LEMMA Solution ==
  ASSUME NEW r1 \in Bytes, NEW r2 \in Bytes, NEW t1 \in Bytes, NEW t2 \in Bytes,
         NEW v1 \in Bytes, NEW v2 \in Bytes
  PROVE  LET x == add(mul(r1, v1), mul(r2, v2))
             y == add(mul(t1, v1), mul(t2, v2))
         IN  /\ add(mul(x, t2), mul(y, r2)) = mul(add(mul(r1, t2), mul(t1, r2)), v1)
             /\ add(mul(r1, y), mul(t1, x)) = mul(add(mul(r1, t2), mul(t1, r2)), v2)
<1> DEFINE x == add(mul(r1, v1), mul(r2, v2))
           y == add(mul(t1, v1), mul(t2, v2))
<1>1. /\ mul(r1, v1) \in Bytes /\ mul(r2, v2) \in Bytes
      /\ mul(t1, v1) \in Bytes /\ mul(t2, v2) \in Bytes
      /\ mul(r1, t2) \in Bytes /\ mul(t1, r2) \in Bytes
  BY MulType
<1>2. mul(x, t2) = add(mul(mul(r1, v1), t2), mul(mul(r2, v2), t2))
  BY <1>1, MulDistributesRight
<1>3. mul(y, r2) = add(mul(mul(t1, v1), r2), mul(mul(t2, v2), r2))
  BY <1>1, MulDistributesRight
<1>4. mul(r1, y) = add(mul(r1, mul(t1, v1)), mul(r1, mul(t2, v2)))
  BY <1>1, MulDistributes
<1>5. mul(t1, x) = add(mul(t1, mul(r1, v1)), mul(t1, mul(r2, v2)))
  BY <1>1, MulDistributes
<1>6. /\ mul(mul(r1, v1), t2) = mul(mul(r1, t2), v1)
      /\ mul(mul(t1, v1), r2) = mul(mul(t1, r2), v1)
      /\ mul(mul(r2, v2), t2) = mul(mul(t2, v2), r2)
      /\ mul(r1, mul(t1, v1)) = mul(t1, mul(r1, v1))
      /\ mul(r1, mul(t2, v2)) = mul(mul(r1, t2), v2)
      /\ mul(t1, mul(r2, v2)) = mul(mul(t1, r2), v2)
  BY MulThree
<1>7. \A p, q, c : add(add(p, c), add(q, c)) = add(p, q) /\ add(add(c, p), add(c, q)) = add(p, q)
  BY DEF add, SymDiff
<1>8. \A v \in Bytes : mul(add(mul(r1, t2), mul(t1, r2)), v)
                         = add(mul(mul(r1, t2), v), mul(mul(t1, r2), v))
  BY <1>1, MulDistributesRight
<1>9. add(mul(x, t2), mul(y, r2)) = mul(add(mul(r1, t2), mul(t1, r2)), v1)
  BY <1>2, <1>3, <1>6, <1>7, <1>8
<1>10. add(mul(r1, y), mul(t1, x)) = mul(add(mul(r1, t2), mul(t1, r2)), v2)
  BY <1>4, <1>5, <1>6, <1>7, <1>8
<1> QED
  BY <1>9, <1>10

(* The equations of two different shards are independent. *)
LEMMA DeterminantNotZero ==
  ASSUME NEW i \in Sids, NEW j \in Sids, i # j
  PROVE  /\ add(mul(Row(i)[1], Row(j)[2]), mul(Row(j)[1], Row(i)[2])) \in Bytes
         /\ add(mul(Row(i)[1], Row(j)[2]), mul(Row(j)[1], Row(i)[2])) # Zero
<1> DEFINE p == Byte(i)
           q == Byte(j)
<1>1. p \in Bytes /\ q \in Bytes /\ One \in Bytes
  BY ByteType, ConstantsAreBytes
<1>2. p # q
  <2>1. i \in 0 .. 255 /\ j \in 0 .. 255
    BY SizeAssumption DEF Sids
  <2> QED
    BY <2>1, ByteInjective
<1>3. /\ Row(i)[1] = add(p, One) /\ Row(i)[2] = p
      /\ Row(j)[1] = add(q, One) /\ Row(j)[2] = q
  BY RowType
<1> HIDE DEF p, q
<1>4. /\ mul(add(p, One), q) = add(mul(p, q), q)
      /\ mul(add(q, One), p) = add(mul(p, q), p)
  BY <1>1, MulDistributesRight, MulOne, MulCommutes
<1>5. \A a, b, c : add(add(c, b), add(c, a)) = add(a, b)
  BY DEF add, SymDiff
<1>6. add(mul(Row(i)[1], Row(j)[2]), mul(Row(j)[1], Row(i)[2])) = add(p, q)
  BY <1>3, <1>4, <1>5
<1>7. add(p, q) # Zero
  BY <1>2 DEF add, SymDiff, Zero
<1> QED
  BY <1>1, <1>6, <1>7, AddType

(* Two peers are a smaller and a larger one. *)
LEMMA Pair ==
  ASSUME NEW peers \in kSubset(K, Sids)
  PROVE  \E i, j \in Sids : /\ i < j /\ peers = {i, j}
                            /\ Min(peers) = i /\ Max(peers) = j
<1>1. peers \subseteq Sids /\ Cardinality(peers) = 2
  BY DEF kSubset, K
<1>2. IsFiniteSet(peers)
  <2>1. IsFiniteSet(Sids)
    BY FS_Interval, SizeAssumption DEF Sids
  <2> QED
    BY <1>1, <2>1, FS_Subset
<1>3. PICK i \in peers, j \in peers : i # j /\ peers = {i, j}
  <2>1. peers # {}
    BY <1>1, FS_EmptySet
  <2>2. PICK i \in peers : TRUE
    BY <2>1
  <2>3. IsFiniteSet(peers \ {i}) /\ Cardinality(peers \ {i}) = 1
    BY <1>1, <1>2, FS_RemoveElement
  <2>4. PICK j : peers \ {i} = {j}
    BY <2>3, FS_Singleton
  <2> QED
    BY <2>2, <2>4
<1>4. \A a, b \in Sids : a < b => Min({a, b}) = a /\ Max({a, b}) = b
  BY SidsAreNumbers DEF Min, Max
<1>5. i \in Int /\ j \in Int /\ i \in Sids /\ j \in Sids
  BY <1>1, <1>3, SidsAreNumbers
<1>6. CASE i < j
  BY <1>3, <1>4, <1>5, <1>6
<1>7. CASE j < i
  BY <1>3, <1>4, <1>5, <1>7
<1> QED
  BY <1>3, <1>5, <1>6, <1>7

(* Any two shards of a value give it back (reed_solomon.rs, `decode` of    *)
(* what `encode` made).                                                    *)
THEOREM DecodeOfEncode ==
  ASSUME NEW value \in [1 .. K -> Bytes], NEW peers \in kSubset(K, Sids)
  PROVE  decode([s \in peers |-> encode(value)[s]]) = value
<1> DEFINE shards == [s \in peers |-> encode(value)[s]]
<1>1. PICK i \in Sids, j \in Sids : /\ i < j /\ peers = {i, j}
                                    /\ Min(peers) = i /\ Max(peers) = j
  BY Pair
<1> DEFINE D == add(mul(Row(i)[1], Row(j)[2]), mul(Row(j)[1], Row(i)[2]))
           x == encode(value)[i]
           y == encode(value)[j]
           first == add(mul(x, Row(j)[2]), mul(y, Row(i)[2]))
           second == add(mul(Row(i)[1], y), mul(Row(j)[1], x))
<1>2. /\ value[1] \in Bytes /\ value[2] \in Bytes
      /\ Row(i)[1] \in Bytes /\ Row(i)[2] \in Bytes
      /\ Row(j)[1] \in Bytes /\ Row(j)[2] \in Bytes
  BY RowType DEF K
<1>3. /\ x = add(mul(Row(i)[1], value[1]), mul(Row(i)[2], value[2]))
      /\ y = add(mul(Row(j)[1], value[1]), mul(Row(j)[2], value[2]))
  BY DEF encode
<1>4. first = mul(D, value[1]) /\ second = mul(D, value[2])
  <2> HIDE DEF x, y
  <2>1. /\ add(mul(x, Row(j)[2]), mul(y, Row(i)[2])) = mul(D, value[1])
        /\ add(mul(Row(i)[1], y), mul(Row(j)[1], x)) = mul(D, value[2])
    <3>1. PICK r1 \in Bytes, r2 \in Bytes : r1 = Row(i)[1] /\ r2 = Row(i)[2]
      BY <1>2
    <3>2. PICK t1 \in Bytes, t2 \in Bytes : t1 = Row(j)[1] /\ t2 = Row(j)[2]
      BY <1>2
    <3>3. PICK v1 \in Bytes, v2 \in Bytes : v1 = value[1] /\ v2 = value[2]
      BY <1>2
    <3>4. x = add(mul(r1, v1), mul(r2, v2)) /\ y = add(mul(t1, v1), mul(t2, v2))
      BY <1>3, <3>1, <3>2, <3>3
    <3>5. /\ add(mul(x, t2), mul(y, r2)) = mul(add(mul(r1, t2), mul(t1, r2)), v1)
          /\ add(mul(r1, y), mul(t1, x)) = mul(add(mul(r1, t2), mul(t1, r2)), v2)
      <4>1. LET x1 == add(mul(r1, v1), mul(r2, v2))
                y1 == add(mul(t1, v1), mul(t2, v2))
            IN  /\ add(mul(x1, t2), mul(y1, r2)) = mul(add(mul(r1, t2), mul(t1, r2)), v1)
                /\ add(mul(r1, y1), mul(t1, x1)) = mul(add(mul(r1, t2), mul(t1, r2)), v2)
        BY Solution
      <4> QED
        BY <3>4, <4>1
    <3> QED
      BY <3>1, <3>2, <3>3, <3>5
  <2> QED
    BY <2>1
<1>5. D \in Bytes /\ D # Zero
  <2>1. i # j
    BY <1>1, SidsAreNumbers
  <2> QED
    BY <2>1, DeterminantNotZero
<1>6. decode(shards) = [d \in 1 .. K |-> mul(inverse(D), <<first, second>>[d])]
  <2>1. /\ DOMAIN shards = peers /\ shards[i] = x /\ shards[j] = y
    BY <1>1
  <2> HIDE DEF shards, x, y
  <2> QED
    BY <1>1, <2>1 DEF decode
<1> HIDE DEF D, shards, x, y, first, second
<1>7. \A v \in Bytes : mul(inverse(D), mul(D, v)) = v
  BY <1>5, MulInverse, MulAssociates, MulOne
<1>8. mul(inverse(D), first) = value[1] /\ mul(inverse(D), second) = value[2]
  BY <1>2, <1>4, <1>7
<1>9. \A d \in 1 .. K : mul(inverse(D), <<first, second>>[d]) = value[d]
  BY <1>8 DEF K
<1>10. decode(shards) = value
  BY <1>6, <1>9
<1> QED
  BY <1>10 DEF shards

-----------------------------------------------------------------------------
(* Executing on shards.                                                    *)

(* The programs whose operations are additive. (With Nand or Nor the       *)
(* property is false.)                                                     *)
Linear == \A p \in Programs : \A i \in 1 .. Len(p) : p[i].operation \in {"Plus", "Sub", "Inv"}

Values == [1 .. K -> Bytes]

(* The shards of what a storage has. *)
ShardsOf(storage, s) ==
  [v \in Vids |-> IF storage[v] = None THEN None ELSE encode(storage[v])[s]]

(* What the operands and the memory of a peer are the shards of: first the *)
(* data, then what the mock processor has at the same instruction, as long *)
(* as that one goes on.                                                    *)
PeerInv(s) ==
  /\ next[s] <= Len(program) + 1 => memory[s] = ShardsOf(data, s)
  /\ next[s] \in 1 .. Len(program) + 1 =>
       (execute_on[next[s] - 1] # None =>
          \A v \in Vids : retrieve_operand(s, v) = ShardsOf(execute_on[next[s] - 1], s)[v])
  /\ Done(s) => (execute_on[Len(program)] # None =>
                   memory[s] = ShardsOf(execute_on[Len(program)], s))
ExecutionInv == \A s \in Complete : PeerInv(s)

(* The storage after one more instruction. *)
After(storage, i) ==
  IF storage = None THEN None
  ELSE IF Available(storage, program[i])
  THEN [storage EXCEPT ![program[i].result] =
          mock_calculate(program[i], Operands(storage, program[i]))]
  ELSE None

(* What execute_on computes: the data, and from then on one instruction    *)
(* after the other. The function exists because an initial part of it can  *)
(* be extended by one instruction.                                         *)
LEMMA ExecuteOn ==
  ASSUME Len(program) \in Nat
  PROVE  /\ execute_on[0] = data
         /\ \A i \in 1 .. Len(program) : execute_on[i] = After(execute_on[i - 1], i)
<1> DEFINE Run(f, n) == f = [i \in 0 .. n |-> IF i = 0 THEN data ELSE After(f[i - 1], i)]
           S == {n \in 0 .. Len(program) : \E f : Run(f, n)}
<1>1. 0 \in S
  <2> DEFINE f == [i \in 0 .. 0 |-> data]
  <2>1. Run(f, 0)
    <3>1. \A i \in 0 .. 0 : i = 0
      OBVIOUS
    <3> QED
      BY <3>1
  <2>2. 0 \in 0 .. Len(program)
    OBVIOUS
  <2> HIDE DEF f, Run
  <2> QED
    BY <2>1, <2>2
<1>2. ASSUME NEW n \in 0 .. Len(program) - 1, n \in S PROVE n + 1 \in S
  <2>1. PICK f : Run(f, n)
    BY <1>2
  <2> DEFINE g == [i \in 0 .. n + 1 |-> IF i <= n THEN f[i] ELSE After(f[n], n + 1)]
  <2>2. \A i \in 0 .. n : f[i] = IF i = 0 THEN data ELSE After(f[i - 1], i)
    <3> HIDE DEF After
    <3> QED
      BY <2>1
  <2>3. \A i \in 0 .. n + 1 : g[i] = IF i = 0 THEN data ELSE After(g[i - 1], i)
    <3> SUFFICES ASSUME NEW i \in 0 .. n + 1
                 PROVE  g[i] = IF i = 0 THEN data ELSE After(g[i - 1], i)
      OBVIOUS
    <3>1. CASE i = 0
      BY <2>2, <3>1
    <3>2. CASE i \in 1 .. n
      <4>1. g[i] = f[i] /\ g[i - 1] = f[i - 1]
        BY <3>2
      <4> QED
        BY <2>2, <3>2, <4>1
    <3>3. CASE i = n + 1
      <4>1. g[i] = After(f[n], i) /\ g[i - 1] = f[n] /\ i # 0
        BY <3>3
      <4> QED
        BY <4>1
    <3> QED
      BY <3>1, <3>2, <3>3
  <2>4. Run(g, n + 1)
    <3> HIDE DEF g
    <3>1. g = [i \in 0 .. n + 1 |-> g[i]]
      BY DEF g
    <3> QED
      BY <2>3, <3>1
  <2>5. n + 1 \in 0 .. Len(program)
    OBVIOUS
  <2> QED
    BY <2>4, <2>5
<1>3. \E f : Run(f, Len(program))
  <2>1. 0 .. Len(program) \subseteq S
    <3> HIDE DEF S
    <3> QED
      BY <1>1, <1>2, SetInduction
  <2>2. Len(program) \in 0 .. Len(program)
    OBVIOUS
  <2> QED
    BY <2>1, <2>2
<1>4. execute_on = CHOOSE f : Run(f, Len(program))
  BY DEF execute_on, After
<1>5. Run(execute_on, Len(program))
  <2> HIDE DEF Run
  <2> QED
    BY <1>3, <1>4
<1> HIDE DEF After
<1> QED
  BY <1>5

(* The operands and the result of an instruction. *)
LEMMA InstructionShape ==
  ASSUME NEW ins \in Instructions
  PROVE  /\ ins.result \in Vids
         /\ ins.operation \in {"Plus", "Sub", "Nand", "Nor", "Inv"}
         /\ \A i \in DOMAIN ins.args : ins.args[i] \in Vids
         /\ 1 \in DOMAIN ins.args
         /\ ins.operation # "Inv" => 2 \in DOMAIN ins.args
  BY DEF Instructions

(* What the mock processor computes, operation by operation. *)
LEMMA MockCalculateAdds ==
  ASSUME NEW ins, ins.operation \in {"Plus", "Sub"}, NEW args
  PROVE  mock_calculate(ins, args) = [d \in 1 .. K |-> add(args[1][d], args[2][d])]
  BY DEF mock_calculate

(* Inversion is the identity: a byte is its own negative. *)
LEMMA MockCalculateInverts ==
  ASSUME NEW ins, ins.operation = "Inv", NEW args
  PROVE  mock_calculate(ins, args) = args[1]
  BY DEF mock_calculate

(* Its results are data, *)
LEMMA MockCalculateType ==
  ASSUME NEW ins \in Instructions, NEW args,
         args[1] \in Values, ins.operation # "Inv" => args[2] \in Values
  PROVE  mock_calculate(ins, args) \in Values
<1>1. CASE ins.operation \in {"Plus", "Sub"}
  <2>1. \A d \in 1 .. K : add(args[1][d], args[2][d]) \in Bytes
    BY <1>1, AddType DEF Values
  <2> QED
    BY <1>1, <2>1, MockCalculateAdds DEF Values
<1>2. CASE ins.operation = "Inv"
  BY <1>2, MockCalculateInverts
<1>3. CASE ins.operation = "Nand"
  BY <1>3, ConstantsAreBytes DEF mock_calculate, Values
<1>4. CASE ins.operation = "Nor"
  BY <1>4, ConstantsAreBytes DEF mock_calculate, Values
<1> QED
  BY <1>1, <1>2, <1>3, <1>4, InstructionShape

(* and those of the shard processor are bytes. *)
LEMMA CalculateType ==
  ASSUME NEW ins \in Instructions, NEW args,
         args[1] \in Bytes, ins.operation # "Inv" => args[2] \in Bytes
  PROVE  calculate(ins, args) \in Bytes
<1>1. CASE ins.operation \in {"Plus", "Sub"}
  BY <1>1, AddType DEF calculate
<1>2. CASE ins.operation = "Inv"
  BY <1>2 DEF calculate
<1>3. CASE ins.operation = "Nand"
  BY <1>3, ConstantsAreBytes DEF calculate
<1>4. CASE ins.operation = "Nor"
  BY <1>4, ConstantsAreBytes DEF calculate
<1> QED
  BY <1>1, <1>2, <1>3, <1>4, InstructionShape

(* Calculating on the shards of operands gives the shard of what is        *)
(* calculated on the operands.                                             *)
LEMMA CalculateOnShards ==
  ASSUME NEW ins \in Instructions, ins.operation \in {"Plus", "Sub", "Inv"},
         NEW s \in Sids, NEW args, NEW shards,
         args[1] \in Values, ins.operation # "Inv" => args[2] \in Values,
         shards[1] = encode(args[1])[s],
         ins.operation # "Inv" => shards[2] = encode(args[2])[s]
  PROVE  calculate(ins, shards) = encode(mock_calculate(ins, args))[s]
<1>1. CASE ins.operation \in {"Plus", "Sub"}
  <2>1. calculate(ins, shards) = add(shards[1], shards[2])
    BY <1>1 DEF calculate
  <2>2. mock_calculate(ins, args) = [d \in 1 .. K |-> add(args[1][d], args[2][d])]
    BY <1>1, MockCalculateAdds, SMTT(30)
  <2> QED
    BY <1>1, <2>1, <2>2, EncodeAdds DEF Values
<1>2. CASE ins.operation = "Inv"
  BY <1>2, MockCalculateInverts DEF calculate
<1> QED
  BY <1>1, <1>2

(* The storage of the mock processor holds data, as long as it goes on.    *)
LEMMA StorageType ==
  ASSUME program \in Seq(Instructions), data \in [Vids -> Values \cup {None}],
         NEW n \in 0 .. Len(program), execute_on[n] # None
  PROVE  execute_on[n] \in [Vids -> Values \cup {None}]
<1> DEFINE S == {i \in 0 .. Len(program) :
                   execute_on[i] # None => execute_on[i] \in [Vids -> Values \cup {None}]}
<1>0. Len(program) \in Nat
  OBVIOUS
<1>1. 0 \in S
  BY <1>0, ExecuteOn
<1>2. ASSUME NEW i \in 0 .. Len(program) - 1, i \in S PROVE i + 1 \in S
  <2> DEFINE st == execute_on[i]
             ins == program[i + 1]
             args == Operands(st, ins)
  <2>1. i + 1 \in 1 .. Len(program) /\ i + 1 - 1 = i
    OBVIOUS
  <2>2. execute_on[i + 1] = After(st, i + 1)
    <3>1. execute_on[i + 1] = After(execute_on[i + 1 - 1], i + 1)
      BY <1>0, <2>1, ExecuteOn
    <3> QED
      BY <2>1, <3>1
  <2>3. ASSUME execute_on[i + 1] # None
        PROVE  execute_on[i + 1] \in [Vids -> Values \cup {None}]
    <3>1. /\ st # None /\ Available(st, ins)
          /\ execute_on[i + 1] = [st EXCEPT ![ins.result] = mock_calculate(ins, args)]
      BY <2>2, <2>3 DEF After
    <3>2. st \in [Vids -> Values \cup {None}]
      BY <1>2, <3>1
    <3>3. ins \in Instructions
      BY <2>1
    <3>4. \A k \in DOMAIN ins.args : args[k] \in Values
      BY <3>1, <3>2, <3>3, InstructionShape DEF Available, Operands
    <3>5. mock_calculate(ins, args) \in Values
      BY <3>3, <3>4, InstructionShape, MockCalculateType
    <3> HIDE DEF st, ins, args
    <3> QED
      BY <3>1, <3>2, <3>5
  <2> QED
    BY <2>1, <2>3
<1>3. 0 .. Len(program) \subseteq S
  <2> HIDE DEF S
  <2> QED
    BY <1>0, <1>1, <1>2, SetInduction
<1> QED
  BY <1>3

-----------------------------------------------------------------------------
(* Types.                                                                  *)

(* A byte is an entry. *)
LEMMA BytesAreSome == \A b \in Bytes : b # None
  BY NoneAssumption, Zenon

(* Data is an entry. *)
LEMMA ValuesAreSome == \A value \in Values : value # None
  BY NoneAssumption, Zenon DEF Values

(* Programs are sequences of instructions. *)
LEMMA ProgramShape ==
  ASSUME program \in Programs
  PROVE  /\ program \in Seq(Instructions) /\ Len(program) \in Nat
         /\ \A i \in 1 .. Len(program) : program[i] \in Instructions
  BY ProgramAssumption

(* What was put is data. *)
LEMMA DataShape ==
  ASSUME data \in [Vids -> DataValues \cup {None}]
  PROVE  data \in [Vids -> Values \cup {None}]
  BY DataAssumption DEF Values

(* What an instruction with its operands computes. *)
LEMMA InstructionComputes ==
  ASSUME TypeOK, NEW s \in Sids, NEW ins \in Instructions,
         Available([v \in Vids |-> retrieve_operand(s, v)], ins)
  PROVE  calculate(ins, Operands([v \in Vids |-> retrieve_operand(s, v)], ins)) \in Bytes
<1> DEFINE operands == [v \in Vids |-> retrieve_operand(s, v)]
           args == Operands(operands, ins)
<1>1. \A v \in Vids : operands[v] \in {None} \cup Bytes
  BY DEF TypeOK, retrieve_operand
<1>2. \A k \in DOMAIN ins.args : args[k] \in Bytes
  BY <1>1, InstructionShape DEF Available, Operands
<1> HIDE DEF args, operands
<1>3. calculate(ins, args) \in Bytes
  BY <1>2, InstructionShape, CalculateType
<1> QED
  BY <1>3 DEF args, operands

(* The types hold at the start, *)
LEMMA TypeInit == Init => TypeOK
<1> SUFFICES ASSUME Init PROVE TypeOK
  OBVIOUS
<1>1. \A s \in Sids, v \in Vids :
        data[v] # None => encode(data[v])[s] \in Bytes
  <2>1. data \in [Vids -> Values \cup {None}]
    BY DataShape DEF Init
  <2> QED
    BY <2>1, EncodeType DEF Values
<1>2. memory \in [Sids -> [Vids -> {None} \cup Bytes]]
  BY <1>1 DEF Init
<1>3. context \in [Sids -> [Vids -> {None} \cup Bytes]]
  BY DEF Init
<1>4. next \in [Sids -> 0 .. Len(program) + 2]
  <2>1. Len(program) \in Nat
    BY ProgramShape DEF Init
  <2> QED
    BY <2>1 DEF Init
<1> QED
  BY <1>2, <1>3, <1>4 DEF Init, TypeOK

(* and every step of a peer keeps them. *)
LEMMA TypeNext == TypeOK /\ [Next]_vars => TypeOK'
<1> SUFFICES ASSUME TypeOK, [Next]_vars PROVE TypeOK'
  OBVIOUS
<1>1. Len(program) \in Nat
  BY ProgramShape DEF TypeOK
<1>2. ASSUME NEW s \in Sids, prepare_context(s) PROVE TypeOK'
  <2>1. context' \in [Sids -> [Vids -> {None} \cup Bytes]]
    BY <1>2 DEF TypeOK, prepare_context
  <2>2. next' \in [Sids -> 0 .. Len(program) + 2]
    BY <1>1, <1>2 DEF TypeOK, prepare_context
  <2> QED
    BY <1>2, <2>1, <2>2 DEF TypeOK, prepare_context
<1>3. ASSUME NEW s \in Sids, execute_instruction(s) PROVE TypeOK'
  <2> DEFINE ins == program[next[s]]
             operands == [v \in Vids |-> retrieve_operand(s, v)]
  <2>1. ins \in Instructions
    BY <1>3, ProgramShape DEF TypeOK, execute_instruction
  <2>2. context' \in [Sids -> [Vids -> {None} \cup Bytes]]
    <3>1. CASE Available(operands, ins)
      <4>1. calculate(ins, Operands(operands, ins)) \in Bytes
        BY <2>1, <3>1, InstructionComputes
      <4>2. context' = [context EXCEPT ![s][ins.result] = calculate(ins, Operands(operands, ins))]
        BY <1>3, <3>1 DEF execute_instruction
      <4> HIDE DEF ins, operands
      <4> QED
        BY <4>1, <4>2 DEF TypeOK
    <3>2. CASE ~ Available(operands, ins)
      BY <1>3, <3>2 DEF TypeOK, execute_instruction
    <3> QED
      BY <3>1, <3>2
  <2>3. next' \in [Sids -> 0 .. Len(program) + 2]
    BY <1>1, <1>3 DEF TypeOK, execute_instruction
  <2> QED
    BY <1>3, <2>2, <2>3 DEF TypeOK, execute_instruction
<1>4. ASSUME NEW s \in Sids, save_results(s) PROVE TypeOK'
  <2>1. memory' \in [Sids -> [Vids -> {None} \cup Bytes]]
    BY <1>4 DEF TypeOK, save_results
  <2>2. next' \in [Sids -> 0 .. Len(program) + 2]
    BY <1>1, <1>4 DEF TypeOK, save_results
  <2> QED
    BY <1>4, <2>1, <2>2 DEF TypeOK, save_results
<1>5. CASE UNCHANGED vars
  BY <1>5 DEF TypeOK, vars
<1> QED
  BY <1>2, <1>3, <1>4, <1>5 DEF Next

(* The types, for all programs: what a processor keeps under an id is a    *)
(* byte of the field, whatever it computes.                                *)
THEOREM TypeCorrect == Spec => []TypeOK
  BY TypeInit, TypeNext, PTL DEF Spec

-----------------------------------------------------------------------------
(* The execution.                                                          *)

(* A peer's first operands are its shards of the data.                     *)
LEMMA ExecutionInit == Init => ExecutionInv
<1> SUFFICES ASSUME Init, NEW s \in Complete PROVE PeerInv(s)
  BY DEF ExecutionInv
<1>1. s \in Sids /\ next[s] = 0
  BY DEF Init, Complete
<1>2. memory[s] = ShardsOf(data, s)
  BY <1>1 DEF Init, Complete, ShardsOf
<1>3. Len(program) \in Nat
  BY ProgramShape DEF Init
<1> QED
  BY <1>1, <1>2, <1>3 DEF PeerInv, Done

(* An instruction that the mock processor executes gives a peer the shard  *)
(* of its result.                                                          *)
LEMMA InstructionOnShards ==
  ASSUME Linear, TypeOK, NEW s \in Sids, NEW n \in 1 .. Len(program),
         execute_on[n] # None,
         execute_on[n - 1] # None =>
           \A v \in Vids : retrieve_operand(s, v) = ShardsOf(execute_on[n - 1], s)[v]
  PROVE  LET operands == [v \in Vids |-> retrieve_operand(s, v)]
             result == calculate(program[n], Operands(operands, program[n]))
         IN  /\ Available(operands, program[n])
             /\ result # None
             /\ \A v \in Vids : ShardsOf(execute_on[n], s)[v]
                  = IF v = program[n].result THEN result
                    ELSE ShardsOf(execute_on[n - 1], s)[v]
<1> DEFINE operands == [v \in Vids |-> retrieve_operand(s, v)]
           ins == program[n]
           st == execute_on[n - 1]
           args == Operands(st, ins)
           shards == Operands(operands, ins)
           value == mock_calculate(ins, args)
<1>1. /\ program \in Seq(Instructions) /\ Len(program) \in Nat /\ ins \in Instructions
      /\ data \in [Vids -> Values \cup {None}]
  BY ProgramShape, DataShape DEF TypeOK
<1>2. execute_on[n] = After(st, n)
  BY <1>1, ExecuteOn
<1>3. /\ st # None /\ Available(st, ins)
      /\ execute_on[n] = [st EXCEPT ![ins.result] = value]
  BY <1>2 DEF After
<1>4. st \in [Vids -> Values \cup {None}]
  <2>1. n - 1 \in 0 .. Len(program)
    BY <1>1
  <2> QED
    BY <1>1, <1>3, <2>1, StorageType
<1>5. \A v \in Vids : operands[v] = ShardsOf(st, s)[v]
  BY <1>3
<1>6. ins.operation \in {"Plus", "Sub", "Inv"}
  BY DEF Linear, TypeOK
<1> HIDE DEF operands, ins, st
<1>7. \A k \in DOMAIN ins.args :
        /\ st[ins.args[k]] \in Values
        /\ operands[ins.args[k]] = encode(st[ins.args[k]])[s]
        /\ operands[ins.args[k]] \in Bytes
  <2> SUFFICES ASSUME NEW k \in DOMAIN ins.args
               PROVE  /\ st[ins.args[k]] \in Values
                      /\ operands[ins.args[k]] = encode(st[ins.args[k]])[s]
                      /\ operands[ins.args[k]] \in Bytes
    OBVIOUS
  <2>1. ins.args[k] \in Vids
    BY <1>1, InstructionShape
  <2>2. st[ins.args[k]] # None /\ st[ins.args[k]] \in Values
    BY <1>3, <1>4, <2>1 DEF Available
  <2>3. operands[ins.args[k]] = encode(st[ins.args[k]])[s]
    BY <1>5, <2>1, <2>2 DEF ShardsOf
  <2> QED
    BY <2>2, <2>3, EncodeType DEF Values
<1>8. Available(operands, ins)
  BY <1>7, BytesAreSome DEF Available
<1>9. \A k \in DOMAIN ins.args : args[k] \in Values /\ shards[k] = encode(args[k])[s]
  BY <1>7 DEF Operands
<1>10. value \in Values
  <2> HIDE DEF args
  <2> QED
    BY <1>1, <1>9, InstructionShape, MockCalculateType
<1>11. calculate(ins, shards) = encode(value)[s]
  <2> HIDE DEF args, shards
  <2>1. /\ args[1] \in Values /\ shards[1] = encode(args[1])[s]
        /\ ins.operation # "Inv" => args[2] \in Values /\ shards[2] = encode(args[2])[s]
    BY <1>1, <1>9, InstructionShape
  <2> QED
    BY <1>1, <1>6, <2>1, CalculateOnShards
<1> HIDE DEF args, shards, value
<1>12. calculate(ins, shards) \in Bytes
  BY <1>10, <1>11, EncodeType DEF Values
<1>13. \A v \in Vids : ShardsOf(execute_on[n], s)[v]
         = IF v = ins.result THEN calculate(ins, shards) ELSE ShardsOf(st, s)[v]
  <2> SUFFICES ASSUME NEW v \in Vids
               PROVE  ShardsOf(execute_on[n], s)[v]
                        = IF v = ins.result THEN calculate(ins, shards) ELSE ShardsOf(st, s)[v]
    OBVIOUS
  <2>1. execute_on[n][v] = IF v = ins.result THEN value ELSE st[v]
    BY <1>3, <1>4
  <2>2. value # None
    BY <1>10, ValuesAreSome
  <2> QED
    BY <1>11, <2>1, <2>2 DEF ShardsOf
<1> QED
  BY <1>8, <1>12, <1>13, BytesAreSome DEF operands, ins, st, shards

(* A step of one peer leaves the others as they were. *)
LEMMA PeerUnchanged ==
  ASSUME NEW s \in Sids, PeerInv(s), UNCHANGED <<data, program>>,
         memory'[s] = memory[s], context'[s] = context[s], next'[s] = next[s]
  PROVE  PeerInv(s)'
<1>1. execute_on' = execute_on
  BY DEF execute_on, Available, Operands, mock_calculate
<1>2. \A v \in Vids : retrieve_operand(s, v)' = retrieve_operand(s, v)
  BY DEF retrieve_operand
<1>3. \A st : ShardsOf(st, s)' = ShardsOf(st, s)
  BY DEF ShardsOf
<1> QED
  BY <1>1, <1>2 DEF PeerInv, Done, ShardsOf

(* Every step of a peer keeps its shards those of the mock's storage. *)
LEMMA ExecutionNext ==
  ASSUME Linear PROVE TypeOK /\ ExecutionInv /\ [Next]_vars => ExecutionInv'
<1> SUFFICES ASSUME TypeOK, ExecutionInv, [Next]_vars PROVE ExecutionInv'
  OBVIOUS
<1>0. Len(program) \in Nat /\ next \in [Sids -> 0 .. Len(program) + 2]
  BY ProgramShape DEF TypeOK
<1>1. UNCHANGED <<data, program, late>>
  BY DEF Next, vars, prepare_context, execute_instruction, save_results
<1>2. Complete' = Complete
  BY <1>1 DEF Complete
<1>3. execute_on' = execute_on
  BY <1>1 DEF execute_on, Available, Operands, mock_calculate
<1>4. SUFFICES ASSUME NEW s \in Complete PROVE PeerInv(s)'
  BY <1>2 DEF ExecutionInv
<1>5. s \in Sids /\ PeerInv(s)
  BY DEF ExecutionInv, Complete
<1>6. CASE prepare_context(s)
  <2>1. next[s] = 0 /\ next'[s] = 1 /\ memory' = memory
    BY <1>0, <1>5, <1>6 DEF prepare_context
  <2>2. memory[s] = ShardsOf(data, s)
    BY <1>0, <1>5, <2>1 DEF PeerInv
  <2>3. \A v \in Vids : context'[s][v] = memory[s][v] \/ context'[s][v] = None
    BY <1>5, <1>6 DEF prepare_context, TypeOK
  <2>4. \A v \in Vids : retrieve_operand(s, v)' = memory[s][v]
    BY <2>1, <2>3 DEF retrieve_operand
  <2>5. execute_on[0] = data
    BY <1>0, ExecuteOn
  <2> QED
    BY <1>0, <1>1, <1>3, <2>1, <2>2, <2>4, <2>5 DEF PeerInv, Done, ShardsOf
<1>7. CASE execute_instruction(s)
  <2> DEFINE n == next[s]
             operands == [v \in Vids |-> retrieve_operand(s, v)]
             result == calculate(program[n], Operands(operands, program[n]))
  <2>1. n \in 1 .. Len(program) /\ next'[s] = n + 1 /\ memory' = memory
    BY <1>0, <1>5, <1>7 DEF execute_instruction
  <2>2. memory[s] = ShardsOf(data, s)
    BY <1>0, <1>5, <2>1 DEF PeerInv
  <2>3. execute_on[n - 1] # None =>
          \A v \in Vids : retrieve_operand(s, v) = ShardsOf(execute_on[n - 1], s)[v]
    BY <1>0, <1>5, <2>1 DEF PeerInv
  <2>4. ASSUME execute_on[n] # None
        PROVE  \A v \in Vids : retrieve_operand(s, v)' = ShardsOf(execute_on[n], s)[v]
    <3>1. /\ Available(operands, program[n]) /\ result # None
          /\ \A v \in Vids : ShardsOf(execute_on[n], s)[v]
               = IF v = program[n].result THEN result ELSE ShardsOf(execute_on[n - 1], s)[v]
      BY <1>5, <2>1, <2>3, <2>4, InstructionOnShards
    <3>2. execute_on[n - 1] # None
      <4>1. execute_on[n] = After(execute_on[n - 1], n)
        BY <1>0, <2>1, ExecuteOn
      <4> QED
        BY <2>4, <4>1 DEF After
    <3>3. context' = [context EXCEPT ![s][program[n].result] = result]
      BY <1>7, <3>1 DEF execute_instruction
    <3> HIDE DEF result, operands
    <3>4. \A v \in Vids : context'[s][v] = IF v = program[n].result THEN result ELSE context[s][v]
      BY <1>5, <3>3 DEF TypeOK
    <3>5. \A v \in Vids : retrieve_operand(s, v)'
            = IF v = program[n].result THEN result ELSE retrieve_operand(s, v)
      BY <2>1, <3>1, <3>4 DEF retrieve_operand
    <3> QED
      BY <2>3, <3>1, <3>2, <3>5
  <2> HIDE DEF n
  <2>5. /\ next'[s] \in 1 .. Len(program) + 1 /\ next'[s] - 1 = n
        /\ next'[s] # Len(program) + 2
    BY <1>0, <2>1
  <2>6. (memory[s] = ShardsOf(data, s))'
    BY <1>1, <2>1, <2>2 DEF ShardsOf
  <2>7. (execute_on[next[s] - 1] # None =>
           \A v \in Vids : retrieve_operand(s, v) = ShardsOf(execute_on[next[s] - 1], s)[v])'
    BY <1>3, <2>4, <2>5 DEF ShardsOf
  <2> QED
    BY <1>1, <2>5, <2>6, <2>7 DEF PeerInv, Done
<1>8. CASE save_results(s)
  <2>1. next[s] = Len(program) + 1 /\ next'[s] = Len(program) + 2
    BY <1>0, <1>5, <1>8 DEF save_results
  <2>2. execute_on[Len(program)] # None =>
          \A v \in Vids : retrieve_operand(s, v) = ShardsOf(execute_on[Len(program)], s)[v]
    BY <1>0, <1>5, <2>1 DEF PeerInv
  <2>3. memory'[s] = [v \in Vids |-> retrieve_operand(s, v)]
    BY <1>5, <1>8 DEF save_results, retrieve_operand, TypeOK
  <2>4. execute_on[Len(program)] # None => memory'[s] = ShardsOf(execute_on[Len(program)], s)
    BY <2>2, <2>3 DEF ShardsOf
  <2> QED
    BY <1>0, <1>1, <1>3, <2>1, <2>4 DEF PeerInv, Done, ShardsOf
<1>9. CASE memory'[s] = memory[s] /\ context'[s] = context[s] /\ next'[s] = next[s]
  BY <1>1, <1>5, <1>9, PeerUnchanged
<1>10. ASSUME NEW p \in Sids, p # s,
              prepare_context(p) \/ execute_instruction(p) \/ save_results(p)
       PROVE  memory'[s] = memory[s] /\ context'[s] = context[s] /\ next'[s] = next[s]
  BY <1>5, <1>10 DEF prepare_context, execute_instruction, save_results, TypeOK
<1>11. CASE UNCHANGED vars
  BY <1>9, <1>11 DEF vars
<1> QED
  BY <1>5, <1>6, <1>7, <1>8, <1>9, <1>10, <1>11 DEF Next

(* The inductive invariant of executions of additive programs. *)
LEMMA ExecutionInvariant ==
  ASSUME Linear PROVE Spec => [](TypeOK /\ ExecutionInv)
<1>1. Init => TypeOK /\ ExecutionInv
  BY TypeInit, ExecutionInit
<1>2. TypeOK /\ ExecutionInv /\ [Next]_vars => (TypeOK /\ ExecutionInv)'
  BY TypeNext, ExecutionNext
<1> QED
  BY <1>1, <1>2, PTL DEF Spec

(* Shards of a storage decode to what is in it. *)
LEMMA ShardsDecode ==
  ASSUME NEW peers \in kSubset(K, Sids), NEW st, NEW v \in Vids, NEW shard,
         st[v] \in Values \cup {None},
         \A s \in peers : shard[s][v] # None /\ shard[s][v] = ShardsOf(st, s)[v]
  PROVE  decode([s \in peers |-> shard[s][v]]) = st[v]
<1>1. PICK p \in peers : TRUE
  BY Pair
<1>2. st[v] # None
  BY <1>1 DEF ShardsOf
<1>3. \A s \in peers : shard[s][v] = encode(st[v])[s]
  BY <1>2 DEF ShardsOf
<1>4. [s \in peers |-> shard[s][v]] = [s \in peers |-> encode(st[v])[s]]
  BY <1>3
<1>5. st[v] \in [1 .. K -> Bytes]
  BY <1>2 DEF Values
<1> QED
  BY <1>4, <1>5, DecodeOfEncode

(* What it says of contexts, *)
LEMMA ContextsExpected ==
  TypeOK /\ ExecutionInv => ContextsDecodeToExpected
<1> SUFFICES ASSUME TypeOK, ExecutionInv, NEW peers \in kSubset(K, Sids),
                    NEW n \in 1 .. Len(program) + 1,
                    \A s \in peers : next[s] = n /\ s \in Complete
             PROVE  Expected(context, peers, next[Min(peers)] - 1)
  BY DEF ContextsDecodeToExpected
<1>1. Len(program) \in Nat /\ program \in Seq(Instructions)
        /\ data \in [Vids -> Values \cup {None}]
  BY ProgramShape, DataShape DEF TypeOK
<1>2. next[Min(peers)] = n
  BY Pair
<1>3. n - 1 \in 0 .. Len(program)
  BY <1>1
<1>4. SUFFICES ASSUME execute_on[n - 1] # None, NEW v \in Vids,
                      \A s \in peers : context[s][v] # None
               PROVE  decode([s \in peers |-> context[s][v]]) = execute_on[n - 1][v]
  BY <1>2 DEF Expected
<1>5. execute_on[n - 1] \in [Vids -> Values \cup {None}]
  BY <1>1, <1>3, <1>4, StorageType
<1>6. \A s \in peers : context[s][v] = ShardsOf(execute_on[n - 1], s)[v]
  <2> SUFFICES ASSUME NEW s \in peers
               PROVE  context[s][v] = ShardsOf(execute_on[n - 1], s)[v]
    OBVIOUS
  <2>1. PeerInv(s) /\ next[s] = n
    BY DEF ExecutionInv
  <2>2. retrieve_operand(s, v) = ShardsOf(execute_on[n - 1], s)[v]
    BY <1>4, <2>1 DEF PeerInv
  <2> QED
    BY <1>4, <2>2 DEF retrieve_operand
<1> QED
  BY <1>4, <1>5, <1>6, ShardsDecode

(* and of memories after the program. *)
LEMMA MemoriesExpected ==
  TypeOK /\ ExecutionInv => RecollectedIsExpected
<1> SUFFICES ASSUME TypeOK, ExecutionInv, NEW peers \in kSubset(K, Sids),
                    \A s \in peers : Done(s) /\ s \in Complete,
                    execute_on[Len(program)] # None
             PROVE  /\ \A v \in Vids : (\A s \in peers : memory[s][v] # None) =>
                         decode([s \in peers |-> memory[s][v]]) = execute_on[Len(program)][v]
                    /\ \A s \in peers, v \in Vids :
                         execute_on[Len(program)][v] # None => memory[s][v] # None
  BY DEF RecollectedIsExpected, Expected
<1> DEFINE st == execute_on[Len(program)]
<1>1. Len(program) \in Nat /\ program \in Seq(Instructions)
        /\ data \in [Vids -> Values \cup {None}]
  BY ProgramShape, DataShape DEF TypeOK
<1>2. st \in [Vids -> Values \cup {None}]
  <2>1. Len(program) \in 0 .. Len(program)
    BY <1>1
  <2> QED
    BY <1>1, <2>1, StorageType
<1>3. \A s \in peers : s \in Sids /\ memory[s] = ShardsOf(st, s)
  BY DEF ExecutionInv, PeerInv, Complete
<1> HIDE DEF st
<1>4. ASSUME NEW v \in Vids, \A s \in peers : memory[s][v] # None
      PROVE  decode([s \in peers |-> memory[s][v]]) = st[v]
  BY <1>2, <1>3, <1>4, ShardsDecode
<1>5. ASSUME NEW s \in peers, NEW v \in Vids, st[v] # None
      PROVE  memory[s][v] # None
  <2>1. encode(st[v])[s] \in Bytes
    BY <1>2, <1>3, <1>5, EncodeType DEF Values
  <2>2. memory[s][v] = encode(st[v])[s]
    <3>1. memory[s] = ShardsOf(st, s)
      BY <1>3
    <3>2. ShardsOf(st, s)[v] = encode(st[v])[s]
      BY <1>5 DEF ShardsOf
    <3> QED
      BY <3>1, <3>2
  <2> QED
    BY <2>1, <2>2, BytesAreSome
<1> QED
  BY <1>4, <1>5 DEF st

(* At every instruction the contexts of any two peers (of the `context` of *)
(* `execute` in single_threaded.rs) decode to what the mock processor has  *)
(* there, for additive programs of any length.                             *)
THEOREM ContextsDecode ==
  ASSUME Linear PROVE Spec => []ContextsDecodeToExpected
  BY ExecutionInvariant, ContextsExpected, PTL

(* What any two peers have stored after the program decodes to the         *)
(* expected output of the user interface (`mock_calc` of ui.rs), and both  *)
(* have a shard of everything in it.                                       *)
THEOREM RecollectionExpected ==
  ASSUME Linear PROVE Spec => []RecollectedIsExpected
  BY ExecutionInvariant, MemoriesExpected, PTL

===========================================================================
