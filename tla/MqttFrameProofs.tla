--------------------------- MODULE MqttFrameProofs ---------------------------
(***************************************************************************)
(* Every frame that is put is the one its arguments say and every frame    *)
(* that is received is read as it was sent, for every length MQTT has.     *)
(*                                                                         *)
(* The remaining length to the base 128; sums of the sizes of the pieces;  *)
(* the bits of an octet; the frames, put together piece by piece behind    *)
(* their header; their reading; the invariant.                             *)
(***************************************************************************)
EXTENDS MqttFrame, FiniteSetTheorems, SequenceTheorems, TLAPS

Limit == 128 * 128 * 128 * 128   \* of what four length octets can say

LEMMA Weights ==
    /\ Weight[1] = 1 /\ Weight[2] = 128
    /\ Weight[3] = 128 * 128 /\ Weight[4] = 128 * 128 * 128
BY DEF Weight

(* Digits(x) is the number of digits of x to the base 128. *)
LEMMA DigitsOf ==
    ASSUME NEW x \in Nat, x < Limit
    PROVE  /\ Digits(x) \in 1..4
           /\ x < 128 * Weight[Digits(x)]
           /\ Digits(x) > 1 => x >= Weight[Digits(x)]
<1> DEFINE Is(k) == x < 128 * Weight[k] /\ (k > 1 => x >= Weight[k])
<1>1. Is(1) \/ Is(2) \/ Is(3) \/ Is(4)
  BY Weights, SMT DEF Limit
<1>2. \E k \in 1..4 : Is(k)
  BY <1>1
<1>3. Digits(x) = CHOOSE k \in 1..4 : Is(k)
  BY DEF Digits
<1>4. Digits(x) \in 1..4 /\ Is(Digits(x))
  BY <1>2, <1>3
<1>5. QED
  BY <1>4

Digit(x, i) == (x \div Weight[i]) % 128

(* f's length octets are those that are put for x.                         *)
HasLength(f, x) ==
    \A i \in 1..Digits(x) : f[i + 1] = PutVariableLength(x)[i]

(* The digits of a number to the base 128 add up to it.                    *)
LEMMA DigitsAddUp ==
    ASSUME NEW x \in Nat, x < Limit
    PROVE  /\ \A i \in 1..4 : Digit(x, i) \in 0..127
           /\ x = Digit(x, 1) + 128 * Digit(x, 2)
                  + 128 * 128 * Digit(x, 3) + 128 * 128 * 128 * Digit(x, 4)
<1>1. /\ Digit(x, 1) = x % 128
      /\ Digit(x, 2) = (x \div 128) % 128
      /\ Digit(x, 3) = (x \div (128 * 128)) % 128
      /\ Digit(x, 4) = (x \div (128 * 128 * 128)) % 128
  BY Weights, SMT DEF Digit
<1>2. /\ x = (x % 128) + 128 * (x \div 128)
      /\ x \div 128 = ((x \div 128) % 128) + 128 * (x \div (128 * 128))
      /\ x \div (128 * 128) = ((x \div (128 * 128)) % 128)
                               + 128 * (x \div (128 * 128 * 128))
      /\ x \div (128 * 128 * 128) = (x \div (128 * 128 * 128)) % 128
  BY SMT DEF Limit
<1>3. x % 128 \in 0..127 /\ (x \div 128) % 128 \in 0..127
      /\ (x \div (128 * 128)) % 128 \in 0..127
      /\ (x \div (128 * 128 * 128)) % 128 \in 0..127
      /\ x \div 128 \in Nat /\ x \div (128 * 128) \in Nat
      /\ x \div (128 * 128 * 128) \in Nat
  BY SMT
<1>4. \A i \in 1..4 : Digit(x, i) \in 0..127
  BY <1>1, <1>3, SMT
<1>5. x = Digit(x, 1) + 128 * Digit(x, 2)
          + 128 * 128 * Digit(x, 3) + 128 * 128 * 128 * Digit(x, 4)
  <2>1. PICK p \in Nat, q \in Nat :
           p = x \div 128 /\ q = x \div (128 * 128)
    BY <1>3
  <2>2. PICK a \in 0..127, b \in 0..127, c \in 0..127, d \in 0..127 :
           /\ a = Digit(x, 1) /\ b = Digit(x, 2)
           /\ c = Digit(x, 3) /\ d = Digit(x, 4)
    <3>1. /\ Digit(x, 1) \in 0..127 /\ Digit(x, 2) \in 0..127
          /\ Digit(x, 3) \in 0..127 /\ Digit(x, 4) \in 0..127
      BY <1>4
    <3>2. QED
      BY <3>1
  <2>3. x = a + 128 * p /\ p = b + 128 * q /\ q = c + 128 * d
    <3>1. /\ x % 128 = a /\ p % 128 = b /\ q % 128 = c
          /\ x \div (128 * 128 * 128) = d
      BY <1>1, <1>2, <2>1, <2>2
    <3>2. x = a + 128 * p
      BY <1>2, <2>1, <3>1
    <3>3. p = b + 128 * q
      BY <1>2, <2>1, <3>1
    <3>4. q = c + 128 * d
      BY <1>2, <2>1, <3>1
    <3>5. QED
      BY <3>2, <3>3, <3>4
  <2>4. x = a + 128 * b + 128 * 128 * c + 128 * 128 * 128 * d
    BY <2>3, SMT
  <2>5. QED
    BY <2>2, <2>4
<1>6. QED
  BY <1>4, <1>5

(* Whatever is put before and behind it, the length is where it is read.  *)
LEMMA PutHasLength ==
    ASSUME NEW x \in Nat, x < Limit, NEW S, NEW o \in S, NEW rest \in Seq(S),
           \A i \in 1..Digits(x) : PutVariableLength(x)[i] \in S
    PROVE  HasLength(<<o>> \o PutVariableLength(x) \o rest, x)
<1>1. Digits(x) \in 1..4
  BY DigitsOf
<1> DEFINE v == PutVariableLength(x)
           g == <<o>> \o v
<1>2. v \in Seq(S) /\ Len(v) = Digits(x)
  <2>1. v \in [1..Digits(x) -> S]
    BY DEF PutVariableLength
  <2>2. QED
    BY <1>1, <2>1
<1> HIDE DEF v
<1>3. /\ g \in Seq(S) /\ Len(g) = Digits(x) + 1
      /\ \A i \in 1..Digits(x) : g[i + 1] = v[i]
  BY <1>1, <1>2
<1> HIDE DEF g
<1>4. \A i \in 1..Digits(x) : (g \o rest)[i + 1] = v[i]
  BY <1>1, <1>3
<1>5. QED
  BY <1>4 DEF HasLength, g, v

LEMMA OctetOf ==
    ASSUME NEW x \in Nat, x < Limit, NEW f, HasLength(f, x),
           NEW i \in 1..Digits(x)
    PROVE  /\ Digit(x, i) \in 0..127
           /\ f[i + 1].val \in 0..255
           /\ f[i + 1].val % 128 = Digit(x, i)
           /\ (f[i + 1].val >= 128) = (i < Digits(x))
<1>1. Digits(x) \in 1..4 /\ i \in 1..4
  BY DigitsOf
<1>2. f[i + 1].val = Digit(x, i) + IF i < Digits(x) THEN 128 ELSE 0
  <2>1. f[i + 1] = PutVariableLength(x)[i]
    BY DEF HasLength
  <2>2. PutVariableLength(x)[i]
          = Octet(Digit(x, i) + IF i < Digits(x) THEN 128 ELSE 0)
    BY DEF PutVariableLength, Digit
  <2>3. QED
    BY <2>1, <2>2 DEF Octet
<1>4. Digit(x, i) \in 0..127
  BY <1>1, DigitsAddUp
<1>5. CASE i < Digits(x)
  BY <1>2, <1>4, <1>5
<1>6. CASE ~(i < Digits(x))
  BY <1>1, <1>2, <1>4, <1>6
<1>7. QED
  BY <1>5, <1>6, <1>4

Part(x, i, n) == IF i <= n THEN Digit(x, i) * Weight[i] ELSE 0

(* The first n digits are worth no more than the number, all are worth it. *)
LEMMA PartsWorth ==
    ASSUME NEW x \in Nat, x < Limit, NEW n \in 1..Digits(x)
    PROVE  LET s == Part(x, 1, n) + Part(x, 2, n) + Part(x, 3, n)
                    + Part(x, 4, n)
           IN s \in 0..x /\ (n = Digits(x) => s = x)
<1>1. Digits(x) \in 1..4 /\ x < 128 * Weight[Digits(x)]
  BY DigitsOf
<1>2. /\ x = Digit(x, 1) + 128 * Digit(x, 2)
              + 128 * 128 * Digit(x, 3) + 128 * 128 * 128 * Digit(x, 4)
      /\ Digit(x, 1) \in 0..127 /\ Digit(x, 2) \in 0..127
      /\ Digit(x, 3) \in 0..127 /\ Digit(x, 4) \in 0..127
  BY DigitsAddUp
<1>3. /\ Digits(x) <= 3 => Digit(x, 4) = 0
      /\ Digits(x) <= 2 => Digit(x, 3) = 0
      /\ Digits(x) <= 1 => Digit(x, 2) = 0
  <2>1. /\ x < 128 => /\ Digit(x, 2) = 0 /\ Digit(x, 3) = 0
                      /\ Digit(x, 4) = 0
        /\ x < 128 * 128 => Digit(x, 3) = 0 /\ Digit(x, 4) = 0
        /\ x < 128 * 128 * 128 => Digit(x, 4) = 0
    <3>1. PICK a \in 0..127, b \in 0..127, c \in 0..127, d \in 0..127 :
             /\ a = Digit(x, 1) /\ b = Digit(x, 2)
             /\ c = Digit(x, 3) /\ d = Digit(x, 4)
      BY <1>2
    <3>2. x = a + 128 * b + 128 * 128 * c + 128 * 128 * 128 * d
      BY <1>2, <3>1
    <3>3. /\ x < 128 => b = 0 /\ c = 0 /\ d = 0
          /\ x < 128 * 128 => c = 0 /\ d = 0
          /\ x < 128 * 128 * 128 => d = 0
      BY <3>2, SMT
    <3>4. QED
      BY <3>1, <3>3
  <2>2. CASE Digits(x) = 1
    <3>1. x < 128
      BY <1>1, <2>2, Weights, SMT
    <3>2. QED
      BY <2>1, <3>1
  <2>3. CASE Digits(x) = 2
    <3>1. x < 128 * 128
      BY <1>1, <2>3, Weights, SMT
    <3>2. QED
      BY <2>1, <2>3, <3>1
  <2>4. CASE Digits(x) = 3
    <3>1. x < 128 * 128 * 128
      BY <1>1, <2>4, Weights, SMT
    <3>2. QED
      BY <2>1, <2>4, <3>1
  <2>5. CASE Digits(x) = 4
    BY <2>5
  <2>6. QED
    BY <1>1, <2>2, <2>3, <2>4, <2>5
<1> DEFINE s == Part(x, 1, n) + Part(x, 2, n) + Part(x, 3, n) + Part(x, 4, n)
<1>4. s = Digit(x, 1) + (IF 2 <= n THEN Digit(x, 2) * 128 ELSE 0)
          + (IF 3 <= n THEN Digit(x, 3) * (128 * 128) ELSE 0)
          + (IF 4 <= n THEN Digit(x, 4) * (128 * 128 * 128) ELSE 0)
  <2>1. Part(x, 1, n) = Digit(x, 1)
    BY <1>1, <1>2, Weights, SMT DEF Part
  <2>2. Part(x, 2, n) = IF 2 <= n THEN Digit(x, 2) * 128 ELSE 0
    BY Weights, SMT DEF Part
  <2>3. Part(x, 3, n) = IF 3 <= n THEN Digit(x, 3) * (128 * 128) ELSE 0
    BY Weights, SMT DEF Part
  <2>4. Part(x, 4, n) = IF 4 <= n THEN Digit(x, 4) * (128 * 128 * 128) ELSE 0
    BY Weights, SMT DEF Part
  <2>5. QED
    BY <2>1, <2>2, <2>3, <2>4
<1> HIDE DEF s
<1>5. s \in 0..x /\ (n = Digits(x) => s = x)
  <2>1. PICK a \in 0..127, b \in 0..127, c \in 0..127, d \in 0..127 :
           /\ a = Digit(x, 1) /\ b = Digit(x, 2)
           /\ c = Digit(x, 3) /\ d = Digit(x, 4)
    BY <1>2
  <2>2. PICK k \in 1..4 : k = Digits(x)
    BY <1>1
  <2>3. x = a + 128 * b + 128 * 128 * c + 128 * 128 * 128 * d
    BY <1>2, <2>1
  <2>4. s = a + (IF 2 <= n THEN b * 128 ELSE 0)
            + (IF 3 <= n THEN c * (128 * 128) ELSE 0)
            + (IF 4 <= n THEN d * (128 * 128 * 128) ELSE 0)
    BY <1>4, <2>1
  <2>5. (k <= 3 => d = 0) /\ (k <= 2 => c = 0) /\ (k <= 1 => b = 0)
    BY <1>3, <2>1, <2>2
  <2>6. n \in 1..k
    BY <2>2
  <2>7. s \in 0..x /\ (n = k => s = x)
    BY <2>3, <2>4, <2>5, <2>6, SMT
  <2>8. QED
    BY <2>2, <2>7
<1>6. QED
  BY <1>5 DEF s

(* mqtt_frame.c: the length that is read is the length that was put.       *)
THEOREM LengthRoundTrip ==
    ASSUME NEW x \in Nat, x < Limit, NEW f, HasLength(f, x)
    PROVE  LengthOctets(f) = Digits(x) /\ GetVariableLength(f) = x
<1> DEFINE Good(i) == /\ Digit(x, i) \in 0..127
                      /\ f[i + 1].val \in 0..255
                      /\ f[i + 1].val % 128 = Digit(x, i)
                      /\ (f[i + 1].val >= 128) = (i < Digits(x))
<1>0. \A i \in 1..Digits(x) : Good(i)
  BY OctetOf
<1>1. Digits(x) \in 1..4 /\ Digits(x) \in 1..Digits(x)
  BY DigitsOf
<1>a. Good(Digits(x))
  BY <1>0, <1>1
<1>2. LengthOctets(f) = Digits(x)
  <2>1. f[Digits(x) + 1].val < 128
    BY <1>1, <1>a
  <2>2. \A i \in 2..Digits(x) : f[i].val >= 128
    <3> SUFFICES ASSUME NEW i \in 2..Digits(x) PROVE f[i].val >= 128
      OBVIOUS
    <3>1. i - 1 \in 1..Digits(x) /\ i - 1 < Digits(x) /\ (i - 1) + 1 = i
      BY <1>1
    <3>2. f[(i - 1) + 1].val >= 128
      BY <3>1, <1>0
    <3>3. QED
      BY <3>1, <3>2
  <2>3. ASSUME NEW n \in 1..4, f[n + 1].val < 128,
               \A i \in 2..n : f[i].val >= 128
        PROVE  n = Digits(x)
    <3>1. CASE n < Digits(x)
      <4>1. f[n + 1].val >= 128
        BY <1>1, <3>1, <1>0
      <4>2. f[n + 1].val \in 0..255
        BY <1>1, <3>1, <1>0
      <4>3. QED
        BY <2>3, <4>1, <4>2
    <3>2. CASE n > Digits(x)
      <4>1. Digits(x) + 1 \in 2..n
        BY <1>1, <3>2
      <4>2. f[Digits(x) + 1].val \in 0..255
        BY <1>0, <1>1
      <4>3. QED
        BY <2>1, <2>3, <4>1, <4>2
    <3>3. QED
      BY <1>1, <3>1, <3>2
  <2>4. QED
    BY <1>1, <2>1, <2>2, <2>3 DEF LengthOctets
<1>3. GetVariableLength(f) = Part(x, 1, Digits(x)) + Part(x, 2, Digits(x))
                             + Part(x, 3, Digits(x)) + Part(x, 4, Digits(x))
  <2>1. \A i \in 1..4 : i <= Digits(x) => f[i + 1].val % 128 = Digit(x, i)
    BY <1>0, <1>1
  <2>2. QED
    BY <1>2, <2>1, SMT DEF GetVariableLength, Worth, Part
<1>4. QED
  BY <1>1, <1>2, <1>3, PartsWorth

(* mqtt_frame.c:289-307: of a PUBLISH of which n bytes have arrived, the   *)
(* loop refuses a part and accepts the whole, whatever follows in memory.  *)
THEOREM TooShortIsPart ==
    ASSUME NEW x \in Nat, x < Limit, NEW f, HasLength(f, x),
           NEW n \in Nat \ {0}, NEW raw \in 0..255
    PROVE  TooShort(f, n, raw) <=> n < 1 + Digits(x) + x
<1> DEFINE At(i) == LengthAt(f, n, raw, i)
           W(k) == Worth(LAMBDA j : LengthAt(f, n, raw, j), k)
<1> DEFINE Good(i) == /\ Digit(x, i) \in 0..127
                      /\ f[i + 1].val \in 0..255
                      /\ f[i + 1].val % 128 = Digit(x, i)
                      /\ (f[i + 1].val >= 128) = (i < Digits(x))
<1>0. \A i \in 1..Digits(x) : Good(i)
  BY OctetOf
<1>1. Digits(x) \in 1..4 /\ Digits(x) \in 1..Digits(x)
  BY DigitsOf
<1>a. Good(Digits(x))
  BY <1>0, <1>1
<1>2. ASSUME NEW k \in 1..Digits(x), k < n
      PROVE  W(k) \in 0..x /\ (k = Digits(x) => W(k) = x)
  <2>1. \A i \in 1..4 : i <= k => At(i) % 128 = Digit(x, i)
    BY <1>1, <1>2, <1>0 DEF LengthAt
  <2>2. W(k) = Part(x, 1, k) + Part(x, 2, k) + Part(x, 3, k) + Part(x, 4, k)
    BY <1>1, <2>1, SMT DEF Worth, Part
  <2>3. QED
    BY <1>1, <2>2, PartsWorth
<1>3. CASE n < 1 + Digits(x) + x
  <2>1. CASE n > Digits(x)
    <3>1. \A j \in 1..(Digits(x) - 1) : At(j) >= 128
      <4> SUFFICES ASSUME NEW j \in 1..(Digits(x) - 1) PROVE At(j) >= 128
        OBVIOUS
      <4>1. j \in 1..Digits(x) /\ j < Digits(x) /\ j < n
        BY <1>1, <2>1
      <4>2. Good(j)
        BY <1>0, <4>1
      <4>3. QED
        BY <4>1, <4>2 DEF LengthAt
    <3>2. W(Digits(x)) = x
      BY <1>1, <1>2, <2>1
    <3>3. QED
      BY <1>1, <1>3, <3>1, <3>2 DEF TooShort
  <2>2. CASE n <= Digits(x)
    <3>1. \A j \in 1..(n - 1) : At(j) >= 128 /\ At(j) \in 0..255
      <4> SUFFICES ASSUME NEW j \in 1..(n - 1)
                   PROVE  At(j) >= 128 /\ At(j) \in 0..255
        OBVIOUS
      <4>1. j \in 1..Digits(x) /\ j < Digits(x) /\ j < n
        BY <1>1, <2>2
      <4>2. Good(j)
        BY <1>0, <4>1
      <4>3. QED
        BY <4>1, <4>2 DEF LengthAt
    <3>2. At(n) \in 0..255
      BY DEF LengthAt
    <3>3. W(n) \in Nat
      <4>1. \A i \in 1..4 : i <= n => At(i) \in 0..255
        BY <3>1, <3>2
      <4>2. \A i \in 1..4 : Weight[i] \in Nat
        BY Weights, SMT
      <4>3. \A i \in 1..4 :
               (IF i <= n THEN (At(i) % 128) * Weight[i] ELSE 0) \in Nat
        <5> SUFFICES ASSUME NEW i \in 1..4, i <= n
                     PROVE  (At(i) % 128) * Weight[i] \in Nat
          OBVIOUS
        <5>1. At(i) % 128 \in Nat
          BY <4>1
        <5>2. QED
          BY <4>2, <5>1
      <4>4. QED
        BY <4>3 DEF Worth
    <3>4. QED
      BY <1>1, <2>2, <3>1, <3>3 DEF TooShort
  <2>3. QED
    BY <1>1, <2>1, <2>2
<1>4. CASE ~(n < 1 + Digits(x) + x)
  <2>1. Digits(x) < n
    BY <1>1, <1>4
  <2>2. ASSUME NEW i \in 1..4, \A j \in 1..(i - 1) : At(j) >= 128
        PROVE  ~(n < W(i) + i + 1)
    <3>1. CASE i <= Digits(x)
      <4>1. W(i) \in 0..x
        <5>1. i \in 1..Digits(x) /\ i < n
          BY <1>1, <2>1, <3>1
        <5>2. QED
          BY <1>2, <5>1
      <4>2. QED
        BY <1>1, <1>4, <3>1, <4>1
    <3>2. CASE i > Digits(x)
      <4>1. At(Digits(x)) = f[Digits(x) + 1].val
        BY <1>1, <2>1 DEF LengthAt
      <4>2. f[Digits(x) + 1].val \in 0..255 /\ ~(f[Digits(x) + 1].val >= 128)
        BY <1>1, <1>a
      <4>3. At(Digits(x)) >= 128
        BY <1>1, <2>2, <3>2
      <4>4. QED
        BY <4>1, <4>2, <4>3
    <3>3. QED
      BY <1>1, <3>1, <3>2
  <2>3. QED
    BY <1>4, <2>2 DEF TooShort
<1>5. QED
  BY <1>3, <1>4

-----------------------------------------------------------------------------
(* Induction over Nat: a set that is closed under successor and lacks m    *)
(* would map its part below m into a smaller part of itself.               *)
LEMMA Induct ==
    ASSUME NEW S, 0 \in S, \A n \in Nat : n \in S => n + 1 \in S
    PROVE  \A n \in Nat : n \in S
<1> SUFFICES ASSUME NEW m \in Nat, m \notin S PROVE FALSE
  OBVIOUS
<1> DEFINE U == {n \in 0..m : n \in S}
           next == [n \in U |-> n + 1]
<1>1. IsFiniteSet(U) /\ 0 \in U
  <2>1. IsFiniteSet(0..m) /\ U \in SUBSET (0..m)
    BY FS_Interval
  <2>2. QED
    BY <2>1, FS_Subset
<1>2. next \in Injection(U, U \ {0})
  <2>1. \A n \in U : n + 1 \in U \ {0}
    OBVIOUS
  <2>2. QED
    BY <2>1 DEF Injection, IsInjective
<1>3. IsFiniteSet(U \ {0}) /\ Cardinality(U \ {0}) = Cardinality(U) - 1
  BY <1>1, FS_RemoveElement
<1> HIDE DEF U, next
<1>4. Cardinality(U) <= Cardinality(U \ {0})
  BY <1>2, <1>3, FS_Injection
<1>5. QED
  BY <1>1, <1>3, <1>4, FS_CardinalityType

-----------------------------------------------------------------------------
(* The sum of a function over a finite set: SumFunction of Functions.tla,  *)
(* which takes the elements away in an order that is not said.             *)
Pick(s) == CHOOSE x \in s : TRUE
Adds(F, g, d) == IF d = {} THEN 0 ELSE g[Pick(d)] + F[d \ {Pick(d)}]

Adder(F, g, D) == F = [d \in SUBSET D |-> Adds(F, g, d)]

(* The subsets of D of at most n elements. *)
Small(D, n) == {d \in SUBSET D : Cardinality(d) <= n}

LEMMA Picked ==
    ASSUME NEW D, IsFiniteSet(D), NEW n \in Nat, NEW d \in Small(D, n),
           NEW x \in d
    PROVE  /\ IsFiniteSet(d) /\ Cardinality(d) \in Nat
           /\ n > 0 /\ d \ {x} \in Small(D, n - 1)
           /\ x \in D
<1>1. IsFiniteSet(d) /\ Cardinality(d) \in Nat
  BY FS_Subset, FS_CardinalityType DEF Small
<1>2. /\ Cardinality(d \ {x}) = Cardinality(d) - 1
      /\ Cardinality(d \ {x}) \in Nat
  BY <1>1, FS_RemoveElement, FS_CardinalityType
<1>3. QED
  BY <1>1, <1>2 DEF Small

(* The recursion that SumFunction is defined by has a solution. *)
LEMMA AdderExists ==
    ASSUME NEW D, IsFiniteSet(D), NEW g
    PROVE  \E F : Adder(F, g, D)
<1> DEFINE Has(n) == \E F : F = [d \in Small(D, n) |-> Adds(F, g, d)]
           S == {n \in Nat : Has(n)}
<1>1. \A d \in SUBSET D : d # {} => Pick(d) \in d
  BY DEF Pick
<1>2. Has(0)
  <2> DEFINE F == [d \in Small(D, 0) |-> 0]
  <2>1. \A d \in Small(D, 0) : d = {}
    <3> SUFFICES ASSUME NEW d \in Small(D, 0), NEW x \in d PROVE FALSE
      OBVIOUS
    <3>1. PICK n \in Nat : n = 0
      OBVIOUS
    <3>2. d \in Small(D, n)
      BY <3>1
    <3>3. n > 0
      BY <3>2, Picked
    <3>4. QED
      BY <3>1, <3>3
  <2>2. F = [d \in Small(D, 0) |-> Adds(F, g, d)]
    BY <2>1 DEF Adds
  <2>3. QED
    BY <2>2
<1>3. ASSUME NEW n \in Nat, Has(n) PROVE Has(n + 1)
  <2>1. PICK F : F = [d \in Small(D, n) |-> Adds(F, g, d)]
    BY <1>3
  <2> DEFINE G == [d \in Small(D, n + 1) |-> Adds(F, g, d)]
  <2>2. \A d \in Small(D, n) : G[d] = F[d] /\ d \in Small(D, n + 1)
    <3> SUFFICES ASSUME NEW d \in Small(D, n)
                 PROVE  G[d] = F[d] /\ d \in Small(D, n + 1)
      OBVIOUS
    <3>1. d \in Small(D, n + 1)
      BY FS_Subset, FS_CardinalityType DEF Small
    <3>2. F[d] = Adds(F, g, d)
      BY <2>1
    <3>3. QED
      BY <3>1, <3>2
  <2>3. \A d \in Small(D, n + 1) : Adds(F, g, d) = Adds(G, g, d)
    <3> SUFFICES ASSUME NEW d \in Small(D, n + 1), d # {}
                 PROVE  F[d \ {Pick(d)}] = G[d \ {Pick(d)}]
      BY DEF Adds
    <3>1. Pick(d) \in d
      BY <1>1 DEF Small
    <3>2. d \ {Pick(d)} \in Small(D, (n + 1) - 1) /\ (n + 1) - 1 = n
      BY <3>1, Picked
    <3>3. QED
      BY <2>2, <3>2
  <2>4. G = [d \in Small(D, n + 1) |-> Adds(G, g, d)]
    BY <2>3
  <2>5. QED
    BY <2>4
<1>4. \A n \in Nat : Has(n)
  <2>1. 0 \in S /\ \A n \in Nat : n \in S => n + 1 \in S
    BY <1>2, <1>3
  <2> HIDE DEF Has
  <2>2. QED
    <3> HIDE DEF S
    <3>1. \A n \in Nat : n \in S
      BY <2>1, Induct
    <3>2. QED
      BY <3>1 DEF S
<1>5. Cardinality(D) \in Nat /\ Small(D, Cardinality(D)) = SUBSET D
  BY FS_CardinalityType, FS_Subset DEF Small
<1>6. QED
  BY <1>4, <1>5 DEF Adder

(* Whatever it takes away first, what is left is less by that. *)
LEMMA AdderTakes ==
    ASSUME NEW D, IsFiniteSet(D), NEW g, \A x \in D : g[x] \in Nat,
           NEW F, Adder(F, g, D)
    PROVE  /\ F[{}] = 0
           /\ \A d \in SUBSET D :
                 F[d] \in Nat /\ \A x \in d : F[d] = g[x] + F[d \ {x}]
<1> DEFINE Takes(d) == F[d] \in Nat
                       /\ \A x \in d : F[d] = g[x] + F[d \ {x}]
           Good(n) == \A d \in Small(D, n) : Takes(d)
           S == {n \in Nat : Good(n)}
<1>1. \A d \in SUBSET D : d # {} => Pick(d) \in d
  BY DEF Pick
<1>2. /\ F[{}] = 0
      /\ \A d \in SUBSET D : d # {} =>
            F[d] = g[Pick(d)] + F[d \ {Pick(d)}]
  BY DEF Adder, Adds
<1>3. Good(0)
  <2>1. ASSUME NEW d \in Small(D, 0) PROVE d = {}
    <3> SUFFICES ASSUME NEW x \in d PROVE FALSE
      OBVIOUS
    <3>1. PICK n \in Nat : n = 0
      OBVIOUS
    <3>2. d \in Small(D, n)
      BY <3>1
    <3>3. n > 0
      BY <3>2, Picked
    <3>4. QED
      BY <3>1, <3>3
  <2>2. ASSUME NEW d \in Small(D, 0) PROVE Takes(d)
    <3>1. d = {} /\ F[{}] = 0
      BY <1>2, <2>1
    <3>2. QED
      BY <3>1
  <2>3. QED
    BY <2>2
<1>4. ASSUME NEW n \in Nat, Good(n) PROVE Good(n + 1)
  <2> SUFFICES ASSUME NEW d \in Small(D, n + 1), d # {} PROVE Takes(d)
    BY <1>2
  <2> DEFINE p == Pick(d)
  <2>1. d \in SUBSET D /\ p \in d /\ p \in D
    BY <1>1 DEF Small
  <2>2. \A x \in d : d \ {x} \in Small(D, n) /\ Takes(d \ {x})
    <3> SUFFICES ASSUME NEW x \in d PROVE d \ {x} \in Small(D, n)
      BY <1>4
    <3>1. d \ {x} \in Small(D, (n + 1) - 1) /\ (n + 1) - 1 = n
      BY Picked
    <3>2. QED
      BY <3>1
  <2> HIDE DEF p
  <2>3. F[d] = g[p] + F[d \ {p}]
    BY <1>2, <2>1 DEF p
  <2>4. F[d] \in Nat
    BY <2>1, <2>2, <2>3
  <2>5. ASSUME NEW x \in d, x # p PROVE F[d] = g[x] + F[d \ {x}]
    <3>1. F[d \ {p}] = g[x] + F[(d \ {p}) \ {x}]
      BY <2>1, <2>2, <2>5
    <3>2. F[d \ {x}] = g[p] + F[(d \ {x}) \ {p}]
      BY <2>1, <2>2, <2>5
    <3>3. (d \ {p}) \ {x} = (d \ {x}) \ {p}
      OBVIOUS
    <3>4. (d \ {p}) \ {x} \in Small(D, n)
      <4>1. d \ {p} \in Small(D, n) /\ x \in d \ {p}
        BY <2>1, <2>2, <2>5
      <4>2. n > 0 /\ (d \ {p}) \ {x} \in Small(D, n - 1)
        BY <4>1, Picked
      <4>3. QED
        BY <4>2, FS_Subset, FS_CardinalityType DEF Small
    <3>5. F[(d \ {p}) \ {x}] \in Nat /\ g[x] \in Nat /\ g[p] \in Nat
      BY <1>4, <2>1, <3>4
    <3>6. F[(d \ {x}) \ {p}] = F[(d \ {p}) \ {x}]
      BY <3>3
    <3>7. QED
      BY <2>3, <3>1, <3>2, <3>5, <3>6
  <2>6. QED
    BY <2>3, <2>4, <2>5
<1>5. \A n \in Nat : Good(n)
  <2> HIDE DEF Good
  <2>1. 0 \in S /\ \A n \in Nat : n \in S => n + 1 \in S
    BY <1>3, <1>4
  <2>2. QED
    <3> HIDE DEF S
    <3>1. \A n \in Nat : n \in S
      BY <2>1, Induct
    <3>2. QED
      BY <3>1 DEF S
<1>6. \A d \in SUBSET D : d \in Small(D, Cardinality(D))
                          /\ Cardinality(D) \in Nat
  BY FS_CardinalityType, FS_Subset DEF Small
<1>7. QED
  BY <1>2, <1>5, <1>6

-----------------------------------------------------------------------------
(* Sizes of frames *)

Piece == [len : Nat, val : Bytes]

(* T adds up the sizes of f's pieces, one after the other. *)
Steps(T, f) == T[0] = 0 /\ \A i \in 1..Len(f) : T[i] = T[i - 1] + f[i].len

LEMMA SizeSums ==
    ASSUME NEW f \in Seq(Piece)
    PROVE  \E T \in [0..Len(f) -> Nat] : Steps(T, f) /\ Size(f) = T[Len(f)]
<1> DEFINE D == 1..Len(f)
           g == [i \in DOMAIN f |-> f[i].len]
           F == CHOOSE F : Adder(F, g, D)
           T == [i \in 0..Len(f) |-> F[1..i]]
<1>1. /\ IsFiniteSet(D) /\ DOMAIN f = D /\ Len(f) \in Nat
      /\ \A x \in D : g[x] = f[x].len /\ g[x] \in Nat
  <2>1. DOMAIN f = D /\ Len(f) \in Nat
    OBVIOUS
  <2>2. IsFiniteSet(D)
    BY <2>1, FS_Interval
  <2>3. \A x \in D : f[x] \in Piece
    OBVIOUS
  <2>4. QED
    BY <2>1, <2>2, <2>3 DEF Piece
<1>2. Size(f) = F[D]
  <2>1. Size(f) = SumFunctionOnSet(g, D)
    BY <1>1 DEF Size, SumFunction
  <2> HIDE DEF D, g
  <2>2. SumFunctionOnSet(g, D) = F[D]
    BY DEF SumFunctionOnSet, FoldFunctionOnSet, MapThenFoldSet, Adder, Adds,
           Pick
  <2>3. QED
    BY <2>1, <2>2
<1>3. Adder(F, g, D)
  <2> HIDE DEF D, g
  <2>1. \E G : Adder(G, g, D)
    BY <1>1, AdderExists
  <2>2. QED
    BY <2>1
<1>4. /\ F[{}] = 0
      /\ \A d \in SUBSET D :
            F[d] \in Nat /\ \A x \in d : F[d] = g[x] + F[d \ {x}]
  <2> HIDE DEF D, g, F
  <2>1. \A x \in D : g[x] \in Nat
    BY <1>1
  <2>2. QED
    BY <1>1, <1>3, <2>1, AdderTakes
<1> HIDE DEF F
<1>5. T \in [0..Len(f) -> Nat]
  BY <1>1, <1>4
<1>6. T[0] = 0
  <2>1. 1..0 = {}
    OBVIOUS
  <2>2. QED
    BY <1>1, <1>4, <2>1
<1>7. ASSUME NEW i \in 1..Len(f) PROVE T[i] = T[i - 1] + f[i].len
  <2>1. /\ (1..i) \ {i} = 1..(i - 1) /\ i \in 1..i
        /\ 1..i \in SUBSET D /\ 1..(i - 1) \in SUBSET D
    OBVIOUS
  <2>2. F[1..i] = g[i] + F[1..(i - 1)] /\ F[1..(i - 1)] \in Nat
    <3> HIDE DEF D, g
    <3>1. F[1..i] = g[i] + F[(1..i) \ {i}]
      BY <1>4, <2>1
    <3>2. QED
      BY <1>4, <2>1, <3>1
  <2>3. QED
    BY <1>1, <2>2 DEF Piece
<1>8. QED
  <2>1. T[Len(f)] = F[D]
    BY <1>1
  <2> HIDE DEF T, D
  <2>2. QED
    BY <1>2, <1>5, <1>6, <1>7, <2>1 DEF Steps

(* Any such T ends in the size. *)
LEMMA SizeIs ==
    ASSUME NEW f \in Seq(Piece), NEW T, Steps(T, f)
    PROVE  Size(f) = T[Len(f)]
<1>1. PICK U \in [0..Len(f) -> Nat] : Steps(U, f) /\ Size(f) = U[Len(f)]
  BY SizeSums
<1> DEFINE S == {n \in Nat : n <= Len(f) => T[n] = U[n]}
<1>2. 0 \in S
  BY <1>1 DEF Steps
<1>3. ASSUME NEW n \in Nat, n \in S PROVE n + 1 \in S
  <2> SUFFICES ASSUME n + 1 <= Len(f) PROVE T[n + 1] = U[n + 1]
    OBVIOUS
  <2>1. n + 1 \in 1..Len(f) /\ (n + 1) - 1 = n /\ T[n] = U[n]
    BY <1>3
  <2>2. T[n + 1] = T[n] + f[n + 1].len /\ U[n + 1] = U[n] + f[n + 1].len
    BY <1>1, <2>1 DEF Steps
  <2>3. QED
    BY <2>1, <2>2
<1>4. Len(f) \in S
  <2> HIDE DEF S
  <2>1. Len(f) \in Nat
    OBVIOUS
  <2>2. QED
    BY <1>2, <1>3, <2>1, Induct
<1>5. QED
  BY <1>1, <1>4

LEMMA SizeConcat ==
    ASSUME NEW f \in Seq(Piece), NEW h \in Seq(Piece)
    PROVE  Size(f \o h) = Size(f) + Size(h) /\ f \o h \in Seq(Piece)
<1>1. PICK T \in [0..Len(f) -> Nat] : Steps(T, f) /\ Size(f) = T[Len(f)]
  BY SizeSums
<1>2. PICK U \in [0..Len(h) -> Nat] : Steps(U, h) /\ Size(h) = U[Len(h)]
  BY SizeSums
<1> DEFINE m == Len(f)
           n == Len(h)
           W == [i \in 0..(m + n) |->
                   IF i <= m THEN T[i] ELSE T[m] + U[i - m]]
<1>3. /\ f \o h \in Seq(Piece) /\ Len(f \o h) = m + n
      /\ m \in Nat /\ n \in Nat
      /\ \A i \in 1..m : (f \o h)[i] = f[i]
      /\ \A i \in (m + 1)..(m + n) : (f \o h)[i] = h[i - m]
  OBVIOUS
<1>4. W[0] = 0 /\ W[m + n] = T[m] + U[n]
  <2>1. T[0] = 0 /\ U[0] = 0
    BY <1>1, <1>2 DEF Steps
  <2>2. T[m] \in Nat
    BY <1>1, <1>3
  <2>3. CASE n = 0
    BY <1>3, <2>1, <2>2, <2>3
  <2>4. CASE n > 0
    BY <1>3, <2>1, <2>2, <2>4
  <2>5. QED
    BY <1>3, <2>3, <2>4
<1>5. ASSUME NEW i \in 1..(m + n)
      PROVE  W[i] = W[i - 1] + (f \o h)[i].len
  <2>1. CASE i <= m
    <3>1. T[i] = T[i - 1] + f[i].len
      BY <1>1, <1>3, <2>1 DEF Steps
    <3>2. QED
      BY <1>3, <2>1, <3>1
  <2>2. CASE i > m
    <3>1. /\ i - m \in 1..n /\ (i - m) - 1 = (i - 1) - m
          /\ (i - m) - 1 \in 0..n
      BY <1>3, <2>2
    <3>2. U[i - m] = U[(i - m) - 1] + h[i - m].len
      BY <1>2, <3>1 DEF Steps
    <3>3. /\ T[m] \in Nat /\ U[(i - m) - 1] \in Nat
          /\ h[i - m].len \in Nat
      <4>1. h[i - m] \in Piece
        BY <3>1
      <4>2. m \in 0..m /\ m \in Nat
        BY <1>3
      <4>3. QED
        BY <3>1, <4>1, <4>2 DEF Piece
    <3>4. W[i] = T[m] + (U[(i - m) - 1] + h[i - m].len)
      BY <1>3, <2>2, <3>1, <3>2
    <3>5. W[i - 1] = T[m] + U[(i - m) - 1]
      <4>1. CASE i - 1 > m
        BY <1>3, <3>1, <4>1
      <4>2. CASE i - 1 = m
        <5>1. U[0] = 0
          BY <1>2 DEF Steps
        <5>2. QED
          BY <1>3, <3>1, <3>3, <4>2, <5>1
      <4>3. i - 1 > m \/ i - 1 = m
        <5> HIDE DEF m, n, W
        <5>1. i \in Int /\ m \in Int
          BY <1>3
        <5>2. QED
          BY <2>2, <5>1
      <4>4. QED
        BY <4>1, <4>2, <4>3
    <3>6. QED
      BY <1>3, <2>2, <3>3, <3>4, <3>5
  <2>3. QED
    BY <1>3, <2>1, <2>2
<1> HIDE DEF W
<1>6. Steps(W, f \o h)
  BY <1>3, <1>4, <1>5 DEF Steps
<1>7. Size(f \o h) = W[m + n]
  BY <1>3, <1>6, SizeIs
<1>8. QED
  BY <1>1, <1>2, <1>3, <1>4, <1>7

-----------------------------------------------------------------------------
(* Octets put together a bit at a time *)

(* The powers that the macros shift by. *)
LEMMA Powers ==
    /\ 2^0 = 1 /\ 2^1 = 2 /\ 2^2 = 4 /\ 2^3 = 8 /\ 2^4 = 16
    /\ 2^5 = 32 /\ 2^6 = 64 /\ 2^7 = 128
BY SMT

(* The low and the high half of the first octet: nothing is left of what  *)
(* it held.                                                                *)
LEMMA Halves ==
    ASSUME NEW raw \in Bytes, NEW low \in 0..15, NEW high \in 0..15
    PROVE  PutBits(PutBits(raw, low, 0, 4), high, 4, 4) = low + 16 * high
<1>1. PICK m \in 0..15, h \in 0..15 : raw = m + 16 * h
  <2>1. raw % 16 \in 0..15 /\ raw \div 16 \in 0..15
        /\ raw = (raw % 16) + 16 * (raw \div 16)
    BY SMT DEF Bytes
  <2>2. QED
    BY <2>1
<1>2. PutBits(m + 16 * h, low, 0, 4) = low + 16 * h
  BY Powers, SMT DEF PutBits, Bits
<1>3. PutBits(low + 16 * h + 256 * 0, high, 4, 4)
        = low + 16 * high + 256 * 0
  BY Powers, SMT DEF PutBits, Bits
<1>4. QED
  BY <1>1, <1>2, <1>3

(* An octet is the fields that flags have. *)
LEMMA Fields ==
    ASSUME NEW o \in Bytes
    PROVE  \E b0, b1, b2, b5, b6, b7 \in 0..1, m \in 0..3 :
              o = b0 + 2 * b1 + 4 * b2 + 8 * m + 32 * b5 + 64 * b6 + 128 * b7
<1> DEFINE b(k) == (o \div k) % 2
<1>1. /\ b(1) \in 0..1 /\ b(2) \in 0..1 /\ b(4) \in 0..1 /\ b(32) \in 0..1
      /\ b(64) \in 0..1 /\ b(128) \in 0..1 /\ (o \div 8) % 4 \in 0..3
  BY SMT DEF Bytes
<1>2. o = b(1) + 2 * b(2) + 4 * b(4) + 8 * ((o \div 8) % 4) + 32 * b(32)
          + 64 * b(64) + 128 * b(128)
  BY SMT DEF Bytes
<1> HIDE DEF b
<1>3. QED
  BY <1>1, <1>2

(* PUBLISH: type and flags. *)
LEMMA PublishOctet ==
    ASSUME NEW raw \in Bytes, NEW retain \in 0..1, NEW qos \in 0..2,
           NEW dup \in 0..1
    PROVE  PutBits(PutBits(PutBits(PutBits(raw, retain, 0, 1), qos, 1, 2),
                           dup, 3, 1), 3, 4, 4)
             = retain + 2 * qos + 8 * dup + 16 * 3
<1>1. PICK r \in 0..1, q \in 0..3, d \in 0..1, h \in 0..15 :
         raw = r + 2 * q + 8 * d + 16 * h
  <2>1. /\ raw % 2 \in 0..1 /\ (raw \div 2) % 4 \in 0..3
        /\ (raw \div 8) % 2 \in 0..1 /\ raw \div 16 \in 0..15
        /\ raw = (raw % 2) + 2 * ((raw \div 2) % 4)
                 + 8 * ((raw \div 8) % 2) + 16 * (raw \div 16)
    BY SMT DEF Bytes
  <2>2. QED
    BY <2>1
<1>2. PutBits(r + 2 * (q + 4 * d + 8 * h), retain, 0, 1)
        = retain + 2 * (q + 4 * d + 8 * h)
  BY Powers, SMT DEF PutBits, Bits
<1>3. PutBits(retain + 2 * q + 8 * (d + 2 * h), qos, 1, 2)
        = retain + 2 * qos + 8 * (d + 2 * h)
  BY Powers, SMT DEF PutBits, Bits
<1>4. PutBits((retain + 2 * qos) + 8 * d + 16 * h, dup, 3, 1)
        = (retain + 2 * qos) + 8 * dup + 16 * h
  <2>1. retain + 2 * qos \in Nat /\ retain + 2 * qos < 8
    OBVIOUS
  <2>2. QED
    BY <2>1, Powers, SMT DEF PutBits, Bits
<1>5. PutBits((retain + 2 * qos + 8 * dup) + 16 * h + 256 * 0, 3, 4, 4)
        = (retain + 2 * qos + 8 * dup) + 16 * 3 + 256 * 0
  <2>1. retain + 2 * qos + 8 * dup \in Nat /\ retain + 2 * qos + 8 * dup < 16
    OBVIOUS
  <2>2. QED
    BY <2>1, Powers, SMT DEF PutBits, Bits
<1>6. /\ raw = r + 2 * (q + 4 * d + 8 * h)
      /\ retain + 2 * (q + 4 * d + 8 * h)
           = retain + 2 * q + 8 * (d + 2 * h)
      /\ retain + 2 * qos + 8 * (d + 2 * h)
           = (retain + 2 * qos) + 8 * d + 16 * h
      /\ (retain + 2 * qos) + 8 * dup + 16 * h
           = (retain + 2 * qos + 8 * dup) + 16 * h + 256 * 0
  BY <1>1
<1>7. QED
  BY <1>2, <1>3, <1>4, <1>5, <1>6

(* What is read of it. *)
LEMMA PublishBits ==
    ASSUME NEW retain \in 0..1, NEW qos \in 0..2, NEW dup \in 0..1,
           NEW o, o = retain + 2 * qos + 8 * dup + 16 * 3
    PROVE  /\ Bits(o, 0, 1) = retain
           /\ Bits(o, 1, 2) = qos
           /\ Bits(o, 3, 1) = dup
<1>1. Bits(retain + 2 * (qos + 4 * dup + 8 * 3), 0, 1) = retain
  BY Powers, SMT DEF PutBits, Bits
<1>2. Bits(retain + 2 * qos + 8 * (dup + 2 * 3), 1, 2) = qos
  BY Powers, SMT DEF PutBits, Bits
<1>3. Bits((retain + 2 * qos) + 8 * dup + 16 * 3, 3, 1) = dup
  <2>1. retain + 2 * qos \in Nat /\ retain + 2 * qos < 8
    OBVIOUS
  <2>2. QED
    BY <2>1, Powers, SMT DEF PutBits, Bits
<1>4. /\ o = retain + 2 * (qos + 4 * dup + 8 * 3)
      /\ o = retain + 2 * qos + 8 * (dup + 2 * 3)
      /\ o = (retain + 2 * qos) + 8 * dup + 16 * 3
  OBVIOUS
<1>5. QED
  BY <1>1, <1>2, <1>3, <1>4

(* CONNECT: its flags, whatever the octet held. *)
LEMMA ConnectOctet ==
    ASSUME NEW raw \in Bytes, NEW a, a.clean_session \in 0..1,
           a.username_flag \in 0..1, a.password_flag \in 0..1
    PROVE  ConnectFlags(raw, a) = 2 * a.clean_session
             + 64 * a.username_flag + 128 * a.password_flag
<1>1. PICK b0, b1, b2, b5, b6, b7 \in 0..1, m \in 0..3 :
         raw = b0 + 2 * b1 + 4 * b2 + 8 * m + 32 * b5 + 64 * b6 + 128 * b7
  BY Fields
<1>2. PICK c \in 0..1, u \in 0..1, p \in 0..1 :
         c = a.clean_session /\ u = a.username_flag /\ p = a.password_flag
  OBVIOUS
<1> DEFINE h0 == b1 + 2 * b2 + 4 * m + 16 * b5 + 32 * b6 + 64 * b7
           h1 == b2 + 2 * m + 8 * b5 + 16 * b6 + 32 * b7
           h2 == m + 4 * b5 + 8 * b6 + 16 * b7
           h3 == b5 + 2 * b6 + 4 * b7
           h5 == b6 + 2 * b7
<1>3. /\ h0 \in Nat /\ h1 \in Nat /\ h2 \in Nat /\ h3 \in Nat /\ h5 \in Nat
      /\ raw = b0 + 2 * h0
      /\ 0 + 2 * h0 = 0 + 2 * b1 + 4 * h1
      /\ 0 + 2 * c + 4 * h1 = 2 * c + 4 * b2 + 8 * h2
      /\ 2 * c + 4 * 0 + 8 * h2 = 2 * c + 8 * m + 32 * h3
      /\ 2 * c + 8 * 0 + 32 * h3 = 2 * c + 32 * b5 + 64 * h5
      /\ 2 * c + 32 * 0 + 64 * h5 = 2 * c + 64 * b6 + 128 * b7
      /\ 2 * c + 64 * u + 128 * b7 = (2 * c + 64 * u) + 128 * b7 + 256 * 0
      /\ (2 * c + 64 * u) + 128 * p + 256 * 0 = 2 * c + 64 * u + 128 * p
      /\ 2 * c \in Nat /\ 2 * c < 4
      /\ 2 * c + 64 * u \in Nat /\ 2 * c + 64 * u < 128
  BY <1>1
<1> HIDE DEF h0, h1, h2, h3, h5
<1>4. /\ PutBits(b0 + 2 * h0, 0, 0, 1) = 0 + 2 * h0
      /\ PutBits(0 + 2 * b1 + 4 * h1, c, 1, 1) = 0 + 2 * c + 4 * h1
      /\ PutBits(2 * c + 4 * b2 + 8 * h2, 0, 2, 1) = 2 * c + 4 * 0 + 8 * h2
      /\ PutBits(2 * c + 8 * m + 32 * h3, 0, 3, 2) = 2 * c + 8 * 0 + 32 * h3
      /\ PutBits(2 * c + 32 * b5 + 64 * h5, 0, 5, 1)
           = 2 * c + 32 * 0 + 64 * h5
      /\ PutBits(2 * c + 64 * b6 + 128 * b7, u, 6, 1)
           = 2 * c + 64 * u + 128 * b7
      /\ PutBits((2 * c + 64 * u) + 128 * b7 + 256 * 0, p, 7, 1)
           = (2 * c + 64 * u) + 128 * p + 256 * 0
  <2>1. PutBits(b0 + 2 * h0, 0, 0, 1) = 0 + 2 * h0
    BY <1>3, Powers, SMT DEF PutBits, Bits
  <2>2. PutBits(0 + 2 * b1 + 4 * h1, c, 1, 1) = 0 + 2 * c + 4 * h1
    BY <1>3, Powers, SMT DEF PutBits, Bits
  <2>3. PutBits(2 * c + 4 * b2 + 8 * h2, 0, 2, 1) = 2 * c + 4 * 0 + 8 * h2
    BY <1>3, Powers, SMT DEF PutBits, Bits
  <2>4. PutBits(2 * c + 8 * m + 32 * h3, 0, 3, 2) = 2 * c + 8 * 0 + 32 * h3
    BY <1>3, Powers, SMT DEF PutBits, Bits
  <2>5. PutBits(2 * c + 32 * b5 + 64 * h5, 0, 5, 1)
          = 2 * c + 32 * 0 + 64 * h5
    BY <1>3, Powers, SMT DEF PutBits, Bits
  <2>6. PutBits(2 * c + 64 * b6 + 128 * b7, u, 6, 1)
          = 2 * c + 64 * u + 128 * b7
    BY <1>3, Powers, SMT DEF PutBits, Bits
  <2>7. PutBits((2 * c + 64 * u) + 128 * b7 + 256 * 0, p, 7, 1)
          = (2 * c + 64 * u) + 128 * p + 256 * 0
    BY <1>3, Powers, SMT DEF PutBits, Bits
  <2>8. QED
    BY <2>1, <2>2, <2>3, <2>4, <2>5, <2>6, <2>7
<1>5. ConnectFlags(raw, a) = 2 * c + 64 * u + 128 * p
  <2> DEFINE o0 == PutBits(raw, 0, 0, 1)
             o1 == PutBits(o0, c, 1, 1)
             o2 == PutBits(o1, 0, 2, 1)
             o3 == PutBits(o2, 0, 3, 2)
             o5 == PutBits(o3, 0, 5, 1)
             o6 == PutBits(o5, u, 6, 1)
             o7 == PutBits(o6, p, 7, 1)
  <2>1. ConnectFlags(raw, a) = o7
    BY <1>2 DEF ConnectFlags
  <2>2. o0 = 0 + 2 * b1 + 4 * h1
    BY <1>3, <1>4
  <2> HIDE DEF o0
  <2>3. o1 = 2 * c + 4 * b2 + 8 * h2
    BY <1>3, <1>4, <2>2
  <2> HIDE DEF o1
  <2>4. o2 = 2 * c + 8 * m + 32 * h3
    BY <1>3, <1>4, <2>3
  <2> HIDE DEF o2
  <2>5. o3 = 2 * c + 32 * b5 + 64 * h5
    BY <1>3, <1>4, <2>4
  <2> HIDE DEF o3
  <2>6. o5 = 2 * c + 64 * b6 + 128 * b7
    BY <1>3, <1>4, <2>5
  <2> HIDE DEF o5
  <2>7. o6 = (2 * c + 64 * u) + 128 * b7 + 256 * 0
    BY <1>3, <1>4, <2>6
  <2> HIDE DEF o6
  <2>8. o7 = 2 * c + 64 * u + 128 * p
    BY <1>3, <1>4, <2>7
  <2> HIDE DEF o7
  <2>9. QED
    BY <2>1, <2>8
<1>6. QED
  BY <1>2, <1>5

-----------------------------------------------------------------------------
(* Sizes and pieces of what is put together                                *)

(* Octets and texts *)
LEMMA Pieces ==
    /\ \A v \in Bytes : Octet(v) \in Piece /\ Octet(v).len = 1
                         /\ Octet(v).val = v
    /\ \A n \in Nat, v \in Bytes : Text(n, v) \in Piece
                         /\ Text(n, v).len = n /\ Text(n, v).val = v
BY DEF Octet, Text, Piece

(* The sizes of the empty frame and of one piece *)
LEMMA SizeNone == Size(<<>>) = 0
<1>1. <<>> \in Seq(Piece) /\ Len(<<>>) = 0
  OBVIOUS
<1>2. Steps([i \in 0..0 |-> 0], <<>>)
  BY DEF Steps
<1>3. QED
  BY <1>1, <1>2, SizeIs

(* A frame of octets is as long as it has pieces. *)
LEMMA SizeOctets ==
    ASSUME NEW f \in Seq(Piece), \A i \in 1..Len(f) : f[i].len = 1
    PROVE  Size(f) = Len(f)
<1> DEFINE T == [i \in 0..Len(f) |-> i]
<1>1. Steps(T, f)
  BY DEF Steps
<1>2. T[Len(f)] = Len(f)
  OBVIOUS
<1> HIDE DEF T
<1>3. QED
  BY <1>1, <1>2, SizeIs

LEMMA SizeOne ==
    ASSUME NEW p \in Piece
    PROVE  <<p>> \in Seq(Piece) /\ Len(<<p>>) = 1 /\ Size(<<p>>) = p.len
<1> DEFINE T == [i \in 0..1 |-> IF i = 0 THEN 0 ELSE p.len]
<1>1. <<p>> \in Seq(Piece) /\ Len(<<p>>) = 1 /\ <<p>>[1] = p
  OBVIOUS
<1>2. Steps(T, <<p>>)
  BY <1>1 DEF Steps, Piece
<1>3. T[1] = p.len
  OBVIOUS
<1> HIDE DEF T
<1>4. QED
  BY <1>1, <1>2, <1>3, SizeIs

(* The elements of both parts. *)
LEMMA Concatenated ==
    ASSUME NEW S, NEW s \in Seq(S), NEW t \in Seq(S)
    PROVE  /\ s \o t \in Seq(S) /\ Len(s \o t) = Len(s) + Len(t)
           /\ \A i \in 1..Len(s) : (s \o t)[i] = s[i]
           /\ \A i \in 1..Len(t) : (s \o t)[Len(s) + i] = t[i]
BY ConcatProperties

(* The same of a frame with a name. *)
LEMMA ConcatIs ==
    ASSUME NEW h \in Seq(Piece), NEW rest \in Seq(Piece), NEW f,
           f = h \o rest
    PROVE  /\ f \in Seq(Piece) /\ Len(f) = Len(h) + Len(rest)
           /\ \A i \in 1..Len(h) : f[i] = h[i]
           /\ \A i \in 1..Len(rest) : f[Len(h) + i] = rest[i]
BY Concatenated

LEMMA Singles ==
    ASSUME NEW S, NEW p \in S, NEW q \in S
    PROVE  /\ <<p>> \in Seq(S) /\ Len(<<p>>) = 1 /\ <<p>>[1] = p
           /\ <<p, q>> \in Seq(S) /\ Len(<<p, q>>) = 2
           /\ <<p, q>>[1] = p /\ <<p, q>>[2] = q
OBVIOUS

Two(h, l) == <<Octet(h), Octet(l)>>

(* Two octets; and a number of two octets: its halves make it up. *)
LEMMA Pair ==
    ASSUME NEW h \in Bytes, NEW l \in Bytes
    PROVE  /\ Two(h, l) \in Seq(Piece) /\ Len(Two(h, l)) = 2
           /\ Size(Two(h, l)) = 2
           /\ Two(h, l)[1].val = h /\ Two(h, l)[2].val = l
<1>1. PICK p \in Piece : p = Octet(h) /\ p.len = 1 /\ p.val = h
  BY Pieces, Zenon
<1>2. PICK q \in Piece : q = Octet(l) /\ q.len = 1 /\ q.val = l
  BY Pieces, Zenon
<1>3. PICK g \in Seq(Piece) : /\ g = <<p, q>> /\ Len(g) = 2
                              /\ g[1] = p /\ g[2] = q
  <2>1. /\ <<p, q>> \in Seq(Piece) /\ Len(<<p, q>>) = 2
        /\ <<p, q>>[1] = p /\ <<p, q>>[2] = q
    BY Singles
  <2>2. QED
    BY <2>1, Zenon
<1>4. \A i \in 1..2 : g[i].len = 1
  <2>1. g[1].len = 1 /\ g[2].len = 1
    BY <1>1, <1>2, <1>3, Zenon
  <2>2. \A i \in 1..2 : i = 1 \/ i = 2
    OBVIOUS
  <2>3. QED
    BY <2>1, <2>2, Zenon
<1>5. Size(g) = 2
  BY <1>3, <1>4, SizeOctets, Zenon
<1>6. g = Two(h, l)
  BY <1>1, <1>2, <1>3, Zenon DEF Two
<1>7. QED
  BY <1>1, <1>2, <1>3, <1>5, <1>6, Zenon

LEMMA ShortPieces ==
    ASSUME NEW n \in Shorts
    PROVE  /\ PutShort(n) \in Seq(Piece) /\ Len(PutShort(n)) = 2
           /\ Size(PutShort(n)) = 2
           /\ PutShort(n)[1].val * 256 + PutShort(n)[2].val = n
<1>1. /\ n \div 256 \in Bytes /\ n % 256 \in Bytes
      /\ (n \div 256) * 256 + (n % 256) = n
  BY SMT DEF Shorts, Bytes
<1>2. /\ PutShort(n) \in Seq(Piece) /\ Len(PutShort(n)) = 2
      /\ Size(PutShort(n)) = 2
      /\ PutShort(n)[1].val = n \div 256 /\ PutShort(n)[2].val = n % 256
  <2>1. ASSUME NEW h \in Bytes, NEW l \in Bytes,
               h = n \div 256, l = n % 256
        PROVE  /\ PutShort(n) \in Seq(Piece) /\ Len(PutShort(n)) = 2
               /\ Size(PutShort(n)) = 2
               /\ PutShort(n)[1].val = h /\ PutShort(n)[2].val = l
    <3>1. PutShort(n) = Two(h, l)
      BY <2>1, Zenon DEF PutShort, Two
    <3>2. /\ Two(h, l) \in Seq(Piece) /\ Len(Two(h, l)) = 2
          /\ Size(Two(h, l)) = 2
          /\ Two(h, l)[1].val = h /\ Two(h, l)[2].val = l
      BY Pair
    <3>3. QED
      BY <3>1, <3>2, Zenon
  <2> DEFINE hi == n \div 256
             lo == n % 256
  <2>2. hi \in Bytes /\ lo \in Bytes
    BY <1>1
  <2>3. \A h, l \in Bytes : h = hi /\ l = lo =>
             /\ PutShort(n) \in Seq(Piece) /\ Len(PutShort(n)) = 2
             /\ Size(PutShort(n)) = 2
             /\ PutShort(n)[1].val = h /\ PutShort(n)[2].val = l
    BY <2>1
  <2> HIDE DEF hi, lo
  <2>4. /\ PutShort(n) \in Seq(Piece) /\ Len(PutShort(n)) = 2
        /\ Size(PutShort(n)) = 2
        /\ PutShort(n)[1].val = hi /\ PutShort(n)[2].val = lo
    BY <2>2, <2>3
  <2>5. QED
    BY <2>4 DEF hi, lo
<1>3. PutShort(n)[1].val * 256 + PutShort(n)[2].val = n
  BY <1>1, <1>2, Zenon
<1>4. QED
  BY <1>2, <1>3, Zenon

(* A text behind its length *)
LEMMA StringPieces ==
    ASSUME NEW s \in Piece, s.len \in Shorts
    PROVE  /\ PutString(s) \in Seq(Piece) /\ Len(PutString(s)) = 3
           /\ Size(PutString(s)) = s.len + 2
           /\ PutString(s)[1].val * 256 + PutString(s)[2].val = s.len
           /\ PutString(s)[3] = s
<1>1. PICK p \in Seq(Piece) :
         /\ p = PutShort(s.len) /\ Len(p) = 2 /\ Size(p) = 2
         /\ p[1].val * 256 + p[2].val = s.len
  BY ShortPieces, Zenon
<1>2. PICK r \in Seq(Piece) :
         r = <<s>> /\ Len(r) = 1 /\ Size(r) = s.len /\ r[1] = s
  BY SizeOne, Singles, Zenon
<1>3. PICK f \in Seq(Piece) :
         /\ f = p \o r /\ Len(f) = 3
         /\ f[1] = p[1] /\ f[2] = p[2] /\ f[3] = r[1]
  <2>1. ASSUME NEW f, f = p \o r
        PROVE  /\ f \in Seq(Piece) /\ Len(f) = Len(p) + Len(r)
               /\ \A i \in 1..Len(p) : f[i] = p[i]
               /\ \A i \in 1..Len(r) : f[Len(p) + i] = r[i]
    BY <2>1, Concatenated
  <2>2. ASSUME NEW f, f = p \o r
        PROVE  /\ f \in Seq(Piece) /\ Len(f) = 3
               /\ f[1] = p[1] /\ f[2] = p[2] /\ f[3] = r[1]
    BY <1>1, <1>2, <2>1, <2>2
  <2>3. QED
    BY <2>2
<1>4. Size(f) = 2 + s.len
  BY <1>1, <1>2, <1>3, SizeConcat
<1>5. PutString(s) = f
  BY <1>1, <1>2, <1>3, Zenon DEF PutString
<1>6. s.len + 2 = 2 + s.len
  BY DEF Piece
<1>7. QED
  BY <1>1, <1>2, <1>3, <1>4, <1>5, <1>6

(* The octets of the remaining length *)
LEMMA LengthPieces ==
    ASSUME NEW x \in Nat, x < Limit
    PROVE  /\ PutVariableLength(x) \in Seq(Piece)
           /\ Len(PutVariableLength(x)) = Digits(x)
           /\ Size(PutVariableLength(x)) = Digits(x)
<1> DEFINE v == PutVariableLength(x)
<1>1. Digits(x) \in 1..4
  BY DigitsOf
<1>2. \A i \in 1..Digits(x) : v[i] \in Piece /\ v[i].len = 1
  <2> SUFFICES ASSUME NEW i \in 1..Digits(x)
               PROVE  v[i] \in Piece /\ v[i].len = 1
    OBVIOUS
  <2> DEFINE o == Digit(x, i) + IF i < Digits(x) THEN 128 ELSE 0
  <2>1. v[i] = Octet(o)
    BY DEF PutVariableLength, Digit
  <2>2. Digit(x, i) \in 0..127
    BY <1>1, DigitsAddUp
  <2>3. o \in Bytes
    BY <2>2 DEF Bytes
  <2> HIDE DEF o
  <2>4. QED
    BY <2>1, <2>3, Pieces
<1>3. v \in [1..Digits(x) -> Piece]
  BY <1>2 DEF PutVariableLength
<1> HIDE DEF v
<1>4. v \in Seq(Piece) /\ Len(v) = Digits(x)
  BY <1>1, <1>3
<1>5. Size(v) = Len(v)
  BY <1>2, <1>4, SizeOctets
<1>6. QED
  BY <1>4, <1>5 DEF v

(* One octet says a length below 128. *)
LEMMA ShortLength ==
    ASSUME NEW x \in 0..127
    PROVE  Digits(x) = 1 /\ PutVariableLength(x) = <<Octet(x)>>
<1>1. x \in Nat /\ x < Limit
  BY DEF Limit
<1>2. Digits(x) = 1
  <2>1. Digits(x) \in 1..4 /\ (Digits(x) > 1 => x >= Weight[Digits(x)])
    BY <1>1, DigitsOf
  <2>2. \A k \in 2..4 : ~(x >= Weight[k])
    BY Weights
  <2>3. QED
    BY <2>1, <2>2
<1>3. (x \div Weight[1]) % 128 = x
  BY Weights, SMT
<1>4. PutVariableLength(x) = [i \in 1..1 |-> Octet(x)]
  BY <1>2, <1>3 DEF PutVariableLength
<1>5. QED
  BY <1>2, <1>4

-----------------------------------------------------------------------------
(* f is a frame whose first octet is o and whose body is rest.            *)
Framed(f, o, rest) ==
    /\ o \in Bytes /\ rest \in Seq(Piece)
    /\ Size(rest) \in Nat /\ Size(rest) < Limit
    /\ f = (<<Octet(o)>> \o PutVariableLength(Size(rest))) \o rest

(* The length is read as it was put and is that of the body; the body is   *)
(* found behind it.                                                        *)
LEMMA FramedSays ==
    ASSUME NEW f, NEW o, NEW rest, Framed(f, o, rest)
    PROVE  LET k == Digits(Size(rest))
           IN  /\ k \in 1..4 /\ f \in Seq(Piece)
               /\ HasLength(f, Size(rest))
               /\ LengthOctets(f) = k /\ GetVariableLength(f) = Size(rest)
               /\ Size(f) = 1 + k + Size(rest)
               /\ Len(f) = 1 + k + Len(rest)
               /\ f[1].val = o
               /\ \A i \in 1..Len(rest) : f[1 + k + i] = rest[i]
<1> DEFINE x == Size(rest)
           v == PutVariableLength(x)
           k == Digits(x)
           p == Octet(o)
<1>1. x \in Nat /\ x < Limit /\ rest \in Seq(Piece) /\ o \in Bytes
      /\ f = (<<p>> \o v) \o rest
  BY DEF Framed
<1> HIDE DEF x
<1>2. v \in Seq(Piece) /\ Len(v) = k /\ Size(v) = k
  BY <1>1, LengthPieces
<1>3. k \in 1..4
  BY <1>1, DigitsOf
<1>4. p \in Piece /\ p.len = 1 /\ p.val = o
  BY <1>1, Pieces
<1>5. HasLength(f, x)
  <2>1. \A i \in 1..Digits(x) : PutVariableLength(x)[i] \in Piece
    BY <1>2
  <2> HIDE DEF p
  <2>2. HasLength((<<p>> \o PutVariableLength(x)) \o rest, x)
    BY <1>1, <1>4, <2>1, PutHasLength
  <2>3. QED
    BY <1>1, <2>2
<1>6. LengthOctets(f) = k /\ GetVariableLength(f) = x
  BY <1>1, <1>5, LengthRoundTrip
<1> HIDE DEF v, k, p
<1>7. <<p>> \in Seq(Piece) /\ Len(<<p>>) = 1 /\ Size(<<p>>) = 1
      /\ <<p>>[1] = p
  BY <1>4, SizeOne
<1>8. /\ <<p>> \o v \in Seq(Piece) /\ Len(<<p>> \o v) = 1 + k
      /\ Size(<<p>> \o v) = 1 + k
      /\ (<<p>> \o v)[1] = p
  <2>1. Size(<<p>> \o v) = 1 + k
    BY <1>2, <1>7, SizeConcat
  <2>2. QED
    BY <1>2, <1>3, <1>7, <2>1
<1> DEFINE h == <<p>> \o v
<1> HIDE DEF h
<1>9. /\ h \in Seq(Piece) /\ Len(h) = 1 + k /\ Size(h) = 1 + k /\ h[1] = p
      /\ f = h \o rest
  BY <1>1, <1>8 DEF h
<1>10. /\ f \in Seq(Piece) /\ Len(f) = 1 + k + Len(rest) /\ f[1] = p
       /\ \A i \in 1..Len(rest) : f[1 + k + i] = rest[i]
  <2>1. /\ f \in Seq(Piece) /\ Len(f) = Len(h) + Len(rest)
        /\ \A i \in 1..Len(h) : f[i] = h[i]
        /\ \A i \in 1..Len(rest) : f[Len(h) + i] = rest[i]
    <3>1. rest \in Seq(Piece) /\ h \in Seq(Piece) /\ f = h \o rest
      BY <1>1, <1>9
    <3>2. QED
      BY <3>1, ConcatIs
  <2>2. QED
    BY <1>3, <1>9, <2>1
<1>11. Size(f) = 1 + k + x
  BY <1>1, <1>9, SizeConcat DEF x
<1>12. QED
  BY <1>3, <1>4, <1>5, <1>6, <1>10, <1>11 DEF x, k

(* A frame grows behind its header h: b follows it and is of size n.      *)
Behind(f, h, b, n) ==
    h \in Seq(Piece) /\ b \in Seq(Piece) /\ f = h \o b /\ Size(b) = n

(* One more piece, or several, and the body is longer by them. *)
LEMMA Longer ==
    ASSUME NEW f, NEW h, NEW b, NEW n, Behind(f, h, b, n),
           NEW x \in Seq(Piece)
    PROVE  Behind(f \o x, h, b \o x, n + Size(x))
<1>1. h \in Seq(Piece) /\ b \in Seq(Piece) /\ f = h \o b /\ Size(b) = n
  BY DEF Behind
<1>2. b \o x \in Seq(Piece) /\ Size(b \o x) = n + Size(x)
  BY <1>1, SizeConcat
<1>3. (h \o b) \o x = h \o (b \o x)
  BY <1>1, ConcatAssociative
<1>4. QED
  BY <1>1, <1>2, <1>3 DEF Behind

(* With the length in its header that follows, the frame is complete. *)
LEMMA BehindIs ==
    ASSUME NEW o \in Bytes, NEW n \in Nat, n < Limit, NEW f, NEW b,
           Behind(f, <<Octet(o)>> \o PutVariableLength(n), b, n)
    PROVE  Framed(f, o, b)
BY DEF Behind, Framed

LEMMA HeaderPieces ==
    ASSUME NEW o \in Bytes, NEW n \in Nat, n < Limit
    PROVE  <<Octet(o)>> \o PutVariableLength(n) \in Seq(Piece)
<1>1. <<Octet(o)>> \in Seq(Piece)
  BY Pieces, Singles
<1>2. QED
  BY <1>1, LengthPieces, SizeConcat

(* The type in the high half of the first octet, the low bits below it.    *)
LEMMA FirstIs ==
    ASSUME NEW raw \in Bytes, NEW low \in 0..15,
           NEW type \in DOMAIN PacketType
    PROVE  /\ FirstOctet(raw, low, type) = Octet(low + 16 * PacketType[type])
           /\ PacketType[type] \in 1..14
           /\ low + 16 * PacketType[type] \in Bytes
<1>1. PacketType[type] \in 1..14
  BY DEF PacketType
<1>2. PICK t \in 1..14 : t = PacketType[type]
  BY <1>1
<1>3. PutBits(PutBits(raw, low, 0, 4), t, 4, 4) = low + 16 * t
  <2>1. t \in 0..15
    OBVIOUS
  <2>2. QED
    BY <2>1, Halves
<1>4. low + 16 * t \in Bytes
  BY DEF Bytes
<1>5. QED
  BY <1>1, <1>2, <1>3, <1>4 DEF FirstOctet

LEMMA Types ==
    /\ PacketType.CONNECT = 1 /\ PacketType.CONNACK = 2
    /\ PacketType.PUBLISH = 3 /\ PacketType.PUBACK = 4
    /\ PacketType.PUBREC = 5 /\ PacketType.PUBREL = 6
    /\ PacketType.PUBCOMP = 7 /\ PacketType.SUBSCRIBE = 8
    /\ PacketType.SUBACK = 9 /\ PacketType.UNSUBSCRIBE = 10
    /\ PacketType.UNSUBACK = 11 /\ PacketType.PINGREQ = 12
    /\ PacketType.PINGRESP = 13 /\ PacketType.DISCONNECT = 14
    /\ DOMAIN PacketType =
         {"CONNECT", "CONNACK", "PUBLISH", "PUBACK", "PUBREC", "PUBREL",
          "PUBCOMP", "SUBSCRIBE", "SUBACK", "UNSUBSCRIBE", "UNSUBACK",
          "PINGREQ", "PINGRESP", "DISCONNECT"}
BY DEF PacketType

-----------------------------------------------------------------------------
(* What the properties say of one frame *)

GoodFrame(a, f) ==
    /\ a.type \in DOMAIN PacketType
    /\ \A i \in DOMAIN f : f[i].len \in Nat /\ f[i].val \in Bytes
    /\ Size(f) = 1 + LengthOctets(f) + GetVariableLength(f)

(* For a frame with a header and a body it is about the first octet and    *)
(* CONNECT's flags, the fifth piece of the body.                           *)
LEMMA FramedIsGood ==
    ASSUME NEW a, NEW f, NEW o, NEW b, Framed(f, o, b),
           a.type \in DOMAIN PacketType,
           a.type = "CONNECT" =>
             /\ Len(b) >= 5
             /\ b[5].val = 128 * a.password_flag + 64 * a.username_flag
                           + 2 * a.clean_session
    PROVE  /\ GoodFrame(a, f)
           /\ o = 16 * PacketType[a.type] + HeaderFlags(a)
                => HeaderSays(a, f)
<1> DEFINE k == Digits(Size(b))
<1>1. /\ k \in 1..4 /\ f \in Seq(Piece)
      /\ LengthOctets(f) = k /\ GetVariableLength(f) = Size(b)
      /\ Size(f) = 1 + k + Size(b) /\ f[1].val = o
      /\ \A i \in 1..Len(b) : f[1 + k + i] = b[i]
  BY FramedSays
<1> HIDE DEF k
<1>2. \A i \in DOMAIN f : f[i].len \in Nat /\ f[i].val \in Bytes
  <2>1. \A i \in DOMAIN f : f[i] \in Piece
    BY <1>1
  <2>2. QED
    BY <2>1 DEF Piece
<1>3. a.type = "CONNECT" => f[LengthOctets(f) + 6] = b[5]
  <2> SUFFICES ASSUME a.type = "CONNECT"
               PROVE  f[LengthOctets(f) + 6] = b[5]
    OBVIOUS
  <2>1. b \in Seq(Piece)
    BY DEF Framed
  <2>2. 5 \in 1..Len(b) /\ 1 + k + 5 = k + 6
    BY <1>1, <2>1
  <2>3. QED
    BY <1>1, <2>2
<1>4. QED
  BY <1>1, <1>2, <1>3 DEF GoodFrame, HeaderSays

-----------------------------------------------------------------------------
(* The frames that are built, one by one                                   *)

(* The pieces of a concatenation, by what comes before. *)
LEMMA LongerPieces ==
    ASSUME NEW b \in Seq(Piece), NEW x \in Seq(Piece)
    PROVE  /\ b \o x \in Seq(Piece) /\ Len(b \o x) = Len(b) + Len(x)
           /\ \A i \in 1..Len(b) : (b \o x)[i] = b[i]
           /\ \A i \in 1..Len(x) : (b \o x)[Len(b) + i] = x[i]
BY ConcatIs

(* What the assumption says of the single values *)
LEMMA Bounds ==
    /\ \A t \in TopicLens : t \in Shorts /\ t \in Nat
    /\ \A c \in ClientIdLens : c \in Shorts /\ c \in Nat
    /\ \A d \in DataLens : d \in Nat
    /\ \A i \in Ids \cup {0} : i \in Shorts
    /\ \A r \in Raw : r \in Bytes
    /\ \A t \in TopicLens, d \in DataLens : t + d + 4 < Limit
    /\ \A t \in TopicLens : t + 5 < Limit
    /\ \A c \in ClientIdLens : c + 39 < Limit
<1>1. /\ ClientIdLens \cup TopicLens \subseteq Shorts
      /\ DataLens \subseteq Nat /\ Ids \subseteq Shorts \ {0}
      /\ Raw \subseteq Bytes
      /\ \A t \in TopicLens, d \in DataLens :
           t + d + 4 < 128 * 128 * 128 * 128
  BY FrameAssumption
<1>2. 0 \in Shorts /\ (\A t \in Shorts : t \in Nat)
  BY SMT DEF Shorts
<1>3. /\ \A t \in TopicLens : t \in Shorts /\ t \in Nat
      /\ \A c \in ClientIdLens : c \in Shorts /\ c \in Nat
      /\ \A d \in DataLens : d \in Nat
      /\ \A i \in Ids \cup {0} : i \in Shorts
      /\ \A r \in Raw : r \in Bytes
  BY <1>1, <1>2
<1>4. \A t \in TopicLens, d \in DataLens : t + d + 4 < Limit
  BY <1>1 DEF Limit
<1>5. \A t \in Shorts : t + 39 < Limit /\ t + 5 < Limit
  BY SMT DEF Limit, Shorts
<1>6. /\ \A t \in TopicLens : t + 5 < Limit
      /\ \A c \in ClientIdLens : c + 39 < Limit
  BY <1>3, <1>5
<1>7. QED
  BY <1>3, <1>4, <1>6

(* PUBLISH: topic, packet id and payload are where they are looked for. *)
LEMMA PublishFramed ==
    ASSUME NEW raw \in Bytes, NEW a \in PublishArgs
    PROVE  \E b :
             /\ Framed(PublishFrame(raw, a), 48 + HeaderFlags(a), b)
             /\ Size(b) = PublishSize(a)
             /\ b[1].val * 256 + b[2].val = a.topic.len /\ b[3] = a.topic
             /\ a.qos = 0 => Len(b) = 4 /\ b[4] = a.data
             /\ a.qos # 0 => /\ b[4].val * 256 + b[5].val = a.packet_id
                             /\ Len(b) = 6 /\ b[6] = a.data
<1> DEFINE n == PublishSize(a)
           o == 48 + HeaderFlags(a)
           t == PutString(a.topic)
           i == IF a.qos = 0 THEN <<>> ELSE PutShort(a.packet_id)
           d == <<a.data>>
           h == <<Octet(o)>> \o PutVariableLength(n)
           b == (t \o i) \o d
<1>1. /\ a.type = "PUBLISH" /\ a.dup \in 0..1 /\ a.retain \in 0..1
      /\ a.qos \in 0..2
      /\ \E l \in TopicLens : a.topic = Text(l, 1)
      /\ \E l \in DataLens : a.data = Text(l, 2)
      /\ a.packet_id \in Ids \cup {0}
  BY DEF PublishArgs, Bit
<1>2. /\ a.topic \in Piece /\ a.topic.len \in TopicLens
      /\ a.data \in Piece /\ a.data.len \in DataLens
  <2>1. PICK l \in TopicLens : a.topic = Text(l, 1)
    BY <1>1
  <2>2. PICK m \in DataLens : a.data = Text(m, 2)
    BY <1>1
  <2>3. l \in Nat /\ m \in Nat
    BY Bounds
  <2>4. Text(l, 1) \in Piece /\ Text(l, 1).len = l
        /\ Text(m, 2) \in Piece /\ Text(m, 2).len = m
    <3>1. 1 \in Bytes /\ 2 \in Bytes
      BY DEF Bytes
    <3>2. QED
      BY <2>3, <3>1, Pieces
  <2>5. QED
    BY <2>1, <2>2, <2>4
<1>3. o = a.retain + 2 * a.qos + 8 * a.dup + 16 * 3 /\ o \in Bytes
  BY <1>1 DEF HeaderFlags, Acks, Bytes
<1>4. n \in Nat /\ n < Limit
      /\ n = a.topic.len + 2 + (IF a.qos = 0 THEN 0 ELSE 2) + a.data.len
  <2>1. a.topic.len \in Nat /\ a.data.len \in Nat
        /\ a.topic.len + a.data.len + 4 < Limit
    BY <1>2, Bounds
  <2>2. QED
    BY <2>1, SMT DEF PublishSize, Limit
<1>5. PublishFrame(raw, a) = ((h \o t) \o i) \o d
  <2>1. PutBits(PublishFlags(raw, a), PacketType.PUBLISH, 4, 4) = o
    <3>1. PacketType.PUBLISH = 3
      BY Types
    <3>2. QED
      BY <1>1, <1>3, <3>1, PublishOctet DEF PublishFlags
  <2> HIDE DEF o
  <2>2. QED
    BY <2>1 DEF PublishFrame
<1>6. /\ t \in Seq(Piece) /\ Len(t) = 3 /\ Size(t) = a.topic.len + 2
      /\ t[1].val * 256 + t[2].val = a.topic.len /\ t[3] = a.topic
  BY <1>2, Bounds, StringPieces
<1>7. /\ i \in Seq(Piece) /\ Size(i) = (IF a.qos = 0 THEN 0 ELSE 2)
      /\ a.qos = 0 => Len(i) = 0
      /\ a.qos # 0 =>
           Len(i) = 2 /\ i[1].val * 256 + i[2].val = a.packet_id
  <2>1. CASE a.qos = 0
    <3>1. i = <<>>
      BY <2>1
    <3>2. <<>> \in Seq(Piece) /\ Len(<<>>) = 0 /\ Size(<<>>) = 0
      BY SizeNone
    <3>3. QED
      BY <2>1, <3>1, <3>2
  <2>2. CASE a.qos # 0
    <3>1. i = PutShort(a.packet_id) /\ a.packet_id \in Shorts
      BY <1>1, <2>2, Bounds
    <3>2. /\ PutShort(a.packet_id) \in Seq(Piece)
          /\ Len(PutShort(a.packet_id)) = 2 /\ Size(PutShort(a.packet_id)) = 2
          /\ PutShort(a.packet_id)[1].val * 256
             + PutShort(a.packet_id)[2].val = a.packet_id
      BY <3>1, ShortPieces
    <3>3. QED
      BY <2>2, <3>1, <3>2
  <2>3. QED
    BY <2>1, <2>2
<1>8. d \in Seq(Piece) /\ Len(d) = 1 /\ d[1] = a.data /\ Size(d) = a.data.len
  BY <1>2, SizeOne, Singles
<1>9. h \in Seq(Piece)
  BY <1>3, <1>4, HeaderPieces
<1> HIDE DEF h, t, i, d
<1>10. Framed(PublishFrame(raw, a), o, b) /\ Size(b) = n
  <2>1. Behind(h \o t, h, t, a.topic.len + 2)
    BY <1>6, <1>9 DEF Behind
  <2>2. Behind((h \o t) \o i, h, t \o i,
               a.topic.len + 2 + (IF a.qos = 0 THEN 0 ELSE 2))
    BY <2>1, <1>7, Longer
  <2>3. Behind(((h \o t) \o i) \o d, h, b, n)
    <3>1. Behind(((h \o t) \o i) \o d, h, b,
                 a.topic.len + 2 + (IF a.qos = 0 THEN 0 ELSE 2) + Size(d))
      BY <2>2, <1>8, Longer
    <3>2. QED
      BY <1>4, <1>8, <3>1
  <2> HIDE DEF b, n, o
  <2>4. Framed(PublishFrame(raw, a), o, b)
    BY <1>3, <1>4, <1>5, <2>3, BehindIs DEF h
  <2>5. QED
    BY <2>3, <2>4 DEF Behind
<1>11. /\ b[1] = t[1] /\ b[2] = t[2] /\ b[3] = t[3]
       /\ Len(b) = 4 + Len(i) /\ b[4 + Len(i)] = d[1]
       /\ Len(i) = 2 => b[4] = i[1] /\ b[5] = i[2]
  <2> DEFINE c == t \o i
  <2>1. /\ c \in Seq(Piece) /\ Len(c) = 3 + Len(i)
        /\ c[1] = t[1] /\ c[2] = t[2] /\ c[3] = t[3]
        /\ Len(i) = 2 => c[4] = i[1] /\ c[5] = i[2]
    <3>1. /\ c \in Seq(Piece) /\ Len(c) = Len(t) + Len(i)
          /\ \A j \in 1..Len(t) : c[j] = t[j]
          /\ \A j \in 1..Len(i) : c[Len(t) + j] = i[j]
      BY <1>6, <1>7, LongerPieces
    <3> HIDE DEF c
    <3>2. Len(i) \in {0, 2}
      BY <1>7
    <3>3. QED
      BY <1>6, <3>1, <3>2
  <2> HIDE DEF c
  <2>2. Len(i) \in {0, 2}
    BY <1>7
  <2>3. /\ Len(c \o d) = Len(c) + 1
        /\ \A j \in 1..Len(c) : (c \o d)[j] = c[j]
        /\ (c \o d)[Len(c) + 1] = d[1]
    <3>1. /\ Len(c \o d) = Len(c) + Len(d)
          /\ \A j \in 1..Len(c) : (c \o d)[j] = c[j]
          /\ \A j \in 1..Len(d) : (c \o d)[Len(c) + j] = d[j]
      BY <1>8, <2>1, LongerPieces, Zenon
    <3>2. QED
      BY <1>8, <3>1
  <2>4. /\ (c \o d)[1] = t[1] /\ (c \o d)[2] = t[2] /\ (c \o d)[3] = t[3]
        /\ Len(c \o d) = 4 + Len(i) /\ (c \o d)[4 + Len(i)] = d[1]
        /\ Len(i) = 2 => (c \o d)[4] = i[1] /\ (c \o d)[5] = i[2]
    BY <2>1, <2>2, <2>3
  <2>5. QED
    BY <2>4 DEF c
<1> HIDE DEF b, n, o
<1>12. QED
  <2>1. /\ b[1].val * 256 + b[2].val = a.topic.len /\ b[3] = a.topic
        /\ a.qos = 0 => Len(b) = 4 /\ b[4] = a.data
        /\ a.qos # 0 => /\ b[4].val * 256 + b[5].val = a.packet_id
                        /\ Len(b) = 6 /\ b[6] = a.data
    <3>1. CASE a.qos = 0
      BY <1>6, <1>7, <1>8, <1>11, <3>1
    <3>2. CASE a.qos # 0
      <4>1. Len(i) = 2 /\ i[1].val * 256 + i[2].val = a.packet_id
        BY <1>7, <3>2
      <4>2. /\ b[1] = t[1] /\ b[2] = t[2] /\ b[3] = t[3]
            /\ b[4] = i[1] /\ b[5] = i[2] /\ Len(b) = 6 /\ b[6] = d[1]
        BY <1>11, <4>1
      <4>3. b[4].val * 256 + b[5].val = a.packet_id
        BY <4>1, <4>2
      <4>4. /\ b[1].val * 256 + b[2].val = a.topic.len /\ b[3] = a.topic
            /\ b[6] = a.data
        BY <1>6, <1>8, <4>2
      <4>5. QED
        BY <3>2, <4>2, <4>3, <4>4
    <3>3. QED
      BY <3>1, <3>2
  <2>2. QED
    BY <1>10, <2>1 DEF n, o

LEMMA TextIs ==
    ASSUME NEW n \in Nat, NEW v \in Bytes
    PROVE  Text(n, v) \in Piece /\ Text(n, v).len = n
BY Pieces

LEMMA OctetIs ==
    ASSUME NEW v \in Bytes
    PROVE  /\ <<Octet(v)>> \in Seq(Piece) /\ Len(<<Octet(v)>>) = 1
           /\ Size(<<Octet(v)>>) = 1 /\ <<Octet(v)>>[1].val = v
<1>1. Octet(v) \in Piece /\ Octet(v).len = 1 /\ Octet(v).val = v
  BY Pieces
<1>2. QED
  BY <1>1, SizeOne, Singles

(* CONNECT: the flags are the fifth piece of the body. *)
LEMMA ConnectFramed ==
    ASSUME NEW raw \in Bytes, NEW a \in ConnectArgs
    PROVE  \E b : /\ Framed(ConnectFrame(raw, a), 16, b)
                  /\ Len(b) >= 5
                  /\ b[5].val = 128 * a.password_flag
                       + 64 * a.username_flag + 2 * a.clean_session
<1> DEFINE n == ConnectSize(a)
           fl == ConnectFlags(raw, a)
           name == PutString(Text(NameLen(a), 0))
           ver == <<Octet(a.mqtt_version)>>
           flags == <<Octet(fl)>>
           alive == PutShort(0)
           client == PutString(a.client_id)
           user == IF a.username_flag = 1 THEN PutString(a.username) ELSE <<>>
           pass == IF a.password_flag = 1 THEN PutString(a.password) ELSE <<>>
           h == <<Octet(16)>> \o PutVariableLength(n)
           b == (((((name \o ver) \o flags) \o alive) \o client) \o user)
                \o pass
<1>1. /\ a.mqtt_version \in {3, 4} /\ a.clean_session \in 0..1
      /\ a.username_flag \in 0..1 /\ a.password_flag \in 0..1
      /\ \E l \in ClientIdLens : a.client_id = Text(l, 1)
      /\ a.username = Text(12, 2) /\ a.password = Text(9, 3)
  BY DEF ConnectArgs, Bit
<1>2. a.client_id \in Piece /\ a.client_id.len \in ClientIdLens
  <2>1. PICK l \in ClientIdLens : a.client_id = Text(l, 1)
    BY <1>1
  <2>2. l \in Nat /\ 1 \in Bytes
    BY Bounds DEF Bytes
  <2>3. QED
    BY <2>1, <2>2, TextIs
<1>3. a.client_id.len \in Nat /\ a.client_id.len \in Shorts
      /\ a.client_id.len + 39 < Limit
  BY <1>2, Bounds
<1>4. n \in Nat /\ n < Limit
      /\ n = NameLen(a) + 2 + 1 + 1 + 2 + (a.client_id.len + 2)
             + (IF a.username_flag = 1 THEN 14 ELSE 0)
             + (IF a.password_flag = 1 THEN 11 ELSE 0)
  <2>1. a.username.len = 12 /\ a.password.len = 9
    BY <1>1 DEF Text
  <2>2. Limit \in Nat
    BY SMT DEF Limit
  <2>3. QED
    BY <1>1, <1>3, <2>1, <2>2 DEF ConnectSize, NameLen
<1>5. ConnectFrame(raw, a) = ((((((h \o name) \o ver) \o flags) \o alive)
                               \o client) \o user) \o pass
  <2>1. FirstOctet(raw, 0, "CONNECT") = Octet(16)
    <3>1. "CONNECT" \in DOMAIN PacketType /\ PacketType["CONNECT"] = 1
          /\ 0 \in 0..15 /\ 0 + 16 * 1 = 16
      BY Types
    <3>2. QED
      BY <3>1, FirstIs
  <2>2. QED
    BY <2>1 DEF ConnectFrame
<1>6. name \in Seq(Piece) /\ Len(name) = 3 /\ Size(name) = NameLen(a) + 2
  <2>1. NameLen(a) \in {4, 6}
    BY DEF NameLen
  <2>2. NameLen(a) \in Nat /\ NameLen(a) \in Shorts /\ 0 \in Bytes
    <3>1. 4 \in Shorts /\ 6 \in Shorts
      BY SMT DEF Shorts
    <3>2. QED
      BY <2>1, <3>1 DEF Bytes
  <2>3. Text(NameLen(a), 0) \in Piece /\ Text(NameLen(a), 0).len = NameLen(a)
    BY <2>2, TextIs
  <2>4. QED
    BY <2>2, <2>3, StringPieces
<1>7. ver \in Seq(Piece) /\ Len(ver) = 1 /\ Size(ver) = 1
  <2>1. a.mqtt_version \in Bytes
    BY <1>1 DEF Bytes
  <2>2. QED
    BY <2>1, OctetIs
<1>8. /\ flags \in Seq(Piece) /\ Len(flags) = 1 /\ Size(flags) = 1
      /\ flags[1].val = 128 * a.password_flag + 64 * a.username_flag
                        + 2 * a.clean_session
  <2>1. fl = 2 * a.clean_session + 64 * a.username_flag
             + 128 * a.password_flag
    BY <1>1, ConnectOctet
  <2>2. /\ fl \in Bytes
        /\ fl = 128 * a.password_flag + 64 * a.username_flag
                + 2 * a.clean_session
    BY <1>1, <2>1 DEF Bytes
  <2> HIDE DEF fl
  <2>3. QED
    BY <2>2, OctetIs
<1>9. alive \in Seq(Piece) /\ Size(alive) = 2 /\ Len(alive) = 2
  <2>1. 0 \in Shorts
    BY SMT DEF Shorts
  <2>2. QED
    BY <2>1, ShortPieces
<1>10. /\ client \in Seq(Piece) /\ Size(client) = a.client_id.len + 2
       /\ Len(client) = 3
  BY <1>2, <1>3, StringPieces
<1>11. /\ user \in Seq(Piece)
       /\ Size(user) = IF a.username_flag = 1 THEN 14 ELSE 0
  <2>1. 12 \in Nat /\ 12 \in Shorts /\ 2 \in Bytes
    BY SMT DEF Shorts, Bytes
  <2>2. a.username \in Piece /\ a.username.len = 12
    BY <1>1, <2>1, TextIs
  <2>3. /\ PutString(a.username) \in Seq(Piece)
        /\ Size(PutString(a.username)) = 14
    BY <2>1, <2>2, StringPieces
  <2>4. <<>> \in Seq(Piece) /\ Size(<<>>) = 0
    BY SizeNone
  <2>5. QED
    BY <2>3, <2>4
<1>12. /\ pass \in Seq(Piece)
       /\ Size(pass) = IF a.password_flag = 1 THEN 11 ELSE 0
  <2>1. 9 \in Nat /\ 9 \in Shorts /\ 3 \in Bytes
    BY SMT DEF Shorts, Bytes
  <2>2. a.password \in Piece /\ a.password.len = 9
    BY <1>1, <2>1, TextIs
  <2>3. /\ PutString(a.password) \in Seq(Piece)
        /\ Size(PutString(a.password)) = 11
    BY <2>1, <2>2, StringPieces
  <2>4. <<>> \in Seq(Piece) /\ Size(<<>>) = 0
    BY SizeNone
  <2>5. QED
    BY <2>3, <2>4
<1>13. h \in Seq(Piece)
  <2>1. 16 \in Bytes
    BY DEF Bytes
  <2>2. QED
    BY <1>4, <2>1, HeaderPieces
<1> HIDE DEF h, name, ver, flags, alive, client, user, pass, fl
<1> DEFINE b1 == name \o ver
           b2 == b1 \o flags
           b3 == b2 \o alive
           b4 == b3 \o client
           b5 == b4 \o user
<1>14. Framed(ConnectFrame(raw, a), 16, b)
  <2>1. Behind(h \o name, h, name, NameLen(a) + 2)
    BY <1>6, <1>13 DEF Behind
  <2>2. Behind((h \o name) \o ver, h, b1, NameLen(a) + 2 + 1)
    BY <2>1, <1>7, Longer
  <2> HIDE DEF b1
  <2>3. Behind(((h \o name) \o ver) \o flags, h, b2, NameLen(a) + 2 + 1 + 1)
    BY <2>2, <1>8, Longer
  <2> HIDE DEF b2
  <2>4. Behind((((h \o name) \o ver) \o flags) \o alive, h, b3,
               NameLen(a) + 2 + 1 + 1 + 2)
    BY <2>3, <1>9, Longer
  <2> HIDE DEF b3
  <2>5. Behind(((((h \o name) \o ver) \o flags) \o alive) \o client, h, b4,
               NameLen(a) + 2 + 1 + 1 + 2 + (a.client_id.len + 2))
    BY <2>4, <1>10, Longer
  <2> HIDE DEF b4
  <2>6. Behind((((((h \o name) \o ver) \o flags) \o alive) \o client) \o user,
               h, b5,
               NameLen(a) + 2 + 1 + 1 + 2 + (a.client_id.len + 2)
               + (IF a.username_flag = 1 THEN 14 ELSE 0))
    BY <2>5, <1>11, Longer
  <2> HIDE DEF b5
  <2>7. Behind(((((((h \o name) \o ver) \o flags) \o alive) \o client)
                \o user) \o pass, h, b5 \o pass, n)
    BY <2>6, <1>4, <1>12, Longer
  <2>8. b = b5 \o pass
    BY DEF b1, b2, b3, b4, b5
  <2>9. 16 \in Bytes
    BY DEF Bytes
  <2> HIDE DEF b, n
  <2>10. Behind(ConnectFrame(raw, a), <<Octet(16)>> \o PutVariableLength(n),
                b, n)
    BY <1>5, <2>7, <2>8 DEF h
  <2>11. QED
    BY <1>4, <2>9, <2>10, BehindIs
<1>15. Len(b) >= 5 /\ b[5] = flags[1]
  <2>1. b1 \in Seq(Piece) /\ Len(b1) = 4
    <3>1. b1 \in Seq(Piece) /\ Len(b1) = Len(name) + Len(ver)
      BY <1>6, <1>7, LongerPieces
    <3> HIDE DEF b1
    <3>2. QED
      BY <1>6, <1>7, <3>1
  <2> HIDE DEF b1
  <2>2. b2 \in Seq(Piece) /\ Len(b2) >= 5 /\ b2[5] = flags[1]
    <3>1. /\ b2 \in Seq(Piece) /\ Len(b2) = Len(b1) + Len(flags)
          /\ \A i \in 1..Len(flags) : b2[Len(b1) + i] = flags[i]
      BY <2>1, <1>8, LongerPieces
    <3> HIDE DEF b2
    <3>2. QED
      BY <2>1, <1>8, <3>1
  <2> HIDE DEF b2
  <2>3. ASSUME NEW x \in Seq(Piece), NEW y \in Seq(Piece),
               Len(x) >= 5, x[5] = flags[1]
        PROVE  x \o y \in Seq(Piece) /\ Len(x \o y) >= 5
               /\ (x \o y)[5] = flags[1]
    <3>1. 5 \in 1..Len(x) /\ Len(y) \in Nat
      BY <2>3
    <3>2. QED
      BY <2>3, <3>1, LongerPieces
  <2>4. b3 \in Seq(Piece) /\ Len(b3) >= 5 /\ b3[5] = flags[1]
    BY <2>2, <2>3, <1>9
  <2> HIDE DEF b3
  <2>5. b4 \in Seq(Piece) /\ Len(b4) >= 5 /\ b4[5] = flags[1]
    BY <2>4, <2>3, <1>10
  <2> HIDE DEF b4
  <2>6. b5 \in Seq(Piece) /\ Len(b5) >= 5 /\ b5[5] = flags[1]
    BY <2>5, <2>3, <1>11
  <2> HIDE DEF b5
  <2>7. b = b5 \o pass
    BY DEF b1, b2, b3, b4, b5
  <2> HIDE DEF b
  <2>8. QED
    BY <2>6, <2>3, <2>7, <1>12
<1> HIDE DEF b
<1>16. QED
  BY <1>8, <1>14, <1>15

(* A frame whose length is said by one octet. *)
LEMMA ShortFramed ==
    ASSUME NEW o \in Bytes, NEW b \in Seq(Piece), NEW n \in 0..127,
           Size(b) = n
    PROVE  Framed(<<Octet(o), Octet(n)>> \o b, o, b)
<1>1. n \in Nat /\ n < Limit /\ n \in Bytes
  BY SMT DEF Limit, Bytes
<1>2. PutVariableLength(n) = <<Octet(n)>>
  BY ShortLength
<1>3. Octet(o) \in Piece /\ Octet(n) \in Piece
  BY <1>1, Pieces
<1>4. <<Octet(o)>> \o <<Octet(n)>> = <<Octet(o), Octet(n)>>
  <2>1. ASSUME NEW p \in Piece, NEW q \in Piece
        PROVE  <<p>> \o <<q>> = <<p, q>>
    <3> DEFINE c == <<p>> \o <<q>>
               d == <<p, q>>
    <3>1. /\ <<p>> \in Seq(Piece) /\ Len(<<p>>) = 1 /\ <<p>>[1] = p
          /\ <<q>> \in Seq(Piece) /\ Len(<<q>>) = 1 /\ <<q>>[1] = q
      BY Singles
    <3>2. d \in Seq(Piece) /\ Len(d) = 2 /\ d[1] = p /\ d[2] = q
      BY Singles
    <3>3. c \in Seq(Piece) /\ Len(c) = 2 /\ c[1] = p /\ c[2] = q
      BY <3>1, LongerPieces
    <3> HIDE DEF c, d
    <3>4. \A i \in 1..Len(c) : c[i] = d[i]
      BY <3>2, <3>3
    <3>5. c = d
      BY <3>2, <3>3, <3>4, SeqEqual
    <3>6. QED
      BY <3>5 DEF c, d
  <2>2. QED
    BY <1>3, <2>1
<1>5. <<Octet(o), Octet(n)>> \o b
        = (<<Octet(o)>> \o PutVariableLength(Size(b))) \o b
  BY <1>2, <1>4
<1>6. QED
  BY <1>1, <1>5 DEF Framed

(* SUBSCRIBE and UNSUBSCRIBE: their sums are those of their parts. *)
LEMMA SubscribeFramed ==
    ASSUME NEW raw \in Bytes, NEW a \in TopicArgs("SUBSCRIBE")
    PROVE  \E b : Framed(SubscribeFrame(raw, a), 130, b)
<1> DEFINE n == 2 + a.topic.len + 2 + 1
           id == PutShort(a.packet_id)
           t == PutString(a.topic)
           q == <<Octet(a.qos)>>
           h == <<Octet(130)>> \o PutVariableLength(n)
<1>1. /\ a.packet_id \in Ids /\ a.qos \in 0..2
      /\ \E l \in TopicLens : a.topic = Text(l, 1)
  BY DEF TopicArgs
<1>2. a.topic \in Piece /\ a.topic.len \in TopicLens
  <2>1. PICK l \in TopicLens : a.topic = Text(l, 1)
    BY <1>1
  <2>2. l \in Nat /\ 1 \in Bytes
    BY Bounds DEF Bytes
  <2>3. QED
    BY <2>1, <2>2, TextIs
<1>3. a.topic.len \in Shorts /\ n \in Nat /\ n < Limit
      /\ n = 2 + (a.topic.len + 2) + 1
  <2>1. a.topic.len \in Shorts /\ a.topic.len \in Nat
        /\ a.topic.len + 5 < Limit
    BY <1>2, Bounds
  <2>2. QED
    BY <2>1, SMT DEF Limit
<1>4. SubscribeFrame(raw, a) = ((h \o id) \o t) \o q
  <2>1. FirstOctet(raw, 2, "SUBSCRIBE") = Octet(130)
    <3>1. "SUBSCRIBE" \in DOMAIN PacketType /\ PacketType["SUBSCRIBE"] = 8
          /\ 2 \in 0..15 /\ 2 + 16 * 8 = 130
      BY Types
    <3>2. QED
      <4>1. ASSUME NEW low \in 0..15, low = 2,
                   NEW type \in DOMAIN PacketType, type = "SUBSCRIBE"
            PROVE  FirstOctet(raw, low, type) = Octet(130)
        <5>1. FirstOctet(raw, low, type)
                = Octet(low + 16 * PacketType[type])
          BY FirstIs
        <5>2. low + 16 * PacketType[type] = 130
          BY <3>1, <4>1
        <5>3. QED
          BY <5>1, <5>2
      <4>2. QED
        BY <3>1, <4>1
  <2>2. QED
    BY <2>1 DEF SubscribeFrame
<1>5. id \in Seq(Piece) /\ Size(id) = 2
  BY <1>1, Bounds, ShortPieces
<1>6. t \in Seq(Piece) /\ Size(t) = a.topic.len + 2
  BY <1>2, <1>3, StringPieces
<1>7. q \in Seq(Piece) /\ Size(q) = 1
  <2>1. a.qos \in Bytes
    BY <1>1 DEF Bytes
  <2>2. QED
    BY <2>1, OctetIs
<1>8. 130 \in Bytes
  BY DEF Bytes
<1>9. h \in Seq(Piece)
  BY <1>3, <1>8, HeaderPieces
<1> HIDE DEF h, id, t, q
<1>10. Behind(h \o id, h, id, 2)
  BY <1>5, <1>9 DEF Behind
<1>11. Behind((h \o id) \o t, h, id \o t, 2 + (a.topic.len + 2))
  BY <1>6, <1>10, Longer
<1>12. Behind(((h \o id) \o t) \o q, h, (id \o t) \o q, n)
  BY <1>3, <1>7, <1>11, Longer
<1> HIDE DEF n
<1>13. Framed(SubscribeFrame(raw, a), 130, (id \o t) \o q)
  BY <1>3, <1>4, <1>8, <1>12, BehindIs DEF h
<1>14. QED
  BY <1>13

LEMMA UnsubscribeFramed ==
    ASSUME NEW raw \in Bytes, NEW a \in TopicArgs("UNSUBSCRIBE")
    PROVE  \E b : Framed(UnsubscribeFrame(raw, a), 162, b)
<1> DEFINE n == 2 + a.topic.len + 2
           id == PutShort(a.packet_id)
           t == PutString(a.topic)
           h == <<Octet(162)>> \o PutVariableLength(n)
<1>1. /\ a.packet_id \in Ids
      /\ \E l \in TopicLens : a.topic = Text(l, 1)
  BY DEF TopicArgs
<1>2. a.topic \in Piece /\ a.topic.len \in TopicLens
  <2>1. PICK l \in TopicLens : a.topic = Text(l, 1)
    BY <1>1
  <2>2. l \in Nat /\ 1 \in Bytes
    BY Bounds DEF Bytes
  <2>3. QED
    BY <2>1, <2>2, TextIs
<1>3. a.topic.len \in Shorts /\ n \in Nat /\ n < Limit
      /\ n = 2 + (a.topic.len + 2)
  <2>1. a.topic.len \in Shorts /\ a.topic.len \in Nat
        /\ a.topic.len + 5 < Limit
    BY <1>2, Bounds
  <2>2. QED
    BY <2>1, SMT DEF Limit
<1>4. UnsubscribeFrame(raw, a) = (h \o id) \o t
  <2>1. FirstOctet(raw, 2, "UNSUBSCRIBE") = Octet(162)
    <3>1. "UNSUBSCRIBE" \in DOMAIN PacketType
          /\ PacketType["UNSUBSCRIBE"] = 10
          /\ 2 \in 0..15 /\ 2 + 16 * 10 = 162
      BY Types
    <3>2. QED
      <4>1. ASSUME NEW low \in 0..15, low = 2,
                   NEW type \in DOMAIN PacketType, type = "UNSUBSCRIBE"
            PROVE  FirstOctet(raw, low, type) = Octet(162)
        <5>1. FirstOctet(raw, low, type)
                = Octet(low + 16 * PacketType[type])
          BY FirstIs
        <5>2. low + 16 * PacketType[type] = 162
          BY <3>1, <4>1
        <5>3. QED
          BY <5>1, <5>2
      <4>2. QED
        BY <3>1, <4>1
  <2>2. QED
    BY <2>1 DEF UnsubscribeFrame
<1>5. id \in Seq(Piece) /\ Size(id) = 2
  BY <1>1, Bounds, ShortPieces
<1>6. t \in Seq(Piece) /\ Size(t) = a.topic.len + 2
  BY <1>2, <1>3, StringPieces
<1>7. 162 \in Bytes
  BY DEF Bytes
<1>8. h \in Seq(Piece)
  BY <1>3, <1>7, HeaderPieces
<1> HIDE DEF h, id, t
<1>9. Behind(h \o id, h, id, 2)
  BY <1>5, <1>8 DEF Behind
<1>10. Behind((h \o id) \o t, h, id \o t, n)
  BY <1>3, <1>6, <1>9, Longer
<1> HIDE DEF n
<1>11. Framed(UnsubscribeFrame(raw, a), 162, id \o t)
  BY <1>3, <1>4, <1>7, <1>10, BehindIs DEF h
<1>12. QED
  BY <1>11

-----------------------------------------------------------------------------
(* Frames with one length octet                                            *)

LEMMA TypeRange ==
    \A type \in DOMAIN PacketType : PacketType[type] \in 1..14
BY DEF PacketType

(* f is a frame with one length octet. *)
Short(raw, low, a, n, b, f) ==
    /\ raw \in Bytes /\ low \in {0, 2}
    /\ a.type \in DOMAIN PacketType /\ a.type # "CONNECT"
    /\ b \in Seq(Piece) /\ n \in 0..127 /\ Size(b) = n
    /\ f = <<FirstOctet(raw, low, a.type), Octet(n)>> \o b

(* It is good, and of its size. *)
LEMMA ShortIsGood ==
    ASSUME NEW raw, NEW low, NEW a, NEW n, NEW b, NEW f,
           Short(raw, low, a, n, b, f)
    PROVE  /\ GoodFrame(a, f) /\ Size(f) = n + 2
           /\ low = HeaderFlags(a) => HeaderSays(a, f)
           /\ Len(b) >= 1 => f[3] = b[1]
           /\ Len(b) >= 2 => f[4] = b[2]
           /\ Len(b) >= 3 => f[5] = b[3]
<1> DEFINE o == low + 16 * PacketType[a.type]
<1>1. /\ raw \in Bytes /\ low \in {0, 2}
      /\ a.type \in DOMAIN PacketType /\ a.type # "CONNECT"
      /\ b \in Seq(Piece) /\ n \in 0..127 /\ Size(b) = n
  BY DEF Short
<1>2. low \in 0..15
  BY <1>1
<1>3. PacketType[a.type] \in 1..14
  BY <1>1, TypeRange
<1>4. FirstOctet(raw, low, a.type) = Octet(o)
  BY <1>1, <1>2, FirstIs, Zenon
<1>5. /\ o \in Bytes
      /\ low = HeaderFlags(a)
         => o = 16 * PacketType[a.type] + HeaderFlags(a)
  <2>1. o \in Bytes
    <3>1. ASSUME NEW t \in 1..14, NEW l \in 0..15 PROVE l + 16 * t \in Bytes
      BY DEF Bytes
    <3>2. QED
      BY <1>2, <1>3, <3>1
  <2>2. low = HeaderFlags(a)
        => o = 16 * PacketType[a.type] + HeaderFlags(a)
    BY <1>1, <1>3
  <2>3. QED
    BY <2>1, <2>2
<1> HIDE DEF o
<1>6. Framed(f, o, b)
  <2>1. f = <<Octet(o), Octet(n)>> \o b
    BY <1>4, Zenon DEF Short
  <2>2. QED
    BY <1>1, <1>5, <2>1, ShortFramed
<1>8. GoodFrame(a, f) /\ (low = HeaderFlags(a) => HeaderSays(a, f))
  BY <1>1, <1>5, <1>6, FramedIsGood
<1>9. Size(f) = n + 2 /\ \A i \in 1..Len(b) : f[i + 2] = b[i]
  <2>1. Digits(Size(b)) = 1
    BY <1>1, ShortLength
  <2>2. Size(f) = 1 + 1 + n /\ \A i \in 1..Len(b) : f[1 + 1 + i] = b[i]
    BY <1>1, <1>6, <2>1, FramedSays
  <2>3. 1 + 1 + n = n + 2 /\ \A i \in 1..Len(b) : 1 + 1 + i = i + 2
    BY <1>1
  <2>4. QED
    BY <2>2, <2>3
<1>10. /\ Len(b) >= 1 => f[1 + 2] = b[1]
       /\ Len(b) >= 2 => f[2 + 2] = b[2]
       /\ Len(b) >= 3 => f[3 + 2] = b[3]
  BY <1>1, <1>9
<1>11. 1 + 2 = 3 /\ 2 + 2 = 4 /\ 3 + 2 = 5
  OBVIOUS
<1>12. QED
  BY <1>8, <1>9, <1>10, <1>11

(* A frame without a body. *)
LEMMA BareIsGood ==
    ASSUME NEW raw \in Bytes, NEW a, a = [type |-> a.type],
           a.type \in {"PINGREQ", "DISCONNECT", "PINGRESP"},
           NEW f, f = <<FirstOctet(raw, 0, a.type), Octet(0)>>
    PROVE  GoodFrame(a, f) /\ Size(f) = 2 /\ HeaderSays(a, f)
<1>1. <<>> \in Seq(Piece) /\ Size(<<>>) = 0
  BY SizeNone
<1>2. /\ a.type \in DOMAIN PacketType /\ a.type # "CONNECT"
      /\ 0 = HeaderFlags(a)
  BY Types DEF Acks, HeaderFlags
<1>3. f = <<FirstOctet(raw, 0, a.type), Octet(0)>> \o <<>>
  <2>1. \A p, q : <<p, q>> \o <<>> = <<p, q>>
    OBVIOUS
  <2>2. QED
    BY <2>1
<1>4. Short(raw, 0, a, 0, <<>>, f)
  <2>1. 0 \in 0..127 /\ 0 \in {0, 2}
    OBVIOUS
  <2>2. QED
    BY <1>1, <1>2, <1>3, <2>1 DEF Short
<1>5. GoodFrame(a, f) /\ Size(f) = 0 + 2 /\ HeaderSays(a, f)
  BY <1>2, <1>4, ShortIsGood
<1>6. QED
  BY <1>5

IsAck(raw, low, a, f) ==
    f = <<FirstOctet(raw, low, a.type), Octet(2)>> \o PutShort(a.packet_id)

(* The frames with a packet id and nothing else *)
LEMMA AckIsGood ==
    ASSUME NEW raw \in Bytes, NEW low \in {0, 2},
           NEW a \in AckArgs(Acks \cup {"UNSUBACK"}),
           NEW f, IsAck(raw, low, a, f)
    PROVE  /\ GoodFrame(a, f) /\ Size(f) = 4
           /\ GetShort(f, 3) = a.packet_id
           /\ low = HeaderFlags(a) => HeaderSays(a, f)
<1> DEFINE b == PutShort(a.packet_id)
<1>1. a.type \in Acks \cup {"UNSUBACK"} /\ a.packet_id \in Ids
  BY DEF AckArgs
<1>2. /\ b \in Seq(Piece) /\ Len(b) = 2 /\ Size(b) = 2
      /\ b[1].val * 256 + b[2].val = a.packet_id
  BY <1>1, Bounds, ShortPieces
<1>3. a.type \in DOMAIN PacketType /\ a.type # "CONNECT"
  BY <1>1, Types DEF Acks
<1> HIDE DEF b
<1>5. Short(raw, low, a, 2, b, f)
  <2>1. 2 \in 0..127
    OBVIOUS
  <2>2. f = <<FirstOctet(raw, low, a.type), Octet(2)>> \o b
    BY Zenon DEF b, IsAck
  <2>3. QED
    BY <1>2, <1>3, <2>1, <2>2, Zenon DEF Short
<1>6. /\ GoodFrame(a, f) /\ Size(f) = 2 + 2
      /\ low = HeaderFlags(a) => HeaderSays(a, f)
      /\ Len(b) >= 1 => f[3] = b[1]
      /\ Len(b) >= 2 => f[4] = b[2]
  BY <1>5, ShortIsGood
<1>7. f[3] = b[1] /\ f[4] = b[2]
  BY <1>2, <1>6
<1>8. f[3].val * 256 + f[4].val = a.packet_id
  BY <1>2, <1>7
<1>9. GetShort(f, 3) = f[3].val * 256 + f[4].val
  BY SMT DEF GetShort
<1>10. QED
  BY <1>6, <1>8, <1>9

IsSuback(a, f) ==
    f = (<<FirstOctet(0, 0, "SUBACK"), Octet(3)>> \o PutShort(a.packet_id))
        \o <<Octet(a.return_code)>>

(* SUBACK and CONNACK, with a return code *)
LEMMA SubackIsGood ==
    ASSUME NEW a, a.type = "SUBACK", a.packet_id \in Ids,
           a.return_code \in Bytes,
           NEW f, IsSuback(a, f)
    PROVE  /\ GoodFrame(a, f) /\ Size(f) = 5
           /\ GetShort(f, 3) = a.packet_id /\ f[5].val = a.return_code
<1> DEFINE s == PutShort(a.packet_id)
           r == <<Octet(a.return_code)>>
           g == <<FirstOctet(0, 0, "SUBACK"), Octet(3)>>
           b == s \o r
<1>1. /\ s \in Seq(Piece) /\ Len(s) = 2 /\ Size(s) = 2
      /\ s[1].val * 256 + s[2].val = a.packet_id
  BY Bounds, ShortPieces
<1>2. /\ r \in Seq(Piece) /\ Len(r) = 1 /\ Size(r) = 1
      /\ r[1].val = a.return_code
  BY OctetIs
<1>3. a.type \in DOMAIN PacketType /\ a.type # "CONNECT"
  BY Types
<1>4. g \in Seq(Piece)
  <2>1. 0 \in Bytes /\ 0 \in 0..15 /\ 3 \in Bytes
        /\ "SUBACK" \in DOMAIN PacketType
    BY Types DEF Bytes
  <2>a. FirstOctet(0, 0, "SUBACK") = Octet(0 + 16 * PacketType["SUBACK"])
    BY <2>1, FirstIs, Zenon
  <2>b. 0 + 16 * PacketType["SUBACK"] \in Bytes
    BY Types DEF Bytes
  <2>2. PICK o \in Bytes : FirstOctet(0, 0, "SUBACK") = Octet(o)
    BY <2>a, <2>b
  <2>3. Octet(o) \in Piece /\ Octet(3) \in Piece
    BY <2>1, Pieces
  <2>4. QED
    BY <2>2, <2>3, Singles
<1> HIDE DEF s, r, g
<1>5. /\ b \in Seq(Piece) /\ Len(b) = 3 /\ Size(b) = 3
      /\ b[1] = s[1] /\ b[2] = s[2] /\ b[3] = r[1]
  <2>1. Size(b) = 2 + 1
    BY <1>1, <1>2, SizeConcat
  <2>2. /\ b \in Seq(Piece) /\ Len(b) = Len(s) + Len(r)
        /\ \A i \in 1..Len(s) : b[i] = s[i]
        /\ \A i \in 1..Len(r) : b[Len(s) + i] = r[i]
    BY <1>1, <1>2, LongerPieces
  <2> HIDE DEF b
  <2>3. QED
    BY <1>1, <1>2, <2>1, <2>2
<1>6. f = g \o b
  <2>1. f = (g \o s) \o r
    BY Zenon DEF g, s, r, IsSuback
  <2>2. (g \o s) \o r = g \o b
    BY <1>1, <1>2, <1>4, ConcatAssociative
  <2>3. QED
    BY <2>1, <2>2, Zenon
<1> HIDE DEF b
<1>8. Short(0, 0, a, 3, b, f)
  <2>1. 3 \in 0..127 /\ 0 \in Bytes /\ 0 \in {0, 2}
    BY DEF Bytes
  <2>2. f = <<FirstOctet(0, 0, a.type), Octet(3)>> \o b
    BY <1>6, Zenon DEF g
  <2>3. QED
    BY <1>3, <1>5, <2>1, <2>2, Zenon DEF Short
<1>9. /\ GoodFrame(a, f) /\ Size(f) = 3 + 2
      /\ Len(b) >= 1 => f[3] = b[1]
      /\ Len(b) >= 2 => f[4] = b[2]
      /\ Len(b) >= 3 => f[5] = b[3]
  BY <1>8, ShortIsGood
<1>10. f[3] = b[1] /\ f[4] = b[2] /\ f[5] = b[3]
  BY <1>5, <1>9
<1>11. f[3].val * 256 + f[4].val = a.packet_id
  BY <1>1, <1>5, <1>10
<1>12. GetShort(f, 3) = f[3].val * 256 + f[4].val
  BY SMT DEF GetShort
<1>13. f[5].val = a.return_code
  BY <1>2, <1>5, <1>10
<1>14. QED
  BY <1>9, <1>11, <1>12, <1>13

LEMMA PairIs ==
    \A h, l \in Bytes :
       /\ Two(h, l) \in Seq(Piece) /\ Len(Two(h, l)) = 2
       /\ Size(Two(h, l)) = 2
       /\ Two(h, l)[1].val = h /\ Two(h, l)[2].val = l
BY Pair

IsConnack(a, f) ==
    f = <<FirstOctet(0, 0, "CONNACK"), Octet(2), Octet(0),
          Octet(a.return_code)>>

LEMMA ConnackIsGood ==
    ASSUME NEW a, a.type = "CONNACK", a.return_code \in Bytes,
           NEW f, IsConnack(a, f)
    PROVE  GoodFrame(a, f) /\ Size(f) = 4 /\ f[4].val = a.return_code
<1> DEFINE b == Two(0, a.return_code)
<1>1. /\ b \in Seq(Piece) /\ Len(b) = 2 /\ Size(b) = 2
      /\ b[2].val = a.return_code
  <2>1. 0 \in Bytes
    BY DEF Bytes
  <2>2. PICK z \in Bytes, r \in Bytes : z = 0 /\ r = a.return_code
    BY <2>1
  <2>3. /\ Two(z, r) \in Seq(Piece) /\ Len(Two(z, r)) = 2
        /\ Size(Two(z, r)) = 2
        /\ Two(z, r)[1].val = z /\ Two(z, r)[2].val = r
    BY <2>2, PairIs, Zenon
  <2>4. QED
    BY <2>2, <2>3, Zenon
<1>2. a.type \in DOMAIN PacketType /\ a.type # "CONNECT"
  BY Types
<1>4. Short(0, 0, a, 2, b, f)
  <2>1. 2 \in 0..127 /\ 0 \in Bytes /\ 0 \in {0, 2}
    BY DEF Bytes
  <2>2. f = <<FirstOctet(0, 0, a.type), Octet(2)>> \o b
    <3>1. ASSUME NEW p, NEW q, NEW r, NEW s, f = <<p, q, r, s>>
          PROVE  f = <<p, q>> \o <<r, s>>
      BY <3>1
    <3>2. f = <<FirstOctet(0, 0, a.type), Octet(2)>>
              \o <<Octet(0), Octet(a.return_code)>>
      BY <3>1 DEF IsConnack
    <3>3. QED
      BY <3>2, Zenon DEF Two, b
  <2> HIDE DEF b
  <2>3. QED
    BY <1>1, <1>2, <2>1, <2>2, Zenon DEF Short
<1> HIDE DEF b
<1>5. /\ GoodFrame(a, f) /\ Size(f) = 2 + 2
      /\ Len(b) >= 2 => f[4] = b[2]
  BY <1>4, ShortIsGood
<1>6. f[4] = b[2]
  BY <1>1, <1>5
<1>7. QED
  BY <1>1, <1>5, <1>6

-----------------------------------------------------------------------------
(* Every frame of the client is good, and a PUBLISH is read as it was put  *)

(* What the client builds *)
LEMMA ConnectIsGood ==
    ASSUME NEW raw \in Bytes, NEW a \in ConnectArgs
    PROVE  /\ GoodFrame(a, ConnectFrame(raw, a))
           /\ HeaderSays(a, ConnectFrame(raw, a))
<1>1. PICK b : /\ Framed(ConnectFrame(raw, a), 16, b)
               /\ Len(b) >= 5
               /\ b[5].val = 128 * a.password_flag
                    + 64 * a.username_flag + 2 * a.clean_session
  BY ConnectFramed
<1>2. /\ a.type = "CONNECT" /\ a.type \in DOMAIN PacketType
      /\ 16 = 16 * PacketType[a.type] + HeaderFlags(a)
  <2>1. a.type = "CONNECT"
    BY DEF ConnectArgs
  <2>2. HeaderFlags(a) = 0
    BY <2>1 DEF HeaderFlags, Acks
  <2>3. QED
    BY <2>1, <2>2, Types
<1>3. QED
  BY <1>1, <1>2, FramedIsGood

LEMMA SubscribeIsGood ==
    ASSUME NEW raw \in Bytes, NEW a \in TopicArgs("SUBSCRIBE")
    PROVE  /\ GoodFrame(a, SubscribeFrame(raw, a))
           /\ HeaderSays(a, SubscribeFrame(raw, a))
<1>1. PICK b : Framed(SubscribeFrame(raw, a), 130, b)
  BY SubscribeFramed
<1>2. /\ a.type \in DOMAIN PacketType /\ a.type # "CONNECT"
      /\ 130 = 16 * PacketType[a.type] + HeaderFlags(a)
  <2>1. a.type = "SUBSCRIBE"
    BY DEF TopicArgs
  <2>2. HeaderFlags(a) = 2
    BY <2>1 DEF HeaderFlags
  <2>3. QED
    BY <2>1, <2>2, Types
<1>3. QED
  BY <1>1, <1>2, FramedIsGood

LEMMA UnsubscribeIsGood ==
    ASSUME NEW raw \in Bytes, NEW a \in TopicArgs("UNSUBSCRIBE")
    PROVE  /\ GoodFrame(a, UnsubscribeFrame(raw, a))
           /\ HeaderSays(a, UnsubscribeFrame(raw, a))
<1>1. PICK b : Framed(UnsubscribeFrame(raw, a), 162, b)
  BY UnsubscribeFramed
<1>2. /\ a.type \in DOMAIN PacketType /\ a.type # "CONNECT"
      /\ 162 = 16 * PacketType[a.type] + HeaderFlags(a)
  <2>1. a.type = "UNSUBSCRIBE"
    BY DEF TopicArgs
  <2>2. HeaderFlags(a) = 2
    BY <2>1 DEF HeaderFlags
  <2>3. QED
    BY <2>1, <2>2, Types
<1>3. QED
  BY <1>1, <1>2, FramedIsGood

LEMMA PublishIsGood ==
    ASSUME NEW raw \in Bytes, NEW a \in PublishArgs
    PROVE  /\ GoodFrame(a, PublishFrame(raw, a))
           /\ HeaderSays(a, PublishFrame(raw, a))
<1>1. PICK b : Framed(PublishFrame(raw, a), 48 + HeaderFlags(a), b)
  BY PublishFramed
<1>2. /\ a.type \in DOMAIN PacketType /\ a.type # "CONNECT"
      /\ 48 + HeaderFlags(a) = 16 * PacketType[a.type] + HeaderFlags(a)
  <2>1. a.type = "PUBLISH"
    BY DEF PublishArgs
  <2>2. QED
    BY <2>1, Types
<1>3. QED
  BY <1>1, <1>2, FramedIsGood

(* What is read of the frame of a PUBLISH is what was put into it. *)
LEMMA PublishRoundTrip ==
    ASSUME NEW raw \in Bytes, NEW a \in PublishArgs
    PROVE  GetPublish(PublishFrame(raw, a)) = a
<1> DEFINE f == PublishFrame(raw, a)
           o == 48 + HeaderFlags(a)
           x == PublishSize(a)
<1>1. PICK b : /\ Framed(f, o, b) /\ Size(b) = x
               /\ b[1].val * 256 + b[2].val = a.topic.len /\ b[3] = a.topic
               /\ a.qos = 0 => Len(b) = 4 /\ b[4] = a.data
               /\ a.qos # 0 => /\ b[4].val * 256 + b[5].val = a.packet_id
                               /\ Len(b) = 6 /\ b[6] = a.data
  BY PublishFramed
<1>2. PICK k \in 1..4 :
        /\ LengthOctets(f) = k /\ GetVariableLength(f) = x
        /\ f[1].val = o
        /\ \A i \in 1..Len(b) : f[1 + k + i] = b[i]
  <2> DEFINE d == Digits(Size(b))
  <2> HIDE DEF f, o, x
  <2>1. /\ d \in 1..4
        /\ LengthOctets(f) = d /\ GetVariableLength(f) = Size(b)
        /\ f[1].val = o
        /\ \A i \in 1..Len(b) : f[1 + d + i] = b[i]
    BY <1>1, FramedSays
  <2> HIDE DEF d
  <2>2. QED
    BY <1>1, <2>1
<1>3. /\ a.type = "PUBLISH" /\ a.dup \in 0..1 /\ a.retain \in 0..1
      /\ a.qos \in 0..2
      /\ \E l \in TopicLens : a.topic = Text(l, 1)
      /\ \E l \in DataLens : a.data = Text(l, 2)
      /\ (a.qos = 0) = (a.packet_id = 0)
      /\ a = [type |-> a.type, dup |-> a.dup, retain |-> a.retain,
              qos |-> a.qos, topic |-> a.topic, packet_id |-> a.packet_id,
              data |-> a.data]
  BY DEF PublishArgs, Bit
<1>4. o = a.retain + 2 * a.qos + 8 * a.dup + 16 * 3
  BY <1>3 DEF HeaderFlags, Acks
<1> HIDE DEF f, o
<1>5. /\ Bits(f[1].val, 0, 1) = a.retain /\ Bits(f[1].val, 1, 2) = a.qos
      /\ Bits(f[1].val, 3, 1) = a.dup
  BY <1>2, <1>3, <1>4, PublishBits
<1>6. /\ a.topic.len \in Nat /\ a.data.len \in Nat
      /\ a.topic = Text(a.topic.len, a.topic.val) /\ a.topic.val = 1
      /\ a.data = Text(a.data.len, a.data.val)
  BY <1>3, Bounds DEF Text
<1>7. 1 + k + 1 = k + 2 /\ 1 + k + 2 = (k + 2) + 1
      /\ 1 + k + 3 = (k + 2) + 2 /\ 1 + k + 4 = (k + 2) + 3
      /\ 1 + k + 5 = ((k + 2) + 3) + 1 /\ 1 + k + 6 = (k + 2) + 3 + 2
      /\ (k + 2) + 3 + 0 = (k + 2) + 3
  OBVIOUS
<1>8. GetString(f, k + 2) = a.topic
  <2>1. 1 \in 1..Len(b) /\ 2 \in 1..Len(b) /\ 3 \in 1..Len(b)
    BY <1>1
  <2>2. f[k + 2] = b[1] /\ f[(k + 2) + 1] = b[2] /\ f[(k + 2) + 2] = b[3]
    BY <1>2, <1>7, <2>1
  <2>3. GetShort(f, k + 2) = a.topic.len
    BY <1>1, <2>2 DEF GetShort
  <2>4. QED
    BY <1>1, <1>6, <2>2, <2>3 DEF GetString
<1> DEFINE idLen == IF a.qos = 0 THEN 0 ELSE 2
<1>9. x - idLen - a.topic.len - 2 = a.data.len
  BY <1>3, <1>6 DEF PublishSize
<1>10. /\ (IF a.qos = 0 THEN 0 ELSE GetShort(f, (k + 2) + 3)) = a.packet_id
       /\ f[(k + 2) + 3 + idLen] = a.data
  <2>1. CASE a.qos = 0
    <3>1. 4 \in 1..Len(b)
      <4>1. Len(b) = 4
        BY <1>1, <2>1, Zenon
      <4>2. QED
        BY <4>1
    <3>2. f[(k + 2) + 3] = b[4]
      BY <1>2, <1>7, <3>1
    <3>3. idLen = 0 /\ a.packet_id = 0 /\ b[4] = a.data
      BY <1>1, <1>3, <2>1
    <3> HIDE DEF idLen
    <3>4. f[(k + 2) + 3 + idLen] = f[(k + 2) + 3]
      BY <1>7, <3>3
    <3>5. QED
      BY <2>1, <3>2, <3>3, <3>4
  <2>2. CASE a.qos # 0
    <3>1. 4 \in 1..Len(b) /\ 5 \in 1..Len(b) /\ 6 \in 1..Len(b)
      BY <1>1, <2>2
    <3>2. /\ f[(k + 2) + 3] = b[4] /\ f[((k + 2) + 3) + 1] = b[5]
          /\ f[(k + 2) + 3 + 2] = b[6]
      BY <1>2, <1>7, <3>1
    <3>3. GetShort(f, (k + 2) + 3) = a.packet_id
      BY <1>1, <2>2, <3>2 DEF GetShort
    <3>4. QED
      BY <1>1, <2>2, <3>2, <3>3
  <2>3. QED
    BY <2>1, <2>2
<1> HIDE DEF x
<1>11. GetPublish(f)
         = [type |-> "PUBLISH", dup |-> Bits(f[1].val, 3, 1),
            retain |-> Bits(f[1].val, 0, 1), qos |-> a.qos,
            topic |-> a.topic,
            packet_id |-> IF a.qos = 0 THEN 0 ELSE GetShort(f, (k + 2) + 3),
            data |-> Text(x - idLen - a.topic.len - 2,
                          f[(k + 2) + 3 + idLen].val)]
  <2>1. LengthOctets(f) + 2 = k + 2
    BY <1>2
  <2> HIDE DEF idLen
  <2>2. Bits(f[1].val, 1, 2) = a.qos /\ GetVariableLength(f) = x
        /\ LengthOctets(f) + 2 = k + 2 /\ GetString(f, k + 2) = a.topic
    BY <1>2, <1>5, <1>8, <2>1
  <2>3. QED
    BY <2>2, Zenon DEF GetPublish, idLen
<1> HIDE DEF idLen
<1>12. GetPublish(f) = a
  BY <1>3, <1>5, <1>6, <1>9, <1>10, <1>11
<1>13. QED
  BY <1>12 DEF f

-----------------------------------------------------------------------------
(* The size that is given back                                             *)

(* The thresholds of mqtt_frame.c:320-340 are where one more digit begins. *)
LEMMA Thresholds ==
    ASSUME NEW x \in Nat, x < Limit
    PROVE  Digits(x) = IF x <= 127 THEN 1 ELSE IF x <= 16383 THEN 2
                       ELSE IF x <= 2097151 THEN 3 ELSE 4
<1>1. /\ Digits(x) \in 1..4
      /\ x < 128 * Weight[Digits(x)]
      /\ Digits(x) > 1 => x >= Weight[Digits(x)]
  BY DigitsOf
<1>2. /\ Weight[1] = 1 /\ Weight[2] = 128
      /\ Weight[3] = 128 * 128 /\ Weight[4] = 128 * 128 * 128
  BY Weights
<1>3. CASE Digits(x) = 1
  BY <1>1, <1>2, <1>3, SMT
<1>4. CASE Digits(x) = 2
  BY <1>1, <1>2, <1>4, SMT
<1>5. CASE Digits(x) = 3
  BY <1>1, <1>2, <1>5, SMT
<1>6. CASE Digits(x) = 4
  BY <1>1, <1>2, <1>6, SMT
<1>7. QED
  BY <1>1, <1>3, <1>4, <1>5, <1>6

(* A PUBLISH has a length that four octets say. *)
LEMMA PublishSizeIs ==
    ASSUME NEW a \in PublishArgs
    PROVE  /\ PublishSize(a) \in Nat /\ PublishSize(a) < Limit
           /\ PublishTotal(a) = 1 + Digits(PublishSize(a)) + PublishSize(a)
<1> DEFINE x == PublishSize(a)
<1>1. /\ a.qos \in 0..2
      /\ \E l \in TopicLens : a.topic = Text(l, 1)
      /\ \E l \in DataLens : a.data = Text(l, 2)
  BY DEF PublishArgs
<1>2. a.topic.len \in TopicLens /\ a.data.len \in DataLens
  BY <1>1 DEF Text
<1>3. /\ a.topic.len \in Nat /\ a.data.len \in Nat
      /\ a.topic.len + a.data.len + 4 < Limit
  BY <1>2, Bounds
<1>4. x \in Nat /\ x < Limit
  <2>1. Limit \in Nat
    BY SMT DEF Limit
  <2>2. QED
    BY <1>1, <1>3, <2>1 DEF PublishSize
<1>5. x = a.data.len + a.topic.len + 2 + IF a.qos = 0 THEN 0 ELSE 2
  BY <1>1, <1>3 DEF PublishSize
<1> HIDE DEF x
<1>6. Digits(x) = IF x <= 127 THEN 1 ELSE IF x <= 16383 THEN 2
                  ELSE IF x <= 2097151 THEN 3 ELSE 4
  BY <1>4, Thresholds
<1>7. PublishTotal(a) = x + Digits(x) + 1
  <2> DEFINE Octets(t) == IF t <= 127 THEN 1 ELSE IF t <= 16383 THEN 2
                          ELSE IF t <= 2097151 THEN 3 ELSE 4
             total == a.data.len + a.topic.len + 2
                      + IF a.qos = 0 THEN 0 ELSE 2
  <2>1. PublishTotal(a) = total + Octets(total) + 1
    BY DEF PublishTotal
  <2>2. Digits(x) = Octets(x) /\ x = total
    BY <1>5, <1>6
  <2> HIDE DEF Octets, total
  <2>3. QED
    BY <2>1, <2>2
<1>8. Digits(x) \in Nat
  BY <1>4, DigitsOf
<1>9. x + Digits(x) + 1 = 1 + Digits(x) + x
  BY <1>4, <1>8
<1>10. QED
  BY <1>4, <1>7, <1>9 DEF x

-----------------------------------------------------------------------------
(* What the properties say of one reading of the frame f of a *)

GoodRead(a, f, g) ==
    /\ g # Nothing /\ g.type \in {"refused", "read"}
    /\ g.type = "read" => g.args = a /\ g.size = Size(f)
    /\ (g.type = "refused") = (g.n < Size(f))

(* A PUBLISH, whole or in part *)
LEMMA PublishIsRead ==
    ASSUME NEW a \in PublishArgs, NEW n \in Nat \ {0}, NEW raw \in Bytes,
           NEW raw0 \in Bytes
    PROVE  GoodRead(a, PublishFrame(raw0, a),
                    RecvPublish(PublishFrame(raw0, a), n, raw))
<1> DEFINE f == PublishFrame(raw0, a)
           x == PublishSize(a)
           g == RecvPublish(f, n, raw)
<1>1. PICK b : Framed(f, 48 + HeaderFlags(a), b) /\ Size(b) = x
  BY PublishFramed
<1>2. GetPublish(f) = a
  BY PublishRoundTrip
<1>3. x \in Nat /\ x < Limit /\ PublishTotal(a) = 1 + Digits(x) + x
  BY PublishSizeIs
<1> HIDE DEF f, x
<1>4. HasLength(f, x) /\ Size(f) = 1 + Digits(x) + x
  BY <1>1, FramedSays
<1>5. TooShort(f, n, raw) <=> n < Size(f)
  <2>1. raw \in 0..255
    BY DEF Bytes
  <2>2. TooShort(f, n, raw) <=> n < 1 + Digits(x) + x
    BY <1>3, <1>4, <2>1, TooShortIsPart
  <2>3. QED
    BY <1>4, <2>2
<1>6. PublishTotal(GetPublish(f)) = Size(f)
  BY <1>2, <1>3, <1>4
<1>7. CASE TooShort(f, n, raw)
  <2>1. g = [type |-> "refused", n |-> n]
    BY <1>7 DEF RecvPublish
  <2> HIDE DEF g
  <2>2. g.type = "refused" /\ g.n = n
    BY <2>1
  <2>3. g # Nothing
    BY <2>2 DEF Nothing
  <2>4. QED
    BY <1>5, <1>7, <2>2, <2>3 DEF GoodRead, f, g
<1>8. CASE ~TooShort(f, n, raw)
  <2>1. g = [type |-> "read", n |-> n, args |-> GetPublish(f),
             size |-> PublishTotal(GetPublish(f))]
    BY <1>8 DEF RecvPublish
  <2> HIDE DEF g
  <2>2. g.type = "read" /\ g.n = n /\ g.args = a /\ g.size = Size(f)
    BY <1>2, <1>6, <2>1
  <2>3. g # Nothing
    BY <2>2 DEF Nothing
  <2>4. QED
    BY <1>5, <1>8, <2>2, <2>3 DEF GoodRead, f, g
<1>9. QED
  BY <1>7, <1>8

(* A frame of a fixed size, if its arguments and its size are read right *)
LEMMA FixedIsRead ==
    ASSUME NEW a, NEW f, NEW n \in Nat, GetArgs(f, a.type) = a,
           FixedSize(a.type) = Size(f)
    PROVE  GoodRead(a, f, RecvFixed(f, a.type, n))
<1> DEFINE g == RecvFixed(f, a.type, n)
<1>1. CASE n < Size(f)
  <2>1. g = [type |-> "refused", n |-> n]
    BY <1>1 DEF RecvFixed
  <2> HIDE DEF g
  <2>2. g.type = "refused" /\ g.n = n
    BY <2>1
  <2>3. g # Nothing
    BY <2>2 DEF Nothing
  <2>4. QED
    BY <1>1, <2>2, <2>3 DEF GoodRead, g
<1>2. CASE ~(n < Size(f))
  <2>1. g = [type |-> "read", n |-> n, args |-> a, size |-> Size(f)]
    BY <1>2 DEF RecvFixed
  <2> HIDE DEF g
  <2>2. g.type = "read" /\ g.n = n /\ g.args = a /\ g.size = Size(f)
    BY <2>1
  <2>3. g # Nothing
    BY <2>2 DEF Nothing
  <2>4. QED
    BY <1>2, <2>2, <2>3 DEF GoodRead, g
<1>3. QED
  BY <1>1, <1>2

(* What the broker sends in a frame of a fixed size. *)
LEMMA AckIsRead ==
    ASSUME NEW a \in AckArgs(Acks \cup {"UNSUBACK"}), NEW n \in Nat
    PROVE  /\ GoodFrame(a, BrokerFrame(a))
           /\ GoodRead(a, BrokerFrame(a), RecvFixed(BrokerFrame(a), a.type, n))
<1> DEFINE f == BrokerFrame(a)
           low == IF a.type = "PUBREL" THEN 2 ELSE 0
<1>1. /\ a.type \in Acks \cup {"UNSUBACK"}
      /\ a = [type |-> a.type, packet_id |-> a.packet_id]
  BY DEF AckArgs
<1>2. IsAck(0, low, a, f)
  <2>1. a.type # "PUBLISH"
    BY <1>1 DEF Acks
  <2>2. QED
    BY <1>1, <2>1 DEF BrokerFrame, IsAck, Acks
<1>3. low \in {0, 2} /\ 0 \in Bytes
  BY DEF Bytes
<1> HIDE DEF f, low
<1>4. GoodFrame(a, f) /\ Size(f) = 4 /\ GetShort(f, 3) = a.packet_id
  BY <1>2, <1>3, AckIsGood
<1>5. FixedSize(a.type) = Size(f)
  BY <1>1, <1>4 DEF FixedSize, Acks
<1>6. GetArgs(f, a.type) = a
  <2>1. a.type # "PUBLISH"
    BY <1>1 DEF Acks
  <2>2. GetArgs(f, a.type) = [type |-> a.type, packet_id |-> GetShort(f, 3)]
    BY <1>1, <2>1 DEF GetArgs, Acks
  <2>3. QED
    BY <1>1, <1>4, <2>2
<1>7. QED
  BY <1>4, <1>5, <1>6, FixedIsRead DEF f

LEMMA SubackIsRead ==
    ASSUME NEW a \in [type : {"SUBACK"}, packet_id : Ids,
                      return_code : {0, 1, 2, 128}],
           NEW n \in Nat
    PROVE  /\ GoodFrame(a, BrokerFrame(a))
           /\ GoodRead(a, BrokerFrame(a), RecvFixed(BrokerFrame(a), a.type, n))
<1> DEFINE f == BrokerFrame(a)
<1>1. /\ a.type = "SUBACK" /\ a.packet_id \in Ids
      /\ a.return_code \in Bytes
      /\ a = [type |-> a.type, packet_id |-> a.packet_id,
              return_code |-> a.return_code]
  BY DEF Bytes
<1>2. IsSuback(a, f)
  BY <1>1 DEF BrokerFrame, IsSuback, Acks
<1> HIDE DEF f
<1>3. /\ GoodFrame(a, f) /\ Size(f) = 5
      /\ GetShort(f, 3) = a.packet_id /\ f[5].val = a.return_code
  BY <1>1, <1>2, SubackIsGood
<1>4. FixedSize(a.type) = Size(f)
  BY <1>1, <1>3 DEF FixedSize, Acks
<1>5. GetArgs(f, a.type) = a
  <2>1. GetArgs(f, a.type)
          = [type |-> a.type, packet_id |-> GetShort(f, 3),
             return_code |-> f[5].val]
    BY <1>1 DEF GetArgs, Acks
  <2>2. QED
    BY <1>1, <1>3, <2>1
<1>6. QED
  BY <1>3, <1>4, <1>5, FixedIsRead DEF f

LEMMA ConnackIsRead ==
    ASSUME NEW a \in [type : {"CONNACK"}, return_code : 0..5], NEW n \in Nat
    PROVE  /\ GoodFrame(a, BrokerFrame(a))
           /\ GoodRead(a, BrokerFrame(a), RecvFixed(BrokerFrame(a), a.type, n))
<1> DEFINE f == BrokerFrame(a)
<1>1. /\ a.type = "CONNACK" /\ a.return_code \in Bytes
      /\ a = [type |-> a.type, return_code |-> a.return_code]
  BY DEF Bytes
<1>2. IsConnack(a, f)
  BY <1>1 DEF BrokerFrame, IsConnack, Acks
<1> HIDE DEF f
<1>3. GoodFrame(a, f) /\ Size(f) = 4 /\ f[4].val = a.return_code
  BY <1>1, <1>2, ConnackIsGood
<1>4. FixedSize(a.type) = Size(f)
  BY <1>1, <1>3 DEF FixedSize, Acks
<1>5. GetArgs(f, a.type) = a
  <2>1. GetArgs(f, a.type) = [type |-> a.type, return_code |-> f[4].val]
    BY <1>1 DEF GetArgs, Acks
  <2>2. QED
    BY <1>1, <1>3, <2>1
<1>6. QED
  BY <1>3, <1>4, <1>5, FixedIsRead DEF f

LEMMA PingrespIsRead ==
    ASSUME NEW a \in [type : {"PINGRESP"}], NEW n \in Nat
    PROVE  /\ GoodFrame(a, BrokerFrame(a))
           /\ GoodRead(a, BrokerFrame(a), RecvFixed(BrokerFrame(a), a.type, n))
<1> DEFINE f == BrokerFrame(a)
<1>1. a.type = "PINGRESP" /\ a = [type |-> a.type]
  OBVIOUS
<1>2. f = <<FirstOctet(0, 0, a.type), Octet(0)>>
  BY <1>1 DEF BrokerFrame, Acks
<1> HIDE DEF f
<1>3. GoodFrame(a, f) /\ Size(f) = 2
  <2>1. 0 \in Bytes /\ a.type \in {"PINGREQ", "DISCONNECT", "PINGRESP"}
    BY <1>1 DEF Bytes
  <2>2. QED
    BY <1>1, <1>2, <2>1, BareIsGood
<1>4. FixedSize(a.type) = Size(f)
  BY <1>1, <1>3 DEF FixedSize, Acks
<1>5. GetArgs(f, a.type) = a
  <2>1. GetArgs(f, a.type) = [type |-> a.type]
    BY <1>1 DEF GetArgs, Acks
  <2>2. QED
    BY <1>1, <2>1
<1>6. QED
  BY <1>3, <1>4, <1>5, FixedIsRead DEF f

(* Whatever the broker sends, wherever TCP cuts it. *)
LEMMA BrokerIsRead ==
    ASSUME NEW a \in BrokerArgs, NEW n \in Nat \ {0}, NEW raw \in Bytes
    PROVE  /\ GoodFrame(a, BrokerFrame(a))
           /\ GoodRead(a, BrokerFrame(a),
                       IF a.type = "PUBLISH"
                       THEN RecvPublish(BrokerFrame(a), n, raw)
                       ELSE RecvFixed(BrokerFrame(a), a.type, n))
<1>1. CASE a \in PublishArgs
  <2>1. a.type = "PUBLISH"
    BY <1>1 DEF PublishArgs
  <2>2. BrokerFrame(a) = PublishFrame(0, a)
    BY <2>1 DEF BrokerFrame, Acks
  <2>3. 0 \in Bytes
    BY DEF Bytes
  <2>4. GoodFrame(a, PublishFrame(0, a))
    BY <1>1, <2>3, PublishIsGood
  <2>5. GoodRead(a, PublishFrame(0, a),
                 RecvPublish(PublishFrame(0, a), n, raw))
    BY <1>1, <2>3, PublishIsRead
  <2>6. QED
    BY <2>1, <2>2, <2>4, <2>5
<1>2. CASE a \in AckArgs(Acks \cup {"UNSUBACK"})
  <2>1. a.type # "PUBLISH"
    BY <1>2 DEF AckArgs, Acks
  <2>2. QED
    BY <1>2, <2>1, AckIsRead
<1>3. CASE a \in [type : {"SUBACK"}, packet_id : Ids,
                  return_code : {0, 1, 2, 128}]
  <2>1. a.type # "PUBLISH"
    BY <1>3
  <2>2. QED
    BY <1>3, <2>1, SubackIsRead
<1>4. CASE a \in [type : {"CONNACK"}, return_code : 0..5]
  <2>1. a.type # "PUBLISH"
    BY <1>4
  <2>2. QED
    BY <1>4, <2>1, ConnackIsRead
<1>5. CASE a \in [type : {"PINGRESP"}]
  <2>1. a.type # "PUBLISH"
    BY <1>5
  <2>2. QED
    BY <1>5, <2>1, PingrespIsRead
<1>6. QED
  BY <1>1, <1>2, <1>3, <1>4, <1>5 DEF BrokerArgs

-----------------------------------------------------------------------------
(* Either nothing has been put, or the frame is good for what it says and  *)
(* so is its header or, if it was received, the reading.                   *)
Inv ==
    \/ args = Nothing /\ frame = <<>> /\ got = Nothing
    \/ /\ GoodFrame(args, frame)
       /\ \/ got = Nothing /\ HeaderSays(args, frame)
          \/ GoodRead(args, frame, got)

(* A step that puts a good frame *)
LEMMA PutGood ==
    ASSUME Inv, NEW a, NEW f, GoodFrame(a, f), HeaderSays(a, f), Put(a, f)
    PROVE  Inv'
<1>1. args = Nothing /\ args' = a /\ frame' = f /\ got' = got
  BY DEF Put
<1>2. ~GoodFrame(Nothing, frame)
  BY DEF GoodFrame, Nothing, PacketType
<1>3. got = Nothing
  BY <1>1, <1>2 DEF Inv
<1>4. GoodFrame(a, f) /\ HeaderSays(a, f)
  OBVIOUS
<1>5. GoodFrame(a, f)' /\ HeaderSays(a, f)' => Inv'
  BY <1>1, <1>3 DEF Inv
<1>6. QED
  BY <1>1, <1>3, <1>4 DEF Inv

(* Taking the password back leaves arguments of CONNECT. *)
LEMMA FinalIsConnect ==
    ASSUME NEW a \in ConnectArgs
    PROVE  FinalArgs(a) \in ConnectArgs
BY DEF ConnectArgs, FinalArgs, Bit

LEMMA InitInv == Init => Inv
BY DEF Init, Inv

(* Nothing is put or received but once. *)
LEMMA NextInv ==
    ASSUME Inv, [Next]_vars
    PROVE  Inv'
<1>0. \A r \in Raw : r \in Bytes
  BY Bounds
<1>1. CASE PutConnect
  <2>1. PICK a \in ConnectArgs, raw \in Raw :
           Put(FinalArgs(a), ConnectFrame(raw, FinalArgs(a)))
    BY <1>1 DEF PutConnect
  <2>2. /\ GoodFrame(FinalArgs(a), ConnectFrame(raw, FinalArgs(a)))
        /\ HeaderSays(FinalArgs(a), ConnectFrame(raw, FinalArgs(a)))
    BY <1>0, <2>1, FinalIsConnect, ConnectIsGood
  <2>3. QED
    BY <2>1, <2>2, PutGood
<1>2. CASE PutPublish
  <2>1. PICK a \in PublishArgs, raw \in Raw : Put(a, PublishFrame(raw, a))
    BY <1>2 DEF PutPublish
  <2>2. /\ GoodFrame(a, PublishFrame(raw, a))
        /\ HeaderSays(a, PublishFrame(raw, a))
    BY <1>0, <2>1, PublishIsGood
  <2>3. QED
    BY <2>1, <2>2, PutGood
<1>3. CASE PutAck
  <2>1. PICK a \in AckArgs(Acks), raw \in Raw : Put(a, AckFrame(raw, a))
    BY <1>3 DEF PutAck
  <2>2. a \in AckArgs(Acks \cup {"UNSUBACK"}) /\ 2 = HeaderFlags(a)
    BY <2>1 DEF AckArgs, Acks, HeaderFlags
  <2>3. IsAck(raw, 2, a, AckFrame(raw, a))
    BY DEF IsAck, AckFrame
  <2>4. raw \in Bytes /\ 2 \in {0, 2}
    BY <1>0, <2>1
  <2>5. GoodFrame(a, AckFrame(raw, a)) /\ HeaderSays(a, AckFrame(raw, a))
    BY <2>2, <2>3, <2>4, AckIsGood
  <2>6. QED
    BY <2>1, <2>5, PutGood
<1>4. CASE PutSubscribe
  <2>1. PICK a \in TopicArgs("SUBSCRIBE"), raw \in Raw :
           Put(a, SubscribeFrame(raw, a))
    BY <1>4 DEF PutSubscribe
  <2>2. /\ GoodFrame(a, SubscribeFrame(raw, a))
        /\ HeaderSays(a, SubscribeFrame(raw, a))
    BY <1>0, <2>1, SubscribeIsGood
  <2>3. QED
    BY <2>1, <2>2, PutGood
<1>5. CASE PutUnsubscribe
  <2>1. PICK a \in TopicArgs("UNSUBSCRIBE"), raw \in Raw :
           Put(a, UnsubscribeFrame(raw, a))
    BY <1>5 DEF PutUnsubscribe
  <2>2. /\ GoodFrame(a, UnsubscribeFrame(raw, a))
        /\ HeaderSays(a, UnsubscribeFrame(raw, a))
    BY <1>0, <2>1, UnsubscribeIsGood
  <2>3. QED
    BY <2>1, <2>2, PutGood
<1>6. CASE PutBare
  <2>1. PICK t \in {"PINGREQ", "DISCONNECT"}, raw \in Raw :
           Put([type |-> t], BareFrame(raw, [type |-> t]))
    BY <1>6 DEF PutBare
  <2> DEFINE a == [type |-> t]
  <2>2. /\ a = [type |-> a.type]
        /\ a.type \in {"PINGREQ", "DISCONNECT", "PINGRESP"}
    BY <2>1
  <2>3. BareFrame(raw, a) = <<FirstOctet(raw, 0, a.type), Octet(0)>>
    BY DEF BareFrame
  <2> HIDE DEF a
  <2>4. raw \in Bytes
    BY <1>0, <2>1
  <2>5. GoodFrame(a, BareFrame(raw, a)) /\ HeaderSays(a, BareFrame(raw, a))
    BY <2>2, <2>3, <2>4, BareIsGood
  <2>6. Put(a, BareFrame(raw, a))
    BY <2>1 DEF a
  <2>7. QED
    BY <2>5, <2>6, PutGood
<1>7. CASE Recv
  <2>1. PICK a \in BrokerArgs, raw \in Raw :
           \E n \in Lengths(Size(BrokerFrame(a))) :
             /\ args' = a /\ frame' = BrokerFrame(a)
             /\ got' = IF a.type = "PUBLISH"
                       THEN RecvPublish(BrokerFrame(a), n, raw)
                       ELSE RecvFixed(BrokerFrame(a), a.type, n)
    BY <1>7 DEF Recv
  <2>2. PICK n \in Lengths(Size(BrokerFrame(a))) :
          /\ args' = a /\ frame' = BrokerFrame(a)
          /\ got' = IF a.type = "PUBLISH"
                    THEN RecvPublish(BrokerFrame(a), n, raw)
                    ELSE RecvFixed(BrokerFrame(a), a.type, n)
    BY <2>1
  <2>3. n \in Nat \ {0}
    <3>1. n \in Shorts \ {0}
      BY <2>2, Zenon DEF Lengths
    <3>2. QED
      BY <3>1, SMT DEF Shorts
  <2>4. raw \in Bytes
    BY <1>0, <2>1
  <2>5. /\ GoodFrame(a, BrokerFrame(a))
        /\ GoodRead(a, BrokerFrame(a),
                    IF a.type = "PUBLISH"
                    THEN RecvPublish(BrokerFrame(a), n, raw)
                    ELSE RecvFixed(BrokerFrame(a), a.type, n))
    BY <2>1, <2>3, <2>4, BrokerIsRead
  <2>6. QED
    BY <2>2, <2>5 DEF Inv
<1>8. CASE UNCHANGED vars
  BY <1>8 DEF vars, Inv
<1>9. QED
  BY <1>1, <1>2, <1>3, <1>4, <1>5, <1>6, <1>7, <1>8 DEF Next

LEMMA InvHolds == Spec => []Inv
BY InitInv, NextInv, PTL DEF Spec

(* What the invariant says, property by property. *)
LEMMA InvSays ==
    ASSUME Inv
    PROVE  /\ TypeOK /\ LengthIsBody /\ FlagsSayArgs
           /\ ReadIsSent /\ OnlyWholeFrames /\ SizeIsFrame
<1>1. CASE args = Nothing /\ frame = <<>> /\ got = Nothing
  <2>1. got.type = "none" /\ args.type = "none"
    BY <1>1 DEF Nothing
  <2>2. DOMAIN frame = {}
    BY <1>1
  <2>3. TypeOK
    BY <2>1, <2>2 DEF TypeOK
  <2>4. LengthIsBody
    BY <1>1 DEF LengthIsBody
  <2>5. FlagsSayArgs
    BY <1>1 DEF FlagsSayArgs
  <2>6. ReadIsSent /\ OnlyWholeFrames /\ SizeIsFrame
    BY <1>1, <2>1 DEF ReadIsSent, OnlyWholeFrames, SizeIsFrame
  <2>7. QED
    BY <2>3, <2>4, <2>5, <2>6
<1>2. CASE /\ GoodFrame(args, frame)
           /\ \/ got = Nothing /\ HeaderSays(args, frame)
              \/ GoodRead(args, frame, got)
  <2>1. /\ args.type \in DOMAIN PacketType
        /\ \A i \in DOMAIN frame :
             frame[i].len \in Nat /\ frame[i].val \in Bytes
    BY <1>2 DEF GoodFrame
  <2>2. LengthIsBody
    BY <1>2 DEF LengthIsBody, GoodFrame
  <2>3. FlagsSayArgs
    BY <1>2 DEF FlagsSayArgs, GoodRead
  <2>4. CASE got = Nothing
    <3>1. got.type = "none"
      BY <2>4 DEF Nothing
    <3>2. QED
      BY <2>1, <2>2, <2>3, <2>4, <3>1
      DEF TypeOK, ReadIsSent, OnlyWholeFrames, SizeIsFrame
  <2>5. CASE GoodRead(args, frame, got)
    <3>1. TypeOK
      BY <2>1, <2>5 DEF TypeOK, GoodRead
    <3>2. ReadIsSent /\ OnlyWholeFrames /\ SizeIsFrame
      BY <2>5 DEF GoodRead, ReadIsSent, OnlyWholeFrames, SizeIsFrame
    <3>3. QED
      BY <2>2, <2>3, <3>1, <3>2
  <2>6. QED
    BY <1>2, <2>4, <2>5
<1>3. QED
  BY <1>1, <1>2 DEF Inv

(* Pieces have lengths, and values that an octet can hold                  *)
(* (MQTT_BUFFER_PUT_BYTE and its fellows).                                 *)
THEOREM TypeOKHolds == Spec => []TypeOK
BY InvHolds, InvSays, PTL

(* mqtt_frame.c:439-457, 517-519, 672-674, 707-708: the remaining length   *)
(* of every frame that is put is that of what follows it, for every length *)
(* of its names and payload.                                               *)
THEOREM LengthIsBodyHolds == Spec => []LengthIsBody
BY InvHolds, InvSays, PTL

(* The type and the flags of every frame the client puts, acknowledgements *)
(* among them, are those of its arguments whatever the buffer held before. *)
THEOREM FlagsSayArgsHolds == Spec => []FlagsSayArgs
BY InvHolds, InvSays, PTL

(* What mqtt_frame_recv reads is what the broker put, for every length of  *)
(* the topic and the payload.                                              *)
THEOREM ReadIsSentHolds == Spec => []ReadIsSent
BY InvHolds, InvSays, PTL

(* A frame is read if and only if it has come as a whole, wherever TCP     *)
(* cuts it and whatever lies behind the cut.                               *)
THEOREM OnlyWholeFramesHolds == Spec => []OnlyWholeFrames
BY InvHolds, InvSays, PTL

(* mqtt_frame.c:320-340: the size that is given back is the frame's, with  *)
(* as many length octets as the sender used.                               *)
THEOREM SizeIsFrameHolds == Spec => []SizeIsFrame
BY InvHolds, InvSays, PTL
=============================================================================
