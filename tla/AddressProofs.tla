--------------------------- MODULE AddressProofs ----------------------------
(***************************************************************************)
(* What the operators of Addresses compute, for every width: a number and  *)
(* its digits, the text of a key and the key of a text.  WalletProofs uses *)
(* these facts.                                                            *)
(***************************************************************************)
EXTENDS Addresses, SequenceLemmas

-----------------------------------------------------------------------------
(***************************************************************************)
(* Division.                                                               *)
(***************************************************************************)
LEMMA Monotone ==
    ASSUME NEW a \in Nat, NEW b \in Nat, NEW m \in Nat, a <= b
    PROVE  a * m <= b * m
<1>1. b - a \in Nat
  OBVIOUS
<1>2. (b - a) * m \in Nat
  BY <1>1
<1>3. b * m = a * m + (b - a) * m
  OBVIOUS
<1>4. a * m \in Nat
  OBVIOUS
<1> QED BY <1>2, <1>3, <1>4

\* A number is its quotient and its remainder, and no other two.
LEMMA Quotient ==
    ASSUME NEW x \in Nat, NEW m \in Nat \ {0}
    PROVE  /\ x \div m \in Nat /\ x % m \in 0..(m - 1)
           /\ x = (x \div m) * m + (x % m)
OBVIOUS

LEMMA QuotientUnique ==
    ASSUME NEW m \in Nat \ {0}, NEW q \in Nat, NEW r \in 0..(m - 1)
    PROVE  /\ (q * m + r) \div m = q
           /\ (q * m + r) % m = r
<1> DEFINE x == q * m + r
           p == x \div m
           s == x % m
<1>1. x \in Nat /\ q * m \in Nat
  OBVIOUS
<1>2. p \in Nat /\ s \in 0..(m - 1) /\ x = p * m + s
  <2> HIDE DEF x
  <2> QED BY <1>1, Quotient
<1> HIDE DEF p, s
<1>3. ~(p + 1 <= q)
  <2> SUFFICES ASSUME p + 1 <= q PROVE FALSE
    OBVIOUS
  <2>1. (p + 1) * m <= q * m
    BY <1>2, Monotone
  <2>2. (p + 1) * m = p * m + m
    BY <1>2
  <2>3. p * m \in Nat
    BY <1>2
  <2> QED BY <1>1, <1>2, <2>1, <2>2, <2>3
<1>4. ~(q + 1 <= p)
  <2> SUFFICES ASSUME q + 1 <= p PROVE FALSE
    OBVIOUS
  <2>1. (q + 1) * m <= p * m
    BY <1>2, Monotone
  <2>2. (q + 1) * m = q * m + m
    OBVIOUS
  <2>3. p * m \in Nat
    BY <1>2
  <2> QED BY <1>1, <1>2, <2>1, <2>2, <2>3
<1>5. p = q
  BY <1>2, <1>3, <1>4
<1>6. s = r
  BY <1>1, <1>2, <1>5
<1> QED BY <1>5, <1>6 DEF p, s

\* Dividing twice, and what a remainder by a product keeps.
DividesTwice(x, m, n, big) ==
    /\ big \in Nat \ {0}
    /\ x \div big = (x \div m) \div n
    /\ (x % big) \div m = (x \div m) % n
    /\ (x % big) % m = x % m

LEMMA QuotientOfQuotient ==
    ASSUME NEW x \in Nat, NEW m \in Nat \ {0}, NEW n \in Nat \ {0}, NEW big, big = m * n
    PROVE  DividesTwice(x, m, n, big)
<1> DEFINE q == x \div m
           r == x % m
           h == q \div n
           l == q % n
<1>1. q \in Nat /\ r \in 0..(m - 1) /\ x = q * m + r
  BY Quotient
<1> HIDE DEF q, r
<1>2. h \in Nat /\ l \in 0..(n - 1) /\ q = h * n + l
  BY <1>1, Quotient
<1> HIDE DEF h, l
<1>3. m * n \in Nat \ {0}
  OBVIOUS
<1>4. l * m + r \in 0..(m * n - 1)
  <2>1. (l + 1) * m <= n * m
    BY <1>2, Monotone
  <2>2. (l + 1) * m = l * m + m /\ n * m = m * n /\ l * m \in Nat
    BY <1>2
  <2> QED BY <1>1, <1>3, <2>1, <2>2
<1>5. x = h * (m * n) + (l * m + r)
  <2>1. q * m = h * (m * n) + l * m
    BY <1>2
  <2> QED BY <1>1, <1>2, <1>3, <2>1
<1> DEFINE low == l * m + r
<1>6. x \div big = h /\ x % big = low
  <2>1. big \in Nat \ {0} /\ low \in 0..(big - 1) /\ x = h * big + low
    BY <1>3, <1>4, <1>5
  <2> HIDE DEF low
  <2> QED BY <1>2, <2>1, QuotientUnique
<1>7. low \div m = l /\ low % m = r
  BY <1>1, <1>2, QuotientUnique
<1> HIDE DEF low
<1> QED BY <1>3, <1>6, <1>7 DEF q, r, h, l, DividesTwice

-----------------------------------------------------------------------------
(***************************************************************************)
(* Powers of two.                                                          *)
(***************************************************************************)
LEMMA Widths ==
    CharBits \in Nat \ {0} /\ AddressBits \in Nat
BY WidthAssumption DEF AddressBits

\* They are positive.
LEMMA Powers ==
    ASSUME NEW n \in Nat, n <= AddressBits
    PROVE  2^n \in Nat \ {0}
<1> DEFINE S == {k \in Nat : k <= AddressBits => 2^k \in Nat \ {0}}
<1>0. AddressBits \in Nat
  BY Widths
<1>1. 0 \in S
  BY PowerAssumption
<1>2. ASSUME NEW k \in Nat, k \in S PROVE k + 1 \in S
  <2> SUFFICES ASSUME k + 1 <= AddressBits PROVE 2^(k + 1) \in Nat \ {0}
    OBVIOUS
  <2>1. k \in 0..AddressBits /\ 2^k \in Nat \ {0}
    BY <1>0, <1>2
  <2>2. 2^(k + 1) = 2 * 2^k
    BY <2>1, PowerAssumption
  <2> DEFINE p == 2^k
  <2>3. p \in Nat \ {0} /\ 2^(k + 1) = 2 * p
    BY <2>1, <2>2
  <2> HIDE DEF p
  <2> QED BY <2>3
<1>3. Nat \subseteq S
  <2> HIDE DEF S
  <2> QED BY <1>1, <1>2, Induction
<1> QED BY <1>3

\* The power of a sum is the product of the powers.
LEMMA PowerOfSum ==
    ASSUME NEW m \in Nat, NEW n \in Nat, m + n <= AddressBits
    PROVE  2^(m + n) = 2^m * 2^n
<1> DEFINE S == {k \in Nat : m + k <= AddressBits => 2^(m + k) = 2^m * 2^k}
<1>0. AddressBits \in Nat
  BY Widths
<1>1. 0 \in S
  <2>1. m + 0 = m /\ 2^0 = 1 /\ 2^m \in Nat
    BY <1>0, Powers, PowerAssumption
  <2> DEFINE p == 2^m
  <2>2. p \in Nat /\ 2^(m + 0) = p /\ 2^0 = 1
    BY <2>1
  <2>3. 2^(m + 0) = p * 2^0
    <3> HIDE DEF p
    <3> QED BY <2>2
  <2> QED BY <2>3
<1>2. ASSUME NEW k \in Nat, k \in S PROVE k + 1 \in S
  <2> SUFFICES ASSUME m + (k + 1) <= AddressBits PROVE 2^(m + (k + 1)) = 2^m * 2^(k + 1)
    OBVIOUS
  <2>1. m + k \in 0..AddressBits /\ k \in 0..AddressBits /\ m + (k + 1) = (m + k) + 1
    BY <1>0
  <2>2. 2^(m + k) = 2^m * 2^k
    BY <1>2, <2>1
  <2>3. 2^((m + k) + 1) = 2 * 2^(m + k) /\ 2^(k + 1) = 2 * 2^k
    BY <2>1, PowerAssumption
  <2>4. 2^m \in Nat /\ 2^k \in Nat
    BY <1>0, <2>1, Powers
  <2> DEFINE p == 2^m
             q == 2^k
             t == 2^(m + (k + 1))
             u == 2^(k + 1)
  <2>5. t = 2 * (p * q) /\ u = 2 * q /\ p \in Nat /\ q \in Nat
    BY <2>1, <2>2, <2>3, <2>4
  <2> HIDE DEF p, q, t, u
  <2>6. t = p * u
    BY <2>5
  <2> QED BY <2>6 DEF p, q, t, u
<1>3. Nat \subseteq S
  <2> HIDE DEF S
  <2> QED BY <1>1, <1>2, Induction
<1> QED BY <1>3

-----------------------------------------------------------------------------
(***************************************************************************)
(* Digits.                                                                 *)
(***************************************************************************)
Digit == 0..(2^CharBits - 1)

\* The sum that is multiplied and added to, character by character.
Reads(value, text) ==
    \A k \in Nat : k + 1 \in DOMAIN text => value[k + 1] = value[k] * 2^CharBits + text[k + 1]

LEMMA DecodeSteps ==
    ASSUME NEW n \in Nat, NEW text \in [1..n -> Digit], 2^CharBits \in Nat
    PROVE  \E value \in [0..n -> Nat] :
              value[0] = 0 /\ Reads(value, text) /\ base32_decode(text) = value[n]
<1> DEFINE base == 2^CharBits
           Folds(f, k) ==
             f = [s \in SUBSET (1..k) |->
                     IF s = {} THEN 0 ELSE f[s \ {Max(s)}] * base + text[Max(s)]]
           Exists(k) == \E f : Folds(f, k)
           S == {k \in Nat : k <= n => Exists(k)}
<1>0. base \in Nat
  OBVIOUS
<1>1. 0 \in S
  <2> DEFINE f == [s \in SUBSET (1..0) |-> 0]
  <2>1. Folds(f, 0)
    OBVIOUS
  <2>2. Exists(0)
    BY <2>1
  <2> QED BY <2>2
<1>2. ASSUME NEW k \in Nat, k \in S PROVE k + 1 \in S
  <2>1. ASSUME k + 1 <= n PROVE Exists(k + 1)
    <3>1. Exists(k)
      <4>1. k <= n
        BY <2>1
      <4> HIDE DEF Exists
      <4> QED BY <1>2, <4>1
    <3>2. PICK f : Folds(f, k)
      BY <3>1
    <3> DEFINE g == [s \in SUBSET (1..(k + 1)) |->
                        IF k + 1 \in s THEN f[s \ {k + 1}] * base + text[k + 1]
                        ELSE f[s]]
    <3>3. ASSUME NEW s \in SUBSET (1..(k + 1))
          PROVE  g[s] = IF s = {} THEN 0 ELSE g[s \ {Max(s)}] * base + text[Max(s)]
      <4> HIDE DEF base
      <4>1. CASE k + 1 \in s
        <5>1. Max(s) = k + 1
          <6>1. \A y \in s : k + 1 >= y /\ y \in Nat
            OBVIOUS
          <6>2. \A x \in s : (\A y \in s : x >= y) => x = k + 1
            BY <4>1, <6>1
          <6> QED BY <4>1, <6>1, <6>2 DEF Max
        <5>2. s \ {k + 1} \in SUBSET (1..(k + 1)) /\ k + 1 \notin s \ {k + 1}
          OBVIOUS
        <5> QED BY <4>1, <5>1, <5>2
      <4>2. CASE k + 1 \notin s
        <5>1. s \in SUBSET (1..k)
          BY <4>2
        <5>2. s \ {Max(s)} \in SUBSET (1..(k + 1)) /\ k + 1 \notin s \ {Max(s)}
          BY <4>2
        <5>3. f[s] = IF s = {} THEN 0 ELSE f[s \ {Max(s)}] * base + text[Max(s)]
          BY <3>2, <5>1
        <5> QED BY <4>2, <5>2, <5>3
      <4> QED BY <4>1, <4>2
    <3>4. Folds(g, k + 1)
      BY <3>3
    <3> HIDE DEF g, Folds
    <3> QED BY <3>4
  <2> HIDE DEF Exists
  <2> QED BY <2>1
<1>3. Exists(n)
  <2> HIDE DEF S, Exists
  <2>1. Nat \subseteq S
    BY <1>1, <1>2, Induction
  <2>2. n \in S
    BY <2>1
  <2> QED BY <2>2 DEF S
<1> DEFINE iter == CHOOSE f : Folds(f, n)
<1>4. Folds(iter, n)
  BY <1>3
<1>5. base32_decode(text) = iter[1..n]
  <2>1. ToSet(text) \subseteq Digit
    BY DEF ToSet
  <2>2. base32_decode(text) = FoldLeft(LAMBDA bits, char : bits * 2^CharBits + char, 0, text)
    BY <2>1 DEF base32_decode, Digit
  <2>3. FoldLeft(LAMBDA bits, char : bits * 2^CharBits + char, 0, text) = iter[1..n]
    BY DEF FoldLeft, MapThenFoldSet
  <2> QED BY <2>2, <2>3
<1> HIDE DEF iter
<1> DEFINE value == [k \in 0..n |-> iter[1..k]]
<1>6. value[0] = 0
  <2>1. iter[{}] = 0 /\ 1..0 = {}
    BY <1>4
  <2> QED BY <2>1
<1>7. ASSUME NEW k \in Nat, k + 1 \in 1..n
      PROVE  value[k + 1] = value[k] * base + text[k + 1]
  <2>1. 1..(k + 1) \in SUBSET (1..n) /\ 1..(k + 1) # {} /\ k + 1 \in 1..n
    BY <1>7
  <2>2. Max(1..(k + 1)) = k + 1
    <3>1. \A y \in 1..(k + 1) : k + 1 >= y
      OBVIOUS
    <3>2. \A x \in 1..(k + 1) : (\A y \in 1..(k + 1) : x >= y) => x = k + 1
      OBVIOUS
    <3>3. k + 1 \in 1..(k + 1)
      OBVIOUS
    <3> QED BY <3>1, <3>2, <3>3 DEF Max
  <2>3. iter[1..(k + 1)] = iter[(1..(k + 1)) \ {k + 1}] * base + text[k + 1]
    <3> HIDE DEF base
    <3> QED BY <1>4, <2>1, <2>2
  <2>4. (1..(k + 1)) \ {k + 1} = 1..k
    OBVIOUS
  <2>5. value[k + 1] = iter[1..(k + 1)] /\ value[k] = iter[1..k]
    BY <1>7
  <2> HIDE DEF base, value
  <2> QED BY <2>3, <2>4, <2>5
<1> DEFINE N == {k \in Nat : k <= n => value[k] \in Nat}
<1>8. 0 \in N
  BY <1>6
<1>9. ASSUME NEW k \in Nat, k \in N PROVE k + 1 \in N
  <2> HIDE DEF value
  <2>1. ASSUME k + 1 <= n PROVE value[k + 1] \in Nat
    <3> DEFINE below == value[k]
               char == text[k + 1]
    <3>1. below \in Nat /\ char \in Nat
      BY <1>0, <1>9, <2>1 DEF Digit
    <3>2. value[k + 1] = below * base + char
      BY <1>7, <2>1
    <3> HIDE DEF below, char, base
    <3>3. below * base \in Nat
      BY <1>0, <3>1
    <3>4. below * base + char \in Nat
      BY <3>1, <3>3
    <3> QED BY <3>2, <3>4
  <2> QED BY <2>1
<1>10. \A k \in 0..n : value[k] \in Nat
  <2> HIDE DEF value
  <2>1. Nat \subseteq N
    <3> HIDE DEF N
    <3> QED BY <1>8, <1>9, Induction
  <2> QED BY <2>1
<1>11. value \in [0..n -> Nat] /\ value[n] = iter[1..n]
  BY <1>10
<1>12. Reads(value, text)
  <2> HIDE DEF value
  <2> QED BY <1>7 DEF Reads
<1> HIDE DEF value
<1> QED BY <1>5, <1>6, <1>11, <1>12

\* What a digit at a place is worth.
LEMMA Places ==
    ASSUME NEW k \in Nat, CharBits * (k + 1) <= AddressBits
    PROVE  /\ 2^CharBits \in Nat \ {0}
           /\ 2^(CharBits * k) \in Nat \ {0}
           /\ 2^(CharBits * (k + 1)) \in Nat \ {0}
           /\ 2^(CharBits * (k + 1)) = 2^(CharBits * k) * 2^CharBits
<1>1. CharBits \in Nat \ {0} /\ AddressBits \in Nat
  BY Widths
<1> DEFINE low == CharBits * k
           high == CharBits * (k + 1)
<1>2. low \in Nat /\ high = low + CharBits
  BY <1>1
<1>3. high <= AddressBits
  OBVIOUS
<1> HIDE DEF low, high
<1>4. high \in Nat /\ low <= AddressBits /\ CharBits <= AddressBits
  BY <1>1, <1>2, <1>3
<1>5. 2^high = 2^low * 2^CharBits
  BY <1>1, <1>2, <1>3, PowerOfSum
<1>6. 2^low \in Nat \ {0} /\ 2^high \in Nat \ {0} /\ 2^CharBits \in Nat \ {0}
  BY <1>1, <1>2, <1>3, <1>4, Powers
<1> QED BY <1>5, <1>6 DEF low, high

\* A digit appended, and the digits before it.
Appended(b, p, high, x, d, y) ==
    /\ y \in Nat
    /\ y % b = d
    /\ y \div high = x \div p
    /\ x \in 0..(p - 1) => y \in 0..(high - 1)

LEMMA DigitAppended ==
    ASSUME NEW b \in Nat \ {0}, NEW p \in Nat \ {0}, NEW high, high = p * b,
           NEW x \in Nat, NEW d \in 0..(b - 1), NEW y, y = x * b + d
    PROVE  Appended(b, p, high, x, d, y)
<1>1. y \in Nat
  OBVIOUS
<1>2. y \div b = x /\ y % b = d
  BY QuotientUnique
<1>3. y \div high = (y \div b) \div p
  <2>1. high = b * p
    OBVIOUS
  <2>2. DividesTwice(y, b, p, high)
    BY <1>1, <2>1, QuotientOfQuotient
  <2> QED BY <2>2 DEF DividesTwice
<1>5. ASSUME x \in 0..(p - 1) PROVE y \in 0..(high - 1)
  <2>1. (x + 1) * b <= p * b
    BY <1>5, Monotone
  <2>2. (x + 1) * b = x * b + b /\ x * b \in Nat /\ p * b \in Nat
    OBVIOUS
  <2> QED BY <2>1, <2>2
<1> QED BY <1>1, <1>2, <1>3, <1>5 DEF Appended

\* A text is what is printed of its number.
LEMMA DigitsOfText ==
    ASSUME NEW n \in Nat \ {0}, NEW text \in [1..n -> Digit], CharBits * n <= AddressBits
    PROVE  /\ base32_decode(text) \in 0..(2^(CharBits * n) - 1)
           /\ base32_encode(base32_decode(text), n) = text
<1>0. CharBits \in Nat \ {0} /\ AddressBits \in Nat
  BY Widths
<1> DEFINE base == 2^CharBits
           place(k) == 2^(CharBits * k)
<1>1. \A k \in Nat : k <= n => CharBits * k <= AddressBits
  <2> SUFFICES ASSUME NEW k \in Nat, k <= n PROVE CharBits * k <= AddressBits
    OBVIOUS
  <2>1. k * CharBits <= n * CharBits
    BY <1>0, Monotone
  <2>2. k * CharBits = CharBits * k /\ n * CharBits = CharBits * n
       /\ k * CharBits \in Nat /\ n * CharBits \in Nat
    BY <1>0
  <2> QED BY <1>0, <2>1, <2>2
<1>2. \A k \in Nat : k + 1 <= n =>
          /\ base \in Nat \ {0} /\ place(k) \in Nat \ {0} /\ place(k + 1) \in Nat \ {0}
          /\ place(k + 1) = place(k) * base
  BY <1>1, Places
<1>3. base \in Nat \ {0}
  BY <1>2
<1>4. place(0) = 1
  <2>1. CharBits * 0 = 0
    BY <1>0
  <2> QED BY <2>1, PowerAssumption
<1>5. PICK value \in [0..n -> Nat] :
         value[0] = 0 /\ Reads(value, text) /\ base32_decode(text) = value[n]
  BY <1>3, DecodeSteps
<1> DEFINE Shown(k) == /\ value[k] \in 0..(place(k) - 1)
                       /\ \A i \in 1..k : (value[k] \div place(k - i)) % base = text[i]
           S == {k \in Nat : k <= n => Shown(k)}
<1>6. 0 \in S
  BY <1>4, <1>5
<1>7. ASSUME NEW k \in Nat, k \in S PROVE k + 1 \in S
  <2> HIDE DEF Shown
  <2> SUFFICES ASSUME k + 1 <= n PROVE Shown(k + 1)
    OBVIOUS
  <2> USE DEF Shown
  <2> DEFINE x == value[k]
             d == text[k + 1]
  <2> HIDE DEF place, base
  <2>1. x \in 0..(place(k) - 1) /\ \A i \in 1..k : (x \div place(k - i)) % base = text[i]
    BY <1>7
  <2>2. d \in 0..(base - 1) /\ x \in Nat
    BY <1>5 DEF Digit, base
  <2>3. value[k + 1] = x * base + d
    BY <1>5 DEF Reads, base
  <2>4. place(k) \in Nat \ {0} /\ place(k + 1) = place(k) * base
    BY <1>2
  <2>5. value[k + 1] \in 0..(place(k + 1) - 1)
    <3> HIDE DEF x, d
    <3>1. Appended(base, place(k), place(k + 1), x, d, value[k + 1])
      BY <1>3, <2>2, <2>3, <2>4, DigitAppended
    <3> QED BY <2>1, <3>1 DEF Appended
  <2>6. ASSUME NEW i \in 1..(k + 1)
        PROVE  (value[k + 1] \div place((k + 1) - i)) % base = text[i]
    <3>1. CASE i = k + 1
      <4>1. (k + 1) - i = 0 /\ value[k + 1] \in Nat /\ value[k + 1] \div 1 = value[k + 1]
        BY <1>5, <3>1
      <4>2. value[k + 1] % base = d
        <5> HIDE DEF x, d
        <5>1. Appended(base, place(k), place(k + 1), x, d, value[k + 1])
          BY <1>3, <2>2, <2>3, <2>4, DigitAppended
        <5> QED BY <5>1 DEF Appended
      <4> QED BY <1>4, <3>1, <4>1, <4>2
    <3>2. CASE i # k + 1
      <4> DEFINE j == k - i
      <4>1. i \in 1..k /\ j \in Nat /\ j + 1 <= n /\ (k + 1) - i = j + 1
        BY <3>2
      <4>2. place(j) \in Nat \ {0} /\ place(j + 1) = place(j) * base
        BY <1>2, <4>1
      <4>3. value[k + 1] \div place(j + 1) = x \div place(j)
        <5> HIDE DEF x, d, j
        <5>1. Appended(base, place(j), place(j + 1), x, d, value[k + 1])
          BY <1>3, <2>2, <2>3, <4>2, DigitAppended
        <5> QED BY <5>1 DEF Appended
      <4> QED BY <2>1, <4>1, <4>3
    <3> QED BY <3>1, <3>2
  <2> QED BY <2>5, <2>6
<1>8. Shown(n)
  <2>1. Nat \subseteq S
    <3> HIDE DEF S
    <3> QED BY <1>6, <1>7, Induction
  <2> HIDE DEF Shown
  <2> QED BY <2>1
<1>9. text = [i \in 1..n |-> (value[n] \div place(n - i)) % base]
  <2> HIDE DEF place, base
  <2> QED BY <1>8
<1> QED BY <1>5, <1>8, <1>9 DEF base32_encode

\* A number that has room is read back from its digits.
LEMMA NumberOfDigits ==
    ASSUME NEW n \in Nat \ {0}, NEW x \in 0..(2^(CharBits * n) - 1), CharBits * n <= AddressBits
    PROVE  /\ base32_encode(x, n) \in [1..n -> Digit]
           /\ base32_decode(base32_encode(x, n)) = x
<1>0. CharBits \in Nat \ {0} /\ AddressBits \in Nat
  BY Widths
<1> DEFINE base == 2^CharBits
           place(k) == 2^(CharBits * k)
           text == base32_encode(x, n)
<1>1. \A k \in Nat : k <= n => CharBits * k <= AddressBits
  <2> SUFFICES ASSUME NEW k \in Nat, k <= n PROVE CharBits * k <= AddressBits
    OBVIOUS
  <2>1. k * CharBits <= n * CharBits
    BY <1>0, Monotone
  <2>2. k * CharBits = CharBits * k /\ n * CharBits = CharBits * n
       /\ k * CharBits \in Nat /\ n * CharBits \in Nat
    BY <1>0
  <2> QED BY <1>0, <2>1, <2>2
<1>2. \A k \in Nat : k + 1 <= n =>
          /\ base \in Nat \ {0} /\ place(k) \in Nat \ {0} /\ place(k + 1) \in Nat \ {0}
          /\ place(k + 1) = place(k) * base
  BY <1>1, Places
<1>3. base \in Nat \ {0}
  BY <1>2
<1>4. place(0) = 1
  <2>1. CharBits * 0 = 0
    BY <1>0
  <2> QED BY <2>1, PowerAssumption
<1>5. \A k \in 0..n : place(k) \in Nat \ {0}
  <2> SUFFICES ASSUME NEW k \in 0..n PROVE place(k) \in Nat \ {0}
    OBVIOUS
  <2>1. CASE k = n
    <3> DEFINE m == k - 1
    <3>1. m \in Nat /\ m + 1 <= n /\ m + 1 = k
      BY <2>1
    <3> HIDE DEF place, base, m
    <3>2. place(m + 1) \in Nat \ {0}
      BY <1>2, <3>1
    <3> QED BY <3>1, <3>2
  <2>2. CASE k # n
    BY <1>2, <2>2
  <2> QED BY <2>1, <2>2
<1>6. x \in Nat /\ x \in 0..(place(n) - 1)
  OBVIOUS
<1>7. text = [i \in 1..n |-> (x \div place(n - i)) % base]
  BY DEF base32_encode
<1> HIDE DEF place, base
<1>8. text \in [1..n -> Digit]
  <2>1. ASSUME NEW i \in 1..n PROVE text[i] \in 0..(base - 1)
    <3> DEFINE p == place(n - i)
    <3>1. p \in Nat \ {0}
      BY <1>5
    <3>2. text[i] = (x \div p) % base
      BY <1>7
    <3> HIDE DEF p, text
    <3>3. x \div p \in Nat
      BY <1>6, <3>1, Quotient
    <3> DEFINE q == x \div p
    <3>4. q \in Nat /\ text[i] = q % base
      BY <3>2, <3>3
    <3> HIDE DEF q
    <3> QED BY <1>3, <3>4, Quotient
  <2> HIDE DEF text
  <2> QED BY <1>7, <2>1 DEF Digit, base
<1>9. PICK value \in [0..n -> Nat] :
         value[0] = 0 /\ Reads(value, text) /\ base32_decode(text) = value[n]
  <2> HIDE DEF text
  <2> QED BY <1>3, <1>8, DecodeSteps DEF base
<1> DEFINE S == {k \in Nat : k <= n => value[k] = x \div place(n - k)}
<1>10. 0 \in S
  <2>1. x \div place(n) = 0
    <3> DEFINE p == place(n)
    <3>1. p \in Nat \ {0} /\ x \in 0..(p - 1) /\ x = 0 * p + x
      BY <1>5, <1>6
    <3> HIDE DEF p
    <3>2. (0 * p + x) \div p = 0
      BY <3>1, QuotientUnique
    <3>3. 0 * p + x = x
      BY <3>1
    <3> QED BY <3>2, <3>3 DEF p
  <2> QED BY <1>9, <2>1
<1>11. ASSUME NEW k \in Nat, k \in S PROVE k + 1 \in S
  <2> SUFFICES ASSUME k + 1 <= n PROVE value[k + 1] = x \div place(n - (k + 1))
    OBVIOUS
  <2> DEFINE j == n - (k + 1)
             p == place(j)
             q == x \div p
  <2>1. j \in Nat /\ j + 1 <= n /\ j + 1 = n - k
    OBVIOUS
  <2>2. p \in Nat \ {0} /\ place(n - k) = p * base
    BY <1>2, <2>1
  <2>3. value[k] = x \div (p * base)
    BY <1>11, <2>2
  <2>4. text[k + 1] = q % base
    BY <1>7
  <2>5. value[k + 1] = value[k] * base + text[k + 1]
    <3>1. k + 1 \in DOMAIN text
      BY <1>7
    <3> HIDE DEF text
    <3> QED BY <1>9, <3>1 DEF Reads, base
  <2> HIDE DEF text, j, p
  <2>6. q \in Nat /\ x \div (p * base) = q \div base
    <3> DEFINE big == p * base
    <3>1. big = p * base
      OBVIOUS
    <3> HIDE DEF big
    <3>2. DividesTwice(x, p, base, big)
      BY <1>3, <1>6, <2>2, <3>1, QuotientOfQuotient
    <3>3. q \in Nat
      BY <1>6, <2>2, Quotient
    <3> QED BY <3>1, <3>2, <3>3 DEF DividesTwice
  <2> HIDE DEF q
  <2>7. q = (q \div base) * base + (q % base)
    BY <1>3, <2>6, Quotient
  <2>8. value[k + 1] = q
    BY <2>3, <2>4, <2>5, <2>6, <2>7
  <2> QED BY <2>8 DEF q, p, j
<1>12. value[n] = x
  <2>1. Nat \subseteq S
    <3> HIDE DEF S
    <3> QED BY <1>10, <1>11, Induction
  <2>2. value[n] = x \div place(n - n)
    BY <2>1
  <2>3. n - n = 0 /\ x \div 1 = x
    OBVIOUS
  <2> QED BY <1>4, <2>2, <2>3
<1> HIDE DEF text
<1> QED BY <1>8, <1>9, <1>12 DEF text

-----------------------------------------------------------------------------
(***************************************************************************)
(* How many characters and bits there are.                                 *)
(***************************************************************************)
\* The characters of a `nano_` address after its prefix.
KeyChars == NanoChars - PadChars
PadRest == (PadBytes * ByteBits) % CharBits
TextBits == KeyBits + ChecksumBits

LEMMA NanoWidths ==
    /\ KeyBits \in Nat \ {0} /\ ChecksumBits \in Nat /\ TextBits \in Nat \ {0}
    /\ NanoChars \in Nat /\ PadChars \in Nat /\ KeyChars \in Nat \ {0}
    /\ NanoChars = PadChars + KeyChars
    /\ PadRest \in Nat /\ FirstCharBits \in Nat \ {0} /\ CharBits = PadRest + FirstCharBits
    /\ CharBits * KeyChars = PadRest + TextBits
    /\ TextBits = CharBits * (KeyChars - 1) + FirstCharBits
    /\ CharBits * KeyChars <= AddressBits
<1>1. /\ ByteBits \in Nat \ {0} /\ CharBits \in Nat \ {0} /\ KeyBytes \in Nat \ {0}
      /\ PadBytes \in Nat /\ ChecksumBytes \in Nat
  BY WidthAssumption
<1> DEFINE pad == PadBytes * ByteBits
           all == (PadBytes + KeyBytes + ChecksumBytes) * ByteBits
<1>2. /\ KeyBits \in Nat \ {0} /\ ChecksumBits \in Nat /\ TextBits \in Nat \ {0}
      /\ pad \in Nat /\ all \in Nat /\ all = pad + TextBits
  BY <1>1 DEF KeyBits, ChecksumBits, TextBits
<1>3. all % CharBits = 0
  BY WidthAssumption
<1>4. all <= AddressBits
  <2>1. AddressBits = all + (1 + KeyBytes) * ByteBits /\ (1 + KeyBytes) * ByteBits \in Nat
    BY <1>1 DEF AddressBits
  <2> QED BY <1>2, <2>1
<1> HIDE DEF pad, all
<1>5. /\ NanoChars \in Nat /\ all = NanoChars * CharBits + 0
      /\ PadChars \in Nat /\ PadRest \in 0..(CharBits - 1) /\ pad = PadChars * CharBits + PadRest
  <2>1. NanoChars = all \div CharBits /\ PadChars = pad \div CharBits /\ PadRest = pad % CharBits
    BY DEF NanoChars, PadChars, PadRest, all, pad
  <2> QED BY <1>1, <1>2, <1>3, <2>1, Quotient
<1>6. ~(NanoChars <= PadChars)
  <2> SUFFICES ASSUME NanoChars <= PadChars PROVE FALSE
    OBVIOUS
  <2>1. NanoChars * CharBits <= PadChars * CharBits
    BY <1>1, <1>5, Monotone
  <2>2. NanoChars * CharBits \in Nat /\ PadChars * CharBits \in Nat
    BY <1>1, <1>5
  <2> QED BY <1>2, <1>5, <2>1, <2>2
<1>7. KeyChars \in Nat \ {0} /\ NanoChars = PadChars + KeyChars
  BY <1>5, <1>6 DEF KeyChars
<1>8. CharBits * KeyChars = PadRest + TextBits /\ CharBits * KeyChars <= AddressBits
  <2>1. NanoChars * CharBits = PadChars * CharBits + KeyChars * CharBits
    BY <1>1, <1>5, <1>7
  <2>2. /\ PadChars * CharBits \in Nat /\ KeyChars * CharBits \in Nat
        /\ CharBits * KeyChars = KeyChars * CharBits
    BY <1>1, <1>5, <1>7
  <2>3. AddressBits \in Nat
    BY Widths
  <2> QED BY <1>2, <1>4, <1>5, <2>1, <2>2, <2>3
<1>9. /\ FirstCharBits \in Nat \ {0} /\ CharBits = PadRest + FirstCharBits
      /\ TextBits = CharBits * (KeyChars - 1) + FirstCharBits
  <2>1. FirstCharBits = CharBits - PadRest
    BY DEF FirstCharBits, PadRest
  <2>2. CharBits * KeyChars = CharBits * (KeyChars - 1) + CharBits
        /\ CharBits * (KeyChars - 1) \in Nat
    BY <1>1, <1>7
  <2> QED BY <1>1, <1>2, <1>5, <1>8, <2>1, <2>2
<1> QED BY <1>2, <1>5, <1>7, <1>8, <1>9

\* A `camo_` address has no padding.
LEMMA CamoWidths ==
    /\ CamoChars \in Nat \ {0}
    /\ CharBits * CamoChars = (ByteBits + 2 * KeyBits) + ChecksumBits
    /\ CharBits * CamoChars <= AddressBits
    /\ (1 + 2 * KeyBytes) * ByteBits = ByteBits + 2 * KeyBits
    /\ ByteBits + 2 * KeyBits \in Nat
<1>1. /\ ByteBits \in Nat \ {0} /\ CharBits \in Nat \ {0} /\ KeyBytes \in Nat \ {0}
      /\ PadBytes \in Nat /\ ChecksumBytes \in Nat
  BY WidthAssumption
<1> DEFINE all == (1 + 2 * KeyBytes + ChecksumBytes) * ByteBits
           bytes == (1 + 2 * KeyBytes) * ByteBits
<1>2. /\ all \in Nat \ {0} /\ bytes \in Nat /\ all = bytes + ChecksumBits
      /\ bytes = ByteBits + 2 * KeyBits /\ ChecksumBits \in Nat /\ KeyBits \in Nat
  BY <1>1 DEF KeyBits, ChecksumBits
<1>3. all % CharBits = 0 /\ CamoChars = all \div CharBits
  BY WidthAssumption DEF CamoChars
<1>4. all <= AddressBits
  <2>1. AddressBits = all + PadBytes * ByteBits /\ PadBytes * ByteBits \in Nat
    BY <1>1 DEF AddressBits
  <2> QED BY <1>2, <2>1
<1> HIDE DEF all
<1>5. CamoChars \in Nat /\ all = CamoChars * CharBits + 0
  BY <1>1, <1>2, <1>3, Quotient
<1>6. CamoChars # 0 /\ CamoChars * CharBits = CharBits * CamoChars
  BY <1>1, <1>2, <1>5
<1>7. CharBits * CamoChars = all
  <2>1. CharBits * CamoChars \in Nat
    BY <1>1, <1>5
  <2> QED BY <1>5, <1>6, <2>1
<1> QED BY <1>2, <1>4, <1>5, <1>6, <1>7

-----------------------------------------------------------------------------
(***************************************************************************)
(* Characters and bytes.                                                   *)
(***************************************************************************)
IsText(text) == text \in Seq(ToSet(text))

LEMMA SequenceOf ==
    ASSUME NEW T, NEW s \in Seq(T), NEW U, \A i \in 1..Len(s) : s[i] \in U
    PROVE  s \in Seq(U)
<1>1. Len(s) \in Nat /\ s = [i \in 1..Len(s) |-> s[i]]
  OBVIOUS
<1> QED BY <1>1

\* Without a wide character the bytes of a text are its characters, and no
\* slice up to its end is inside one.
LEMMA NarrowText ==
    ASSUME NEW text, IsText(text), Wide \notin ToSet(text)
    PROVE  /\ byte_length(text) = Len(text)
           /\ \A k \in 0..Len(text) : ~SplitsAt(text, k)
<1> DEFINE T == ToSet(text)
<1>1. text \in Seq(T) /\ Len(text) \in Nat /\ DOMAIN text = 1..Len(text)
  BY DEF IsText
<1>2. \A i \in DOMAIN text : text[i] # Wide
  BY DEF ToSet
<1>3. ASSUME NEW s, s \in Seq(T), \A i \in DOMAIN s : s[i] # Wide
      PROVE  byte_length(s) = Len(s)
  <2>1. {i \in DOMAIN s : s[i] = Wide} = {}
    BY <1>3
  <2>2. Cardinality({}) = 0
    BY FS_EmptySet
  <2>3. byte_length(s) = Len(s) + 0
    BY <2>1, <2>2 DEF byte_length
  <2>4. Len(s) \in Nat
    BY <1>3
  <2> QED BY <2>3, <2>4
<1> HIDE DEF T
<1>4. ASSUME NEW k \in 0..Len(text) PROVE ~SplitsAt(text, k)
  <2> DEFINE s == SubSeq(text, 1, k)
  <2>1. s \in Seq(T) /\ Len(s) = k /\ DOMAIN s = 1..k /\ \A i \in 1..k : s[i] = text[i]
    BY <1>1
  <2>2. \A i \in DOMAIN s : s[i] # Wide
    BY <1>1, <1>2, <2>1
  <2> HIDE DEF s
  <2>3. byte_length(s) = k
    BY <1>3, <2>1, <2>2
  <2> QED BY <2>3 DEF SplitsAt, s
<1> QED BY <1>1, <1>2, <1>3, <1>4

\* A text that begins with a prefix is that and its body.
LEMMA PrefixAndBody ==
    ASSUME NEW text, IsText(text), NEW prefix, IsText(prefix), IsPrefix(prefix, text)
    PROVE  /\ Len(prefix) \in Nat /\ Len(Body(text, prefix)) \in Nat
           /\ DOMAIN text = 1..Len(text) /\ DOMAIN prefix = 1..Len(prefix)
           /\ DOMAIN Body(text, prefix) = 1..Len(Body(text, prefix))
           /\ Len(text) = Len(prefix) + Len(Body(text, prefix))
           /\ \A i \in 1..Len(prefix) : text[i] = prefix[i]
           /\ \A i \in 1..Len(Body(text, prefix)) :
                 text[Len(prefix) + i] = Body(text, prefix)[i]
<1> DEFINE T == ToSet(text)
           U == ToSet(prefix)
<1>1. text \in Seq(T) /\ prefix \in Seq(U)
  BY DEF IsText
<1> HIDE DEF T, U
<1>2. /\ Len(text) \in Nat /\ DOMAIN text = 1..Len(text)
      /\ Len(prefix) \in Nat /\ DOMAIN prefix = 1..Len(prefix)
  BY <1>1
<1>3. Len(prefix) <= Len(text) /\ SubSeq(prefix, 1, Len(prefix)) = SubSeq(text, 1, Len(prefix))
  BY DEF IsPrefix
<1>4. ASSUME NEW i \in 1..Len(prefix) PROVE text[i] = prefix[i]
  <2>1. SubSeq(prefix, 1, Len(prefix))[i] = prefix[i]
    BY <1>1, <1>2
  <2>2. SubSeq(text, 1, Len(prefix))[i] = text[i]
    BY <1>1, <1>2, <1>3
  <2> QED BY <1>3, <2>1, <2>2
<1> DEFINE body == Body(text, prefix)
<1>5. /\ body \in Seq(T) /\ Len(body) = Len(text) - Len(prefix)
      /\ \A i \in 1..Len(body) : body[i] = text[Len(prefix) + i]
  <2> DEFINE l == Len(prefix)
             m == Len(text)
  <2>1. l \in Nat /\ m \in Nat /\ l <= m /\ body = SubSeq(text, l + 1, m)
    BY <1>2, <1>3 DEF Body
  <2>2. \A i \in (l + 1)..m : text[i] \in T
    BY <1>1, <2>1
  <2> HIDE DEF l, body
  <2>3. Len(body) = m - l /\ body \in Seq(T)
    BY <1>1, <2>1, <2>2
  <2>4. \A i \in 1..(m - l) : body[i] = text[l + i]
    <3> SUFFICES ASSUME NEW i \in 1..(m - l) PROVE body[i] = text[l + i]
      OBVIOUS
    <3>1. body[i] = text[(l + 1) + i - 1] /\ (l + 1) + i - 1 = l + i
      BY <1>1, <2>1
    <3> QED BY <3>1
  <2> QED BY <2>3, <2>4 DEF l
<1>6. DOMAIN body = 1..Len(body)
  BY <1>5
<1> HIDE DEF body
<1> QED BY <1>2, <1>3, <1>4, <1>5, <1>6 DEF body

LEMMA PrefixThenBody ==
    ASSUME NEW text, IsText(text), NEW prefix, IsText(prefix), NEW body, IsText(body),
           DOMAIN text = 1..(Len(prefix) + Len(body)),
           \A i \in 1..Len(prefix) : text[i] = prefix[i],
           \A i \in 1..Len(body) : text[Len(prefix) + i] = body[i]
    PROVE  text = prefix \o body
<1> DEFINE s == prefix \o body
           T == ToSet(prefix) \cup ToSet(body)
           l == Len(prefix)
           m == Len(body)
<1>1. prefix \in Seq(T) /\ body \in Seq(T)
  BY DEF IsText
<1>2. s = prefix \o body
  OBVIOUS
<1> HIDE DEF s, T
<1>3. /\ s \in Seq(T) /\ Len(s) = Len(prefix) + Len(body)
      /\ \A i \in 1..Len(prefix) : s[i] = prefix[i]
      /\ \A i \in 1..Len(body) : s[Len(prefix) + i] = body[i]
  BY <1>1, <1>2, AppendedElements
<1>4. l \in Nat /\ m \in Nat
  BY <1>1
<1>5. s = [i \in 1..Len(s) |-> s[i]]
  BY <1>3
<1>6. text = [i \in 1..(l + m) |-> text[i]]
  <2>1. text \in Seq(ToSet(text))
    BY DEF IsText
  <2>2. text = [i \in 1..Len(text) |-> text[i]] /\ DOMAIN text = 1..Len(text)
    BY <2>1
  <2> QED BY <2>2
<1>7. /\ Len(s) = l + m
      /\ \A i \in 1..l : s[i] = text[i]
      /\ \A i \in 1..m : s[l + i] = text[l + i]
  BY <1>3
<1> HIDE DEF l, m
<1>8. ASSUME NEW i \in 1..(l + m) PROVE s[i] = text[i]
  <2>1. CASE i \in 1..l
    BY <1>7, <2>1
  <2>2. CASE i \notin 1..l
    <3> DEFINE j == i - l
    <3>1. j \in 1..m /\ i = l + j
      BY <1>4, <2>2
    <3> HIDE DEF j
    <3> QED BY <1>7, <3>1
  <2> QED BY <2>1, <2>2
<1>9. s = text
  BY <1>5, <1>6, <1>7, <1>8
<1> QED BY <1>9 DEF s

LEMMA PrefixesAreTexts ==
    /\ IsText(NanoPrefix) /\ Wide \notin ToSet(NanoPrefix)
    /\ IsText(CamoPrefix) /\ Wide \notin ToSet(CamoPrefix)
<1>1. ASSUME NEW prefix \in {NanoPrefix, CamoPrefix}
      PROVE  IsText(prefix) /\ Wide \notin ToSet(prefix)
  <2>1. prefix \in Seq(ToSet(prefix) \ {Wide})
    BY TextAssumption
  <2>2. \A i \in DOMAIN prefix : prefix[i] \in ToSet(prefix) \ {Wide}
    BY <2>1
  <2>3. Wide \notin ToSet(prefix)
    BY <2>2 DEF ToSet
  <2>4. ToSet(prefix) \ {Wide} = ToSet(prefix)
    BY <2>3
  <2> QED BY <2>1, <2>3, <2>4 DEF IsText
<1> QED BY <1>1

-----------------------------------------------------------------------------
(***************************************************************************)
(* `nano_` addresses.                                                      *)
(***************************************************************************)
\* The bounds of a key, a checksum and the two together.
LEMMA TextPowers ==
    /\ 2^KeyBits \in Nat \ {0} /\ 2^ChecksumBits \in Nat \ {0}
    /\ 2^TextBits \in Nat \ {0} /\ 2^TextBits = 2^ChecksumBits * 2^KeyBits
    /\ 2^FirstCharBits \in Nat \ {0} /\ 2^CharBits \in Nat \ {0} /\ 2^PadRest \in Nat \ {0}
    /\ 2^CharBits = 2^FirstCharBits * 2^PadRest
    /\ 2^(CharBits * KeyChars) \in Nat \ {0}
    /\ 2^(CharBits * KeyChars) = 2^PadRest * 2^TextBits
<1>1. /\ KeyBits \in Nat /\ ChecksumBits \in Nat /\ TextBits = ChecksumBits + KeyBits
      /\ PadRest \in Nat /\ FirstCharBits \in Nat /\ CharBits = FirstCharBits + PadRest
      /\ CharBits * KeyChars = PadRest + TextBits /\ CharBits * KeyChars <= AddressBits
  BY NanoWidths DEF TextBits
<1>2. CharBits \in Nat /\ AddressBits \in Nat /\ TextBits \in Nat
  BY <1>1, Widths
<1> DEFINE full == CharBits * KeyChars
<1>3. /\ full \in Nat /\ full = PadRest + TextBits /\ full <= AddressBits
      /\ KeyBits <= AddressBits /\ ChecksumBits <= AddressBits /\ TextBits <= AddressBits
      /\ PadRest <= AddressBits
  BY <1>1, <1>2
<1>4. CharBits <= AddressBits /\ FirstCharBits <= AddressBits
  <2>1. CharBits * 1 <= CharBits * KeyChars
    <3>1. KeyChars \in Nat \ {0} /\ 1 <= KeyChars
      BY NanoWidths
    <3>2. 1 * CharBits <= KeyChars * CharBits
      BY <1>2, <3>1, Monotone
    <3> QED BY <1>2, <3>1, <3>2
  <2> QED BY <1>1, <1>2, <2>1
<1> HIDE DEF full
<1>5. 2^TextBits = 2^ChecksumBits * 2^KeyBits
  BY <1>1, <1>3, PowerOfSum
<1>6. 2^CharBits = 2^FirstCharBits * 2^PadRest
  BY <1>1, <1>4, PowerOfSum
<1>7. 2^full = 2^PadRest * 2^TextBits
  BY <1>1, <1>2, <1>3, PowerOfSum
<1>8. /\ 2^KeyBits \in Nat \ {0} /\ 2^ChecksumBits \in Nat \ {0} /\ 2^TextBits \in Nat \ {0}
      /\ 2^FirstCharBits \in Nat \ {0} /\ 2^CharBits \in Nat \ {0} /\ 2^PadRest \in Nat \ {0}
      /\ 2^full \in Nat \ {0}
  BY <1>1, <1>2, <1>3, <1>4, Powers
<1> QED BY <1>5, <1>6, <1>7, <1>8 DEF full

\* Larger powers are larger.
LEMMA PowersRise ==
    ASSUME NEW m \in Nat, NEW n \in Nat, m <= n, n <= AddressBits
    PROVE  2^m <= 2^n
<1> DEFINE d == n - m
           p == 2^m
           q == 2^d
<1>1. d \in Nat /\ n = m + d /\ m <= AddressBits /\ d <= AddressBits
  BY Widths
<1>2. p \in Nat \ {0} /\ q \in Nat \ {0}
  <2> HIDE DEF d
  <2> QED BY <1>1, Powers
<1>3. 2^n = p * q
  <2> HIDE DEF d
  <2> QED BY <1>1, PowerOfSum
<1> HIDE DEF p, q
<1>4. 1 * p <= q * p /\ q * p = p * q
  BY <1>2, Monotone
<1> QED BY <1>2, <1>3, <1>4 DEF p

\* A checksum has its bits.
LEMMA ChecksumOf ==
    ASSUME NEW bytes \in Nat, NEW bits \in Nat, bits <= ByteBits + 2 * KeyBits,
           bytes <= 2^bits - 1
    PROVE  checksum(bytes) \in 0..(2^ChecksumBits - 1)
<1> DEFINE all == ByteBits + 2 * KeyBits
<1>1. /\ all \in Nat /\ all <= AddressBits /\ bits <= all
      /\ (1 + 2 * KeyBytes) * ByteBits = all
  BY CamoWidths, NanoWidths, Widths
<1>2. 2^bits <= 2^all
  <2> HIDE DEF all
  <2> QED BY <1>1, PowersRise
<1>3. 2^bits \in Nat /\ 2^all \in Nat
  <2>1. bits <= AddressBits
    BY <1>1, Widths
  <2> HIDE DEF all
  <2> QED BY <1>1, <2>1, Powers
<1>4. bytes \in 0..(2^all - 1)
  <2> HIDE DEF all
  <2> QED BY <1>2, <1>3
<1> QED BY <1>1, <1>4, TextAssumption

\* What is written after the prefix are the last digits.
LEMMA LastDigits ==
    ASSUME NEW x \in Nat
    PROVE  SubSeq(base32_encode(x, NanoChars), PadChars + 1, NanoChars)
               = base32_encode(x, KeyChars)
<1> DEFINE all == base32_encode(x, NanoChars)
           last == SubSeq(all, PadChars + 1, NanoChars)
           digit(k) == (x \div 2^(CharBits * k)) % 2^CharBits
           T == {digit(k) : k \in Nat}
<1>1. NanoChars \in Nat /\ PadChars \in Nat /\ KeyChars \in Nat /\ NanoChars = PadChars + KeyChars
  BY NanoWidths
<1>2. all = [i \in 1..NanoChars |-> digit(NanoChars - i)]
  BY DEF base32_encode
<1>3. \A i \in 1..NanoChars : digit(NanoChars - i) \in T
  BY <1>1
<1> HIDE DEF digit, T, all
<1>4. all \in Seq(T) /\ Len(all) = NanoChars
  BY <1>1, <1>2, <1>3
<1>5. /\ last \in Seq(T) /\ Len(last) = KeyChars
      /\ \A i \in 1..KeyChars : last[i] = all[PadChars + i]
  <2>1. \A i \in (PadChars + 1)..NanoChars : all[i] \in T
    BY <1>1, <1>4
  <2>2. Len(last) = KeyChars /\ last \in Seq(T)
    BY <1>1, <1>4, <2>1
  <2>3. \A i \in 1..KeyChars : last[i] = all[PadChars + i]
    <3> SUFFICES ASSUME NEW i \in 1..KeyChars PROVE last[i] = all[PadChars + i]
      OBVIOUS
    <3>1. last[i] = all[(PadChars + 1) + i - 1] /\ (PadChars + 1) + i - 1 = PadChars + i
      BY <1>1, <1>4
    <3> QED BY <3>1
  <2> QED BY <2>2, <2>3
<1> HIDE DEF last
<1>6. ASSUME NEW i \in 1..KeyChars PROVE last[i] = digit(KeyChars - i)
  <2>1. PadChars + i \in 1..NanoChars /\ NanoChars - (PadChars + i) = KeyChars - i
    BY <1>1
  <2> QED BY <1>2, <1>5, <2>1
<1>7. last = [i \in 1..KeyChars |-> digit(KeyChars - i)]
  BY <1>1, <1>5, <1>6
<1> QED BY <1>7 DEF last, all, digit, base32_encode

\* A number modulo the bits of key and checksum has the same digits, but for
\* the padding in the first of them.
LEMMA PaddingDropped ==
    ASSUME NEW x \in Nat, NEW text, text = base32_encode(x, KeyChars)
    PROVE  base32_encode(x % 2^TextBits, KeyChars)
               = [text EXCEPT ![1] = @ % 2^FirstCharBits]
<1> DEFINE all == 2^TextBits
           base == 2^CharBits
           first == 2^FirstCharBits
           low == x % all
           place(k) == 2^(CharBits * k)
           rest(k) == 2^(TextBits - CharBits * k)
<1>1. /\ all \in Nat \ {0} /\ base \in Nat \ {0} /\ first \in Nat \ {0}
      /\ base = first * 2^PadRest /\ 2^PadRest \in Nat \ {0}
  BY TextPowers
<1>2. low \in Nat
  <2> HIDE DEF all
  <2> QED BY <1>1, Quotient DEF low
<1>3. KeyChars \in Nat \ {0} /\ CharBits \in Nat \ {0} /\ TextBits \in Nat /\ AddressBits \in Nat
      /\ TextBits = CharBits * (KeyChars - 1) + FirstCharBits /\ FirstCharBits \in Nat
      /\ TextBits <= AddressBits
  <2>1. CharBits * KeyChars = PadRest + TextBits /\ CharBits * KeyChars <= AddressBits
        /\ PadRest \in Nat /\ TextBits \in Nat
    BY NanoWidths
  <2>2. TextBits <= AddressBits
    BY <2>1, Widths
  <2> QED BY <2>2, NanoWidths, Widths
<1>4. ASSUME NEW k \in 0..(KeyChars - 1)
      PROVE  /\ CharBits * k \in Nat /\ TextBits - CharBits * k \in Nat
             /\ place(k) \in Nat \ {0} /\ rest(k) \in Nat \ {0}
             /\ all = place(k) * rest(k)
  <2>1. k * CharBits <= (KeyChars - 1) * CharBits
    BY <1>3, Monotone
  <2> DEFINE m == CharBits * k
             n == TextBits - CharBits * k
  <2>2. m \in Nat /\ n \in Nat /\ m + n = TextBits
    BY <1>3, <2>1
  <2> HIDE DEF m, n
  <2>3. m + n <= AddressBits /\ m <= AddressBits /\ n <= AddressBits
    BY <1>3, <2>2
  <2>4. 2^(m + n) = 2^m * 2^n /\ 2^m \in Nat \ {0} /\ 2^n \in Nat \ {0}
    BY <2>2, <2>3, PowerOfSum, Powers
  <2> QED BY <2>2, <2>4 DEF m, n
<1>5. ASSUME NEW k \in 0..(KeyChars - 1)
      PROVE  low \div place(k) = (x \div place(k)) % rest(k)
  <2> DEFINE p == place(k)
             r == rest(k)
  <2>1. p \in Nat \ {0} /\ r \in Nat \ {0} /\ all = p * r
    BY <1>4
  <2> HIDE DEF p, r, all
  <2>2. DividesTwice(x, p, r, all)
    BY <1>1, <2>1, QuotientOfQuotient
  <2>3. low \div p = (x \div p) % r
    BY <2>2 DEF DividesTwice
  <2> QED BY <2>3 DEF p, r
<1>6. ASSUME NEW i \in 1..KeyChars
      PROVE  /\ i = 1 => (low \div place(KeyChars - i)) % base = text[i] % first
             /\ i # 1 => (low \div place(KeyChars - i)) % base = text[i]
  <2> DEFINE k == KeyChars - i
             z == x \div place(k)
  <2>1. k \in 0..(KeyChars - 1) /\ k \in Nat
    BY <1>3
  <2>2. text[i] = z % base
    BY DEF base32_encode
  <2>3. place(k) \in Nat \ {0} /\ rest(k) \in Nat \ {0} /\ low \div place(k) = z % rest(k)
    BY <1>4, <1>5, <2>1
  <2>4. z \in Nat
    <3> DEFINE p == place(k)
    <3> HIDE DEF p
    <3>1. p \in Nat \ {0}
      BY <2>3 DEF p
    <3>2. x \div p \in Nat
      BY <3>1, Quotient
    <3> QED BY <3>2 DEF p
  <2> HIDE DEF z
  <2>5. CASE i = 1
    <3>1. TextBits - CharBits * k = FirstCharBits
      BY <1>3, <2>5
    <3>2. rest(k) = first
      BY <3>1
    <3> HIDE DEF base, first
    <3>3. DividesTwice(z, first, 2^PadRest, base)
      BY <1>1, <2>4, QuotientOfQuotient
    <3>4. (z % base) % first = z % first
      BY <3>3 DEF DividesTwice
    <3>5. (z % first) % base = z % first
      <4> DEFINE l == z % first
                 w == 2^PadRest
      <4>1. l \in 0..(first - 1) /\ w \in Nat \ {0} /\ base = first * w
        BY <1>1, <2>4, Quotient
      <4> HIDE DEF l, w
      <4>2. 1 * first <= w * first /\ w * first = first * w
        BY <1>1, <4>1, Monotone
      <4>3. l \in 0..(base - 1) /\ 0 * base + l = l
        BY <1>1, <4>1, <4>2
      <4>4. (0 * base + l) % base = l
        BY <1>1, <4>3, QuotientUnique
      <4> QED BY <4>3, <4>4 DEF l
    <3> HIDE DEF low, place, rest
    <3> QED BY <2>2, <2>3, <2>5, <3>2, <3>4, <3>5
  <2>6. CASE i # 1
    <3> DEFINE m == TextBits - CharBits * (k + 1)
               w == 2^m
               r == rest(k)
    <3>1. k + 1 \in 0..(KeyChars - 1) /\ CharBits * (k + 1) = CharBits * k + CharBits
      BY <1>3, <2>1, <2>6
    <3>2. m \in Nat /\ TextBits - CharBits * k = CharBits + m
      BY <1>3, <1>4, <2>1, <3>1
    <3>3. CharBits + m <= AddressBits /\ m <= AddressBits
      BY <1>3, <1>4, <2>1, <3>2
    <3> HIDE DEF m
    <3>4. r = base * w /\ w \in Nat \ {0}
      BY <1>3, <3>2, <3>3, PowerOfSum, Powers
    <3> HIDE DEF base, w, r
    <3>5. DividesTwice(z, base, w, r)
      BY <1>1, <2>4, <3>4, QuotientOfQuotient
    <3>6. (z % r) % base = z % base
      BY <3>5 DEF DividesTwice
    <3> HIDE DEF low, place
    <3> QED BY <2>2, <2>3, <2>6, <3>6 DEF r
  <2> QED BY <2>5, <2>6
<1>7. text = [i \in 1..KeyChars |-> text[i]]
  BY DEF base32_encode
<1>8. base32_encode(low, KeyChars) = [i \in 1..KeyChars |-> (low \div place(KeyChars - i)) % base]
  BY DEF base32_encode
<1>9. [text EXCEPT ![1] = @ % first]
          = [i \in 1..KeyChars |-> IF i = 1 THEN text[i] % first ELSE text[i]]
  <2> HIDE DEF first
  <2> QED BY <1>7
<1> HIDE DEF low, place, base, first
<1>10. base32_encode(low, KeyChars) = [text EXCEPT ![1] = @ % first]
  BY <1>6, <1>8, <1>9
<1> QED BY <1>10 DEF low, first

\* What an accepted text is: the prefix and a body of digits.
LEMMA DigitsOfBody ==
    ASSUME NEW text, IsText(text), NEW prefix, IsText(prefix), Wide \notin ToSet(prefix),
           NEW chars \in Nat, byte_length(text) = Len(prefix) + chars,
           IsPrefix(prefix, text), ToSet(Body(text, prefix)) \subseteq Digit
    PROVE  /\ Len(prefix) \in Nat /\ DOMAIN text = 1..(Len(prefix) + chars)
           /\ Body(text, prefix) \in [1..chars -> Digit]
           /\ \A i \in 1..Len(prefix) : text[i] = prefix[i]
           /\ \A i \in 1..chars : text[Len(prefix) + i] = Body(text, prefix)[i]
<1> DEFINE body == Body(text, prefix)
<1>1. /\ Len(prefix) \in Nat /\ Len(body) \in Nat
      /\ DOMAIN text = 1..Len(text) /\ DOMAIN prefix = 1..Len(prefix)
      /\ DOMAIN body = 1..Len(body)
      /\ Len(text) = Len(prefix) + Len(body)
      /\ \A i \in 1..Len(prefix) : text[i] = prefix[i]
      /\ \A i \in 1..Len(body) : text[Len(prefix) + i] = body[i]
  BY PrefixAndBody
<1> HIDE DEF body
<1>2. \A i \in 1..Len(body) : body[i] \in Digit
  BY <1>1 DEF ToSet, body
<1>3. Wide \notin ToSet(text)
  <2> SUFFICES ASSUME NEW i \in DOMAIN text, text[i] = Wide PROVE FALSE
    BY DEF ToSet
  <2>1. CASE i \in 1..Len(prefix)
    BY <1>1, <2>1 DEF ToSet
  <2>2. CASE i \notin 1..Len(prefix)
    <3> DEFINE j == i - Len(prefix)
    <3>1. j \in 1..Len(body) /\ i = Len(prefix) + j
      BY <1>1, <2>2
    <3>2. text[i] = body[j]
      BY <1>1, <3>1
    <3> QED BY <1>2, <3>1, <3>2, TextAssumption DEF Digit
  <2> QED BY <2>1, <2>2
<1>4. Len(body) = chars
  <2>1. byte_length(text) = Len(text)
    BY <1>3, NarrowText
  <2> DEFINE l == Len(prefix)
             m == Len(body)
  <2>2. l \in Nat /\ m \in Nat /\ l + m = l + chars
    BY <1>1, <2>1
  <2> HIDE DEF l, m
  <2>3. m = chars
    BY <2>2
  <2> QED BY <2>3 DEF m
<1>5. body \in [1..chars -> Digit]
  <2>1. IsText(body)
    <3> DEFINE T == ToSet(text)
    <3>1. text \in Seq(T)
      BY DEF IsText
    <3> HIDE DEF T
    <3>2. body \in Seq(T)
      <4> DEFINE l == Len(prefix)
                 m == Len(text)
      <4>0. m \in Nat
        BY <3>1
      <4>1. l \in Nat /\ m \in Nat /\ body = SubSeq(text, l + 1, m)
        BY <1>1, <4>0 DEF Body, body
      <4>2. \A i \in (l + 1)..m : text[i] \in T
        BY <3>1, <4>1
      <4> HIDE DEF l
      <4> QED BY <3>1, <4>1, <4>2
    <3>3. \A i \in 1..Len(body) : body[i] \in ToSet(body)
      BY <1>1 DEF ToSet
    <3> QED BY <3>2, <3>3 DEF IsText
  <2>2. body = [i \in 1..Len(body) |-> body[i]]
    BY <1>1, <2>1 DEF IsText
  <2> QED BY <1>2, <1>4, <2>2
<1> QED BY <1>1, <1>4, <1>5 DEF body

Accepted(text, key) ==
    /\ byte_length(text) = NanoLength
    /\ IsPrefix(NanoPrefix, text)
    /\ ToSet(Body(text, NanoPrefix)) \subseteq Digit
    /\ LET data == base32_decode(Body(text, NanoPrefix))
       IN  /\ key = (data \div 2^ChecksumBits) % 2^KeyBits
           /\ checksum(key) = data % 2^ChecksumBits

LEMMA DecodeAccepts ==
    ASSUME NEW text, account_decode(text).ok
    PROVE  /\ Accepted(text, account_decode(text).value)
           /\ account_decode(text) = Ok(account_decode(text).value)
<1> DEFINE data == base32_decode(Body(text, NanoPrefix))
           key == (data \div 2^ChecksumBits) % 2^KeyBits
<1>1. /\ byte_length(text) = NanoLength /\ IsPrefix(NanoPrefix, text) /\ data # None
      /\ data % 2^ChecksumBits = checksum(key) /\ account_decode(text) = Ok(key)
  <2> HIDE DEF key, data
  <2> QED BY DEF account_decode, Ok, Err, Panic, data, key
<1>2. ToSet(Body(text, NanoPrefix)) \subseteq Digit
  BY <1>1 DEF base32_decode, Digit
<1> HIDE DEF key, data
<1>3. account_decode(text).value = key
  BY <1>1 DEF Ok
<1> QED BY <1>1, <1>2, <1>3 DEF Accepted, data, key

\* The text that is printed of the key of an accepted text, and that key.
LEMMA PrintedOfAccepted ==
    ASSUME NEW text, IsText(text), NEW key, Accepted(text, key)
    PROVE  /\ key \in 0..(2^KeyBits - 1)
           /\ account_encode(key)
                  = [text EXCEPT ![Len(NanoPrefix) + 1] = @ % 2^FirstCharBits]
<1> DEFINE body == Body(text, NanoPrefix)
           data == base32_decode(body)
           low == data % 2^TextBits
           first == 2^FirstCharBits
           l == Len(NanoPrefix)
           cut == [body EXCEPT ![1] = @ % first]
<1>1. /\ IsText(NanoPrefix) /\ Wide \notin ToSet(NanoPrefix)
      /\ KeyChars \in Nat \ {0} /\ NanoChars = PadChars + KeyChars
      /\ NanoChars \in Nat /\ PadChars \in Nat
      /\ CharBits * KeyChars <= AddressBits
  BY PrefixesAreTexts, NanoWidths
<1>2. l \in Nat /\ NanoLength = l + KeyChars
  <2>1. l \in Nat
    BY <1>1 DEF IsText
  <2> QED BY <1>1, <2>1 DEF NanoLength
<1>3. /\ DOMAIN text = 1..(l + KeyChars)
      /\ body \in [1..KeyChars -> Digit]
      /\ \A i \in 1..l : text[i] = NanoPrefix[i]
      /\ \A i \in 1..KeyChars : text[l + i] = body[i]
  <2>1. byte_length(text) = l + KeyChars
    BY <1>2 DEF Accepted
  <2> QED BY <1>1, <2>1, DigitsOfBody DEF Accepted
<1>4. /\ data \in 0..(2^(CharBits * KeyChars) - 1)
      /\ base32_encode(data, KeyChars) = body
  <2> HIDE DEF body
  <2> QED BY <1>1, <1>3, DigitsOfText
<1>5. data \in Nat
  BY <1>4, TextPowers
<1>6. key = (data \div 2^ChecksumBits) % 2^KeyBits /\ checksum(key) = data % 2^ChecksumBits
  BY DEF Accepted
<1>7. /\ key \in 0..(2^KeyBits - 1) /\ low \in Nat
      /\ low = key * 2^ChecksumBits + checksum(key)
  <2> DEFINE c == 2^ChecksumBits
             k == 2^KeyBits
             t == 2^TextBits
             q == data \div c
  <2>1. c \in Nat \ {0} /\ k \in Nat \ {0} /\ t \in Nat \ {0} /\ t = c * k
    BY TextPowers
  <2> HIDE DEF data, c, k, t
  <2>2. DividesTwice(data, c, k, t)
    BY <1>5, <2>1, QuotientOfQuotient
  <2>3. q \in Nat /\ low \in Nat
    <3>1. data \div c \in Nat /\ data % t \in 0..(t - 1)
      BY <1>5, <2>1, Quotient
    <3>2. data % t \in Nat
      BY <2>1, <3>1
    <3> QED BY <3>1, <3>2 DEF t
  <2>4. low \div c = key /\ low % c = checksum(key)
    BY <1>6, <2>2 DEF DividesTwice, c, k, t
  <2>5. key = q % k
    BY <1>6 DEF c, k
  <2> HIDE DEF q, low
  <2>6. key \in 0..(k - 1)
    BY <2>1, <2>3, <2>5, Quotient
  <2>7. low = key * c + checksum(key)
    <3>1. low = (low \div c) * c + (low % c)
      BY <2>1, <2>3, Quotient
    <3> QED BY <2>4, <3>1
  <2> QED BY <2>3, <2>6, <2>7 DEF c, k
<1> HIDE DEF data
<1>8. base32_encode(low, KeyChars) = cut
  <2> HIDE DEF body
  <2> QED BY <1>4, <1>5, PaddingDropped
<1>9. account_encode(key) = NanoPrefix \o cut
  <2> HIDE DEF low, cut
  <2> QED BY <1>7, <1>8, LastDigits DEF account_encode
<1>10. NanoPrefix \o cut = [text EXCEPT ![l + 1] = @ % first]
  <2> DEFINE T == ToSet(NanoPrefix) \cup Nat
             e == [text EXCEPT ![l + 1] = @ % first]
             s == NanoPrefix \o cut
  <2>1. /\ cut \in [1..KeyChars -> Nat]
        /\ cut[1] = body[1] % first /\ \A i \in 2..KeyChars : cut[i] = body[i]
    <3>1. \A i \in 1..KeyChars : body[i] \in Nat
      <4>1. Digit \subseteq Nat
        BY TextPowers DEF Digit
      <4> HIDE DEF body
      <4> QED BY <1>3, <4>1
    <3>2. body[1] % first \in Nat
      <4> DEFINE b == body[1]
      <4>1. b \in Nat /\ first \in Nat \ {0}
        BY <1>1, <3>1, TextPowers
      <4> HIDE DEF b, first
      <4> QED BY <4>1, Quotient DEF b
    <3> HIDE DEF first, body
    <3> QED BY <1>1, <1>3, <3>1, <3>2
  <2> HIDE DEF cut, first
  <2>2. NanoPrefix \in Seq(T) /\ cut \in Seq(T) /\ Len(cut) = KeyChars
    <3>1. NanoPrefix \in Seq(ToSet(NanoPrefix))
      BY <1>1 DEF IsText
    <3> HIDE DEF l
    <3> QED BY <1>1, <2>1, <3>1
  <2> HIDE DEF T
  <2>3. /\ s \in Seq(T) /\ Len(s) = l + KeyChars
        /\ \A i \in 1..l : s[i] = NanoPrefix[i]
        /\ \A i \in 1..KeyChars : s[l + i] = cut[i]
    <3> DEFINE prefix == NanoPrefix
    <3>1. s = prefix \o cut /\ prefix \in Seq(T) /\ cut \in Seq(T)
      BY <2>2
    <3> HIDE DEF s, prefix
    <3>2. /\ s \in Seq(T) /\ Len(s) = Len(prefix) + Len(cut)
          /\ \A i \in 1..Len(prefix) : s[i] = prefix[i]
          /\ \A i \in 1..Len(cut) : s[Len(prefix) + i] = cut[i]
      BY <3>1, AppendedElements
    <3> QED BY <2>2, <3>2 DEF prefix
  <2>4. s = [i \in 1..(l + KeyChars) |-> s[i]]
    <3> HIDE DEF s
    <3> QED BY <2>3
  <2>5. text = [i \in 1..(l + KeyChars) |-> text[i]]
    <3>1. text \in Seq(ToSet(text))
      BY DEF IsText
    <3>2. text = [i \in 1..Len(text) |-> text[i]] /\ DOMAIN text = 1..Len(text)
      BY <3>1
    <3> QED BY <1>3, <3>2
  <2>6. e = [i \in 1..(l + KeyChars) |-> IF i = l + 1 THEN text[i] % first ELSE text[i]]
    BY <1>1, <1>2, <2>5
  <2> HIDE DEF s, l
  <2>7. ASSUME NEW i \in 1..(l + KeyChars)
        PROVE  s[i] = IF i = l + 1 THEN text[i] % first ELSE text[i]
    <3>1. CASE i \in 1..l
      <4>1. i # l + 1
        BY <1>2, <3>1
      <4> QED BY <1>3, <2>3, <3>1, <4>1
    <3>2. CASE i \notin 1..l
      <4> DEFINE j == i - l
      <4>1. j \in 1..KeyChars /\ i = l + j
        BY <1>1, <1>2, <3>2
      <4>2. s[i] = cut[j] /\ text[i] = body[j]
        BY <1>3, <2>3, <4>1
      <4>3. j = 1 <=> i = l + 1
        BY <1>2, <4>1
      <4>4. j # 1 => j \in 2..KeyChars
        BY <1>1, <4>1
      <4> HIDE DEF j
      <4> QED BY <2>1, <4>2, <4>3, <4>4
    <3> QED BY <3>1, <3>2
  <2> HIDE DEF e
  <2>8. s = e
    BY <2>4, <2>6, <2>7
  <2> QED BY <2>8 DEF s, e
<1> QED BY <1>7, <1>9, <1>10

\* A prefix and digits are a text of one byte per character.
LEMMA TextOfBody ==
    ASSUME NEW prefix, IsText(prefix), Wide \notin ToSet(prefix),
           NEW chars \in Nat, NEW body \in [1..chars -> Digit],
           NEW text, text = prefix \o body
    PROVE  /\ IsText(text) /\ Wide \notin ToSet(text)
           /\ Len(prefix) \in Nat /\ Len(text) = Len(prefix) + chars
           /\ IsPrefix(prefix, text)
           /\ Body(text, prefix) = body
<1> DEFINE T == ToSet(prefix) \cup Digit
           l == Len(prefix)
<1>1. prefix \in Seq(T) /\ body \in Seq(T) /\ Len(body) = chars /\ l \in Nat
  <2>1. prefix \in Seq(ToSet(prefix))
    BY DEF IsText
  <2>2. body \in Seq(Digit) /\ Len(body) = chars
    OBVIOUS
  <2> QED BY <2>1, <2>2
<1>2. Wide \notin T
  BY TextAssumption DEF Digit
<1> HIDE DEF T
<1>3. /\ text \in Seq(T) /\ Len(text) = Len(prefix) + Len(body)
      /\ \A i \in 1..Len(prefix) : text[i] = prefix[i]
      /\ \A i \in 1..Len(body) : text[Len(prefix) + i] = body[i]
  BY <1>1, AppendedElements
<1> HIDE DEF l
<1>4. /\ Len(text) = l + chars /\ DOMAIN text = 1..(l + chars)
      /\ \A i \in 1..l : text[i] = prefix[i]
      /\ \A i \in 1..chars : text[l + i] = body[i]
  BY <1>1, <1>3 DEF l
<1>5. IsText(text)
  <2>1. \A i \in 1..Len(text) : text[i] \in ToSet(text)
    BY <1>1, <1>4 DEF ToSet
  <2> DEFINE U == ToSet(text)
  <2> HIDE DEF U
  <2>2. text \in Seq(U)
    BY <1>3, <2>1, SequenceOf DEF U
  <2> QED BY <2>2 DEF IsText, U
<1>6. Wide \notin ToSet(text)
  <2>1. \A i \in DOMAIN text : text[i] \in T
    BY <1>3
  <2> QED BY <1>2, <2>1 DEF ToSet
<1>7. IsPrefix(prefix, text)
  <2> DEFINE s == SubSeq(prefix, 1, l)
             t == SubSeq(text, 1, l)
  <2>1. /\ s \in Seq(T) /\ Len(s) = l /\ \A i \in 1..l : s[i] = prefix[i]
        /\ t \in Seq(T) /\ Len(t) = l /\ \A i \in 1..l : t[i] = text[i]
    <3>1. Len(prefix) = l /\ l <= Len(text) /\ Len(text) \in Nat
      BY <1>1, <1>4 DEF l
    <3> QED BY <1>1, <1>3, <3>1
  <2> HIDE DEF s, t
  <2>2. s = [i \in 1..l |-> s[i]] /\ t = [i \in 1..l |-> t[i]]
    BY <2>1
  <2>3. s = t
    BY <1>4, <2>1, <2>2
  <2> QED BY <1>1, <1>4, <2>3 DEF IsPrefix, s, t, l
<1>8. Body(text, prefix) = body
  <2> DEFINE s == SubSeq(text, l + 1, l + chars)
  <2>1. s \in Seq(T) /\ Len(s) = chars /\ \A i \in 1..chars : s[i] = text[l + i]
    <3>1. \A i \in (l + 1)..(l + chars) : text[i] \in T
      BY <1>1, <1>3, <1>4
    <3>2. Len(s) = chars /\ s \in Seq(T)
      BY <1>1, <1>3, <1>4, <3>1
    <3>3. \A i \in 1..chars : s[i] = text[l + i]
      <4> SUFFICES ASSUME NEW i \in 1..chars PROVE s[i] = text[l + i]
        OBVIOUS
      <4>1. s[i] = text[(l + 1) + i - 1] /\ (l + 1) + i - 1 = l + i
        BY <1>1, <1>3, <1>4
      <4> QED BY <4>1
    <3> QED BY <3>2, <3>3
  <2> HIDE DEF s
  <2>2. s = [i \in 1..chars |-> s[i]] /\ body = [i \in 1..chars |-> body[i]]
    BY <2>1
  <2>3. s = body
    BY <1>4, <2>1, <2>2
  <2>4. Body(text, prefix) = s
    BY <1>4 DEF Body, s, l
  <2> QED BY <2>3, <2>4
<1> QED BY <1>1, <1>4, <1>5, <1>6, <1>7, <1>8 DEF l

\* What account_encode prints for a key, account_decode accepts and reads as that
\* key (nanopy.rs:16, nanopy.rs:28).
THEOREM KeyReadBack ==
    ASSUME NEW key \in 0..(2^KeyBits - 1)
    PROVE  account_decode(account_encode(key)) = Ok(key)
<1> DEFINE c == 2^ChecksumBits
           k == 2^KeyBits
           t == 2^TextBits
           x == key * c + checksum(key)
           body == base32_encode(x, KeyChars)
           text == account_encode(key)
<1>1. c \in Nat \ {0} /\ k \in Nat \ {0} /\ t \in Nat \ {0} /\ t = k * c /\ key \in Nat
  <2>1. c * k = k * c
    BY TextPowers
  <2> QED BY <2>1, TextPowers
<1>2. checksum(key) \in 0..(c - 1)
  <2>1. KeyBits \in Nat /\ KeyBits <= ByteBits + 2 * KeyBits
    BY NanoWidths, WidthAssumption
  <2> HIDE DEF k
  <2> QED BY <1>1, <2>1, ChecksumOf DEF c
<1>3. x \in 0..(t - 1) /\ x \in Nat /\ x % c = checksum(key) /\ x \div c = key
  <2>0. key \in 0..(k - 1)
    OBVIOUS
  <2> HIDE DEF c, k, t
  <2>1. Appended(c, k, t, key, checksum(key), x)
    BY <1>1, <1>2, DigitAppended
  <2>2. x \div c = key
    BY <1>1, <1>2, QuotientUnique
  <2> QED BY <2>0, <2>1, <2>2 DEF Appended
<1>4. x \in 0..(2^(CharBits * KeyChars) - 1)
  <2> DEFINE full == 2^(CharBits * KeyChars)
             p == 2^PadRest
  <2>1. full \in Nat /\ p \in Nat \ {0} /\ full = p * t
    BY TextPowers
  <2> HIDE DEF full, p, t, x
  <2>2. 1 * t <= p * t
    BY <1>1, <2>1, Monotone
  <2> QED BY <1>1, <1>3, <2>1, <2>2 DEF full
<1>5. key % k = key
  <2>0. key \in 0..(k - 1)
    OBVIOUS
  <2> HIDE DEF k
  <2>1. (0 * k + key) % k = key
    BY <1>1, <2>0, QuotientUnique
  <2> QED BY <1>1, <2>1
<1>6. /\ IsText(NanoPrefix) /\ Wide \notin ToSet(NanoPrefix)
      /\ KeyChars \in Nat \ {0} /\ NanoChars = PadChars + KeyChars
      /\ NanoChars \in Nat /\ PadChars \in Nat
      /\ CharBits * KeyChars <= AddressBits
  BY PrefixesAreTexts, NanoWidths
<1>7. text = NanoPrefix \o body
  BY <1>3, LastDigits DEF account_encode
<1>8. body \in [1..KeyChars -> Digit] /\ base32_decode(body) = x
  <2> HIDE DEF x
  <2> QED BY <1>4, <1>6, NumberOfDigits
<1> HIDE DEF text, body, x
<1>9. /\ IsText(text) /\ Wide \notin ToSet(text)
      /\ Len(NanoPrefix) \in Nat /\ Len(text) = Len(NanoPrefix) + KeyChars
      /\ IsPrefix(NanoPrefix, text)
      /\ Body(text, NanoPrefix) = body
  BY <1>6, <1>7, <1>8, TextOfBody
<1>10. byte_length(text) = NanoLength /\ ~SplitsAt(text, Len(NanoPrefix))
  <2>1. byte_length(text) = Len(text) /\ \A n \in 0..Len(text) : ~SplitsAt(text, n)
    BY <1>9, NarrowText
  <2>2. NanoLength = Len(text) /\ Len(NanoPrefix) \in 0..Len(text)
    BY <1>6, <1>9 DEF NanoLength
  <2> QED BY <2>1, <2>2
<1>11. x # None
  BY <1>3, VersionAssumption
<1> HIDE DEF c, k
<1>12. account_decode(text) = Ok((x \div c) % k)
  BY <1>3, <1>5, <1>8, <1>9, <1>10, <1>11 DEF account_decode, c, k
<1> QED BY <1>3, <1>5, <1>12 DEF text

\* A text panics account_decode only in the middle of a wide character.
LEMMA DecodePanics ==
    ASSUME NEW text, IsText(text), account_decode(text) = Panic
    PROVE  SplitsAt(text, Len(NanoPrefix)) /\ Wide \in ToSet(text)
<1>1. byte_length(text) = NanoLength /\ SplitsAt(text, Len(NanoPrefix))
  BY DEF account_decode, Panic, Err, Ok
<1>2. Len(NanoPrefix) \in 0..NanoLength
  <2>1. Len(NanoPrefix) \in Nat
    BY PrefixesAreTexts DEF IsText
  <2> QED BY <2>1, NanoWidths DEF NanoLength
<1>3. ASSUME Wide \notin ToSet(text) PROVE FALSE
  <2>1. byte_length(text) = Len(text) /\ \A n \in 0..Len(text) : ~SplitsAt(text, n)
    BY <1>3, NarrowText
  <2> QED BY <1>1, <1>2, <2>1
<1> QED BY <1>1, <1>3

-----------------------------------------------------------------------------
(***************************************************************************)
(* `camo_` addresses.                                                      *)
(***************************************************************************)
\* What is read of a text that is accepted.
CamoAccepted(text, of) ==
    LET data  == base32_decode(Body(text, CamoPrefix))
        bytes == data \div 2^ChecksumBits
    IN  /\ byte_length(text) = CamoLength
        /\ IsPrefix(CamoPrefix, text)
        /\ ToSet(Body(text, CamoPrefix)) \subseteq Digit
        /\ data % 2^ChecksumBits = checksum(bytes)
        /\ of.bits = bytes \div 2^(2 * KeyBits)
        /\ of.spend = (bytes \div 2^KeyBits) % 2^KeyBits
        /\ of.view = bytes % 2^KeyBits

LEMMA CamoAccepts ==
    ASSUME NEW text, camo_from_str(text).ok
    PROVE  CamoAccepted(text, camo_from_str(text).value)
<1> DEFINE data == base32_decode(Body(text, CamoPrefix))
           bytes == data \div 2^ChecksumBits
           spend == (bytes \div 2^KeyBits) % 2^KeyBits
           view == bytes % 2^KeyBits
           bits == bytes \div 2^(2 * KeyBits)
           of == camo_from_str(text).value
<1>1. /\ IsPrefix(CamoPrefix, text) /\ camo_from_str(text) = camo_body(text)
      /\ camo_body(text).ok
  BY DEF camo_from_str, Err, Panic
<1>2. data # None /\ camo_body(text) = account_from_data(text, data)
  <2> HIDE DEF data
  <2> QED BY <1>1 DEF camo_body, Err, data
<1>3. account_from_data(text, data).ok
  BY <1>1, <1>2
<1>4. ToSet(Body(text, CamoPrefix)) \subseteq Digit
  BY <1>2 DEF base32_decode, Digit
<1> HIDE DEF data
<1>5. /\ byte_length(text) = CamoLength
      /\ data % 2^ChecksumBits = checksum(bytes)
      /\ account_from_data(text, data)
             = Ok([account |-> text, bits |-> bits, spend |-> spend, view |-> view])
  <2> HIDE DEF bits
  <2> QED BY <1>3 DEF account_from_data, try_point_from_slice, Ok, Err, bits
<1> HIDE DEF bytes
<1>6. of.bits = bits /\ of.spend = spend /\ of.view = view
  <2> HIDE DEF bits, spend, view
  <2> QED BY <1>1, <1>2, <1>5 DEF Ok
<1> HIDE DEF of
<1> QED BY <1>1, <1>4, <1>5, <1>6 DEF CamoAccepted, data, bytes, of

\* A text that is accepted is what is printed of what was read of it.
LEMMA PrintedOfCamo ==
    ASSUME NEW text, IsText(text), NEW of, CamoAccepted(text, of)
    PROVE  text = camo_encode(of.bits, of.spend, of.view)
<1> DEFINE body == Body(text, CamoPrefix)
           data == base32_decode(body)
           c == 2^ChecksumBits
           k == 2^KeyBits
           kk == 2^(2 * KeyBits)
           bytes == data \div c
           upper == bytes \div k
           l == Len(CamoPrefix)
<1>1. /\ IsText(CamoPrefix) /\ Wide \notin ToSet(CamoPrefix)
      /\ CamoChars \in Nat \ {0} /\ CharBits * CamoChars <= AddressBits
  BY PrefixesAreTexts, CamoWidths
<1>2. /\ l \in Nat /\ DOMAIN text = 1..(l + CamoChars)
      /\ body \in [1..CamoChars -> Digit]
      /\ \A i \in 1..l : text[i] = CamoPrefix[i]
      /\ \A i \in 1..CamoChars : text[l + i] = body[i]
  <2>1. byte_length(text) = l + CamoChars /\ ToSet(body) \subseteq Digit
        /\ IsPrefix(CamoPrefix, text)
    BY DEF CamoAccepted, CamoLength
  <2> QED BY <1>1, <2>1, DigitsOfBody
<1>3. data \in 0..(2^(CharBits * CamoChars) - 1) /\ base32_encode(data, CamoChars) = body
  <2> HIDE DEF body
  <2> QED BY <1>1, <1>2, DigitsOfText
<1>4. /\ c \in Nat \ {0} /\ k \in Nat \ {0} /\ kk \in Nat \ {0} /\ kk = k * k
  <2> DEFINE b == KeyBits
  <2>1. b \in Nat /\ 2 * b = b + b /\ b + b <= AddressBits
    BY NanoWidths, CamoWidths, Widths, WidthAssumption
  <2> HIDE DEF b
  <2>2. 2^(b + b) = 2^b * 2^b /\ 2^(b + b) \in Nat \ {0}
    BY <2>1, PowerOfSum, Powers
  <2> QED BY <2>1, <2>2, TextPowers DEF b
<1>5. data \in Nat
  <2> DEFINE full == CharBits * CamoChars
  <2>1. full \in Nat /\ full <= AddressBits
    BY <1>1, CamoWidths, NanoWidths
  <2>2. 2^full \in Nat
    <3> HIDE DEF full
    <3> QED BY <2>1, Powers
  <2> HIDE DEF data
  <2> QED BY <1>3, <2>2
<1>6. /\ data % c = checksum(bytes)
      /\ of.bits = bytes \div kk /\ of.spend = upper % k /\ of.view = bytes % k
  BY DEF CamoAccepted
<1> HIDE DEF c, k, kk, data
<1>7. bytes \in Nat /\ data = bytes * c + checksum(bytes)
  <2>1. data \div c \in Nat /\ data = (data \div c) * c + (data % c)
    BY <1>4, <1>5, Quotient
  <2> QED BY <1>6, <2>1
<1> HIDE DEF bytes
<1>8. upper \in Nat /\ bytes = upper * k + of.view
  <2>1. bytes \div k \in Nat /\ bytes = (bytes \div k) * k + (bytes % k)
    BY <1>4, <1>7, Quotient
  <2> QED BY <1>6, <2>1
<1>9. of.bits = upper \div k
  <2>1. DividesTwice(bytes, k, k, kk)
    BY <1>4, <1>7, QuotientOfQuotient
  <2> QED BY <1>6, <2>1 DEF DividesTwice
<1> HIDE DEF upper
<1>10. upper = of.bits * k + of.spend
  <2>1. upper = (upper \div k) * k + (upper % k)
    BY <1>4, <1>8, Quotient
  <2> QED BY <1>6, <1>9, <2>1
<1>11. camo_encode(of.bits, of.spend, of.view) = CamoPrefix \o base32_encode(data, CamoChars)
  <2>1. (of.bits * k + of.spend) * k + of.view = bytes
    BY <1>8, <1>10
  <2> QED BY <1>7, <2>1 DEF camo_encode, c, k
<1>12. text = CamoPrefix \o body
  <2> HIDE DEF body
  <2>1. body \in Seq(Digit) /\ Len(body) = CamoChars /\ DOMAIN body = 1..CamoChars
    BY <1>1, <1>2
  <2>2. IsText(body)
    <3> DEFINE U == ToSet(body)
    <3>1. \A i \in 1..Len(body) : body[i] \in U
      BY <2>1 DEF ToSet
    <3> HIDE DEF U
    <3>2. body \in Seq(U)
      BY <2>1, <3>1, SequenceOf
    <3> QED BY <3>2 DEF IsText, U
  <2>3. /\ DOMAIN text = 1..(Len(CamoPrefix) + Len(body))
        /\ \A i \in 1..Len(CamoPrefix) : text[i] = CamoPrefix[i]
        /\ \A i \in 1..Len(body) : text[Len(CamoPrefix) + i] = body[i]
    BY <1>2, <2>1
  <2>4. IsText(CamoPrefix)
    BY <1>1
  <2> QED BY <2>2, <2>3, <2>4, PrefixThenBody
<1> QED BY <1>3, <1>11, <1>12

\* A text panics camo_from_str only in the middle of a wide character.
LEMMA CamoPanics ==
    ASSUME NEW text, IsText(text), camo_from_str(text) = Panic
    PROVE  /\ SplitsAt(text, Len(CamoPrefix)) \/ SplitsAt(text, SampleEnd)
           /\ Wide \in ToSet(text)
<1>1. \A bytes : try_point_from_slice(bytes) # Panic
  BY DEF try_point_from_slice, Panic, Err, Ok
<1>2. \A data : account_from_data(text, data) # Panic
  BY <1>1 DEF account_from_data, Panic, Err, Ok
<1>3. camo_body(text) # Panic
  BY <1>2 DEF camo_body, Panic, Err
<1>4. /\ ~(byte_length(text) < SampleEnd)
      /\ SplitsAt(text, Len(CamoPrefix)) \/ SplitsAt(text, SampleEnd)
  BY <1>3 DEF camo_from_str, Panic, Err
<1>5. SampleEnd \in Nat /\ Len(CamoPrefix) \in 0..SampleEnd
  <2>1. Len(CamoPrefix) \in Nat
    BY PrefixesAreTexts DEF IsText
  <2> QED BY <2>1, WidthAssumption DEF SampleEnd
<1>6. ASSUME Wide \notin ToSet(text) PROVE FALSE
  <2>1. /\ byte_length(text) = Len(text) /\ \A n \in 0..Len(text) : ~SplitsAt(text, n)
        /\ Len(text) \in Nat
    BY <1>6, NarrowText DEF IsText
  <2> QED BY <1>4, <1>5, <2>1
<1> QED BY <1>4, <1>6
=============================================================================
