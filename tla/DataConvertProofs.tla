------------------------- MODULE DataConvertProofs -------------------------
(***************************************************************************)
(* What TLAPS proves of the conversions, for every width of the integers   *)
(* and every number, date and time.                                        *)
(***************************************************************************)
EXTENDS DataConvert, NaturalsInduction, WellFoundedInduction, TLAPS

-----------------------------------------------------------------------------
(* Induction and recursion.  The induction theorems of the library have an *)
(* operator for a parameter; that a set of numbers has a least one has not.*)

(* A set of numbers that has 0 and is closed under successors has all.     *)
LEMMA Induction ==
    ASSUME NEW S, 0 \in S, \A n \in Nat : n \in S => n + 1 \in S
    PROVE  \A n \in Nat : n \in S
<1> DEFINE T == Nat \ S
<1> SUFFICES ASSUME T # {} PROVE FALSE
  OBVIOUS
<1>1. IsWellFoundedOn(OpToRel(<, Nat), Nat)
  BY NatLessThanWellFounded, Zenon
<1>2. \E x \in T : \A y \in T : ~(<<y, x>> \in OpToRel(<, Nat))
  BY <1>1, WFMin, Zenon
<1>3. \A x, y \in Nat : y < x => <<y, x>> \in OpToRel(<, Nat)
  BY Zenon DEF OpToRel
<1>4. \E x \in T : \A y \in T : ~(y < x)
  BY <1>2, <1>3, Zenon
<1>5. PICK x \in T : \A y \in T : ~(y < x)
  BY <1>4
<1>6. x - 1 \in Nat /\ x - 1 < x /\ x = (x - 1) + 1
  <2>1. x # 0
    OBVIOUS
  <2> QED
    BY <2>1
<1>7. x - 1 \in S
  BY <1>5, <1>6
<1> QED
  BY <1>6, <1>7

(* Recursion on the natural numbers defines a function, with the step as a *)
(* function: its graph is built from finite approximations, by Induction.  *)
LEMMA Recursion ==
    ASSUME NEW v \in Int, NEW G \in [Nat \X Int -> Int]
    PROVE  \E f \in [Nat -> Int] : f[0] = v /\ \A n \in Nat : f[n + 1] = G[<<n, f[n]>>]
<1> DEFINE Goes(g, n) == g[0] = v /\ \A i \in 0 .. n - 1 : g[i + 1] = G[<<i, g[i]>>]
           Upto(n) == {g \in [0 .. n -> Int] : Goes(g, n)}
           S == {n \in Nat : Upto(n) # {}}
           f == [n \in Nat |-> (CHOOSE g : g \in Upto(n))[n]]
<1>1. \A n \in Nat : n \in S
  <2>1. 0 \in S
    <3>1. [i \in 0 .. 0 |-> v] \in Upto(0)
      OBVIOUS
    <3> QED
      BY <3>1
  <2>2. ASSUME NEW n \in Nat, n \in S PROVE n + 1 \in S
    <3>1. PICK g \in Upto(n) : TRUE
      BY <2>2
    <3> DEFINE h == [i \in 0 .. n + 1 |-> IF i = n + 1 THEN G[<<n, g[n]>>] ELSE g[i]]
    <3>2. \A i \in 0 .. n : g[i] \in Int /\ h[i] = g[i]
      BY <3>1
    <3>3. g[n] \in Int /\ h[n + 1] = G[<<n, g[n]>>] /\ h[n + 1] \in Int
      BY <3>2
    <3>4. h \in [0 .. n + 1 -> Int]
      BY <3>2, <3>3
    <3>5. h[0] = v
      BY <3>1, <3>2
    <3>6. \A i \in 0 .. n : h[i + 1] = G[<<i, h[i]>>]
      <4> SUFFICES ASSUME NEW i \in 0 .. n PROVE h[i + 1] = G[<<i, h[i]>>]
        OBVIOUS
      <4>1. CASE i = n
        BY <4>1, <3>2, <3>3
      <4>2. CASE i \in 0 .. n - 1
        <5>1. g[i + 1] = G[<<i, g[i]>>]
          BY <3>1, <4>2
        <5>2. i + 1 \in 0 .. n /\ i \in 0 .. n
          BY <4>2
        <5> QED
          BY <5>1, <5>2, <3>2
      <4> QED
        BY <4>1, <4>2
    <3>7. h \in Upto(n + 1)
      <4> HIDE DEF h
      <4>1. (n + 1) - 1 = n
        OBVIOUS
      <4> QED
        BY <3>4, <3>5, <3>6, <4>1
    <3> HIDE DEF h, Upto
    <3> QED
      BY <3>7
  <2> HIDE DEF S
  <2> QED
    BY <2>1, <2>2, Induction
<1>2. \A n \in Nat : (CHOOSE g : g \in Upto(n)) \in Upto(n)
  <2> TAKE n \in Nat
  <2>1. \E g : g \in Upto(n)
    BY <1>1
  <2> HIDE DEF Upto
  <2> QED
    BY <2>1, Zenon
<1>3. \A i \in Nat : \A m, n \in Nat : \A g \in Upto(m), h \in Upto(n) :
         (i <= m /\ i <= n) => g[i] = h[i]
  <2> DEFINE Same(i) == \A m, n \in Nat : \A g \in Upto(m), h \in Upto(n) :
                           (i <= m /\ i <= n) => g[i] = h[i]
             R == {i \in Nat : Same(i)}
  <2>1. 0 \in R
    OBVIOUS
  <2>2. ASSUME NEW i \in Nat, i \in R PROVE i + 1 \in R
    <3>i. i + 1 \in Nat
      OBVIOUS
    <3>s. SUFFICES Same(i + 1)
      BY <3>i, Zenon
    <3> SUFFICES ASSUME NEW m \in Nat, NEW n \in Nat, NEW g \in Upto(m), NEW h \in Upto(n),
                        i + 1 <= m, i + 1 <= n
                 PROVE  g[i + 1] = h[i + 1]
      OBVIOUS
    <3>0. Same(i)
      BY <2>2
    <3>1. g[i] = h[i]
      <4>1. i <= m /\ i <= n
        OBVIOUS
      <4> HIDE DEF Upto
      <4> QED
        BY <3>0, <4>1
    <3>2. g[i + 1] = G[<<i, g[i]>>] /\ h[i + 1] = G[<<i, h[i]>>]
      OBVIOUS
    <3> QED
      BY <3>1, <3>2
  <2>3. \A i \in Nat : i \in R
    <3> HIDE DEF R
    <3> QED
      BY <2>1, <2>2, Induction
  <2> QED
    BY <2>3
<1>4. f \in [Nat -> Int]
  <2> SUFFICES ASSUME NEW n \in Nat PROVE f[n] \in Int
    OBVIOUS
  <2> DEFINE g == CHOOSE g : g \in Upto(n)
  <2>1. g \in Upto(n)
    BY <1>2
  <2>2. g \in [0 .. n -> Int]
    <3> HIDE DEF g
    <3> QED
      BY <2>1
  <2>3. g[n] \in Int
    <3> HIDE DEF g
    <3> QED
      BY <2>2
  <2> QED
    BY <2>3
<1>5. f[0] = v
  <2> DEFINE g == CHOOSE g : g \in Upto(0)
  <2>1. g \in Upto(0)
    BY <1>2
  <2>2. g[0] = v
    <3> HIDE DEF g
    <3> QED
      BY <2>1
  <2> QED
    BY <2>2
<1>6. ASSUME NEW n \in Nat PROVE f[n + 1] = G[<<n, f[n]>>]
  <2> DEFINE g == CHOOSE g : g \in Upto(n)
             h == CHOOSE h : h \in Upto(n + 1)
  <2>1. g \in Upto(n) /\ h \in Upto(n + 1)
    <3>1. n + 1 \in Nat
      OBVIOUS
    <3> HIDE DEF Upto
    <3> QED
      BY <1>2, <3>1
  <2>2. f[n] = g[n] /\ f[n + 1] = h[n + 1]
    OBVIOUS
  <2> HIDE DEF f, g, h
  <2>3. h[n] = g[n]
    <3>1. n + 1 \in Nat /\ n <= n + 1 /\ n <= n
      OBVIOUS
    <3> HIDE DEF Upto
    <3> QED
      BY <1>3, <2>1, <3>1
  <2>4. h[n + 1] = G[<<n, h[n]>>]
    BY <2>1
  <2> QED
    BY <2>2, <2>3, <2>4
<1> HIDE DEF f
<1> QED
  BY <1>4, <1>5, <1>6

-----------------------------------------------------------------------------
(* Powers and digits.                                                      *)

(* Exp() is the power: its defining equations.                             *)
LEMMA ExpSteps ==
    ASSUME NEW b \in Int
    PROVE  /\ Exp(b, 0) = 1
           /\ \A n \in Nat : Exp(b, n) \in Int /\ Exp(b, n + 1) = b * Exp(b, n)
<1> DEFINE Is(g) == g = [k \in Nat |-> IF k = 0 THEN 1 ELSE b * g[k - 1]]
           G == [p \in Nat \X Int |-> b * p[2]]
           P == CHOOSE g : Is(g)
<1>1. PICK f \in [Nat -> Int] : f[0] = 1 /\ \A n \in Nat : f[n + 1] = G[<<n, f[n]>>]
  <2>1. 1 \in Int /\ G \in [Nat \X Int -> Int]
    OBVIOUS
  <2> HIDE DEF G
  <2> QED
    BY <2>1, Recursion
<1>2. \A n \in Nat : f[n + 1] = b * f[n]
  BY <1>1
<1>3. Is(f)
  <2>1. \A n \in Nat : f[n] = IF n = 0 THEN 1 ELSE b * f[n - 1]
    <3> TAKE n \in Nat
    <3>1. CASE n = 0
      BY <1>1, <3>1
    <3>2. CASE n # 0
      <4>1. n - 1 \in Nat /\ n = (n - 1) + 1
        BY <3>2
      <4> QED
        BY <1>2, <3>2, <4>1
    <3> QED
      BY <3>1, <3>2
  <2> QED
    BY <2>1
<1>4. Is(P)
  <2> HIDE DEF Is
  <2> QED
    BY <1>3, Zenon
<1>5. \A n : Exp(b, n) = P[n]
  BY Zenon DEF Exp
<1>6. \A n \in Nat : P[n] = IF n = 0 THEN 1 ELSE b * P[n - 1]
  <2> HIDE DEF P
  <2> QED
    BY <1>4
<1>7. \A n \in Nat : P[n] = f[n]
  <2> DEFINE S == {n \in Nat : P[n] = f[n]}
  <2>1. 0 \in S
    <3> HIDE DEF P
    <3> QED
      BY <1>1, <1>6
  <2>2. ASSUME NEW n \in Nat, n \in S PROVE n + 1 \in S
    <3> HIDE DEF P
    <3>1. P[n + 1] = b * P[n]
      BY <1>6
    <3> QED
      BY <1>2, <2>2, <3>1
  <2>3. \A n \in Nat : n \in S
    <3> HIDE DEF S
    <3> QED
      BY <2>1, <2>2, Induction
  <2> HIDE DEF P
  <2> QED
    BY <2>3
<1> HIDE DEF P
<1> QED
  BY <1>1, <1>2, <1>5, <1>7

(* Value() adds digit by digit: its defining equations.                    *)
LEMMA ValueSteps ==
    ASSUME NEW b \in Int, NEW digits \in [Nat -> Int]
    PROVE  /\ Value(digits, b, 0) = 0
           /\ \A n \in Nat : /\ Value(digits, b, n) \in Int
                             /\ Value(digits, b, n + 1)
                                   = Value(digits, b, n) + digits[n] * Exp(b, n)
<1> DEFINE E == [n \in Nat |-> digits[n] * Exp(b, n)]
           Is(g) == g = [k \in Nat |-> IF k = 0 THEN 0
                                       ELSE g[k - 1] + digits[k - 1] * Exp(b, k - 1)]
           G == [p \in Nat \X Int |-> p[2] + E[p[1]]]
           P == CHOOSE g : Is(g)
<1>0. E \in [Nat -> Int]
  <2>1. \A n \in Nat : Exp(b, n) \in Int /\ digits[n] \in Int
    BY ExpSteps
  <2> QED
    BY <2>1
<1>1. PICK f \in [Nat -> Int] : f[0] = 0 /\ \A n \in Nat : f[n + 1] = G[<<n, f[n]>>]
  <2>1. 0 \in Int /\ G \in [Nat \X Int -> Int]
    <3> HIDE DEF E
    <3> QED
      BY <1>0
  <2> HIDE DEF G
  <2> QED
    BY <2>1, Recursion
<1>2. \A n \in Nat : f[n + 1] = f[n] + digits[n] * Exp(b, n)
  BY <1>1
<1>3. Is(f)
  <2>1. \A n \in Nat : f[n] = IF n = 0 THEN 0 ELSE f[n - 1] + digits[n - 1] * Exp(b, n - 1)
    <3> TAKE n \in Nat
    <3>1. CASE n = 0
      BY <1>1, <3>1
    <3>2. CASE n # 0
      <4>1. n - 1 \in Nat /\ n = (n - 1) + 1
        BY <3>2
      <4>2. f[(n - 1) + 1] = f[n - 1] + digits[n - 1] * Exp(b, n - 1)
        BY <1>2, <4>1
      <4> QED
        BY <3>2, <4>1, <4>2
    <3> QED
      BY <3>1, <3>2
  <2>2. f = [n \in Nat |-> f[n]]
    OBVIOUS
  <2> QED
    BY <2>1, <2>2
<1>4. Is(P)
  <2> HIDE DEF Is
  <2> QED
    BY <1>3, Zenon
<1>5. \A n : Value(digits, b, n) = P[n]
  BY Zenon DEF Value
<1>6. \A n \in Nat : P[n] = IF n = 0 THEN 0 ELSE P[n - 1] + digits[n - 1] * Exp(b, n - 1)
  <2> HIDE DEF P
  <2> QED
    BY <1>4
<1>7. \A n \in Nat : P[n] = f[n]
  <2> DEFINE S == {n \in Nat : P[n] = f[n]}
  <2>1. 0 \in S
    <3> HIDE DEF P
    <3> QED
      BY <1>1, <1>6
  <2>2. ASSUME NEW n \in Nat, n \in S PROVE n + 1 \in S
    <3> HIDE DEF P
    <3>1. P[n + 1] = P[n] + digits[n] * Exp(b, n)
      <4>1. n + 1 \in Nat /\ n + 1 # 0 /\ (n + 1) - 1 = n
        OBVIOUS
      <4> QED
        BY <1>6, <4>1
    <3>2. P[n] = f[n]
      BY <2>2
    <3> QED
      BY <1>2, <3>1, <3>2
  <2>3. \A n \in Nat : n \in S
    <3> HIDE DEF S
    <3> QED
      BY <2>1, <2>2, Induction
  <2> HIDE DEF P
  <2> QED
    BY <2>3
<1>8. \A n \in Nat : f[n] \in Int
  BY <1>1
<1> HIDE DEF P, E, G
<1>9. Value(digits, b, 0) = 0 /\ \A n \in Nat : Value(digits, b, n) = f[n]
  BY <1>1, <1>5, <1>7
<1>10. ASSUME NEW n \in Nat
       PROVE  Value(digits, b, n + 1) = Value(digits, b, n) + digits[n] * Exp(b, n)
  <2>1. n + 1 \in Nat
    OBVIOUS
  <2>2. Value(digits, b, n + 1) = f[n + 1] /\ Value(digits, b, n) = f[n]
    BY <1>9, <2>1
  <2> QED
    BY <1>2, <2>2
<1> QED
  BY <1>8, <1>9, <1>10

(* Powers of a base above one grow.                                        *)
LEMMA ExpGrows ==
    ASSUME NEW b \in Nat, b >= 2
    PROVE  /\ \A n \in Nat : Exp(b, n) \in Nat /\ n < Exp(b, n)
           /\ \A m, n \in Nat : m <= n => Exp(b, m) <= Exp(b, n)
           /\ \A m, n \in Nat : m < n => b * Exp(b, m) <= Exp(b, n)
<1>1. Exp(b, 0) = 1 /\ \A n \in Nat : Exp(b, n) \in Int /\ Exp(b, n + 1) = b * Exp(b, n)
  BY ExpSteps
<1>2. \A n \in Nat : Exp(b, n) \in Nat /\ n < Exp(b, n)
  <2> DEFINE S == {n \in Nat : Exp(b, n) \in Nat /\ n < Exp(b, n)}
  <2>1. 0 \in S
    BY <1>1
  <2>2. ASSUME NEW n \in Nat, n \in S PROVE n + 1 \in S
    <3>1. Exp(b, n) \in Nat /\ n < Exp(b, n) /\ Exp(b, n + 1) = b * Exp(b, n)
      BY <1>1, <2>2
    <3>2. \A e \in Nat : b * e >= 2 * e
      OBVIOUS
    <3>3. Exp(b, n + 1) >= 2 * Exp(b, n)
      BY <3>1, <3>2
    <3> QED
      BY <3>1, <3>3
  <2>3. \A n \in Nat : n \in S
    <3> HIDE DEF S
    <3> QED
      BY <2>1, <2>2, Induction
  <2> QED
    BY <2>3
<1>3. \A n \in Nat : Exp(b, n) <= Exp(b, n + 1)
  <2> TAKE n \in Nat
  <2>1. Exp(b, n) \in Nat /\ Exp(b, n + 1) = b * Exp(b, n)
    BY <1>1, <1>2
  <2>2. \A e \in Nat : e <= b * e
    OBVIOUS
  <2> QED
    BY <2>1, <2>2
<1>4. ASSUME NEW m \in Nat PROVE \A d \in Nat : Exp(b, m) <= Exp(b, m + d)
  <2> DEFINE S == {d \in Nat : Exp(b, m) <= Exp(b, m + d)}
  <2>1. 0 \in S
    BY <1>2
  <2>2. ASSUME NEW d \in Nat, d \in S PROVE d + 1 \in S
    <3>1. m + d \in Nat /\ m + (d + 1) = (m + d) + 1 /\ (m + d) + 1 \in Nat
      OBVIOUS
    <3>2. Exp(b, m) \in Nat /\ Exp(b, m + d) \in Nat /\ Exp(b, (m + d) + 1) \in Nat
      BY <1>2, <3>1
    <3>3. Exp(b, m + d) <= Exp(b, (m + d) + 1)
      BY <1>3, <3>1
    <3>4. Exp(b, m) <= Exp(b, m + d)
      BY <2>2
    <3> QED
      BY <3>1, <3>2, <3>3, <3>4
  <2>3. \A d \in Nat : d \in S
    <3> HIDE DEF S
    <3> QED
      BY <2>1, <2>2, Induction
  <2> QED
    BY <2>3
<1>5. \A m, n \in Nat : m <= n => Exp(b, m) <= Exp(b, n)
  <2> SUFFICES ASSUME NEW m \in Nat, NEW n \in Nat, m <= n PROVE Exp(b, m) <= Exp(b, n)
    OBVIOUS
  <2>1. n - m \in Nat /\ m + (n - m) = n
    OBVIOUS
  <2> QED
    BY <1>4, <2>1
<1>6. \A m, n \in Nat : m < n => b * Exp(b, m) <= Exp(b, n)
  <2> SUFFICES ASSUME NEW m \in Nat, NEW n \in Nat, m < n PROVE b * Exp(b, m) <= Exp(b, n)
    OBVIOUS
  <2>1. m + 1 \in Nat /\ m + 1 <= n
    OBVIOUS
  <2> QED
    BY <1>1, <1>5, <2>1
<1> QED
  BY <1>2, <1>5, <1>6

(* The digits of a number, also of one below zero, are those of the number *)
(* modulo a power of the base.                                             *)
LEMMA DigitsValue ==
    ASSUME NEW b \in Nat, b >= 2, NEW n \in Int
    PROVE  \A k \in Nat : Value([i \in Nat |-> Digit(n, b, i)], b, k) = n % Exp(b, k)
<1> DEFINE d == [i \in Nat |-> Digit(n, b, i)]
           S == {k \in Nat : Value(d, b, k) = n % Exp(b, k)}
<1>1. \A k \in Nat : Exp(b, k) \in Nat \ {0} /\ Exp(b, k + 1) = b * Exp(b, k)
  <2>1. \A k \in Nat : Exp(b, k) \in Nat /\ k < Exp(b, k) /\ Exp(b, k + 1) = b * Exp(b, k)
    BY ExpGrows, ExpSteps
  <2> QED
    BY <2>1
<1>2. d \in [Nat -> Int]
  <2>1. \A i \in Nat : Digit(n, b, i) \in Int
    BY <1>1 DEF Digit
  <2> QED
    BY <2>1
<1>3. /\ Value(d, b, 0) = 0
      /\ \A k \in Nat : Value(d, b, k + 1) = Value(d, b, k) + Digit(n, b, k) * Exp(b, k)
  <2>1. \A k \in Nat : d[k] = Digit(n, b, k)
    OBVIOUS
  <2> HIDE DEF d
  <2>2. b \in Int
    OBVIOUS
  <2>3. /\ Value(d, b, 0) = 0
        /\ \A k \in Nat : Value(d, b, k + 1) = Value(d, b, k) + d[k] * Exp(b, k)
    BY <1>2, <2>2, ValueSteps
  <2> QED
    BY <2>1, <2>3
<1> HIDE DEF d
<1>4. 0 \in S
  <2>1. Exp(b, 0) = 1
    BY ExpSteps
  <2> QED
    BY <1>3, <2>1
<1>5. ASSUME NEW k \in Nat, k \in S PROVE k + 1 \in S
  <2> DEFINE e == Exp(b, k)
             q == n \div e
  <2>1. e \in Nat \ {0} /\ Exp(b, k + 1) = b * e
    BY <1>1
  <2> HIDE DEF e
  <2>2. q \in Int /\ n = e * q + (n % e) /\ n % e \in 0 .. e - 1
    BY <2>1
  <2> HIDE DEF q
  <2>3. q = b * (q \div b) + (q % b) /\ q % b \in 0 .. b - 1 /\ q \div b \in Int
    BY <2>2
  <2>4. \A x \in Int, r \in 0 .. e - 1, c \in 0 .. b - 1 :
           /\ e * (b * x + c) + r = (b * e) * x + (c * e + r)
           /\ c * e + r \in 0 .. b * e - 1
    <3> SUFFICES ASSUME NEW x \in Int, NEW r \in 0 .. e - 1, NEW c \in 0 .. b - 1
                 PROVE  /\ e * (b * x + c) + r = (b * e) * x + (c * e + r)
                        /\ c * e + r \in 0 .. b * e - 1
      OBVIOUS
    <3>1. e * (b * x + c) + r = (b * e) * x + (c * e + r)
      BY <2>1
    <3>2. c * e <= (b - 1) * e /\ (b - 1) * e = b * e - e /\ c * e >= 0
      BY <2>1
    <3>3. c * e \in Int /\ b * e \in Int
      BY <2>1
    <3> QED
      BY <2>1, <3>1, <3>2, <3>3
  <2>5. /\ n = (b * e) * (q \div b) + ((q % b) * e + (n % e))
        /\ (q % b) * e + (n % e) \in 0 .. b * e - 1
    <3>1. n = e * (b * (q \div b) + (q % b)) + (n % e)
      BY <2>2, <2>3
    <3> HIDE DEF q
    <3>2. q \div b \in Int /\ n % e \in 0 .. e - 1 /\ q % b \in 0 .. b - 1
      BY <2>2, <2>3
    <3>3. /\ e * (b * (q \div b) + (q % b)) + (n % e)
               = (b * e) * (q \div b) + ((q % b) * e + (n % e))
          /\ (q % b) * e + (n % e) \in 0 .. b * e - 1
      BY <2>4, <3>2
    <3> QED
      BY <3>1, <3>3
  <2>6. b * e \in Nat \ {0}
    BY <2>1
  <2>7. \A m \in Nat \ {0} : \A x \in Int : \A r \in 0 .. m - 1 : n = m * x + r => n % m = r
    OBVIOUS
  <2>8. n % (b * e) = (q % b) * e + (n % e)
    BY <2>3, <2>5, <2>6, <2>7
  <2>9. Value(d, b, k + 1) = (n % e) + (q % b) * e
    BY <1>3, <1>5 DEF Digit, e, q
  <2>10. (q % b) * e \in Int /\ n % e \in Int
    BY <2>1, <2>2, <2>3
  <2> QED
    BY <2>1, <2>8, <2>9, <2>10
<1>6. \A k \in Nat : k \in S
  <2> HIDE DEF S
  <2> QED
    BY <1>4, <1>5, Induction
<1> QED
  BY <1>6 DEF d

-----------------------------------------------------------------------------
(* The inductive invariant: what stands in the container, and the status,  *)
(* are what one of the overloads returns for what it was given.            *)

Returned(input, result) ==
    given = input /\ data = result.data /\ status = result.status

NumberReturned(source, t, results) ==
    \E result \in NumberResults(source, t, results) :
        Returned([source |-> source, tenths |-> t], result)

SignedResults(t) == {Converted("int64", Trunc(t))}
UnsignedResults(t) == {Converted("uint64", Trunc(t))}
DecimalResults(t) == {Converted("decimal", n) : n \in getInt(t)}

NumberExplained(t) ==
    \/ t % 10 = 0 /\ Trunc(t) \in UInt64 /\ NumberReturned("uint64", t, UnsignedResults(t))
    \/ t % 10 = 0 /\ Trunc(t) \in Int64 /\ NumberReturned("int64", t, SignedResults(t))
    \/ NumberReturned("double", t, DoubleResults(t))
    \/ NumberReturned("decimal", t, DecimalResults(t))
    \/ NumberReturned("string", t, {TextResult(t)})

OctalExplained(t) ==
    /\ type \in Integral /\ t >= 0 /\ t % 10 = 0
    /\ NumberReturned("octal", t, {ZeroTextResult(Trunc(t))})

DateExplained(d) ==
    \/ /\ type \notin TextTypes
       /\ Returned([source |-> "datetext", object |-> d, valid |-> validateDate(d)],
                   DateTextResult(d))
    \/ Returned([source |-> "datetime", object |-> d, valid |-> validateDate(d)],
                DateTimeResult(d))

TimeExplained(t) ==
    \/ /\ type \notin TextTypes
       /\ Returned([source |-> "timetext", object |-> t, valid |-> validateTime(t)],
                   TimeTextResult(t))
    \/ Returned([source |-> "time", object |-> t, valid |-> validateTime(t)], TimeResult(t))

Explained ==
    /\ column \in Columns
    /\ \/ given = Nothing /\ data = Nothing /\ status = "none"
       \/ \E t \in Tenths : NumberExplained(t) \/ OctalExplained(t)
       \/ \E d \in DateTimes : DateExplained(d)
       \/ \E t \in Times : TimeExplained(t)
       \/ \E nullable \in BOOLEAN :
              Returned([source |-> "null", nullable |-> nullable], NullResult(nullable))

(* What an overload returns depends on the column only, which none of them *)
(* changes.                                                                *)
LEMMA Frame ==
    ASSUME column' = column
    PROVE  /\ type' = type /\ Size' = Size
           /\ \A n : (Number(n))' = Number(n)
           /\ \A s, c, n : (Bounded(s, c, n))' = Bounded(s, c, n)
           /\ Zero' = Zero /\ Invalid' = Invalid
<1>1. type' = type /\ Size' = Size
  BY DEF Size, type, DecimalBits
<1>2. ASSUME NEW n PROVE (Number(n))' = Number(n)
  BY <1>1 DEF Number
<1>3. ASSUME NEW s PROVE (Largest(s))' = Largest(s)
  BY <1>1 DEF Largest, FiveFs
<1>4. ASSUME NEW s PROVE (Highest(s))' = Highest(s)
  BY <1>1, <1>3 DEF Highest
<1>5. ASSUME NEW s PROVE (Least(s))' = Least(s)
  BY <1>1, <1>2 DEF Least
<1>6. ASSUME NEW s, NEW c, NEW n PROVE (Bounded(s, c, n))' = Bounded(s, c, n)
  BY <1>1, <1>2, <1>3, <1>4, <1>5 DEF Bounded
<1>7. Zero' = Zero
  BY <1>1, <1>2 DEF Zero, Real, Word, Text
<1> QED
  BY <1>1, <1>2, <1>6, <1>7 DEF Invalid

(* The results for a number depend on the column alone.                    *)
LEMMA NumberFrame ==
    ASSUME column' = column, NEW t
    PROVE  /\ (SignedResults(t))' = SignedResults(t)
           /\ (UnsignedResults(t))' = UnsignedResults(t)
           /\ (DecimalResults(t))' = DecimalResults(t)
           /\ (DoubleResults(t))' = DoubleResults(t)
           /\ (TextResult(t))' = TextResult(t)
           /\ (ZeroTextResult(Trunc(t)))' = ZeroTextResult(Trunc(t))
           /\ \A s, results : (NumberResults(s, t, results))' = NumberResults(s, t, results)
<1> USE Frame
<1>1. (SignedResults(t))' = SignedResults(t) /\ (UnsignedResults(t))' = UnsignedResults(t)
  BY DEF SignedResults, UnsignedResults, Converted
<1>2. \A s, n : (Converted(s, n))' = Converted(s, n)
  BY DEF Converted
<1>3. (DecimalResults(t))' = DecimalResults(t)
  BY <1>2 DEF DecimalResults
<1>4. (DoubleResults(t))' = DoubleResults(t)
  BY <1>2 DEF DoubleResults
<1>5. \A n : Parses(n)' = Parses(n) /\ (FromText(n))' = FromText(n)
  BY <1>2 DEF Parses, FromText
<1>6. /\ (TextResult(t))' = TextResult(t)
      /\ (ZeroTextResult(Trunc(t)))' = ZeroTextResult(Trunc(t))
  BY <1>5 DEF TextResult, ZeroTextResult
<1>7. ASSUME NEW s, NEW n PROVE (ToWidth(s, n))' = ToWidth(s, n)
  BY DEF ToWidth, SignedBounds
<1>8. /\ (Scaled(t))' = Scaled(t)
      /\ (Products(t))' = Products(t)
      /\ (getDecimalInt(t))' = getDecimalInt(t)
  <2>1. (Scaled(t))' = Scaled(t)
    BY DEF Scaled
  <2>2. (Product(t))' = Product(t)
    BY <2>1 DEF Product
  <2> QED
    BY <2>1, <2>2 DEF Products, getDecimalInt
<1>9. ASSUME NEW s PROVE (DecimalInts(s, t))' = DecimalInts(s, t)
  BY <1>8 DEF DecimalInts
<1>10. ASSUME NEW s, NEW results
       PROVE  (NumberResults(s, t, results))' = NumberResults(s, t, results)
  <2>1. /\ (ToFloat(s, t))' = ToFloat(s, t)
        /\ \A length : (ToText(length))' = ToText(length)
    BY DEF ToFloat, ToText, Real
  <2>2. {(ToWidth(s, n))' : n \in (DecimalInts(s, t))'} = {ToWidth(s, n) : n \in DecimalInts(s, t)}
    BY <1>7, <1>9
  <2> QED
    BY <2>1, <2>2 DEF NumberResults
<1> QED
  BY <1>1, <1>3, <1>4, <1>6, <1>10

(* The results for dates, times and NULL depend on the column alone.       *)
LEMMA DateFrame ==
    ASSUME column' = column
    PROVE  /\ \A d : (DateTextResult(d))' = DateTextResult(d)
           /\ \A d : (DateTimeResult(d))' = DateTimeResult(d)
           /\ \A t : (TimeTextResult(t))' = TimeTextResult(t)
           /\ \A t : (TimeResult(t))' = TimeResult(t)
           /\ \A nullable : (NullResult(nullable))' = NullResult(nullable)
<1> USE Frame
<1>1. /\ \A set : (Word(set))' = Word(set)
      /\ \A length : (ToText(length))' = ToText(length)
  BY DEF Word, ToText
<1>2. /\ \A d : (DateTextResult(d))' = DateTextResult(d)
      /\ \A d : (DateTimeResult(d))' = DateTimeResult(d)
  BY <1>1 DEF DateTextResult, DateTimeResult
<1>3. /\ \A t : (TimeTextResult(t))' = TimeTextResult(t)
      /\ \A t : (TimeResult(t))' = TimeResult(t)
  BY <1>1 DEF TimeTextResult, TimeResult
<1>4. NullData' = NullData
  BY <1>1 DEF NullData, Real, Text
<1> QED
  BY <1>2, <1>3, <1>4 DEF NullResult

(* What stands in the container is what one of the overloads returned.     *)
LEMMA EveryResultIsExplained == Spec => []Explained
<1>1. Init => Explained
  BY DEF Init, Explained
<1>2. Explained /\ [Next]_vars => Explained'
  <2> SUFFICES ASSUME Explained, [Next]_vars PROVE Explained'
    OBVIOUS
  <2>1. column' = column /\ column \in Columns
    BY Zenon DEF Explained, Next, vars, Return, ConvertUnsigned, ConvertSigned, ConvertDouble,
        ConvertDecimal, ConvertNumberText, ConvertZeroText, ConvertNumber, ConvertDateText,
        ConvertDateTime, ConvertTimeText, ConvertTime, GetNull
  <2>2. ASSUME NEW t, NEW source, NEW results, ConvertNumber(source, t, results)
        PROVE  \E result \in NumberResults(source, t, results) :
                   (Returned([source |-> source, tenths |-> t], result))'
    BY <2>2 DEF ConvertNumber, Return, Returned
  <2>3. ASSUME NEW t \in Tenths, ConvertUnsigned(t) PROVE NumberExplained(t)'
    <3>1. /\ ConvertNumber("uint64", t, UnsignedResults(t))
          /\ t % 10 = 0 /\ Trunc(t) \in UInt64
      BY <2>3 DEF ConvertUnsigned, UnsignedResults
    <3> QED
      BY <2>1, <2>2, <3>1, NumberFrame DEF NumberExplained, NumberReturned
  <2>4. ASSUME NEW t \in Tenths, ConvertSigned(t) PROVE NumberExplained(t)'
    <3>1. /\ ConvertNumber("int64", t, SignedResults(t))
          /\ t % 10 = 0 /\ Trunc(t) \in Int64
      BY <2>4 DEF ConvertSigned, SignedResults
    <3> QED
      BY <2>1, <2>2, <3>1, NumberFrame DEF NumberExplained, NumberReturned
  <2>5. ASSUME NEW t \in Tenths, ConvertDouble(t) PROVE NumberExplained(t)'
    BY <2>1, <2>2, <2>5, NumberFrame DEF ConvertDouble, NumberExplained, NumberReturned
  <2>6. ASSUME NEW t \in Tenths, ConvertDecimal(t) PROVE NumberExplained(t)'
    BY <2>1, <2>2, <2>6, NumberFrame
       DEF ConvertDecimal, NumberExplained, NumberReturned, DecimalResults
  <2>7. ASSUME NEW t \in Tenths, ConvertNumberText(t) PROVE NumberExplained(t)'
    <3>1. ConvertNumber("string", t, {TextResult(t)})
      BY <2>7 DEF ConvertNumberText
    <3>2. (NumberReturned("string", t, {TextResult(t)}))'
      BY <2>1, <2>2, <3>1, NumberFrame DEF NumberReturned
    <3> QED
      BY <3>2 DEF NumberExplained
  <2>8. ASSUME NEW t \in Tenths, ConvertZeroText(t) PROVE OctalExplained(t)'
    BY <2>1, <2>2, <2>8, Frame, NumberFrame DEF ConvertZeroText, OctalExplained, NumberReturned
  <2>9. ASSUME NEW d \in DateTimes, ConvertDateText(d) \/ ConvertDateTime(d)
        PROVE  DateExplained(d)'
    BY <2>1, <2>9, Frame, DateFrame
       DEF ConvertDateText, ConvertDateTime, Return, Returned, DateExplained
  <2>10. ASSUME NEW t \in Times, ConvertTimeText(t) \/ ConvertTime(t) PROVE TimeExplained(t)'
    BY <2>1, <2>10, Frame, DateFrame
       DEF ConvertTimeText, ConvertTime, Return, Returned, TimeExplained
  <2>11. ASSUME NEW nullable \in BOOLEAN, NEW autoincrement \in BOOLEAN,
                GetNull(nullable, autoincrement)
         PROVE  \E b \in BOOLEAN :
                    (Returned([source |-> "null", nullable |-> b], NullResult(b)))'
    <3>1. (nullable \/ autoincrement) \in BOOLEAN
      OBVIOUS
    <3> QED
      BY <2>1, <2>11, <3>1, DateFrame DEF GetNull, Return, Returned
  <2>12. CASE UNCHANGED vars
    <3>1. \A input, result : Returned(input, result) =>
             input = given' /\ result.data = data' /\ result.status = status'
      BY <2>12 DEF vars, Returned
    <3>2. ASSUME NEW t, NEW source, NEW results, NumberReturned(source, t, results)
          PROVE  \E result \in NumberResults(source, t, results) :
                     (Returned([source |-> source, tenths |-> t], result))'
      BY <3>1, <3>2 DEF NumberReturned, Returned
    <3>3. ASSUME NEW t, NumberExplained(t) PROVE NumberExplained(t)'
      <4>1. ASSUME NumberReturned("uint64", t, UnsignedResults(t))
            PROVE  (NumberReturned("uint64", t, UnsignedResults(t)))'
        BY <2>1, <3>2, <4>1, NumberFrame DEF NumberReturned
      <4>2. ASSUME NumberReturned("int64", t, SignedResults(t))
            PROVE  (NumberReturned("int64", t, SignedResults(t)))'
        BY <2>1, <3>2, <4>2, NumberFrame DEF NumberReturned
      <4>3. ASSUME NumberReturned("double", t, DoubleResults(t))
            PROVE  (NumberReturned("double", t, DoubleResults(t)))'
        BY <2>1, <3>2, <4>3, NumberFrame DEF NumberReturned
      <4>4. ASSUME NumberReturned("decimal", t, DecimalResults(t))
            PROVE  (NumberReturned("decimal", t, DecimalResults(t)))'
        BY <2>1, <3>2, <4>4, NumberFrame DEF NumberReturned
      <4>5. ASSUME NumberReturned("string", t, {TextResult(t)})
            PROVE  (NumberReturned("string", t, {TextResult(t)}))'
        BY <2>1, <3>2, <4>5, NumberFrame DEF NumberReturned
      <4> QED
        BY <3>3, <4>1, <4>2, <4>3, <4>4, <4>5 DEF NumberExplained
    <3>4. ASSUME NEW t, OctalExplained(t) PROVE OctalExplained(t)'
      BY <2>1, <3>2, <3>4, Frame, NumberFrame DEF OctalExplained, NumberReturned
    <3>5. ASSUME NEW d, DateExplained(d) PROVE DateExplained(d)'
      BY <2>1, <3>1, <3>5, Frame, DateFrame DEF DateExplained, Returned
    <3>6. ASSUME NEW t, TimeExplained(t) PROVE TimeExplained(t)'
      BY <2>1, <3>1, <3>6, Frame, DateFrame DEF TimeExplained, Returned
    <3>7. ASSUME NEW b, Returned([source |-> "null", nullable |-> b], NullResult(b))
          PROVE  (Returned([source |-> "null", nullable |-> b], NullResult(b)))'
      BY <2>1, <3>1, <3>7, DateFrame DEF Returned
    <3> QED
      BY <2>1, <2>12, <3>3, <3>4, <3>5, <3>6, <3>7 DEF vars, Explained
  <2> QED
    BY <2>1, <2>3, <2>4, <2>5, <2>6, <2>7, <2>8, <2>9, <2>10, <2>11, <2>12 DEF Next, Explained
<1> QED
  BY <1>1, <1>2, PTL DEF Spec

-----------------------------------------------------------------------------
(* The widths of the integers, and a number of some width.                 *)

BitWidths == {Bits8, Bits16, Bits24, Bits32, Bits64}

(* The limits of the integer types, and how those of different widths      *)
(* compare.                                                                *)
LEMMA IntegerWidths ==
    /\ \A b \in BitWidths :
          /\ IntMax(b) \in Nat /\ IntMax(b) >= 3
          /\ IntMin(b) = -IntMax(b) - 1
          /\ UIntMax(b) = 2 * IntMax(b) + 1
          /\ Exp(2, b) = 2 * IntMax(b) + 2
    /\ UIntMax(Bits8) <= IntMax(Bits16)
    /\ UIntMax(Bits16) <= IntMax(Bits24)
    /\ Bits24 = Bits32 \/ UIntMax(Bits24) <= IntMax(Bits32)
    /\ UIntMax(Bits32) <= IntMax(Bits64)
    /\ FiveFs \in Nat /\ FiveFs >= 31 /\ FiveFs <= IntMax(Bits24)
<1>0. /\ BitWidths \subseteq Nat \ {0, 1, 2}
      /\ Bits8 < Bits16 /\ Bits16 < Bits24 /\ Bits24 <= Bits32 /\ Bits32 < Bits64
  <2>1. /\ Bits8 \in Nat /\ Bits16 \in Nat /\ Bits24 \in Nat /\ Bits32 \in Nat /\ Bits64 \in Nat
        /\ 3 <= Bits8 /\ Bits8 < Bits16 /\ Bits16 < Bits24
        /\ Bits24 <= Bits32 /\ Bits32 < Bits64
    BY DataConvertAssumption
  <2> QED
    BY <2>1 DEF BitWidths
<1> DEFINE E(n) == Exp(2, n)
<1>1. /\ \A n \in Nat : E(n) \in Nat /\ E(n + 1) = 2 * E(n)
      /\ \A m, n \in Nat : m <= n => E(m) <= E(n)
      /\ E(0) = 1
  BY ExpSteps, ExpGrows
<1> HIDE DEF E
<1>2. E(1) = 2 /\ E(2) = 4 /\ E(3) = 8 /\ E(4) = 16 /\ E(5) = 32
  <2>1. E(0 + 1) = 2 * E(0) /\ E(1 + 1) = 2 * E(1) /\ E(2 + 1) = 2 * E(2)
           /\ E(3 + 1) = 2 * E(3) /\ E(4 + 1) = 2 * E(4)
    BY <1>1
  <2> QED
    BY <1>1, <2>1
<1>3. ASSUME NEW b \in BitWidths PROVE E(b - 1) \in Nat /\ E(b) = 2 * E(b - 1) /\ E(b - 1) >= 4
  <2>1. b - 1 \in Nat /\ (b - 1) + 1 = b /\ 2 <= b - 1
    BY <1>0
  <2>2. E((b - 1) + 1) = 2 * E(b - 1) /\ E(b - 1) \in Nat /\ E(2) <= E(b - 1)
    BY <1>1, <2>1
  <2> QED
    BY <1>2, <2>1, <2>2
<1>4. \A b : IntMax(b) = E(b - 1) - 1 /\ IntMin(b) = -E(b - 1) /\ UIntMax(b) = E(b) - 1
  BY DEF IntMax, IntMin, UIntMax, E
<1>5. ASSUME NEW m \in BitWidths, NEW n \in BitWidths, m < n
      PROVE  UIntMax(m) <= IntMax(n)
  <2>1. m \in Nat /\ n - 1 \in Nat /\ m <= n - 1
    BY <1>0, <1>5
  <2>2. E(m) <= E(n - 1) /\ E(m) \in Nat /\ E(n - 1) \in Nat
    BY <1>1, <2>1
  <2> QED
    BY <1>4, <2>2
<1>6. FiveFs \in Nat /\ FiveFs >= 31 /\ FiveFs <= IntMax(Bits24)
  <2> DEFINE q == Bits24 \div 6
  <2>1. Bits24 \in Nat /\ Bits24 >= 5 /\ Bits24 % 6 = 0
    BY DataConvertAssumption
  <2>2. q \in Nat /\ q >= 1 /\ Bits24 = 6 * q
    BY <2>1
  <2>3. FiveFs = E(5 * q) - 1
    BY <1>4 DEF FiveFs
  <2> HIDE DEF q
  <2>4. 5 * q \in Nat /\ 5 <= 5 * q /\ 5 * q <= Bits24 - 1 /\ Bits24 - 1 \in Nat
    BY <2>2
  <2>5. E(5) <= E(5 * q) /\ E(5 * q) <= E(Bits24 - 1) /\ E(5 * q) \in Nat /\ E(Bits24 - 1) \in Nat
    BY <1>1, <2>4
  <2> QED
    BY <1>2, <1>4, <2>3, <2>5
<1>7. \A b \in BitWidths :
          /\ IntMax(b) \in Nat /\ IntMax(b) >= 3
          /\ IntMin(b) = -IntMax(b) - 1
          /\ UIntMax(b) = 2 * IntMax(b) + 1
          /\ E(b) = 2 * IntMax(b) + 2
  BY <1>3, <1>4
<1>8. {Bits8, Bits16, Bits24, Bits32, Bits64} \subseteq BitWidths
  BY DEF BitWidths
<1>9. Bits24 = Bits32 \/ Bits24 < Bits32
  BY DataConvertAssumption
<1>10. Bits24 = Bits32 \/ UIntMax(Bits24) <= IntMax(Bits32)
  BY <1>5, <1>8, <1>9
<1>11. /\ UIntMax(Bits8) <= IntMax(Bits16) /\ UIntMax(Bits16) <= IntMax(Bits24)
       /\ UIntMax(Bits32) <= IntMax(Bits64)
  BY <1>0, <1>5, <1>8
<1>12. \A b \in BitWidths : Exp(2, b) = 2 * IntMax(b) + 2
  BY <1>7 DEF E
<1> QED
  BY <1>6, <1>7, <1>10, <1>11, <1>12

(* A column of a type for integers has one of the widths.                  *)
LEMMA SizeIsWidth ==
    ASSUME column \in Columns, type \in Integral \cup Decimals
    PROVE  Size \in BitWidths
<1>1. type \in Decimals => column.width \in {1, 2, 4, 8}
  BY DEF Columns, type, Decimals, Types, Integral, Signed, Unsigned, TextTypes
<1> QED
  BY <1>1 DEF Size, DecimalBits, BitWidths, Integral, Signed, Unsigned, Decimals

(* A number in the range of its column is read as it was stored.           *)
LEMMA StoredNumber ==
    ASSUME column \in Columns, type \in Integral \cup Decimals, NEW n \in Int,
           data = Number(n)
    PROVE  /\ data = [bits |-> Size, number |-> data.number]
           /\ data.number \in 0 .. UIntMax(Size)
           /\ (type \in Signed \cup {"DECIMAL"} /\ n \in IntMin(Size) .. IntMax(Size))
                 => Stored = n
           /\ (type \notin Signed \cup {"DECIMAL"} /\ n \in 0 .. UIntMax(Size))
                 => Stored = n
           /\ n \in 0 .. UIntMax(Size) => data.number = n
           /\ n \in IntMin(Size) .. -1 => data.number = n + Exp(2, Size)
<1> DEFINE M == IntMax(Size)
<1>1. /\ M \in Nat /\ IntMin(Size) = -M - 1 /\ UIntMax(Size) = 2 * M + 1
      /\ Exp(2, Size) = 2 * M + 2
  <2>1. Size \in BitWidths
    BY SizeIsWidth
  <2> QED
    BY <2>1, IntegerWidths
<1>2. data.bits = Size /\ data.number = n % (2 * M + 2)
      /\ data = [bits |-> Size, number |-> data.number]
  BY <1>1 DEF Number
<1> HIDE DEF M
<1>3. /\ n % (2 * M + 2) \in 0 .. 2 * M + 1
      /\ n \in 0 .. 2 * M + 1 => n % (2 * M + 2) = n
      /\ n \in -M - 1 .. -1 => n % (2 * M + 2) = n + (2 * M + 2)
  <2>1. \A m \in Nat \ {0} : \A k \in Int : k % m \in 0 .. m - 1
    OBVIOUS
  <2>2. \A m \in Nat \ {0} : \A k \in 0 .. m - 1 : k % m = k
    OBVIOUS
  <2>3. \A m \in Nat \ {0} : \A k \in Int : k \in -m .. -1 => k % m = k + m
    OBVIOUS
  <2>4. 2 * M + 2 \in Nat \ {0}
    BY <1>1
  <2> DEFINE m == 2 * M + 2
  <2>5. m \in Nat \ {0} /\ 0 .. 2 * M + 1 = 0 .. m - 1
    BY <1>1
  <2>6. \A k \in -M - 1 .. -1 : k \in Int /\ k \in -m .. -1
    BY <1>1
  <2> HIDE DEF m
  <2>7. n % m \in 0 .. m - 1 /\ (n \in 0 .. m - 1 => n % m = n)
    BY <2>1, <2>2, <2>5
  <2>8. n \in -M - 1 .. -1 => n % m = n + m
    BY <2>3, <2>5, <2>6
  <2>9. n % m \in 0 .. 2 * M + 1 /\ (n \in 0 .. 2 * M + 1 => n % m = n)
    BY <2>5, <2>7
  <2> QED
    BY <2>8, <2>9 DEF m
<1>4. Stored = IF type \in Signed \cup {"DECIMAL"} /\ data.number > M
               THEN data.number - (2 * M + 2)
               ELSE data.number
  BY <1>1, <1>2 DEF Stored, M
<1> QED
  BY <1>1, <1>2, <1>3, <1>4 DEF M

-----------------------------------------------------------------------------
(* The bounds of the columns for integers.                                 *)

IntegerTypes == Integral \ {"BIT"}

(* The types whose bounds are the range without its two reserved values.   *)
PlainTypes == {"TINYINT", "SMALLINT", "INT", "BIGINT", "UTINYINT", "UINT", "UBIGINT"}

(* The limits of the type of the column.                                   *)
LEMMA WidthOfSize ==
    ASSUME column \in Columns, type \in Integral \cup Decimals
    PROVE  /\ IntMax(Size) \in Nat /\ IntMax(Size) >= 3
           /\ IntMin(Size) = -IntMax(Size) - 1
           /\ UIntMax(Size) = 2 * IntMax(Size) + 1
           /\ Exp(2, Size) = 2 * IntMax(Size) + 2
<1>1. Size \in BitWidths
  BY SizeIsWidth
<1> QED
  BY <1>1, IntegerWidths

(* The widths that the bounds of a MEDINT and an UMEDINT come from.        *)
LEMMA MediumWidths ==
    ASSUME type \in {"MEDINT", "UMEDINT"}
    PROVE  /\ Size = Bits32
           /\ FiveFs \in Nat /\ FiveFs >= 31
           /\ SixFs \in Nat /\ FiveFs < SixFs - 2
           /\ FiveFs <= IntMax(Size)
           /\ SixFs <= IntMax(Size) \/ SixFs = UIntMax(Size)
<1>1. Bits24 \in BitWidths /\ Bits32 \in BitWidths
  BY DEF BitWidths
<1>2. /\ IntMax(Bits24) \in Nat /\ UIntMax(Bits24) = 2 * IntMax(Bits24) + 1
      /\ IntMax(Bits32) \in Nat /\ UIntMax(Bits32) = 2 * IntMax(Bits32) + 1
      /\ Bits24 = Bits32 \/ UIntMax(Bits24) <= IntMax(Bits32)
      /\ FiveFs \in Nat /\ FiveFs >= 31 /\ FiveFs <= IntMax(Bits24)
  BY <1>1, IntegerWidths
<1>3. Size = Bits32
  BY DEF Size, Decimals
<1>4. SixFs = UIntMax(Bits24)
  BY DEF SixFs
<1>5. CASE Bits24 = Bits32
  BY <1>2, <1>3, <1>4, <1>5
<1>6. CASE UIntMax(Bits24) <= IntMax(Bits32)
  BY <1>2, <1>3, <1>4, <1>6
<1> QED
  BY <1>2, <1>5, <1>6

(* The bounds of the signed types, as convert() has them: they lie in the  *)
(* type, above its two reserved values.                                    *)
LEMMA SignedRange ==
    ASSUME column \in Columns, type \in Signed \ {"BIT"}, NEW source
    PROVE  /\ Largest(source) \in Nat /\ Largest(source) <= IntMax(Size)
           /\ Highest(source) = Largest(source)
           /\ Least(source) \in Int /\ Least(source) >= IntMin(Size) + 2
           /\ type # "MEDINT" => /\ Largest(source) = IntMax(Size)
                                 /\ Least(source) = IF source = "uint64" THEN 0
                                                    ELSE IntMin(Size) + 2
           /\ type = "MEDINT" => /\ Largest(source) = FiveFs
                                 /\ Least(source) \in {0, SixFs - 2}
<1>1. /\ IntMax(Size) \in Nat /\ IntMax(Size) >= 3 /\ IntMin(Size) = -IntMax(Size) - 1
  BY WidthOfSize DEF Integral
<1>2. Highest(source) = Largest(source)
  BY DEF Highest, Signed
<1>3. CASE type # "MEDINT"
  <2>1. /\ Largest(source) = IntMax(Size)
        /\ Least(source) = IF source = "uint64" THEN 0 ELSE IntMin(Size) + 2
    BY <1>3 DEF Largest, Least, Signed, Unsigned
  <2> QED
    BY <1>1, <1>2, <1>3, <2>1
<1>4. CASE type = "MEDINT"
  <2>1. /\ Largest(source) = FiveFs
        /\ Least(source) = IF source = "uint64" THEN 0 ELSE SixFs - 2
    BY <1>4 DEF Largest, Least, Unsigned
  <2> QED
    BY <1>1, <1>2, <1>4, <2>1, MediumWidths
<1> QED
  BY <1>3, <1>4

(* The bounds of the unsigned types, as convert() has them.                *)
LEMMA UnsignedRange ==
    ASSUME column \in Columns, type \in Unsigned, NEW source
    PROVE  /\ Largest(source) \in Nat /\ Largest(source) <= UIntMax(Size) - 2
           /\ Least(source) = 0
           /\ (type # "USMALLINT" /\ ~(type = "UINT" /\ source = "decimal"))
                 => Highest(source) \in 0 .. UIntMax(Size) - 2
           /\ type \in {"UTINYINT", "UINT"} => Largest(source) = UIntMax(Size) - 2
           /\ type = "UTINYINT" \/ (type = "UINT" /\ source # "decimal")
                 => Highest(source) = Largest(source)
           /\ type = "UBIGINT" =>
                 /\ source \in {"uint64", "string"} => Largest(source) = UIntMax(Size) - 2
                 /\ source \in {"int64", "decimal"} => Largest(source) = IntMax(Size)
                 /\ source # "double" => Highest(source) = Largest(source)
<1>1. IntMax(Size) \in Nat /\ IntMax(Size) >= 3 /\ UIntMax(Size) = 2 * IntMax(Size) + 1
  BY WidthOfSize DEF Integral
<1>2. Least(source) = 0
  BY DEF Least, Unsigned, Signed
<1>3. CASE type \in {"UTINYINT", "USMALLINT", "UINT"}
  <2>1. Largest(source) = UIntMax(Size) - 2
    BY <1>3 DEF Largest
  <2>2. type = "UTINYINT" \/ (type = "UINT" /\ source # "decimal")
           => Highest(source) = Largest(source)
    BY <1>3 DEF Highest
  <2> QED
    BY <1>1, <1>2, <1>3, <2>1, <2>2
<1>4. CASE type = "UMEDINT"
  <2>1. Largest(source) = SixFs - 2 /\ Highest(source) = FiveFs - 2
    BY <1>4 DEF Largest, Highest
  <2> QED
    BY <1>1, <1>2, <1>4, <2>1, MediumWidths
<1>5. CASE type = "UBIGINT"
  <2>1. Size = Bits64
    BY <1>5 DEF Size, Decimals
  <2>2. /\ Largest(source) = CASE source \in {"uint64", "string"} -> UIntMax(Bits64) - 2
                               [] source = "double" -> IntMax(Bits64) + 1
                               [] OTHER -> IntMax(Bits64)
        /\ Highest(source) = IF source = "double" THEN IntMax(Bits64) ELSE Largest(source)
    BY <1>5 DEF Largest, Highest
  <2> QED
    BY <1>1, <1>2, <1>5, <2>1, <2>2
<1> QED
  BY <1>3, <1>4, <1>5 DEF Unsigned

-----------------------------------------------------------------------------
(* What Bounded() stores.                                                  *)

Unreserved ==
    data # NullData /\ data # Number(IF type \in Signed THEN IntMin(Size) + 1 ELSE UIntMax(Size))

(* A number within such bounds is stored as neither NULL nor EMPTY.        *)
LEMMA UnreservedNumber ==
    ASSUME column \in Columns, type \in IntegerTypes, NEW n \in Int, data = Number(n),
           type \in Signed => \/ n \in IntMin(Size) + 2 .. IntMax(Size)
                              \/ type = "MEDINT" /\ n = SixFs - 2,
           type \in Unsigned => n \in 0 .. UIntMax(Size) - 2
    PROVE  Unreserved
<1> DEFINE M == IntMax(Size)
<1>1. /\ M \in Nat /\ M >= 3 /\ IntMin(Size) = -M - 1 /\ UIntMax(Size) = 2 * M + 1
      /\ Exp(2, Size) = 2 * M + 2
  BY WidthOfSize DEF Integral, IntegerTypes
<1> HIDE DEF M
<1>2. \A k \in Int : (Number(k)).number = k % (2 * M + 2)
  BY <1>1 DEF Number
<1>3. \A k \in 0 .. 2 * M + 1 : k % (2 * M + 2) = k
  <2>1. \A m \in Nat \ {0} : \A k \in 0 .. m - 1 : k % m = k
    OBVIOUS
  <2>2. 2 * M + 2 \in Nat \ {0} /\ (2 * M + 2) - 1 = 2 * M + 1
    BY <1>1
  <2> QED
    BY <2>1, <2>2
<1>4. \A k \in -M - 1 .. -1 : k % (2 * M + 2) = k + (2 * M + 2)
  <2> DEFINE m == 2 * M + 2
  <2>1. \A p \in Nat \ {0} : \A k \in -p .. -1 : k % p = k + p
    OBVIOUS
  <2>2. m \in Nat \ {0} /\ \A k \in -M - 1 .. -1 : k \in -m .. -1
    BY <1>1
  <2> HIDE DEF m
  <2>3. \A k \in -M - 1 .. -1 : k % m = k + m
    BY <2>1, <2>2
  <2> QED
    BY <2>3 DEF m
<1>5. CASE type \in Signed
  <2>1. NullData = Number(-M - 1)
    BY <1>1, <1>5 DEF NullData, Signed, Unsigned, IntegerTypes, Floats, TextTypes, DateTypes
  <2>2. (Number(-M - 1)).number = M + 1 /\ (Number(-M)).number = M + 2
    BY <1>1, <1>2, <1>4
  <2>3. (Number(n)).number \notin {M + 1, M + 2}
    <3>1. CASE n \in -M + 1 .. -1
      BY <1>1, <1>2, <1>4, <3>1
    <3>2. CASE n \in 0 .. M
      BY <1>1, <1>2, <1>3, <3>2
    <3>3. CASE type = "MEDINT" /\ n = SixFs - 2
      <4>1. n \in 29 .. M - 2 \/ n = 2 * M - 1
        BY <1>1, <3>3, MediumWidths DEF M
      <4>2. M >= 31
        BY <1>1, <3>3, MediumWidths DEF M
      <4> QED
        BY <1>1, <1>2, <1>3, <4>1, <4>2
    <3> QED
      BY <1>1, <1>5, <3>1, <3>2, <3>3 DEF M
  <2>4. IntMin(Size) + 1 = -M
    BY <1>1
  <2> QED
    BY <1>5, <2>1, <2>2, <2>3, <2>4 DEF Unreserved
<1>6. CASE type \in Unsigned
  <2>1. NullData = Number(2 * M)
    <3>1. UIntMax(Size) - 1 = 2 * M
      BY <1>1
    <3> QED
      BY <1>6, <3>1 DEF NullData, Signed, Unsigned, Floats, TextTypes, DateTypes
  <2>2. (Number(2 * M)).number = 2 * M /\ (Number(2 * M + 1)).number = 2 * M + 1
    BY <1>1, <1>2, <1>3
  <2>3. (Number(n)).number \in 0 .. 2 * M - 1
    <3>1. n \in 0 .. 2 * M - 1 /\ n \in 0 .. 2 * M + 1
      BY <1>1, <1>6
    <3>2. (Number(n)).number = n
      BY <1>2, <1>3, <3>1
    <3> QED
      BY <3>1, <3>2
  <2>4. type \notin Signed
    BY <1>6 DEF Signed, Unsigned
  <2> QED
    BY <1>1, <2>1, <2>2, <2>3, <2>4 DEF Unreserved
<1> QED
  BY <1>5, <1>6 DEF IntegerTypes, Integral

(* compared is the number n that is stored, but for an unsigned column,    *)
(* where it may be further from zero.                                      *)
LEMMA BoundedResult ==
    ASSUME column \in Columns, type \in IntegerTypes, NEW source,
           NEW compared \in Int, NEW n \in Int,
           n = compared \/ (type \in Unsigned /\ (compared >= 0 => n \in 0 .. compared)),
           data = (Bounded(source, compared, n)).data,
           status = (Bounded(source, compared, n)).status
    PROVE  /\ status \in {"none", "saturated"}
           /\ status = "none" <=> compared \in Least(source) .. Largest(source)
           /\ status = "none" => Stored = n
           /\ ~(type = "UTINYINT" /\ source = "int64") /\ ~(type = "UINT" /\ source = "decimal") =>
                 /\ type # "USMALLINT" => Unreserved
                 /\ type \in PlainTypes =>
                       /\ compared > Largest(source) => Stored = Highest(source)
                       /\ compared < Least(source) /\ compared <= Largest(source)
                             => Stored = Least(source)
<1> DEFINE L == Largest(source)
           l == Least(source)
           h == Highest(source)
           bound == IF compared > L THEN h ELSE l
           saturated == compared > L \/ compared < l
           unguarded == source = "int64" /\ type = "UTINYINT"
           stored == IF saturated /\ ~unguarded THEN bound ELSE n
           M == IntMax(Size)
<1>1. data = Number(stored) /\ status = IF saturated THEN "saturated" ELSE "none"
  BY DEF Bounded
<1>2. M \in Nat /\ M >= 3 /\ IntMin(Size) = -M - 1 /\ UIntMax(Size) = 2 * M + 1
  BY WidthOfSize DEF Integral, IntegerTypes
<1>3. type \in Signed \ {"BIT"} \/ type \in Unsigned
  BY DEF IntegerTypes, Integral
<1>4. /\ L \in Nat /\ l \in Int
      /\ type \in Signed =>
            L <= M /\ h = L /\ l >= -M + 1 /\ (l <= M \/ (type = "MEDINT" /\ l = SixFs - 2))
      /\ type \in Unsigned => L <= 2 * M - 1 /\ l = 0
  <2>1. CASE type \in Signed \ {"BIT"}
    <3>1. type \notin Unsigned
      BY <2>1 DEF Signed, Unsigned
    <3>2. type # "MEDINT" => l <= M
      BY <1>2, <2>1, SignedRange
    <3>3. type = "MEDINT" => l \in {0, SixFs - 2}
      BY <2>1, SignedRange
    <3>4. L \in Nat /\ L <= M /\ h = L /\ l \in Int /\ l >= IntMin(Size) + 2
      BY <2>1, SignedRange
    <3>5. l >= -M + 1
      BY <1>2, <3>4
    <3>6. l <= M \/ (type = "MEDINT" /\ l = SixFs - 2)
      BY <1>2, <3>2, <3>3
    <3> HIDE DEF L, l, h, M
    <3> QED
      BY <3>1, <3>4, <3>5, <3>6
  <2>2. CASE type \in Unsigned
    <3>1. type \notin Signed
      BY <2>2 DEF Signed, Unsigned
    <3> QED
      BY <1>2, <2>2, <3>1, UnsignedRange
  <2> QED
    BY <1>3, <2>1, <2>2
<1>5. \A k : data = Number(k) /\ k \in Int =>
         /\ type \in Signed /\ k \in -M - 1 .. M => Stored = k
         /\ type \in Unsigned /\ k \in 0 .. 2 * M + 1 => Stored = k
  <2>1. type \in Unsigned => type \notin Signed \cup {"DECIMAL"}
    BY DEF Signed, Unsigned
  <2>2. type \in Integral \cup Decimals
    BY DEF IntegerTypes
  <2> QED
    BY <1>2, <2>1, <2>2, StoredNumber
<1> HIDE DEF L, l, h, M
<1>6. /\ status \in {"none", "saturated"}
      /\ status = "none" <=> compared \in l .. L
  BY <1>1, <1>4
<1>7. status = "none" => stored = n /\ Stored = n
  <2> SUFFICES ASSUME compared \in l .. L PROVE stored = n /\ Stored = n
    BY <1>6
  <2>1. stored = n
    BY <1>4
  <2>2. CASE type \in Signed \ {"BIT"}
    <3>1. n = compared /\ n \in Int
      BY <2>2 DEF Signed, Unsigned
    <3>2. n \in -M - 1 .. M
      BY <1>2, <1>4, <2>2, <3>1
    <3> QED
      BY <1>1, <1>5, <2>1, <2>2, <3>1, <3>2
  <2>3. CASE type \in Unsigned
    <3>1. n \in 0 .. 2 * M + 1
      BY <1>2, <1>4, <2>3
    <3> QED
      BY <1>1, <1>5, <2>1, <2>3, <3>1
  <2> QED
    BY <1>3, <2>1, <2>2, <2>3
<1>8. ASSUME ~(type = "UTINYINT" /\ source = "int64"), ~(type = "UINT" /\ source = "decimal")
      PROVE  /\ type # "USMALLINT" => Unreserved
             /\ type \in PlainTypes =>
                   /\ compared > L => Stored = h
                   /\ compared < l /\ compared <= L => Stored = l
  <2>1. stored = IF compared > L THEN h ELSE IF compared < l THEN l ELSE n
    BY <1>4, <1>8
  <2>2. CASE type \in Signed \ {"BIT"}
    <3>1. n = compared /\ type \notin Unsigned
      BY <2>2 DEF Signed, Unsigned
    <3>2. stored \in -M + 1 .. M \/ (type = "MEDINT" /\ stored = SixFs - 2)
      BY <1>2, <1>4, <2>1, <2>2, <3>1
    <3>3. Unreserved
      <4>1. stored \in Int
        BY <1>2, <1>4, <2>1, <2>2
      <4>2. stored \in IntMin(Size) + 2 .. IntMax(Size) \/ (type = "MEDINT" /\ stored = SixFs - 2)
        BY <1>2, <3>2 DEF M
      <4> HIDE DEF stored
      <4> QED
        BY <1>1, <3>1, <4>1, <4>2, UnreservedNumber
    <3>4. type \in PlainTypes => stored \in -M - 1 .. M /\ stored \in Int
      <4>1. type \in PlainTypes => type # "MEDINT"
        BY DEF PlainTypes
      <4> HIDE DEF stored
      <4> QED
        BY <1>2, <3>2, <4>1
    <3>5. type \in PlainTypes => Stored = stored
      <4> HIDE DEF stored
      <4> QED
        BY <1>1, <1>5, <2>2, <3>4
    <3> QED
      BY <1>4, <2>1, <3>3, <3>5
  <2>3. CASE type \in Unsigned
    <3>1. type \notin Signed
      BY <2>3 DEF Signed, Unsigned
    <3>2. type # "USMALLINT" => h \in 0 .. 2 * M - 1
      <4>1. type # "USMALLINT" => h \in 0 .. UIntMax(Size) - 2
        BY <1>8, <2>3, UnsignedRange DEF h
      <4> QED
        BY <1>2, <4>1
    <3>3. type # "USMALLINT" => stored \in 0 .. 2 * M - 1
      BY <1>2, <1>4, <2>1, <2>3, <3>2
    <3>4. type # "USMALLINT" => Unreserved
      <4>1. type # "USMALLINT" => stored \in Int /\ stored \in 0 .. UIntMax(Size) - 2
        BY <1>2, <3>3
      <4> HIDE DEF stored
      <4> QED
        BY <1>1, <3>1, <4>1, UnreservedNumber
    <3>5. type \in PlainTypes => stored \in 0 .. 2 * M + 1 /\ stored \in Int
      <4>1. type \in PlainTypes => type # "USMALLINT"
        BY DEF PlainTypes
      <4> HIDE DEF stored
      <4> QED
        BY <1>2, <3>3, <4>1
    <3>6. type \in PlainTypes => Stored = stored
      <4> HIDE DEF stored
      <4> QED
        BY <1>1, <1>5, <2>3, <3>5
    <3> QED
      BY <1>4, <2>1, <3>4, <3>6
  <2> QED
    BY <1>3, <2>2, <2>3
<1> QED
  BY <1>6, <1>7, <1>8 DEF L, l, h

-----------------------------------------------------------------------------
(* Doubles: what rounding does to an integer.                              *)

(* Powers multiply as exponents add.                                       *)
LEMMA ExpAdds ==
    ASSUME NEW b \in Int, NEW m \in Nat
    PROVE  \A n \in Nat : Exp(b, m + n) = Exp(b, m) * Exp(b, n)
<1> DEFINE E(n) == Exp(b, n)
           S == {n \in Nat : E(m + n) = E(m) * E(n)}
<1>1. E(0) = 1 /\ \A n \in Nat : E(n) \in Int /\ E(n + 1) = b * E(n)
  BY ExpSteps
<1> HIDE DEF E
<1>2. 0 \in S
  BY <1>1
<1>3. ASSUME NEW n \in Nat, n \in S PROVE n + 1 \in S
  <2>1. m + n \in Nat /\ m + (n + 1) = (m + n) + 1
    OBVIOUS
  <2>2. E(m + (n + 1)) = b * E(m + n)
    BY <1>1, <2>1
  <2>3. E(m + n) = E(m) * E(n) /\ E(m) \in Int /\ E(n) \in Int /\ E(n + 1) = b * E(n)
    BY <1>1, <1>3
  <2>4. \A x, y \in Int : b * (x * y) = x * (b * y)
    OBVIOUS
  <2>5. b * (E(m) * E(n)) = E(m) * (b * E(n))
    BY <2>3, <2>4
  <2> QED
    BY <2>2, <2>3, <2>5
<1>4. \A n \in Nat : n \in S
  <2> HIDE DEF S
  <2> QED
    BY <1>2, <1>3, Induction
<1> QED
  BY <1>4 DEF E

(* The size of a double's significand, and the ends of the range that      *)
(* numbers are rounded in.                                                 *)
LEMMA MantissaFacts ==
    /\ Exp(2, Mantissa) \in Nat /\ Exp(2, Mantissa - 1) \in Nat /\ Exp(2, Mantissa - 3) \in Nat
    /\ Exp(2, Mantissa) = 2 * Exp(2, Mantissa - 1)
    /\ Exp(2, Mantissa) = 8 * Exp(2, Mantissa - 3)
    /\ Exp(2, Mantissa - 3) >= 4 * Exp(2, Bits32) /\ Exp(2, Bits32) >= 8
    /\ Exp(2, Bits32) \in Nat
<1>1. /\ Mantissa \in Nat /\ Bits32 \in Nat /\ 3 <= Bits32 /\ Bits32 + 5 <= Mantissa
  BY DataConvertAssumption
<1> DEFINE E(n) == Exp(2, n)
<1>2. /\ \A n \in Nat : E(n) \in Nat /\ E(n + 1) = 2 * E(n)
      /\ \A m, n \in Nat : m <= n => E(m) <= E(n)
      /\ E(0) = 1
  BY ExpSteps, ExpGrows
<1> HIDE DEF E
<1>3. /\ Mantissa - 3 \in Nat /\ Mantissa - 2 \in Nat /\ Mantissa - 1 \in Nat
      /\ (Mantissa - 3) + 1 = Mantissa - 2 /\ (Mantissa - 2) + 1 = Mantissa - 1
      /\ (Mantissa - 1) + 1 = Mantissa
      /\ Bits32 + 1 \in Nat /\ Bits32 + 2 \in Nat /\ (Bits32 + 1) + 1 = Bits32 + 2
      /\ Bits32 + 2 <= Mantissa - 3
  BY <1>1
<1>4. /\ E(Mantissa - 2) = 2 * E(Mantissa - 3) /\ E(Mantissa - 1) = 2 * E(Mantissa - 2)
      /\ E(Mantissa) = 2 * E(Mantissa - 1)
      /\ E(Mantissa - 3) \in Nat /\ E(Mantissa - 1) \in Nat /\ E(Mantissa) \in Nat
  BY <1>1, <1>2, <1>3
<1>5. /\ E(Bits32 + 2) = 2 * E(Bits32 + 1) /\ E(Bits32 + 1) = 2 * E(Bits32)
      /\ E(Bits32 + 2) <= E(Mantissa - 3) /\ E(Bits32) \in Nat
  BY <1>1, <1>2, <1>3
<1>6. E(3) <= E(Bits32) /\ E(3) = 8
  <2>1. E(1) = 2 * E(0) /\ E(2) = 2 * E(1) /\ E(3) = 2 * E(2)
    <3>1. 0 + 1 = 1 /\ 1 + 1 = 2 /\ 2 + 1 = 3 /\ 0 \in Nat /\ 1 \in Nat /\ 2 \in Nat /\ 3 \in Nat
      OBVIOUS
    <3> QED
      BY <1>2, <3>1
  <2> QED
    BY <1>1, <1>2, <2>1
<1> QED
  BY <1>4, <1>5, <1>6 DEF E

(* The distance of doubles around a number: one up to 2^Mantissa, and      *)
(* beyond it less than 2^(1 - Mantissa) parts of the number.               *)
LEMMA UlpFacts ==
    ASSUME NEW n \in Int
    PROVE  /\ Ulp(n) \in Nat \ {0}
           /\ Abs(n) <= Exp(2, Mantissa) => Ulp(n) = 1
           /\ Abs(n) > Exp(2, Mantissa) =>
                /\ Ulp(n) * Exp(2, Mantissa) < 2 * Abs(n)
                /\ \E i \in Nat : Ulp(n) = 2 * i /\ i > 0
<1> DEFINE a == Abs(n)
           E(k) == Exp(2, k)
           P(k) == a <= E(Mantissa + k) /\ (k = 0 \/ a > E(Mantissa + k - 1))
<1>1. a \in Nat /\ Mantissa \in Nat
  BY DataConvertAssumption DEF Abs
<1>2. /\ \A k \in Nat : E(k) \in Nat /\ k < E(k) /\ E(k + 1) = 2 * E(k)
      /\ E(0) = 1
      /\ \A j, k \in Nat : j <= k => E(j) <= E(k)
  BY ExpSteps, ExpGrows
<1>3. \A k \in Nat : E(Mantissa + k) = E(Mantissa) * E(k)
  BY <1>1, ExpAdds
<1> DEFINE u == Ulp(n)
<1>4. u = E(CHOOSE k \in 0 .. a : P(k))
  BY DEF Ulp
<1> HIDE DEF a, E, u
<1>5. \E k \in 0 .. a : P(k)
  <2> SUFFICES ASSUME \A k \in 0 .. a : ~P(k) PROVE FALSE
    OBVIOUS
  <2> DEFINE S == {k \in Nat : k <= a => a > E(Mantissa + k)}
  <2>1. 0 \in S
    <3>1. ~P(0)
      BY <1>1
    <3>2. Mantissa + 0 \in Nat /\ E(Mantissa + 0) \in Nat
      BY <1>1, <1>2
    <3>3. ~(a <= E(Mantissa + 0))
      BY <3>1
    <3> QED
      BY <1>1, <3>2, <3>3
  <2>2. ASSUME NEW k \in Nat, k \in S PROVE k + 1 \in S
    <3> SUFFICES ASSUME k + 1 <= a PROVE a > E(Mantissa + (k + 1))
      OBVIOUS
    <3>1. a > E(Mantissa + k)
      BY <1>1, <2>2
    <3>2. /\ k + 1 \in 0 .. a /\ Mantissa + (k + 1) - 1 = Mantissa + k /\ k + 1 # 0
          /\ Mantissa + (k + 1) \in Nat
      BY <1>1
    <3>3. ~P(k + 1)
      BY <3>2
    <3>4. ~(a <= E(Mantissa + (k + 1)))
      BY <3>1, <3>2, <3>3
    <3> QED
      BY <1>1, <1>2, <3>2, <3>4
  <2>3. \A k \in Nat : k \in S
    <3> HIDE DEF S
    <3> QED
      BY <2>1, <2>2, Induction
  <2>4. a > E(Mantissa + a)
    BY <1>1, <2>3
  <2>5. Mantissa + a \in Nat /\ a <= Mantissa + a
    BY <1>1
  <2> QED
    BY <1>1, <1>2, <2>4, <2>5
<1> DEFINE k == CHOOSE k \in 0 .. a : P(k)
<1>6. k \in 0 .. a /\ P(k)
  <2> HIDE DEF P
  <2> QED
    BY <1>5
<1>7. u = E(k) /\ k \in Nat
  BY <1>1, <1>4, <1>6
<1>8. a <= E(Mantissa + k) /\ (k = 0 \/ a > E(Mantissa + k - 1))
  BY <1>6
<1> HIDE DEF k, P
<1>9. u \in Nat \ {0}
  BY <1>2, <1>7
<1>10. ASSUME a <= E(Mantissa) PROVE u = 1
  <2>1. k = 0
    <3> SUFFICES ASSUME k # 0 PROVE FALSE
      OBVIOUS
    <3>1. Mantissa + k - 1 \in Nat /\ Mantissa <= Mantissa + k - 1
      BY <1>1, <1>7
    <3>2. E(Mantissa) <= E(Mantissa + k - 1) /\ E(Mantissa + k - 1) \in Nat /\ E(Mantissa) \in Nat
      BY <1>1, <1>2, <3>1
    <3> QED
      BY <1>1, <1>8, <1>10, <3>2
  <2> QED
    BY <1>2, <1>7, <2>1
<1>11. ASSUME a > E(Mantissa)
       PROVE  u * E(Mantissa) < 2 * a /\ \E i \in Nat : u = 2 * i /\ i > 0
  <2>1. k # 0
    <3>1. Mantissa + 0 = Mantissa /\ E(Mantissa) \in Nat
      BY <1>1, <1>2
    <3> QED
      BY <1>1, <1>8, <1>11, <3>1
  <2>2. k - 1 \in Nat /\ (k - 1) + 1 = k /\ Mantissa + k - 1 = Mantissa + (k - 1)
    BY <1>1, <1>7, <2>1
  <2>3. u = 2 * E(k - 1) /\ E(k - 1) \in Nat /\ E(k - 1) > 0
    <3>1. E(k - 1) \in Nat /\ k - 1 < E(k - 1) /\ E((k - 1) + 1) = 2 * E(k - 1)
      BY <1>2, <2>2
    <3> QED
      BY <1>7, <2>2, <3>1
  <2>4. E(Mantissa + (k - 1)) = E(Mantissa) * E(k - 1) /\ E(Mantissa) \in Nat
    BY <1>1, <1>2, <1>3, <2>2
  <2>5. a > E(Mantissa) * E(k - 1)
    BY <1>8, <2>1, <2>2, <2>4
  <2>6. \A x, y \in Nat : (2 * x) * y = 2 * (y * x) /\ y * x \in Nat
    OBVIOUS
  <2>7. u * E(Mantissa) = 2 * (E(Mantissa) * E(k - 1)) /\ E(Mantissa) * E(k - 1) \in Nat
    BY <2>3, <2>4, <2>6
  <2> QED
    BY <1>1, <2>3, <2>5, <2>7
<1> QED
  BY <1>9, <1>10, <1>11 DEF a, E, u

(* Rounding keeps what a double holds; it stays beyond what a double holds,*)
(* and changes a number by at most one part in 2^Mantissa.                 *)
LEMMA RoundedFacts ==
    ASSUME NEW n \in Int
    PROVE  /\ Rounded(n) \in Int
           /\ Abs(n) <= Exp(2, Mantissa) => Rounded(n) = n
           /\ Distance(Rounded(n), n) * Exp(2, Mantissa) <= Abs(n)
<1> DEFINE u == Ulp(n)
           q == n \div u
           r == n % u
           K == Exp(2, Mantissa)
           R == Rounded(n)
<1>1. /\ u \in Nat \ {0}
      /\ Abs(n) <= K => u = 1
      /\ Abs(n) > K => u * K < 2 * Abs(n)
  BY UlpFacts
<1>2. K \in Nat /\ K >= 8
  BY MantissaFacts
<1>3. \E up \in {0, 1} : /\ R = u * (q + up)
                         /\ up = 0 => 2 * r <= u
                         /\ up = 1 => 2 * r >= u
  <2>1. R = u * IF 2 * r < u \/ (2 * r = u /\ q % 2 = 0) THEN q ELSE q + 1
    BY DEF Rounded
  <2>2. r \in Nat /\ q \in Int
    <3> HIDE DEF u
    <3> QED
      BY <1>1
  <2> HIDE DEF r, q, u, R
  <2>3. CASE 2 * r < u \/ (2 * r = u /\ q % 2 = 0)
    <3>1. R = u * (q + 0) /\ 2 * r <= u
      BY <1>1, <2>1, <2>2, <2>3
    <3> QED
      BY <3>1
  <2>4. CASE ~(2 * r < u \/ (2 * r = u /\ q % 2 = 0))
    <3>1. R = u * (q + 1) /\ 2 * r >= u
      BY <1>1, <2>1, <2>2, <2>4
    <3> QED
      BY <3>1
  <2> QED
    BY <2>3, <2>4
<1> HIDE DEF u, K, R
<1>4. q \in Int /\ r \in 0 .. u - 1 /\ n = u * q + r
  BY <1>1
<1> HIDE DEF q, r
<1>5. PICK up \in {0, 1} : R = u * (q + up) /\ (up = 0 => 2 * r <= u) /\ (up = 1 => 2 * r >= u)
  BY <1>3
<1>6. /\ R \in Int
      /\ 2 * Distance(R, n) <= u /\ Distance(R, n) \in Nat
  <2>1. u * q \in Int /\ u * (q + 1) = u * q + u /\ u * (q + 0) = u * q
    BY <1>1, <1>4
  <2>2. CASE up = 0
    BY <1>1, <1>4, <1>5, <2>1, <2>2 DEF Distance
  <2>3. CASE up = 1
    BY <1>1, <1>4, <1>5, <2>1, <2>3 DEF Distance
  <2> QED
    BY <2>2, <2>3
<1>7. Abs(n) \in Nat
  BY DEF Abs
<1>8. CASE Abs(n) <= K
  <2>1. Distance(R, n) = 0
    BY <1>1, <1>6, <1>8
  <2>2. R = n
    BY <1>6, <2>1 DEF Distance
  <2>3. 0 * K = 0
    BY <1>2
  <2> QED
    BY <1>6, <1>7, <1>8, <2>1, <2>2, <2>3 DEF R, K
<1>9. CASE Abs(n) > K
  <2> DEFINE d == Distance(R, n)
  <2>1. d \in Nat /\ 2 * d <= u /\ u * K < 2 * Abs(n)
    BY <1>1, <1>6, <1>9
  <2> HIDE DEF d
  <2>2. \A x, y, z \in Nat : 2 * x <= y => 2 * (x * z) <= y * z /\ x * z \in Nat /\ y * z \in Nat
    <3> SUFFICES ASSUME NEW x \in Nat, NEW y \in Nat, NEW z \in Nat, 2 * x <= y
                 PROVE  2 * (x * z) <= y * z /\ x * z \in Nat /\ y * z \in Nat
      OBVIOUS
    <3>1. y * z = 2 * (x * z) + (y - 2 * x) * z /\ (y - 2 * x) * z \in Nat
      OBVIOUS
    <3> QED
      BY <3>1
  <2>3. 2 * (d * K) <= u * K /\ d * K \in Nat /\ u * K \in Nat
    BY <1>1, <1>2, <2>1, <2>2
  <2> QED
    BY <1>2, <1>6, <1>7, <1>9, <2>1, <2>3 DEF R, K, d
<1> QED
  BY <1>2, <1>7, <1>8, <1>9

(* Rounding does not cross what a double holds.                            *)
LEMMA RoundedBeyond ==
    ASSUME NEW n \in Int, Abs(n) > Exp(2, Mantissa)
    PROVE  /\ Abs(Rounded(n)) >= Exp(2, Mantissa - 1)
           /\ n > 0 => Rounded(n) > Exp(2, Mantissa - 1)
           /\ n < 0 => Rounded(n) < -Exp(2, Mantissa - 1)
<1> DEFINE K == Exp(2, Mantissa)
           d == Distance(Rounded(n), n)
<1>1. Rounded(n) \in Int /\ d * K <= Abs(n)
  BY RoundedFacts
<1>2. /\ K \in Nat /\ K >= 256 /\ Exp(2, Mantissa - 1) \in Nat /\ K = 2 * Exp(2, Mantissa - 1)
  BY MantissaFacts
<1>3. d \in Nat
  BY <1>1 DEF Distance
<1> HIDE DEF K
<1>4. 4 * d <= Abs(n)
  <2> HIDE DEF d
  <2>1. \A x, y \in Nat : y >= 4 => 4 * x <= x * y
    OBVIOUS
  <2>2. 4 * d <= d * K /\ d * K \in Nat
    BY <1>2, <1>3, <2>1
  <2> QED
    BY <1>1, <1>3, <2>2 DEF Abs
<1> QED
  BY <1>1, <1>2, <1>3, <1>4 DEF Abs, Distance, K

(* Distances are natural numbers, obey the triangle inequality, and scale. *)
LEMMA DistanceNat ==
    ASSUME NEW x \in Int, NEW y \in Int, NEW z \in Int
    PROVE  /\ Distance(x, y) \in Nat /\ Abs(x) \in Nat
           /\ Distance(x, z) <= Distance(x, y) + Distance(y, z)
           /\ Abs(x) <= Abs(y) + Distance(x, y)
           /\ Distance(x, y) = 0 => x = y
BY DEF Distance, Abs

LEMMA DistanceScales ==
    ASSUME NEW x \in Int, NEW y \in Int, NEW s \in Nat
    PROVE  Distance(x * s, y * s) = Distance(x, y) * s /\ Abs(x * s) = Abs(x) * s
<1>1. \A d \in Nat : d * s \in Nat
  OBVIOUS
<1>2. x * s \in Int /\ y * s \in Int /\ (x - y) * s = x * s - y * s
  OBVIOUS
<1>3. x < y => Distance(x * s, y * s) = Distance(x, y) * s
  <2> SUFFICES ASSUME x < y PROVE Distance(x * s, y * s) = Distance(x, y) * s
    OBVIOUS
  <2>1. (y - x) * s = y * s - x * s /\ (y - x) * s \in Nat
    BY <1>1
  <2> QED
    BY <1>2, <2>1 DEF Distance
<1>4. ~(x < y) => Distance(x * s, y * s) = Distance(x, y) * s
  <2> SUFFICES ASSUME ~(x < y) PROVE Distance(x * s, y * s) = Distance(x, y) * s
    OBVIOUS
  <2>1. (x - y) * s \in Nat
    BY <1>1
  <2> QED
    BY <1>2, <2>1 DEF Distance
<1>5. Abs(x * s) = Abs(x) * s
  <2>1. x >= 0 => x * s >= 0
    BY <1>1
  <2>2. x < 0 => (-x) * s \in Nat /\ (-x) * s = -(x * s)
    BY <1>1
  <2> QED
    BY <1>2, <2>1, <2>2 DEF Abs
<1> QED
  BY <1>3, <1>4, <1>5

(* Eight parts in 2^Mantissa are one in 2^(Mantissa - 3).                   *)
LEMMA EightParts ==
    ASSUME NEW d \in Nat, NEW w \in Nat, d * Exp(2, Mantissa) <= 8 * w
    PROVE  d * Exp(2, Mantissa - 3) <= w
<1> DEFINE L == Exp(2, Mantissa - 3)
<1>1. L \in Nat /\ Exp(2, Mantissa) = 8 * L
  BY MantissaFacts
<1> HIDE DEF L
<1>2. d * (8 * L) = 8 * (d * L) /\ d * L \in Nat
  BY <1>1
<1> QED
  BY <1>1, <1>2 DEF L

-----------------------------------------------------------------------------
(* What is given to a column for integers, and how it is rounded.          *)

(* If a number was given, an overload for numbers explains the result.     *)
LEMMA NumberGiven ==
    ASSUME Explained, FromNumber
    PROVE  column \in Columns /\ \E t \in Tenths : NumberExplained(t)
<1>1. given.source \notin {"none", "octal", "datetext", "datetime", "timetext", "time", "null"}
  BY DEF FromNumber
<1>2. given # Nothing
  BY <1>1 DEF Nothing
<1>3. ASSUME NEW t PROVE ~OctalExplained(t)
  BY <1>1 DEF OctalExplained, NumberReturned, Returned
<1>4. ASSUME NEW d PROVE ~DateExplained(d)
  BY <1>1 DEF DateExplained, Returned
<1>5. ASSUME NEW t PROVE ~TimeExplained(t)
  BY <1>1 DEF TimeExplained, Returned
<1>6. ASSUME NEW b PROVE ~Returned([source |-> "null", nullable |-> b], NullResult(b))
  BY <1>1 DEF Returned
<1> QED
  BY <1>2, <1>3, <1>4, <1>5, <1>6 DEF Explained

(* What the three ways to round a number of tenths return.                 *)
LEMMA Fractions ==
    ASSUME NEW t \in Int
    PROVE  /\ Trunc(t) \in Int /\ Round(t) \in Int /\ Away(t) \in Int
           /\ t >= 0 => /\ 0 <= Trunc(t) /\ 10 * Trunc(t) <= t /\ t <= 10 * Trunc(t) + 9
                        /\ 0 <= Round(t) /\ 10 * Round(t) - 5 <= t /\ t <= 10 * Round(t) + 4
                        /\ 0 <= Away(t) /\ 10 * Away(t) - 9 <= t /\ t <= 10 * Away(t)
           /\ t < 0 => /\ Trunc(t) <= 0 /\ 10 * Trunc(t) - 9 <= t /\ t <= 10 * Trunc(t)
                       /\ Round(t) <= 0 /\ 10 * Round(t) - 4 <= t /\ t <= 10 * Round(t) + 5
                       /\ Away(t) <= -1 /\ 10 * Away(t) <= t /\ t <= 10 * Away(t) + 9
           /\ t % 10 = 0 => 10 * Trunc(t) = t
<1>1. CASE t >= 0
  BY <1>1 DEF Trunc, Round, Away
<1>2. CASE t < 0
  BY <1>2 DEF Trunc, Round, Away
<1> QED
  BY <1>1, <1>2

(* None of them changes a sign.                                            *)
LEMMA FractionSigns ==
    ASSUME NEW t \in Int
    PROVE  /\ Trunc(t) > 0 \/ Round(t) > 0 \/ Away(t) >= 0 => t >= 0
           /\ Trunc(t) < 0 \/ Round(t) < 0 \/ Away(t) < 0 => t < 0
<1>1. Trunc(t) \in Int /\ Round(t) \in Int /\ Away(t) \in Int
  BY Fractions
<1>2. t >= 0 => Trunc(t) >= 0 /\ Round(t) >= 0 /\ Away(t) >= 0
  BY Fractions
<1>3. t < 0 => Trunc(t) <= 0 /\ Round(t) <= 0 /\ Away(t) <= -1
  BY Fractions
<1> QED
  BY <1>1, <1>2, <1>3

(* The number that is compared with the bounds, and the one that is stored *)
(* if it is within them.                                                   *)
Compared(t, compared, n) ==
    \/ /\ given.source = "uint64" /\ t % 10 = 0 /\ n = Trunc(t) /\ compared = n
       /\ n \in UInt64
    \/ /\ given.source = "int64" /\ t % 10 = 0 /\ n = Trunc(t) /\ compared = n
       /\ n \in Int64
    \/ given.source = "double" /\ type \in Unsigned /\ n = Trunc(t) /\ compared = Away(t)
    \/ given.source = "double" /\ type \in Signed /\ n \in CastInt64(Trunc(t)) /\ compared = n
    \/ given.source = "decimal" /\ n \in CastInt64(Rounded(Round(t))) /\ compared = n
    \/ /\ given.source = "string" /\ t % 10 = 0 /\ compared = n /\ Trunc(t) <= UIntMax(Bits64)
       /\ n = IF type \in Unsigned THEN Trunc(t) % Exp(2, Bits64) ELSE Trunc(t)

(* The limits of int64_t and uint64_t.                                     *)
LEMMA WidthOfBits64 ==
    /\ IntMax(Bits64) \in Nat /\ IntMax(Bits64) >= 3
    /\ IntMin(Bits64) = -IntMax(Bits64) - 1
    /\ UIntMax(Bits64) = 2 * IntMax(Bits64) + 1
    /\ Exp(2, Bits64) = 2 * IntMax(Bits64) + 2
<1>1. Bits64 \in BitWidths
  BY DEF BitWidths
<1> QED
  BY <1>1, IntegerWidths

(* A cast to int64_t is one, and keeps a number that fits.                 *)
LEMMA CastInt64Int ==
    ASSUME NEW k \in Int
    PROVE  /\ \A n \in CastInt64(k) : n \in Int64 /\ n \in Int
           /\ k \in Int64 => CastInt64(k) = {k}
BY WidthOfBits64 DEF CastInt64, Int64, Nearest

(* A number of so few bits stays in the range of the cast when it is       *)
(* rounded, and changes only where it is beyond the values of an INT.      *)
LEMMA RoundedWithin ==
    ASSUME NEW w \in Int, Abs(w) <= Exp(2, Bits64 - 2), NEW n \in CastInt64(Rounded(w))
    PROVE  /\ n \in Int /\ IntMin(Bits64) + 2 <= n /\ n <= IntMax(Bits64)
           /\ w >= 0 => n >= 0
           /\ w < 0 => n < 0
           /\ Abs(w) <= Exp(2, Mantissa) => n = w
           /\ Distance(n, w) * Exp(2, Mantissa - 3) <= Abs(w)
           /\ n # w => Abs(w) > 2 * Exp(2, Bits32) /\ Abs(n) > 2 * Exp(2, Bits32)
<1> DEFINE Q == Exp(2, Bits64 - 2)
           K == Exp(2, Mantissa)
           H == Exp(2, Mantissa - 1)
           I == 2 * Exp(2, Bits32)
           R == Rounded(w)
           d == Distance(R, w)
<1>1. /\ K \in Nat /\ K >= 256 /\ H \in Nat /\ K = 2 * H /\ I \in Nat /\ I <= H /\ I <= K
  BY MantissaFacts
<1>2. /\ Q \in Nat /\ Q >= 256
      /\ IntMin(Bits64) = -(2 * Q) /\ IntMax(Bits64) = 2 * Q - 1
  <2>1. /\ Mantissa \in Nat /\ Bits64 - 2 \in Nat /\ Mantissa <= Bits64 - 2
        /\ (Bits64 - 2) + 1 = Bits64 - 1
    BY DataConvertAssumption
  <2>2. /\ Exp(2, Mantissa) <= Exp(2, Bits64 - 2) /\ Exp(2, Bits64 - 2) \in Nat
        /\ Exp(2, (Bits64 - 2) + 1) = 2 * Exp(2, Bits64 - 2)
    BY <2>1, ExpGrows, ExpSteps
  <2> QED
    BY <1>1, <2>1, <2>2 DEF IntMin, IntMax
<1>3. R \in Int /\ (Abs(w) <= K => R = w) /\ d * K <= Abs(w)
  BY RoundedFacts
<1>4. Abs(w) > K => Abs(R) >= H
  BY RoundedBeyond
<1>5. /\ Abs(w) > K /\ w > 0 => R > H
      /\ Abs(w) > K /\ w < 0 => R < -H
  BY RoundedBeyond
<1> HIDE DEF Q, K, H, I, R
<1>6. d \in Nat /\ Abs(w) \in Nat /\ Abs(R) <= Abs(w) + d /\ Abs(R) \in Nat
  BY <1>3, DistanceNat
<1> HIDE DEF d
<1>7. 256 * d <= Abs(w)
  <2>1. \A x, y \in Nat : y >= 256 => 256 * x <= x * y /\ x * y \in Nat
    <3> SUFFICES ASSUME NEW x \in Nat, NEW y \in Nat, y >= 256
                 PROVE  256 * x <= x * y /\ x * y \in Nat
      OBVIOUS
    <3>1. x * y = 256 * x + x * (y - 256) /\ x * (y - 256) \in Nat
      OBVIOUS
    <3> QED
      BY <3>1
  <2>2. 256 * d <= d * K /\ d * K \in Nat
    BY <1>1, <1>6, <2>1
  <2> QED
    BY <1>3, <1>6, <2>2
<1>8. Abs(R) <= 2 * Q - 2
  BY <1>2, <1>6, <1>7 DEF Q
<1>9. IntMin(Bits64) + 2 <= R /\ R <= IntMax(Bits64)
  BY <1>2, <1>3, <1>8 DEF Abs
<1>10. n = R
  <2>1. R \in Int64
    BY <1>2, <1>3, <1>9 DEF Int64
  <2>2. CastInt64(R) = {R}
    BY <2>1 DEF CastInt64
  <2> QED
    BY <2>2 DEF R
<1>11. (w >= 0 => n >= 0) /\ (w < 0 => n < 0)
  <2>1. CASE Abs(w) <= K
    BY <1>3, <1>10, <2>1
  <2>2. CASE Abs(w) > K
    BY <1>1, <1>3, <1>5, <1>10, <2>2 DEF Abs
  <2> QED
    BY <1>1, <1>6, <2>1, <2>2
<1>12. Distance(n, w) * Exp(2, Mantissa - 3) <= Abs(w)
  <2>1. d * Exp(2, Mantissa) <= 8 * Abs(w)
    <3>1. d * K \in Nat
      BY <1>1, <1>6
    <3> QED
      BY <1>3, <1>6, <3>1 DEF K
  <2> QED
    BY <1>6, <1>10, <2>1, EightParts DEF d
<1>13. ASSUME n # w PROVE Abs(w) > I /\ Abs(n) > I
  <2>1. Abs(w) > K
    BY <1>1, <1>3, <1>6, <1>10, <1>13
  <2>2. Abs(n) > H
    BY <1>1, <1>3, <1>5, <1>10, <2>1 DEF Abs
  <2> QED
    BY <1>1, <1>6, <1>10, <2>1, <2>2
<1> QED
  BY <1>3, <1>9, <1>10, <1>11, <1>12, <1>13 DEF I, K

(* A number for a column of an integer type is invalid, is the saturated   *)
(* llround() of a double, or went through the bounds of the type.          *)
LEMMA IntegerOutcome ==
    ASSUME Explained, FromNumber, type \in IntegerTypes
    PROVE  /\ given.tenths \in Int /\ column \in Columns
           /\ \/ status = "invalid" /\ data = Number(0)
              \/ /\ given.source = "double" /\ type = "BIGINT" /\ status = "saturated"
                 /\ data = Number(IntMax(Size)) /\ Away(given.tenths) > IntMax(Size) + 1
              \/ \E compared, n \in Int :
                    /\ data = (Bounded(given.source, compared, n)).data
                    /\ status = (Bounded(given.source, compared, n)).status
                    /\ Compared(given.tenths, compared, n)
<1>1. PICK t \in Tenths : NumberExplained(t)
  BY NumberGiven
<1>2. t \in Int /\ column \in Columns
  BY DataConvertAssumption DEF Explained
<1>3. ASSUME NEW source, NEW results, NumberReturned(source, t, results)
      PROVE  /\ given.source = source /\ given.tenths = t
             /\ \E result \in results : data = result.data /\ status = result.status
  <2>1. NumberResults(source, t, results) = results
    BY DEF NumberResults, IntegerTypes, Integral, Signed, Unsigned, Decimals, Floats, TextTypes,
           DateTypes
  <2> QED
    BY <1>3, <2>1 DEF NumberReturned, Returned
<1>4. Trunc(t) \in Int /\ Round(t) \in Int /\ Away(t) \in Int
  BY <1>2, Fractions
<1> DEFINE Goal ==
        \/ status = "invalid" /\ data = Number(0)
        \/ /\ given.source = "double" /\ type = "BIGINT" /\ status = "saturated"
           /\ data = Number(IntMax(Size)) /\ Away(t) > IntMax(Size) + 1
        \/ \E compared, n \in Int :
              /\ data = (Bounded(given.source, compared, n)).data
              /\ status = (Bounded(given.source, compared, n)).status
              /\ Compared(t, compared, n)
<1>5. CASE /\ t % 10 = 0 /\ Trunc(t) \in UInt64
             /\ NumberReturned("uint64", t, UnsignedResults(t))
  <2>1. given.source = "uint64" /\ given.tenths = t
    BY <1>3, <1>5
  <2>2. /\ data = (Bounded("uint64", Trunc(t), Trunc(t))).data
        /\ status = (Bounded("uint64", Trunc(t), Trunc(t))).status
    BY <1>3, <1>5 DEF UnsignedResults, Converted
  <2>3. Compared(t, Trunc(t), Trunc(t))
    BY <1>5, <2>1 DEF Compared
  <2> QED
    BY <1>2, <1>4, <2>1, <2>2, <2>3
<1>6. CASE /\ t % 10 = 0 /\ Trunc(t) \in Int64
             /\ NumberReturned("int64", t, SignedResults(t))
  <2>1. given.source = "int64" /\ given.tenths = t
    BY <1>3, <1>6
  <2>2. /\ data = (Bounded("int64", Trunc(t), Trunc(t))).data
        /\ status = (Bounded("int64", Trunc(t), Trunc(t))).status
    BY <1>3, <1>6 DEF SignedResults, Converted
  <2>3. Compared(t, Trunc(t), Trunc(t))
    BY <1>6, <2>1 DEF Compared
  <2> QED
    BY <1>2, <1>4, <2>1, <2>2, <2>3
<1>7. CASE NumberReturned("double", t, DoubleResults(t))
  <2>1. given.source = "double" /\ given.tenths = t
    BY <1>3, <1>7
  <2>2. \E result \in DoubleResults(t) : data = result.data /\ status = result.status
    BY <1>3, <1>7
  <2>3. CASE type = "BIGINT" /\ Away(t) > IntMax(Bits64) + 1
    <3>1. Size = Bits64
      BY <2>3 DEF Size, Decimals
    <3>2. data = Number(IntMax(Bits64)) /\ status = "saturated"
      BY <2>2, <2>3 DEF DoubleResults, Unsigned
    <3> QED
      BY <1>2, <2>1, <2>3, <3>1, <3>2
  <2>4. CASE type \in Unsigned
    <3>1. /\ data = (Bounded("double", Away(t), Trunc(t))).data
          /\ status = (Bounded("double", Away(t), Trunc(t))).status
      BY <2>2, <2>4 DEF DoubleResults, Unsigned
    <3>2. Compared(t, Away(t), Trunc(t))
      BY <2>1, <2>4 DEF Compared
    <3> QED
      BY <1>2, <1>4, <2>1, <3>1, <3>2
  <2>5. CASE type \in Signed /\ ~(type = "BIGINT" /\ Away(t) > IntMax(Bits64) + 1)
    <3>1. PICK n \in CastInt64(Trunc(t)) : /\ data = (Bounded("double", n, n)).data
                                           /\ status = (Bounded("double", n, n)).status
      BY <2>2, <2>5 DEF DoubleResults, Unsigned, Signed, IntegerTypes, Converted
    <3>2. Compared(t, n, n) /\ n \in Int
      BY <1>4, <2>1, <2>5, CastInt64Int DEF Compared
    <3> QED
      BY <1>2, <2>1, <3>1, <3>2
  <2> QED
    BY <2>3, <2>4, <2>5 DEF IntegerTypes, Integral
<1>8. CASE NumberReturned("decimal", t, DecimalResults(t))
  <2>1. given.source = "decimal" /\ given.tenths = t
    BY <1>3, <1>8
  <2>2. PICK n \in CastInt64(Rounded(Round(t))) : /\ data = (Bounded("decimal", n, n)).data
                                                  /\ status = (Bounded("decimal", n, n)).status
    BY <1>3, <1>8 DEF DecimalResults, Converted, getInt
  <2>3. Compared(t, n, n) /\ n \in Int
    BY <1>4, <2>1, RoundedFacts, CastInt64Int DEF Compared
  <2> QED
    BY <1>2, <2>1, <2>2, <2>3
<1>9. CASE NumberReturned("string", t, {TextResult(t)})
  <2>1. given.source = "string" /\ given.tenths = t
    BY <1>3, <1>9
  <2>2. data = (TextResult(t)).data /\ status = (TextResult(t)).status
    BY <1>3, <1>9
  <2>3. CASE t % 10 = 0 /\ Parses(Trunc(t))
    <3> DEFINE n == IF type \in Unsigned THEN Trunc(t) % Exp(2, Bits64) ELSE Trunc(t)
    <3>1. data = (Bounded("string", n, n)).data /\ status = (Bounded("string", n, n)).status
      BY <2>2, <2>3 DEF TextResult, FromText, Converted
    <3>2. n \in Int
      BY <1>4, WidthOfBits64
    <3>3. Trunc(t) <= UIntMax(Bits64)
      BY <1>4, <2>3, WidthOfBits64 DEF Parses, Int64
    <3>4. Compared(t, n, n)
      BY <2>1, <2>3, <3>3 DEF Compared
    <3> QED
      BY <1>2, <2>1, <3>1, <3>2, <3>4
  <2>4. CASE ~(t % 10 = 0 /\ Parses(Trunc(t)))
    <3>1. Zero = Number(0)
      BY DEF Zero, IntegerTypes, Integral, Signed, Unsigned, Decimals, Floats, TextTypes, DateTypes
    <3>2. data = Number(0) /\ status = "invalid"
      BY <2>2, <2>4, <3>1 DEF TextResult, Invalid
    <3> QED
      BY <1>2, <2>1, <3>2
  <2> QED
    BY <2>3, <2>4
<1> QED
  BY <1>1, <1>5, <1>6, <1>7, <1>8, <1>9 DEF NumberExplained

(* What is compared and what is stored differ for unsigned types only.     *)
LEMMA ComparedFits ==
    ASSUME NEW t \in Int, NEW compared \in Int, NEW n \in Int, Compared(t, compared, n)
    PROVE  n = compared \/ (type \in Unsigned /\ (compared >= 0 => n \in 0 .. compared))
<1>1. Away(t) >= 0 => Trunc(t) \in 0 .. Away(t)
  <2>1. CASE t >= 0
    BY <2>1, Fractions
  <2>2. CASE t < 0
    BY <2>2, Fractions
  <2> QED
    BY <2>1, <2>2
<1> QED
  BY <1>1 DEF Compared

(* No number reads back as NULL or as the EMPTY row.                       *)
LEMMA ExplainedUnreserved ==
    ASSUME Explained
    PROVE  NumbersAreNotReserved
<1> SUFFICES ASSUME FromNumber, type \in Integral \ {"USMALLINT", "BIT"},
                    ~(type = "UTINYINT" /\ given.source = "int64"),
                    ~(type = "UINT" /\ given.source = "decimal")
             PROVE  Unreserved
  BY DEF NumbersAreNotReserved, Unreserved
<1>1. type \in IntegerTypes /\ type # "USMALLINT"
  BY DEF IntegerTypes
<1>2. given.tenths \in Int /\ column \in Columns
  BY <1>1, IntegerOutcome
<1>3. /\ IntMax(Size) \in Nat /\ IntMax(Size) >= 3 /\ IntMin(Size) = -IntMax(Size) - 1
      /\ UIntMax(Size) = 2 * IntMax(Size) + 1
  BY <1>2, WidthOfSize DEF Integral
<1>4. CASE data = Number(0)
  <2>1. 0 \in IntMin(Size) + 2 .. IntMax(Size) /\ 0 \in 0 .. UIntMax(Size) - 2 /\ 0 \in Int
    BY <1>3
  <2> QED
    BY <1>1, <1>2, <1>4, <2>1, UnreservedNumber
<1>5. CASE type = "BIGINT" /\ data = Number(IntMax(Size))
  <2>1. IntMax(Size) \in IntMin(Size) + 2 .. IntMax(Size) /\ IntMax(Size) \in Int
    BY <1>3
  <2>2. type \notin Unsigned
    BY <1>5 DEF Unsigned
  <2> QED
    BY <1>1, <1>2, <1>5, <2>1, <2>2, UnreservedNumber
<1>6. ASSUME NEW compared \in Int, NEW n \in Int, Compared(given.tenths, compared, n),
             data = (Bounded(given.source, compared, n)).data,
             status = (Bounded(given.source, compared, n)).status
      PROVE  Unreserved
  <2>1. n = compared \/ (type \in Unsigned /\ (compared >= 0 => n \in 0 .. compared))
    BY <1>2, <1>6, ComparedFits
  <2> QED
    BY <1>1, <1>2, <1>6, <2>1, BoundedResult
<1> QED
  BY <1>1, <1>4, <1>5, <1>6, IntegerOutcome

(* NumbersAreNotReserved: no number that convert() stores in a column for  *)
(* integers, with the exceptions the property names, reads back as NULL or *)
(* as EMPTY.                                                               *)
THEOREM NoNumberIsReserved == Spec => []NumbersAreNotReserved
BY EveryResultIsExplained, ExplainedUnreserved, PTL

(* A number that is stored in a column for integers without a word.        *)
LEMMA SilentInteger ==
    ASSUME Explained, FromNumber, type \in IntegerTypes, status = "none", Fits
    PROVE  AsGiven
<1> DEFINE t == given.tenths
<1>1. t \in Int /\ column \in Columns
  BY IntegerOutcome
<1>2. PICK compared \in Int, n \in Int :
         /\ data = (Bounded(given.source, compared, n)).data
         /\ status = (Bounded(given.source, compared, n)).status
         /\ Compared(t, compared, n)
  BY IntegerOutcome
<1>3. n = compared \/ (type \in Unsigned /\ (compared >= 0 => n \in 0 .. compared))
  BY <1>1, <1>2, ComparedFits
<1>4. Stored = n
  BY <1>1, <1>2, <1>3, BoundedResult
<1>5. /\ Whole = IF given.source = "decimal" THEN Round(t) ELSE Trunc(t)
      /\ type \notin Decimals
  BY DEF Whole, IntegerTypes, Integral, Signed, Unsigned, Decimals
<1>6. Trunc(t) \in Int /\ Round(t) \in Int
  BY <1>1, Fractions
<1>7. SUFFICES \/ n = Whole
               \/ /\ given.source = "decimal" /\ Abs(Whole) > Exp(2, Mantissa)
                  /\ Distance(n, Whole) * Exp(2, Mantissa - 3) <= Abs(Whole)
  <2>1. ThroughDouble <=> given.source = "decimal"
    BY <1>5 DEF ThroughDouble
  <2>2. n = Whole => Distance(n, Whole) = 0
    BY <1>2 DEF Distance
  <2> QED
    BY <1>4, <2>1, <2>2 DEF AsGiven
<1>8. CASE given.source \in {"uint64", "int64"}
  BY <1>2, <1>5, <1>8 DEF Compared
<1>9. CASE given.source = "double"
  <2>1. type \in Signed => Trunc(t) \in Int64
    BY <1>5, <1>9 DEF Fits
  <2> QED
    BY <1>2, <1>5, <1>6, <1>9, <2>1, CastInt64Int DEF Compared
<1>10. CASE given.source = "decimal"
  <2>1. Whole \in Int /\ Whole = Round(t) /\ n \in CastInt64(Rounded(Whole))
    BY <1>2, <1>5, <1>6, <1>10 DEF Compared
  <2>2. Abs(Whole) <= Exp(2, Bits64 - 2)
    BY <1>5, <1>10 DEF Fits, ThroughDouble
  <2>3. /\ Abs(Whole) <= Exp(2, Mantissa) => n = Whole
        /\ Distance(n, Whole) * Exp(2, Mantissa - 3) <= Abs(Whole)
    BY <2>1, <2>2, RoundedWithin
  <2>4. Abs(Whole) \in Nat /\ Exp(2, Mantissa) \in Nat
    BY <2>1, DistanceNat, MantissaFacts
  <2> QED
    BY <1>10, <2>3, <2>4
<1>11. CASE given.source = "string"
  <2>1. /\ t % 10 = 0 /\ Trunc(t) <= UIntMax(Bits64)
        /\ n = IF type \in Unsigned THEN Trunc(t) % Exp(2, Bits64) ELSE Trunc(t)
    BY <1>2, <1>11 DEF Compared
  <2>2. CASE t >= 0
    <3>1. Trunc(t) \in 0 .. UIntMax(Bits64)
      <4>1. 0 <= Trunc(t)
        BY <1>1, <2>2, Fractions
      <4> QED
        BY <1>6, <2>1, <4>1, WidthOfBits64
    <3>2. \A m \in Nat \ {0} : \A k \in 0 .. m - 1 : k % m = k
      OBVIOUS
    <3>3. Exp(2, Bits64) \in Nat \ {0} /\ UIntMax(Bits64) = Exp(2, Bits64) - 1
      BY WidthOfBits64
    <3>4. Trunc(t) % Exp(2, Bits64) = Trunc(t)
      BY <3>1, <3>2, <3>3
    <3> QED
      BY <1>5, <1>11, <2>1, <3>4
  <2>3. CASE t < 0
    <3>1. type \notin Unsigned
      BY <1>1, <1>11, <2>3 DEF Fits
    <3> QED
      BY <1>5, <1>11, <2>1, <3>1
  <2> QED
    BY <1>1, <2>2, <2>3
<1> QED
  BY <1>8, <1>9, <1>11, <1>10 DEF FromNumber

(* The value at the end of a range is the nearest one in it to a number    *)
(* beyond that end.                                                        *)
LEMMA NearestBound ==
    ASSUME NEW low \in Int, NEW high \in Int, NEW number \in Int, NEW s \in Int,
           low <= high,
           (s = high /\ number > 10 * high) \/ (s = low /\ number < 10 * low),
           NEW n \in {s - 1, s, s + 1} \cap (low .. high)
    PROVE  Distance(10 * s, number) <= Distance(10 * n, number) /\ number # 10 * n
<1>1. CASE s = high /\ number > 10 * high
  <2>1. n \in Int /\ n <= s
    BY <1>1
  <2> QED
    BY <1>1, <2>1 DEF Distance
<1>2. CASE s = low /\ number < 10 * low
  <2>1. n \in Int /\ n >= s
    BY <1>2
  <2> QED
    BY <1>2, <2>1 DEF Distance
<1> QED
  BY <1>1, <1>2

NearestStored(number) ==
    /\ Stored \in Usable
    /\ Whole \notin Usable => status = "saturated"
    /\ status = "saturated" =>
          \A n \in {Stored - 1, Stored, Stored + 1} \cap Usable :
              /\ Distance(10 * Stored, number) <= Distance(10 * n, number)
              /\ number # 10 * n

(* A number of so few bits is none of the ends of an int64_t.               *)
LEMMA WithinInt64 ==
    ASSUME NEW w \in Int, Abs(w) <= Exp(2, Bits64 - 2)
    PROVE  IntMin(Bits64) + 2 <= w /\ w <= IntMax(Bits64)
<1>1. /\ Bits64 - 2 \in Nat /\ (Bits64 - 2) + 1 = Bits64 - 1 /\ 2 <= Bits64 - 2 /\ 2 \in Nat
  BY DataConvertAssumption
<1>2. /\ Exp(2, Bits64 - 2) \in Nat /\ Exp(2, (Bits64 - 2) + 1) = 2 * Exp(2, Bits64 - 2)
      /\ Bits64 - 2 < Exp(2, Bits64 - 2)
  BY <1>1, ExpGrows, ExpSteps
<1> QED
  BY <1>1, <1>2 DEF IntMin, IntMax, Abs

(* All other integers are of the width of an INT at most.                  *)
LEMMA SmallSize ==
    ASSUME type \in PlainTypes \ {"BIGINT", "UBIGINT"}
    PROVE  Exp(2, Size) <= Exp(2, Bits32) /\ Exp(2, Bits32) \in Nat
<1>1. Size \in {Bits8, Bits16, Bits32}
  BY DEF Size, PlainTypes, Decimals
<1>2. /\ Bits8 \in Nat /\ Bits16 \in Nat /\ Bits32 \in Nat
      /\ Bits8 <= Bits32 /\ Bits16 <= Bits32
  BY DataConvertAssumption
<1>3. Size \in Nat /\ Size <= Bits32
  BY <1>1, <1>2
<1> QED
  BY <1>2, <1>3, ExpGrows

(* The conversions that keep to the values of a column for integers.       *)
LEMMA NearestInteger ==
    ASSUME Explained, Clean, type \in Integral, status # "invalid"
    PROVE  NearestStored(given.tenths)
<1> DEFINE t == given.tenths
           M == IntMax(Size)
           low == IF type \in Signed THEN -M + 1 ELSE 0
           high == IF type \in Signed THEN M ELSE 2 * M - 1
<1>1. FromNumber /\ type \in PlainTypes /\ type \in IntegerTypes
  BY DEF Clean, PlainTypes, IntegerTypes, Integral, Signed, Unsigned
<1>2. t \in Int /\ column \in Columns
  BY <1>1, IntegerOutcome
<1>3. M \in Nat /\ M >= 3 /\ IntMin(Size) = -M - 1 /\ UIntMax(Size) = 2 * M + 1
  BY <1>2, WidthOfSize
<1>4. Usable = low .. high
  <2>1. type \notin Decimals
    BY <1>1 DEF PlainTypes, Decimals
  <2>2. type \in Signed => Usable = IntMin(Size) + 2 .. IntMax(Size)
    BY <2>1 DEF Usable, Decimals
  <2>3. type \notin Signed => Usable = 0 .. UIntMax(Size) - 2
    BY <2>1 DEF Usable, Decimals
  <2>4. IntMin(Size) + 2 = -M + 1 /\ UIntMax(Size) - 2 = 2 * M - 1
    BY <1>3
  <2> QED
    BY <2>2, <2>3, <2>4
<1>5. low \in Int /\ high \in Int /\ low <= 0 /\ 0 <= high /\ M <= high
  BY <1>3
<1>6. ASSUME (Stored = high /\ t > 10 * high) \/ (Stored = low /\ t < 10 * low),
             status = "saturated"
      PROVE  NearestStored(t)
  <2> HIDE DEF low, high
  <2>1. Stored \in Int /\ Stored \in low .. high /\ low <= high
    BY <1>5, <1>6
  <2>2. \A n \in {Stored - 1, Stored, Stored + 1} \cap (low .. high) :
            Distance(10 * Stored, t) <= Distance(10 * n, t) /\ t # 10 * n
    BY <1>2, <1>5, <1>6, <2>1, NearestBound
  <2> QED
    BY <1>4, <1>6, <2>1, <2>2 DEF NearestStored
<1>7. CASE /\ given.source = "double" /\ type = "BIGINT" /\ status = "saturated"
           /\ data = Number(M) /\ Away(t) > M + 1
  <2>1. type \in Signed
    BY <1>7 DEF Signed
  <2>2. Stored = high
    BY <1>2, <1>3, <1>7, <2>1, StoredNumber
  <2>3. t > 10 * high
    <3>1. Away(t) \in Int /\ Away(t) > M + 1
      BY <1>2, <1>7, Fractions
    <3>2. t >= 0
      BY <1>2, <1>3, <3>1, FractionSigns
    <3>3. 10 * Away(t) - 9 <= t
      BY <1>2, <3>2, Fractions
    <3> QED
      BY <1>2, <1>3, <2>1, <3>1, <3>3
  <2> QED
    BY <1>6, <1>7, <2>2, <2>3
<1>8. ASSUME NEW compared \in Int, NEW n \in Int, Compared(t, compared, n),
             data = (Bounded(given.source, compared, n)).data,
             status = (Bounded(given.source, compared, n)).status
      PROVE  NearestStored(t)
  <2> DEFINE L == Largest(given.source)
             l == Least(given.source)
  <2>1. n = compared \/ (type \in Unsigned /\ (compared >= 0 => n \in 0 .. compared))
    BY <1>2, <1>8, ComparedFits
  <2>2. /\ ~(type = "UTINYINT" /\ given.source = "int64")
        /\ ~(type = "UINT" /\ given.source = "decimal")
        /\ ~(type = "UBIGINT" /\ given.source = "double")
        /\ type \in Unsigned /\ given.source = "string" => t >= 0
        /\ given.source = "double" /\ type \in Signed => Whole \in Int64
        /\ given.source = "decimal" => Abs(Whole) <= Exp(2, Bits64 - 2)
    <3>1. type \notin Decimals /\ Fits
      BY <1>1 DEF PlainTypes, Decimals, Clean
    <3> QED
      BY <1>2, <3>1 DEF Clean, Fits, ThroughDouble
  <2>3. /\ status \in {"none", "saturated"}
        /\ status = "none" <=> compared \in l .. L
        /\ status = "none" => Stored = n
        /\ compared > L => Stored = Highest(given.source)
        /\ compared < l /\ compared <= L => Stored = l
    BY <1>1, <1>2, <1>8, <2>1, <2>2, BoundedResult
  <2>4. /\ L \in Nat /\ l \in {0, low} /\ L <= high
        /\ given.source # "uint64" => l = low
        /\ L = high \/ (type = "UBIGINT" /\ given.source \in {"int64", "decimal"} /\ L = M)
        /\ Highest(given.source) = L
    <3>1. CASE type \in Signed
      <4>1. type \in Signed \ {"BIT"} /\ type # "MEDINT" /\ type # "UBIGINT"
        BY <1>1, <3>1 DEF PlainTypes, Signed
      <4>2. /\ L = M /\ Highest(given.source) = L
            /\ l = IF given.source = "uint64" THEN 0 ELSE IntMin(Size) + 2
        BY <1>2, <4>1, SignedRange
      <4>3. low = -M + 1 /\ high = M
        BY <3>1
      <4> HIDE DEF L, l, low, high, M
      <4> QED
        BY <1>3, <4>2, <4>3 DEF M
    <3>2. CASE type \in Unsigned
      <4>1. type \in {"UTINYINT", "UINT", "UBIGINT"} /\ type \notin Signed
        BY <1>1, <3>2 DEF PlainTypes, Signed, Unsigned
      <4>2. low = 0 /\ high = 2 * M - 1
        BY <4>1
      <4>3. L \in Nat /\ L <= UIntMax(Size) - 2 /\ l = 0
        BY <1>2, <3>2, UnsignedRange
      <4>4. /\ Highest(given.source) = L
            /\ \/ L = UIntMax(Size) - 2
               \/ type = "UBIGINT" /\ given.source \in {"int64", "decimal"} /\ L = M
        BY <1>1, <1>2, <2>2, <3>2, <4>1, UnsignedRange DEF FromNumber
      <4> HIDE DEF L, l, low, high
      <4> QED
        BY <1>3, <4>2, <4>3, <4>4
    <3> QED
      BY <3>1, <3>2 DEF Integral
  <2>5. Whole = IF given.source = "decimal" THEN Round(t) ELSE Trunc(t)
    BY <1>1 DEF Whole, PlainTypes, Decimals
  <2>6. Trunc(t) \in Int /\ Round(t) \in Int
    BY <1>2, Fractions
  <2>7. /\ given.source = "string" => n = Trunc(t) /\ compared = n /\ t % 10 = 0
        /\ given.source = "double" /\ type \in Signed => n = Trunc(t) /\ compared = n
        /\ given.source = "decimal" =>
              /\ compared = n
              /\ n \in low .. high => Whole \in low .. high
              /\ n > high => Round(t) > high
              /\ n < low => Round(t) < low
    <3>1. CASE given.source = "string"
      <4>1. /\ t % 10 = 0 /\ Trunc(t) <= UIntMax(Bits64) /\ compared = n
            /\ n = IF type \in Unsigned THEN Trunc(t) % Exp(2, Bits64) ELSE Trunc(t)
        BY <1>8, <3>1 DEF Compared
      <4>2. CASE type \in Unsigned
        <5>1. 0 <= Trunc(t)
          BY <1>2, <2>2, <3>1, <4>2, Fractions
        <5>2. \A m \in Nat \ {0} : \A k \in 0 .. m - 1 : k % m = k
          OBVIOUS
        <5>3. /\ Exp(2, Bits64) \in Nat \ {0}
              /\ Trunc(t) \in 0 .. Exp(2, Bits64) - 1
          BY <2>6, <4>1, <5>1, WidthOfBits64
        <5>4. Trunc(t) % Exp(2, Bits64) = Trunc(t)
          BY <5>2, <5>3
        <5> QED
          BY <3>1, <4>1, <4>2, <5>4
      <4> QED
        BY <3>1, <4>1, <4>2
    <3>2. CASE given.source = "double" /\ type \in Signed
      <4>1. n \in CastInt64(Trunc(t)) /\ compared = n /\ type \notin Unsigned
        BY <1>8, <3>2 DEF Compared, Signed, Unsigned
      <4>2. Trunc(t) \in Int64
        BY <2>2, <2>5, <3>2
      <4> QED
        BY <2>6, <3>2, <4>1, <4>2, CastInt64Int
    <3>3. CASE given.source = "decimal"
      <4>1. n \in CastInt64(Rounded(Whole)) /\ compared = n /\ Whole = Round(t)
        BY <1>8, <2>5, <3>3 DEF Compared
      <4>2. Whole \in Int /\ Abs(Whole) <= Exp(2, Bits64 - 2)
        BY <2>2, <2>5, <2>6, <3>3
      <4>3. /\ n \in Int /\ IntMin(Bits64) + 2 <= n /\ n <= IntMax(Bits64)
            /\ Whole >= 0 => n >= 0
            /\ Whole < 0 => n < 0
            /\ n # Whole => /\ Abs(Whole) > 2 * Exp(2, Bits32)
                            /\ Abs(n) > 2 * Exp(2, Bits32)
        BY <4>1, <4>2, RoundedWithin
      <4> HIDE DEF low, high, M
      <4> SUFFICES /\ n \in low .. high => Whole \in low .. high
                   /\ n > high => Whole > high
                   /\ n < low => Whole < low
        BY <3>3, <4>1
      <4>4. CASE n = Whole
        BY <4>4
      <4>5. CASE n # Whole /\ type \in {"BIGINT", "UBIGINT"}
        <5>1. Size = Bits64
          BY <4>5 DEF Size, Decimals
        <5>2. IntMin(Bits64) + 2 <= Whole /\ Whole <= IntMax(Bits64)
          BY <4>2, WithinInt64
        <5>3. low = IF type = "BIGINT" THEN -M + 1 ELSE 0
          BY <4>5 DEF Signed, low
        <5>4. high >= IntMax(Bits64)
          BY <1>5, <5>1 DEF M
        <5>5. IntMin(Bits64) + 2 = -M + 1
          BY <1>3, <5>1 DEF M
        <5> QED
          BY <1>3, <1>5, <4>1, <4>2, <4>3, <5>2, <5>3, <5>4, <5>5, WidthOfBits64
      <4>6. CASE n # Whole /\ type \notin {"BIGINT", "UBIGINT"}
        <5>1. high <= 2 * Exp(2, Bits32) /\ -(2 * Exp(2, Bits32)) <= low /\ Exp(2, Bits32) \in Nat
          <6>1. Exp(2, Size) <= Exp(2, Bits32) /\ Exp(2, Bits32) \in Nat
            BY <1>1, <4>6, SmallSize
          <6>2. Exp(2, Size) = 2 * M + 2
            BY <1>2, WidthOfSize DEF M
          <6>3. -M - 1 <= low /\ high <= 2 * M + 1
            BY <1>3 DEF low, high
          <6> QED
            BY <1>3, <1>5, <6>1, <6>2, <6>3
        <5> QED
          BY <1>5, <4>1, <4>2, <4>3, <4>6, <5>1 DEF Abs
      <4> QED
        BY <4>4, <4>5, <4>6
    <3> QED
      BY <3>1, <3>2, <3>3
  <2>8. n \in low .. high => Whole \in low .. high
    <3> HIDE DEF low, high
    <3> QED
      BY <1>1, <1>8, <2>5, <2>7 DEF Compared, FromNumber
  <2> HIDE DEF L, l, t
  <2>9. CASE compared \in l .. L
    <3>1. status = "none" /\ Stored = n
      BY <2>3, <2>9
    <3>2. n \in low .. high
      <4>1. CASE n = compared
        BY <1>5, <2>4, <2>9, <4>1
      <4>2. CASE type \in Unsigned /\ (compared >= 0 => n \in 0 .. compared)
        <5>1. type \notin Signed
          BY <4>2 DEF Signed, Unsigned
        <5> QED
          BY <1>5, <2>4, <2>9, <4>2, <5>1
      <4> QED
        BY <2>1, <4>1, <4>2
    <3> QED
      BY <1>4, <2>8, <3>1, <3>2 DEF NearestStored
  <2>10. CASE compared > L
    <3>1. Stored = L /\ status = "saturated"
      BY <2>3, <2>4, <2>10
    <3>2. L = high
      <4>1. given.source \in {"int64", "decimal"} => compared \in Int64
        BY <2>6, <1>8, RoundedFacts, CastInt64Int DEF Compared
      <4>2. type = "UBIGINT" => M = IntMax(Bits64)
        BY DEF Size, Decimals
      <4>3. type = "UBIGINT" /\ given.source \in {"int64", "decimal"} => compared <= M
        BY <4>1, <4>2, WidthOfBits64 DEF Int64
      <4> HIDE DEF M, high
      <4> QED
        BY <1>3, <2>4, <2>10, <4>3
    <3>3. t > 10 * high
      <4>0. compared >= high + 1 /\ high \in Nat
        BY <1>5, <2>10, <3>2
      <4> HIDE DEF high, M, low
      <4>1. CASE given.source \in {"uint64", "int64", "string"}
        <5>1. t % 10 = 0 /\ compared = Trunc(t)
          BY <1>8, <2>7, <4>1 DEF Compared
        <5>2. t = 10 * compared
          BY <1>2, <5>1, Fractions DEF t
        <5> QED
          BY <4>0, <5>2
      <4>2. CASE given.source = "double"
        <5>1. compared \in {Trunc(t), Away(t)}
          BY <1>8, <2>7, <4>2 DEF Compared
        <5>2. t >= 0
          BY <1>2, <4>0, <5>1, FractionSigns DEF t
        <5>3. 10 * compared - 9 <= t
          <6>1. 10 * Trunc(t) <= t /\ 10 * Away(t) - 9 <= t
            BY <1>2, <5>2, Fractions DEF t
          <6> QED
            BY <1>2, <2>6, <5>1, <6>1 DEF t
        <5> QED
          BY <1>2, <4>0, <5>3 DEF t
      <4>3. CASE given.source = "decimal"
        <5>1. Round(t) \in Int /\ Round(t) >= high + 1
          BY <1>8, <2>6, <2>7, <4>0, <4>3
        <5>2. t >= 0
          BY <1>2, <4>0, <5>1, FractionSigns DEF t
        <5>3. 10 * Round(t) - 5 <= t
          BY <1>2, <5>2, Fractions DEF t
        <5> QED
          BY <1>2, <4>0, <5>1, <5>3 DEF t
      <4> QED
        BY <1>1, <4>1, <4>2, <4>3 DEF FromNumber
    <3> QED
      BY <1>6, <3>1, <3>2, <3>3
  <2>11. CASE compared < l /\ compared <= L
    <3>1. Stored = l /\ status = "saturated"
      BY <2>3, <2>4, <2>11, <1>5
    <3>2. l = low
      <4>1. given.source = "uint64" => compared \in UInt64
        BY <1>8 DEF Compared
      <4>2. given.source = "uint64" => compared >= 0
        BY <4>1, WidthOfBits64 DEF UInt64
      <4> QED
        BY <1>5, <2>4, <2>11, <4>2
    <3>3. t < 10 * low
      <4>0. compared <= low - 1 /\ low \in Int /\ low <= 0
        BY <1>5, <2>11, <3>2
      <4> HIDE DEF high, M, low
      <4>1. CASE given.source \in {"uint64", "int64", "string"}
        <5>1. t % 10 = 0 /\ compared = Trunc(t)
          BY <1>8, <2>7, <4>1 DEF Compared
        <5>2. t = 10 * compared
          BY <1>2, <5>1, Fractions DEF t
        <5> QED
          BY <4>0, <5>2
      <4>2. CASE given.source = "double" /\ type \in Signed
        <5>1. compared = Trunc(t)
          BY <2>7, <4>2
        <5>2. t < 0
          BY <1>2, <4>0, <5>1, FractionSigns DEF t
        <5>3. t <= 10 * compared
          BY <1>2, <5>1, <5>2, Fractions DEF t
        <5> QED
          BY <1>2, <4>0, <5>3 DEF t
      <4>3. CASE given.source = "double" /\ type \in Unsigned
        <5>1. compared = Away(t)
          BY <1>8, <4>3 DEF Compared, Signed, Unsigned
        <5>2. t < 0
          BY <1>2, <4>0, <5>1, FractionSigns DEF t
        <5>3. low = 0
          BY <4>3 DEF low, Signed, Unsigned
        <5> QED
          BY <5>2, <5>3
      <4>4. CASE given.source = "decimal"
        <5>1. Round(t) \in Int /\ Round(t) <= low - 1
          BY <1>8, <2>6, <2>7, <4>0, <4>4
        <5>2. t < 0
          BY <1>2, <4>0, <5>1, FractionSigns DEF t
        <5>3. t <= 10 * Round(t) + 5
          BY <1>2, <5>2, Fractions DEF t
        <5> QED
          BY <1>2, <4>0, <5>1, <5>3 DEF t
      <4> QED
        BY <1>1, <4>1, <4>2, <4>3, <4>4 DEF FromNumber, Integral
    <3> QED
      BY <1>6, <3>1, <3>2, <3>3
  <2> QED
    BY <2>3, <2>4, <2>9, <2>10, <2>11, <1>5
<1> QED
  BY <1>1, <1>7, <1>8, IntegerOutcome

-----------------------------------------------------------------------------
(* Columns for decimals: the number is scaled, cut, and kept in a width.   *)

(* Scaling keeps the sign and comes no further from zero than the number.  *)
LEMMA ScaledNumber ==
    ASSUME column \in Columns, NEW t \in Int
    PROVE  LET number == t * Exp(10, column.scale)
               w == Scaled(t)
           IN  /\ column.scale \in Nat /\ number \in Int /\ w \in Int
               /\ t >= 0 => w >= 0 /\ 10 * w <= number
               /\ t < 0 => w <= 0 /\ number <= 10 * w
               /\ column.scale >= 2 => /\ t > 0 => w >= 10
                                       /\ t < 0 => w <= -10
                                       /\ w % 10 = 0
<1> DEFINE scale == column.scale
           p == Exp(10, scale)
           number == t * p
           w == Scaled(t)
<1>1. scale \in Nat
  <2>1. Scales \subseteq Nat
    BY DataConvertAssumption
  <2>2. column.scale \in Scales \cup {0}
    BY DEF Columns
  <2>3. 0 \in Nat
    OBVIOUS
  <2>4. \A x \in Scales \cup {0} : x \in Nat
    BY <2>1, <2>3, Zenon
  <2> QED
    BY <2>2, <2>4, Zenon
<1>2. p \in Nat /\ p >= 1
  <2>1. 10 \in Nat /\ 10 >= 2
    OBVIOUS
  <2>2. Exp(10, scale) \in Nat /\ scale < Exp(10, scale)
    BY <1>1, <2>1, ExpGrows
  <2> HIDE DEF scale
  <2> QED
    BY <1>1, <2>2
<1>3. w = Trunc(number)
  BY DEF Scaled
<1> HIDE DEF p, w
<1>4. /\ number \in Int
      /\ t >= 0 => number >= 0
      /\ t < 0 => number < 0
  <2>1. \A a \in Int, b \in Nat : /\ a * b \in Int
                                  /\ a >= 0 => a * b >= 0
                                  /\ a < 0 /\ b >= 1 => a * b < 0
    OBVIOUS
  <2> QED
    BY <1>2, <2>1
<1> HIDE DEF number
<1>5. /\ w \in Int
      /\ t >= 0 => w >= 0 /\ 10 * w <= number
      /\ t < 0 => w <= 0 /\ number <= 10 * w
  BY <1>3, <1>4, Fractions
<1>6. ASSUME scale >= 2
      PROVE  (t > 0 => w >= 10) /\ (t < 0 => w <= -10) /\ w % 10 = 0
  <2> DEFINE q == Exp(10, scale - 2)
  <2>1. p = 100 * q /\ q \in Nat /\ q >= 1
    <3>1. /\ scale - 2 \in Nat /\ scale - 1 \in Nat
          /\ (scale - 2) + 1 = scale - 1 /\ (scale - 1) + 1 = scale
      BY <1>1, <1>6
    <3> DEFINE E(n) == Exp(10, n)
    <3>2. /\ \A n \in Nat : E(n) \in Int /\ E(n + 1) = 10 * E(n)
          /\ \A n \in Nat : E(n) \in Nat /\ n < E(n)
      BY ExpSteps, ExpGrows
    <3> HIDE DEF E, scale
    <3>3. E(scale) = 10 * E(scale - 1) /\ E(scale - 1) = 10 * E(scale - 2)
      BY <3>1, <3>2
    <3>4. E(scale - 2) \in Nat /\ E(scale - 2) >= 1
      BY <3>1, <3>2
    <3>5. E(scale) = 100 * E(scale - 2)
      BY <3>3, <3>4
    <3> QED
      BY <3>4, <3>5 DEF E, p
  <2> HIDE DEF q
  <2> DEFINE x == t * q
  <2>2. number = 100 * x /\ x \in Int /\ (t > 0 => x >= 1) /\ (t < 0 => x <= -1)
    <3>1. t * (100 * q) = 100 * (t * q) /\ t * q \in Int
      BY <2>1
    <3>2. \A a \in Int, b \in Nat : /\ a > 0 /\ b >= 1 => a * b >= 1
                                    /\ a < 0 /\ b >= 1 => a * b <= -1
      OBVIOUS
    <3> QED
      BY <2>1, <3>1, <3>2 DEF number
  <2> HIDE DEF x
  <2>3. w = 10 * x
    <3>1. number % 10 = 0
      BY <2>2
    <3>2. 10 * w = number
      BY <1>3, <1>4, <3>1, Fractions
    <3> QED
      BY <1>5, <2>2, <3>2
  <2> QED
    BY <2>2, <2>3
<1> QED
  BY <1>1, <1>4, <1>5, <1>6 DEF p, w, number

(* What the product of a number for a DECIMAL is as a double, cut: the one *)
(* that it should be, or one less if a double does not hold its fraction,  *)
(* or so near as eight parts in 2^Mantissa.                                *)
NearProduct(m, t) ==
    \/ m = Scaled(t)
    \/ t % 5 # 0 /\ column.scale >= 2 /\ m = Inward(Scaled(t))
    \/ /\ t % 10 = 0 => Abs(Scaled(t)) > Exp(2, Mantissa)
       /\ Distance(m, Scaled(t)) * Exp(2, Mantissa - 3) <= Abs(Scaled(t))

LEMMA ProductNear ==
    ASSUME column \in Columns, NEW t \in Int
    PROVE  \A m \in Products(t) : m \in Int /\ NearProduct(m, t)
<1> DEFINE T == Exp(10, column.scale)
           K == Exp(2, Mantissa)
           H == Exp(2, Mantissa - 1)
           W == Scaled(t)
           p == Product(t)
<1>1. K \in Nat /\ K >= 8 /\ H \in Nat /\ K = 2 * H
  BY MantissaFacts
<1>2. W \in Int /\ Abs(W) \in Nat
  BY ScaledNumber, DistanceNat
<1>3. T \in Nat /\ T >= 1
  <2>1. 10 \in Nat /\ 10 >= 2 /\ column.scale \in Nat
    BY ScaledNumber
  <2>2. Exp(10, column.scale) \in Nat /\ column.scale < Exp(10, column.scale)
    BY <2>1, ExpGrows
  <2> QED
    BY <2>1, <2>2
<1>4. ASSUME t % 10 = 0 PROVE p \in Int /\ NearProduct(p, t)
  <2> DEFINE a == Trunc(t)
             x == Rounded(a)
             y == x * T
  <2>1. a \in Int /\ t = 10 * a
    BY <1>4, Fractions
  <2>2. W = a * T
    <3>1. t * T = 10 * (a * T) /\ a * T \in Int
      <4> HIDE DEF a, T
      <4> QED
        BY <1>3, <2>1
    <3>2. (t * T) % 10 = 0 /\ t * T \in Int
      <4> HIDE DEF a, T
      <4> QED
        BY <3>1
    <3>3. 10 * Trunc(t * T) = t * T /\ Trunc(t * T) \in Int
      BY <3>2, Fractions
    <3>4. W = Trunc(t * T)
      BY DEF Scaled
    <3> HIDE DEF a, T, W
    <3> QED
      BY <3>1, <3>3, <3>4
  <2>3. x \in Int /\ (Abs(a) <= K => x = a) /\ Distance(x, a) * K <= Abs(a)
    BY <2>1, RoundedFacts
  <2>4. y \in Int
    <3> HIDE DEF T, x
    <3> QED
      BY <1>3, <2>3
  <2>5. p \in Int /\ (Abs(y) <= K => p = y) /\ Distance(p, y) * K <= Abs(y)
    <3>1. p = Rounded(y)
      BY <1>4 DEF Product
    <3> HIDE DEF p, y
    <3> QED
      BY <2>4, <3>1, RoundedFacts
  <2> HIDE DEF a, x, T, K, H, W, p
  <2>6. Abs(W) = Abs(a) * T /\ Distance(y, W) = Distance(x, a) * T
    BY <1>3, <2>1, <2>2, <2>3, DistanceScales
  <2>7. Abs(a) \in Nat /\ Distance(x, a) \in Nat /\ Distance(p, y) \in Nat /\ Distance(y, W) \in Nat
        /\ Distance(p, W) \in Nat
    BY <1>2, <2>1, <2>3, <2>4, <2>5, DistanceNat
  <2>8. CASE Abs(W) <= K
    <3>1. Abs(a) <= Abs(a) * T
      BY <1>3, <2>7
    <3>2. x = a
      BY <1>1, <1>2, <2>3, <2>6, <2>7, <2>8, <3>1
    <3>3. y = W
      BY <2>2, <3>2
    <3>4. p = W
      BY <2>5, <2>8, <3>3
    <3> QED
      BY <2>5, <3>4 DEF NearProduct, W
  <2>9. CASE Abs(W) > K
    <3>1. Distance(y, W) * K <= Abs(W)
      <4>1. \A d, e, i, j \in Nat : d * i <= e => (d * j) * i <= e * j
        <5> SUFFICES ASSUME NEW d \in Nat, NEW e \in Nat, NEW i \in Nat, NEW j \in Nat, d * i <= e
                     PROVE  (d * j) * i <= e * j
          OBVIOUS
        <5>1. e * j = (d * i) * j + (e - d * i) * j /\ (e - d * i) * j \in Nat
          OBVIOUS
        <5>2. (d * i) * j = (d * j) * i
          OBVIOUS
        <5> QED
          BY <5>1, <5>2
      <4>2. (Distance(x, a) * T) * K <= Abs(a) * T
        BY <1>1, <1>3, <2>3, <2>7, <4>1
      <4> QED
        BY <2>6, <4>2
    <3>2. Distance(y, W) <= Abs(W)
      <4>1. \A d \in Nat : d <= d * K /\ d * K \in Nat
        BY <1>1
      <4> QED
        BY <1>2, <2>7, <3>1, <4>1
    <3>3. Abs(y) <= Abs(W) + Distance(y, W) /\ Abs(y) \in Nat
      BY <1>2, <2>4, DistanceNat
    <3>4. Distance(p, W) <= Distance(p, y) + Distance(y, W)
      BY <1>2, <2>4, <2>5, DistanceNat
    <3>5. Distance(p, W) * K <= 8 * Abs(W)
      <4>1. \A d, i, j \in Nat : d <= i + j => d * K <= i * K + j * K /\ d * K \in Nat
                                              /\ i * K \in Nat /\ j * K \in Nat
        <5> SUFFICES ASSUME NEW d \in Nat, NEW i \in Nat, NEW j \in Nat, d <= i + j
                     PROVE  /\ d * K <= i * K + j * K /\ d * K \in Nat
                            /\ i * K \in Nat /\ j * K \in Nat
          OBVIOUS
        <5>1. i * K + j * K = d * K + (i + j - d) * K /\ (i + j - d) * K \in Nat
          BY <1>1
        <5> QED
          BY <1>1, <5>1
      <4>2. /\ Distance(p, W) * K <= Distance(p, y) * K + Distance(y, W) * K
            /\ Distance(p, W) * K \in Nat /\ Distance(p, y) * K \in Nat
            /\ Distance(y, W) * K \in Nat
        BY <2>7, <3>4, <4>1
      <4> QED
        BY <1>2, <2>5, <2>7, <3>1, <3>2, <3>3, <4>2
    <3>6. Distance(p, W) * Exp(2, Mantissa - 3) <= Abs(W)
      BY <1>2, <2>7, <3>5, EightParts DEF K
    <3> QED
      BY <1>4, <2>5, <2>9, <3>6 DEF NearProduct, W, K
  <2> QED
    BY <1>1, <1>2, <2>8, <2>9
<1>5. ASSUME t % 10 # 0 PROVE /\ p \in Int /\ (Abs(W) <= K => p = W)
                              /\ Distance(p, W) * K <= Abs(W)
                              /\ NearProduct(p, t)
  <2>1. p = Rounded(W)
    BY <1>5 DEF Product
  <2>2. p \in Int /\ (Abs(W) <= K => p = W) /\ Distance(p, W) * K <= Abs(W)
    <3> HIDE DEF W, p
    <3> QED
      BY <1>2, <2>1, RoundedFacts
  <2>3. Distance(p, W) * Exp(2, Mantissa - 3) <= Abs(W)
    <3> HIDE DEF W, p
    <3>1. Distance(p, W) \in Nat
      BY <1>2, <2>2, DistanceNat
    <3>2. Distance(p, W) * Exp(2, Mantissa) <= 8 * Abs(W)
      BY <1>1, <1>2, <2>2, <3>1
    <3> QED
      BY <1>2, <3>1, <3>2, EightParts
  <2> QED
    BY <1>5, <2>2, <2>3 DEF NearProduct
<1>6. ASSUME NEW m \in Products(t) PROVE m \in Int /\ NearProduct(m, t)
  <2>1. p \in Int /\ NearProduct(p, t)
    BY <1>4, <1>5
  <2>2. CASE t % 5 = 0 \/ column.scale < 2
    <3>1. m = p
      BY <1>6, <2>2 DEF Products
    <3> QED
      BY <2>1, <3>1
  <2>3. CASE t % 5 # 0 /\ column.scale >= 2
    <3>0. t % 10 # 0
      BY <2>3
    <3>1. p \in Int /\ (Abs(W) <= K => p = W) /\ Distance(p, W) * K <= Abs(W)
      BY <1>5, <3>0
    <3>natural. Abs(p) \in Nat
      <4> HIDE DEF p
      <4> QED
        BY <3>1, DistanceNat
    <3>2. p = Rounded(W)
      BY <3>0 DEF Product
    <3>3. ~(column.scale < 2)
      BY <2>3, ScaledNumber
    <3>4. CASE Abs(p) <= H
      <4>1. m \in {p, Inward(p)}
        BY <1>6, <2>3, <3>3, <3>4 DEF Products
      <4>2. Abs(W) <= K
        <5> SUFFICES ASSUME Abs(W) > K PROVE FALSE
          BY <1>1, <1>2
        <5> HIDE DEF W, p
        <5>1. /\ W > 0 => p > H
              /\ W < 0 => p < -H
          BY <1>2, <3>2, RoundedBeyond
        <5>2. W # 0
          BY <1>1 DEF Abs
        <5> HIDE DEF H, K
        <5> QED
          BY <1>1, <1>2, <3>1, <3>4, <5>1, <5>2 DEF Abs
      <4>3. p = W
        BY <3>1, <4>2
      <4> HIDE DEF W, p
      <4>4. m \in Int
        BY <1>2, <4>1, <4>3 DEF Inward
      <4> QED
        BY <2>3, <4>1, <4>3, <4>4 DEF NearProduct, W
    <3>5. CASE Abs(p) > H
      <4> DEFINE u == Ulp(p)
      <4>1. u \in Nat /\ u * K <= 2 * Abs(p)
        <5>1. /\ u \in Nat \ {0}
              /\ Abs(p) <= K => u = 1
              /\ Abs(p) > K => u * K < 2 * Abs(p)
          <6> HIDE DEF p
          <6> QED
            BY <3>1, UlpFacts
        <5>2. Abs(p) \in Nat
          BY <3>1, DistanceNat
        <5> HIDE DEF u, p, K, H
        <5>3. CASE Abs(p) <= K
          BY <1>1, <3>5, <5>1, <5>2, <5>3
        <5>4. CASE Abs(p) > K
          <6>1. u * K \in Nat
            BY <1>1, <5>1
          <6> QED
            BY <5>1, <5>2, <5>4, <6>1
        <5> QED
          BY <1>1, <5>2, <5>3, <5>4
      <4>2. m \in p - 2 * u .. p + 2 * u
        <5>1. ~(Abs(p) <= H)
          BY <1>1, <3>natural, <3>5
        <5> QED
          BY <1>6, <2>3, <3>3, <5>1 DEF Products
      <4> HIDE DEF u, p, K, H, W
      <4>3. m \in Int /\ Distance(m, p) <= 2 * u
        BY <3>1, <4>1, <4>2 DEF Distance
      <4>4. /\ Distance(m, W) <= Distance(m, p) + Distance(p, W)
            /\ Distance(m, W) \in Nat /\ Distance(m, p) \in Nat /\ Distance(p, W) \in Nat
            /\ Abs(p) <= Abs(W) + Distance(p, W) /\ Abs(p) \in Nat
        BY <1>2, <3>1, <4>3, DistanceNat
      <4>5. Distance(m, W) <= 2 * u + Distance(p, W)
        BY <4>1, <4>3, <4>4
      <4>6. \A d, i, j \in Nat : d <= 2 * i + j => /\ d * K <= 2 * (i * K) + j * K
                                                   /\ d * K \in Nat /\ i * K \in Nat
                                                   /\ j * K \in Nat /\ 8 * j <= j * K
        <5> SUFFICES ASSUME NEW d \in Nat, NEW i \in Nat, NEW j \in Nat, d <= 2 * i + j
                     PROVE  /\ d * K <= 2 * (i * K) + j * K
                            /\ d * K \in Nat /\ i * K \in Nat /\ j * K \in Nat /\ 8 * j <= j * K
          OBVIOUS
        <5>1. 2 * (i * K) + j * K = d * K + (2 * i + j - d) * K /\ (2 * i + j - d) * K \in Nat
          BY <1>1
        <5>2. j * K = 8 * j + j * (K - 8) /\ j * (K - 8) \in Nat
          BY <1>1
        <5> QED
          BY <1>1, <5>1, <5>2
      <4>7. /\ Distance(m, W) * K <= 2 * (u * K) + Distance(p, W) * K
            /\ Distance(m, W) * K \in Nat /\ u * K \in Nat /\ Distance(p, W) * K \in Nat
            /\ 8 * Distance(p, W) <= Distance(p, W) * K
        BY <4>1, <4>4, <4>5, <4>6
      <4>8. Distance(m, W) * K <= 8 * Abs(W)
        <5>1. \A dk, uk, ek, e, aw, ap \in Nat :
                 /\ dk <= 2 * uk + ek /\ uk <= 2 * ap /\ ap <= aw + e
                 /\ ek <= aw /\ 8 * e <= ek
                 => dk <= 8 * aw
          OBVIOUS
        <5>2. /\ Distance(m, W) * K \in Nat /\ u * K \in Nat /\ Distance(p, W) * K \in Nat
              /\ Distance(p, W) \in Nat /\ Abs(W) \in Nat /\ Abs(p) \in Nat
          BY <1>2, <4>4, <4>7
        <5>3. /\ Distance(m, W) * K <= 2 * (u * K) + Distance(p, W) * K
              /\ u * K <= 2 * Abs(p) /\ Abs(p) <= Abs(W) + Distance(p, W)
              /\ Distance(p, W) * K <= Abs(W) /\ 8 * Distance(p, W) <= Distance(p, W) * K
          BY <3>1, <4>1, <4>4, <4>7
        <5> QED
          BY <5>1, <5>2, <5>3
      <4>9. Distance(m, W) * Exp(2, Mantissa - 3) <= Abs(W)
        BY <1>2, <4>4, <4>8, EightParts DEF K
      <4> QED
        BY <3>0, <4>3, <4>9 DEF NearProduct, W
    <3> QED
      BY <1>1, <3>natural, <3>4, <3>5
  <2> QED
    BY <2>2, <2>3, ScaledNumber
<1> QED
  BY <1>6

(* No power of two is a multiple of five: so the first number above a      *)
(* range is no multiple of ten.                                            *)
LEMMA PowerOfTwo == \A n \in Nat : Exp(2, n) \in Nat /\ Exp(2, n) % 5 # 0
<1> DEFINE S == {n \in Nat : Exp(2, n) % 5 # 0}
<1>1. Exp(2, 0) = 1 /\ \A n \in Nat : Exp(2, n) \in Nat /\ Exp(2, n + 1) = 2 * Exp(2, n)
  BY ExpSteps, ExpGrows
<1>2. 0 \in S
  BY <1>1
<1>3. ASSUME NEW n \in Nat, n \in S PROVE n + 1 \in S
  <2>1. \A e \in Nat : e % 5 # 0 => (2 * e) % 5 # 0
    OBVIOUS
  <2>2. Exp(2, n) \in Nat /\ Exp(2, n) % 5 # 0 /\ Exp(2, n + 1) = 2 * Exp(2, n)
    BY <1>1, <1>3
  <2> QED
    BY <2>1, <2>2
<1>4. \A n \in Nat : n \in S
  <2> HIDE DEF S
  <2> QED
    BY <1>2, <1>3, Induction
<1> QED
  BY <1>1, <1>4

(* A number for a DECIMAL goes through the bounds of its width.            *)
LEMMA DecimalOutcome ==
    ASSUME Explained, FromNumber, type \in Decimals
    PROVE  /\ given.tenths \in Int /\ column \in Columns
           /\ \E n \in DecimalInts(given.source, given.tenths) :
                 /\ data = (ToWidth(given.source, n)).data
                 /\ status = (ToWidth(given.source, n)).status
<1>1. PICK t \in Tenths : NumberExplained(t)
  BY NumberGiven
<1>2. t \in Int /\ column \in Columns
  BY DataConvertAssumption DEF Explained
<1>3. ASSUME NEW source, NEW results, NumberReturned(source, t, results)
      PROVE  /\ given.source = source /\ given.tenths = t
             /\ \E n \in DecimalInts(source, t) : /\ data = (ToWidth(source, n)).data
                                                  /\ status = (ToWidth(source, n)).status
  <2>1. NumberResults(source, t, results) = {ToWidth(source, n) : n \in DecimalInts(source, t)}
    BY DEF NumberResults, Decimals, Floats, TextTypes, DateTypes
  <2> QED
    BY <1>3, <2>1 DEF NumberReturned, Returned
<1> QED
  BY <1>1, <1>2, <1>3 DEF NumberExplained

(* A number that is so near is as far from zero, on the same side, and the *)
(* same number where the bounds of an INT are.                             *)
LEMMA NearWithin ==
    ASSUME NEW w \in Int, NEW m \in Int, Distance(m, w) * Exp(2, Mantissa - 3) <= Abs(w)
    PROVE  /\ w >= 0 => m >= 0
           /\ w <= 0 => m <= 0
           /\ 2 * Abs(m) <= 3 * Abs(w)
           /\ m # w => Abs(w) > 2 * Exp(2, Bits32) /\ Abs(m) > 2 * Exp(2, Bits32)
<1> DEFINE L == Exp(2, Mantissa - 3)
           I == Exp(2, Bits32)
           d == Distance(m, w)
<1>1. L \in Nat /\ L >= 32 /\ I \in Nat /\ L >= 4 * I
  BY MantissaFacts
<1> HIDE DEF L, I
<1>2. d \in Nat /\ Abs(w) \in Nat /\ Abs(m) \in Nat /\ d * L <= Abs(w)
  BY DistanceNat DEF L
<1>3. \A x, y \in Nat : y >= 32 => 32 * x <= x * y /\ x * y \in Nat /\ (x > 0 => y <= x * y)
  <2> SUFFICES ASSUME NEW x \in Nat, NEW y \in Nat, y >= 32
               PROVE  32 * x <= x * y /\ x * y \in Nat /\ (x > 0 => y <= x * y)
    OBVIOUS
  <2>1. x * y = 32 * x + x * (y - 32) /\ x * (y - 32) \in Nat
    OBVIOUS
  <2>2. x > 0 => x * y = y + (x - 1) * y /\ (x - 1) * y \in Nat
    OBVIOUS
  <2> QED
    BY <2>1, <2>2
<1>4. 32 * d <= Abs(w) /\ (d > 0 => L <= Abs(w))
  <2> HIDE DEF d
  <2>1. 32 * d <= d * L /\ d * L \in Nat /\ (d > 0 => L <= d * L)
    BY <1>1, <1>2, <1>3
  <2> QED
    BY <1>1, <1>2, <2>1
<1>5. (w >= 0 => m >= 0) /\ (w <= 0 => m <= 0)
  BY <1>4 DEF Distance, Abs
<1>6. Abs(m) <= Abs(w) + d /\ Abs(w) <= Abs(m) + d
  BY DEF Distance, Abs
<1>7. m # w => d > 0
  BY DEF Distance
<1> HIDE DEF d
<1>8. 2 * Abs(m) <= 3 * Abs(w)
  BY <1>2, <1>4, <1>6
<1>9. ASSUME m # w PROVE Abs(w) > 2 * I /\ Abs(m) > 2 * I
  BY <1>1, <1>2, <1>4, <1>6, <1>7, <1>9
<1> QED
  BY <1>5, <1>8, <1>9 DEF I

(* A product that stands for a number of so few bits fits, and has its     *)
(* sign.                                                                   *)
LEMMA ProductFits ==
    ASSUME column \in Columns, NEW t \in Int, Abs(Scaled(t)) <= Exp(2, Bits64 - 2),
           NEW m \in Products(t)
    PROVE  /\ m \in Int64 /\ m \in Int
           /\ t >= 0 => m >= 0
           /\ Scaled(t) >= 0 => m >= 0
           /\ NearProduct(m, t)
<1> DEFINE w == Scaled(t)
           Q == Exp(2, Bits64 - 2)
<1>1. m \in Int /\ NearProduct(m, t)
  BY ProductNear
<1>2. w \in Int /\ (t >= 0 => w >= 0)
  BY ScaledNumber
<1>3. Q \in Nat /\ Q >= 2 /\ IntMin(Bits64) = -(2 * Q) /\ IntMax(Bits64) = 2 * Q - 1
  <2>1. /\ Bits64 - 2 \in Nat /\ (Bits64 - 2) + 1 = Bits64 - 1 /\ 2 <= Bits64 - 2 /\ 2 \in Nat
    BY DataConvertAssumption
  <2>2. /\ Exp(2, Bits64 - 2) \in Nat /\ Exp(2, (Bits64 - 2) + 1) = 2 * Exp(2, Bits64 - 2)
        /\ Bits64 - 2 < Exp(2, Bits64 - 2)
    BY <2>1, ExpGrows, ExpSteps
  <2> QED
    BY <2>1, <2>2 DEF IntMin, IntMax
<1>4. \/ m = w \/ m = Inward(w)
      \/ Distance(m, w) * Exp(2, Mantissa - 3) <= Abs(w)
  BY <1>1 DEF NearProduct
<1>5. Abs(w) <= Q
  OBVIOUS
<1> HIDE DEF w, Q
<1>6. 2 * Abs(m) <= 3 * Abs(w) /\ (w >= 0 => m >= 0)
  <2>1. CASE m = w \/ m = Inward(w)
    BY <1>2, <2>1 DEF Inward, Abs
  <2>2. CASE Distance(m, w) * Exp(2, Mantissa - 3) <= Abs(w)
    BY <1>1, <1>2, <2>2, NearWithin
  <2> QED
    BY <1>4, <2>1, <2>2
<1>7. m \in Int64
  BY <1>1, <1>2, <1>3, <1>5, <1>6 DEF Abs, Int64
<1> QED
  BY <1>1, <1>2, <1>6, <1>7 DEF w

(* What getDecimalInt() makes of a number that fits.                       *)
LEMMA DecimalIntFits ==
    ASSUME column \in Columns, NEW t \in Int, Scaled(t) \in Int64, NEW n \in getDecimalInt(t)
    PROVE  /\ n \in Int64 /\ n \in Int
           /\ Scaled(t) >= 0 => n >= 0
           /\ n = Scaled(t) \/ (IsTiny(t) /\ n = Inward(Scaled(t)))
<1> DEFINE w == Scaled(t)
<1>1. PICK k \in {w, Inward(w)} : /\ k = w \/ IsTiny(t)
                                  /\ n = Nearest(k, IntMin(Bits64), IntMax(Bits64))
  BY DEF getDecimalInt
<1>2. w \in Int
  BY ScaledNumber
<1>3. w \in Int64
  OBVIOUS
<1> HIDE DEF w
<1>4. Inward(w) \in Int64 /\ Inward(w) \in Int /\ (w >= 0 => Inward(w) >= 0)
  BY <1>2, <1>3, WidthOfBits64 DEF Inward, Int64
<1>5. k \in Int /\ IntMin(Bits64) <= k /\ k <= IntMax(Bits64)
  BY <1>1, <1>2, <1>3, <1>4, WidthOfBits64 DEF Int64
<1>6. n = k
  BY <1>1, <1>5, WidthOfBits64 DEF Nearest
<1> QED
  BY <1>1, <1>2, <1>3, <1>4, <1>6 DEF w

(* The integer that is kept for a DECIMAL column stands for the number: it *)
(* may have lost one, or be as near as a double comes.                     *)
StandsFor(n) ==
    \/ n = Whole
    \/ /\ n = Inward(Whole)
       /\ IF given.source = "decimal" THEN IsTiny(given.tenths)
          ELSE given.tenths % 5 # 0 /\ column.scale >= 2
    \/ /\ given.source # "decimal"
       /\ given.tenths % 10 = 0 => Abs(Whole) > Exp(2, Mantissa)
       /\ Distance(n, Whole) * Exp(2, Mantissa - 3) <= Abs(Whole)

LEMMA DecimalExact ==
    ASSUME Explained, FromNumber, type \in Decimals, Fits,
           NEW n \in DecimalInts(given.source, given.tenths)
    PROVE  /\ Whole = Scaled(given.tenths) /\ Whole \in Int64 /\ Whole \in Int
           /\ n \in Int64 /\ n \in Int
           /\ type = "UDECIMAL" \/ given.source = "string" => n >= 0
           /\ StandsFor(n)
<1> DEFINE t == given.tenths
           w == Scaled(t)
<1>1. t \in Int /\ column \in Columns
  BY DecimalOutcome
<1>2. Whole = w
  BY DEF Whole
<1>3. /\ given.source = "decimal" => w \in Int64
      /\ given.source # "decimal" => Abs(w) <= Exp(2, Bits64 - 2)
      /\ type = "UDECIMAL" => t >= 0
      /\ type = "DECIMAL" => given.source # "uint64"
      /\ given.source = "string" => w >= 0
  <2>1. type \in {"DECIMAL", "UDECIMAL"}
    BY DEF Decimals
  <2>2. t >= 0 => w >= 0
    BY <1>1, ScaledNumber
  <2> QED
    BY <1>2, <2>1, <2>2 DEF Fits, ThroughDouble
<1>4. w \in Int /\ (t >= 0 => w >= 0)
  BY <1>1, ScaledNumber
<1>5. \A k \in Int64 : /\ k >= 0 => CastUInt64(k) = {k} /\ AsInt64(k) = k
                       /\ CastInt64(k) = {k}
  BY WidthOfBits64 DEF Int64, UInt64, CastUInt64, CastInt64, AsInt64
<1>6. w \in Int64
  <2> HIDE DEF w, t
  <2>1. given.source # "decimal" => IntMin(Bits64) + 2 <= w /\ w <= IntMax(Bits64)
    BY <1>3, <1>4, WithinInt64
  <2> QED
    BY <1>3, <1>4, <2>1, WidthOfBits64 DEF Int64
<1>7. SUFFICES /\ n \in Int64 /\ n \in Int
               /\ type = "UDECIMAL" \/ given.source = "string" => n >= 0
               /\ StandsFor(n)
  BY <1>2, <1>4, <1>6
<1>8. ASSUME NEW m \in Products(t), given.source # "decimal"
      PROVE  /\ m \in Int64 /\ m \in Int
             /\ type = "UDECIMAL" \/ given.source = "string" => m >= 0
             /\ StandsFor(m)
  <2>1. /\ m \in Int64 /\ m \in Int
        /\ t >= 0 => m >= 0
        /\ w >= 0 => m >= 0
        /\ NearProduct(m, t)
    BY <1>1, <1>3, <1>8, ProductFits
  <2>2. StandsFor(m)
    BY <1>2, <1>8, <2>1 DEF NearProduct, StandsFor
  <2> QED
    BY <1>3, <2>1, <2>2
<1>9. CASE given.source = "decimal"
  <2>1. PICK k \in getDecimalInt(t) : n = IF type = "DECIMAL" THEN k ELSE k % Exp(2, Bits64)
    BY <1>9 DEF DecimalInts
  <2>2. /\ k \in Int64 /\ k \in Int
        /\ w >= 0 => k >= 0
        /\ k = w \/ (IsTiny(t) /\ k = Inward(w))
    BY <1>1, <1>6, DecimalIntFits
  <2>3. type = "UDECIMAL" => k >= 0
    BY <1>3, <1>4, <2>2
  <2> HIDE DEF w, t
  <2>4. k >= 0 => k % Exp(2, Bits64) = k
    <3>1. \A m \in Nat \ {0} : \A x \in 0 .. m - 1 : x % m = x
      OBVIOUS
    <3>2. k >= 0 => k \in 0 .. Exp(2, Bits64) - 1
      BY <2>2, WidthOfBits64 DEF Int64
    <3>3. Exp(2, Bits64) \in Nat \ {0}
      BY WidthOfBits64
    <3> QED
      BY <3>1, <3>2, <3>3
  <2>5. n = k
    BY <2>1, <2>3, <2>4 DEF Decimals
  <2>6. StandsFor(n)
    BY <1>2, <1>9, <2>2, <2>5 DEF StandsFor, w, t
  <2> QED
    BY <1>9, <2>2, <2>3, <2>5, <2>6
<1>10. CASE given.source = "string"
  <2>1. PICK m \in Products(t) : \E k \in CastUInt64(m) : n = AsInt64(k)
    BY <1>10 DEF DecimalInts
  <2>2. n = m
    BY <1>5, <1>8, <1>10, <2>1
  <2> QED
    BY <1>8, <1>10, <2>2
<1>11. CASE given.source = "int64" \/ (given.source = "double" /\ type = "DECIMAL")
  <2>1. PICK m \in Products(t) : n \in CastInt64(m)
    BY <1>11 DEF DecimalInts
  <2>2. n = m
    BY <1>5, <1>8, <1>11, <2>1
  <2> QED
    BY <1>8, <1>11, <2>2
<1>12. CASE given.source = "uint64" \/ (given.source = "double" /\ type = "UDECIMAL")
  <2>1. PICK m \in Products(t) : n \in CastUInt64(m)
    BY <1>12 DEF DecimalInts
  <2>2. m >= 0
    BY <1>3, <1>8, <1>12, <2>1 DEF Decimals
  <2>3. n = m
    BY <1>5, <1>8, <1>12, <2>1, <2>2
  <2> QED
    BY <1>8, <1>12, <2>3
<1> QED
  BY <1>9, <1>10, <1>11, <1>12 DEF FromNumber, Decimals

(* The integer that is kept stays within the width, and reads back.        *)
LEMMA DecimalStored ==
    ASSUME Explained, FromNumber, type \in Decimals, Fits,
           NEW n \in DecimalInts(given.source, given.tenths),
           data = (ToWidth(given.source, n)).data,
           status = (ToWidth(given.source, n)).status,
           NEW low, NEW high,
           low = IF SignedBounds(given.source) THEN IntMin(Size) ELSE 0,
           high = IF SignedBounds(given.source) THEN IntMax(Size) ELSE UIntMax(Size)
    PROVE  /\ low \in Int /\ high \in Int /\ low <= 0 /\ 3 <= high
           /\ Stored = IF column.width = 8 THEN n ELSE Nearest(n, low, high)
           /\ status = IF Stored = n THEN "none" ELSE "saturated"
           /\ type = "DECIMAL" => low = IntMin(Size) /\ high = IntMax(Size)
           /\ column.width = 8 => Size = Bits64
<1> DEFINE M == IntMax(Size)
           stored == IF column.width = 8 THEN n ELSE Nearest(n, low, high)
<1>1. /\ n \in Int64
      /\ type = "UDECIMAL" => n >= 0
      /\ type = "DECIMAL" => given.source # "uint64"
      /\ column \in Columns
  BY DecimalExact, DecimalOutcome DEF Fits
<1>2. /\ M \in Nat /\ M >= 3 /\ IntMin(Size) = -M - 1 /\ UIntMax(Size) = 2 * M + 1
  BY <1>1, WidthOfSize
<1>3. data = Number(stored) /\ status = IF stored = n THEN "none" ELSE "saturated"
  BY DEF ToWidth
<1>4. type = "DECIMAL" => SignedBounds(given.source)
  BY <1>1 DEF SignedBounds, FromNumber
<1>5. column.width = 8 => Size = Bits64
  BY DEF Size, DecimalBits, Decimals
<1>6. n \in Int /\ IntMin(Bits64) <= n /\ n <= IntMax(Bits64)
  BY <1>1, WidthOfBits64 DEF Int64
<1>7. /\ low \in Int /\ high \in Int /\ low <= 0 /\ 3 <= high
      /\ low \in {0, -M - 1} /\ high \in {M, 2 * M + 1}
  BY <1>2
<1>8. type \in {"DECIMAL", "UDECIMAL"}
  BY DEF Decimals
<1>9. CASE type = "DECIMAL"
  <2>1. low = IntMin(Size) /\ high = IntMax(Size)
    BY <1>4, <1>9
  <2>2. stored \in IntMin(Size) .. IntMax(Size)
    <3>1. CASE column.width = 8
      BY <1>2, <1>5, <1>6, <3>1
    <3>2. CASE column.width # 8
      BY <1>2, <1>6, <2>1, <3>2 DEF Nearest
    <3> QED
      BY <3>1, <3>2
  <2> HIDE DEF stored
  <2>3. stored \in Int
    BY <1>2, <2>2
  <2>4. Stored = stored
    BY <1>1, <1>3, <1>9, <2>2, <2>3, StoredNumber
  <2> QED
    BY <1>3, <1>5, <1>7, <2>1, <2>4 DEF stored
<1>10. CASE type = "UDECIMAL"
  <2>1. stored \in 0 .. UIntMax(Size)
    <3>1. CASE column.width = 8
      BY <1>1, <1>2, <1>5, <1>6, <1>10, <3>1
    <3>2. CASE column.width # 8
      <4>1. n >= 0
        BY <1>1, <1>10
      <4>2. Nearest(n, low, high) \in 0 .. high
        BY <1>6, <1>7, <4>1 DEF Nearest
      <4> QED
        BY <1>2, <1>7, <3>2, <4>2
    <3> QED
      BY <3>1, <3>2
  <2> HIDE DEF stored
  <2>2. stored \in Int /\ type \notin Signed \cup {"DECIMAL"}
    BY <1>2, <1>10, <2>1 DEF Signed
  <2>3. Stored = stored
    BY <1>1, <1>3, <1>10, <2>1, <2>2, StoredNumber
  <2> QED
    BY <1>3, <1>5, <1>7, <1>10, <2>3 DEF stored
<1> QED
  BY <1>8, <1>9, <1>10

(* A number that is stored in a column for decimals without a word.        *)
LEMMA SilentDecimal ==
    ASSUME Explained, FromNumber, type \in Decimals, status = "none", Fits
    PROVE  AsGiven
<1>1. PICK n \in DecimalInts(given.source, given.tenths) :
         /\ data = (ToWidth(given.source, n)).data
         /\ status = (ToWidth(given.source, n)).status
  BY DecimalOutcome
<1>2. Stored = n
  BY <1>1, DecimalStored
<1>3. Whole \in Int /\ n \in Int /\ StandsFor(n)
  BY DecimalExact
<1>4. ThroughDouble <=> given.source # "decimal"
  BY DEF ThroughDouble
<1>5. CASE n = Whole
  BY <1>2, <1>3, <1>5 DEF AsGiven, Distance
<1>6. CASE n = Inward(Whole) /\ n # Whole
           /\ IF given.source = "decimal" THEN IsTiny(given.tenths)
              ELSE given.tenths % 5 # 0 /\ column.scale >= 2
  <2>1. Distance(n, Whole) = 1
    BY <1>3, <1>6 DEF Distance, Inward
  <2> QED
    BY <1>2, <1>6, <2>1 DEF AsGiven
<1>7. CASE /\ given.source # "decimal"
           /\ given.tenths % 10 = 0 => Abs(Whole) > Exp(2, Mantissa)
           /\ Distance(n, Whole) * Exp(2, Mantissa - 3) <= Abs(Whole)
  BY <1>2, <1>4, <1>7 DEF AsGiven
<1> QED
  BY <1>3, <1>5, <1>6, <1>7 DEF StandsFor

(* A DECIMAL of less than eight bytes has the width of an INT at most.      *)
LEMMA SmallDecimal ==
    ASSUME column \in Columns, type \in Decimals, column.width # 8
    PROVE  Exp(2, Size) <= Exp(2, Bits32)
<1>1. column.width \in {1, 2, 4, 8}
  BY DEF Columns, type, Decimals, TextTypes
<1>2. Size \in {Bits8, Bits16, Bits32}
  BY <1>1 DEF Size, DecimalBits, Decimals
<1>3. /\ Bits8 \in Nat /\ Bits16 \in Nat /\ Bits32 \in Nat
      /\ Bits8 <= Bits32 /\ Bits16 <= Bits32
  BY DataConvertAssumption
<1>4. Size \in Nat /\ Size <= Bits32
  BY <1>2, <1>3
<1> QED
  BY <1>3, <1>4, ExpGrows

(* The conversions into a DECIMAL that keep to its values.                 *)
LEMMA NearestDecimal ==
    ASSUME Explained, Clean, type \in Decimals, status # "invalid"
    PROVE  NearestStored(given.tenths * Exp(10, column.scale))
<1> DEFINE t == given.tenths
           number == t * Exp(10, column.scale)
           w == Scaled(t)
           M == IntMax(Size)
           low == IF type = "DECIMAL" THEN IntMin(Size) ELSE 0
           high == IF type = "DECIMAL" THEN IntMax(Size) ELSE UIntMax(Size)
<1>1. /\ FromNumber /\ Fits
      /\ type = "UDECIMAL" => given.source \notin {"int64", "string"}
      /\ type = "UDECIMAL" => t >= 0
  BY DEF Clean, Fits
<1>2. t \in Int /\ column \in Columns
  BY <1>1, DecimalOutcome
<1>3. PICK n \in DecimalInts(given.source, given.tenths) :
         /\ data = (ToWidth(given.source, n)).data
         /\ status = (ToWidth(given.source, n)).status
  BY <1>1, DecimalOutcome
<1>4. /\ low = IF SignedBounds(given.source) THEN IntMin(Size) ELSE 0
      /\ high = IF SignedBounds(given.source) THEN IntMax(Size) ELSE UIntMax(Size)
  <2>1. SignedBounds(given.source) <=> type = "DECIMAL"
    BY <1>1 DEF SignedBounds, Fits, FromNumber, Decimals
  <2> QED
    BY <2>1
<1>5. Usable = low .. high
  <2>1. CASE type = "DECIMAL"
    BY <2>1 DEF Usable, Signed
  <2>2. CASE type = "UDECIMAL"
    BY <2>2 DEF Usable, Signed
  <2> QED
    BY <2>1, <2>2 DEF Decimals
<1>6. M \in Nat /\ M >= 3 /\ IntMin(Size) = -M - 1 /\ UIntMax(Size) = 2 * M + 1
  BY <1>2, WidthOfSize
<1>7. /\ column.scale \in Nat /\ number \in Int /\ w \in Int
      /\ t >= 0 => w >= 0 /\ 10 * w <= number
      /\ t < 0 => w <= 0 /\ number <= 10 * w
      /\ column.scale >= 2 => w % 10 = 0 /\ (t > 0 => w >= 10)
  BY <1>2, ScaledNumber
<1>8. /\ Whole = w /\ w \in Int64 /\ n \in Int64
      /\ type = "UDECIMAL" => n >= 0
      /\ \/ n = w
         \/ column.scale >= 2 /\ ((w > 0 /\ n = w - 1) \/ (w < 0 /\ n = w + 1))
         \/ /\ w >= 0 => n >= 0
            /\ w <= 0 => n <= 0
            /\ Abs(w) > 2 * Exp(2, Bits32) /\ Abs(n) > 2 * Exp(2, Bits32)
  <2>1. /\ Whole = w /\ w \in Int64 /\ n \in Int64 /\ n \in Int
        /\ type = "UDECIMAL" => n >= 0
        /\ StandsFor(n)
    BY <1>1, DecimalExact
  <2>2. given.source = "decimal" => ~IsTiny(given.tenths)
    BY DEF Clean
  <2> HIDE DEF w, t
  <2>3. CASE n = Inward(w) /\ column.scale >= 2
    BY <1>7, <2>1, <2>3 DEF Inward
  <2>4. CASE Distance(n, w) * Exp(2, Mantissa - 3) <= Abs(w)
    BY <1>7, <2>1, <2>4, NearWithin
  <2>5. n = w \/ (n = Inward(w) /\ column.scale >= 2)
        \/ Distance(n, w) * Exp(2, Mantissa - 3) <= Abs(w)
    BY <2>1, <2>2 DEF StandsFor
  <2> QED
    BY <2>1, <2>3, <2>4, <2>5
<1>9. /\ low \in Int /\ high \in Int /\ low <= 0 /\ 3 <= high
      /\ Stored = IF column.width = 8 THEN n ELSE Nearest(n, low, high)
      /\ status = IF Stored = n THEN "none" ELSE "saturated"
      /\ column.width = 8 => Size = Bits64
  <2> HIDE DEF low, high
  <2> QED
    BY <1>1, <1>3, <1>4, DecimalStored
<1>10. /\ n \in Int /\ IntMin(Bits64) <= n /\ n <= IntMax(Bits64)
       /\ IntMin(Bits64) <= w /\ w <= IntMax(Bits64)
  BY <1>8, WidthOfBits64 DEF Int64
(* Neither end of the range has a multiple of ten next to it.              *)
<1>11. (high + 1) % 10 # 0 /\ (type = "DECIMAL" => (low - 1) % 10 # 0)
  <2>1. Size \in BitWidths
    BY <1>2, SizeIsWidth
  <2>2. Size \in Nat /\ Size >= 3
    BY <2>1, DataConvertAssumption DEF BitWidths
  <2>3. /\ Exp(2, Size) % 5 # 0 /\ Exp(2, Size - 1) % 5 # 0
        /\ Exp(2, Size) \in Nat /\ Exp(2, Size - 1) \in Nat
        /\ Exp(2, Size - 1) % 2 = 0
    <3>1. Size - 1 \in Nat /\ Size - 2 \in Nat /\ (Size - 2) + 1 = Size - 1
      BY <2>2
    <3>2. Exp(2, (Size - 2) + 1) = 2 * Exp(2, Size - 2) /\ Exp(2, Size - 2) \in Nat
      BY <3>1, ExpSteps, PowerOfTwo
    <3>3. \A e \in Nat : (2 * e) % 2 = 0
      OBVIOUS
    <3> QED
      BY <2>2, <3>1, <3>2, <3>3, PowerOfTwo
  <2>4. /\ high + 1 = IF type = "DECIMAL" THEN Exp(2, Size - 1) ELSE Exp(2, Size)
        /\ type = "DECIMAL" => low - 1 = -Exp(2, Size - 1) - 1
    BY <2>3 DEF IntMax, IntMin, UIntMax
  <2>5. \A e \in Nat : e % 5 # 0 => e % 10 # 0
    OBVIOUS
  <2>6. \A e \in Nat : e % 2 = 0 => (-e - 1) % 10 # 0
    OBVIOUS
  <2> HIDE DEF low, high
  <2> QED
    BY <2>3, <2>4, <2>5, <2>6
<1> HIDE DEF w, t, number
<1>12. /\ Exp(2, Bits32) \in Nat
       /\ column.width # 8 => high <= 2 * Exp(2, Bits32) /\ -(2 * Exp(2, Bits32)) <= low
  <2>1. Exp(2, Bits32) \in Nat
    BY MantissaFacts
  <2>2. ASSUME column.width # 8 PROVE Exp(2, Size) <= Exp(2, Bits32)
    BY <1>2, <2>2, SmallDecimal
  <2>3. Exp(2, Size) = 2 * M + 2
    BY <1>2, WidthOfSize
  <2>4. -M - 1 <= low /\ high <= 2 * M + 1
    BY <1>6
  <2> HIDE DEF M, low, high
  <2> QED
    BY <1>6, <1>9, <2>1, <2>2, <2>3, <2>4
<1>13. CASE column.width = 8
  <2>1. Stored = n /\ status = "none" /\ Size = Bits64
    BY <1>9, <1>13
  <2>2. n \in low .. high /\ w \in low .. high
    <3>1. CASE type = "DECIMAL"
      BY <1>6, <1>7, <1>10, <2>1, <3>1
    <3>2. CASE type = "UDECIMAL"
      BY <1>1, <1>6, <1>7, <1>8, <1>10, <2>1, <3>2
    <3> QED
      BY <3>1, <3>2 DEF Decimals
  <2> QED
    BY <1>5, <1>8, <2>1, <2>2 DEF NearestStored
<1> HIDE DEF low, high
<1>14. CASE column.width # 8 /\ n \in low .. high
  <2>1. Stored = n /\ status = "none"
    BY <1>9, <1>10, <1>14 DEF Nearest
  <2>2. w \in low .. high
    <3>1. CASE n = w
      BY <1>14, <3>1
    <3>2. CASE column.scale >= 2 /\ w > 0 /\ n = w - 1
      <4>1. w # high + 1
        BY <1>7, <1>11, <3>2
      <4> QED
        BY <1>7, <1>9, <1>14, <3>2, <4>1
    <3>3. CASE column.scale >= 2 /\ w < 0 /\ n = w + 1
      <4>1. type = "DECIMAL"
        BY <1>1, <1>2, <1>7, <3>3 DEF t, Decimals
      <4>2. w # low - 1
        BY <1>7, <1>11, <3>3, <4>1
      <4> QED
        BY <1>7, <1>9, <1>14, <3>3, <4>2
    <3>4. ~(Abs(n) > 2 * Exp(2, Bits32))
      BY <1>9, <1>10, <1>14, <1>12 DEF Abs
    <3> QED
      BY <1>8, <3>1, <3>2, <3>3, <3>4
  <2> QED
    BY <1>5, <1>8, <1>14, <2>1, <2>2 DEF NearestStored
<1>15. CASE column.width # 8 /\ n > high
  <2>1. Stored = high /\ status = "saturated"
    BY <1>9, <1>10, <1>15 DEF Nearest
  <2>2. number > 10 * high
    <3>1. w > 0
      BY <1>7, <1>8, <1>9, <1>10, <1>15
    <3>2. w >= high + 1
      BY <1>7, <1>8, <1>9, <1>10, <1>15, <1>12, <3>1 DEF Abs
    <3>3. t >= 0
      BY <1>2, <1>7, <3>1 DEF t
    <3> QED
      BY <1>7, <1>9, <3>2, <3>3
  <2>3. low <= high
    BY <1>9
  <2>4. \A m \in {Stored - 1, Stored, Stored + 1} \cap (low .. high) :
            Distance(10 * Stored, number) <= Distance(10 * m, number) /\ number # 10 * m
    BY <1>7, <1>9, <2>1, <2>2, <2>3, NearestBound
  <2>5. Stored \in low .. high
    BY <1>9, <2>1
  <2> QED
    BY <1>5, <2>1, <2>4, <2>5 DEF NearestStored, number, t
<1>16. CASE column.width # 8 /\ n < low
  <2>1. Stored = low /\ status = "saturated"
    BY <1>9, <1>10, <1>16 DEF Nearest
  <2>2. number < 10 * low
    <3>1. n < 0
      BY <1>9, <1>10, <1>16
    <3>2. w < 0
      BY <1>7, <1>8, <1>10, <3>1
    <3>3. w <= low - 1
      BY <1>7, <1>8, <1>9, <1>10, <1>16, <1>12, <3>2 DEF Abs
    <3>4. t < 0
      BY <1>2, <1>7, <3>2 DEF t
    <3> QED
      BY <1>7, <1>9, <3>3, <3>4
  <2>3. low <= high
    BY <1>9
  <2>4. \A m \in {Stored - 1, Stored, Stored + 1} \cap (low .. high) :
            Distance(10 * Stored, number) <= Distance(10 * m, number) /\ number # 10 * m
    BY <1>7, <1>9, <2>1, <2>2, <2>3, NearestBound
  <2>5. Stored \in low .. high
    BY <1>9, <2>1, <2>3
  <2> QED
    BY <1>5, <2>1, <2>4, <2>5 DEF NearestStored, number, t
<1> QED
  BY <1>9, <1>10, <1>13, <1>14, <1>15, <1>16

(* What a saturated conversion stores is the nearest value of the column.  *)
LEMMA ExplainedNearest ==
    ASSUME Explained
    PROVE  SaturatesToNearest
<1> SUFFICES ASSUME Clean, status # "invalid"
             PROVE  NearestStored(given.tenths * Exp(10, column.scale))
  BY DEF SaturatesToNearest, NearestStored
<1>1. CASE type \in Integral
  <2>1. FromNumber /\ type \in IntegerTypes
    BY <1>1 DEF Clean, IntegerTypes
  <2>2. given.tenths \in Int /\ column \in Columns
    BY <2>1, IntegerOutcome
  <2>3. column.scale = 0
    BY <1>1, <2>2 DEF Columns, type, Integral, Signed, Unsigned, Decimals, TextTypes
  <2>4. 10 \in Int
    OBVIOUS
  <2>5. Exp(10, column.scale) = 1
    BY <2>3, <2>4, ExpSteps
  <2>6. given.tenths * Exp(10, column.scale) = given.tenths
    BY <2>2, <2>5
  <2> QED
    BY <1>1, <2>6, NearestInteger
<1>2. CASE type \in Decimals
  BY <1>2, NearestDecimal
<1> QED
  BY <1>1, <1>2 DEF Clean

(* SaturatesToNearest: what convert() reports as saturated is the value of *)
(* the column that is nearest to the number, and it was out of range.      *)
THEOREM SaturationIsNearest == Spec => []SaturatesToNearest
BY EveryResultIsExplained, ExplainedNearest, PTL

(* The length of a text is the one that the number has.                    *)
LEMMA SilentText ==
    ASSUME Explained, FromNumber, type \in TextTypes, status = "none"
    PROVE  data.length = Length(given.source, given.tenths)
<1>1. PICK t \in Tenths : NumberExplained(t)
  BY NumberGiven
<1>2. ASSUME NEW source, NEW results, NumberReturned(source, t, results)
      PROVE  data.length = Length(given.source, given.tenths)
  <2>1. NumberResults(source, t, results) = {ToText(Length(source, t))}
    BY DEF NumberResults, Decimals, Floats, TextTypes, DateTypes
  <2>2. /\ given.source = source /\ given.tenths = t
        /\ data = (ToText(Length(source, t))).data /\ status = (ToText(Length(source, t))).status
    BY <1>2, <2>1 DEF NumberReturned, Returned
  <2> QED
    BY <2>2 DEF ToText, Text
<1> QED
  BY <1>1, <1>2 DEF NumberExplained

(* No number is changed in silence.                                        *)
LEMMA ExplainedSilent ==
    ASSUME Explained
    PROVE  SilentMeansExact
<1> SUFFICES ASSUME FromNumber, status = "none" PROVE SilentMeansExact
  BY DEF SilentMeansExact
<1>1. CASE type \in (Integral \ {"BIT"}) \cup Decimals
  <2>1. type \notin TextTypes
    BY <1>1 DEF Decimals, Integral, Signed, Unsigned, TextTypes
  <2>2. Fits => AsGiven
    BY <1>1, SilentInteger, SilentDecimal DEF IntegerTypes
  <2> QED
    BY <1>1, <2>1, <2>2 DEF SilentMeansExact
<1>2. CASE type \in TextTypes
  <2>1. type \notin (Integral \ {"BIT"}) \cup Decimals
    BY <1>2 DEF Decimals, Integral, Signed, Unsigned, TextTypes
  <2> QED
    BY <1>2, <2>1, SilentText DEF SilentMeansExact
<1>3. CASE type \notin (Integral \ {"BIT"}) \cup Decimals \cup TextTypes
  BY <1>3 DEF SilentMeansExact
<1> QED
  BY <1>1, <1>2, <1>3

(* SilentMeansExact: what convert() stores without a word is the number it *)
(* was given, up to the fraction that the type does not hold.              *)
THEOREM SilenceIsExact == Spec => []SilentMeansExact
BY EveryResultIsExplained, ExplainedSilent, PTL

-----------------------------------------------------------------------------
(* Dates and times: what they are given as, and what makes them valid.     *)

(* The fields of the objects are numbers.                                  *)
LEMMA FieldRanges ==
    /\ \A d \in DateTimeFields :
          /\ d.year \in Nat /\ d.month \in Nat /\ d.day \in Nat
          /\ d.hour \in Nat /\ d.minute \in Nat /\ d.second \in Nat /\ d.microsecond \in Nat
          /\ d = [year |-> d.year, month |-> d.month, day |-> d.day, hour |-> d.hour,
                  minute |-> d.minute, second |-> d.second, microsecond |-> d.microsecond]
    /\ \A t \in TimeFields :
          /\ t.hour \in Int /\ t.minute \in Nat /\ t.second \in Nat
          /\ t.microsecond \in Nat /\ t.is_neg \in BOOLEAN
<1> DEFINE Bytes == 0 .. 2^8 - 1
           Years == 0 .. 2^16 - 1
           Hours == -2^15 .. 2^15 - 1
<1>1. Bytes \subseteq Nat /\ Years \subseteq Nat /\ Hours \subseteq Int
  OBVIOUS
<1>2. /\ DateTimeFields =
            [year : Years, month : Bytes, day : Bytes,
             hour : Bytes, minute : Bytes, second : Bytes, microsecond : Nat]
      /\ TimeFields = [hour : Hours, minute : Bytes, second : Bytes,
                       microsecond : Nat, is_neg : BOOLEAN]
  BY Zenon DEF DateTimeFields, TimeFields
<1> HIDE DEF Bytes, Years, Hours
<1>3. ASSUME NEW d \in DateTimeFields
      PROVE  /\ d.year \in Nat /\ d.month \in Nat /\ d.day \in Nat
             /\ d.hour \in Nat /\ d.minute \in Nat /\ d.second \in Nat /\ d.microsecond \in Nat
             /\ d = [year |-> d.year, month |-> d.month, day |-> d.day, hour |-> d.hour,
                     minute |-> d.minute, second |-> d.second, microsecond |-> d.microsecond]
  BY <1>1, <1>2
<1>4. ASSUME NEW t \in TimeFields
      PROVE  /\ t.hour \in Int /\ t.minute \in Nat /\ t.second \in Nat /\ t.microsecond \in Nat
             /\ t.is_neg \in BOOLEAN
  BY <1>1, <1>2
<1> QED
  BY <1>3, <1>4

(* What was given as a date is in the container as one of the overloads    *)
(* put it there.                                                           *)
LEMMA DateGiven ==
    ASSUME Explained, given.source \in {"datetext", "datetime"}
    PROVE  /\ given.object \in DateTimeFields
           /\ given.valid = validateDate(given.object)
           /\ column \in Columns
           /\ \/ /\ given.source = "datetext" /\ type \notin TextTypes
                 /\ data = (DateTextResult(given.object)).data
                 /\ status = (DateTextResult(given.object)).status
              \/ /\ given.source = "datetime"
                 /\ data = (DateTimeResult(given.object)).data
                 /\ status = (DateTimeResult(given.object)).status
<1>1. given # Nothing
  BY DEF Nothing
<1>2. ASSUME NEW t PROVE ~NumberExplained(t) /\ ~OctalExplained(t)
  BY DEF NumberExplained, OctalExplained, NumberReturned, Returned
<1>3. ASSUME NEW t PROVE ~TimeExplained(t)
  BY DEF TimeExplained, Returned
<1>4. ASSUME NEW b PROVE ~Returned([source |-> "null", nullable |-> b], NullResult(b))
  BY DEF Returned
<1>5. PICK d \in DateTimes : DateExplained(d)
  BY <1>1, <1>2, <1>3, <1>4 DEF Explained
<1>6. d \in DateTimeFields /\ column \in Columns
  BY DataConvertAssumption DEF Explained
<1> QED
  BY <1>5, <1>6 DEF DateExplained, Returned

(* The same for a time.                                                    *)
LEMMA TimeGiven ==
    ASSUME Explained, given.source \in {"timetext", "time"}
    PROVE  /\ given.object \in TimeFields
           /\ given.valid = validateTime(given.object)
           /\ column \in Columns
           /\ \/ /\ given.source = "timetext" /\ type \notin TextTypes
                 /\ data = (TimeTextResult(given.object)).data
                 /\ status = (TimeTextResult(given.object)).status
              \/ /\ given.source = "time"
                 /\ data = (TimeResult(given.object)).data
                 /\ status = (TimeResult(given.object)).status
<1>1. given # Nothing
  BY DEF Nothing
<1>2. ASSUME NEW t PROVE ~NumberExplained(t) /\ ~OctalExplained(t)
  BY DEF NumberExplained, OctalExplained, NumberReturned, Returned
<1>3. ASSUME NEW d PROVE ~DateExplained(d)
  BY DEF DateExplained, Returned
<1>4. ASSUME NEW b PROVE ~Returned([source |-> "null", nullable |-> b], NullResult(b))
  BY DEF Returned
<1>5. PICK t \in Times : TimeExplained(t)
  BY <1>1, <1>2, <1>3, <1>4 DEF Explained
<1>6. t \in TimeFields /\ column \in Columns
  BY DataConvertAssumption DEF Explained
<1> QED
  BY <1>5, <1>6 DEF TimeExplained, Returned

(* The lengths of the months agree with counting the days.                 *)
LEMMA MonthsAreCounted ==
    ASSUME NEW year \in Nat, NEW month \in 1 .. 12
    PROVE  MonthLength(year, month) = LastDay(year, month)
<1>1. CASE month = 2
  <2>1. year \div 4 - (year - 1) \div 4 = IF year % 4 = 0 THEN 1 ELSE 0
    OBVIOUS
  <2>2. year \div 100 - (year - 1) \div 100 = IF year % 100 = 0 THEN 1 ELSE 0
    OBVIOUS
  <2>3. year \div 400 - (year - 1) \div 400 = IF year % 400 = 0 THEN 1 ELSE 0
    OBVIOUS
  <2>4. DaysBefore(year) - DaysBefore(year - 1)
           = 365 + (IF year % 4 = 0 THEN 1 ELSE 0) - (IF year % 100 = 0 THEN 1 ELSE 0)
                 + (IF year % 400 = 0 THEN 1 ELSE 0)
    BY <2>1, <2>2, <2>3 DEF DaysBefore
  <2>5. /\ year % 100 = 0 => year % 4 = 0
        /\ year % 400 = 0 => year % 100 = 0
    OBVIOUS
  <2>6. DaysBeforeMonth(11) = 337
    BY DEF DaysBeforeMonth
  <2>7. MonthLength(year, month) = 28 + (IF year % 4 = 0 THEN 1 ELSE 0)
           - (IF year % 100 = 0 THEN 1 ELSE 0) + (IF year % 400 = 0 THEN 1 ELSE 0)
    BY <1>1, <2>4, <2>6 DEF MonthLength
  <2>8. LastDay(year, month) = IF IsLeap(year) THEN 29 ELSE 28
    BY <1>1 DEF LastDay
  <2> QED
    BY <2>5, <2>7, <2>8 DEF IsLeap
<1>2. CASE month # 2
  <2>1. MonthLength(year, month)
           = DaysBeforeMonth(((month + 9) % 12) + 1) - DaysBeforeMonth((month + 9) % 12)
    BY <1>2 DEF MonthLength
  <2>2. month \in {1, 3, 4, 5, 6, 7, 8, 9, 10, 11, 12}
    BY <1>2
  <2> QED
    BY <2>1, <2>2 DEF DaysBeforeMonth, LastDay
<1> QED
  BY <1>1, <1>2

(* A date is valid if and only if it is a day of the calendar, or none.    *)
LEMMA ExplainedCalendar ==
    ASSUME Explained
    PROVE  ValidIsCalendarDay
<1> SUFFICES ASSUME given.source \in {"datetext", "datetime"} PROVE ValidIsCalendarDay
  BY DEF ValidIsCalendarDay
<1> DEFINE d == given.object
<1>1. d \in DateTimeFields /\ given.valid = validateDate(d)
  BY DateGiven
<1>2. /\ d.year \in Nat /\ d.month \in Nat /\ d.day \in Nat
      /\ d.hour \in Nat /\ d.minute \in Nat /\ d.second \in Nat
  BY <1>1, FieldRanges
<1> HIDE DEF d
<1>3. d.month \in 1 .. 12 => MonthLength(d.year, d.month) = LastDay(d.year, d.month)
  BY <1>2, MonthsAreCounted
<1>4. {d.year, d.month, d.day} = {0} <=> d.year = 0 /\ d.month = 0 /\ d.day = 0
  OBVIOUS
<1>5. validateDate(d) <=>
         /\ d.hour \in 0 .. 23 /\ d.minute \in 0 .. 59 /\ d.second \in 0 .. 59
         /\ IsCalendarDay(d) \/ {d.year, d.month, d.day} = {0}
  <2>1. /\ d.hour <= 23 <=> d.hour \in 0 .. 23
        /\ d.minute <= 59 <=> d.minute \in 0 .. 59
        /\ d.second <= 59 <=> d.second \in 0 .. 59
    BY <1>2
  <2> DEFINE Early(year) == year <= 9999
             Within(year) == year \in 0 .. 9999
  <2>4. \A year \in Nat : (Early(year) <=> Within(year)) /\ Early(0)
    BY SMT
  <2>2. d.month \in 1 .. 12 /\ d.day \in 1 .. LastDay(d.year, d.month)
           <=> d.month \in 1 .. 12 /\ d.day \in 1 .. MonthLength(d.year, d.month)
    BY <1>3
  <2> DEFINE early == Early(d.year)
             clock == d.hour <= 23 /\ d.minute <= 59 /\ d.second <= 59
             none == d.year = 0 /\ d.month = 0 /\ d.day = 0
             monthly == d.month \in 1 .. 12 /\ d.day \in 1 .. LastDay(d.year, d.month)
  <2>5. validateDate(d) <=> early /\ (none \/ monthly) /\ clock
    BY DEF validateDate
  <2>6. IsCalendarDay(d) <=> early /\ monthly
    <3> DEFINE within == Within(d.year)
               counted == d.month \in 1 .. 12 /\ d.day \in 1 .. MonthLength(d.year, d.month)
    <3>1. IsCalendarDay(d) <=> within /\ counted
      BY Zenon DEF IsCalendarDay
    <3>2. within <=> early
      <4> HIDE DEF Early, Within
      <4> QED
        BY <1>2, <2>4, Zenon
    <3>3. counted <=> monthly
      BY <2>2
    <3> HIDE DEF within, counted, early, monthly
    <3> QED
      BY <3>1, <3>2, <3>3
  <2>7. none => early
    <3> HIDE DEF Early, Within
    <3> QED
      BY <1>2, <2>4, Zenon
  <2>8. clock <=> /\ d.hour \in 0 .. 23 /\ d.minute \in 0 .. 59 /\ d.second \in 0 .. 59
    BY <2>1
  <2> HIDE DEF early, clock, none, monthly
  <2> QED
    BY <1>4, <2>5, <2>6, <2>7, <2>8 DEF none
<1> QED
  BY <1>1, <1>5 DEF ValidIsCalendarDay, d

(* ValidIsCalendarDay: validateDate() accepts the days of the calendar,    *)
(* and the zero date.                                                      *)
THEOREM CalendarIsValidated == Spec => []ValidIsCalendarDay
BY EveryResultIsExplained, ExplainedCalendar, PTL

-----------------------------------------------------------------------------
(* The fields of an integer that is put together by shifts and ors.        *)

(* Binary digits are 0 and 1.                                              *)
LEMMA DigitOfTwo ==
    ASSUME NEW n \in Int, NEW i \in Nat
    PROVE  Digit(n, 2, i) \in {0, 1}
<1>1. Exp(2, i) \in Nat /\ Exp(2, i) > 0
  BY ExpGrows
<1>2. \A e \in Nat \ {0} : n \div e \in Int
  OBVIOUS
<1>3. n \div Exp(2, i) \in Int
  BY <1>1, <1>2
<1>4. \A k \in Int : k % 2 \in {0, 1}
  OBVIOUS
<1> QED
  BY <1>3, <1>4 DEF Digit

(* A number has no digits above its power.                                 *)
LEMMA HighDigits ==
    ASSUME NEW n \in Nat, NEW j \in Nat, n < Exp(2, j), NEW i \in Nat, i >= j
    PROVE  Digit(n, 2, i) = 0
<1> DEFINE two == 2
<1>0. two \in Nat /\ two >= 2
  OBVIOUS
<1>1. Exp(2, i) \in Nat /\ Exp(2, j) \in Nat /\ Exp(2, j) <= Exp(2, i)
  BY <1>0, ExpGrows
<1>2. \A e \in Nat : n < e => n \div e = 0
  OBVIOUS
<1>3. n \div Exp(2, i) = 0
  BY <1>1, <1>2
<1> QED
  BY <1>3 DEF Digit

(* Put() sets bits of its field only.                                      *)
LEMMA PutRange ==
    ASSUME NEW n \in Int, NEW at \in Nat, NEW bits \in Nat
    PROVE  /\ Put(n, at, bits) \subseteq at .. at + bits - 1
           /\ \A i \in Nat : at + i \in Put(n, at, bits) <=> i < bits /\ Digit(n, 2, i) = 1
BY DEF Put

(* A number that needs fewer bits leaves the others alone.                 *)
LEMMA PutNarrow ==
    ASSUME NEW n \in Nat, NEW at \in Nat, NEW bits \in Nat, NEW j \in Nat, n < Exp(2, j)
    PROVE  Put(n, at, bits) \subseteq at .. at + j - 1
<1> SUFFICES ASSUME NEW b \in Put(n, at, bits) PROVE b \in at .. at + j - 1
  OBVIOUS
<1>1. PICK i \in 0 .. bits - 1 : Digit(n, 2, i) = 1 /\ b = at + i
  BY DEF Put
<1>2. i < j
  BY <1>1, HighDigits
<1> QED
  BY <1>1, <1>2

(* A field that has the bits of a number reads as the number, cut to it.   *)
LEMMA FieldValue ==
    ASSUME NEW n \in Int, NEW at \in Nat, NEW k \in Nat, NEW word,
           \A i \in 0 .. k - 1 : at + i \in word <=> Digit(n, 2, i) = 1
    PROVE  Field(word, at, k) = n % Exp(2, k)
<1> DEFINE f == [i \in Nat |-> IF at + i \in word THEN 1 ELSE 0]
           d == [i \in Nat |-> Digit(n, 2, i)]
           S == {j \in Nat : j <= k => Value(f, 2, j) = Value(d, 2, j)}
<1>1. f \in [Nat -> Int]
  OBVIOUS
<1>2. d \in [Nat -> Int] /\ \A i \in Nat : d[i] \in {0, 1}
  BY DigitOfTwo
<1>3. \A i \in 0 .. k - 1 : f[i] = d[i]
  <2> TAKE i \in 0 .. k - 1
  <2>1. f[i] = IF Digit(n, 2, i) = 1 THEN 1 ELSE 0
    OBVIOUS
  <2>2. d[i] = Digit(n, 2, i) /\ d[i] \in {0, 1}
    BY <1>2
  <2> QED
    BY <2>1, <2>2
<1> HIDE DEF f, d
<1>4. 0 \in S
  BY <1>1, <1>2, ValueSteps
<1>5. ASSUME NEW j \in Nat, j \in S PROVE j + 1 \in S
  <2> SUFFICES ASSUME j + 1 <= k PROVE Value(f, 2, j + 1) = Value(d, 2, j + 1)
    OBVIOUS
  <2>1. Value(f, 2, j) = Value(d, 2, j) /\ f[j] = d[j]
    BY <1>3, <1>5
  <2>2. /\ Value(f, 2, j + 1) = Value(f, 2, j) + f[j] * Exp(2, j)
        /\ Value(d, 2, j + 1) = Value(d, 2, j) + d[j] * Exp(2, j)
    <3>1. 2 \in Int
      OBVIOUS
    <3> QED
      BY <3>1, <1>1, <1>2, ValueSteps
  <2> QED
    BY <2>1, <2>2
<1>6. \A j \in Nat : j \in S
  <2> HIDE DEF S
  <2> QED
    BY <1>4, <1>5, Induction
<1>7. Value(f, 2, k) = Value(d, 2, k)
  BY <1>6
<1>8. Value(d, 2, k) = n % Exp(2, k)
  BY DigitsValue DEF d
<1>9. Field(word, at, k) = Value(f, 2, k)
  BY DEF Field, f
<1> QED
  BY <1>7, <1>8, <1>9

(* A field that nothing else runs into has the low bits of the number.     *)
Agrees(word, n, at, bits, k) ==
    /\ n \in Int /\ at \in Nat /\ bits \in Nat /\ k \in Nat /\ k <= bits
    /\ \A i \in 0 .. k - 1 : at + i \in word <=> at + i \in Put(n, at, bits)

(* The same, with the premises under one name.                             *)
LEMMA FieldOfPut ==
    ASSUME NEW n, NEW at, NEW bits, NEW k, NEW word, Agrees(word, n, at, bits, k)
    PROVE  Field(word, at, k) = n % Exp(2, k)
<1>1. n \in Int /\ at \in Nat /\ bits \in Nat /\ k \in Nat /\ k <= bits
  BY DEF Agrees
<1>2. \A i \in Nat : at + i \in Put(n, at, bits) <=> i < bits /\ Digit(n, 2, i) = 1
  BY <1>1, PutRange
<1>3. \A i \in 0 .. k - 1 : at + i \in word <=> Digit(n, 2, i) = 1
  BY <1>1, <1>2 DEF Agrees
<1> QED
  BY <1>1, <1>3, FieldValue

(* All of the number, if it fits.                                          *)
FitsIn(n, k) == n \in Nat /\ n < Exp(2, k)
Holds(word, n, at, bits, k) == FitsIn(n, k) /\ Agrees(word, n, at, bits, k)

(* A field that holds a number reads as the number.                        *)
LEMMA FieldReads ==
    ASSUME NEW n, NEW at, NEW bits, NEW k, NEW word, Holds(word, n, at, bits, k)
    PROVE  Field(word, at, k) = n
<1>1. n \in Nat /\ n < Exp(2, k) /\ Agrees(word, n, at, bits, k)
  BY DEF Holds, FitsIn
<1>2. Field(word, at, k) = n % Exp(2, k)
  BY <1>1, FieldOfPut
<1>3. \A e \in Nat : n < e => n % e = n
  BY <1>1
<1>4. Exp(2, k) \in Nat
  BY <1>1, PowerOfTwo DEF Agrees
<1> QED
  BY <1>1, <1>2, <1>3, <1>4

(* Zero sets no bits.                                                      *)
LEMMA PutZero ==
    ASSUME NEW at \in Nat, NEW bits \in Nat
    PROVE  Put(0, at, bits) = {}
<1>1. 0 \in Nat /\ 0 < Exp(2, 0)
  BY ExpSteps
<1>2. Put(0, at, bits) \subseteq at .. at + 0 - 1
  BY <1>1, PutNarrow
<1> QED
  BY <1>2

(* The powers that the widths of the fields need.                          *)
LEMMA PowersOfTwo ==
    /\ Exp(2, 4) = 16 /\ Exp(2, 6) = 64 /\ Exp(2, 8) = 256 /\ Exp(2, 12) = 4096
    /\ Exp(2, 16) = 65536 /\ Exp(2, 20) = 1048576 /\ Exp(2, 23) = 8388608
    /\ Exp(2, 24) = 16777216
<1> DEFINE E(n) == Exp(2, n)
<1>1. E(0) = 1 /\ \A n \in Nat : E(n) \in Int /\ E(n + 1) = 2 * E(n)
  BY ExpSteps
<1> HIDE DEF E
<1>2. \A n \in Nat : E(n + 4) = 16 * E(n)
  <2> TAKE n \in Nat
  <2>1. /\ n + 1 \in Nat /\ n + 2 \in Nat /\ n + 3 \in Nat
        /\ n + 2 = (n + 1) + 1 /\ n + 3 = (n + 2) + 1 /\ n + 4 = (n + 3) + 1
    OBVIOUS
  <2>2. E(n + 1) = 2 * E(n) /\ E(n + 2) = 2 * E(n + 1) /\ E(n + 3) = 2 * E(n + 2)
           /\ E(n + 4) = 2 * E(n + 3) /\ E(n) \in Int
    BY <1>1, <2>1
  <2> QED
    BY <2>2
<1>3. E(0 + 4) = 16 * E(0) /\ E(4 + 4) = 16 * E(4) /\ E(8 + 4) = 16 * E(8)
         /\ E(12 + 4) = 16 * E(12) /\ E(16 + 4) = 16 * E(16)
         /\ E(20 + 4) = 16 * E(20)
  BY <1>2
<1>4. E(4) = 16 /\ E(8) = 256 /\ E(12) = 4096 /\ E(16) = 65536 /\ E(20) = 1048576
         /\ E(24) = 16777216
  BY <1>1, <1>3
<1>5. E(4 + 1) = 2 * E(4) /\ E(5 + 1) = 2 * E(5)
         /\ E(20 + 1) = 2 * E(20) /\ E(21 + 1) = 2 * E(21) /\ E(22 + 1) = 2 * E(22)
  BY <1>1
<1>6. E(6) = 64 /\ E(23) = 8388608
  BY <1>4, <1>5
<1> QED
  BY <1>4, <1>6 DEF E

(* The word of a DATE, of a date in a DATETIME, and the lower half of the  *)
(* word of a TIME: no field runs into its neighbour.                       *)
DateWord(y, m, d, e) == Put(y, 16, 16) \cup Put(m, 12, 8) \cup Put(d, 6, 8) \cup Put(e, 0, 6)

(* The fields of the word of a DATE are apart.                             *)
LEMMA DateFields ==
    ASSUME NEW y, NEW m, NEW d, NEW e, FitsIn(y, 16), FitsIn(m, 4), FitsIn(d, 6), FitsIn(e, 6)
    PROVE  /\ Field(DateWord(y, m, d, e), 16, 16) = y /\ Field(DateWord(y, m, d, e), 12, 4) = m
           /\ Field(DateWord(y, m, d, e), 6, 6) = d /\ Field(DateWord(y, m, d, e), 0, 6) = e
<1> DEFINE Y == Put(y, 16, 16)
           M == Put(m, 12, 8)
           D == Put(d, 6, 8)
           E == Put(e, 0, 6)
           word == DateWord(y, m, d, e)
<1>0. word = Y \cup M \cup D \cup E
  BY DEF DateWord
<1> HIDE DEF word
<1>1. /\ 0 \in Nat /\ 4 \in Nat /\ 6 \in Nat /\ 8 \in Nat /\ 12 \in Nat /\ 16 \in Nat
      /\ y \in Int /\ y \in Nat /\ m \in Nat /\ d \in Nat /\ e \in Nat
      /\ m < Exp(2, 4) /\ d < Exp(2, 6) /\ e < Exp(2, 6)
  BY DEF FitsIn
<1>2. 16 <= 16 /\ 4 <= 8 /\ 6 <= 8 /\ 6 <= 6
  OBVIOUS
<1>3. Y \subseteq 16 .. 31
  <2>1. Put(y, 16, 16) \subseteq 16 .. 16 + 16 - 1
    BY <1>1, PutRange
  <2> QED
    BY <2>1
<1>4. M \subseteq 12 .. 15
  <2>1. Put(m, 12, 8) \subseteq 12 .. 12 + 4 - 1
    BY <1>1, PutNarrow
  <2> QED
    BY <2>1
<1>5. D \subseteq 6 .. 11
  <2>1. Put(d, 6, 8) \subseteq 6 .. 6 + 6 - 1
    BY <1>1, PutNarrow
  <2> QED
    BY <2>1
<1>6. E \subseteq 0 .. 5
  <2>1. Put(e, 0, 6) \subseteq 0 .. 0 + 6 - 1
    BY <1>1, PutNarrow
  <2> QED
    BY <2>1
<1>7. Field(word, 16, 16) = y
  <2>1. Holds(word, y, 16, 16, 16)
    BY <1>0, <1>4, <1>5, <1>6 DEF Holds, Agrees, FitsIn
  <2> QED
    BY <2>1, FieldReads
<1>8. Field(word, 12, 4) = m
  <2>1. Holds(word, m, 12, 8, 4)
    BY <1>0, <1>3, <1>5, <1>6 DEF Holds, Agrees, FitsIn
  <2> QED
    BY <2>1, FieldReads
<1>9. Field(word, 6, 6) = d
  <2>1. Holds(word, d, 6, 8, 6)
    BY <1>0, <1>3, <1>4, <1>6 DEF Holds, Agrees, FitsIn
  <2> QED
    BY <2>1, FieldReads
<1>10. Field(word, 0, 6) = e
  <2>1. Holds(word, e, 0, 6, 6)
    BY <1>0, <1>3, <1>4, <1>5 DEF Holds, Agrees, FitsIn
  <2> QED
    BY <2>1, FieldReads
<1> QED
  BY <1>7, <1>8, <1>9, <1>10 DEF word

DateTimeWord(y, m, d, h, n, s, u) ==
    Put(y, 48, 16) \cup Put(m, 44, 8) \cup Put(d, 38, 8) \cup Put(h, 32, 8)
        \cup Put(n, 26, 8) \cup Put(s, 20, 8) \cup Put(u, 0, 20)

(* The fields of the word of a DATETIME are apart.                         *)
LEMMA DateTimeApart ==
    ASSUME NEW y, NEW m, NEW d, NEW h, NEW n, NEW s, NEW u, FitsIn(y, 16), FitsIn(m, 4),
           FitsIn(d, 6), FitsIn(h, 6), FitsIn(n, 6), FitsIn(s, 6), FitsIn(u, 20)
    PROVE  LET word == DateTimeWord(y, m, d, h, n, s, u)
           IN  /\ Holds(word, y, 48, 16, 16)
               /\ Holds(word, m, 44, 8, 4)
               /\ Holds(word, d, 38, 8, 6)
               /\ Holds(word, h, 32, 8, 6)
               /\ Holds(word, n, 26, 8, 6)
               /\ Holds(word, s, 20, 8, 6)
               /\ Holds(word, u, 0, 20, 20)
<1> DEFINE word == DateTimeWord(y, m, d, h, n, s, u)
           Y == Put(y, 48, 16)
           M == Put(m, 44, 8)
           D == Put(d, 38, 8)
           H == Put(h, 32, 8)
           N == Put(n, 26, 8)
           S == Put(s, 20, 8)
           U == Put(u, 0, 20)
<1>0. word = Y \cup M \cup D \cup H \cup N \cup S \cup U
  BY DEF DateTimeWord
<1> HIDE DEF word
<1>1. /\ 0 \in Nat /\ 4 \in Nat /\ 6 \in Nat /\ 8 \in Nat /\ 16 \in Nat /\ 20 \in Nat
      /\ 26 \in Nat /\ 32 \in Nat /\ 38 \in Nat /\ 44 \in Nat /\ 48 \in Nat
  OBVIOUS
<1>2. /\ y \in Nat /\ m \in Nat /\ d \in Nat /\ h \in Nat /\ n \in Nat /\ s \in Nat
      /\ u \in Nat /\ y < Exp(2, 16) /\ m < Exp(2, 4) /\ d < Exp(2, 6)
      /\ h < Exp(2, 6) /\ n < Exp(2, 6) /\ s < Exp(2, 6) /\ u < Exp(2, 20)
  BY DEF FitsIn
<1>3. Y \subseteq 48 .. 63
  <2>1. Put(y, 48, 16) \subseteq 48 .. 48 + 16 - 1
    BY <1>1, <1>2, PutNarrow
  <2> QED
    BY <2>1
<1>4. M \subseteq 44 .. 47
  <2>1. Put(m, 44, 8) \subseteq 44 .. 44 + 4 - 1
    BY <1>1, <1>2, PutNarrow
  <2> QED
    BY <2>1
<1>5. D \subseteq 38 .. 43
  <2>1. Put(d, 38, 8) \subseteq 38 .. 38 + 6 - 1
    BY <1>1, <1>2, PutNarrow
  <2> QED
    BY <2>1
<1>6. H \subseteq 32 .. 37
  <2>1. Put(h, 32, 8) \subseteq 32 .. 32 + 6 - 1
    BY <1>1, <1>2, PutNarrow
  <2> QED
    BY <2>1
<1>7. N \subseteq 26 .. 31
  <2>1. Put(n, 26, 8) \subseteq 26 .. 26 + 6 - 1
    BY <1>1, <1>2, PutNarrow
  <2> QED
    BY <2>1
<1>8. S \subseteq 20 .. 25
  <2>1. Put(s, 20, 8) \subseteq 20 .. 20 + 6 - 1
    BY <1>1, <1>2, PutNarrow
  <2> QED
    BY <2>1
<1>9. U \subseteq 0 .. 19
  <2>1. Put(u, 0, 20) \subseteq 0 .. 0 + 20 - 1
    BY <1>1, <1>2, PutNarrow
  <2> QED
    BY <2>1
<1>10. Holds(word, y, 48, 16, 16)
  BY <1>0, <1>4, <1>5, <1>6, <1>7, <1>8, <1>9 DEF Holds, Agrees, FitsIn
<1>11. Holds(word, m, 44, 8, 4)
  BY <1>0, <1>3, <1>5, <1>6, <1>7, <1>8, <1>9 DEF Holds, Agrees, FitsIn
<1>12. Holds(word, d, 38, 8, 6)
  BY <1>0, <1>3, <1>4, <1>6, <1>7, <1>8, <1>9 DEF Holds, Agrees, FitsIn
<1>13. Holds(word, h, 32, 8, 6)
  BY <1>0, <1>3, <1>4, <1>5, <1>7, <1>8, <1>9 DEF Holds, Agrees, FitsIn
<1>14. Holds(word, n, 26, 8, 6)
  BY <1>0, <1>3, <1>4, <1>5, <1>6, <1>8, <1>9 DEF Holds, Agrees, FitsIn
<1>15. Holds(word, s, 20, 8, 6)
  BY <1>0, <1>3, <1>4, <1>5, <1>6, <1>7, <1>9 DEF Holds, Agrees, FitsIn
<1>16. Holds(word, u, 0, 20, 20)
  BY <1>0, <1>3, <1>4, <1>5, <1>6, <1>7, <1>8 DEF Holds, Agrees, FitsIn
<1> QED
  BY <1>10, <1>11, <1>12, <1>13, <1>14, <1>15, <1>16 DEF word


UpperBits(T) == T \subseteq 40 .. 63
TimeWord(T, n, s, u) == T \cup Put(n, 32, 8) \cup Put(s, 24, 8) \cup Put(u, 0, 24)

(* The fields of the word of a TIME are apart, whatever is above bit 40.   *)
LEMMA TimeApart ==
    ASSUME NEW T, UpperBits(T), NEW n, NEW s, NEW u,
           FitsIn(n, 8), FitsIn(s, 8), FitsIn(u, 24)
    PROVE  LET word == TimeWord(T, n, s, u)
           IN  /\ Holds(word, n, 32, 8, 8)
               /\ Holds(word, s, 24, 8, 8)
               /\ Holds(word, u, 0, 24, 24)
               /\ \A i \in 40 .. 63 : i \in word <=> i \in T
<1> DEFINE word == TimeWord(T, n, s, u)
           N == Put(n, 32, 8)
           S == Put(s, 24, 8)
           U == Put(u, 0, 24)
<1>0. word = T \cup N \cup S \cup U
  BY DEF TimeWord
<1> HIDE DEF word
<1>1. 0 \in Nat /\ 8 \in Nat /\ 24 \in Nat /\ 32 \in Nat
  OBVIOUS
<1>2. /\ n \in Nat /\ s \in Nat /\ u \in Nat
      /\ n < Exp(2, 8) /\ s < Exp(2, 8) /\ u < Exp(2, 24)
  BY DEF FitsIn
<1>3. N \subseteq 32 .. 39
  <2>1. Put(n, 32, 8) \subseteq 32 .. 32 + 8 - 1
    BY <1>1, <1>2, PutNarrow
  <2> QED
    BY <2>1
<1>4. S \subseteq 24 .. 31
  <2>1. Put(s, 24, 8) \subseteq 24 .. 24 + 8 - 1
    BY <1>1, <1>2, PutNarrow
  <2> QED
    BY <2>1
<1>5. U \subseteq 0 .. 23
  <2>1. Put(u, 0, 24) \subseteq 0 .. 0 + 24 - 1
    BY <1>1, <1>2, PutNarrow
  <2> QED
    BY <2>1
<1>6. Holds(word, n, 32, 8, 8)
  BY <1>0, <1>4, <1>5 DEF Holds, Agrees, FitsIn, UpperBits
<1>7. Holds(word, s, 24, 8, 8)
  BY <1>0, <1>3, <1>5 DEF Holds, Agrees, FitsIn, UpperBits
<1>8. Holds(word, u, 0, 24, 24)
  BY <1>0, <1>3, <1>4 DEF Holds, Agrees, FitsIn, UpperBits
<1>9. \A i \in 40 .. 63 : i \in word <=> i \in T
  BY <1>0, <1>3, <1>4, <1>5
<1> QED
  BY <1>6, <1>7, <1>8, <1>9 DEF word

(* The hour of a time is all that sets the upper bits.                     *)
LEMMA SignBit ==
    ASSUME NEW h \in Int
    PROVE  Put(h, 40, 24) \subseteq 40 .. 63 /\ (63 \in Put(h, 40, 24) <=> Digit(h, 2, 23) = 1)
<1>1. 40 \in Nat /\ 24 \in Nat
  OBVIOUS
<1>2. /\ Put(h, 40, 24) \subseteq 40 .. 40 + 24 - 1
      /\ \A i \in Nat : 40 + i \in Put(h, 40, 24) <=> i < 24 /\ Digit(h, 2, i) = 1
  BY <1>1, PutRange
<1>3. 40 + 23 \in Put(h, 40, 24) <=> Digit(h, 2, 23) = 1
  BY <1>2
<1> QED
  BY <1>2, <1>3

SignedHours == -2048 .. 2047

(* The hour of a time is read with its sign, which is that of the word.    *)
LEMMA HourReads ==
    ASSUME NEW h, h \in SignedHours, NEW word, Agrees(word, h, 40, 24, 12)
    PROVE  /\ Field(word, 40, 12) = IF h < 0 THEN h + 4096 ELSE h
           /\ 63 \in Put(h, 40, 24) <=> h < 0
<1>0. h \in Int /\ h \in -2048 .. 2047
  BY DEF SignedHours
<1>1. Field(word, 40, 12) = h % 4096
  BY FieldOfPut, PowersOfTwo
<1>2. h % 4096 = IF h < 0 THEN h + 4096 ELSE h
  BY <1>0
<1>3. Digit(h, 2, 23) = (h \div 8388608) % 2
  BY PowersOfTwo DEF Digit
<1>4. h \div 8388608 = IF h < 0 THEN -1 ELSE 0
  BY <1>0
<1>5. 63 \in Put(h, 40, 24) <=> h < 0
  <2>1. Digit(h, 2, 23) = IF h < 0 THEN 1 ELSE 0
    BY <1>3, <1>4
  <2> QED
    BY <1>0, <2>1, SignBit
<1> QED
  BY <1>1, <1>2, <1>5

(* What validateDate() accepts fits its fields.                            *)
LEMMA ValidDate ==
    ASSUME NEW d \in DateTimeFields, validateDate(d)
    PROVE  /\ FitsIn(d.year, 16) /\ FitsIn(d.month, 4) /\ FitsIn(d.day, 6)
           /\ FitsIn(d.hour, 6) /\ FitsIn(d.minute, 6) /\ FitsIn(d.second, 6)
<1>1. /\ d.year \in Nat /\ d.month \in Nat /\ d.day \in Nat
      /\ d.hour \in Nat /\ d.minute \in Nat /\ d.second \in Nat /\ d.microsecond \in Nat
  BY FieldRanges, SMT
<1>2. FitsIn(d.year, 16)
  <2>1. d.year <= 9999
    BY SMT DEF validateDate
  <2>2. \A n \in Nat : n <= 9999 => n < 65536
    BY SMT
  <2> QED
    BY <1>1, <2>1, <2>2, PowersOfTwo, SMT DEF FitsIn
<1>3. FitsIn(d.month, 4)
  <2>1. d.month < 16
    BY <1>1, SMT DEF validateDate
  <2> QED
    BY <1>1, <2>1, PowersOfTwo, SMT DEF FitsIn
<1>4. FitsIn(d.day, 6)
  <2>1. LastDay(d.year, d.month) \in {28, 29, 30, 31}
    BY SMT DEF LastDay
  <2>2. d.day < 64
    BY <1>1, <2>1, SMT DEF validateDate
  <2> QED
    BY <1>1, <2>2, PowersOfTwo, SMT DEF FitsIn
<1>5. FitsIn(d.hour, 6) /\ FitsIn(d.minute, 6) /\ FitsIn(d.second, 6)
  <2>1. d.hour < 64 /\ d.minute < 64 /\ d.second < 64
    BY <1>1, SMT DEF validateDate
  <2> QED
    BY <1>1, <2>1, PowersOfTwo, SMT DEF FitsIn
<1> QED
  BY <1>2, <1>3, <1>4, <1>5, SMT

(* What validateTime() accepts fits its fields.                            *)
LEMMA ValidTime ==
    ASSUME NEW t \in TimeFields, validateTime(t)
    PROVE  /\ t.hour \in SignedHours /\ t.hour \in Int
           /\ FitsIn(t.minute, 6) /\ FitsIn(t.second, 6)
<1>1. /\ t.hour \in Int /\ t.minute \in Nat /\ t.second \in Nat /\ t.microsecond \in Nat
  BY FieldRanges, SMT
<1>2. t.hour \in SignedHours
  <2>1. t.hour \in -838 .. 838
    BY SMT DEF validateTime
  <2>2. \A n \in Int : n \in -838 .. 838 => n \in -2048 .. 2047
    BY SMT
  <2> QED
    BY <1>1, <2>1, <2>2, SMT DEF SignedHours
<1>3. FitsIn(t.minute, 6) /\ FitsIn(t.second, 6)
  <2>1. t.minute < 64 /\ t.second < 64
    BY <1>1, SMT DEF validateTime
  <2> QED
    BY <1>1, <2>1, PowersOfTwo, SMT DEF FitsIn
<1> QED
  BY <1>1, <1>2, <1>3, SMT

(* What fits a field fits a wider one.                                     *)
LEMMA WiderFields ==
    ASSUME NEW n
    PROVE  (FitsIn(n, 6) => FitsIn(n, 8)) /\ (FitsIn(n, 20) => FitsIn(n, 24))
<1>1. FitsIn(n, 6) => FitsIn(n, 8)
  BY SMT, PowersOfTwo DEF FitsIn
<1>2. FitsIn(n, 20) => FitsIn(n, 24)
  BY SMT, PowersOfTwo DEF FitsIn
<1> QED
  BY <1>1, <1>2

(* Less than a second fits its field, of 20 or 24 bits.                    *)
LEMMA Microseconds ==
    /\ \A d \in DateTimeFields : d.microsecond <= 999999 => FitsIn(d.microsecond, 20)
    /\ \A t \in TimeFields : t.microsecond <= 999999 => FitsIn(t.microsecond, 20)
<1>1. \A n \in Nat : n <= 999999 => FitsIn(n, 20)
  BY SMT, PowersOfTwo DEF FitsIn
<1> QED
  BY <1>1, FieldRanges, SMT

(* An hour of the day has no bits above the eight that are put.            *)
LEMMA NarrowHour ==
    ASSUME NEW h, FitsIn(h, 6)
    PROVE  /\ UpperBits(52 .. 62 \cup Put(h, 40, 8)) /\ 63 \notin 52 .. 62 \cup Put(h, 40, 8)
           /\ Agrees(52 .. 62 \cup Put(h, 40, 8), h, 40, 24, 12)
           /\ h \in SignedHours
<1>1. h \in Nat /\ h \in Int /\ h < Exp(2, 6)
  BY DEF FitsIn
<1>2. 40 \in Nat /\ 8 \in Nat /\ 24 \in Nat /\ 6 \in Nat
  OBVIOUS
<1>3. Put(h, 40, 8) \subseteq 40 .. 40 + 6 - 1
  BY <1>1, <1>2, PutNarrow
<1>4. Put(h, 40, 24) \subseteq 40 .. 40 + 6 - 1
  BY <1>1, <1>2, PutNarrow
<1>5. /\ \A i \in Nat : 40 + i \in Put(h, 40, 8) <=> i < 8 /\ Digit(h, 2, i) = 1
      /\ \A i \in Nat : 40 + i \in Put(h, 40, 24) <=> i < 24 /\ Digit(h, 2, i) = 1
  BY <1>1, <1>2, PutRange
<1> DEFINE T == 52 .. 62 \cup Put(h, 40, 8)
<1>6. \A i \in 0 .. 12 - 1 : 40 + i \in T <=> 40 + i \in Put(h, 40, 24)
  BY <1>3, <1>4, <1>5
<1>7. UpperBits(T) /\ 63 \notin T
  BY <1>3 DEF UpperBits
<1>8. h \in SignedHours
  BY <1>1, PowersOfTwo DEF SignedHours
<1>9. Agrees(T, h, 40, 24, 12)
  <2> HIDE DEF T
  <2> QED
    BY <1>1, <1>6 DEF Agrees
<1> QED
  BY <1>7, <1>8, <1>9

(* What a reader of the integer of a DATE, DATETIME or TIME sees.          *)
LEMMA DateReadsBack ==
    ASSUME NEW d, FitsIn(d.year, 16), FitsIn(d.month, 4), FitsIn(d.day, 6), data.set = getDateInt(d)
    PROVE  ReadDate = [year |-> d.year, month |-> d.month, day |-> d.day, rest |-> 62]
<1>1. data.set = DateWord(d.year, d.month, d.day, 62)
  BY DEF getDateInt, DateWord
<1>2. FitsIn(62, 6)
  BY PowersOfTwo DEF FitsIn
<1>3. /\ Field(data.set, 16, 16) = d.year /\ Field(data.set, 12, 4) = d.month
      /\ Field(data.set, 6, 6) = d.day /\ Field(data.set, 0, 6) = 62
  BY <1>1, <1>2, DateFields
<1> QED
  BY <1>3 DEF ReadDate

(* The same for a DATETIME.                                                *)
LEMMA DateTimeReadsBack ==
    ASSUME NEW y, NEW m, NEW d, NEW h, NEW n, NEW s, NEW u, FitsIn(y, 16), FitsIn(m, 4),
           FitsIn(d, 6), FitsIn(h, 6), FitsIn(n, 6), FitsIn(s, 6), FitsIn(u, 20),
           data.set = DateTimeWord(y, m, d, h, n, s, u)
    PROVE  ReadDateTime = [year |-> y, month |-> m, day |-> d, hour |-> h, minute |-> n,
                           second |-> s, microsecond |-> u]
<1>1. /\ Holds(data.set, y, 48, 16, 16) /\ Holds(data.set, m, 44, 8, 4)
      /\ Holds(data.set, d, 38, 8, 6) /\ Holds(data.set, h, 32, 8, 6)
      /\ Holds(data.set, n, 26, 8, 6) /\ Holds(data.set, s, 20, 8, 6)
      /\ Holds(data.set, u, 0, 20, 20)
  BY DateTimeApart
<1>2. /\ Field(data.set, 48, 16) = y /\ Field(data.set, 44, 4) = m
      /\ Field(data.set, 38, 6) = d /\ Field(data.set, 32, 6) = h
      /\ Field(data.set, 26, 6) = n /\ Field(data.set, 20, 6) = s
      /\ Field(data.set, 0, 20) = u
  BY <1>1, FieldReads
<1> QED
  BY <1>2 DEF ReadDateTime

(* The same for a TIME.                                                    *)
LEMMA TimeReadsBack ==
    ASSUME NEW T, UpperBits(T), NEW h, h \in SignedHours, Agrees(T, h, 40, 24, 12),
           NEW n, NEW s, NEW u, FitsIn(n, 8), FitsIn(s, 8), FitsIn(u, 24),
           data.set = TimeWord(T, n, s, u)
    PROVE  ReadTime = [hour |-> h, minute |-> n, second |-> s, microsecond |-> u,
                       is_neg |-> 63 \in T]
<1>1. /\ Holds(data.set, n, 32, 8, 8) /\ Holds(data.set, s, 24, 8, 8)
      /\ Holds(data.set, u, 0, 24, 24)
      /\ \A i \in 40 .. 63 : i \in data.set <=> i \in T
  BY TimeApart
<1>2. /\ Field(data.set, 32, 8) = n /\ Field(data.set, 24, 8) = s
      /\ Field(data.set, 0, 24) = u
  BY <1>1, FieldReads
<1>3. Agrees(data.set, h, 40, 24, 12)
  <2>1. \A i \in 0 .. 12 - 1 : 40 + i \in data.set <=> 40 + i \in Put(h, 40, 24)
    <3>1. \A i \in 0 .. 12 - 1 : 40 + i \in T <=> 40 + i \in Put(h, 40, 24)
      BY DEF Agrees
    <3> QED
      BY <1>1, <3>1
  <2>2. h \in Int
    BY DEF SignedHours
  <2> QED
    BY <2>1, <2>2 DEF Agrees
<1>4. Field(data.set, 40, 12) = IF h < 0 THEN h + 4096 ELSE h
  BY <1>3, HourReads
<1>5. (IF Field(data.set, 40, 12) < 2^11 THEN Field(data.set, 40, 12)
       ELSE Field(data.set, 40, 12) - 2^12) = h
  <2>1. h \in Int /\ h \in -2048 .. 2047
    BY DEF SignedHours
  <2>2. 2^11 = 2048 /\ 2^12 = 4096
    BY SMT
  <2> QED
    BY <1>4, <2>1, <2>2, SMT
<1>6. (63 \in data.set) = (63 \in T)
  BY <1>1
<1> QED
  BY <1>2, <1>5, <1>6 DEF ReadTime

(* What is stored for a valid date, by the type of the column.             *)
LEMMA DateStored ==
    ASSUME Explained, given.source \in {"datetext", "datetime"}, given.valid,
           type \in DateTypes, status = "none"
    PROVE  /\ given.object \in DateTimeFields /\ validateDate(given.object)
           /\ type = "DATE" => data.set = getDateInt(given.object)
           /\ type = "DATETIME" => data.set = getDateTimeInt(given.object)
           /\ type = "TIME" => data.set = getTimeOfDayInt(given.object)
<1> DEFINE d == given.object
<1>1. /\ d \in DateTimeFields /\ validateDate(d)
      /\ \/ /\ data = (DateTextResult(d)).data /\ status = (DateTextResult(d)).status
         \/ /\ data = (DateTimeResult(d)).data /\ status = (DateTimeResult(d)).status
  BY DateGiven
<1>2. type \in {"DATE", "TIME", "DATETIME"} /\ type \notin TextTypes
  BY DEF DateTypes, TextTypes
<1> HIDE DEF d
<1>3. CASE data = (DateTextResult(d)).data /\ status = (DateTextResult(d)).status
  <2>1. (DateTextResult(d)).status = "none"
    BY <1>3
  <2>2. type \in {"DATE", "DATETIME"}
    BY <2>1 DEF DateTextResult, Invalid
  <2>3. (DateTextResult(d)).data
           = Word(IF type = "DATE" THEN getDateInt(d) ELSE getDateTimeInt(d))
    BY <1>1, <2>2 DEF DateTextResult
  <2> QED
    BY <1>1, <1>3, <2>2, <2>3 DEF Word, d
<1>4. CASE data = (DateTimeResult(d)).data /\ status = (DateTimeResult(d)).status
  <2>1. (DateTimeResult(d)).data = Word(CASE type = "DATE" -> getDateInt(d)
                                          [] type = "DATETIME" -> getDateTimeInt(d)
                                          [] type = "TIME" -> getTimeOfDayInt(d))
    BY <1>2 DEF DateTimeResult
  <2> QED
    BY <1>1, <1>4, <2>1 DEF Word, d
<1> QED
  BY <1>1, <1>3, <1>4

(* What is stored for a valid time, by the type of the column.             *)
LEMMA TimeStored ==
    ASSUME Explained, given.source \in {"timetext", "time"}, given.valid,
           type \in DateTypes, status = "none"
    PROVE  /\ given.object \in TimeFields /\ validateTime(given.object)
           /\ type \in {"DATETIME", "TIME"}
           /\ type = "DATETIME" => data.set = getDayTimeInt(given.object)
           /\ type = "TIME" => data.set = getTimeInt(given.object)
<1> DEFINE t == given.object
<1>1. /\ t \in TimeFields /\ validateTime(t)
      /\ \/ /\ data = (TimeTextResult(t)).data /\ status = (TimeTextResult(t)).status
         \/ /\ data = (TimeResult(t)).data /\ status = (TimeResult(t)).status
  BY TimeGiven
<1>2. type \in {"DATE", "TIME", "DATETIME"} /\ type \notin TextTypes
  BY DEF DateTypes, TextTypes
<1> HIDE DEF t
<1>3. CASE data = (TimeTextResult(t)).data /\ status = (TimeTextResult(t)).status
  <2>1. (TimeTextResult(t)).status = "none"
    BY <1>3
  <2>2. type = "TIME"
    BY <2>1 DEF TimeTextResult, Invalid
  <2>3. (TimeTextResult(t)).data = Word(getTimeInt(t))
    BY <1>1, <2>2 DEF TimeTextResult
  <2> QED
    BY <1>1, <1>3, <2>2, <2>3 DEF Word, t
<1>4. CASE data = (TimeResult(t)).data /\ status = (TimeResult(t)).status
  <2>1. (TimeResult(t)).status = "none"
    BY <1>4
  <2>2. type \in {"TIME", "DATETIME"}
    BY <1>2, <2>1 DEF TimeResult, Invalid
  <2>3. (TimeResult(t)).data = Word(IF type = "TIME" THEN getTimeInt(t) ELSE getDayTimeInt(t))
    BY <1>2, <2>2 DEF TimeResult
  <2> QED
    BY <1>1, <1>4, <2>2, <2>3 DEF Word, t
<1> QED
  BY <1>1, <1>3, <1>4

(* All that is put into a word of a valid date reads back.                 *)
LEMMA DateReads ==
    ASSUME NEW d \in DateTimeFields, validateDate(d), FitsIn(d.microsecond, 20)
    PROVE  /\ data.set = getDateInt(d) =>
                  ReadDate = [year |-> d.year, month |-> d.month, day |-> d.day, rest |-> 62]
           /\ data.set = getDateTimeInt(d) => ReadDateTime = d
           /\ data.set = getTimeOfDayInt(d) =>
                  ReadTime = [hour |-> d.hour, minute |-> d.minute, second |-> d.second,
                              microsecond |-> d.microsecond, is_neg |-> FALSE]
<1>1. /\ FitsIn(d.year, 16) /\ FitsIn(d.month, 4) /\ FitsIn(d.day, 6)
      /\ FitsIn(d.hour, 6) /\ FitsIn(d.minute, 6) /\ FitsIn(d.second, 6) /\ FitsIn(d.microsecond, 20)
  BY ValidDate
<1>2. ASSUME data.set = getDateInt(d)
      PROVE  ReadDate = [year |-> d.year, month |-> d.month, day |-> d.day, rest |-> 62]
  BY <1>1, <1>2, DateReadsBack
<1>3. ASSUME data.set = getDateTimeInt(d) PROVE ReadDateTime = d
  <2>1. data.set = DateTimeWord(d.year, d.month, d.day, d.hour, d.minute, d.second,
                                d.microsecond)
    BY <1>3 DEF getDateTimeInt, DateTimeWord
  <2>2. ReadDateTime = [year |-> d.year, month |-> d.month, day |-> d.day, hour |-> d.hour,
                        minute |-> d.minute, second |-> d.second,
                        microsecond |-> d.microsecond]
    BY <1>1, <2>1, DateTimeReadsBack
  <2>3. d = [year |-> d.year, month |-> d.month, day |-> d.day, hour |-> d.hour,
             minute |-> d.minute, second |-> d.second, microsecond |-> d.microsecond]
    BY FieldRanges
  <2> QED
    BY <2>2, <2>3
<1>4. ASSUME data.set = getTimeOfDayInt(d)
      PROVE  ReadTime = [hour |-> d.hour, minute |-> d.minute, second |-> d.second,
                         microsecond |-> d.microsecond, is_neg |-> FALSE]
  <2> DEFINE T == 52 .. 62 \cup Put(d.hour, 40, 8)
  <2>1. UpperBits(T) /\ 63 \notin T /\ Agrees(T, d.hour, 40, 24, 12) /\ d.hour \in SignedHours
    BY <1>1, NarrowHour
  <2>2. data.set = TimeWord(T, d.minute, d.second, d.microsecond)
    BY <1>4 DEF getTimeOfDayInt, TimeWord
  <2> HIDE DEF T
  <2>3. FitsIn(d.minute, 8) /\ FitsIn(d.second, 8) /\ FitsIn(d.microsecond, 24)
    BY <1>1, WiderFields
  <2>4. ReadTime = [hour |-> d.hour, minute |-> d.minute, second |-> d.second,
                    microsecond |-> d.microsecond, is_neg |-> 63 \in T]
    BY <2>1, <2>2, <2>3, TimeReadsBack
  <2>5. (63 \in T) = FALSE
    BY <2>1
  <2> QED
    BY <2>4, <2>5
<1> QED
  BY <1>2, <1>3, <1>4

(* All that is put into a word of a valid time reads back.                 *)
LEMMA TimeReads ==
    ASSUME NEW t \in TimeFields, validateTime(t), FitsIn(t.microsecond, 20)
    PROVE  /\ data.set = getDayTimeInt(t) /\ t.hour \in 0 .. 23 =>
                  ReadDateTime = [year |-> 0, month |-> 0, day |-> 0, hour |-> t.hour,
                                  minute |-> t.minute, second |-> t.second,
                                  microsecond |-> t.microsecond]
           /\ data.set = getTimeInt(t) =>
                  ReadTime = [hour |-> t.hour, minute |-> t.minute, second |-> t.second,
                              microsecond |-> t.microsecond, is_neg |-> t.is_neg \/ t.hour < 0]
<1>1. /\ t.hour \in SignedHours /\ t.hour \in Int
      /\ FitsIn(t.minute, 6) /\ FitsIn(t.second, 6) /\ FitsIn(t.microsecond, 20)
  BY ValidTime
<1>2. ASSUME data.set = getDayTimeInt(t), t.hour \in 0 .. 23
      PROVE  ReadDateTime = [year |-> 0, month |-> 0, day |-> 0, hour |-> t.hour,
                             minute |-> t.minute, second |-> t.second,
                             microsecond |-> t.microsecond]
  <2>1. FitsIn(t.hour, 6) /\ FitsIn(0, 16) /\ FitsIn(0, 4) /\ FitsIn(0, 6)
    BY <1>2, PowersOfTwo DEF FitsIn
  <2>2. Put(0, 48, 16) = {} /\ Put(0, 44, 8) = {} /\ Put(0, 38, 8) = {}
    BY PutZero
  <2>3. data.set = DateTimeWord(0, 0, 0, t.hour, t.minute, t.second, t.microsecond)
    <3>1. data.set = Put(t.hour, 32, 8) \cup Put(t.minute, 26, 8)
                        \cup Put(t.second, 20, 8) \cup Put(t.microsecond, 0, 20)
      BY <1>2 DEF getDayTimeInt
    <3> QED
      BY <2>2, <3>1 DEF DateTimeWord
  <2> QED
    BY <1>1, <2>1, <2>3, DateTimeReadsBack
<1>3. ASSUME data.set = getTimeInt(t)
      PROVE  ReadTime = [hour |-> t.hour, minute |-> t.minute, second |-> t.second,
                         microsecond |-> t.microsecond, is_neg |-> t.is_neg \/ t.hour < 0]
  <2> DEFINE H == Put(t.hour, 40, 24)
             T == (IF t.is_neg THEN {63} ELSE {}) \cup 52 .. 62 \cup H
  <2>1. H \subseteq 40 .. 63
    BY <1>1, SignBit
  <2>2. data.set = TimeWord(T, t.minute, t.second, t.microsecond)
    BY <1>3 DEF getTimeInt, TimeWord
  <2>3. 63 \in H <=> Digit(t.hour, 2, 23) = 1
    BY <1>1, SignBit
  <2> HIDE DEF H
  <2>4. UpperBits(T)
    BY <2>1 DEF UpperBits
  <2>5. \A i \in 0 .. 12 - 1 : 40 + i \in T <=> 40 + i \in H
    OBVIOUS
  <2>6. 63 \in T <=> t.is_neg \/ 63 \in H
    OBVIOUS
  <2> HIDE DEF T
  <2>7. Agrees(T, t.hour, 40, 24, 12)
    BY <1>1, <2>5 DEF Agrees, H
  <2>8. 63 \in H <=> t.hour < 0
    BY <1>1, <2>7, HourReads DEF H
  <2>9. FitsIn(t.minute, 8) /\ FitsIn(t.second, 8) /\ FitsIn(t.microsecond, 24)
    BY <1>1, WiderFields
  <2>10. ReadTime = [hour |-> t.hour, minute |-> t.minute, second |-> t.second,
                     microsecond |-> t.microsecond, is_neg |-> 63 \in T]
    BY <1>1, <2>2, <2>4, <2>7, <2>9, TimeReadsBack
  <2>11. (63 \in T) = (t.is_neg \/ t.hour < 0)
    BY <2>6, <2>8
  <2> QED
    BY <2>10, <2>11
<1> QED
  BY <1>2, <1>3

(* A valid date or time that was stored reads back.                        *)
LEMMA ExplainedReadsBack ==
    ASSUME Explained
    PROVE  DatesReadBack
<1> DEFINE o == given.object
           precise == o.microsecond <= 999999
           ofDate == given.source \in {"datetime", "datetext"}
           ofTime == given.source \in {"time", "timetext"}
           stored == given.valid /\ type \in DateTypes /\ status = "none"
           dateRead == ReadDate = [year |-> o.year, month |-> o.month, day |-> o.day, rest |-> 62]
           dayTimeRead == o.hour \in 0 .. 23 =>
                              ReadDateTime = [year |-> 0, month |-> 0, day |-> 0,
                                              hour |-> o.hour, minute |-> o.minute,
                                              second |-> o.second,
                                              microsecond |-> o.microsecond]
           timeRead(sign) == ReadTime = [hour |-> o.hour, minute |-> o.minute,
                                         second |-> o.second, microsecond |-> o.microsecond,
                                         is_neg |-> sign]
<1>1. ASSUME precise, ofDate, stored
      PROVE  /\ type = "DATE" => dateRead
             /\ type = "DATETIME" => ReadDateTime = o
             /\ type = "TIME" => timeRead(FALSE)
  <2>1. /\ o \in DateTimeFields /\ validateDate(o)
        /\ type = "DATE" => data.set = getDateInt(o)
        /\ type = "DATETIME" => data.set = getDateTimeInt(o)
        /\ type = "TIME" => data.set = getTimeOfDayInt(o)
    BY <1>1, DateStored, SMT
  <2>2. FitsIn(o.microsecond, 20)
    BY <1>1, <2>1, Microseconds, SMT
  <2> HIDE DEF o, precise
  <2> QED
    BY <1>1, <2>1, <2>2, DateReads
<1>2. ASSUME precise, ofTime, stored
      PROVE  /\ type # "DATE"
             /\ type = "DATETIME" => dayTimeRead
             /\ type = "TIME" => timeRead(o.is_neg \/ o.hour < 0)
  <2>1. /\ o \in TimeFields /\ validateTime(o)
        /\ type \in {"DATETIME", "TIME"}
        /\ type = "DATETIME" => data.set = getDayTimeInt(o)
        /\ type = "TIME" => data.set = getTimeInt(o)
    BY <1>2, TimeStored, SMT
  <2>2. FitsIn(o.microsecond, 20)
    BY <1>2, <2>1, Microseconds, SMT
  <2> HIDE DEF o, precise
  <2> QED
    BY <1>2, <2>1, <2>2, TimeReads
<1>3. type \in DateTypes => type \in {"DATE", "DATETIME", "TIME"}
  BY SMT DEF DateTypes
<1> DEFINE sign == ~ofDate /\ (o.is_neg \/ o.hour < 0)
           body == CASE type = "DATE" -> dateRead
                     [] type = "DATETIME" /\ ofDate -> ReadDateTime = o
                     [] type = "DATETIME" /\ ~ofDate -> dayTimeRead
                     [] type = "TIME" -> timeRead(sign)
<1>4. DatesReadBack <=>
         (/\ given.source \in {"datetime", "datetext", "time", "timetext"}
          /\ given.valid /\ precise
          /\ type \in DateTypes
          /\ status = "none"
          => body)
  BY SMT DEF DatesReadBack
<1>5. given.source \in {"datetime", "datetext", "time", "timetext"}
         => (ofDate /\ ~ofTime) \/ (ofTime /\ ~ofDate)
  OBVIOUS
<1>6. /\ ofDate => sign = FALSE
      /\ ~ofDate => sign = (o.is_neg \/ o.hour < 0)
  <2> HIDE DEF o, precise
  <2> QED
    OBVIOUS
<1> HIDE DEF o, precise, ofDate, ofTime, dateRead, dayTimeRead, timeRead, sign
<1>7. ASSUME precise, ofDate, ~ofTime, stored PROVE body
  BY <1>1, <1>3, <1>6, <1>7
<1>8. ASSUME precise, ofTime, ~ofDate, stored PROVE body
  BY <1>2, <1>3, <1>6, <1>8
<1> HIDE DEF body
<1> QED
  BY <1>4, <1>5, <1>7, <1>8

(* A date or time that is stored reads back from its integer.              *)
THEOREM StoredDatesReadBack == Spec => []DatesReadBack
BY EveryResultIsExplained, ExplainedReadsBack, PTL

-----------------------------------------------------------------------------
(* What any conversion leaves in the container has the type of the column. *)

Kept(value, reported) ==
    /\ value # Nothing
    /\ reported \in Statuses
    /\ IF type \in TextTypes THEN value.length \in 0 .. column.width
       ELSE /\ value.bits = IF type \in Decimals /\ reported = "invalid" THEN Bits64 ELSE Size
            /\ type \in DateTypes => value.set \subseteq 0 .. value.bits - 1
            /\ type \in Integral \cup Decimals => value.number \in 0 .. Exp(2, value.bits) - 1

(* Every type is of one kind.                                              *)
LEMMA TypesApart ==
    ASSUME column \in Columns
    PROVE  /\ type \in Integral \cup Decimals =>
                 type \notin Floats /\ type \notin TextTypes /\ type \notin DateTypes
           /\ type \in Integral => type \notin Decimals
           /\ type \in Floats =>
                 type \notin TextTypes /\ type \notin DateTypes /\ type \notin Integral \cup Decimals
           /\ type \in DateTypes =>
                 type \notin TextTypes /\ type \notin Floats /\ type \notin Integral \cup Decimals
           /\ type \in TextTypes =>
                 type \notin DateTypes /\ type \notin Floats /\ type \notin Integral \cup Decimals
           /\ \/ type \in Integral \/ type \in Decimals \/ type \in Floats
              \/ type \in DateTypes \/ type \in TextTypes
<1>1. type \in Types
  BY DEF Columns, type, Types, Decimals, TextTypes
<1> QED
  BY <1>1 DEF Types, Integral, Signed, Unsigned, Decimals, Floats, DateTypes, TextTypes

(* An integer is cast to the width of the column.                          *)
LEMMA KeptNumber ==
    ASSUME column \in Columns, type \in Integral \cup Decimals, NEW n \in Int,
           NEW s \in Statuses, s = "invalid" => type \in Integral
    PROVE  Kept(Number(n), s)
<1>1. Exp(2, Size) \in Nat \ {0}
  BY WidthOfSize
<1>2. \A e \in Nat \ {0} : n % e \in 0 .. e - 1
  OBVIOUS
<1>3. n % Exp(2, Size) \in 0 .. Exp(2, Size) - 1
  BY <1>1, <1>2
<1>4. /\ type \notin TextTypes /\ type \notin DateTypes
      /\ ~(type \in Decimals /\ s = "invalid")
  BY TypesApart
<1>5. (Number(n)).bits = Size /\ (Number(n)).number = n % Exp(2, Size)
  BY DEF Number
<1>6. Number(n) # Nothing
  BY DEF Number, Nothing
<1> QED
  BY <1>3, <1>4, <1>5, <1>6 DEF Kept

(* A FLOAT or DOUBLE is kept as it is.                                     *)
LEMMA KeptReal ==
    ASSUME column \in Columns, type \in Floats, NEW x, NEW s \in Statuses
    PROVE  Kept(Real(x), s)
<1>1. type \notin TextTypes /\ type \notin DateTypes /\ type \notin Integral \cup Decimals
  BY TypesApart
<1>2. (Real(x)).bits = Size
  BY DEF Real
<1>3. Real(x) # Nothing
  BY DEF Real, Nothing
<1> QED
  BY <1>1, <1>2, <1>3 DEF Kept

(* A word of a date or time is of the size of the column.                  *)
LEMMA KeptWord ==
    ASSUME column \in Columns, type \in DateTypes, NEW set, set \subseteq 0 .. Size - 1,
           NEW s \in Statuses
    PROVE  Kept(Word(set), s)
<1>1. type \notin TextTypes /\ type \notin Integral \cup Decimals
  BY TypesApart
<1>2. (Word(set)).bits = Size /\ (Word(set)).set = set
  BY DEF Word
<1>3. Word(set) # Nothing
  BY DEF Word, Nothing
<1> QED
  BY <1>1, <1>2, <1>3 DEF Kept

(* A text is kept, or emptied.                                             *)
LEMMA KeptText ==
    ASSUME column \in Columns, type \in TextTypes, NEW length \in Nat
    PROVE  /\ Kept((ToText(length)).data, (ToText(length)).status)
           /\ \A s \in Statuses : Kept(Text(0), s)
<1>1. column.width \in Nat
  BY DataConvertAssumption DEF Columns, type, Types, Decimals, TextTypes
<1>2. \A n \in 0 .. column.width : \A s \in Statuses : Kept(Text(n), s)
  BY DEF Kept, Text, Nothing
<1>3. (IF length > column.width THEN column.width ELSE length) \in 0 .. column.width
  BY <1>1
<1>4. (IF length > column.width THEN "truncated" ELSE "none") \in Statuses
  BY DEF Statuses
<1>5. Kept((ToText(length)).data, (ToText(length)).status)
  BY <1>2, <1>3, <1>4 DEF ToText
<1> QED
  BY <1>1, <1>2, <1>5

(* An invalid value leaves a zero of the type.                             *)
LEMMA KeptInvalid ==
    ASSUME column \in Columns
    PROVE  Kept(Invalid.data, Invalid.status)
<1>1. Invalid.data = Zero /\ Invalid.status = "invalid" /\ "invalid" \in Statuses
  BY DEF Invalid, Statuses
<1>2. CASE type \in Integral
  <2>1. Zero = Number(0)
    BY <1>2, TypesApart DEF Zero
  <2> QED
    BY <1>1, <1>2, <2>1, KeptNumber
<1>3. CASE type \in Decimals
  <2>1. Zero = [bits |-> Bits64, number |-> 0]
    BY <1>3, TypesApart DEF Zero
  <2>2. Zero.bits = Bits64 /\ Zero.number = 0 /\ Zero # Nothing
    BY <2>1 DEF Nothing
  <2>3. 0 \in 0 .. Exp(2, Bits64) - 1
    BY WidthOfBits64
  <2>4. type \notin TextTypes /\ type \notin DateTypes
    BY <1>3, TypesApart
  <2> QED
    BY <1>1, <1>3, <2>2, <2>3, <2>4 DEF Kept
<1>4. CASE type \in Floats
  <2>1. Zero = Real(0)
    BY <1>4, TypesApart DEF Zero
  <2> QED
    BY <1>1, <1>4, <2>1, KeptReal
<1>5. CASE type \in DateTypes
  <2>1. Zero = Word({})
    BY <1>5, TypesApart DEF Zero
  <2> QED
    BY <1>1, <1>5, <2>1, KeptWord
<1>6. CASE type \in TextTypes
  <2>1. Zero = Text(0)
    BY <1>6, TypesApart DEF Zero
  <2> QED
    BY <1>1, <1>6, <2>1, KeptText
<1> QED
  BY <1>2, <1>3, <1>4, <1>5, <1>6, TypesApart

(* All bounds are integers.                                                *)
LEMMA BoundsInt ==
    ASSUME column \in Columns, type \in Integral, NEW source
    PROVE  Highest(source) \in Int /\ Least(source) \in Int
<1>1. CASE type = "BIT"
  <2>1. Highest(source) = 1
    BY <1>1 DEF Highest, Largest
  <2>2. Least(source) \in {0, IntMin(Bits64)}
    BY <1>1 DEF Least, Unsigned
  <2> QED
    BY <2>1, <2>2, WidthOfBits64
<1>2. CASE type \in Signed \ {"BIT"}
  <2>1. Largest(source) \in Nat /\ Highest(source) = Largest(source) /\ Least(source) \in Int
    BY <1>2, SignedRange
  <2> QED
    BY <2>1
<1>3. CASE type \in Unsigned
  <2>1. Least(source) = 0
    BY <1>3, UnsignedRange
  <2>2. /\ UIntMax(Bits16) \in Int /\ UIntMax(Bits32) \in Int
        /\ FiveFs \in Int
    BY IntegerWidths DEF BitWidths
  <2>3. Highest(source) \in Int
    <3>1. Largest(source) \in Int
      BY <1>3, UnsignedRange
    <3>2. IntMax(Bits64) \in Int
      BY WidthOfBits64
    <3> QED
      BY <2>2, <3>1, <3>2 DEF Highest
  <2> QED
    BY <2>1, <2>3
<1> QED
  BY <1>1, <1>2, <1>3 DEF Integral

(* What the bounds make of a number is kept.                               *)
LEMMA KeptBounded ==
    ASSUME column \in Columns, type \in Integral, NEW source, NEW compared, NEW n \in Int
    PROVE  Kept((Bounded(source, compared, n)).data, (Bounded(source, compared, n)).status)
<1>1. Highest(source) \in Int /\ Least(source) \in Int
  BY BoundsInt
<1>2. PICK m \in Int : (Bounded(source, compared, n)).data = Number(m)
  BY <1>1 DEF Bounded
<1>3. (Bounded(source, compared, n)).status \in {"saturated", "none"}
  BY DEF Bounded
<1>4. \A s \in {"saturated", "none"} : Kept(Number(m), s)
  BY KeptNumber DEF Statuses
<1> QED
  BY <1>2, <1>3, <1>4

(* A number has as many digits as it takes.                                *)
LEMMA DigitsCount ==
    ASSUME NEW n \in Nat
    PROVE  Digits(n) \in 1 .. n + 1 /\ n < Exp(10, Digits(n))
<1> DEFINE P(k) == n < Exp(10, k) /\ (k = 1 \/ n >= Exp(10, k - 1))
<1>1. /\ \A k \in Nat : Exp(10, k) \in Nat
      /\ n < Exp(10, n + 1)
  <2>1. 10 \in Nat /\ 10 >= 2 /\ n + 1 \in Nat
    OBVIOUS
  <2>2. \A k \in Nat : Exp(10, k) \in Nat /\ k < Exp(10, k)
    BY <2>1, ExpGrows
  <2>3. n + 1 < Exp(10, n + 1)
    BY <2>1, <2>2
  <2> QED
    BY <2>2, <2>3
<1>2. \E k \in 1 .. n + 1 : P(k)
  <2> SUFFICES ASSUME \A k \in 1 .. n + 1 : ~P(k) PROVE FALSE
    OBVIOUS
  <2> DEFINE S == {k \in Nat : k <= n => n >= Exp(10, k + 1)}
  <2>1. 0 \in S
    <3>1. ~P(1)
      OBVIOUS
    <3>2. ~(n < Exp(10, 1))
      BY <3>1
    <3>3. Exp(10, 1) \in Nat
      BY <1>1
    <3> QED
      BY <3>2, <3>3
  <2>2. ASSUME NEW k \in Nat, k \in S PROVE k + 1 \in S
    <3> SUFFICES ASSUME k + 1 <= n PROVE n >= Exp(10, (k + 1) + 1)
      OBVIOUS
    <3>1. n >= Exp(10, k + 1)
      BY <2>2
    <3>2. (k + 1) + 1 \in 1 .. n + 1 /\ (k + 1) + 1 \in Nat /\ ((k + 1) + 1) - 1 = k + 1
      OBVIOUS
    <3>3. ~P((k + 1) + 1)
      BY <3>2
    <3>4. ~(n < Exp(10, (k + 1) + 1))
      BY <3>1, <3>2, <3>3
    <3>5. Exp(10, (k + 1) + 1) \in Nat
      BY <1>1, <3>2
    <3> QED
      BY <3>4, <3>5
  <2>3. \A k \in Nat : k \in S
    <3> HIDE DEF S
    <3> QED
      BY <2>1, <2>2, Induction
  <2>4. n >= Exp(10, n + 1)
    BY <2>3
  <2> QED
    BY <1>1, <2>4
<1>3. Digits(n) = CHOOSE k \in 1 .. n + 1 : P(k)
  BY DEF Digits
<1> HIDE DEF P
<1>4. Digits(n) \in 1 .. n + 1 /\ P(Digits(n))
  BY <1>2, <1>3
<1> QED
  BY <1>4 DEF P

(* The length of the text of a number.                                     *)
LEMMA LengthNat ==
    ASSUME NEW source, NEW t \in Int
    PROVE  Length(source, t) \in Nat
<1>1. \A n \in Nat : Digits(n) \in Nat
  BY DigitsCount
<1>2. t < 0 => (-t) \div 10 \in Nat
  OBVIOUS
<1>3. t >= 0 => t \div 10 \in Nat
  OBVIOUS
<1>4. (IF t < 0 THEN 1 + Digits((-t) \div 10) ELSE Digits(t \div 10)) \in Nat
  <2>1. CASE t < 0
    <3>1. Digits((-t) \div 10) \in Nat
      BY <1>1, <1>2, <2>1
    <3> QED
      BY <2>1, <3>1
  <2>2. CASE ~(t < 0)
    BY <1>1, <1>3, <2>2
  <2> QED
    BY <2>1, <2>2
<1> DEFINE whole == IF t < 0 THEN 1 + Digits((-t) \div 10) ELSE Digits(t \div 10)
<1>5. Length(source, t) = CASE source = "double" -> whole + 7
                            [] source # "double" /\ t % 10 # 0 -> whole + 2
                            [] OTHER -> whole
  BY DEF Length
<1>6. whole \in Nat
  BY <1>4
<1> HIDE DEF whole
<1> QED
  BY <1>5, <1>6

(* A text with a leading zero is read as a number.                         *)
LEMMA OctalInt ==
    ASSUME NEW n \in Nat
    PROVE  Octal(n) \in Int
<1> DEFINE d == [i \in Nat |-> Digit(n, 10, i)]
<1>1. d \in [Nat -> Int]
  <2>1. \A i \in Nat : Digit(n, 10, i) \in Int
    <3>1. 10 \in Nat /\ 10 >= 2
      OBVIOUS
    <3>2. \A i \in Nat : Exp(10, i) \in Nat /\ i < Exp(10, i)
      BY <3>1, ExpGrows
    <3>3. \A e \in Nat : e > 0 => (n \div e) % 10 \in Int
      OBVIOUS
    <3> QED
      BY <3>2, <3>3 DEF Digit
  <2> QED
    BY <2>1
<1>2. Digits(n) \in Nat
  BY DigitsCount
<1> HIDE DEF d
<1>3. 8 \in Int
  OBVIOUS
<1>4. \A k \in Nat : Value(d, 8, k) \in Int
  BY <1>1, <1>3, ValueSteps
<1>5. Octal(n) = Value(d, 8, Digits(n))
  BY DEF Octal, d
<1> QED
  BY <1>2, <1>4, <1>5

NumberSources == {"uint64", "int64", "double", "decimal", "string"}

(* A number for a DECIMAL becomes an integer.                              *)
LEMMA DecimalIntsInt ==
    ASSUME column \in Columns, type \in Decimals, NEW t \in Int, NEW source \in NumberSources
    PROVE  \A n \in DecimalInts(source, t) : n \in Int
<1> USE WidthOfBits64
<1>1. Scaled(t) \in Int
  BY ScaledNumber
<1>2. \A n \in Products(t) : n \in Int
  BY ProductNear
<1>3. \A k \in Int : \A n \in CastInt64(k) : n \in Int
  BY CastInt64Int
<1>4. \A k \in Int : \A n \in CastUInt64(k) : n \in Int
  BY DEF CastUInt64, UInt64
<1>5. \A k \in Int : AsInt64(k) \in Int
  BY DEF AsInt64
<1>6. \A n \in getDecimalInt(t) : n \in Int /\ n % Exp(2, Bits64) \in Int
  <2>1. Inward(Scaled(t)) \in Int
    BY <1>1 DEF Inward
  <2>2. \A k \in Int : Nearest(k, IntMin(Bits64), IntMax(Bits64)) \in Int
    BY DEF Nearest
  <2>3. \A n \in getDecimalInt(t) : n \in Int
    BY <1>1, <2>1, <2>2 DEF getDecimalInt
  <2> QED
    BY <2>3
<1>7. CASE source = "uint64"
  BY <1>2, <1>4, <1>7 DEF DecimalInts
<1>8. CASE source = "int64"
  BY <1>2, <1>3, <1>8 DEF DecimalInts
<1>9. CASE source = "double"
  BY <1>2, <1>3, <1>4, <1>9 DEF DecimalInts, Decimals
<1>10. CASE source = "decimal"
  BY <1>6, <1>10 DEF DecimalInts
<1>11. CASE source = "string"
  <2>1. DecimalInts(source, t) = {AsInt64(n) : n \in UNION {CastUInt64(m) : m \in Products(t)}}
    BY <1>11 DEF DecimalInts
  <2>2. \A n \in UNION {CastUInt64(m) : m \in Products(t)} : n \in Int
    BY <1>2, <1>4
  <2> QED
    BY <1>5, <2>1, <2>2
<1> QED
  BY <1>7, <1>8, <1>9, <1>10, <1>11 DEF NumberSources

(* Whatever the fields are, the word has the bits of its type.             *)
LEMMA WordsFit ==
    /\ \A d : getDateInt(d) \subseteq 0 .. 32 - 1
    /\ \A d : getDateTimeInt(d) \subseteq 0 .. 64 - 1
    /\ \A d : getTimeOfDayInt(d) \subseteq 0 .. 64 - 1
    /\ \A t : getTimeInt(t) \subseteq 0 .. 64 - 1
    /\ \A t : getDayTimeInt(t) \subseteq 0 .. 64 - 1
<1>1. \A n : /\ Put(n, 16, 16) \subseteq 0 .. 31 /\ Put(n, 12, 8) \subseteq 0 .. 31
             /\ Put(n, 6, 8) \subseteq 0 .. 31 /\ Put(n, 0, 6) \subseteq 0 .. 31
  BY DEF Put
<1>2. \A n : /\ Put(n, 48, 16) \subseteq 0 .. 63 /\ Put(n, 44, 8) \subseteq 0 .. 63
             /\ Put(n, 38, 8) \subseteq 0 .. 63 /\ Put(n, 32, 8) \subseteq 0 .. 63
             /\ Put(n, 26, 8) \subseteq 0 .. 63 /\ Put(n, 20, 8) \subseteq 0 .. 63
             /\ Put(n, 0, 20) \subseteq 0 .. 63
  BY DEF Put
<1>3. \A n : /\ Put(n, 40, 8) \subseteq 0 .. 63 /\ Put(n, 24, 8) \subseteq 0 .. 63
             /\ Put(n, 0, 24) \subseteq 0 .. 63 /\ Put(n, 40, 24) \subseteq 0 .. 63
  BY DEF Put
<1>4. 52 .. 62 \subseteq 0 .. 63 /\ {63} \subseteq 0 .. 63 /\ 31 = 32 - 1 /\ 63 = 64 - 1
  OBVIOUS
<1>5. \A d : getDateInt(d) \subseteq 0 .. 31
  BY <1>1 DEF getDateInt
<1>6. \A d : getDateTimeInt(d) \subseteq 0 .. 63
  BY <1>2 DEF getDateTimeInt
<1>7. \A d : getTimeOfDayInt(d) \subseteq 0 .. 63
  BY <1>2, <1>3, <1>4 DEF getTimeOfDayInt
<1>8. \A t : getTimeInt(t) \subseteq 0 .. 63
  BY <1>2, <1>3, <1>4 DEF getTimeInt
<1>9. \A t : getDayTimeInt(t) \subseteq 0 .. 63
  BY <1>2 DEF getDayTimeInt
<1> QED
  BY <1>4, <1>5, <1>6, <1>7, <1>8, <1>9

(* The results of all overloads for numbers, in a column for integers.     *)
LEMMA KeptInteger ==
    ASSUME column \in Columns, type \in Integral, NEW t \in Int
    PROVE  \A result \in UnsignedResults(t) \cup SignedResults(t) \cup DecimalResults(t)
                             \cup DoubleResults(t) \cup {TextResult(t)} :
               Kept(result.data, result.status)
<1>1. Trunc(t) \in Int /\ Round(t) \in Int /\ Away(t) \in Int
  BY Fractions
<1>2. \A s, c : \A n \in Int : Kept((Bounded(s, c, n)).data, (Bounded(s, c, n)).status)
  BY KeptBounded
<1>3. \A s : \A n \in Int : Kept((Converted(s, n)).data, (Converted(s, n)).status)
  BY <1>2 DEF Converted
<1>4. \A result \in UnsignedResults(t) \cup SignedResults(t) : Kept(result.data, result.status)
  BY <1>1, <1>3 DEF UnsignedResults, SignedResults
<1>5. \A result \in DecimalResults(t) : Kept(result.data, result.status)
  <2>1. \A n \in getInt(t) : n \in Int
    BY <1>1, RoundedFacts, CastInt64Int DEF getInt
  <2> QED
    BY <1>3, <2>1 DEF DecimalResults
<1>6. \A result \in DoubleResults(t) : Kept(result.data, result.status)
  <2>1. CASE type = "BIT"
    <3>1. DoubleResults(t) = {Converted("double", n) : n \in CastUInt8(Trunc(t))}
      BY <2>1 DEF DoubleResults, Unsigned
    <3>2. \A n \in CastUInt8(Trunc(t)) : n \in Int
      <4>1. UIntMax(Bits8) \in Nat /\ Exp(2, Bits8) \in Nat \ {0}
        BY IntegerWidths DEF BitWidths
      <4>2. Trunc(t) % Exp(2, Bits8) \in Int
        BY <1>1, <4>1
      <4> QED
        BY <1>1, <4>1, <4>2 DEF CastUInt8, Nearest
    <3> QED
      BY <1>3, <3>1, <3>2
  <2>2. CASE type = "BIGINT" /\ Away(t) > IntMax(Bits64) + 1
    <3>1. DoubleResults(t) = {[data |-> Number(IntMax(Bits64)), status |-> "saturated"]}
      BY <2>2 DEF DoubleResults, Unsigned
    <3>2. Kept(Number(IntMax(Bits64)), "saturated")
      BY KeptNumber, WidthOfBits64 DEF Statuses
    <3> QED
      BY <3>1, <3>2
  <2>3. CASE type \in Unsigned
    <3>1. DoubleResults(t) = {Bounded("double", Away(t), Trunc(t))}
      BY <2>3 DEF DoubleResults, Unsigned
    <3> QED
      BY <1>1, <1>2, <3>1
  <2>4. CASE type \in Signed \ {"BIT"} /\ ~(type = "BIGINT" /\ Away(t) > IntMax(Bits64) + 1)
    <3>1. DoubleResults(t) = {Converted("double", n) : n \in CastInt64(Trunc(t))}
      BY <2>4 DEF DoubleResults, Unsigned, Signed
    <3>2. \A n \in CastInt64(Trunc(t)) : n \in Int
      BY <1>1, CastInt64Int
    <3> QED
      BY <1>3, <3>1, <3>2
  <2> QED
    BY <2>1, <2>2, <2>3, <2>4 DEF Integral
<1>7. Kept((TextResult(t)).data, (TextResult(t)).status)
  <2>1. (IF type \in Unsigned THEN Trunc(t) % Exp(2, Bits64) ELSE Trunc(t)) \in Int
    BY <1>1, WidthOfBits64
  <2>2. Kept((FromText(Trunc(t))).data, (FromText(Trunc(t))).status)
    BY <1>3, <2>1 DEF FromText
  <2> QED
    BY <2>2, KeptInvalid DEF TextResult
<1> QED
  BY <1>4, <1>5, <1>6, <1>7

(* The result for a text with a leading zero.                              *)
LEMMA KeptOctal ==
    ASSUME column \in Columns, type \in Integral, NEW n \in Nat
    PROVE  Kept((ZeroTextResult(n)).data, (ZeroTextResult(n)).status)
<1>1. Octal(n) \in Int
  BY OctalInt
<1>2. (IF type \in Unsigned THEN Octal(n) % Exp(2, Bits64) ELSE Octal(n)) \in Int
  BY <1>1, WidthOfBits64
<1>3. Kept((FromText(Octal(n))).data, (FromText(Octal(n))).status)
  BY <1>2, KeptBounded DEF FromText, Converted
<1> QED
  BY <1>3, KeptInvalid DEF ZeroTextResult

(* The same for every type of column: what the overload makes of integer   *)
(* columns is results.                                                     *)
LEMMA KeptNumbers ==
    ASSUME column \in Columns, NEW t \in Int, NEW source \in NumberSources, NEW results,
           type \in Integral => \A result \in results : Kept(result.data, result.status)
    PROVE  \A result \in NumberResults(source, t, results) : Kept(result.data, result.status)
<1>1. CASE type \in Integral
  <2>1. NumberResults(source, t, results) = results
    BY <1>1, TypesApart DEF NumberResults
  <2> QED
    BY <1>1, <2>1
<1>2. CASE type \in Decimals
  <2>1. NumberResults(source, t, results) = {ToWidth(source, n) : n \in DecimalInts(source, t)}
    BY <1>2 DEF NumberResults, Decimals, Floats, TextTypes, DateTypes
  <2>2. ASSUME NEW n \in Int PROVE Kept((ToWidth(source, n)).data, (ToWidth(source, n)).status)
    <3>1. IntMin(Size) \in Int /\ IntMax(Size) \in Int /\ UIntMax(Size) \in Int
      BY <1>2, WidthOfSize
    <3>2. PICK m \in Int : (ToWidth(source, n)).data = Number(m)
      BY <3>1 DEF ToWidth, Nearest
    <3>3. (ToWidth(source, n)).status \in {"none", "saturated"}
      BY DEF ToWidth
    <3>4. \A s \in {"none", "saturated"} : Kept(Number(m), s)
      BY <1>2, KeptNumber DEF Statuses
    <3> QED
      BY <3>2, <3>3, <3>4
  <2> QED
    BY <1>2, <2>1, <2>2, DecimalIntsInt
<1>3. CASE type \in Floats
  <2>1. NumberResults(source, t, results) = {ToFloat(source, t)}
    BY <1>3 DEF NumberResults, Decimals, Floats, TextTypes, DateTypes
  <2>2. \A x : \A s \in {"none", "saturated"} : Kept(Real(x), s)
    BY <1>3, KeptReal DEF Statuses
  <2>3. Kept((ToFloat(source, t)).data, (ToFloat(source, t)).status)
    BY <2>2 DEF ToFloat
  <2> QED
    BY <2>1, <2>3
<1>4. CASE type \in TextTypes
  <2>1. NumberResults(source, t, results) = {ToText(Length(source, t))}
    BY <1>4 DEF NumberResults, Decimals, Floats, TextTypes, DateTypes
  <2> QED
    BY <1>4, <2>1, LengthNat, KeptText
<1>5. CASE type \in DateTypes
  <2>1. NumberResults(source, t, results) = {Invalid}
    BY <1>5 DEF NumberResults, Decimals, Floats, TextTypes, DateTypes
  <2> QED
    BY <2>1, KeptInvalid
<1> QED
  BY <1>1, <1>2, <1>3, <1>4, <1>5, TypesApart

(* The results for a date.                                                 *)
LEMMA KeptDates ==
    ASSUME column \in Columns
    PROVE  /\ \A d : type \notin TextTypes =>
                         Kept((DateTextResult(d)).data, (DateTextResult(d)).status)
           /\ \A d : Kept((DateTimeResult(d)).data, (DateTimeResult(d)).status)
<1>1. "none" \in Statuses
  BY DEF Statuses
<1>2. ASSUME type \in DateTypes
      PROVE  /\ type = "DATE" => Size = 32
             /\ type # "DATE" => Size = 64
  BY <1>2, TypesApart DEF Size, DateTypes, Decimals
<1>3. ASSUME NEW d
      PROVE  /\ type = "DATE" => Kept(Word(getDateInt(d)), "none")
             /\ type = "DATETIME" => Kept(Word(getDateTimeInt(d)), "none")
             /\ type = "TIME" => Kept(Word(getTimeOfDayInt(d)), "none")
  <2>1. \A set : type \in DateTypes /\ set \subseteq 0 .. Size - 1 => Kept(Word(set), "none")
    BY <1>1, KeptWord
  <2>2. type \in {"DATE", "DATETIME", "TIME"} => type \in DateTypes
    BY DEF DateTypes
  <2>3. /\ getDateInt(d) \subseteq 0 .. 32 - 1
        /\ getDateTimeInt(d) \subseteq 0 .. 64 - 1
        /\ getTimeOfDayInt(d) \subseteq 0 .. 64 - 1
    BY WordsFit
  <2> QED
    BY <1>2, <2>1, <2>2, <2>3
<1>4. ASSUME NEW d
      PROVE  Kept((DateTextResult(d)).data, (DateTextResult(d)).status)
  BY <1>3, KeptInvalid DEF DateTextResult
<1>5. ASSUME NEW d
      PROVE  Kept((DateTimeResult(d)).data, (DateTimeResult(d)).status)
  <2>1. CASE type \in TextTypes
    <3>1. getDateTimeStr(d) \in Nat
      BY DEF getDateTimeStr
    <3> QED
      BY <2>1, <3>1, KeptText DEF DateTimeResult
  <2>2. CASE type \notin TextTypes /\ type \in DateTypes
    <3>1. (DateTimeResult(d)).status = "none"
      BY <2>2 DEF DateTimeResult
    <3>2. (DateTimeResult(d)).data = Word(CASE type = "DATE" -> getDateInt(d)
                                            [] type = "DATETIME" -> getDateTimeInt(d)
                                            [] type = "TIME" -> getTimeOfDayInt(d))
      BY <2>2 DEF DateTimeResult
    <3> QED
      BY <1>3, <2>2, <3>1, <3>2 DEF DateTypes
  <2>3. CASE type \notin TextTypes /\ type \notin DateTypes
    BY <2>3, KeptInvalid DEF DateTimeResult
  <2> QED
    BY <2>1, <2>2, <2>3
<1> QED
  BY <1>4, <1>5

(* The results for a time.                                                 *)
LEMMA KeptTimes ==
    ASSUME column \in Columns, NEW t \in TimeFields
    PROVE  /\ type \notin TextTypes => Kept((TimeTextResult(t)).data, (TimeTextResult(t)).status)
           /\ Kept((TimeResult(t)).data, (TimeResult(t)).status)
<1>1. "none" \in Statuses
  BY DEF Statuses
<1>2. type \in {"TIME", "DATETIME"} => Size = 64 /\ type \in DateTypes
  BY DEF Size, DateTypes, Decimals
<1>3. /\ type = "DATETIME" => Kept(Word(getDayTimeInt(t)), "none")
      /\ type = "TIME" => Kept(Word(getTimeInt(t)), "none")
  <2>1. \A set : type \in DateTypes /\ set \subseteq 0 .. Size - 1 => Kept(Word(set), "none")
    BY <1>1, KeptWord
  <2>2. getDayTimeInt(t) \subseteq 0 .. 64 - 1 /\ getTimeInt(t) \subseteq 0 .. 64 - 1
    BY WordsFit
  <2> QED
    BY <1>2, <2>1, <2>2
<1>4. Kept((TimeTextResult(t)).data, (TimeTextResult(t)).status)
  BY <1>3, KeptInvalid DEF TimeTextResult
<1>5. Kept((TimeResult(t)).data, (TimeResult(t)).status)
  <2>1. CASE type \in TextTypes
    <3>1. getTimeStr(t) \in Nat
      BY DEF getTimeStr, TwoOrMore
    <3> QED
      BY <2>1, <3>1, KeptText DEF TimeResult
  <2>2. CASE type \notin TextTypes
    BY <1>3, <2>2, KeptInvalid DEF TimeResult
  <2> QED
    BY <2>1, <2>2
<1> QED
  BY <1>4, <1>5

(* The result of getNull().                                                *)
LEMMA KeptNull ==
    ASSUME column \in Columns, NEW nullable
    PROVE  Kept((NullResult(nullable)).data, (NullResult(nullable)).status)
<1>1. "none" \in Statuses
  BY DEF Statuses
<1>2. Kept(NullData, "none")
  <2>1. CASE type \in Integral \cup Decimals
    <3>1. \A n \in Int : Kept(Number(n), "none")
      BY <1>1, <2>1, KeptNumber
    <3>2. IntMin(Size) \in Int /\ UIntMax(Size) - 1 \in Int
      BY <2>1, WidthOfSize
    <3>3. NullData \in {Number(IntMin(Size)), Number(UIntMax(Size) - 1)}
      BY <2>1, TypesApart DEF NullData, Integral, Signed, Unsigned, Decimals
    <3> QED
      BY <3>1, <3>2, <3>3
  <2>2. CASE type \in Floats
    <3>1. NullData = Real("NaN")
      BY <2>2 DEF NullData, Floats, Unsigned, TextTypes, DateTypes
    <3> QED
      BY <1>1, <2>2, <3>1, KeptReal
  <2>3. CASE type \in TextTypes
    <3>1. NullData = Text(0)
      BY <2>3 DEF NullData, TextTypes, Unsigned, Floats, DateTypes
    <3> QED
      BY <1>1, <2>3, <3>1, KeptText
  <2>4. CASE type \in DateTypes
    <3>1. NullData = Word(1 .. Size - 1)
      BY <2>4 DEF NullData, DateTypes, TextTypes, Unsigned, Floats
    <3>2. Size \in {32, 64}
      BY <2>4, TypesApart DEF Size, DateTypes
    <3>3. 1 .. Size - 1 \subseteq 0 .. Size - 1
      BY <3>2
    <3> QED
      BY <1>1, <2>4, <3>1, <3>3, KeptWord
  <2> QED
    BY <2>1, <2>2, <2>3, <2>4, TypesApart
<1> QED
  BY <1>2, KeptInvalid DEF NullResult

(* The type invariant follows from the inductive one.                      *)
LEMMA ExplainedTypeOK ==
    ASSUME Explained
    PROVE  TypeOK
<1>1. column \in Columns
  BY DEF Explained
<1>2. ASSUME Kept(data, status), given # Nothing PROVE TypeOK
  BY <1>1, <1>2 DEF Kept, TypeOK
<1>3. CASE given = Nothing /\ data = Nothing /\ status = "none"
  BY <1>1, <1>3 DEF TypeOK, Statuses
<1>4. ASSUME NEW t \in Tenths, NumberExplained(t) PROVE TypeOK
  <2>1. t \in Int
    BY DataConvertAssumption
  <2>2. ASSUME NEW source \in NumberSources, NEW results, NumberReturned(source, t, results),
               type \in Integral => \A result \in results : Kept(result.data, result.status)
        PROVE  TypeOK
    <3>1. PICK result \in NumberResults(source, t, results) :
              Returned([source |-> source, tenths |-> t], result)
      BY <2>2 DEF NumberReturned
    <3>2. Kept(result.data, result.status)
      BY <1>1, <2>1, <2>2, KeptNumbers
    <3>3. Kept(data, status)
      BY <3>1, <3>2 DEF Returned
    <3>4. given # Nothing
      BY <3>1 DEF Returned, Nothing, NumberSources
    <3> QED
      BY <1>2, <3>3, <3>4
  <2>3. type \in Integral =>
           \A result \in UnsignedResults(t) \cup SignedResults(t) \cup DecimalResults(t)
                             \cup DoubleResults(t) \cup {TextResult(t)} :
               Kept(result.data, result.status)
    BY <1>1, <2>1, KeptInteger
  <2> QED
    BY <1>4, <2>2, <2>3 DEF NumberExplained, NumberSources
<1>5. ASSUME NEW t \in Tenths, OctalExplained(t) PROVE TypeOK
  <2>1. t \in Int /\ type \in Integral
    BY <1>5, DataConvertAssumption DEF OctalExplained
  <2>2. NumberResults("octal", t, {ZeroTextResult(Trunc(t))}) = {ZeroTextResult(Trunc(t))}
    BY <1>1, <2>1, TypesApart DEF NumberResults
  <2>3. Returned([source |-> "octal", tenths |-> t], ZeroTextResult(Trunc(t)))
    BY <1>5, <2>2 DEF OctalExplained, NumberReturned
  <2>4. given # Nothing
    BY <2>3 DEF Returned, Nothing
  <2>5. t >= 0 /\ t % 10 = 0
    BY <1>5 DEF OctalExplained
  <2>6. Trunc(t) \in Nat
    BY <2>1, <2>5 DEF Trunc
  <2>7. Kept(ZeroTextResult(Trunc(t)).data, ZeroTextResult(Trunc(t)).status)
    BY <1>1, <2>1, <2>6, KeptOctal
  <2> QED
    BY <1>2, <2>3, <2>4, <2>7 DEF Returned
<1>6. ASSUME NEW d \in DateTimes, DateExplained(d) PROVE TypeOK
  <2>1. given # Nothing
    BY <1>6 DEF DateExplained, Returned, Nothing
  <2>2. Kept(data, status)
    BY <1>1, <1>6, KeptDates DEF DateExplained, Returned
  <2> QED
    BY <1>2, <2>1, <2>2
<1>7. ASSUME NEW t \in Times, TimeExplained(t) PROVE TypeOK
  <2>1. given # Nothing
    BY <1>7 DEF TimeExplained, Returned, Nothing
  <2>2. t \in TimeFields
    BY DataConvertAssumption
  <2>3. Kept(data, status)
    BY <1>1, <1>7, <2>2, KeptTimes DEF TimeExplained, Returned
  <2> QED
    BY <1>2, <2>1, <2>3
<1>8. ASSUME NEW nullable \in BOOLEAN,
             Returned([source |-> "null", nullable |-> nullable], NullResult(nullable))
      PROVE  TypeOK
  <2>1. given # Nothing
    BY <1>8 DEF Returned, Nothing
  <2>2. Kept(data, status)
    BY <1>1, <1>8, KeptNull DEF Returned
  <2> QED
    BY <1>2, <2>1, <2>2
<1> QED
  BY <1>3, <1>4, <1>5, <1>6, <1>7, <1>8 DEF Explained

(* The container has the size of the column and a value of its type.       *)
THEOREM TypeCorrect == Spec => []TypeOK
BY EveryResultIsExplained, ExplainedTypeOK, PTL

=============================================================================
