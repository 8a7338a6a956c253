------------------------------ MODULE Numerals ------------------------------
(***************************************************************************)
(* Powers and digits, as recursive functions that proofs can unfold.       *)
(***************************************************************************)
EXTENDS Integers

(* b to the power of n.                                                    *)
Exp(b, n) ==
    LET power[k \in Nat] == IF k = 0 THEN 1 ELSE b * power[k - 1]
    IN  power[n]

(* Digit i, from the right, of n to the base b.  Below zero there are      *)
(* infinitely many: the two's complement, if b is two.                     *)
Digit(n, b, i) == (n \div Exp(b, i)) % b

(* The number of which the lowest count digits to the base b are given.    *)
Value(digits, b, count) ==
    LET low[k \in Nat] == IF k = 0 THEN 0 ELSE low[k - 1] + digits[k - 1] * Exp(b, k - 1)
    IN  low[count]

=============================================================================
