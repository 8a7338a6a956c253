--------------------------- MODULE MCDataConvert ---------------------------
(* DataConvert for TLC: integers of few bits, the numbers around every     *)
(* bound of every type, as they are and as a DECIMAL has them scaled, with *)
(* fractions, and dates around every bound of a field.                     *)
EXTENDS DataConvert

Around(n) == {n - 1, n, n + 1}

Bounds ==
    {0, FiveFs, FiveFs - 2, SixFs, SixFs - 2, -UIntMax(Bits64), 2^Mantissa, -2^Mantissa,
     2^(Bits64 - 2), -2^(Bits64 - 2)}
        \cup UNION {{IntMin(b), IntMin(b) + 2, IntMax(b), UIntMax(b), UIntMax(b) - 2} :
                    b \in {Bits8, Bits16, Bits24, Bits32, Bits64}}

Told == -10 * 2^(Mantissa - 5) .. 10 * 2^(Mantissa - 5)

MCTenths ==
    {t \in {10 * n + f : n \in UNION {Around(b) : b \in Bounds}, f \in {-5, 0, 3, 5}}
              \cup UNION {Around((10 * b) \div 10^s) : b \in Bounds, s \in Scales} :
        t % 10 = 0 \/ t \in Told}

Clocks == {<<0, 0, 0, 0>>, <<23, 59, 59, 999999>>, <<24, 0, 0, 0>>, <<7, 60, 8, 9>>}

(* The constructor throws when the fields are invalid, set(tm) does not.   *)
MCDateTimes ==
    {d \in {NewDateTime(y, m, n, c) :
               y \in {0, 1, 1900, 2000, 2023, 2024, 9999, 10000, 67536},
               m \in (0 .. 13) \cup {257}, n \in {0, 1, 28, 29, 30, 31, 32, 257}, c \in Clocks} :
        validateDate(d)}
    \cup {SetTm(y, m, n, c) :
             y \in {0, 1, 123, 1000, 2024, -1900}, m \in {-1, 0, 1, 11, 12},
             n \in {0, 29, 31, 32}, c \in Clocks}

MCTimes ==
    {t \in {NewTime(h, c, negative) :
               h \in {-839, -838, -1, 0, 1, 23, 24, 838, 839, 65536}, c \in Clocks,
               negative \in BOOLEAN} : validateTime(t)}
    \cup {SetTimeTm(h, c) : h \in {-1, 0, 23, 24, 839, 10000}, c \in Clocks}

=============================================================================
