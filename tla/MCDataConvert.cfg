\* Integers of 3, 5, 6, 8 and 16 bits for 8, 16, 24, 32 and 64, and doubles of 13 bits
\* for 53.
SPECIFICATION Spec
CONSTANTS
    Bits8 = 3
    Bits16 = 5
    Bits24 = 6
    Bits32 = 8
    Bits64 = 16
    Mantissa = 13
    Tiny = 5
    Scales = {0, 2}
    Widths = {1, 3, 8, 30}
    Tenths <- MCTenths
    DateTimes <- MCDateTimes
    Times <- MCTimes
INVARIANT TypeOK
INVARIANT SilentMeansExact
INVARIANT SaturatesToNearest
INVARIANT NumbersAreNotReserved
INVARIANT ValidIsCalendarDay
INVARIANT DatesReadBack
CHECK_DEADLOCK FALSE
