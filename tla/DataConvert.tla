---------------------------- MODULE DataConvert ----------------------------
(***************************************************************************)
(* ColumnStoreDataConvert: one action per overload of convert(), and       *)
(* getNull().  No overload reads the container it fills, so one conversion *)
(* into a fresh container is all there is to see of it.                    *)
(*                                                                         *)
(* The widths of the integer types, and of the significand of a double,    *)
(* are constants.  The 64 bits of a DATETIME or TIME and the 32 of a DATE  *)
(* are the ones of the code.  Values are counted in tenths, which stand for*)
(* the fraction of a double, of a ColumnStoreDecimal or of a text; a double*)
(* rounds the integers that it does not hold, and may miss a fraction.  A  *)
(* text is its length, and what a FLOAT or DOUBLE column has is not told   *)
(* from the number.                                                        *)
(*                                                                         *)
(* Beside an operator there may be a mistake that its code could have; it  *)
(* breaks a property when it takes the place of the operator.              *)
(***************************************************************************)
EXTENDS Integers, Numerals, DateTime

CONSTANTS
    Bits8, Bits16, Bits24, Bits32, Bits64,  \* 8, 16, 24, 32, 64 in the code
    Mantissa,   \* bits of the significand of a double: 53
    Tiny,       \* tenths that stand for a Decimal below 0.0001
    Scales,     \* scales of DECIMAL columns
    Widths,     \* widths of text columns
    Tenths,     \* the numbers that conversions are given
    DateTimes,  \* objects of ColumnStoreDateTime
    Times       \* objects of ColumnStoreTime

ASSUME DataConvertAssumption ==
    /\ {Bits8, Bits16, Bits24, Bits32, Bits64} \subseteq Nat
    /\ 3 <= Bits8 /\ Bits8 < Bits16 /\ Bits16 < Bits24
    /\ Bits24 <= Bits32 /\ Bits32 < Bits64
    /\ Mantissa \in Nat /\ Bits32 + 5 <= Mantissa /\ Mantissa + 2 <= Bits64
    /\ Tiny \in Nat
    /\ Bits24 % 6 = 0
    /\ Scales \subseteq Nat /\ Widths \subseteq Nat \ {0}
    /\ Tenths \subseteq Int
    \* A number with a fraction has so few digits that a double tells its
    \* tenths apart, and the powers of ten that it is scaled by are doubles.
    /\ \A t \in Tenths : t % 10 = 0 \/ t \in -10 * Exp(2, Mantissa - 5) .. 10 * Exp(2, Mantissa - 5)
    /\ \A scale \in Scales : Exp(5, scale) <= Exp(2, Mantissa)
    /\ DateTimes \subseteq DateTimeFields
    /\ Times \subseteq TimeFields

Signed == {"BIT", "TINYINT", "SMALLINT", "MEDINT", "INT", "BIGINT"}
Unsigned == {"UTINYINT", "USMALLINT", "UMEDINT", "UINT", "UBIGINT"}
Decimals == {"DECIMAL", "UDECIMAL"}
Floats == {"FLOAT", "UFLOAT", "DOUBLE", "UDOUBLE"}
DateTypes == {"DATE", "TIME", "DATETIME"}
TextTypes == {"VARCHAR"}    \* and CHAR, TEXT, VARBINARY, CLOB, BLOB alike
Integral == Signed \cup Unsigned
Types == Integral \cup Decimals \cup Floats \cup DateTypes \cup TextTypes

(* ColumnStoreSystemCatalogColumn: the width, in bytes or characters, and  *)
(* the scale are looked at for some types only.                            *)
Columns ==
    [type : Decimals, width : {1, 2, 4, 8}, scale : Scales]
        \cup [type : TextTypes, width : Widths, scale : {0}]
        \cup [type : Types \ (Decimals \cup TextTypes), width : {0}, scale : {0}]

IntMax(bits) == Exp(2, bits - 1) - 1
IntMin(bits) == -Exp(2, bits - 1)
UIntMax(bits) == Exp(2, bits) - 1

(* 0xFFFFF and 0xFFFFFF, of five and six hexadecimal digits.               *)
FiveFs == UIntMax(5 * (Bits24 \div 6))
SixFs == UIntMax(Bits24)

VARIABLES
    column,  \* toMeta
    given,   \* history: the overload, and its value
    data,    \* the container
    status   \* what the conversion returns

vars == <<column, given, data, status>>

type == column.type

Nothing == [source |-> "none"]
Statuses == {"none", "saturated", "invalid", "truncated"}

DecimalBits ==
    CASE column.width = 1 -> Bits8
      [] column.width = 2 -> Bits16
      [] column.width = 4 -> Bits32
      [] column.width = 8 -> Bits64

(* The bits of the integer that setData() is called with: a MEDINT is kept *)
(* as an INT.                                                              *)
Size ==
    CASE type \in {"BIT", "TINYINT", "UTINYINT"} -> Bits8
      [] type \in {"SMALLINT", "USMALLINT"} -> Bits16
      [] type \in {"MEDINT", "INT", "UMEDINT", "UINT", "FLOAT", "UFLOAT"} -> Bits32
      [] type \in {"BIGINT", "UBIGINT", "DOUBLE", "UDOUBLE"} -> Bits64
      [] type \in Decimals -> DecimalBits
      [] type = "DATE" -> 32
      [] OTHER -> 64

(* mistake: a negative number is kept with its sign                        *)
NumberUncast(n) == [bits |-> Size, number |-> n]

Number(n) == [bits |-> Size, number |-> n % Exp(2, Size)]
Word(set) == [bits |-> Size, set |-> set]
Real(t) == [bits |-> Size, real |-> t]
Text(length) == [length |-> length]

(* What is stored for an invalid value.  That of a DECIMAL has 64 bits,    *)
(* whatever the width of the column.                                       *)
Zero ==
    CASE type \in Decimals -> [bits |-> Bits64, number |-> 0]
      [] type \in Floats -> Real(0)
      [] type \in DateTypes -> Word({})
      [] type \in TextTypes -> Text(0)
      [] OTHER -> Number(0)

(* How a reader of a column takes the integer of the container.            *)
Stored ==
    IF type \in Signed \cup {"DECIMAL"} /\ data.number > IntMax(data.bits)
    THEN data.number - Exp(2, data.bits)
    ELSE data.number

-----------------------------------------------------------------------------
(* mistake: one value is reserved, not two                                 *)
LargestOffByOne(source) ==
    CASE type = "BIT" -> 1
      [] type \in {"TINYINT", "SMALLINT", "INT", "BIGINT"} -> IntMax(Size)
      [] type = "MEDINT" -> FiveFs
      [] type \in {"UTINYINT", "USMALLINT", "UINT"} -> UIntMax(Size) - 1
      [] type = "UMEDINT" -> SixFs - 1
      [] type = "UBIGINT" -> UIntMax(Bits64) - 1

(* The largest and the least value that a column takes as it is.  Two      *)
(* values of every type are reserved, NULL and EMPTY.                      *)
Largest(source) ==
    CASE type = "BIT" -> 1
      [] type \in {"TINYINT", "SMALLINT", "INT", "BIGINT"} -> IntMax(Size)
      [] type = "MEDINT" -> FiveFs
      [] type \in {"UTINYINT", "USMALLINT", "UINT"} -> UIntMax(Size) - 2
      [] type = "UMEDINT" -> SixFs - 2
      [] type = "UBIGINT" -> CASE source \in {"uint64", "string"} -> UIntMax(Bits64) - 2
                               [] source = "double" -> IntMax(Bits64) + 1
                               [] OTHER -> IntMax(Bits64)

(* mistake: none of the values is reserved                                 *)
LeastUnreserved(source) ==
    CASE source = "uint64" \/ type \in Unsigned -> 0
      [] source # "uint64" /\ type = "BIT" -> IF source = "decimal" THEN 0 ELSE IntMin(Bits64)
      [] source # "uint64" /\ type = "MEDINT" -> SixFs - 2
      [] OTHER -> IntMin(Size)

Least(source) ==
    CASE source = "uint64" \/ type \in Unsigned -> 0
      [] source # "uint64" /\ type = "BIT" -> IF source = "decimal" THEN 0 ELSE IntMin(Bits64)
      [] source # "uint64" /\ type = "MEDINT" -> SixFs - 2
      [] OTHER -> IntMin(Size) + 2

(* What is stored for a value that is too large: the largest value, but    *)
(* for three types, and where INT64_MAX is rounded to be compared with.    *)
Highest(source) ==
    CASE type = "USMALLINT" -> UIntMax(Bits16)
      [] type = "UMEDINT" -> FiveFs - 2
      [] type = "UINT" /\ source = "decimal" -> UIntMax(Bits32)
      [] type = "UBIGINT" /\ source = "double" -> IntMax(Bits64)
      [] OTHER -> Largest(source)

(* mistake: the lower bound is not tested                                  *)
BoundedAbove(source, compared, n) ==
    IF compared > Largest(source)
    THEN [data |-> Number(Highest(source)), status |-> "saturated"]
    ELSE [data |-> Number(n), status |-> "none"]

(* A number n is stored if compared is within the bounds.  A signed value  *)
(* that is too large or below zero is stored in a UTINYINT as it is: the   *)
(* last alternative lacks its else.                                        *)
Bounded(source, compared, n) ==
    LET unguarded == source = "int64" /\ type = "UTINYINT"
        saturated == compared > Largest(source) \/ compared < Least(source)
        bound == IF compared > Largest(source) THEN Highest(source) ELSE Least(source)
    IN  [data |-> Number(IF saturated /\ ~unguarded THEN bound ELSE n),
         status |-> IF saturated THEN "saturated" ELSE "none"]

Converted(source, n) == Bounded(source, n, n)

-----------------------------------------------------------------------------
(* Numbers with a fraction.                                                *)

Trunc(t) == IF t >= 0 THEN t \div 10 ELSE -((-t) \div 10)
Round(t) == IF t >= 0 THEN (t + 5) \div 10 ELSE -((5 - t) \div 10)
Away(t) == IF t >= 0 THEN (t + 9) \div 10 ELSE -((9 - t) \div 10)

Int64 == IntMin(Bits64) .. IntMax(Bits64)
UInt64 == 0 .. UIntMax(Bits64)
Nearest(n, low, high) == IF n < low THEN low ELSE IF n > high THEN high ELSE n

(* What a cast of a double to an int64_t, a uint64_t or a uint8_t yields.  *)
(* Out of the range of the type it is undefined: x86 stores the least      *)
(* integer, or the low bits, others stay at the bound.                     *)
CastInt64(n) ==
    IF n \in Int64 THEN {n}
    ELSE {IntMin(Bits64), Nearest(n, IntMin(Bits64), IntMax(Bits64))}

CastUInt64(n) ==
    IF n \in UInt64 THEN {n}
    ELSE {0, UIntMax(Bits64)} \cup {m \in {n % Exp(2, Bits64)} : n \in Int64}
                              \cup {m \in {Exp(2, Bits64 - 1)} : n < IntMin(Bits64)}

CastUInt8(n) ==
    IF n \in 0 .. UIntMax(Bits8) THEN {n}
    ELSE {n % Exp(2, Bits8), 0, Nearest(n, 0, UIntMax(Bits8))}

-----------------------------------------------------------------------------
(* Doubles.                                                                *)

Abs(n) == IF n < 0 THEN -n ELSE n
Inward(n) == IF n > 0 THEN n - 1 ELSE IF n < 0 THEN n + 1 ELSE 0

(* How far apart the doubles are at the integer n: all integers up to      *)
(* 2^Mantissa are doubles, then every second one is, and so on.            *)
Ulp(n) ==
    Exp(2, CHOOSE k \in 0 .. Abs(n) : /\ Abs(n) <= Exp(2, Mantissa + k)
                                      /\ k = 0 \/ Abs(n) > Exp(2, Mantissa + k - 1))

(* The double that is nearest to the integer n; of two, the even one.      *)
Rounded(n) ==
    LET ulp == Ulp(n)
        down == 2 * (n % ulp) < ulp \/ (2 * (n % ulp) = ulp /\ (n \div ulp) % 2 = 0)
    IN  ulp * IF down THEN n \div ulp ELSE n \div ulp + 1

(* A value times 10^scale as a double, cut: an integer is rounded when it  *)
(* becomes a double, and the product is.  2.3 * 100 is 229.99...: where a  *)
(* double does not hold the fraction, the product may end below the integer*)
(* that it should be, and be off by more where doubles are farther apart.  *)
Scaled(t) == Trunc(t * Exp(10, column.scale))
Product(t) ==
    Rounded(IF t % 10 = 0 THEN Rounded(Trunc(t)) * Exp(10, column.scale) ELSE Scaled(t))
Products(t) ==
    LET p == Product(t)
    IN  IF t % 5 = 0 \/ column.scale < 2 THEN {p}
        ELSE IF Abs(p) <= Exp(2, Mantissa - 1) THEN {p, Inward(p)}
        ELSE p - 2 * Ulp(p) .. p + 2 * Ulp(p)

(* getDecimalInt() multiplies by a power of ten that is exact up to 10^22, *)
(* which is too little for a Decimal below 0.0001: cut, it may lose one.   *)
(* It stays at the bounds of an int64_t.                                   *)
IsTiny(t) == Abs(t) <= Tiny
getDecimalInt(t) ==
    {Nearest(n, IntMin(Bits64), IntMax(Bits64)) :
        n \in IF IsTiny(t) THEN {Scaled(t), Inward(Scaled(t))} ELSE {Scaled(t)}}

(* The integer for a DECIMAL column, before its width is looked at.  A text*)
(* is cast to a uint64_t and put into an int64_t; a UDECIMAL takes what    *)
(* getDecimalInt() returns as a uint64_t.                                  *)
AsInt64(n) == IF n > IntMax(Bits64) THEN n - Exp(2, Bits64) ELSE n

DecimalInts(source, t) ==
    CASE source = "decimal" ->
            {IF type = "DECIMAL" THEN n ELSE n % Exp(2, Bits64) : n \in getDecimalInt(t)}
      [] source = "string" ->
            {AsInt64(n) : n \in UNION {CastUInt64(m) : m \in Products(t)}}
      [] source = "int64" \/ (source = "double" /\ type = "DECIMAL") ->
            UNION {CastInt64(n) : n \in Products(t)}
      [] source = "uint64" \/ (source = "double" /\ type = "UDECIMAL") ->
            UNION {CastUInt64(n) : n \in Products(t)}

(* The bounds of the width, signed or not as the variables of the overload *)
(* are; eight bytes have none.                                             *)
SignedBounds(source) ==
    \/ source \in {"int64", "string"}
    \/ source \in {"double", "decimal"} /\ type = "DECIMAL"

ToWidth(source, n) ==
    LET low == IF SignedBounds(source) THEN IntMin(Size) ELSE 0
        high == IF SignedBounds(source) THEN IntMax(Size) ELSE UIntMax(Size)
        stored == IF column.width = 8 THEN n ELSE Nearest(n, low, high)
    IN  [data |-> Number(stored), status |-> IF stored = n THEN "none" ELSE "saturated"]

(* A FLOAT or DOUBLE.  Only a double below zero is kept out of the         *)
(* unsigned types.                                                         *)
ToFloat(source, t) ==
    IF source = "double" /\ type \in {"UFLOAT", "UDOUBLE"} /\ t < 0
    THEN [data |-> Real(0), status |-> "saturated"]
    ELSE [data |-> Real(t), status |-> "none"]

(* A text of that length in a text column.                                 *)
ToText(length) ==
    [data |-> Text(IF length > column.width THEN column.width ELSE length),
     status |-> IF length > column.width THEN "truncated" ELSE "none"]

(* The lengths that std::to_string() and str(18) give, and that a text of  *)
(* a number has: a sign, the digits, and a fraction.                       *)
Digits(n) == CHOOSE k \in 1 .. n + 1 : n < Exp(10, k) /\ (k = 1 \/ n >= Exp(10, k - 1))
Length(source, t) ==
    LET whole == IF t < 0 THEN 1 + Digits((-t) \div 10) ELSE Digits(t \div 10)
    IN  CASE source = "double" -> whole + 7
          [] source # "double" /\ t % 10 # 0 -> whole + 2
          [] OTHER -> whole

-----------------------------------------------------------------------------
Return(input, result) ==
    /\ given' = input
    /\ data' = result.data
    /\ status' = result.status
    /\ UNCHANGED column

Invalid == [data |-> Zero, status |-> "invalid"]

(* What all overloads for numbers have in common, with what they may do    *)
(* for an integer column.                                                  *)
NumberResults(source, t, results) ==
    CASE type \in Decimals -> {ToWidth(source, n) : n \in DecimalInts(source, t)}
      [] type \in Floats -> {ToFloat(source, t)}
      [] type \in TextTypes -> {ToText(Length(source, t))}
      [] type \in DateTypes -> {Invalid}
      [] OTHER -> results

ConvertNumber(source, t, results) ==
    /\ given = Nothing
    /\ \E result \in NumberResults(source, t, results) :
           Return([source |-> source, tenths |-> t], result)

(* convert() of a uint64_t and of an int64_t.                              *)
ConvertUnsigned(t) ==
    /\ t % 10 = 0 /\ Trunc(t) \in UInt64
    /\ ConvertNumber("uint64", t, {Converted("uint64", Trunc(t))})

ConvertSigned(t) ==
    /\ t % 10 = 0 /\ Trunc(t) \in Int64
    /\ ConvertNumber("int64", t, {Converted("int64", Trunc(t))})

(* convert() of a double: signed types are cast before they are compared,  *)
(* unsigned types compare the double.  2^63 is not above the INT64_MAX that*)
(* it is compared with, and out of the range of the cast.  The integers    *)
(* that it is given are the ones that are doubles.                         *)
DoubleResults(t) ==
    CASE type = "BIT" -> {Converted("double", n) : n \in CastUInt8(Trunc(t))}
      [] type = "BIGINT" /\ Away(t) > IntMax(Bits64) + 1
            -> {[data |-> Number(IntMax(Bits64)), status |-> "saturated"]}
      [] type \in Unsigned -> {Bounded("double", Away(t), Trunc(t))}
      [] OTHER -> {Converted("double", n) : n \in CastInt64(Trunc(t))}

ConvertDouble(t) ==
    /\ ConvertNumber("double", t, DoubleResults(t))
    /\ t % 10 = 0 => Rounded(Trunc(t)) = Trunc(t)

(* convert() of a ColumnStoreDecimal: getInt() rounds it to a double, and  *)
(* that to an integer.  llround() is undefined where the cast is.          *)
getInt(t) == CastInt64(Rounded(Round(t)))
ConvertDecimal(t) ==
    ConvertNumber("decimal", t, {Converted("decimal", n) : n \in getInt(t)})

(* convert() of the text of a number: strtoll() and strtoull() set errno   *)
(* out of their range, stop at a point, and strtoull() wraps a number      *)
(* below zero.                                                             *)
Parses(n) == n \in IF type \in Unsigned THEN -UIntMax(Bits64) .. UIntMax(Bits64) ELSE Int64
FromText(n) == Converted("string", IF type \in Unsigned THEN n % Exp(2, Bits64) ELSE n)

TextResult(t) == IF t % 10 = 0 /\ Parses(Trunc(t)) THEN FromText(Trunc(t)) ELSE Invalid
ConvertNumberText(t) == ConvertNumber("string", t, {TextResult(t)})

(* The same for a text with a leading zero, as the base 0 of strtoll() and *)
(* strtoull() takes it for an octal number.  strtod() does not.            *)
IsOctal(n) == \A i \in 0 .. Digits(n) - 1 : Digit(n, 10, i) < 8
Octal(n) == Value([i \in Nat |-> Digit(n, 10, i)], 8, Digits(n))

ZeroTextResult(n) == IF IsOctal(n) /\ Parses(Octal(n)) THEN FromText(Octal(n)) ELSE Invalid
ConvertZeroText(t) ==
    /\ type \in Integral /\ t >= 0 /\ t % 10 = 0
    /\ ConvertNumber("octal", t, {ZeroTextResult(Trunc(t))})

(* convert() of the text of a date, or of a time: setFromString().  Only   *)
(* here a date is validated by the conversion.  The minus of a time is also*)
(* its hour's, which it leaves above zero for no time but -0.  In a text   *)
(* column they are texts like any other (ConvertNumberText).               *)
DateTextResult(d) ==
    IF type \notin {"DATE", "DATETIME"} \/ ~validateDate(d) THEN Invalid
    ELSE [data |-> Word(IF type = "DATE" THEN getDateInt(d) ELSE getDateTimeInt(d)),
          status |-> "none"]

ConvertDateText(d) ==
    /\ given = Nothing
    /\ type \notin TextTypes
    /\ Return([source |-> "datetext", object |-> d, valid |-> validateDate(d)],
              DateTextResult(d))

TimeTextResult(t) ==
    IF type # "TIME" \/ ~validateTime(t) THEN Invalid
    ELSE [data |-> Word(getTimeInt(t)), status |-> "none"]

ConvertTimeText(t) ==
    /\ given = Nothing
    /\ type \notin TextTypes
    /\ IF t.is_neg THEN t.hour <= 0 ELSE t.hour >= 0
    /\ Return([source |-> "timetext", object |-> t, valid |-> validateTime(t)],
              TimeTextResult(t))

(* convert() of a ColumnStoreDateTime.                                     *)
DateTimeResult(d) ==
    IF type \in TextTypes THEN ToText(getDateTimeStr(d))
    ELSE IF type \notin DateTypes THEN Invalid
    ELSE [data |-> Word(CASE type = "DATE" -> getDateInt(d)
                          [] type = "DATETIME" -> getDateTimeInt(d)
                          [] type = "TIME" -> getTimeOfDayInt(d)),
          status |-> "none"]

ConvertDateTime(d) ==
    /\ given = Nothing
    /\ Return([source |-> "datetime", object |-> d, valid |-> validateDate(d)],
              DateTimeResult(d))

(* convert() of a ColumnStoreTime.                                         *)
TimeResult(t) ==
    IF type \in TextTypes THEN ToText(getTimeStr(t))
    ELSE IF type \notin {"TIME", "DATETIME"} THEN Invalid
    ELSE [data |-> Word(IF type = "TIME" THEN getTimeInt(t) ELSE getDayTimeInt(t)),
          status |-> "none"]

ConvertTime(t) ==
    /\ given = Nothing
    /\ Return([source |-> "time", object |-> t, valid |-> validateTime(t)], TimeResult(t))

NullData ==
    CASE type \in {"TINYINT", "SMALLINT", "MEDINT", "INT", "BIGINT"}
            \cup {"DECIMAL"} -> Number(IntMin(Size))
      [] type \in Unsigned \cup {"BIT", "UDECIMAL"} -> Number(UIntMax(Size) - 1)
      [] type \in Floats -> Real("NaN")
      [] type \in TextTypes -> Text(0)
      [] type \in DateTypes -> Word(1 .. Size - 1)

NullResult(nullable) ==
    IF nullable THEN [data |-> NullData, status |-> "none"] ELSE Invalid

GetNull(nullable, autoincrement) ==
    /\ given = Nothing
    /\ Return([source |-> "null", nullable |-> nullable \/ autoincrement],
              NullResult(nullable \/ autoincrement))

-----------------------------------------------------------------------------
Init ==
    /\ column \in Columns
    /\ given = Nothing
    /\ data = Nothing
    /\ status = "none"

Next ==
    \/ \E t \in Tenths : \/ ConvertUnsigned(t)
                         \/ ConvertSigned(t)
                         \/ ConvertDouble(t)
                         \/ ConvertDecimal(t)
                         \/ ConvertNumberText(t)
                         \/ ConvertZeroText(t)
    \/ \E d \in DateTimes : ConvertDateText(d) \/ ConvertDateTime(d)
    \/ \E t \in Times : ConvertTimeText(t) \/ ConvertTime(t)
    \/ \E nullable, autoincrement \in BOOLEAN : GetNull(nullable, autoincrement)

Spec == Init /\ [][Next]_vars

-----------------------------------------------------------------------------
(* The container is of the size of the column, but for an invalid DECIMAL. *)
TypeOK ==
    /\ column \in Columns
    /\ status \in Statuses
    /\ given = Nothing <=> data = Nothing
    /\ data # Nothing =>
          IF type \in TextTypes THEN data.length \in 0 .. column.width
          ELSE /\ data.bits = IF type \in Decimals /\ status = "invalid" THEN Bits64 ELSE Size
               /\ type \in DateTypes => data.set \subseteq 0 .. data.bits - 1
               /\ type \in Integral \cup Decimals => data.number \in 0 .. Exp(2, data.bits) - 1

FromNumber == given.source \in {"uint64", "int64", "double", "decimal", "string"}

(* The integer that a column can have of what was given: a double is cut,  *)
(* a Decimal is rounded, and a DECIMAL column has it scaled and cut.       *)
Whole ==
    CASE type \in Decimals -> Scaled(given.tenths)
      [] type \notin Decimals /\ given.source = "decimal" -> Round(given.tenths)
      [] OTHER -> Trunc(given.tenths)

(* What a double stands between: an integer and a DECIMAL column, a text   *)
(* and a DECIMAL column, a Decimal and an integer column.                  *)
ThroughDouble == type \in Decimals <=> given.source # "decimal"

(* The conversions that are defined and look at the sign: a Decimal or a   *)
(* double for a signed column is in the range of the cast, which is cut    *)
(* short where the number is rounded on the way there; and not text below  *)
(* zero for an unsigned column, a uint64_t for a signed DECIMAL, a number  *)
(* below zero for an unsigned one, nor a text below zero for either.       *)
Fits ==
    /\ ThroughDouble => Abs(Whole) <= Exp(2, Bits64 - 2)
    /\ given.source = "decimal" \/ (given.source = "double" /\ type \in Signed) => Whole \in Int64
    /\ type \in Unsigned /\ given.source = "string" => given.tenths >= 0
    /\ type = "UDECIMAL" => given.tenths >= 0
    /\ type = "DECIMAL" => given.source # "uint64"
    /\ type = "DECIMAL" /\ given.source = "string" => Whole >= 0

Distance(m, n) == IF m < n THEN n - m ELSE m - n

(* The number that is stored is the one that was given, as far as a double *)
(* tells: it may be one off, if it had a fraction that a double does not   *)
(* hold, and eight parts in 2^Mantissa, if it is an integer above that.    *)
AsGiven ==
    LET off == Distance(Stored, Whole)
    IN  \/ off = 0
        \/ /\ off = 1 /\ type \in Decimals
           /\ IF given.source = "decimal" THEN IsTiny(given.tenths) ELSE given.tenths % 5 # 0
        \/ /\ ThroughDouble
           /\ given.tenths % 10 = 0 => Abs(Whole) > Exp(2, Mantissa)
           /\ off * Exp(2, Mantissa - 3) <= Abs(Whole)

(* A number that is stored in a column without a word reads back as the    *)
(* number that was given, as far as the column can have it, whatever the   *)
(* overload and the column, and as near as a double comes where one stands *)
(* between them: no cast loses anything else in silence.  (BIT is left out:*)
(* only a Decimal below zero is seen to be out of its range.)              *)
SilentMeansExact ==
    FromNumber /\ status = "none" =>
        CASE type \in (Integral \ {"BIT"}) \cup Decimals -> Fits => AsGiven
          [] type \in TextTypes -> data.length = Length(given.source, given.tenths)
          [] OTHER -> TRUE

(* The conversions that keep to the values of the column: not the ones     *)
(* into MEDINT, UMEDINT and USMALLINT, whose bounds are mistaken, a signed *)
(* UTINYINT, a Decimal UINT, a double UBIGINT, a signed UDECIMAL, nor those*)
(* that do not fit.                                                        *)
Clean ==
    /\ FromNumber
    /\ type \in Integral \cup Decimals
    /\ type \notin {"BIT", "MEDINT", "UMEDINT", "USMALLINT"}
    /\ ~(type = "UTINYINT" /\ given.source = "int64")
    /\ ~(type = "UINT" /\ given.source = "decimal")
    /\ ~(type = "UBIGINT" /\ given.source = "double")
    /\ type = "UDECIMAL" => given.source \notin {"int64", "string"}
    /\ type \in Decimals /\ given.source = "decimal" => ~IsTiny(given.tenths)
    /\ Fits

(* A DECIMAL keeps no values free: its precision does.                     *)
Usable ==
    CASE type = "DECIMAL" -> IntMin(Size) .. IntMax(Size)
      [] type = "UDECIMAL" -> 0 .. UIntMax(Size)
      [] type \in Signed -> IntMin(Size) + 2 .. IntMax(Size)
      [] OTHER -> 0 .. UIntMax(Size) - 2

(* What a saturated conversion stores is the value of the column, other    *)
(* than NULL and EMPTY, that is nearest to the number that was given; and  *)
(* it is reported as saturated when the column cannot have the number, and *)
(* not when it can.                                                        *)
SaturatesToNearest ==
    Clean /\ status # "invalid" =>
        LET number == given.tenths * Exp(10, column.scale)
        IN  /\ Stored \in Usable
            /\ Whole \notin Usable => status = "saturated"
            /\ status = "saturated" =>
                  \A n \in {Stored - 1, Stored, Stored + 1} \cap Usable :
                      /\ Distance(10 * Stored, number) <= Distance(10 * n, number)
                      /\ number # 10 * n

(* No number reads back as NULL, or as the EMPTY row that the WriteEngine  *)
(* drops: two values of each integer type are reserved.  (USMALLINT, a     *)
(* signed UTINYINT, a Decimal UINT and BIT do not keep them free.)         *)
NumbersAreNotReserved ==
    /\ FromNumber
    /\ type \in Integral \ {"USMALLINT", "BIT"}
    /\ ~(type = "UTINYINT" /\ given.source = "int64")
    /\ ~(type = "UINT" /\ given.source = "decimal")
    => data # NullData /\ data # Number(IF type \in Signed
                                        THEN IntMin(Size) + 1
                                        ELSE UIntMax(Size))

(* validateDate() takes a date for valid exactly when it is 0000-00-00 or  *)
(* a day of the Gregorian calendar, at a time of the day: the leap years   *)
(* and the lengths of the months agree with counting the days.             *)
ValidIsCalendarDay ==
    given.source \in {"datetime", "datetext"} =>
        LET d == given.object
        IN  given.valid <=>
                /\ d.hour \in 0 .. 23 /\ d.minute \in 0 .. 59 /\ d.second \in 0 .. 59
                /\ IsCalendarDay(d) \/ {d.year, d.month, d.day} = {0}

ReadDate ==
    [year |-> Field(data.set, 16, 16), month |-> Field(data.set, 12, 4),
     day |-> Field(data.set, 6, 6), rest |-> Field(data.set, 0, 6)]

ReadDateTime ==
    [year |-> Field(data.set, 48, 16), month |-> Field(data.set, 44, 4),
     day |-> Field(data.set, 38, 6), hour |-> Field(data.set, 32, 6),
     minute |-> Field(data.set, 26, 6), second |-> Field(data.set, 20, 6),
     microsecond |-> Field(data.set, 0, 20)]

ReadTime ==
    LET hour == Field(data.set, 40, 12)
    IN  [hour |-> IF hour < 2^11 THEN hour ELSE hour - 2^12,
         minute |-> Field(data.set, 32, 8), second |-> Field(data.set, 24, 8),
         microsecond |-> Field(data.set, 0, 24), is_neg |-> 63 \in data.set]

(* A valid date or time that is stored reads back from the fields of the   *)
(* integer as it was: no field runs into its neighbour, nor does the sign  *)
(* of an hour.  (A microsecond has to be one.  A time that is no time of   *)
(* the day is cut to one by a DATETIME column.)                            *)
DatesReadBack ==
    /\ given.source \in {"datetime", "datetext", "time", "timetext"}
    /\ given.valid /\ given.object.microsecond <= 999999
    /\ type \in DateTypes
    /\ status = "none"
    => LET o == given.object
           isDate == given.source \in {"datetime", "datetext"}
       IN  CASE type = "DATE" ->
                    ReadDate = [year |-> o.year, month |-> o.month, day |-> o.day, rest |-> 62]
             [] type = "DATETIME" /\ isDate -> ReadDateTime = o
             [] type = "DATETIME" /\ ~isDate ->
                    o.hour \in 0 .. 23 =>
                        ReadDateTime = [year |-> 0, month |-> 0, day |-> 0, hour |-> o.hour,
                                        minute |-> o.minute, second |-> o.second,
                                        microsecond |-> o.microsecond]
             [] type = "TIME" ->
                    ReadTime = [hour |-> o.hour, minute |-> o.minute, second |-> o.second,
                                microsecond |-> o.microsecond,
                                is_neg |-> ~isDate /\ (o.is_neg \/ o.hour < 0)]

=============================================================================
