------------------------------ MODULE DateTime ------------------------------
(***************************************************************************)
(* ColumnStoreDateTime and ColumnStoreTime: their fields, what makes them  *)
(* valid, and the integers they are stored as.                             *)
(*                                                                         *)
(* An integer that is put together by shifts and ors is the set of its     *)
(* bits: an "or" is a union, also where the fields overlap.                *)
(***************************************************************************)
EXTENDS Integers, Numerals

(* What an int becomes in a uint8_t, a uint16_t and an int16_t.            *)
UInt8(n) == n % 2^8
UInt16(n) == n % 2^16
Int16(n) == ((n + 2^15) % 2^16) - 2^15

(* The objects: members of those types.                                    *)
DateTimeFields ==
    [year : 0 .. 2^16 - 1, month : 0 .. 2^8 - 1, day : 0 .. 2^8 - 1,
     hour : 0 .. 2^8 - 1, minute : 0 .. 2^8 - 1, second : 0 .. 2^8 - 1, microsecond : Nat]
TimeFields ==
    [hour : -2^15 .. 2^15 - 1, minute : 0 .. 2^8 - 1, second : 0 .. 2^8 - 1,
     microsecond : Nat, is_neg : BOOLEAN]

(* The low bits of n, shifted by at; n may be negative.                    *)
Put(n, at, bits) == {at + i : i \in {j \in 0 .. bits - 1 : Digit(n, 2, j) = 1}}

(* The field of bits bits that starts at bit at.                           *)
Field(word, at, bits) ==
    Value([i \in Nat |-> IF at + i \in word THEN 1 ELSE 0], 2, bits)

-----------------------------------------------------------------------------
(* ColumnStoreDateTimeImpl, with clock = <<hour, minute, second,           *)
(* microsecond>>: the constructor narrows first and validates then.        *)
NewDateTime(year, month, day, clock) ==
    [year |-> UInt16(year), month |-> UInt8(month), day |-> UInt8(day),
     hour |-> UInt8(clock[1]), minute |-> UInt8(clock[2]),
     second |-> UInt8(clock[3]), microsecond |-> clock[4]]

(* ColumnStoreDateTime::set(tm): the fields of struct tm, of which year    *)
(* counts from 1900 and month from 0.  1900 itself stays 0, and years from *)
(* 2900 on are taken for years that do not count from 1900.  The object    *)
(* keeps the fields when they turn out to be invalid.                      *)
SetTm(year, month, day, clock) ==
    LET given == UInt16(year)
        full == IF given < 1000 /\ given # 0 THEN given + 1900 ELSE given
    IN  [NewDateTime(full, month + 1, day, clock) EXCEPT !.microsecond = 0]

(* mistake: every fourth year is a leap year                               *)
IsLeapJulian(year) == year % 4 = 0

IsLeap(year) == year % 4 = 0 /\ (year % 100 = 0 => year % 400 = 0)

LastDay(year, month) ==
    CASE month \in {1, 3, 5, 7, 8, 10, 12} -> 31
      [] month = 2 -> IF IsLeap(year) THEN 29 ELSE 28
      [] OTHER -> 30

validateDate(d) ==
    /\ d.year <= 9999
    /\ \/ d.year = 0 /\ d.month = 0 /\ d.day = 0
       \/ d.month \in 1 .. 12 /\ d.day \in 1 .. LastDay(d.year, d.month)
    /\ d.hour <= 23 /\ d.minute <= 59 /\ d.second <= 59

getDateInt(d) ==
    Put(d.year, 16, 16) \cup Put(d.month, 12, 8) \cup Put(d.day, 6, 8)
        \cup Put(62, 0, 6)

(* mistake: the day is shifted into the month                              *)
getDateTimeIntOverlapped(d) ==
    Put(d.year, 48, 16) \cup Put(d.month, 44, 8) \cup Put(d.day, 40, 8)
        \cup Put(d.hour, 32, 8) \cup Put(d.minute, 26, 8)
        \cup Put(d.second, 20, 8) \cup Put(d.microsecond, 0, 20)

getDateTimeInt(d) ==
    Put(d.year, 48, 16) \cup Put(d.month, 44, 8) \cup Put(d.day, 38, 8)
        \cup Put(d.hour, 32, 8) \cup Put(d.minute, 26, 8)
        \cup Put(d.second, 20, 8) \cup Put(d.microsecond, 0, 20)

(* A date and time in a column of type TIME: the time of the day.          *)
getTimeOfDayInt(d) ==
    52 .. 62 \cup Put(d.hour, 40, 8) \cup Put(d.minute, 32, 8)
        \cup Put(d.second, 24, 8) \cup Put(d.microsecond, 0, 24)

(* The length of the text: every field has its least width at least, and   *)
(* the buffer has room for no more.                                        *)
getDateTimeStr(d) == 19

-----------------------------------------------------------------------------
(* ColumnStoreTimeImpl.  An hour below zero makes the constructor set      *)
(* is_neg; set(tm) does not.                                               *)
NewTime(hour, clock, negative) ==
    [hour |-> Int16(hour), minute |-> UInt8(clock[2]), second |-> UInt8(clock[3]),
     microsecond |-> clock[4], is_neg |-> negative \/ hour < 0]

SetTimeTm(hour, clock) ==
    [NewTime(hour, clock, FALSE) EXCEPT !.is_neg = FALSE, !.microsecond = 0]

validateTime(t) == t.hour \in -838 .. 838 /\ t.minute <= 59 /\ t.second <= 59

(* The sign of an hour below zero fills the word from bit 40 on.           *)
getTimeInt(t) ==
    (IF t.is_neg THEN {63} ELSE {}) \cup 52 .. 62 \cup Put(t.hour, 40, 24)
        \cup Put(t.minute, 32, 8) \cup Put(t.second, 24, 8)
        \cup Put(t.microsecond, 0, 24)

(* A time in a column of type DATETIME: on the date 0, within a day, and   *)
(* without its sign.                                                       *)
getDayTimeInt(t) ==
    LET hour_out == IF t.hour < 0 THEN 0 ELSE IF t.hour > 23 THEN 23 ELSE t.hour
    IN  Put(hour_out, 32, 8) \cup Put(t.minute, 26, 8)
            \cup Put(t.second, 20, 8) \cup Put(t.microsecond, 0, 20)

(* The length of the text: a minus in front of an hour that has none, two  *)
(* digits or more for each field, and 18 in all behind that minus.         *)
TwoOrMore(n) == IF n < 100 THEN 2 ELSE IF n < 1000 THEN 3 ELSE IF n < 10000 THEN 4 ELSE 5
getTimeStr(t) ==
    LET minus == IF t.is_neg /\ t.hour >= 0 THEN 1 ELSE 0
        hour == IF t.hour < 0 THEN 1 + TwoOrMore(-t.hour) ELSE TwoOrMore(t.hour)
    IN  minus + hour + TwoOrMore(t.minute) + TwoOrMore(t.second) + 2

-----------------------------------------------------------------------------
(* The Gregorian calendar by counting: the days before the March of a year *)
(* and before a month of a year that begins in March.                      *)
DaysBefore(year) == 365 * year + year \div 4 - year \div 100 + year \div 400
DaysBeforeMonth(m) == (153 * m + 2) \div 5

MonthLength(year, month) ==
    LET m == (month + 9) % 12
    IN  IF month = 2
        THEN DaysBefore(year) - DaysBefore(year - 1) - DaysBeforeMonth(11)
        ELSE DaysBeforeMonth(m + 1) - DaysBeforeMonth(m)

IsCalendarDay(d) ==
    /\ d.year \in 0 .. 9999
    /\ d.month \in 1 .. 12
    /\ d.day \in 1 .. MonthLength(d.year, d.month)

=============================================================================
