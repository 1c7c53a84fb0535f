------------------------------ MODULE Calendar ------------------------------
(***************************************************************************)
(* days_from_civil() in src/data_handler.cpp, and the calendar it is to    *)
(* count the days of.                                                      *)
(***************************************************************************)
EXTENDS Integers, FiniteSetsExt

\* Integer division as in C++.
Quotient(a, b) == IF a >= 0 THEN a \div b ELSE -((-a) \div b)

\* The year begins in March.  Faulty variant: only for January.
YearFromMarchLate(y, m) == IF m < 2 THEN y - 1 ELSE y
YearFromMarch(y, m) == IF m <= 2 THEN y - 1 ELSE y

Era(yr) == Quotient(IF yr >= 0 THEN yr ELSE yr - 399, 400)

DaysFromCivil(y, m, d) ==
    LET yr == YearFromMarch(y, m)
        era == Era(yr)
        yoe == yr - era * 400
        doy == (153 * (IF m > 2 THEN m - 3 ELSE m + 9) + 2) \div 5 + d - 1
        doe == yoe * 365 + yoe \div 4 - yoe \div 100 + doy
    IN  era * 146097 + doe - 719468

-----------------------------------------------------------------------------
(* The calendar *)

IsLeap(y) == y % 4 = 0 /\ (y % 100 # 0 \/ y % 400 = 0)

MonthLength(y, m) ==
    IF m = 2 THEN IF IsLeap(y) THEN 29 ELSE 28
    ELSE IF m \in {4, 6, 9, 11} THEN 30 ELSE 31

IsDate(y, m, d) == m \in 1 .. 12 /\ d \in 1 .. MonthLength(y, m)

Tomorrow(y, m, d) ==
    IF d < MonthLength(y, m) THEN <<y, m, d + 1>>
    ELSE IF m < 12 THEN <<y, m + 1, 1>>
    ELSE <<y + 1, 1, 1>>

LengthOfYear == [k \in Int |-> IF IsLeap(k) THEN 366 ELSE 365]

\* The days from 1970-01-01 to a date, or to there from an earlier one, counted.
DaysCounted(y, m, d) ==
    LET LengthOfMonth == [k \in 1 .. 12 |-> MonthLength(y, k)]
    IN  SumFunctionOnSet(LengthOfYear, 1970 .. y - 1)
          - SumFunctionOnSet(LengthOfYear, y .. 1969)
          + SumFunctionOnSet(LengthOfMonth, 1 .. m - 1) + d - 1

=============================================================================
