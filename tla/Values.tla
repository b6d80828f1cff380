------------------------------- MODULE Values -------------------------------
(***************************************************************************)
(* The value types whose arithmetic can go wrong: civil time               *)
(* (command/params.rs) and coordinates (scopinator-types).                 *)
(***************************************************************************)
EXTENDS Integers

CONSTANT NaN    \* the f64 that is not a number

-----------------------------------------------------------------------------
(* SetTimeParams::from_unix_utc                                            *)

FloorDiv(a, b) == a \div b       \* Mutant: rounds down

\* Rust's division rounds toward zero.
TruncDiv(a, b) == IF a >= 0 THEN a \div b ELSE -((-a) \div b)

CivilFromDays(days) ==
    LET z == days + 719468
        era == TruncDiv(IF z >= 0 THEN z ELSE z - 146096, 146097)
        doe == z - era * 146097
        yoe == (doe - doe \div 1460 + doe \div 36524 - doe \div 146096) \div 365
        doy == doe - (365 * yoe + yoe \div 4 - yoe \div 100)
        mp == (5 * doy + 2) \div 153
        mon == IF mp < 10 THEN mp + 3 ELSE mp - 9 IN
    [year |-> yoe + era * 400 + (IF mon <= 2 THEN 1 ELSE 0),
     mon |-> mon,
     day |-> doy - (153 * mp + 2) \div 5 + 1]

\* The calendar, as the reference for it.
IsLeap(y) == y % 4 = 0 /\ (y % 100 # 0 \/ y % 400 = 0)
MonthLength(y, m) == IF m = 2 THEN IF IsLeap(y) THEN 29 ELSE 28 ELSE IF m \in {4, 6, 9, 11} THEN 30 ELSE 31

Tomorrow(date) ==
    IF date.day < MonthLength(date.year, date.mon) THEN [date EXCEPT !.day = @ + 1]
    ELSE IF date.mon < 12 THEN [year |-> date.year, mon |-> date.mon + 1, day |-> 1]
    ELSE [year |-> date.year + 1, mon |-> 1, day |-> 1]

\* Seconds since 1970, as days and the second of the day.
FromUnixUtc(secs) ==
    LET sod == secs % 86400 IN
    [date |-> CivilFromDays(secs \div 86400),
     hour |-> sod \div 3600, min |-> (sod % 3600) \div 60, sec |-> sod % 60]

-----------------------------------------------------------------------------
(* coordinates.rs, in hundredths of a second of time and of arc; a result   *)
(* is <<>> for an error, or <<value>>.                                     *)

Hour == 360000
Turn == 24 * Hour
ArcDegree == 360000

RaDegreesFullTurn(ra) ==         \* Mutant: 24 hours are not 0
    IF ra = NaN THEN <<NaN>>
    ELSE IF ra \in 0..Turn THEN <<ra>> ELSE <<>>

\* RaDegrees::new.  Every comparison with NaN is false, so NaN passes the check.
RaDegrees(ra) ==
    IF ra = NaN THEN <<NaN>>
    ELSE IF ra \in 0..(Turn - 1) THEN <<ra>>
    ELSE IF ra = Turn THEN <<0>> ELSE <<>>

\* from_hours has its own range check, and then multiplies into degrees: one
\* degree is a fifteenth of an hour, so the value is the same in this unit.
RaFromHours(ra) == IF ra = NaN \/ ra \in 0..Turn THEN RaDegrees(ra) ELSE <<>>

DecDegrees(dec) == IF dec # NaN /\ dec \in -90 * ArcDegree .. 90 * ArcDegree THEN <<dec>> ELSE <<>>

\* Display: floor twice, then round to tenths.  Floating point can leave a value
\* that is a whole number of minutes just below it, and a half either way.
Sexagesimal(value) ==
    LET At(v, hundredths) == {[unit |-> v \div Hour, minute |-> (v % Hour) \div 6000, tenths |-> t] :
                                  t \in {(hundredths + 4) \div 10, (hundredths + 5) \div 10}} IN
    At(value, value % 6000) \cup (IF value % 6000 = 0 /\ value > 0 THEN At(value - 1, 6000) ELSE {})
=============================================================================
