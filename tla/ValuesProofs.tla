---------------------------- MODULE ValuesProofs ----------------------------
(***************************************************************************)
(* Values for every day, second and angle: what CivilFromDays computes is  *)
(* the calendar, and the coordinates stay on the sky.                      *)
(***************************************************************************)
EXTENDS Values, TLAPS

-----------------------------------------------------------------------------
(* Years of an era                                                         *)

\* The years of an era of 400 begin on the first of March; year y begins on day
\* Start(y) of it, and YearOf is the year that CivilFromDays finds for a day.
Start(y) == 365 * y + y \div 4 - y \div 100 + y \div 400
YearOf(doe) == (doe - doe \div 1460 + doe \div 36524 - doe \div 146096) \div 365

\* Rust's division of a negative number, corrected by the code, rounds down.
LEMMA Era ==
    ASSUME NEW z \in Int
    PROVE  TruncDiv(IF z >= 0 THEN z ELSE z - 146096, 146097) = z \div 146097
<1>1. CASE z >= 0
  BY <1>1 DEF TruncDiv
<1>2. CASE z < 0
  BY <1>2 DEF TruncDiv
<1>3. QED
  BY <1>1, <1>2

LEMMA YearFound ==
    ASSUME NEW doe \in Int, 0 <= doe, doe <= 146096
    PROVE  /\ YearOf(doe) \in Nat /\ YearOf(doe) <= 399
           /\ Start(YearOf(doe)) <= doe
           /\ doe < Start(YearOf(doe) + 1)
\* Day r of year p of four years, the q-th of a century, the c-th of the era.
<1> DEFINE c == IF doe \div 36524 = 4 THEN 3 ELSE doe \div 36524
           m == doe - 36524 * c
           q == m \div 1461
           n == m - 1461 * q
           p == IF n \div 365 = 4 THEN 3 ELSE n \div 365
           r == n - 365 * p
<1>1. /\ c \in Nat /\ q \in Nat /\ p \in Nat /\ r \in Nat
      /\ c <= 3 /\ q <= 24 /\ p <= 3 /\ r <= 365
      /\ doe = 36524 * c + 1461 * q + 365 * p + r
      /\ r = 365 => p = 3
      /\ r = 365 /\ q = 24 => c = 3
  <2>1. c \in Nat /\ c <= 3 /\ m \in Nat /\ m <= 36524 /\ (m = 36524 => c = 3)
    OBVIOUS
  <2>2. doe = 36524 * c + m
    BY <2>1
  <2> HIDE DEF c, m
  <2>3. q \in Nat /\ q <= 24 /\ n \in Nat /\ n <= 1460 /\ m = 1461 * q + n
    BY <2>1
  <2>4. n = 1460 /\ q = 24 => m = 36524
    BY <2>3
  <2> HIDE DEF q, n
  <2>5. p \in Nat /\ p <= 3 /\ r \in Nat /\ r <= 365 /\ n = 365 * p + r /\ (r = 365 => p = 3 /\ n = 1460)
    BY <2>3
  <2> HIDE DEF p, r
  <2>6. QED
    BY <2>1, <2>2, <2>3, <2>4, <2>5
<1> HIDE DEF c, m, q, n, p, r
<1> DEFINE delta == IF 24 * c + q + 365 * p + r >= 1460 THEN 1 ELSE 0
           y == 100 * c + 4 * q + p
<1>2. doe \div 1460 = 25 * c + q + delta
  <2>1. doe = 1460 * (25 * c + q) + (24 * c + q + 365 * p + r)
    BY <1>1
  <2>2. 24 * c + q + 365 * p + r \in Nat /\ 24 * c + q + 365 * p + r < 2920
    BY <1>1
  <2>3. QED
    BY <1>1, <2>1, <2>2
<1>3. doe \div 36524 - doe \div 146096 = c
  <2>1. 1461 * q + 365 * p + r <= 36524 /\ (1461 * q + 365 * p + r = 36524 => c = 3)
    BY <1>1
  <2>2. CASE 1461 * q + 365 * p + r = 36524
    BY <1>1, <2>1, <2>2
  <2>3. CASE 1461 * q + 365 * p + r # 36524
    BY <1>1, <2>1, <2>3
  <2>4. QED
    BY <2>2, <2>3
<1>4. r - delta \in Nat /\ r - delta <= 364
  BY <1>1
<1>5. YearOf(doe) = y
  <2>1. doe - doe \div 1460 + doe \div 36524 - doe \div 146096 = 365 * y + (r - delta)
    BY <1>1, <1>2, <1>3
  <2>2. y \in Nat /\ y <= 399
    BY <1>1
  <2> HIDE DEF y, delta
  <2>3. QED
    BY <1>4, <2>1, <2>2 DEF YearOf
<1>6. Start(y) = 36524 * c + 1461 * q + 365 * p
  <2>1. y \div 4 = 25 * c + q /\ y \div 100 = c /\ y \div 400 = 0
    BY <1>1
  <2>2. QED
    BY <1>1, <2>1 DEF Start
<1>7. Start(y + 1) > doe
  <2>1. (y + 1) \div 4 = IF p = 3 THEN 25 * c + q + 1 ELSE 25 * c + q
    BY <1>1
  <2>2. (y + 1) \div 100 = IF p = 3 /\ q = 24 THEN c + 1 ELSE c
    BY <1>1
  <2>3. (y + 1) \div 400 = IF p = 3 /\ q = 24 /\ c = 3 THEN 1 ELSE 0
    BY <1>1
  <2>4. QED
    BY <1>1, <2>1, <2>2, <2>3 DEF Start
<1>8. QED
  BY <1>1, <1>5, <1>6, <1>7

LEMMA StartGrows ==
    ASSUME NEW x \in Nat, NEW y \in Nat, x < y, y <= 399
    PROVE  Start(x + 1) <= Start(y)
BY DEF Start

\* The year found for a day is the only one that can be.
LEMMA YearUnique ==
    ASSUME NEW doe \in Int, 0 <= doe, doe <= 146096, NEW y \in Nat, y <= 399, Start(y) <= doe, doe < Start(y + 1)
    PROVE  YearOf(doe) = y
<1>1. /\ YearOf(doe) \in Nat /\ YearOf(doe) <= 399
      /\ Start(YearOf(doe)) <= doe
      /\ doe < Start(YearOf(doe) + 1)
  BY YearFound
<1>2. \A x \in Nat : Start(x) \in Int
  BY DEF Start
<1>3. YearOf(doe) < y => FALSE
  <2>1. YearOf(doe) < y => Start(YearOf(doe) + 1) <= Start(y)
    BY <1>1, StartGrows
  <2>2. QED
    BY <1>1, <1>2, <2>1
<1>4. y < YearOf(doe) => FALSE
  <2>1. y < YearOf(doe) => Start(y + 1) <= Start(YearOf(doe))
    BY <1>1, StartGrows
  <2>2. QED
    BY <1>1, <1>2, <2>1
<1>5. QED
  BY <1>1, <1>3, <1>4

-----------------------------------------------------------------------------
(* Months of a year                                                        *)

\* Years of CivilFromDays begin in March: day doy of year y, in month mp of it.
MonthOf(doy) == (5 * doy + 2) \div 153
First(mp) == (153 * mp + 2) \div 5
DateOf(y, doy) ==
    LET mp == MonthOf(doy)
        mon == IF mp < 10 THEN mp + 3 ELSE mp - 9 IN
    [year |-> y + (IF mon <= 2 THEN 1 ELSE 0), mon |-> mon, day |-> doy - First(mp) + 1]

LEMMA MonthFound ==
    ASSUME NEW doy \in Nat, doy <= 365
    PROVE  /\ MonthOf(doy) \in 0..11
           /\ First(MonthOf(doy)) <= doy /\ doy < First(MonthOf(doy) + 1)
BY DEF MonthOf, First

LEMMA Firsts ==
    /\ First(0) = 0 /\ First(1) = 31 /\ First(2) = 61 /\ First(3) = 92 /\ First(4) = 122 /\ First(5) = 153
    /\ First(6) = 184 /\ First(7) = 214 /\ First(8) = 245 /\ First(9) = 275 /\ First(10) = 306
    /\ First(11) = 337 /\ First(12) = 367
BY DEF First

\* The month after month mp begins when the calendar's month mp ends, except February.
LEMMA Lengths ==
    ASSUME NEW y \in Int, NEW mp \in 0..11
    PROVE  LET mon == IF mp < 10 THEN mp + 3 ELSE mp - 9 IN
           /\ mon \in 1..12
           /\ mp < 11 => First(mp + 1) - First(mp) = MonthLength(y, mon)
           /\ mp = 11 => MonthLength(y, mon) = IF IsLeap(y) THEN 29 ELSE 28
BY Firsts DEF MonthLength

\* Within a year of March to February the next day is the calendar's.
LEMMA NextDay ==
    ASSUME NEW y \in Int, NEW doy \in Nat, doy < 364 \/ (doy = 364 /\ IsLeap(y + 1))
    PROVE  DateOf(y, doy + 1) = Tomorrow(DateOf(y, doy))
<1> DEFINE mp == MonthOf(doy)
           mon == IF mp < 10 THEN mp + 3 ELSE mp - 9
           year == y + (IF mon <= 2 THEN 1 ELSE 0)
<1>1. /\ mp \in 0..11 /\ First(mp) <= doy /\ doy < First(mp + 1)
      /\ First(mp) \in Int /\ First(mp + 1) \in Int
  BY MonthFound DEF First
<1>2. MonthOf(doy + 1) = IF doy + 1 < First(mp + 1) THEN mp ELSE mp + 1
  BY <1>1 DEF MonthOf, First
<1>3. mp = 11 => /\ MonthLength(year, mon) = IF IsLeap(y + 1) THEN 29 ELSE 28
                 /\ First(mp) = 337 /\ First(mp + 1) = 367
  BY <1>1, Lengths, Firsts
<1>4. mp < 11 => First(mp + 1) - First(mp) = MonthLength(year, mon)
  BY <1>1, Lengths
<1>5. DateOf(y, doy) = [year |-> year, mon |-> mon, day |-> doy - First(mp) + 1]
  BY DEF DateOf
<1>6. CASE doy + 1 < First(mp + 1)
  <2>1. MonthOf(doy + 1) = mp
    BY <1>2, <1>6
  <2> HIDE DEF mp
  <2>2. DateOf(y, doy + 1) = [year |-> year, mon |-> mon, day |-> doy + 1 - First(mp) + 1]
    BY <1>1, <2>1 DEF DateOf
  <2>3. doy - First(mp) + 1 < MonthLength(year, mon)
    BY <1>1, <1>3, <1>4, <1>6
  <2> HIDE DEF mon, year
  <2>4. QED
    BY <1>1, <1>5, <2>2, <2>3 DEF Tomorrow
<1>7. CASE doy + 1 = First(mp + 1)
  <2>1. mp < 11 /\ doy - First(mp) + 1 = MonthLength(year, mon)
    BY <1>1, <1>3, <1>4, <1>7
  <2>2. MonthOf(doy + 1) = mp + 1
    BY <1>2, <1>7, <1>1
  <2>3. DateOf(y, doy + 1) =
           [year |-> y + (IF (IF mp + 1 < 10 THEN mp + 1 + 3 ELSE mp + 1 - 9) <= 2 THEN 1 ELSE 0),
            mon |-> IF mp + 1 < 10 THEN mp + 1 + 3 ELSE mp + 1 - 9, day |-> 1]
    BY <1>1, <1>7, <2>2 DEF DateOf
  <2>4. Tomorrow(DateOf(y, doy)) =
           IF mon < 12 THEN [year |-> year, mon |-> mon + 1, day |-> 1]
           ELSE [year |-> year + 1, mon |-> 1, day |-> 1]
    <3> HIDE DEF mp, mon, year
    <3>1. DateOf(y, doy).day = MonthLength(year, mon) /\ MonthLength(year, mon) \in Int
      BY <1>1, <1>5, <2>1 DEF MonthLength
    <3>2. QED
      BY <1>5, <3>1 DEF Tomorrow
  <2> HIDE DEF mp
  <2>5. QED
    BY <1>1, <2>1, <2>3, <2>4
<1>8. QED
  BY <1>1, <1>6, <1>7

\* And the last day of February is followed by the first of March.
LEMMA NextYear ==
    ASSUME NEW y \in Int, NEW doy \in Nat, doy = IF IsLeap(y + 1) THEN 365 ELSE 364
    PROVE  DateOf(y + 1, 0) = Tomorrow(DateOf(y, doy))
<1>1. MonthOf(doy) = 11 /\ MonthOf(0) = 0 /\ First(11) = 337 /\ First(0) = 0
  BY DEF MonthOf, First
<1>2. DateOf(y + 1, 0) = [year |-> y + 1, mon |-> 3, day |-> 1]
  BY <1>1 DEF DateOf
<1>3. DateOf(y, doy) = [year |-> y + 1, mon |-> 2, day |-> doy - 337 + 1]
  BY <1>1 DEF DateOf
<1>4. MonthLength(y + 1, 2) = doy - 337 + 1
  BY DEF MonthLength
<1>5. QED
  BY <1>2, <1>3, <1>4 DEF Tomorrow

-----------------------------------------------------------------------------
(* Days                                                                    *)

\* The date of day doe of an era.
DateIn(era, doe) == DateOf(YearOf(doe) + era * 400, doe - Start(YearOf(doe)))

LEMMA CivilDate ==
    ASSUME NEW days \in Int
    PROVE  LET z == days + 719468
               doe == z % 146097 IN
           /\ 0 <= doe /\ doe <= 146096 /\ doe \in Int
           /\ CivilFromDays(days) = DateIn(z \div 146097, doe)
<1> DEFINE z == days + 719468
           era == z \div 146097
           doe == z % 146097
           yoe == YearOf(doe)
<1>1. z \in Int /\ era \in Int /\ 0 <= doe /\ doe <= 146096 /\ doe \in Int /\ z - era * 146097 = doe
  OBVIOUS
<1>2. TruncDiv(IF z >= 0 THEN z ELSE z - 146096, 146097) = era
  BY Era
<1>3. yoe \in Nat /\ yoe <= 399
  BY <1>1, YearFound
<1> HIDE DEF yoe
<1>4. doe - (365 * yoe + yoe \div 4 - yoe \div 100) = doe - Start(yoe)
  BY <1>1, <1>3 DEF Start
<1> DEFINE Dated(e, d) ==
             LET y == YearOf(d)
                 doy == d - (365 * y + y \div 4 - y \div 100)
                 mp == (5 * doy + 2) \div 153
                 mon == IF mp < 10 THEN mp + 3 ELSE mp - 9 IN
             [year |-> y + e * 400 + (IF mon <= 2 THEN 1 ELSE 0),
              mon |-> mon,
              day |-> doy - (153 * mp + 2) \div 5 + 1]
<1>5. CivilFromDays(days) = LET e == TruncDiv(IF z >= 0 THEN z ELSE z - 146096, 146097) IN Dated(e, z - e * 146097)
  BY SMT DEF CivilFromDays, YearOf
<1>6. CivilFromDays(days) = Dated(era, doe)
  <2> HIDE DEF Dated, era, doe, z
  <2>1. QED
    BY <1>1, <1>2, <1>5
<1>7. Dated(era, doe) = DateOf(yoe + era * 400, doe - (365 * yoe + yoe \div 4 - yoe \div 100))
  <2> HIDE DEF era, doe
  <2>1. QED
    BY DEF DateOf, MonthOf, First, yoe
<1>8. QED
  BY <1>1, <1>4, <1>6, <1>7 DEF DateIn, yoe

\* How long the years of CivilFromDays are: the February in them is the next year's.
LEMMA YearLength ==
    ASSUME NEW y \in Nat, y <= 399, NEW year \in Int, (year - (y + 1)) % 400 = 0
    PROVE  Start(y + 1) - Start(y) = IF IsLeap(year) THEN 366 ELSE 365
<1>1. IsLeap(year) <=> IsLeap(y + 1)
  <2>1. /\ year % 4 = (y + 1) % 4
        /\ year % 100 = (y + 1) % 100
        /\ year % 400 = (y + 1) % 400
    OBVIOUS
  <2>2. QED
    BY <2>1 DEF IsLeap
<1>2. Start(y + 1) - Start(y) = IF IsLeap(y + 1) THEN 366 ELSE 365
  BY DEF Start, IsLeap
<1>3. QED
  BY <1>1, <1>2

LEMMA Bounds ==
    /\ Start(0) = 0 /\ Start(400) = 146097
    /\ \A y \in Nat : y <= 399 => Start(y) \in Nat /\ Start(y + 1) \in Nat /\ Start(y) < Start(y + 1)
    /\ \A y \in Nat : y <= 398 => Start(y + 1) <= 145731
BY DEF Start

\* The date of a day's successor is the calendar's next date.
THEOREM NextDate ==
    ASSUME NEW days \in Int
    PROVE  CivilFromDays(days + 1) = Tomorrow(CivilFromDays(days))
<1> DEFINE z == days + 719468
           era == z \div 146097
           doe == z % 146097
           y == YearOf(doe)
           doy == doe - Start(y)
<1>1. z \in Int /\ era \in Int /\ 0 <= doe /\ doe <= 146096 /\ doe \in Int /\ days + 1 \in Int
  OBVIOUS
<1>2. IF doe = 146096 THEN (days + 1 + 719468) \div 146097 = era + 1 /\ (days + 1 + 719468) % 146097 = 0
      ELSE (days + 1 + 719468) \div 146097 = era /\ (days + 1 + 719468) % 146097 = doe + 1
  OBVIOUS
<1>3. CivilFromDays(days) = DateOf(y + era * 400, doy)
  BY CivilDate DEF DateIn
<1>4. CivilFromDays(days + 1) = IF doe = 146096 THEN DateIn(era + 1, 0) ELSE DateIn(era, doe + 1)
  <2> DEFINE w == days + 1 + 719468
  <2>1. CivilFromDays(days + 1) = DateIn(w \div 146097, w % 146097)
    BY <1>1, CivilDate
  <2> HIDE DEF w, doe, era
  <2>2. w \div 146097 = (IF doe = 146096 THEN era + 1 ELSE era) /\ w % 146097 = IF doe = 146096 THEN 0 ELSE doe + 1
    BY <1>2 DEF w
  <2>3. QED
    BY <2>1, <2>2
<1> HIDE DEF z, era, doe
<1>5. y \in Nat /\ y <= 399 /\ Start(y) <= doe /\ doe < Start(y + 1)
  BY <1>1, YearFound
<1> HIDE DEF y
<1>6. Start(y) \in Nat /\ Start(y + 1) \in Nat /\ doy \in Nat /\ y + era * 400 \in Int
  BY <1>1, <1>5, Bounds
<1>7. Start(y + 1) - Start(y) = IF IsLeap(y + era * 400 + 1) THEN 366 ELSE 365
  <2>1. era \in Int
    BY <1>1
  <2>2. y \in Nat /\ y <= 399
    BY <1>5
  <2> DEFINE year == y + era * 400 + 1
  <2>3. year \in Int /\ (year - (y + 1)) % 400 = 0
    BY <2>1, <2>2
  <2> HIDE DEF year
  <2>4. Start(y + 1) - Start(y) = IF IsLeap(year) THEN 366 ELSE 365
    BY <2>1, <2>2, <2>3, YearLength
  <2>5. QED
    BY <2>4 DEF year
<1>8. CASE doe + 1 < Start(y + 1)
  <2>1. doe # 146096
    BY <1>5, <1>6, <1>8, Bounds
  <2>2. YearOf(doe + 1) = y
    BY <1>1, <1>5, <1>6, <1>8, <2>1, YearUnique
  <2>3. CivilFromDays(days + 1) = DateOf(y + era * 400, doy + 1)
    BY <1>1, <1>4, <1>6, <2>1, <2>2 DEF DateIn
  <2>4. doy < 364 \/ (doy = 364 /\ IsLeap(y + era * 400 + 1))
    BY <1>1, <1>5, <1>6, <1>7, <1>8
  <2> HIDE DEF doy
  <2>5. QED
    BY <1>3, <1>6, <2>3, <2>4, NextDay
<1>9. CASE doe + 1 = Start(y + 1)
  <2>1. doy = IF IsLeap(y + era * 400 + 1) THEN 365 ELSE 364
    BY <1>1, <1>6, <1>7, <1>9
  <2>2. CivilFromDays(days + 1) = DateOf(y + era * 400 + 1, 0)
    <3>1. CASE y = 399
      <4>1. doe = 146096
        BY <1>1, <1>9, <3>1, Bounds
      <4>2. YearOf(0) = 0
        BY Bounds, YearUnique
      <4>3. QED
        BY <1>1, <1>4, <3>1, <4>1, <4>2, Bounds DEF DateIn
    <3>2. CASE y # 399
      <4>1. doe # 146096 /\ y + 1 \in Nat /\ y + 1 <= 399
        BY <1>1, <1>5, <1>9, <3>2, Bounds
      <4>2. Start(y + 1) <= doe + 1 /\ doe + 1 < Start(y + 1 + 1)
        BY <1>1, <1>6, <1>9, <4>1, Bounds
      <4>3. YearOf(doe + 1) = y + 1
        BY <1>1, <4>1, <4>2, YearUnique
      <4>4. QED
        BY <1>1, <1>4, <1>5, <1>6, <1>9, <4>1, <4>3 DEF DateIn
    <3>3. QED
      BY <3>1, <3>2
  <2> HIDE DEF doy
  <2>3. QED
    BY <1>3, <1>6, <2>1, <2>2, NextYear
<1>10. QED
  BY <1>1, <1>5, <1>6, <1>8, <1>9

LEMMA Epoch == CivilFromDays(0) = [year |-> 1970, mon |-> 1, day |-> 1]
<1>1. YearOf(135080) = 369 /\ Start(369) = 134774
  BY DEF YearOf, Start
<1>2. CivilFromDays(0) = DateOf(1969, 306)
  BY <1>1, CivilDate DEF DateIn
<1>3. MonthOf(306) = 10 /\ First(10) = 306
  BY DEF MonthOf, First
<1>4. QED
  BY <1>2, <1>3 DEF DateOf

\* The time of day counts the seconds since midnight, when the date changes.
LEMMA TimeOfDay ==
    ASSUME NEW secs \in Int
    PROVE  LET t == FromUnixUtc(secs) IN
           /\ t.hour \in 0..23 /\ t.min \in 0..59 /\ t.sec \in 0..59
           /\ secs % 86400 = t.hour * 3600 + t.min * 60 + t.sec
           /\ FromUnixUtc(secs - 1).date = t.date \/ <<t.hour, t.min, t.sec>> = <<0, 0, 0>>
<1> DEFINE sod == secs % 86400
           h == sod \div 3600
           rest == sod % 3600
           m == rest \div 60
           s == rest % 60
<1>1. sod \in Nat /\ sod < 86400
  OBVIOUS
<1>2. (secs - 1) \div 86400 = secs \div 86400 \/ sod = 0
  OBVIOUS
<1>3. /\ FromUnixUtc(secs).date = CivilFromDays(secs \div 86400)
      /\ FromUnixUtc(secs - 1).date = CivilFromDays((secs - 1) \div 86400)
      /\ FromUnixUtc(secs).hour = h /\ FromUnixUtc(secs).min = m /\ FromUnixUtc(secs).sec = sod % 60
  BY DEF FromUnixUtc
<1>4. FromUnixUtc(secs - 1).date = FromUnixUtc(secs).date \/ sod = 0
  BY <1>2, <1>3
<1> HIDE DEF sod
<1>5. h \in 0..23 /\ rest \in Nat /\ rest < 3600 /\ sod = 3600 * h + rest
  BY <1>1
<1> HIDE DEF h, rest
<1>6. m \in 0..59 /\ s \in 0..59 /\ rest = 60 * m + s
  BY <1>5
<1> HIDE DEF m, s
<1>7. sod % 60 = s /\ sod = h * 3600 + m * 60 + s
  BY <1>5, <1>6
<1>8. sod = 0 => h = 0 /\ m = 0 /\ s = 0
  BY <1>5, <1>6, <1>7
<1>9. QED
  BY <1>3, <1>4, <1>5, <1>6, <1>7, <1>8 DEF sod

-----------------------------------------------------------------------------
(* Coordinates                                                             *)

\* A number that is accepted as a right ascension, in degrees or in hours.
LEMMA RaAccepted ==
    ASSUME NaN \notin Int, NEW a \in Int
    PROVE  /\ RaDegrees(a) = IF 0 <= a /\ a < Turn THEN <<a>> ELSE IF a = Turn THEN <<0>> ELSE <<>>
           /\ RaFromHours(a) = RaDegrees(a)
<1>1. a # NaN
  OBVIOUS
<1>2. Turn \in Int /\ Turn > 0
  BY DEF Turn, Hour
<1>3. (a \in 0..(Turn - 1) <=> 0 <= a /\ a < Turn) /\ (a \in 0..Turn <=> 0 <= a /\ a <= Turn)
  BY <1>2
<1>4. RaDegrees(a) = IF 0 <= a /\ a < Turn THEN <<a>> ELSE IF a = Turn THEN <<0>> ELSE <<>>
  BY <1>1, <1>3 DEF RaDegrees
<1>5. RaFromHours(a) = RaDegrees(a)
  <2>1. CASE a \in 0..Turn
    BY <2>1 DEF RaFromHours
  <2>2. CASE a \notin 0..Turn
    BY <1>1, <1>2, <1>3, <1>4, <2>2 DEF RaFromHours
  <2>3. QED
    BY <2>1, <2>2
<1>6. QED
  BY <1>4, <1>5

\* It is the same place on the sky: a whole turn is none.
LEMMA RaOnTheSky ==
    ASSUME NaN \notin Int, NEW a \in Int, NEW ra, RaDegrees(a) = <<ra>>
    PROVE  ra \in Int /\ 0 <= ra /\ ra < Turn /\ ra % Turn = a % Turn
<1>1. Turn = 8640000
  BY DEF Turn, Hour
<1>2. RaDegrees(a) = IF 0 <= a /\ a < Turn THEN <<a>> ELSE IF a = Turn THEN <<0>> ELSE <<>>
  BY RaAccepted
<1>3. (0 <= a /\ a < Turn /\ ra = a) \/ (a = Turn /\ ra = 0)
  BY <1>2
<1>4. QED
  BY <1>1, <1>3

\* What is printed is within a twentieth of a second of the value.
LEMMA Printed ==
    ASSUME NEW v \in Int, NEW p \in Sexagesimal(v)
    PROVE  p.unit * Hour + p.minute * 6000 + p.tenths * 10 - v \in -5..5
<1>1. \A w, x, k \in Int :
        w - (w % 6000) + x = v /\ (k = (x + 4) \div 10 \/ k = (x + 5) \div 10)
        => (w \div Hour) * Hour + ((w % Hour) \div 6000) * 6000 + k * 10 - v \in -5..5
  <2>1. SUFFICES ASSUME NEW w \in Int, NEW x \in Int, NEW k \in Int, w - (w % 6000) + x = v,
                        k = (x + 4) \div 10 \/ k = (x + 5) \div 10
                 PROVE  (w \div Hour) * Hour + ((w % Hour) \div 6000) * 6000 + k * 10 - v \in -5..5
    BY <2>1
  <2>2. (w \div Hour) * Hour + ((w % Hour) \div 6000) * 6000 = w - (w % 6000)
    BY DEF Hour
  <2>3. k * 10 - x \in -5..5
    BY <2>1
  <2>4. QED
    BY <2>1, <2>2, <2>3
<1> DEFINE At(w, x) == {[unit |-> w \div Hour, minute |-> (w % Hour) \div 6000, tenths |-> t] :
                            t \in {(x + 4) \div 10, (x + 5) \div 10}}
<1>2. Sexagesimal(v) = At(v, v % 6000) \cup (IF v % 6000 = 0 /\ v > 0 THEN At(v - 1, 6000) ELSE {})
  BY DEF Sexagesimal
<1>3. \A w, x \in Int :
        w - (w % 6000) + x = v => \A q \in At(w, x) : q.unit * Hour + q.minute * 6000 + q.tenths * 10 - v \in -5..5
  <2>1. SUFFICES ASSUME NEW w \in Int, NEW x \in Int, w - (w % 6000) + x = v,
                        NEW t \in {(x + 4) \div 10, (x + 5) \div 10}
                 PROVE  (w \div Hour) * Hour + ((w % Hour) \div 6000) * 6000 + t * 10 - v \in -5..5
    BY <2>1
  <2>2. t \in Int /\ (t = (x + 4) \div 10 \/ t = (x + 5) \div 10)
    BY <2>1
  <2>3. QED
    BY <1>1, <2>1, <2>2
<1>4. CASE p \in At(v, v % 6000)
  <2> DEFINE r == v % 6000
  <2>1. r \in Int /\ v - r + r = v
    <3>1. r \in Int
      OBVIOUS
    <3> HIDE DEF r
    <3>2. QED
      BY <3>1
  <2> HIDE DEF At
  <2>2. QED
    BY <1>3, <1>4, <2>1
<1>5. CASE v % 6000 = 0 /\ p \in At(v - 1, 6000)
  <2>1. v - 1 \in Int /\ v - 1 - ((v - 1) % 6000) + 6000 = v
    BY <1>5
  <2> HIDE DEF At
  <2>2. QED
    BY <1>3, <1>5, <2>1
<1>6. QED
  <2> HIDE DEF At
  <2>1. QED
    BY <1>2, <1>4, <1>5

\* A declination that is accepted is the number itself, within a quarter turn.
LEMMA DecOnTheSky ==
    ASSUME NaN \notin Int, NEW a \in Int
    PROVE  DecDegrees(a) = <<>> \/ (DecDegrees(a) = <<a>> /\ a + 90 * ArcDegree \in 0..(180 * ArcDegree))
<1>1. a # NaN
  OBVIOUS
<1>2. ArcDegree \in Int
  BY DEF ArcDegree
<1>3. a \in -90 * ArcDegree .. 90 * ArcDegree => a + 90 * ArcDegree \in 0..(180 * ArcDegree)
  BY <1>2
<1>4. QED
  BY <1>1, <1>3 DEF DecDegrees

=============================================================================
