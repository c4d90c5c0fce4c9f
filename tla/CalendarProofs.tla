---------------------------- MODULE CalendarProofs -----------------------------
(***************************************************************************)
(* civil_from_days gives the date of every day from 1970 on, and a reader  *)
(* gets back every duration to_iso8601 writes.                             *)
(***************************************************************************)
EXTENDS Calendar, TLAPS

(* The multiples of k up to y, in terms of those up to y - 1.               *)
LEMMA Step4 ==
  ASSUME NEW y \in Int
  PROVE  (y - 1) \div 4 = y \div 4 - (IF y % 4 = 0 THEN 1 ELSE 0)
BY SMT

LEMMA Step100 ==
  ASSUME NEW y \in Int
  PROVE  (y - 1) \div 100 = y \div 100 - (IF y % 100 = 0 THEN 1 ELSE 0)
BY SMT

LEMMA Step400 ==
  ASSUME NEW y \in Int
  PROVE  (y - 1) \div 400 = y \div 400 - (IF y % 400 = 0 THEN 1 ELSE 0)
BY SMT

LEMMA LeapSteps ==
  ASSUME NEW y \in Int
  PROVE  (y % 400 = 0 => y % 100 = 0) /\ (y % 100 = 0 => y % 4 = 0)
BY SMT

(* The days to the first of March of a year.                                *)
March(y) == 365 * y + y \div 4 - y \div 100 + y \div 400 - 719468

LEMMA FirstOfMarch ==
  ASSUME NEW y \in Int
  PROVE  /\ YearStart(y) + 59 + (IF Leap(y) THEN 1 ELSE 0) = March(y)
         /\ YearStart(y + 1) = March(y) + 306
<1>1. YearStart(y) = 365 * (y - 1970) + (y \div 4 - (IF y % 4 = 0 THEN 1 ELSE 0))
                       - (y \div 100 - (IF y % 100 = 0 THEN 1 ELSE 0))
                       + (y \div 400 - (IF y % 400 = 0 THEN 1 ELSE 0)) - 477
  BY Step4, Step100, Step400 DEF YearStart
<1>2. YearStart(y) + 59 + (IF Leap(y) THEN 1 ELSE 0) = March(y)
  BY <1>1, LeapSteps DEF Leap, March
<1>3. YearStart(y + 1) = March(y) + 306
  BY DEF YearStart, March
<1> QED
  BY <1>2, <1>3

LEMMA MarchInEra ==
  ASSUME NEW era \in Nat, NEW yoe \in Int, 0 <= yoe, yoe <= 399
  PROVE  March(yoe + era * 400)
           = era * 146097 + 365 * yoe + yoe \div 4 - yoe \div 100 - 719468
<1> DEFINE y == yoe + era * 400
<1>1. y \div 4 = era * 100 + yoe \div 4
  BY SMT
<1>2. y \div 100 = era * 4 + yoe \div 100
  BY SMT
<1>3. y \div 400 = era
  BY SMT
<1> QED
  BY <1>1, <1>2, <1>3 DEF March

LEMMA QuotIsDiv ==
  ASSUME NEW n \in Int, n >= 0, NEW k \in Int
  PROVE  Quot(n, k) = n \div k
BY DEF Quot

LEMMA YearBounds ==
  ASSUME NEW doe \in Int, 0 <= doe, doe <= 146096,
         NEW a \in Int, NEW b \in Int, NEW c \in Int,
         NEW y \in Int, NEW u \in Int, NEW v \in Int,
         1460 * a <= doe, doe < 1460 * a + 1460,
         36524 * b <= doe, doe < 36524 * b + 36524,
         146096 * c <= doe, doe < 146096 * c + 146096,
         365 * y <= doe - a + b - c, doe - a + b - c < 365 * y + 365,
         4 * u <= y, y < 4 * u + 4, 100 * v <= y, y < 100 * v + 100
  PROVE  /\ 0 <= y /\ y <= 399
         /\ 0 <= doe - (365 * y + u - v) /\ doe - (365 * y + u - v) <= 365
         /\ doe - (365 * y + u - v) = 365 => y = 4 * u + 3 /\ (y = 100 * v + 99 => y = 399)
<1>1. 0 <= c /\ c <= 1 /\ 0 <= b /\ b <= 4 /\ 0 <= a /\ a <= 100
  BY SMT
<1>2. 0 <= y /\ y <= 399
  BY <1>1, SMT
<1>3. 0 <= v /\ v <= 3 /\ 0 <= u /\ u <= 99
  BY <1>2, SMT
<1>4. 0 <= doe - (365 * y + u - v)
  BY <1>1, <1>2, <1>3, SMTT(60)
<1>5. doe - (365 * y + u - v) <= 365
  BY <1>1, <1>2, <1>3, SMTT(60)
<1>6. doe - (365 * y + u - v) = 365 => y = 4 * u + 3
  BY <1>1, <1>2, <1>3, SMTT(60)
<1>7. doe - (365 * y + u - v) = 365 /\ y = 100 * v + 99 => y = 399
  BY <1>1, <1>2, <1>3, SMTT(60)
<1> QED
  BY <1>2, <1>4, <1>5, <1>6, <1>7

LEMMA YearIsRight ==
  ASSUME NEW doe \in Int, 0 <= doe, doe <= 146096
  PROVE  LET y == YearOfEra(doe)
             doy == DayOfYear(doe)
         IN  /\ y \in Int /\ 0 <= y /\ y <= 399
             /\ doy \in Int /\ 0 <= doy /\ doy <= 365
             /\ doy = 365 => (y + 1) % 4 = 0 /\ ((y + 1) % 100 = 0 => y = 399)
<1> DEFINE a == doe \div 1460
           b == doe \div 36524
           c == doe \div 146096
           y == (doe - a + b - c) \div 365
           u == y \div 4
           v == y \div 100
<1>1. a \in Int /\ 1460 * a <= doe /\ doe < 1460 * a + 1460
  BY SMT
<1>2. b \in Int /\ 36524 * b <= doe /\ doe < 36524 * b + 36524
  BY SMT
<1>3. c \in Int /\ 146096 * c <= doe /\ doe < 146096 * c + 146096
  BY SMT
<1> HIDE DEF a, b, c
<1>4. y \in Int /\ 365 * y <= doe - a + b - c /\ doe - a + b - c < 365 * y + 365
  BY <1>1, <1>2, <1>3, SMT
<1> HIDE DEF y
<1>5. u \in Int /\ 4 * u <= y /\ y < 4 * u + 4
  BY <1>4, SMT
<1>6. v \in Int /\ 100 * v <= y /\ y < 100 * v + 100
  BY <1>4, SMT
<1> HIDE DEF u, v
<1>7. /\ 0 <= y /\ y <= 399
      /\ 0 <= doe - (365 * y + u - v) /\ doe - (365 * y + u - v) <= 365
      /\ doe - (365 * y + u - v) = 365 => y = 4 * u + 3 /\ (y = 100 * v + 99 => y = 399)
  BY <1>1, <1>2, <1>3, <1>4, <1>5, <1>6, YearBounds
<1>8. y = YearOfEra(doe) /\ doe - (365 * y + u - v) = DayOfYear(doe)
  <2>1. Quot(doe, 1460) = a /\ Quot(doe, 36524) = b /\ Quot(doe, 146096) = c
    BY QuotIsDiv DEF a, b, c
  <2>2. doe - a + b - c \in Int /\ doe - a + b - c >= 0
    BY <1>1, <1>2, <1>3, <1>4, <1>7
  <2>3. YearOfEra(doe) = y
    BY <2>1, <2>2, QuotIsDiv DEF YearOfEra, y
  <2>4. Quot(y, 4) = u /\ Quot(y, 100) = v
    BY <1>4, <1>7, QuotIsDiv DEF u, v
  <2> QED
    BY <2>3, <2>4 DEF DayOfYear
<1>9. y = 4 * u + 3 => (y + 1) % 4 = 0
  BY <1>4, <1>5, SMT
<1>10. (y + 1) % 100 = 0 => y = 100 * v + 99
  BY <1>4, <1>6, SMT
<1> QED
  BY <1>4, <1>5, <1>6, <1>7, <1>8, <1>9, <1>10

LEMMA MonthIsRight ==
  ASSUME NEW doy \in Int, 0 <= doy, doy <= 365
  PROVE  \/ MonthFromMarch(doy) = 0 /\ DayOfMonth(doy) = doy + 1 /\ doy < 31
         \/ MonthFromMarch(doy) = 1 /\ DayOfMonth(doy) = doy - 30 /\ 31 <= doy /\ doy < 61
         \/ MonthFromMarch(doy) = 2 /\ DayOfMonth(doy) = doy - 60 /\ 61 <= doy /\ doy < 92
         \/ MonthFromMarch(doy) = 3 /\ DayOfMonth(doy) = doy - 91 /\ 92 <= doy /\ doy < 122
         \/ MonthFromMarch(doy) = 4 /\ DayOfMonth(doy) = doy - 121 /\ 122 <= doy /\ doy < 153
         \/ MonthFromMarch(doy) = 5 /\ DayOfMonth(doy) = doy - 152 /\ 153 <= doy /\ doy < 184
         \/ MonthFromMarch(doy) = 6 /\ DayOfMonth(doy) = doy - 183 /\ 184 <= doy /\ doy < 214
         \/ MonthFromMarch(doy) = 7 /\ DayOfMonth(doy) = doy - 213 /\ 214 <= doy /\ doy < 245
         \/ MonthFromMarch(doy) = 8 /\ DayOfMonth(doy) = doy - 244 /\ 245 <= doy /\ doy < 275
         \/ MonthFromMarch(doy) = 9 /\ DayOfMonth(doy) = doy - 274 /\ 275 <= doy /\ doy < 306
         \/ MonthFromMarch(doy) = 10 /\ DayOfMonth(doy) = doy - 305 /\ 306 <= doy /\ doy < 337
         \/ MonthFromMarch(doy) = 11 /\ DayOfMonth(doy) = doy - 336 /\ 337 <= doy
<1> DEFINE m == MonthFromMarch(doy)
<1>5. m = (5 * doy + 2) \div 153
  BY QuotIsDiv DEF MonthFromMarch
<1>1. m \in Int /\ 153 * m <= 5 * doy + 2 /\ 5 * doy + 2 < 153 * m + 153
  BY <1>5, SMT
<1> HIDE DEF m
<1>3. 0 <= m /\ m <= 11
  BY <1>1, SMT
<1>2. DayOfMonth(doy) = doy - (153 * m + 2) \div 5 + 1
  <2>1. 153 * m + 2 \in Int /\ 153 * m + 2 >= 0
    BY <1>1, <1>3
  <2> QED
    BY <2>1, QuotIsDiv DEF DayOfMonth, m
<1>4. m \in 0..11
  BY <1>1, <1>3
<1> QED
  BY <1>1, <1>2, <1>4, SMTT(60) DEF m

(* What DateOf has to give for the doy-th day from the first of March of y. *)
Dated(date, y, doy) ==
  /\ date.month \in 1..12
  /\ IsDate(date)
  /\ DayNumber(date) = March(y) + doy

(* March to December.                                                       *)
LEMMA FromMarch ==
  ASSUME NEW y \in Int, NEW m \in 3..12, NEW day \in Int, NEW doy \in Int,
         day >= 1, DaysBefore[m] + day <= DaysBefore[m + 1],
         doy = DaysBefore[m] - 59 + day - 1
  PROVE  Dated([year |-> y, month |-> m, day |-> day], y, doy)
<1> DEFINE leap == IF Leap(y) THEN 1 ELSE 0
           date == [year |-> y, month |-> m, day |-> day]
<1>1. YearStart(y) + 59 + leap = March(y)
  BY FirstOfMarch
<1>2. leap \in Int /\ YearStart(y) \in Int
  BY DEF YearStart
<1>3. m \in 1..12 /\ m > 2 /\ DaysBefore[m] \in Int /\ DaysBefore[m + 1] \in Int
  BY DEF DaysBefore
<1>4. MonthStart(y, m) = DaysBefore[m] + leap
  BY <1>3 DEF MonthStart
<1>5. DayNumber(date) = March(y) + doy
  BY <1>1, <1>2, <1>3, <1>4 DEF DayNumber
<1>6. CASE m = 12
  <2>1. DaysBefore[m + 1] = 365
    BY <1>6 DEF DaysBefore
  <2> QED
    BY <1>2, <1>3, <1>4, <1>5, <1>6, <2>1 DEF Dated, IsDate
<1>7. CASE m # 12
  <2>1. MonthStart(y, m + 1) = DaysBefore[m + 1] + leap
    BY <1>3 DEF MonthStart
  <2> QED
    BY <1>2, <1>3, <1>4, <1>5, <1>7, <2>1 DEF Dated, IsDate
<1> QED
  BY <1>6, <1>7

(* January and February belong to the next year.                            *)
LEMMA FromJanuary ==
  ASSUME NEW y \in Int, NEW m \in 1..2, NEW day \in Int, NEW doy \in Int, day >= 1,
         m = 1 => day <= 31 /\ doy = 305 + day,
         m = 2 => day <= 28 + (IF Leap(y + 1) THEN 1 ELSE 0) /\ doy = 336 + day
  PROVE  Dated([year |-> y + 1, month |-> m, day |-> day], y, doy)
<1> DEFINE leap == IF Leap(y + 1) THEN 1 ELSE 0
           date == [year |-> y + 1, month |-> m, day |-> day]
<1>1. YearStart(y + 1) = March(y) + 306
  BY FirstOfMarch
<1>2. leap \in Int /\ March(y) \in Int
  BY DEF March
<1>3. MonthStart(y + 1, 1) = 0 /\ MonthStart(y + 1, 2) = 31 /\ MonthStart(y + 1, 3) = 59 + leap
  BY DEF MonthStart, DaysBefore
<1>4. CASE m = 1
  BY <1>1, <1>2, <1>3, <1>4 DEF Dated, IsDate, DayNumber
<1>5. CASE m = 2
  BY <1>1, <1>2, <1>3, <1>5 DEF Dated, IsDate, DayNumber
<1> QED
  BY <1>4, <1>5

LEMMA LeapInEra ==
  ASSUME NEW era \in Nat, NEW yoe \in Int, 0 <= yoe, yoe <= 399,
         (yoe + 1) % 4 = 0, (yoe + 1) % 100 = 0 => yoe = 399
  PROVE  Leap(yoe + era * 400 + 1)
<1>1. (yoe + era * 400 + 1) % 4 = 0
  BY SMT
<1>2. (yoe + era * 400 + 1) % 100 = (yoe + 1) % 100
  BY SMT
<1>3. yoe = 399 => (yoe + era * 400 + 1) % 400 = 0
  BY SMT
<1> QED
  BY <1>1, <1>2, <1>3 DEF Leap

(* logging.rs:193-207: civil_from_days gives, for every day from the epoch  *)
(* on, the date the Gregorian calendar has for it.                          *)
THEOREM CivilDates ==
  \A days \in Nat :
    IsDate(civil_from_days(days)) /\ DayNumber(civil_from_days(days)) = days
<1> SUFFICES ASSUME NEW days \in Nat
             PROVE  IsDate(civil_from_days(days)) /\ DayNumber(civil_from_days(days)) = days
  OBVIOUS
<1> DEFINE z == days + 719468
           era == EraOf(z)
           doe == z - era * 146097
           yoe == YearOfEra(doe)
           doy == DayOfYear(doe)
           y == yoe + era * 400
           mp == MonthFromMarch(doy)
           date == civil_from_days(days)
<1>1. era = z \div 146097
  BY QuotIsDiv DEF EraOf
<1>2. era \in Nat /\ doe \in Int /\ 0 <= doe /\ doe <= 146096
  <2> HIDE DEF era
  <2> QED
    BY <1>1, SMT
<1>3. date = DateOf(era, doe)
  BY DEF civil_from_days
<1>4. z = era * 146097 + doe
  <2> HIDE DEF era
  <2> QED
    BY <1>2
<1> HIDE DEF era, doe, date
<1>5. /\ yoe \in Int /\ 0 <= yoe /\ yoe <= 399
      /\ doy \in Int /\ 0 <= doy /\ doy <= 365
      /\ doy = 365 => (yoe + 1) % 4 = 0 /\ ((yoe + 1) % 100 = 0 => yoe = 399)
  BY <1>2, YearIsRight
<1>6. doe = 365 * yoe + yoe \div 4 - yoe \div 100 + doy
  BY <1>2, <1>5, QuotIsDiv DEF DayOfYear
<1> HIDE DEF yoe, doy
<1>7. days = March(y) + doy
  <2>2. March(y) = era * 146097 + 365 * yoe + yoe \div 4 - yoe \div 100 - 719468
    <3>1. era \in Nat
      BY <1>2
    <3>2. yoe \in Int /\ 0 <= yoe /\ yoe <= 399
      BY <1>5
    <3>3. March(yoe + era * 400)
            = era * 146097 + 365 * yoe + yoe \div 4 - yoe \div 100 - 719468
      BY <3>1, <3>2, MarchInEra
    <3> QED
      BY <3>3
  <2> QED
    BY <1>2, <1>4, <1>5, <1>6, <2>2
<1>8. y \in Int
  BY <1>2, <1>5
<1>9. doy = 365 => Leap(y + 1)
  BY <1>2, <1>5, LeapInEra
<1>10. date = LET month == IF mp < 10 THEN mp + 3 ELSE mp - 9
              IN  [year |-> y + (IF month <= 2 THEN 1 ELSE 0), month |-> month,
                   day |-> DayOfMonth(doy)]
  BY <1>3 DEF DateOf, yoe, doy
<1> HIDE DEF y, mp
<1> DEFINE day == DayOfMonth(doy)
<1>11. CASE mp < 10
  <2>1. mp \in 0..9
    BY <1>5, <1>11, MonthIsRight DEF mp
  <2>2. date = [year |-> y, month |-> mp + 3, day |-> day]
    BY <1>8, <1>10, <2>1
  <2>3. /\ day \in Int /\ day >= 1 /\ DaysBefore[mp + 3] + day <= DaysBefore[mp + 4]
        /\ doy = DaysBefore[mp + 3] - 59 + day - 1
    BY <1>5, <2>1, MonthIsRight DEF mp, DaysBefore
  <2>4. Dated(date, y, doy)
    <3>1. mp + 3 \in 3..12 /\ (mp + 3) + 1 = mp + 4
      BY <2>1
    <3> QED
      BY <1>5, <1>8, <2>2, <2>3, <3>1, FromMarch
  <2> QED
    BY <1>7, <2>4 DEF Dated, date
<1>12. CASE ~(mp < 10)
  <2>1. mp \in 10..11
    BY <1>5, <1>12, MonthIsRight DEF mp
  <2>2. date = [year |-> y + 1, month |-> mp - 9, day |-> day]
    BY <1>8, <1>10, <2>1
  <2>3. /\ day \in Int /\ day >= 1
        /\ mp - 9 = 1 => day <= 31 /\ doy = 305 + day
        /\ mp - 9 = 2 => day <= 29 /\ doy = 336 + day
    BY <1>5, <2>1, MonthIsRight DEF mp
  <2>4. mp - 9 = 2 => day <= 28 + (IF Leap(y + 1) THEN 1 ELSE 0)
    BY <1>5, <1>9, <2>3
  <2>5. Dated(date, y, doy)
    BY <1>5, <1>8, <2>1, <2>2, <2>3, <2>4, FromJanuary
  <2> QED
    BY <1>7, <2>5 DEF Dated, date
<1> QED
  BY <1>11, <1>12

LEMMA UnitsOfSeconds ==
  ASSUME NEW n \in Nat
  PROVE  /\ n \div 86400 \in Nat
         /\ (n \div 3600) % 24 \in Nat /\ (n \div 60) % 60 \in Nat /\ n % 60 \in Nat
         /\ n = (n \div 86400) * 86400 + ((n \div 3600) % 24) * 3600
                 + ((n \div 60) % 60) * 60 + (n % 60)
<1> DEFINE m == n \div 60
           h == m \div 60
<1>1. m \in Nat /\ n = m * 60 + (n % 60) /\ n % 60 \in Nat
  BY SMT
<1>2. n \div 3600 = h /\ n \div 86400 = h \div 24
  BY SMT
<1> HIDE DEF m
<1>3. h \in Nat /\ m = h * 60 + (m % 60) /\ m % 60 \in Nat
  BY <1>1, SMT
<1> HIDE DEF h
<1>4. h = (h \div 24) * 24 + (h % 24) /\ h \div 24 \in Nat /\ h % 24 \in Nat
  BY <1>3, SMT
<1>5. n \div 86400 \in Nat
  BY SMT
<1>6. (n \div 60) % 60 = m % 60 /\ (n \div 3600) % 24 = h % 24
  BY <1>2 DEF m
<1> QED
  BY <1>1, <1>2, <1>3, <1>4, <1>5, <1>6

(* logging.rs:184-191: the time of a log line is the instant it was logged  *)
(* at, to the second, whatever the date.                                    *)
THEOREM StampsReadBack == \A now \in Nat : ReadStamp(rfc3339(now)) = now
<1> SUFFICES ASSUME NEW now \in Nat
             PROVE  ReadStamp(rfc3339(now)) = now
  OBVIOUS
<1> DEFINE date == civil_from_days(now \div 86400)
           d == now \div 86400
           h == (now \div 3600) % 24
           mi == (now \div 60) % 60
           sec == now % 60
           stamp == rfc3339(now)
<1>1. DayNumber(date) = d
  BY UnitsOfSeconds, CivilDates
<1>2. stamp.date = date /\ stamp.hour = h /\ stamp.minute = mi /\ stamp.second = sec
  <2> HIDE DEF date
  <2>1. rfc3339(now) = [date |-> date, hour |-> (now \div 3600) % 24,
                        minute |-> (now \div 60) % 60, second |-> now % 60]
    BY DEF rfc3339, date
  <2> QED
    BY <2>1
<1>3. d * 86400 + h * 3600 + mi * 60 + sec = now
  BY UnitsOfSeconds
<1> HIDE DEF date, d, h, mi, sec
<1>4. ReadStamp(stamp) =
        DayNumber(stamp.date) * 86400 + stamp.hour * 3600 + stamp.minute * 60 + stamp.second
  BY DEF ReadStamp
<1> HIDE DEF stamp
<1>5. ReadStamp(stamp) = now
  BY <1>1, <1>2, <1>3, <1>4
<1> QED
  BY <1>5, Zenon DEF stamp

LEMMA UnitsOfDuration ==
  ASSUME NEW n \in Nat
  PROVE  LET whole == n \div 1000
             days == whole \div 86400
             hours == (whole % 86400) \div 3600
             mins == (whole % 3600) \div 60
             secs == whole % 60
         IN  /\ days \in Nat /\ hours \in Nat /\ mins \in Nat /\ secs \in Nat
             /\ n % 1000 \in Nat
             /\ n = ((days * 24 + hours) * 60 + mins) * 60000 + secs * 1000 + (n % 1000)
<1> DEFINE whole == n \div 1000
           inDay == whole % 86400
           inHour == whole % 3600
<1>1. whole \in Nat /\ n = whole * 1000 + (n % 1000) /\ n % 1000 \in Nat
  BY SMT
<1> HIDE DEF whole
<1>2. inDay \in Nat /\ whole \div 86400 \in Nat /\ whole = (whole \div 86400) * 86400 + inDay
  BY <1>1, SMT
<1>3. inHour = inDay % 3600 /\ whole % 60 = inHour % 60
  BY <1>1, SMT
<1> HIDE DEF inDay, inHour
<1>4. inDay \div 3600 \in Nat /\ inDay = (inDay \div 3600) * 3600 + inHour /\ inHour \in Nat
  BY <1>2, <1>3, SMT
<1>5. inHour \div 60 \in Nat /\ inHour % 60 \in Nat /\ inHour = (inHour \div 60) * 60 + (inHour % 60)
  BY <1>4, SMT
<1>6. n = (((whole \div 86400) * 24 + inDay \div 3600) * 60 + inHour \div 60) * 60000
            + (whole % 60) * 1000 + (n % 1000)
  BY <1>1, <1>2, <1>3, <1>4, <1>5
<1> QED
  BY <1>1, <1>2, <1>3, <1>4, <1>5, <1>6 DEF whole, inDay, inHour

(* utilities.rs:40-84: what to_iso8601 leaves out is zero: a reader of the  *)
(* units it writes gets the duration back, to the millisecond.              *)
THEOREM DurationsReadBack ==
  \A duration \in Nat : ReadDuration(to_iso8601(duration)) = duration
<1> SUFFICES ASSUME NEW n \in Nat
             PROVE  ReadDuration(to_iso8601(n)) = n
  OBVIOUS
<1> DEFINE whole == n \div 1000
           days == whole \div 86400
           hours == (whole % 86400) \div 3600
           mins == (whole % 3600) \div 60
           secs == whole % 60
           millis == n % 1000
           iso == to_iso8601(n)
           Of(unit) == IF unit \in DOMAIN iso THEN iso[unit] ELSE 0
<1>1. /\ days \in Nat /\ hours \in Nat /\ mins \in Nat /\ secs \in Nat /\ millis \in Nat
      /\ n = ((days * 24 + hours) * 60 + mins) * 60000 + secs * 1000 + millis
  BY UnitsOfDuration
<1> HIDE DEF days, hours, mins, secs, millis
<1>2. Of("D") = days
  BY <1>1 DEF to_iso8601, days
<1>3. Of("H") = hours
  BY <1>1 DEF to_iso8601, hours
<1>4. Of("M") = mins
  BY <1>1 DEF to_iso8601, mins
<1>5. Of("S") = secs * 1000 + millis
  BY <1>1 DEF to_iso8601, days, hours, mins, secs, millis
<1>6. ReadDuration(iso) = ((Of("D") * 24 + Of("H")) * 60 + Of("M")) * 60000 + Of("S")
  BY DEF ReadDuration
<1> HIDE DEF Of, iso
<1> QED
  BY <1>1, <1>2, <1>3, <1>4, <1>5, <1>6 DEF iso
================================================================================
