-------------------------------- MODULE Calendar --------------------------------
(***************************************************************************)
(* The arithmetic of times in tinkr_framework, and what it has to agree    *)
(* with: rfc3339 and civil_from_days (logging.rs) beside the Gregorian     *)
(* calendar, to_iso8601 (utilities.rs) beside the sum of what it writes.   *)
(***************************************************************************)
EXTENDS Integers

(* `/` of Rust's integers, which truncates.                                 *)
Quot(a, b) == IF a >= 0 THEN a \div b ELSE -((-a) \div b)

(* Of a day counted from 0000-03-01: the era of 400 years it falls into; of *)
(* a day of an era, the year of the era and the day of that year, which     *)
(* begins in March; of such a day, the month from March and the day of it.  *)
EraOf(z) == Quot(IF z >= 0 THEN z ELSE z - 146096, 146097)
YearOfEra(doe) ==
  Quot(doe - Quot(doe, 1460) + Quot(doe, 36524) - Quot(doe, 146096), 365)
DayOfYear(doe) ==
  doe - (365 * YearOfEra(doe) + Quot(YearOfEra(doe), 4) - Quot(YearOfEra(doe), 100))
MonthFromMarch(doy) == Quot(5 * doy + 2, 153)
DayOfMonth(doy) == doy - Quot(153 * MonthFromMarch(doy) + 2, 5) + 1

DateOf(era, doe) ==
  LET mp == MonthFromMarch(DayOfYear(doe))
      month == IF mp < 10 THEN mp + 3 ELSE mp - 9
  IN  [year |-> YearOfEra(doe) + era * 400 + (IF month <= 2 THEN 1 ELSE 0),
       month |-> month,
       day |-> DayOfMonth(DayOfYear(doe))]

(* Mutant: a day late in the era, so a leap day becomes the first of March. *)
civil_from_days_March(days) ==
  LET z == days + 719469
  IN  DateOf(EraOf(z), z - EraOf(z) * 146097)

civil_from_days(days) ==
  LET z == days + 719468
  IN  DateOf(EraOf(z), z - EraOf(z) * 146097)

(* A clock before the epoch reads as the epoch.                             *)
rfc3339(now) ==
  LET seconds == IF now < 0 THEN 0 ELSE now
  IN  [date |-> civil_from_days(seconds \div 86400),
       hour |-> (seconds \div 3600) % 24,
       minute |-> (seconds \div 60) % 60,
       second |-> seconds % 60]

(* The units written, with what is written before each; the seconds in      *)
(* milliseconds. Everything but "D" stands behind the "T".                  *)
to_iso8601(duration) ==
  LET millis == duration % 1000
      whole == duration \div 1000
      days == whole \div 86400
      hours == (whole % 86400) \div 3600
      mins == (whole % 3600) \div 60
      secs == whole % 60
      Writes(unit) ==
        CASE unit = "D" -> days > 0
          [] unit = "H" -> hours > 0
          [] unit = "M" -> mins > 0
          [] unit = "S" -> \/ millis > 0
                           \/ secs > 0
                           \/ days = 0 /\ hours = 0 /\ mins = 0
  IN  [unit \in {u \in {"D", "H", "M", "S"} : Writes(u)} |->
         CASE unit = "D" -> days
           [] unit = "H" -> hours
           [] unit = "M" -> mins
           [] unit = "S" -> secs * 1000 + millis]

-------------------------------------------------------------------------------
(* The reference. *)

Leap(year) == year % 4 = 0 /\ (year % 100 = 0 => year % 400 = 0)

(* The days of a year before its month, in a year that is not a leap year.  *)
DaysBefore == <<0, 31, 59, 90, 120, 151, 181, 212, 243, 273, 304, 334, 365>>

MonthStart(year, month) ==
  DaysBefore[month] + (IF month > 2 /\ Leap(year) THEN 1 ELSE 0)

(* The days from 1970-01-01 to the first of January; the leap years before. *)
YearStart(year) ==
  365 * (year - 1970)
    + ((year - 1) \div 4 - (year - 1) \div 100 + (year - 1) \div 400) - 477

IsDate(date) ==
  /\ date.month \in 1..12
  /\ 1 <= date.day
  /\ MonthStart(date.year, date.month) + date.day <=
       (IF date.month = 12 THEN 365 + (IF Leap(date.year) THEN 1 ELSE 0)
                           ELSE MonthStart(date.year, date.month + 1))

DayNumber(date) ==
  YearStart(date.year) + MonthStart(date.year, date.month) + date.day - 1

(* The instant a time stamp stands for.                                     *)
ReadStamp(stamp) ==
  DayNumber(stamp.date) * 86400 + stamp.hour * 3600 + stamp.minute * 60 + stamp.second

(* The duration a reader of the written units gets.                         *)
ReadDuration(written) ==
  LET Of(unit) == IF unit \in DOMAIN written THEN written[unit] ELSE 0
  IN  ((Of("D") * 24 + Of("H")) * 60 + Of("M")) * 60000 + Of("S")
================================================================================
