----------------------------- MODULE MCRequestTrace -----------------------------
(***************************************************************************)
(* RequestTrace for TLC: two requests on two workers, events whose fields  *)
(* bear the names of fixed keys, and times at the boundaries of the        *)
(* calendar and of the units of a duration.                                *)
(***************************************************************************)
EXTENDS RequestTrace, TLC

MCEvents ==
  {[fields |-> {"user"}, message |-> m, level |-> "WARN", located |-> TRUE] :
     m \in {"str", "i64", "none"}}
  \cup {[fields |-> {"severity", "spans", Google, "user"}, message |-> "debug",
         level |-> "TRACE", located |-> FALSE]}

(* Before the epoch; the leap day of 2000, which ends an era of the         *)
(* algorithm; the last second of 32 bits.                                   *)
MCInstants == {-1, 951782400, 2147483647}

MCDurations == {0, 999, 60000, 90061001}

MCReports ==
  {[status |-> "ok", ok |-> TRUE, checks |-> FALSE],
   [status |-> "degraded", ok |-> TRUE, checks |-> TRUE],
   [status |-> "error", ok |-> FALSE, checks |-> TRUE]}

(* Bound: the days to 2100-03-02, over the first century that has no leap   *)
(* day of its own.                                                          *)
ASSUME CalendarAssumption ==
  \A days \in 0..47542 :
    IsDate(civil_from_days(days)) /\ DayNumber(civil_from_days(days)) = days

Symmetry == Permutations(Requests) \cup Permutations(Workers)
================================================================================
