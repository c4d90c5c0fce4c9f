CONSTANTS
  Requests = {r1, r2}
  Workers = {w1, w2}
  Remote = {t1}
  Unset = Unset
  Events <- MCEvents
  Instants <- MCInstants
  Durations <- MCDurations
  Codes = {200, 500, 503}
  Reports <- MCReports
SPECIFICATION Spec
SYMMETRY Symmetry
INVARIANTS TypeOK LinesCarryOwnTrace LinesKeepTheirEvent SpansTellOutcome HealthTellsTheTruth
