--------------------------- MODULE RequestTraceProofs ---------------------------
(***************************************************************************)
(* The properties of RequestTrace for any requests, workers and events:    *)
(* no log line has another request's trace, lines and /health answers say  *)
(* what was logged and reported, and a span ends with its status.          *)
(***************************************************************************)
EXTENDS RequestTrace, CalendarProofs, SequenceTheorems

-------------------------------------------------------------------------------
(* The inductive invariant. *)

(* A request is polled by one worker, which has its spans entered and no    *)
(* others; a worker that polls none has none.                               *)
ThreadsAgree ==
  /\ \A r \in Requests : at[r] = "running" <=> worker[r] # Unset
  /\ \A r \in Requests : at[r] = "running" => current[worker[r]] = open[r]
  /\ \A r, s \in Requests : worker[r] # Unset /\ worker[r] = worker[s] => r = s
  /\ \A w \in Workers : Idle(w) => current[w] = <<>>

(* A path of spans that is all of one request, from its server span if it   *)
(* has one.                                                                 *)
Own(path, r) ==
  /\ path # <<>>
  /\ \A n \in DOMAIN path : path[n].of = r
  /\ (\E n \in DOMAIN path : path[n].name = "request") => path[1].name = "request"

SpansAreOwn ==
  /\ \A r \in Requests : \A n \in DOMAIN open[r] : Own(open[r][n], r)
  /\ \A r \in Requests : at[r] \in {"new", "answered", "dropped"} => open[r] = <<>>
  /\ \A r \in Requests :
       exporting /\ admits /\ at[r] \in {"running", "waiting"} => HasServerSpan(r)

StatusAtEnd ==
  \A r \in Requests : at[r] # "answered" => status[r] = Unset /\ answer[r] = Unset

IInv == TypeOK /\ ThreadsAgree /\ SpansAreOwn /\ StatusAtEnd /\ SpansTellOutcome

-------------------------------------------------------------------------------
(* Operators. *)

(* The current span of a thread is the last one entered.                    *)
LEMMA CurrentType ==
  ASSUME NEW w \in Workers, TypeOK
  PROVE  /\ Current(w) \in Seq(Spans)
         /\ current[w] # <<>> => /\ Len(current[w]) \in DOMAIN current[w]
                                 /\ Current(w) = current[w][Len(current[w])]
<1>1. current[w] \in Seq(Seq(Spans))
  BY DEF TypeOK
<1>2. current[w] # <<>> => Len(current[w]) \in 1..Len(current[w])
  BY <1>1, EmptySeq, LenProperties
<1> QED
  BY <1>1, <1>2, ElementOfSeq, EmptySeq DEF Current

(* A request's own path, and what a child makes of it.                      *)
LEMMA ChildIsOwn ==
  ASSUME NEW w \in Workers, NEW r \in Requests, NEW name \in {"request", "handler"},
         TypeOK,
         Current(w) # <<>> => Own(Current(w), r),
         name = "request" => Current(w) = <<>>
  PROVE  /\ Child(w, r, name) \in Seq(Spans)
         /\ Own(Child(w, r, name), r)
         /\ name = "request" => Child(w, r, name)[1].name = "request"
<1> DEFINE span == [of |-> r, name |-> name]
           c == Current(w)
           path == Append(c, span)
<1>1. c \in Seq(Spans) /\ span \in Spans
  BY CurrentType DEF Spans
<1> HIDE DEF c
<1>2. /\ path \in Seq(Spans) /\ Len(path) = Len(c) + 1
      /\ \A n \in 1..Len(c) : path[n] = c[n]
      /\ path[Len(c) + 1] = span
      /\ path # <<>>
  BY <1>1, AppendProperties
<1>3. Len(c) \in Nat /\ DOMAIN c = 1..Len(c) /\ DOMAIN path = 1..(Len(c) + 1)
  BY <1>1, <1>2, LenProperties
<1>4. c = <<>> => Len(c) = 0
  BY <1>1, EmptySeq
<1>5. c # <<>> => Len(c) >= 1 /\ Own(c, r)
  BY <1>1, <1>3, EmptySeq DEF c
<1>6. name = "request" => c = <<>>
  BY DEF c
<1>7. \A n \in DOMAIN path : path[n].of = r
  <2> SUFFICES ASSUME NEW n \in DOMAIN path PROVE path[n].of = r
    OBVIOUS
  <2>1. CASE n = Len(c) + 1
    BY <2>1, <1>2
  <2>2. CASE n \in 1..Len(c)
    BY <2>2, <1>2, <1>3, <1>4, <1>5 DEF Own
  <2> QED
    BY <2>1, <2>2, <1>3
<1>8. (\E n \in DOMAIN path : path[n].name = "request") => path[1].name = "request"
  <2>1. CASE c = <<>>
    BY <2>1, <1>2, <1>3, <1>4
  <2>2. CASE c # <<>>
    <3>1. span.name # "request"
      BY <2>2, <1>6
    <3> SUFFICES ASSUME NEW n \in DOMAIN path, path[n].name = "request"
                 PROVE  path[1].name = "request"
      OBVIOUS
    <3>2. n \in 1..Len(c)
      BY <3>1, <1>2, <1>3
    <3>3. c[n].name = "request" /\ 1 \in 1..Len(c)
      BY <3>2, <1>2, <1>3
    <3> QED
      BY <3>2, <3>3, <2>2, <1>2, <1>3, <1>5 DEF Own
  <2> QED
    BY <2>1, <2>2
<1>9. name = "request" => path[1].name = "request"
  BY <1>2, <1>3, <1>4, <1>6
<1> QED
  BY <1>2, <1>7, <1>8, <1>9 DEF Own, Child, c

(* Between polls a thread has no span entered: a poll enters those of its   *)
(* request on an empty thread, and its end empties it again.                *)
LEMMA EnterFills ==
  ASSUME NEW w \in Workers, NEW paths \in Seq(Seq(Spans)), TypeOK, ThreadsAgree,
         Idle(w), Enter(w, paths)
  PROVE  current' = [current EXCEPT ![w] = paths]
<1>1. current[w] = <<>>
  BY DEF ThreadsAgree
<1>2. current[w] \o paths = paths
  BY <1>1, ConcatEmptySeq
<1> QED
  BY <1>2 DEF Enter

LEMMA LeaveEmpties ==
  ASSUME NEW r \in Requests, at[r] = "running", TypeOK, ThreadsAgree, Leave(r)
  PROVE  current' = [current EXCEPT ![worker[r]] = <<>>]
<1>1. worker[r] \in Workers /\ current[worker[r]] = open[r]
  BY DEF ThreadsAgree, TypeOK
<1>2. open[r] \in Seq(Seq(Spans))
  BY DEF TypeOK
<1>3. SubSeq(open[r], 1, Len(open[r]) - Len(open[r])) = <<>>
  BY <1>2, SubSeqEmpty, LenProperties
<1> QED
  BY <1>1, <1>3 DEF Leave

-------------------------------------------------------------------------------
(* Every step keeps the invariant. *)

LEMMA InitInv == Init => IInv
<1> SUFFICES ASSUME Init PROVE IInv
  OBVIOUS
<1>1. TypeOK
  BY EmptySeq DEF Init, TypeOK
<1>2. ThreadsAgree
  BY DEF Init, ThreadsAgree
<1>3. SpansAreOwn
  BY DEF Init, SpansAreOwn
<1>4. StatusAtEnd /\ SpansTellOutcome
  BY DEF Init, StatusAtEnd, SpansTellOutcome
<1> QED
  BY <1>1, <1>2, <1>3, <1>4 DEF IInv

LEMMA BeginInv ==
  ASSUME NEW r \in Requests, NEW w \in Workers, IInv, Begin(r, w)
  PROVE  IInv'
<1> USE DEF IInv
<1> DEFINE opened == IF exporting /\ admits THEN <<Child(w, r, "request")>> ELSE <<>>
<1>1. Current(w) = <<>>
  BY DEF Begin, ThreadsAgree, Current
<1>2. Child(w, r, "request") \in Seq(Spans) /\ Own(Child(w, r, "request"), r)
      /\ Child(w, r, "request")[1].name = "request"
  BY <1>1, ChildIsOwn
<1>3. opened \in Seq(Seq(Spans))
  BY <1>2
<1>4. /\ \A n \in DOMAIN opened : Own(opened[n], r)
      /\ exporting /\ admits => opened # <<>> /\ opened[1][1].name = "request"
  BY <1>2
<1> HIDE DEF opened
<1>5. /\ at[r] = "new" /\ Idle(w)
      /\ at' = [at EXCEPT ![r] = "running"]
      /\ worker' = [worker EXCEPT ![r] = w]
      /\ open' = [open EXCEPT ![r] = opened]
      /\ Enter(w, opened)
      /\ UNCHANGED <<inputs, status, answer>>
  BY DEF Begin, opened
<1>6. current' = [current EXCEPT ![w] = opened]
  BY <1>3, <1>5, EnterFills
<1>7. TypeOK'
  BY <1>3, <1>5, <1>6 DEF TypeOK, inputs
<1>8. ThreadsAgree'
  BY <1>5, <1>6, UnsetAssumption DEF ThreadsAgree, TypeOK, Idle
<1>9. SpansAreOwn'
  BY <1>4, <1>5 DEF SpansAreOwn, TypeOK, inputs, HasServerSpan
<1>10. StatusAtEnd' /\ SpansTellOutcome'
  BY <1>5 DEF StatusAtEnd, SpansTellOutcome, TypeOK, inputs
<1> QED
  BY <1>7, <1>8, <1>9, <1>10

LEMMA OpenSpanInv ==
  ASSUME NEW r \in Requests, IInv, OpenSpan(r)
  PROVE  IInv'
<1> USE DEF IInv
<1> DEFINE w == worker[r]
           span == Child(w, r, "handler")
<1>1. w \in Workers /\ current[w] = open[r] /\ open[r] \in Seq(Seq(Spans))
  BY DEF OpenSpan, ThreadsAgree, TypeOK
<1>2. Current(w) # <<>> => Own(Current(w), r)
  BY <1>1, CurrentType DEF SpansAreOwn, Current
<1>3. span \in Seq(Spans) /\ Own(span, r)
  BY <1>1, <1>2, ChildIsOwn
<1> HIDE DEF span
<1>4. /\ Append(open[r], span) \in Seq(Seq(Spans))
      /\ Append(open[r], span) # <<>>
      /\ \A n \in DOMAIN Append(open[r], span) : Own(Append(open[r], span)[n], r)
      /\ open[r] # <<>> => Append(open[r], span)[1] = open[r][1]
  BY <1>1, <1>3, AppendProperties, LenProperties, EmptySeq DEF SpansAreOwn
<1>5. /\ at[r] = "running" /\ open' = [open EXCEPT ![r] = Append(@, span)]
      /\ current' = [current EXCEPT ![w] = @ \o <<span>>]
      /\ UNCHANGED <<inputs, at, worker, status, answer>>
  BY DEF OpenSpan, span, Enter
<1>6. open[r] \o <<span>> = Append(open[r], span)
  BY <1>1, <1>3, AppendIsConcat
<1>7. current' = [current EXCEPT ![w] = Append(open[r], span)]
  BY <1>1, <1>5, <1>6
<1>8. TypeOK'
  BY <1>4, <1>5, <1>7 DEF TypeOK, inputs
<1>9. ThreadsAgree'
  <2>1. UNCHANGED <<at, worker>> /\ w = worker[r] /\ at[r] = "running"
    BY <1>5
  <2>2. open'[r] = current'[w] /\ \A s \in Requests \ {r} : open'[s] = open[s]
    BY <1>1, <1>5, <1>7 DEF TypeOK
  <2>3. \A v \in Workers \ {w} : current'[v] = current[v]
    BY <1>7 DEF TypeOK
  <2>4. \A s \in Requests \ {r} : at[s] = "running" => worker[s] \in Workers \ {w}
    BY <2>1 DEF ThreadsAgree, TypeOK
  <2>5. \A s \in Requests : at'[s] = "running" => current'[worker'[s]] = open'[s]
    BY <2>1, <2>2, <2>3, <2>4 DEF ThreadsAgree
  <2>6. \A v \in Workers : Idle(v)' => current'[v] = <<>>
    BY <2>1, <2>3 DEF ThreadsAgree, Idle
  <2> QED
    BY <2>1, <2>5, <2>6 DEF ThreadsAgree
<1>10. SpansAreOwn'
  BY <1>4, <1>5 DEF SpansAreOwn, TypeOK, inputs, HasServerSpan
<1>11. StatusAtEnd' /\ SpansTellOutcome'
  BY <1>5 DEF StatusAtEnd, SpansTellOutcome, inputs
<1> QED
  BY <1>8, <1>9, <1>10, <1>11

LEMMA YieldInv ==
  ASSUME NEW r \in Requests, IInv, Yield(r)
  PROVE  IInv'
<1> USE DEF IInv
<1>1. /\ at[r] = "running" /\ worker[r] \in Workers
      /\ at' = [at EXCEPT ![r] = "waiting"]
      /\ worker' = [worker EXCEPT ![r] = Unset]
      /\ UNCHANGED <<inputs, open, status, answer>>
  BY DEF Yield, ThreadsAgree, TypeOK
<1>2. current' = [current EXCEPT ![worker[r]] = <<>>]
  BY LeaveEmpties DEF Yield
<1>3. TypeOK'
  BY <1>1, <1>2, EmptySeq DEF TypeOK, inputs
<1>4. ThreadsAgree'
  BY <1>1, <1>2, UnsetAssumption DEF ThreadsAgree, TypeOK, Idle
<1>5. SpansAreOwn'
  BY <1>1 DEF SpansAreOwn, TypeOK, inputs, HasServerSpan
<1>6. StatusAtEnd' /\ SpansTellOutcome'
  BY <1>1 DEF StatusAtEnd, SpansTellOutcome, TypeOK, inputs
<1> QED
  BY <1>3, <1>4, <1>5, <1>6

LEMMA ResumeInv ==
  ASSUME NEW r \in Requests, NEW w \in Workers, IInv, Resume(r, w)
  PROVE  IInv'
<1> USE DEF IInv
<1>1. /\ at[r] = "waiting" /\ Idle(w)
      /\ at' = [at EXCEPT ![r] = "running"]
      /\ worker' = [worker EXCEPT ![r] = w]
      /\ UNCHANGED <<inputs, open, status, answer>>
  BY DEF Resume
<1>2. current' = [current EXCEPT ![w] = open[r]]
  BY EnterFills DEF Resume, TypeOK
<1>3. TypeOK'
  BY <1>1, <1>2 DEF TypeOK, inputs
<1>4. ThreadsAgree'
  BY <1>1, <1>2, UnsetAssumption DEF ThreadsAgree, TypeOK, Idle
<1>5. SpansAreOwn'
  BY <1>1 DEF SpansAreOwn, TypeOK, inputs, HasServerSpan
<1>6. StatusAtEnd' /\ SpansTellOutcome'
  BY <1>1 DEF StatusAtEnd, SpansTellOutcome, TypeOK, inputs
<1> QED
  BY <1>3, <1>4, <1>5, <1>6

LEMMA AnsweredInv ==
  ASSUME NEW r \in Requests, NEW code \in Codes, IInv, Answered(r, code)
  PROVE  IInv'
<1> USE DEF IInv
<1>1. /\ at[r] = "running" /\ worker[r] \in Workers
      /\ at' = [at EXCEPT ![r] = "answered"]
      /\ worker' = [worker EXCEPT ![r] = Unset]
      /\ answer' = [answer EXCEPT ![r] = code]
      /\ status' = [status EXCEPT ![r] = IF HasServerSpan(r) THEN code ELSE @]
      /\ open' = [open EXCEPT ![r] = <<>>]
      /\ UNCHANGED inputs
  BY DEF Answered, ThreadsAgree, TypeOK
<1>2. current' = [current EXCEPT ![worker[r]] = <<>>]
  BY LeaveEmpties DEF Answered
<1>3. TypeOK'
  BY <1>1, <1>2, EmptySeq DEF TypeOK, inputs
<1>4. ThreadsAgree'
  BY <1>1, <1>2, UnsetAssumption DEF ThreadsAgree, TypeOK, Idle
<1>5. SpansAreOwn'
  BY <1>1 DEF SpansAreOwn, TypeOK, inputs, HasServerSpan
<1>6. StatusAtEnd'
  BY <1>1 DEF StatusAtEnd, TypeOK
<1>7. SpansTellOutcome'
  <2>1. status[r] = Unset
    BY <1>1 DEF StatusAtEnd
  <2>2. exporting /\ admits => HasServerSpan(r)
    BY <1>1 DEF SpansAreOwn
  <2> QED
    BY <1>1, <2>1, <2>2 DEF SpansTellOutcome, TypeOK, inputs
<1> QED
  BY <1>3, <1>4, <1>5, <1>6, <1>7

LEMMA CancelInv ==
  ASSUME NEW r \in Requests, IInv, Cancel(r)
  PROVE  IInv'
<1> USE DEF IInv
<1>1. /\ at[r] \in {"running", "waiting"}
      /\ at' = [at EXCEPT ![r] = "dropped"]
      /\ worker' = [worker EXCEPT ![r] = Unset]
      /\ open' = [open EXCEPT ![r] = <<>>]
      /\ UNCHANGED <<inputs, status, answer>>
  BY DEF Cancel
<1>2. TypeOK' /\ ThreadsAgree'
  <2>1. CASE at[r] = "running"
    <3>1. worker[r] \in Workers
      BY <2>1 DEF ThreadsAgree, TypeOK
    <3>2. current' = [current EXCEPT ![worker[r]] = <<>>]
      BY <2>1, LeaveEmpties DEF Cancel
    <3>3. TypeOK'
      BY <1>1, <3>2, EmptySeq DEF TypeOK, inputs
    <3> QED
      BY <1>1, <3>1, <3>2, <3>3, UnsetAssumption DEF ThreadsAgree, TypeOK, Idle
  <2>2. CASE at[r] = "waiting"
    <3>1. UNCHANGED current
      BY <2>2 DEF Cancel
    <3>2. TypeOK'
      BY <1>1, <3>1, EmptySeq DEF TypeOK, inputs
    <3>3. worker[r] = Unset
      BY <2>2 DEF ThreadsAgree
    <3> QED
      BY <1>1, <2>2, <3>1, <3>2, <3>3, UnsetAssumption DEF ThreadsAgree, TypeOK, Idle
  <2> QED
    BY <1>1, <2>1, <2>2
<1>3. SpansAreOwn'
  BY <1>1 DEF SpansAreOwn, TypeOK, inputs, HasServerSpan
<1>4. StatusAtEnd' /\ SpansTellOutcome'
  BY <1>1 DEF StatusAtEnd, SpansTellOutcome, TypeOK, inputs
<1> QED
  BY <1>2, <1>3, <1>4

(* What health::response answers with, and the keys of its body.            *)
LEMMA ResponseKeys ==
  ASSUME NEW report \in Report, NEW uptime \in Nat
  PROVE  LET body == response(report, uptime)
         IN  /\ body.code = IF report.ok THEN 200 ELSE 503
             /\ body.traces = exporting
             /\ body.uptime = to_iso8601(uptime)
<1>1. DOMAIN Checks(report) \subseteq {"checks"}
  BY DEF Checks
<1> QED
  BY <1>1 DEF response, Inserted

LEMMA StepInv == IInv /\ [Next]_vars => IInv'
<1> SUFFICES ASSUME IInv, [Next]_vars PROVE IInv'
  OBVIOUS
<1>1. ASSUME NEW r \in Requests, NEW w \in Workers, Begin(r, w) \/ Resume(r, w)
      PROVE  IInv'
  BY <1>1, BeginInv, ResumeInv
<1>2. ASSUME NEW r \in Requests, OpenSpan(r) \/ Yield(r) \/ Cancel(r)
      PROVE  IInv'
  BY <1>2, OpenSpanInv, YieldInv, CancelInv
<1>3. ASSUME NEW r \in Requests, Respond(r) PROVE IInv'
  BY <1>3, AnsweredInv DEF Respond
<1>4. ASSUME NEW r \in Requests, RespondHealth(r) PROVE IInv'
  <2>1. PICK report \in Reports, uptime \in Durations :
          Answered(r, response(report, uptime).code)
    BY <1>4 DEF RespondHealth
  <2>2. response(report, uptime).code \in {200, 503}
    BY ResponseKeys, EventsAssumption, TimesAssumption
  <2> QED
    BY <2>1, <2>2, AnsweredInv, CodesAssumption
<1>5. ASSUME UNCHANGED <<inputs, requests>> PROVE IInv'
  BY <1>5 DEF IInv, TypeOK, ThreadsAgree, SpansAreOwn, StatusAtEnd, SpansTellOutcome,
              Idle, HasServerSpan, Own, inputs, requests
<1> QED
  BY <1>1, <1>2, <1>3, <1>4, <1>5
  DEF Next, RequestStep, Log, LogInBackground, Finished, vars

LEMMA Invariant == Spec => []IInv
BY InitInv, StepInv, PTL DEF Spec

(* Variables keep their types for any requests and workers.                 *)
THEOREM TypeCorrect == Spec => []TypeOK
<1>1. IInv => TypeOK
  BY DEF IInv
<1> QED
  BY Invariant, <1>1, PTL

(* otel.rs:238-239: every ended server span has its response's status.      *)
THEOREM OutcomesAreTold == Spec => []SpansTellOutcome
<1>1. IInv => SpansTellOutcome
  BY DEF IInv
<1> QED
  BY Invariant, <1>1, PTL

-------------------------------------------------------------------------------
(* What a step writes. *)

(* The keys of a line logged in a path of spans, and the values of those    *)
(* the program inserts.                                                     *)
EntryOf(e, path, event, now) ==
  /\ DOMAIN e = Visited(event) \cup FixedKeys
                  \cup (IF path # <<>> THEN {"spans"} ELSE {})
                  \cup (IF event.located THEN {Location} ELSE {})
                  \cup (IF path # <<>> /\ exporting THEN TraceKeys ELSE {})
  /\ path # <<>> => e["spans"] = path
  /\ path # <<>> /\ exporting => e[Google] = TraceOf(path[Len(path)].of)
  /\ e["severity"] = severity(event.level)
  /\ e["time"] = rfc3339(now)
  /\ e["message"] = IF IsText(event.message) THEN "event" ELSE ""
  /\ \A key \in event.fields \ (FixedKeys \cup TraceKeys \cup {"spans", Location}) :
       e[key] = "event"

LEMMA EntryValues ==
  ASSUME NEW event \in Event, NEW w \in Workers, NEW now \in Int
  PROVE  EntryOf(format_event(event, w, now), Current(w), event, now)
<1> DEFINE e == format_event(event, w, now)
           f == fields(event)
           s == spans(w)
           x == fixed(event, now)
           l == location(event)
           t == correlate_trace(w)
           Entry == Inserted(Inserted(Inserted(Inserted(f, s), x), l), t)
<1>1. /\ DOMAIN f = Visited(event)
      /\ \A key \in Visited(event) : f[key] = "event"
  BY DEF fields
<1>2. /\ DOMAIN s = IF Current(w) # <<>> THEN {"spans"} ELSE {}
      /\ Current(w) # <<>> => s["spans"] = Current(w)
  BY DEF spans
<1>3. /\ DOMAIN x = FixedKeys
      /\ x["severity"] = severity(event.level)
      /\ x["time"] = rfc3339(now)
      /\ x["message"] = IF IsText(event.message) THEN "event" ELSE ""
  BY DEF fixed, FixedKeys
<1>4. DOMAIN l = IF event.located THEN {Location} ELSE {}
  BY DEF location
<1>5. /\ DOMAIN t = IF Current(w) # <<>> /\ exporting THEN TraceKeys ELSE {}
      /\ Current(w) # <<>> /\ exporting =>
           t[Google] = TraceOf(Current(w)[Len(Current(w))].of)
  <2>1. Google \in TraceKeys /\ Google \in TraceIds /\ TraceIds \cap SpanIds = {}
    BY DEF TraceKeys, TraceIds, SpanIds, Google
  <2>2. DOMAIN t = IF Current(w) = <<>> \/ ~exporting THEN {} ELSE TraceKeys
    BY Zenon DEF correlate_trace
  <2>3. \A key \in DOMAIN t : key \in TraceIds =>
          t[key] = TraceOf(Current(w)[Len(Current(w))].of)
    BY <2>1 DEF correlate_trace
  <2> HIDE DEF t
  <2> QED
    BY <2>1, <2>2, <2>3
<1>6. e = Entry
  BY DEF format_event
<1> HIDE DEF f, s, x, l, t
<1> USE DEF Inserted
<1>7. DOMAIN e = DOMAIN f \cup DOMAIN s \cup DOMAIN x \cup DOMAIN l \cup DOMAIN t
  BY <1>6
<1>8. \A key \in DOMAIN e :
        e[key] = IF key \in DOMAIN t THEN t[key] ELSE
                 IF key \in DOMAIN l THEN l[key] ELSE
                 IF key \in DOMAIN x THEN x[key] ELSE
                 IF key \in DOMAIN s THEN s[key] ELSE f[key]
  BY <1>6
<1> HIDE DEF Entry, e
<1>9. /\ "severity" \in FixedKeys /\ "time" \in FixedKeys /\ "message" \in FixedKeys
      /\ Google \in TraceKeys
      /\ FixedKeys \cap TraceKeys = {} /\ Location \notin TraceKeys
      /\ Location \notin FixedKeys /\ "spans" \notin FixedKeys \cup TraceKeys
      /\ Location # "spans"
  BY DEF FixedKeys, TraceKeys, TraceIds, SpanIds, Google, Location
<1>10. DOMAIN e = Visited(event) \cup FixedKeys
                         \cup (IF Current(w) # <<>> THEN {"spans"} ELSE {})
                         \cup (IF event.located THEN {Location} ELSE {})
                         \cup (IF Current(w) # <<>> /\ exporting THEN TraceKeys ELSE {})
  BY <1>1, <1>2, <1>3, <1>4, <1>5, <1>7
<1>11. Current(w) # <<>> => e["spans"] = Current(w)
  BY <1>2, <1>3, <1>4, <1>5, <1>7, <1>8, <1>9
<1>12. Current(w) # <<>> /\ exporting =>
              e[Google] = TraceOf(Current(w)[Len(Current(w))].of)
  BY <1>5, <1>7, <1>8, <1>9
<1>13. /\ e["severity"] = severity(event.level)
       /\ e["time"] = rfc3339(now)
       /\ e["message"] = IF IsText(event.message) THEN "event" ELSE ""
  BY <1>3, <1>4, <1>5, <1>7, <1>8, <1>9
<1>14. \A key \in event.fields \ (FixedKeys \cup TraceKeys \cup {"spans", Location}) :
              e[key] = "event"
  BY <1>1, <1>2, <1>3, <1>4, <1>5, <1>7, <1>8 DEF Visited
<1> QED
  BY <1>10, <1>11, <1>12, <1>13, <1>14 DEF e, EntryOf

(* A line logged while r is polled has r's spans, one logged while no       *)
(* request is polled has none.                                              *)
LEMMA LineIsOwn ==
  ASSUME NEW by \in Requests \cup {Unset}, NEW w \in Workers, IInv,
         IF by = Unset THEN Idle(w) ELSE at[by] = "running" /\ w = worker[by],
         WriteLine(by, w), UNCHANGED inputs
  PROVE  LinesCarryOwnTrace'
<1> USE DEF IInv
<1>1. PICK event \in Events, now \in Instants :
        out' = [wrote |-> "line", by |-> by, entry |-> format_event(event, w, now),
                event |-> event, now |-> now]
  BY DEF WriteLine
<1> DEFINE e == format_event(event, w, now)
           c == Current(w)
<1>2. event \in Event /\ now \in Int
  BY EventsAssumption, TimesAssumption
<1>3. by = Unset => c = <<>>
  BY DEF ThreadsAgree, Current
<1>4. c # <<>> => by \in Requests /\ Own(c, by)
  <2> SUFFICES ASSUME c # <<>> PROVE by \in Requests /\ Own(c, by)
    OBVIOUS
  <2>1. by \in Requests /\ current[w] = open[by] /\ current[w] # <<>>
    BY <1>3 DEF ThreadsAgree, Current
  <2> QED
    BY <2>1, CurrentType DEF SpansAreOwn
<1>5. c # <<>> => c[Len(c)].of = by /\ Len(c) \in DOMAIN c
  <2>1. c \in Seq(Spans)
    BY CurrentType
  <2>2. c # <<>> => Len(c) \in 1..Len(c) /\ DOMAIN c = 1..Len(c)
    BY <2>1, EmptySeq, LenProperties
  <2> QED
    BY <1>4, <2>2 DEF Own
<1>6. by # Unset /\ exporting /\ admits => c # <<>>
  <2> SUFFICES ASSUME by # Unset, exporting, admits PROVE c # <<>>
    OBVIOUS
  <2>1. by \in Requests /\ HasServerSpan(by) /\ current[w] = open[by]
    BY DEF SpansAreOwn, ThreadsAgree
  <2>2. current[w] # <<>>
    BY <2>1 DEF HasServerSpan
  <2>3. c = open[by][Len(open[by])] /\ Len(open[by]) \in DOMAIN open[by]
    BY <2>1, <2>2, CurrentType
  <2> QED
    BY <2>1, <2>3 DEF SpansAreOwn, Own
<1>7. "message" # Google /\ "message" # "spans" /\ "spans" # Google
      /\ Google # Location /\ "spans" # Location
      /\ Google \in TraceKeys /\ Google \notin FixedKeys /\ "spans" \notin FixedKeys \cup TraceKeys
  BY DEF Google, Location, TraceKeys, TraceIds, SpanIds, FixedKeys
<1>8. /\ Google \in DOMAIN e <=> Google \in event.fields \/ (c # <<>> /\ exporting)
      /\ "spans" \in DOMAIN e <=> "spans" \in event.fields \/ c # <<>>
      /\ c # <<>> => e["spans"] = c
      /\ c # <<>> /\ exporting => e[Google] = TraceOf(by)
  <2>1. EntryOf(e, c, event, now)
    BY <1>2, EntryValues, Zenon
  <2> HIDE DEF e, c
  <2>2. \A key : key # "message" => (key \in Visited(event) <=> key \in event.fields)
    BY DEF Visited
  <2> QED
    BY <1>5, <1>7, <2>1, <2>2 DEF EntryOf
<1> HIDE DEF e, c
<1>9. out'.by = by /\ out'.entry = e /\ out'.event = event
  BY <1>1 DEF e
<1>10. TraceOf(by)' = TraceOf(by) /\ exporting' = exporting /\ admits' = admits
  BY DEF TraceOf, inputs
<1>11. TraceOf(out.by)' = TraceOf(by)
  BY <1>9 DEF TraceOf, inputs
<1> QED
  BY <1>3, <1>4, <1>6, <1>8, <1>9, <1>10, <1>11 DEF LinesCarryOwnTrace, Own

LEMMA LineIsKept ==
  ASSUME NEW by, NEW w \in Workers, WriteLine(by, w)
  PROVE  LinesKeepTheirEvent'
<1>1. PICK event \in Events, now \in Instants :
        out' = [wrote |-> "line", by |-> by, entry |-> format_event(event, w, now),
                event |-> event, now |-> now]
  BY DEF WriteLine
<1> DEFINE e == format_event(event, w, now)
<1>2. event \in Event /\ now \in Int
  BY EventsAssumption, TimesAssumption
<1>3. /\ FixedKeys \cup event.fields \subseteq DOMAIN e
      /\ e["severity"] = severity(event.level)
      /\ e["time"] = rfc3339(now)
      /\ e["message"] = IF IsText(event.message) THEN "event" ELSE ""
      /\ \A key \in event.fields \ (FixedKeys \cup TraceKeys \cup {"spans", Location}) :
           e[key] = "event"
  <2>1. EntryOf(e, Current(w), event, now)
    BY <1>2, EntryValues, Zenon
  <2>2. event.fields \subseteq Visited(event)
    BY DEF Visited
  <2> HIDE DEF e
  <2> QED
    BY <2>1, <2>2 DEF EntryOf
<1>4. now >= 0 => ReadStamp(rfc3339(now)) = now
  BY <1>2, StampsReadBack
<1>5. IsDate(rfc3339(now).date)
  <2> DEFINE seconds == IF now < 0 THEN 0 ELSE now
             day == seconds \div 86400
  <2>1. day \in Nat
    BY <1>2
  <2>2. rfc3339(now).date = civil_from_days(day)
    BY DEF rfc3339
  <2> HIDE DEF day
  <2> QED
    BY <2>1, <2>2, CivilDates
<1> HIDE DEF e
<1>6. out'.entry = e /\ out'.event = event /\ out'.now = now
  BY <1>1 DEF e
<1> QED
  BY <1>3, <1>4, <1>5, <1>6 DEF LinesKeepTheirEvent

(* The units to_iso8601 writes: one at least, and no zeros but that of a    *)
(* duration of nothing.                                                     *)
LEMMA UnitsWritten ==
  ASSUME NEW duration \in Nat
  PROVE  LET written == to_iso8601(duration)
         IN  /\ DOMAIN written # {}
             /\ \A unit \in DOMAIN written : written[unit] > 0 \/ duration = 0
<1> DEFINE whole == duration \div 1000
           days == whole \div 86400
           hours == (whole % 86400) \div 3600
           mins == (whole % 3600) \div 60
           secs == whole % 60
           millis == duration % 1000
           iso == to_iso8601(duration)
<1>1. /\ days \in Nat /\ hours \in Nat /\ mins \in Nat /\ secs \in Nat /\ millis \in Nat
      /\ duration = ((days * 24 + hours) * 60 + mins) * 60000 + secs * 1000 + millis
  BY UnitsOfDuration
<1> HIDE DEF days, hours, mins, secs, millis
<1>2. ASSUME NEW unit \in DOMAIN iso PROVE unit \in {"D", "H", "M", "S"}
  BY DEF to_iso8601
<1>3. "D" \in DOMAIN iso => iso["D"] > 0
  BY <1>1 DEF to_iso8601, days
<1>4. "H" \in DOMAIN iso => iso["H"] > 0
  BY <1>1 DEF to_iso8601, hours
<1>5. "M" \in DOMAIN iso => iso["M"] > 0
  BY <1>1 DEF to_iso8601, mins
<1>6. /\ "D" \in DOMAIN iso <=> days > 0
      /\ "H" \in DOMAIN iso <=> hours > 0
      /\ "M" \in DOMAIN iso <=> mins > 0
  BY DEF to_iso8601, days, hours, mins
<1>7. /\ "S" \in DOMAIN iso <=>
           millis > 0 \/ secs > 0 \/ (days = 0 /\ hours = 0 /\ mins = 0)
      /\ "S" \in DOMAIN iso => iso["S"] = secs * 1000 + millis
  BY <1>1 DEF to_iso8601, days, hours, mins, secs, millis
<1> HIDE DEF iso
<1>8. DOMAIN iso # {}
  BY <1>1, <1>6, <1>7
<1>9. "S" \in DOMAIN iso => iso["S"] > 0 \/ duration = 0
  BY <1>1, <1>7
<1> QED
  BY <1>2, <1>3, <1>4, <1>5, <1>8, <1>9 DEF iso

LEMMA HealthIsTold ==
  ASSUME NEW r \in Requests, IInv, RespondHealth(r)
  PROVE  HealthTellsTheTruth'
<1>1. PICK report \in Reports, uptime \in Durations :
        /\ Answered(r, response(report, uptime).code)
        /\ out' = [wrote |-> "health", by |-> r, body |-> response(report, uptime),
                   report |-> report, uptime |-> uptime]
  BY DEF RespondHealth
<1> DEFINE body == response(report, uptime)
<1>2. report \in Report /\ uptime \in Nat
  BY EventsAssumption, TimesAssumption
<1>3. /\ body.code = IF report.ok THEN 200 ELSE 503
      /\ body.traces = exporting
      /\ body.uptime = to_iso8601(uptime)
  BY <1>2, ResponseKeys
<1>4. answer'[r] = body.code /\ exporting' = exporting
  BY <1>1 DEF Answered, IInv, TypeOK, inputs
<1>5. ReadDuration(to_iso8601(uptime)) = uptime
  BY <1>2, DurationsReadBack
<1>6. /\ DOMAIN to_iso8601(uptime) # {}
      /\ \A unit \in DOMAIN to_iso8601(uptime) : to_iso8601(uptime)[unit] > 0 \/ uptime = 0
  BY <1>2, UnitsWritten
<1> HIDE DEF body
<1>7. out'.by = r /\ out'.body = body /\ out'.report = report /\ out'.uptime = uptime
  BY <1>1 DEF body
<1> QED
  BY <1>3, <1>4, <1>5, <1>6, <1>7 DEF HealthTellsTheTruth

Written == LinesCarryOwnTrace /\ LinesKeepTheirEvent /\ HealthTellsTheTruth

LEMMA InitWritten == Init => Written
BY DEF Init, Written, LinesCarryOwnTrace, LinesKeepTheirEvent, HealthTellsTheTruth, IsLine

LEMMA StepWritten == IInv /\ Written /\ [Next]_vars => Written'
<1> SUFFICES ASSUME IInv, Written, [Next]_vars PROVE Written'
  OBVIOUS
<1> USE DEF Written
<1>1. ASSUME out' = Unset PROVE Written'
  BY <1>1 DEF LinesCarryOwnTrace, LinesKeepTheirEvent, HealthTellsTheTruth, IsLine
<1>2. ASSUME NEW r \in Requests, RespondHealth(r) PROVE Written'
  <2>1. out'.wrote = "health"
    BY <1>2 DEF RespondHealth
  <2> QED
    BY <1>2, <2>1, HealthIsTold DEF LinesCarryOwnTrace, LinesKeepTheirEvent, IsLine
<1>3. ASSUME NEW by \in Requests \cup {Unset}, NEW w \in Workers,
             IF by = Unset THEN Idle(w) ELSE at[by] = "running" /\ w = worker[by],
             WriteLine(by, w), UNCHANGED inputs
      PROVE  Written'
  <2>1. out'.wrote = "line"
    BY <1>3 DEF WriteLine
  <2>2. HealthTellsTheTruth'
    BY <2>1 DEF HealthTellsTheTruth
  <2> QED
    BY <1>3, <2>2, LineIsOwn, LineIsKept
<1>4. ASSUME NEW r \in Requests, Log(r) PROVE Written'
  <2>1. worker[r] \in Workers /\ r # Unset
    BY <1>4, UnsetAssumption DEF Log, IInv, ThreadsAgree, TypeOK
  <2> QED
    BY <1>3, <1>4, <2>1 DEF Log
<1>5. ASSUME NEW w \in Workers, LogInBackground(w) PROVE Written'
  BY <1>3, <1>5 DEF LogInBackground
<1>6. ASSUME UNCHANGED vars PROVE Written'
  BY <1>6 DEF LinesCarryOwnTrace, LinesKeepTheirEvent, HealthTellsTheTruth, IsLine,
              TraceOf, vars, inputs, requests
<1> QED
  BY <1>1, <1>2, <1>4, <1>5, <1>6
  DEF Next, RequestStep, Begin, Resume, OpenSpan, Yield, Respond, Cancel, Finished

LEMMA WrittenInvariant == Spec => []Written
BY Invariant, InitWritten, StepWritten, PTL DEF Spec

(* lib.rs:100-102: whatever requests a worker polls in turns, a line has    *)
(* the trace and the spans of the request it is logged for.                 *)
THEOREM TracesAreOwn == Spec => []LinesCarryOwnTrace
<1>1. Written => LinesCarryOwnTrace
  BY DEF Written
<1> QED
  BY WrittenInvariant, <1>1, PTL

(* logging.rs:3-4 and 48: lines keep the fixed keys, the instant and every  *)
(* field of their event, whatever its fields are called.                    *)
THEOREM EventsAreKept == Spec => []LinesKeepTheirEvent
<1>1. Written => LinesKeepTheirEvent
  BY DEF Written
<1> QED
  BY WrittenInvariant, <1>1, PTL

(* health.rs:24-30: /health answers what the check reported, with an uptime *)
(* that reads back as it was.                                               *)
THEOREM HealthIsTrue == Spec => []HealthTellsTheTruth
<1>1. Written => HealthTellsTheTruth
  BY DEF Written
<1> QED
  BY WrittenInvariant, <1>1, PTL
================================================================================
