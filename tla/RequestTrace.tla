------------------------------ MODULE RequestTrace ------------------------------
(***************************************************************************)
(* What a request leaves behind besides its response: the server span of   *)
(* trace_request (otel.rs), the JSON lines its code logs (logging.rs) with *)
(* the spans and the trace they are logged in, and the answer of /health   *)
(* (health.rs). Requests are futures that workers poll in turns; a span is *)
(* entered on the worker's thread for the time of a poll.                  *)
(***************************************************************************)
EXTENDS Calendar, Sequences

CONSTANTS
  Requests,
  Workers,    \* the threads of the runtime
  Remote,     \* the traces a traceparent header may name
  Unset,      \* no worker, no trace, no status, nothing written
  Events,     \* what the program logs
  Instants,   \* readings of the clock, in seconds since the epoch
  Durations,  \* uptimes, in milliseconds
  Codes,      \* status codes of handlers
  Reports     \* what health checks return

Event == [fields: SUBSET STRING, message: {"str", "debug", "i64", "error", "none"},
          level: {"TRACE", "DEBUG", "INFO", "WARN", "ERROR"}, located: BOOLEAN]
Report == [status: STRING, ok: BOOLEAN, checks: BOOLEAN]

ASSUME UnsetAssumption == Unset \notin Requests \cup Workers \cup Remote \cup Codes
ASSUME RemoteAssumption == Remote \cap Requests = {}
ASSUME EventsAssumption == Events \subseteq Event /\ Reports \subseteq Report
ASSUME TimesAssumption == Instants \subseteq Int /\ Durations \subseteq Nat
ASSUME CodesAssumption == {200, 503} \subseteq Codes

VARIABLES
  exporting,  \* traces_active(): the middleware is in the router
  admits,     \* RUST_LOG lets a span of level INFO through
  health,     \* the requests for /health
  parent,     \* the trace in a request's traceparent header
  at,         \* where each request's future is
  worker,     \* the thread that polls it
  open,       \* its open spans: each the path of spans from its root
  current,    \* the spans entered on each thread
  status,     \* http.response.status_code of its server span
  answer,     \* the status code of its response
  out         \* what the last step wrote: a log line or a /health response

inputs == <<exporting, admits, health, parent>>
requests == <<at, worker, open, current, status, answer>>
vars == <<inputs, requests, out>>

Spans == [of: Requests, name: {"request", "handler"}]

TypeOK ==
  /\ exporting \in BOOLEAN
  /\ admits \in BOOLEAN
  /\ health \in SUBSET Requests
  /\ parent \in [Requests -> Remote \cup {Unset}]
  /\ at \in [Requests -> {"new", "running", "waiting", "answered", "dropped"}]
  /\ worker \in [Requests -> Workers \cup {Unset}]
  /\ open \in [Requests -> Seq(Seq(Spans))]
  /\ current \in [Workers -> Seq(Seq(Spans))]
  /\ status \in [Requests -> Codes \cup {Unset}]
  /\ answer \in [Requests -> Codes \cup {Unset}]

Init ==
  /\ exporting \in BOOLEAN
  /\ admits \in BOOLEAN
  /\ health \in SUBSET Requests
  /\ parent \in [Requests -> Remote \cup {Unset}]
  /\ at = [r \in Requests |-> "new"]
  /\ worker = [r \in Requests |-> Unset]
  /\ open = [r \in Requests |-> <<>>]
  /\ current = [w \in Workers |-> <<>>]
  /\ status = [r \in Requests |-> Unset]
  /\ answer = [r \in Requests |-> Unset]
  /\ out = Unset

Idle(w) == \A r \in Requests : worker[r] # w

(* Span::current(), as the path from its root.                              *)
Current(w) == IF current[w] = <<>> THEN <<>> ELSE current[w][Len(current[w])]

(* Mutant: a span is known by the thread it was opened on.                  *)
Child_OfThread(w, r, name) == Append(Current(w), [of |-> w, name |-> name])

(* A span opened on w is the child of the current one.                      *)
Child(w, r, name) == Append(Current(w), [of |-> r, name |-> name])

Enter(w, paths) == current' = [current EXCEPT ![w] = @ \o paths]

(* The guards of one poll are dropped: the thread is as it was before.      *)
Leave(r) ==
  current' = [current EXCEPT ![worker[r]] = SubSeq(@, 1, Len(@) - Len(open[r]))]

-------------------------------------------------------------------------------
(* trace_request around a handler. *)

(* The request span, where it is created, is in the future from now on and  *)
(* entered for each poll; its parent in the trace is the header's.          *)
Begin(r, w) ==
  /\ at[r] = "new"
  /\ Idle(w)
  /\ at' = [at EXCEPT ![r] = "running"]
  /\ worker' = [worker EXCEPT ![r] = w]
  /\ LET opened == IF exporting /\ admits THEN <<Child(w, r, "request")>> ELSE <<>>
     IN  open' = [open EXCEPT ![r] = opened] /\ Enter(w, opened)
  /\ out' = Unset
  /\ UNCHANGED <<inputs, status, answer>>

(* A handler with a span of its own.                                        *)
OpenSpan(r) ==
  /\ at[r] = "running"
  /\ admits
  /\ \A n \in DOMAIN open[r] : open[r][n][Len(open[r][n])].name # "handler"
  /\ LET span == Child(worker[r], r, "handler")
     IN  open' = [open EXCEPT ![r] = Append(@, span)] /\ Enter(worker[r], <<span>>)
  /\ out' = Unset
  /\ UNCHANGED <<inputs, at, worker, status, answer>>

(* Mutant: the span is entered once, its guard held across the await.       *)
Yield_HoldsGuard(r) ==
  /\ at[r] = "running"
  /\ at' = [at EXCEPT ![r] = "waiting"]
  /\ worker' = [worker EXCEPT ![r] = Unset]
  /\ out' = Unset
  /\ UNCHANGED <<inputs, open, current, status, answer>>

(* An await inside the handler, or inside a health check.                   *)
Yield(r) ==
  /\ at[r] = "running"
  /\ at' = [at EXCEPT ![r] = "waiting"]
  /\ worker' = [worker EXCEPT ![r] = Unset]
  /\ Leave(r)
  /\ out' = Unset
  /\ UNCHANGED <<inputs, open, status, answer>>

(* Any worker may poll it next.                                             *)
Resume(r, w) ==
  /\ at[r] = "waiting"
  /\ Idle(w)
  /\ at' = [at EXCEPT ![r] = "running"]
  /\ worker' = [worker EXCEPT ![r] = w]
  /\ Enter(w, open[r])
  /\ out' = Unset
  /\ UNCHANGED <<inputs, open, status, answer>>

HasServerSpan(r) == open[r] # <<>> /\ open[r][1][1].name = "request"

(* Mutant: a failed response leaves the span without its status.            *)
Answered_OkOnly(r, code) ==
  /\ at[r] = "running"
  /\ at' = [at EXCEPT ![r] = "answered"]
  /\ worker' = [worker EXCEPT ![r] = Unset]
  /\ Leave(r)
  /\ answer' = [answer EXCEPT ![r] = code]
  /\ status' = [status EXCEPT ![r] = IF HasServerSpan(r) /\ code = 200 THEN code ELSE @]
  /\ open' = [open EXCEPT ![r] = <<>>]
  /\ UNCHANGED inputs

(* next.run has returned: the status goes into the span, which then ends.   *)
Answered(r, code) ==
  /\ at[r] = "running"
  /\ at' = [at EXCEPT ![r] = "answered"]
  /\ worker' = [worker EXCEPT ![r] = Unset]
  /\ Leave(r)
  /\ answer' = [answer EXCEPT ![r] = code]
  /\ status' = [status EXCEPT ![r] = IF HasServerSpan(r) THEN code ELSE @]
  /\ open' = [open EXCEPT ![r] = <<>>]
  /\ UNCHANGED inputs

Respond(r) ==
  /\ r \notin health
  /\ \E code \in Codes : Answered(r, code)
  /\ out' = Unset

(* A JSON object after more keys are inserted: the later value wins.        *)
Inserted(object, more) ==
  [key \in DOMAIN object \cup DOMAIN more |->
     IF key \in DOMAIN more THEN more[key] ELSE object[key]]

Checks(report) == IF report.checks THEN [checks |-> TRUE] ELSE <<>>

(* Mutant: 200 whatever the status says.                                    *)
response_Always200(report, uptime) ==
  Inserted([code |-> 200, status |-> report.status, uptime |-> to_iso8601(uptime),
            traces |-> exporting], Checks(report))

(* health::response: the status code and the keys of its body.              *)
response(report, uptime) ==
  Inserted([code |-> IF report.ok THEN 200 ELSE 503, status |-> report.status,
            uptime |-> to_iso8601(uptime), traces |-> exporting], Checks(report))

(* The built-in route: the registered check's report, or Status::OK.        *)
RespondHealth(r) ==
  /\ r \in health
  /\ \E report \in Reports, uptime \in Durations :
       LET body == response(report, uptime)
       IN  /\ Answered(r, body.code)
           /\ out' = [wrote |-> "health", by |-> r, body |-> body,
                      report |-> report, uptime |-> uptime]

(* The future is dropped at an await, or by a panic while it is polled.     *)
Cancel(r) ==
  /\ at[r] \in {"running", "waiting"}
  /\ IF at[r] = "running" THEN Leave(r) ELSE UNCHANGED current
  /\ at' = [at EXCEPT ![r] = "dropped"]
  /\ worker' = [worker EXCEPT ![r] = Unset]
  /\ open' = [open EXCEPT ![r] = <<>>]
  /\ out' = Unset
  /\ UNCHANGED <<inputs, status, answer>>

-------------------------------------------------------------------------------
(* CloudJson::format_event. *)

severity(level) == CASE level \in {"TRACE", "DEBUG"} -> "DEBUG"
                     [] level = "WARN" -> "WARNING"
                     [] OTHER -> level

(* Visitor: `message` is set apart where it is recorded as a string or by   *)
(* Debug, and is a field like any other where it is a number or an error.   *)
IsText(message) == message \in {"str", "debug"}

Visited(event) ==
  event.fields \cup (IF event.message \in {"i64", "error"} THEN {"message"} ELSE {})

(* The trace of a request's spans: the header's, or one of its own.         *)
TraceOf(r) == IF parent[r] # Unset THEN parent[r] ELSE r

Google == "logging.googleapis.com/trace"
Location == "logging.googleapis.com/sourceLocation"
TraceIds == {Google, "trace_id"}
SpanIds == {"logging.googleapis.com/spanId", "span_id"}
TraceKeys == TraceIds \cup SpanIds \cup {"logging.googleapis.com/trace_sampled"}

(* Spans have a trace only when they are exported.                          *)
correlate_trace(w) ==
  [key \in IF Current(w) = <<>> \/ ~exporting THEN {} ELSE TraceKeys |->
     CASE key \in TraceIds -> TraceOf(Current(w)[Len(Current(w))].of)
       [] key \in SpanIds -> Current(w)
       [] OTHER -> "flag"]

fields(event) == [key \in Visited(event) |-> "event"]

spans(w) == IF Current(w) = <<>> THEN <<>> ELSE [spans |-> Current(w)]

fixed(event, now) ==
  [severity |-> severity(event.level),
   time |-> rfc3339(now),
   message |-> IF IsText(event.message) THEN "event" ELSE "",
   target |-> "meta"]

location(event) == [key \in IF event.located THEN {Location} ELSE {} |-> "meta"]

(* Mutant: the event's own fields are inserted last.                        *)
format_event_FieldsWin(event, w, now) ==
  Inserted(Inserted(Inserted(Inserted(
    spans(w), fixed(event, now)), location(event)), correlate_trace(w)), fields(event))

(* The event's fields first: the keys inserted after them win.              *)
format_event(event, w, now) ==
  Inserted(Inserted(Inserted(Inserted(
    fields(event), spans(w)), fixed(event, now)), location(event)), correlate_trace(w))

WriteLine(by, w) ==
  \E event \in Events, now \in Instants :
    out' = [wrote |-> "line", by |-> by, entry |-> format_event(event, w, now),
            event |-> event, now |-> now]

Log(r) ==
  /\ at[r] = "running"
  /\ WriteLine(r, worker[r])
  /\ UNCHANGED <<inputs, requests>>

(* A task outside any request.                                              *)
LogInBackground(w) ==
  /\ Idle(w)
  /\ WriteLine(Unset, w)
  /\ UNCHANGED <<inputs, requests>>

(* Not a step of the program: every request is over.                        *)
Finished == (\A r \in Requests : at[r] \in {"answered", "dropped"}) /\ UNCHANGED vars

RequestStep(r) ==
  \/ OpenSpan(r)
  \/ Yield(r)
  \/ Respond(r)
  \/ RespondHealth(r)
  \/ Cancel(r)
  \/ Log(r)

Next ==
  \/ \E r \in Requests : RequestStep(r)
  \/ \E r \in Requests, w \in Workers : Begin(r, w) \/ Resume(r, w)
  \/ \E w \in Workers : LogInBackground(w)
  \/ Finished

Spec == Init /\ [][Next]_vars

-------------------------------------------------------------------------------
(* Properties. *)

IsLine == out # Unset /\ out.wrote = "line"

(* lib.rs:100-102: a line logged for a request has the request's trace and  *)
(* nothing but its spans, whichever requests its worker polls in between;   *)
(* a line logged outside of any has neither, but what its event says.       *)
LinesCarryOwnTrace ==
  IsLine =>
    /\ out.by # Unset /\ exporting /\ admits =>
         Google \in DOMAIN out.entry /\ out.entry[Google] = TraceOf(out.by)
    /\ Google \in DOMAIN out.entry /\ Google \notin out.event.fields =>
         out.by # Unset /\ out.entry[Google] = TraceOf(out.by)
    /\ "spans" \in DOMAIN out.entry /\ "spans" \notin out.event.fields =>
         /\ out.by # Unset
         /\ \A n \in DOMAIN out.entry.spans : out.entry.spans[n].of = out.by
         /\ (\E n \in DOMAIN out.entry.spans : out.entry.spans[n].name = "request")
              => out.entry.spans[1].name = "request"

FixedKeys == {"severity", "time", "message", "target"}

(* logging.rs:3-4 and 48: a line has the fixed keys, with the time it was   *)
(* logged at and its event's text, and every field of the event under a     *)
(* name of its own. Text that is no string is not kept.                     *)
LinesKeepTheirEvent ==
  IsLine =>
    /\ FixedKeys \cup out.event.fields \subseteq DOMAIN out.entry
    /\ out.entry.severity = severity(out.event.level)
    /\ out.entry.message = "event" <=> IsText(out.event.message)
    /\ out.now >= 0 => ReadStamp(out.entry.time) = out.now
    /\ IsDate(out.entry.time.date)
    /\ \A key \in out.event.fields \ (FixedKeys \cup TraceKeys \cup {"spans", Location}) :
         out.entry[key] = "event"

(* otel.rs:238-239: a server span that has ended has the status code its    *)
(* client was sent, and none when there was no response.                    *)
SpansTellOutcome ==
  \A r \in Requests :
    /\ status[r] # Unset => status[r] = answer[r]
    /\ exporting /\ admits => status[r] = answer[r]

(* health.rs:24-30: the code says whether the service serves, the body which *)
(* signals are exported and an uptime that reads as what it was.            *)
HealthTellsTheTruth ==
  out # Unset /\ out.wrote = "health" =>
    /\ answer[out.by] = (IF out.report.ok THEN 200 ELSE 503)
    /\ out.body.traces = exporting
    /\ ReadDuration(out.body.uptime) = out.uptime
    /\ \A unit \in DOMAIN out.body.uptime :
         out.body.uptime[unit] > 0 \/ out.uptime = 0
    /\ DOMAIN out.body.uptime # {}
================================================================================
