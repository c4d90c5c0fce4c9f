---------------------------- MODULE RequestMetrics -----------------------------
(***************************************************************************)
(* The request-metrics middleware of tinkr_framework (otel/metrics.rs):    *)
(* track_request around the handler, the Tracked body around the response, *)
(* and the two instruments, active_requests and request.duration.          *)
(***************************************************************************)
EXTENDS Integers, FiniteSets, Sequences

CONSTANTS
  Requests,  \* bound: the requests of a behaviour
  Methods,   \* the values of method_label, one gauge series each
  Inputs,    \* what a request may look like (see InputType)
  Statuses,  \* HTTP status codes a response may carry
  Codes      \* grpc-status codes a header or trailer may carry

GRPC_UNIMPLEMENTED == 12
None == -1  \* no parseable grpc-status

(* service: the route is a registered gRPC service's `/{Service}/{*rest}`; *)
(* known: it implements the method; names: rpc_names accepts the path.     *)
InputType == [method: Methods, grpc: BOOLEAN, route: BOOLEAN,
              service: BOOLEAN, known: BOOLEAN, names: BOOLEAN]

ASSUME RequestsAssumption == IsFiniteSet(Requests)
ASSUME InputsAssumption ==
  /\ Inputs \subseteq InputType
  /\ \A in \in Inputs : (in.service => in.route) /\ (in.known => in.service)
ASSUME CodesAssumption ==
  /\ Statuses \subseteq Nat
  /\ Codes \subseteq Nat
  /\ GRPC_UNIMPLEMENTED \in Codes

VARIABLES
  instruments,  \* INSTRUMENTS is set: metric export is active
  phase,        \* where each request is
  input,        \* what each request looks like
  state,        \* Tracked.state: <<>> once taken, else <<its State>>
  gauge,        \* http.server.active_requests, by method
  records,      \* what record() put into the histogram for each request
  delivered     \* history: the grpc-status its client last received

vars == <<instruments, phase, input, state, gauge, records, delivered>>

Phases == {"idle", "untracked", "handling", "cancelled", "streaming", "ended",
           "dropped"}
State == [status: Statuses, code: Codes \cup {None}]
Attributes ==
  [status: Statuses, code: Codes \cup {None}, rpcService: BOOLEAN,
   rpcMethod: BOOLEAN, route: {"none", "matched", "path"},
   error: {"none", "http", "grpc"}]

TypeOK ==
  /\ instruments \in BOOLEAN
  /\ phase \in [Requests -> Phases]
  /\ input \in [Requests -> Inputs]
  /\ state \in [Requests -> {<<>>} \cup {<<s>> : s \in State}]
  /\ gauge \in [Methods -> Int]
  /\ records \in [Requests -> Seq(Attributes)]
  /\ delivered \in [Requests -> Codes \cup {None}]

Init ==
  /\ instruments \in BOOLEAN
  /\ phase = [r \in Requests |-> "idle"]
  /\ input \in [Requests -> Inputs]
  /\ state = [r \in Requests |-> <<>>]
  /\ gauge = [m \in Methods |-> 0]
  /\ records = [r \in Requests |-> <<>>]
  /\ delivered = [r \in Requests |-> None]

-------------------------------------------------------------------------------
(* attributes(): the attribute set of the histogram's data point. *)

(* Mutant: every answer has an error.type, "ok" for the good ones.          *)
attributes_RawError(in, s) ==
  [status |-> s.status, code |-> s.code, rpcService |-> in.names,
   rpcMethod |-> in.names, route |-> "path",
   error |-> IF s.code > 0 THEN "grpc" ELSE "ok"]

(* Mutant: UNIMPLEMENTED answers are named like any other.                  *)
attributes_NamesProbes(in, s) ==
  LET named == in.grpc /\ in.route /\ in.names
  IN  [status |-> s.status,
       code |-> IF in.grpc THEN s.code ELSE None,
       rpcService |-> named,
       rpcMethod |-> named,
       route |-> IF named THEN "path" ELSE IF in.route THEN "matched" ELSE "none",
       error |-> IF in.grpc /\ s.code > 0 THEN "grpc" ELSE "none"]

attributes(in, s) ==
  LET named == in.grpc /\ in.route /\ in.names
      known == named /\ s.code # GRPC_UNIMPLEMENTED
  IN  [status |-> s.status,
       code |-> IF in.grpc THEN s.code ELSE None,
       rpcService |-> named,
       rpcMethod |-> known,
       route |-> IF known THEN "path" ELSE IF in.route THEN "matched" ELSE "none",
       error |-> IF in.grpc /\ s.code # None
                 THEN IF s.code # 0 THEN "grpc" ELSE "none"
                 ELSE IF s.status >= 500 THEN "http" ELSE "none"]

(* Mutant: the state is read, not taken.                                    *)
RecordTaken_Peek(r) ==
  /\ UNCHANGED state
  /\ records' = [records EXCEPT
       ![r] = Append(@, attributes(input[r], state[r][1]))]
  /\ gauge' = [gauge EXCEPT ![input[r].method] = @ - 1]

(* Mutant: the duration is recorded, the gauge left up.                     *)
RecordTaken_DurationOnly(r) ==
  /\ state' = [state EXCEPT ![r] = <<>>]
  /\ UNCHANGED gauge
  /\ IF state[r] = <<>>
     THEN UNCHANGED records
     ELSE records' = [records EXCEPT
            ![r] = Append(@, attributes(input[r], state[r][1]))]

(* state.take() and record(): the duration, then the gauge. *)
RecordTaken(r) ==
  /\ state' = [state EXCEPT ![r] = <<>>]
  /\ IF state[r] = <<>>
     THEN UNCHANGED <<records, gauge>>
     ELSE /\ records' = [records EXCEPT
                ![r] = Append(@, attributes(input[r], state[r][1]))]
          /\ gauge' = [gauge EXCEPT ![input[r].method] = @ - 1]

-------------------------------------------------------------------------------
(* track_request up to next.run(req).await: the gauge counts the request.   *)
Begin(r) ==
  /\ phase[r] = "idle"
  /\ IF instruments
     THEN /\ phase' = [phase EXCEPT ![r] = "handling"]
          /\ gauge' = [gauge EXCEPT ![input[r].method] = @ + 1]
     ELSE /\ phase' = [phase EXCEPT ![r] = "untracked"]
          /\ UNCHANGED gauge
  /\ UNCHANGED <<instruments, input, state, records, delivered>>

(* The future is dropped at that await: the client went away or the handler *)
(* panicked. Nothing of track_request runs any more.                        *)
Cancel(r) ==
  /\ phase[r] = "handling"
  /\ phase' = [phase EXCEPT ![r] = "cancelled"]
  /\ UNCHANGED <<instruments, input, state, gauge, records, delivered>>

(* What a handler may answer: a registered service refuses an unknown       *)
(* method with a trailers-only UNIMPLEMENTED.                               *)
HeaderCodes(in) ==
  IF in.service /\ in.grpc /\ ~in.known THEN {GRPC_UNIMPLEMENTED}
                                        ELSE Codes \cup {None}

(* The rest of track_request: the response's body is wrapped in Tracked.    *)
Respond(r) ==
  /\ phase[r] = "handling"
  /\ \E status \in Statuses, code \in HeaderCodes(input[r]) :
       /\ state' = [state EXCEPT ![r] = <<[status |-> status, code |-> code]>>]
       /\ delivered' = [delivered EXCEPT ![r] = code]
  /\ phase' = [phase EXCEPT ![r] = "streaming"]
  /\ UNCHANGED <<instruments, input, gauge, records>>

(* Whether the body may end in trailers: not after a trailers-only answer.  *)
Trailers(in) == IF in.service /\ in.grpc /\ ~in.known THEN {} ELSE Codes \cup {None}

(* Mutant: a status in the header is kept over the trailers'.               *)
PollTrailers_HeaderWins(r) ==
  /\ phase[r] = "streaming"
  /\ \E code \in Trailers(input[r]) :
       /\ state' = [state EXCEPT ![r] =
            IF @ = <<>> \/ @[1].code # None THEN @
                                           ELSE <<[@[1] EXCEPT !.code = code]>>]
       /\ delivered' = [delivered EXCEPT ![r] = IF code = None THEN @ ELSE code]
  /\ UNCHANGED <<instruments, phase, input, gauge, records>>

(* poll_frame yields trailers: a status that parses replaces the header's.  *)
PollTrailers(r) ==
  /\ phase[r] = "streaming"
  /\ \E code \in Trailers(input[r]) :
       IF code = None
       THEN UNCHANGED <<state, delivered>>
       ELSE /\ state' = [state EXCEPT
                  ![r] = IF @ = <<>> THEN @ ELSE <<[@[1] EXCEPT !.code = code]>>]
            /\ delivered' = [delivered EXCEPT ![r] = code]
  /\ UNCHANGED <<instruments, phase, input, gauge, records>>

(* poll_frame yields the end of the body or an error; it may be polled again. *)
PollEnd(r) ==
  /\ phase[r] \in {"streaming", "ended"}
  /\ phase' = [phase EXCEPT ![r] = "ended"]
  /\ RecordTaken(r)
  /\ UNCHANGED <<instruments, input, delivered>>

(* Drop for Tracked: after the end, or before it when the client is gone.   *)
DropBody(r) ==
  /\ phase[r] \in {"streaming", "ended"}
  /\ phase' = [phase EXCEPT ![r] = "dropped"]
  /\ RecordTaken(r)
  /\ UNCHANGED <<instruments, input, delivered>>

(* Not a step of the program: no request is left.                           *)
Over == {"untracked", "cancelled", "dropped"}
Finished == (\A r \in Requests : phase[r] \in Over) /\ UNCHANGED vars

Next ==
  \/ \E r \in Requests :
       \/ Begin(r)
       \/ Cancel(r)
       \/ Respond(r)
       \/ PollTrailers(r)
       \/ PollEnd(r)
       \/ DropBody(r)
  \/ Finished

Spec == Init /\ [][Next]_vars

-------------------------------------------------------------------------------
(* The accounts of Ledger. *)

AccountAt ==
  [idle |-> "none", untracked |-> "ignored", handling |-> "open",
   cancelled |-> "abandoned", streaming |-> "answered", ended |-> "settled",
   dropped |-> "settled"]

Entries(r) ==
  [i \in DOMAIN records[r] |->
     [code |-> records[r][i].code, failed |-> records[r][i].error = "grpc"]]

Books == INSTANCE Ledger WITH
  exporting <- instruments,
  series <- [r \in Requests |-> input[r].method],
  rpc <- [r \in Requests |-> input[r].grpc],
  account <- [r \in Requests |-> AccountAt[phase[r]]],
  told <- delivered,
  entries <- [r \in Requests |-> Entries(r)],
  balance <- gauge

-------------------------------------------------------------------------------
(* Properties. *)

(* otel/metrics.rs:60,223-227: the instruments keep the accounts of Ledger:   *)
(* a request is counted on its method until it is settled, by one data point  *)
(* that says what its client was told last, and nothing touches it again,     *)
(* however its body ends and whoever polls it once more.                      *)
ImplementsLedger == Books!Spec

(* metrics.rs:223: a response is recorded exactly once however its body ends: *)
(* polled to the end, polled past it, failed, or dropped early.               *)
RecordedOnce ==
  \A r \in Requests :
    /\ Len(records[r]) <= 1
    /\ phase[r] = "dropped" => Len(records[r]) = 1

(* A request holds its +1 on its method's series from Begin to its record;    *)
(* a cancelled one, which is never recorded, for ever.                        *)
HoldsGauge(r) == phase[r] \in {"handling", "cancelled"} \/ state[r] # <<>>

GaugeIsHeld ==
  \A m \in Methods :
    gauge[m] = Cardinality({r \in Requests : HoldsGauge(r) /\ input[r].method = m})

(* metrics.rs:223-224: the recorded status is the last one the client saw     *)
(* (trailers over header), so a failed RPC is never recorded as a success.    *)
OutcomeIsReal ==
  \A r \in Requests : \A i \in DOMAIN records[r] :
    input[r].grpc => /\ records[r][i].code = delivered[r]
                     /\ delivered[r] > 0 => records[r][i].error = "grpc"

(* metrics.rs:153-155: probes of methods a service does not have share its    *)
(* wildcard route and name no method. A path that matched no route is not     *)
(* recorded at all, and a raw path only for a method its service has or for   *)
(* gRPC content sent to an HTTP route: attributes asks for any route where    *)
(* its comment (metrics.rs:152) has a registered service.                     *)
NamesNoProbe(in, record) ==
  /\ record.route = "path" \/ record.rpcMethod =>
       in.grpc /\ in.route /\ (in.service => in.known)
  /\ ~in.route => record.route = "none" /\ ~record.rpcService

ProbesCollapse ==
  \A r \in Requests : \A i \in DOMAIN records[r] : NamesNoProbe(input[r], records[r][i])

(* A data point is final: the histogram never sees a request twice, or a      *)
(* correction of what it saw.                                                 *)
RecordsAreFinal ==
  [][\A r \in Requests : records[r] # <<>> => records'[r] = records[r]]_vars

(* metrics.rs:547: every request finished: in-flight counts cancel out.       *)
InFlightCancelsOut ==
  (\A r \in Requests : phase[r] \in Over \cup {"idle"}) =>
    \A m \in Methods : gauge[m] = 0
================================================================================
