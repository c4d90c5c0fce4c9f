------------------------- MODULE RequestMetricsProofs --------------------------
(***************************************************************************)
(* Safety of the request metrics for any finite set of requests, any set   *)
(* of methods and inputs, and any status codes.                            *)
(***************************************************************************)
EXTENDS RequestMetrics, FiniteSetTheorems, TLAPS

(* Tracked's state is there exactly while the response streams, and it is    *)
(* taken into the one record.                                                *)
Shape ==
  \A r \in Requests :
    /\ phase[r] = "streaming" => state[r] # <<>> /\ records[r] = <<>>
    /\ phase[r] # "streaming" => state[r] = <<>>
    /\ phase[r] \in {"ended", "dropped"} => Len(records[r]) = 1
    /\ phase[r] \notin {"ended", "dropped"} => records[r] = <<>>

(* The status in hand is the one the client received last, and a refused     *)
(* method's is UNIMPLEMENTED.                                                *)
InHand ==
  \A r \in Requests :
    state[r] # <<>> =>
      /\ state[r][1].code = delivered[r]
      /\ input[r].grpc /\ input[r].service /\ ~input[r].known =>
           state[r][1].code = GRPC_UNIMPLEMENTED

(* What was recorded says what the client received, and names no probe.      *)
Recorded ==
  \A r \in Requests :
    Len(records[r]) = 1 =>
      /\ input[r].grpc =>
           /\ records[r][1].code = delivered[r]
           /\ delivered[r] > 0 => records[r][1].error = "grpc"
      /\ NamesNoProbe(input[r], records[r][1])

IInv == TypeOK /\ Shape /\ InHand /\ Recorded

-------------------------------------------------------------------------------

LEMMA AttributesType ==
  ASSUME NEW in \in Inputs, NEW s \in State
  PROVE  attributes(in, s) \in Attributes
BY InputsAssumption DEF attributes, Attributes, State, InputType

LEMMA AttributesFacts ==
  ASSUME NEW in \in Inputs, NEW s \in State
  PROVE  /\ in.grpc =>
              /\ attributes(in, s).code = s.code
              /\ s.code > 0 => attributes(in, s).error = "grpc"
         /\ (in.grpc /\ in.service /\ ~in.known => s.code = GRPC_UNIMPLEMENTED) =>
              NamesNoProbe(in, attributes(in, s))
BY InputsAssumption, CodesAssumption DEF attributes, State, InputType, None, NamesNoProbe

(* Appending to nothing makes a sequence of one.                             *)
LEMMA OneRecord ==
  ASSUME NEW a \in Attributes
  PROVE  /\ Append(<<>>, a) = <<a>>
         /\ <<a>> \in Seq(Attributes)
         /\ Len(<<a>>) = 1
         /\ <<a>>[1] = a
OBVIOUS

LEMMA InitIInv == Init => IInv
BY DEF Init, IInv, TypeOK, Shape, InHand, Recorded, Phases

(* Taking the state of a response that streams records it, and only it.      *)
LEMMA TakeRecords ==
  ASSUME IInv, NEW r \in Requests, phase[r] = "streaming", RecordTaken(r)
  PROVE  /\ state[r] \in {<<s>> : s \in State}
         /\ state[r][1] \in State
         /\ records' = [records EXCEPT ![r] = <<attributes(input[r], state[r][1])>>]
         /\ records' \in [Requests -> Seq(Attributes)]
         /\ gauge' = [gauge EXCEPT ![input[r].method] = @ - 1]
         /\ gauge' \in [Methods -> Int]
<1>1. state[r] \in {<<s>> : s \in State} /\ state[r] # <<>> /\ records[r] = <<>>
  BY DEF IInv, TypeOK, Shape
<1>2. PICK s \in State : state[r] = <<s>>
  BY <1>1
<1>3. input[r] \in Inputs
  BY DEF IInv, TypeOK
<1>4. attributes(input[r], s) \in Attributes
  BY <1>3, AttributesType
<1>5. state[r][1] = s
  BY <1>2
<1>6. records' = [records EXCEPT ![r] = <<attributes(input[r], s)>>]
  <2>1. records' = [records EXCEPT ![r] = Append(records[r], attributes(input[r], s))]
    BY <1>1, <1>5 DEF RecordTaken
  <2>2. Append(records[r], attributes(input[r], s)) = <<attributes(input[r], s)>>
    BY <1>1, <1>4, OneRecord
  <2> QED
    BY <2>1, <2>2
<1>7. records' \in [Requests -> Seq(Attributes)]
  BY <1>4, <1>6, OneRecord DEF IInv, TypeOK
<1>8. gauge' = [gauge EXCEPT ![input[r].method] = @ - 1]
  BY <1>1 DEF RecordTaken
<1>9. gauge' \in [Methods -> Int]
  <2>1. input[r].method \in Methods
    BY <1>3, InputsAssumption DEF InputType
  <2> QED
    BY <1>8, <2>1 DEF IInv, TypeOK
<1> QED
  BY <1>1, <1>5, <1>6, <1>7, <1>8, <1>9

(* Taking what was taken already records nothing.                            *)
LEMMA TakeAgain ==
  ASSUME IInv, NEW r \in Requests, phase[r] = "ended", RecordTaken(r)
  PROVE  UNCHANGED <<state, records, gauge>>
BY DEF IInv, TypeOK, Shape, RecordTaken

-------------------------------------------------------------------------------

LEMMA TypeStep ==
  ASSUME IInv, [Next]_vars
  PROVE  TypeOK'
<1> USE DEF IInv, TypeOK
<1>1. ASSUME NEW r \in Requests, Begin(r)
      PROVE  TypeOK'
  BY <1>1 DEF Begin, Phases
<1>2. ASSUME NEW r \in Requests, Cancel(r)
      PROVE  TypeOK'
  BY <1>2 DEF Cancel, Phases
<1>3. ASSUME NEW r \in Requests, Respond(r)
      PROVE  TypeOK'
  <2>1. PICK status \in Statuses, code \in HeaderCodes(input[r]) :
          /\ state' = [state EXCEPT ![r] = <<[status |-> status, code |-> code]>>]
          /\ delivered' = [delivered EXCEPT ![r] = code]
    BY <1>3 DEF Respond
  <2>2. code \in Codes \cup {None}
    BY <2>1, CodesAssumption DEF HeaderCodes
  <2>3. [status |-> status, code |-> code] \in State
    BY <2>2 DEF State
  <2> QED
    BY <1>3, <2>1, <2>2, <2>3 DEF Respond, Phases
<1>4. ASSUME NEW r \in Requests, PollTrailers(r)
      PROVE  TypeOK'
  <2>1. PICK s \in State : state[r] = <<s>>
    BY <1>4 DEF PollTrailers, Shape
  <2>2. ASSUME NEW code \in Codes
        PROVE  [s EXCEPT !.code = code] \in State
    BY DEF State
  <2> DEFINE new(code) == IF state[r] = <<>> THEN state[r]
                          ELSE <<[state[r][1] EXCEPT !.code = code]>>
  <2>3. PICK code \in Trailers(input[r]) :
          IF code = None
          THEN UNCHANGED <<state, delivered>>
          ELSE /\ state' = [state EXCEPT ![r] = new(code)]
               /\ delivered' = [delivered EXCEPT ![r] = code]
    BY <1>4 DEF PollTrailers
  <2>4. CASE code = None
    BY <1>4, <2>3, <2>4 DEF PollTrailers
  <2>5. CASE code # None
    <3>1. code \in Codes
      BY <2>3, <2>5 DEF Trailers
    <3>2. state[r] # <<>> /\ state[r][1] = s
      BY <2>1
    <3>3. new(code) \in {<<t>> : t \in State}
      BY <2>2, <3>1, <3>2
    <3> HIDE DEF new
    <3> QED
      BY <1>4, <2>3, <2>5, <3>1, <3>3 DEF PollTrailers
  <2> QED
    BY <2>4, <2>5
<1>5. ASSUME NEW r \in Requests, PollEnd(r) \/ DropBody(r)
      PROVE  TypeOK'
  <2>1. phase' \in [Requests -> Phases] /\ RecordTaken(r)
    BY <1>5 DEF PollEnd, DropBody, Phases
  <2>2. state' \in [Requests -> {<<>>} \cup {<<s>> : s \in State}]
    BY <2>1 DEF RecordTaken
  <2>3. CASE phase[r] = "streaming"
    BY <1>5, <2>1, <2>2, <2>3, TakeRecords DEF PollEnd, DropBody
  <2>4. CASE phase[r] = "ended"
    BY <1>5, <2>1, <2>2, <2>4, TakeAgain DEF PollEnd, DropBody
  <2> QED
    BY <1>5, <2>3, <2>4 DEF PollEnd, DropBody
<1>6. CASE UNCHANGED vars
  BY <1>6 DEF vars
<1> QED
  BY <1>1, <1>2, <1>3, <1>4, <1>5, <1>6 DEF Next, Finished

(* The body's end, its failure and its drop: from "streaming" to a phase in  *)
(* which the response is recorded.                                           *)
LEMMA EndStep ==
  ASSUME IInv, NEW r \in Requests, PollEnd(r) \/ DropBody(r)
  PROVE  Shape' /\ InHand' /\ Recorded'
<1> USE DEF IInv, TypeOK, Shape, InHand, Recorded
<1>1. /\ phase' \in {[phase EXCEPT ![r] = "ended"], [phase EXCEPT ![r] = "dropped"]}
      /\ state' = [state EXCEPT ![r] = <<>>]
      /\ RecordTaken(r)
      /\ UNCHANGED <<input, delivered>>
  BY DEF PollEnd, DropBody, RecordTaken
<1>2. CASE phase[r] = "streaming"
  <2>1. /\ state[r][1] \in State
        /\ records' = [records EXCEPT ![r] = <<attributes(input[r], state[r][1])>>]
        /\ records'[r] = <<attributes(input[r], state[r][1])>>
    BY <1>1, <1>2, TakeRecords
  <2>2. Len(records'[r]) = 1 /\ records'[r][1] = attributes(input[r], state[r][1])
    BY <2>1
  <2>3. Shape'
    BY <1>1, <2>1, <2>2
  <2>4. InHand'
    BY <1>1
  <2>5. input[r] \in Inputs /\ state[r] # <<>>
    BY <1>2
  <2> HIDE DEF Shape, InHand
  <2>6. /\ state[r][1].code = delivered[r]
        /\ input[r].grpc /\ input[r].service /\ ~input[r].known =>
             state[r][1].code = GRPC_UNIMPLEMENTED
    BY <2>5 DEF InHand
  <2> DEFINE a == attributes(input[r], state[r][1])
  <2>7. /\ input[r].grpc =>
             /\ a.code = delivered[r]
             /\ delivered[r] > 0 => a.error = "grpc"
        /\ NamesNoProbe(input[r], a)
    <3>1. input[r] \in Inputs
      OBVIOUS
    <3> QED
      BY <2>1, <2>5, <2>6, <3>1, AttributesFacts
  <2>8. records' = [records EXCEPT ![r] = <<a>>] /\ records'[r][1] = a
    BY <2>1, <2>2
  <2> HIDE DEF a
  <2>9. Recorded'
    <3>1. input' = input /\ delivered' = delivered
      BY <1>1
    <3>2. \A q \in Requests : q # r => records'[q] = records[q]
      BY <2>8
    <3>3. ASSUME NEW q \in Requests, Len(records'[q]) = 1
          PROVE  /\ input'[q].grpc =>
                      /\ records'[q][1].code = delivered'[q]
                      /\ delivered'[q] > 0 => records'[q][1].error = "grpc"
                 /\ NamesNoProbe(input'[q], records'[q][1])
      <4>1. CASE q = r
        BY <2>7, <2>8, <3>1, <4>1
      <4>2. CASE q # r
        BY <3>1, <3>2, <3>3, <4>2
      <4> QED
        BY <4>1, <4>2
    <3> QED
      BY <3>3
  <2> QED
    BY <2>3, <2>4, <2>9
<1>3. CASE phase[r] = "ended"
  <2>1. UNCHANGED <<state, records, gauge>>
    BY <1>1, <1>3, TakeAgain
  <2> QED
    BY <1>1, <1>3, <2>1
<1> QED
  BY <1>2, <1>3 DEF PollEnd, DropBody

(* The inductive step.                                                       *)
LEMMA IInvInductive ==
  ASSUME IInv, [Next]_vars
  PROVE  IInv'
<1> TypeOK'
  BY TypeStep
<1> USE DEF IInv, TypeOK, Shape, InHand, Recorded
<1>1. ASSUME NEW r \in Requests, Begin(r) \/ Cancel(r)
      PROVE  IInv'
  BY <1>1 DEF Begin, Cancel
<1>2. ASSUME NEW r \in Requests, Respond(r)
      PROVE  IInv'
  <2>1. PICK status \in Statuses, code \in HeaderCodes(input[r]) :
          /\ state' = [state EXCEPT ![r] = <<[status |-> status, code |-> code]>>]
          /\ delivered' = [delivered EXCEPT ![r] = code]
    BY <1>2 DEF Respond
  <2>2. /\ state'[r] = <<[status |-> status, code |-> code]>>
        /\ state'[r] # <<>>
        /\ state'[r][1].code = code
        /\ delivered'[r] = code
    BY <2>1
  <2>3. UNCHANGED <<input, records>> /\ records[r] = <<>>
    BY <1>2 DEF Respond
  <2>4. input[r].grpc /\ input[r].service /\ ~input[r].known =>
          code = GRPC_UNIMPLEMENTED
    BY <2>1 DEF HeaderCodes
  <2>5. Shape'
    BY <1>2, <2>1, <2>2, <2>3 DEF Respond
  <2>6. InHand'
    BY <2>1, <2>2, <2>3, <2>4
  <2>7. Recorded'
    BY <2>1, <2>3
  <2> QED
    BY <2>5, <2>6, <2>7
<1>3. ASSUME NEW r \in Requests, PollTrailers(r)
      PROVE  IInv'
  <2>1. PICK s \in State : state[r] = <<s>>
    BY <1>3 DEF PollTrailers
  <2>2. state[r] # <<>> /\ state[r][1] = s
    BY <2>1
  <2>3. PICK code \in Trailers(input[r]) :
          IF code = None
          THEN UNCHANGED <<state, delivered>>
          ELSE /\ state' = [state EXCEPT ![r] = <<[s EXCEPT !.code = code]>>]
               /\ delivered' = [delivered EXCEPT ![r] = code]
    BY <1>3, <2>2 DEF PollTrailers
  <2>4. UNCHANGED <<phase, input, records>> /\ phase[r] = "streaming" /\ records[r] = <<>>
    BY <1>3 DEF PollTrailers
  <2>5. CASE code = None
    BY <2>3, <2>4, <2>5
  <2>6. CASE code # None
    <3>1. /\ state'[r] = <<[s EXCEPT !.code = code]>>
          /\ state'[r] # <<>>
          /\ state'[r][1].code = code
          /\ delivered'[r] = code
      <4>1. [s EXCEPT !.code = code].code = code
        BY DEF State
      <4> DEFINE t == [s EXCEPT !.code = code]
      <4> HIDE DEF t
      <4>2. state' = [state EXCEPT ![r] = <<t>>]
        BY <2>3, <2>6 DEF t
      <4>3. state'[r] = <<t>> /\ <<t>>[1] = t /\ <<t>> # <<>>
        BY <4>2
      <4> QED
        BY <2>3, <2>6, <4>1, <4>3 DEF t
    <3>2. ~(input[r].grpc /\ input[r].service /\ ~input[r].known)
      BY <2>3 DEF Trailers
    <3>3. Shape'
      BY <2>3, <2>4, <2>6, <3>1
    <3>4. InHand'
      <4> SUFFICES ASSUME NEW q \in Requests, state'[q] # <<>>
                   PROVE  /\ state'[q][1].code = delivered'[q]
                          /\ input[q].grpc /\ input[q].service /\ ~input[q].known =>
                               state'[q][1].code = GRPC_UNIMPLEMENTED
        BY <2>4
      <4>1. CASE q = r
        BY <3>1, <3>2, <4>1
      <4>2. CASE q # r
        <5>1. state'[q] = state[q] /\ delivered'[q] = delivered[q]
          BY <2>3, <2>6, <4>2
        <5> QED
          BY <5>1
      <4> QED
        BY <4>1, <4>2
    <3>5. Recorded'
      <4>1. Len(records[r]) # 1
        BY <2>4
      <4>2. \A q \in Requests \ {r} : delivered'[q] = delivered[q]
        BY <2>3, <2>6
      <4> QED
        BY <2>4, <4>1, <4>2
    <3> QED
      BY <3>3, <3>4, <3>5
  <2> QED
    BY <2>5, <2>6
<1>4. ASSUME NEW r \in Requests, PollEnd(r) \/ DropBody(r)
      PROVE  IInv'
  BY <1>4, EndStep
<1>5. CASE UNCHANGED vars
  BY <1>5 DEF vars
<1> QED
  BY <1>1, <1>2, <1>3, <1>4, <1>5 DEF Next, Finished

THEOREM Invariance == Spec => []IInv
<1>1. Init => IInv
  BY InitIInv
<1>2. IInv /\ [Next]_vars => IInv'
  BY IInvInductive
<1> QED
  BY <1>1, <1>2, PTL DEF Spec

(* Every variable of the middleware keeps its type.                          *)
THEOREM TypeCorrect == Spec => []TypeOK
<1>1. IInv => TypeOK
  BY DEF IInv
<1> QED
  BY <1>1, Invariance, PTL

(* metrics.rs:223: at most one record per request, and one for each body     *)
(* that is gone.                                                             *)
THEOREM RecordsOnce == Spec => []RecordedOnce
<1>1. IInv => RecordedOnce
  <2> SUFFICES ASSUME IInv, NEW r \in Requests
               PROVE  /\ Len(records[r]) <= 1
                      /\ phase[r] = "dropped" => Len(records[r]) = 1
    BY DEF RecordedOnce
  <2>1. Len(records[r]) <= 1
    <3>1. CASE phase[r] \in {"ended", "dropped"}
      <4>1. Len(records[r]) = 1
        BY <3>1 DEF IInv, Shape
      <4> QED
        BY <4>1
    <3>2. CASE phase[r] \notin {"ended", "dropped"}
      BY <3>2 DEF IInv, Shape
    <3> QED
      BY <3>1, <3>2
  <2>2. phase[r] = "dropped" => Len(records[r]) = 1
    BY DEF IInv, Shape
  <2> QED
    BY <2>1, <2>2
<1> QED
  BY <1>1, Invariance, PTL

LEMMA RecordIndex ==
  ASSUME IInv, NEW r \in Requests, NEW i \in DOMAIN records[r]
  PROVE  i = 1 /\ Len(records[r]) = 1
<1>1. records[r] # <<>>
  OBVIOUS
<1>2. Len(records[r]) = 1
  BY <1>1 DEF IInv, Shape
<1>3. records[r] \in Seq(Attributes)
  BY DEF IInv, TypeOK
<1>4. DOMAIN records[r] = 1..Len(records[r])
  BY <1>3
<1> QED
  BY <1>2, <1>4

(* metrics.rs:223-224: the recorded grpc-status is the client's last.        *)
THEOREM RealOutcome == Spec => []OutcomeIsReal
<1>1. IInv => OutcomeIsReal
  BY RecordIndex DEF IInv, Recorded, OutcomeIsReal
<1> QED
  BY <1>1, Invariance, PTL

(* metrics.rs:153-155: unknown methods of a service share one route, and a   *)
(* path that matched no route names nothing.                                 *)
THEOREM CollapsedProbes == Spec => []ProbesCollapse
<1>1. IInv => ProbesCollapse
  BY RecordIndex DEF IInv, Recorded, ProbesCollapse
<1> QED
  BY <1>1, Invariance, PTL

(* A data point, once recorded, is never touched again.                      *)
THEOREM FinalRecords == Spec => RecordsAreFinal
<1> DEFINE Final == \A r \in Requests : records[r] # <<>> => records'[r] = records[r]
<1>1. IInv /\ [Next]_vars => [Final]_vars
  <2> SUFFICES ASSUME IInv, [Next]_vars, NEW q \in Requests, records[q] # <<>>
               PROVE  records'[q] = records[q]
    OBVIOUS
  <2>1. ASSUME NEW r \in Requests, PollEnd(r) \/ DropBody(r)
        PROVE  records'[q] = records[q]
    <3>1. RecordTaken(r)
      BY <2>1 DEF PollEnd, DropBody
    <3>2. CASE phase[r] = "streaming"
      BY <3>1, <3>2, TakeRecords DEF IInv, TypeOK, Shape
    <3>3. CASE phase[r] = "ended"
      BY <3>1, <3>3, TakeAgain
    <3> QED
      BY <2>1, <3>2, <3>3 DEF PollEnd, DropBody
  <2> QED
    BY <2>1 DEF Next, Begin, Cancel, Respond, PollTrailers, Finished, vars
<1> QED
  BY <1>1, Invariance, PTL DEF Spec, RecordsAreFinal

-------------------------------------------------------------------------------
(* The gauge. *)

Held(m) == {r \in Requests : HoldsGauge(r) /\ input[r].method = m}

LEMMA HeldIsFinite == \A m \in Methods : IsFiniteSet(Held(m))
BY RequestsAssumption, FS_Subset DEF Held

(* No request enters or leaves a series: the gauge need not move.            *)
LEMMA SameHeld ==
  ASSUME GaugeIsHeld, UNCHANGED <<input, gauge>>,
         \A r \in Requests : HoldsGauge(r)' = HoldsGauge(r)
  PROVE  GaugeIsHeld'
<1>1. \A m \in Methods :
        {r \in Requests : HoldsGauge(r)' /\ input'[r].method = m} =
        {r \in Requests : HoldsGauge(r) /\ input[r].method = m}
  OBVIOUS
<1> QED
  BY <1>1 DEF GaugeIsHeld

(* A request that enters its series, which counts it.                        *)
LEMMA EnterHeld ==
  ASSUME IInv, GaugeIsHeld, NEW r \in Requests, ~HoldsGauge(r), HoldsGauge(r)',
         \A q \in Requests \ {r} : HoldsGauge(q)' = HoldsGauge(q),
         gauge' = [gauge EXCEPT ![input[r].method] = @ + 1], input' = input
  PROVE  GaugeIsHeld'
<1> SUFFICES ASSUME NEW m \in Methods
             PROVE  gauge'[m] = Cardinality({q \in Requests : HoldsGauge(q)' /\ input'[q].method = m})
  BY DEF GaugeIsHeld
<1> DEFINE H == {q \in Requests : HoldsGauge(q)' /\ input'[q].method = m}
<1>1. gauge[m] = Cardinality(Held(m)) /\ IsFiniteSet(Held(m))
  BY HeldIsFinite DEF GaugeIsHeld, Held
<1>2. gauge \in [Methods -> Int]
  BY DEF IInv, TypeOK
<1>3. CASE input[r].method = m
  <2>1. H = Held(m) \cup {r} /\ r \notin Held(m)
    BY <1>3 DEF Held
  <2>2. Cardinality(H) = Cardinality(Held(m)) + 1
    BY <1>1, <2>1, FS_AddElement
  <2> QED
    BY <1>1, <1>2, <1>3, <2>2
<1>4. CASE input[r].method # m
  <2>1. H = Held(m)
    BY <1>4 DEF Held
  <2> QED
    BY <1>1, <1>2, <1>4, <2>1
<1> QED
  BY <1>3, <1>4

(* A request that leaves its series, which forgets it.                       *)
LEMMA LeaveHeld ==
  ASSUME IInv, GaugeIsHeld, NEW r \in Requests, HoldsGauge(r), ~HoldsGauge(r)',
         \A q \in Requests \ {r} : HoldsGauge(q)' = HoldsGauge(q),
         gauge' = [gauge EXCEPT ![input[r].method] = @ - 1], input' = input
  PROVE  GaugeIsHeld'
<1> SUFFICES ASSUME NEW m \in Methods
             PROVE  gauge'[m] = Cardinality({q \in Requests : HoldsGauge(q)' /\ input'[q].method = m})
  BY DEF GaugeIsHeld
<1> DEFINE H == {q \in Requests : HoldsGauge(q)' /\ input'[q].method = m}
<1>1. gauge[m] = Cardinality(Held(m)) /\ IsFiniteSet(Held(m))
  BY HeldIsFinite DEF GaugeIsHeld, Held
<1>2. gauge \in [Methods -> Int]
  BY DEF IInv, TypeOK
<1>3. CASE input[r].method = m
  <2>1. H = Held(m) \ {r} /\ r \in Held(m)
    BY <1>3 DEF Held
  <2>2. Cardinality(H) = Cardinality(Held(m)) - 1
    BY <1>1, <2>1, FS_RemoveElement
  <2> QED
    BY <1>1, <1>2, <1>3, <2>2
<1>4. CASE input[r].method # m
  <2>1. H = Held(m)
    BY <1>4 DEF Held
  <2> QED
    BY <1>1, <1>2, <1>4, <2>1
<1> QED
  BY <1>3, <1>4

LEMMA GaugeStep ==
  ASSUME IInv, GaugeIsHeld, [Next]_vars
  PROVE  GaugeIsHeld'
<1>1. ASSUME NEW r \in Requests, Begin(r)
      PROVE  GaugeIsHeld'
  <2>1. UNCHANGED <<input, state>> /\ phase[r] = "idle" /\ ~HoldsGauge(r)
    BY <1>1 DEF Begin, HoldsGauge, IInv, Shape
  <2>2. \A q \in Requests \ {r} : HoldsGauge(q)' = HoldsGauge(q)
    BY <1>1 DEF Begin, HoldsGauge, IInv, TypeOK
  <2>3. CASE instruments
    <3>1. HoldsGauge(r)' /\ gauge' = [gauge EXCEPT ![input[r].method] = @ + 1]
      BY <1>1, <2>3 DEF Begin, HoldsGauge, IInv, TypeOK
    <3> QED
      BY <2>1, <2>2, <3>1, EnterHeld
  <2>4. CASE ~instruments
    <3>1. ~HoldsGauge(r)' /\ gauge' = gauge
      BY <1>1, <2>1, <2>4 DEF Begin, HoldsGauge, IInv, TypeOK
    <3> QED
      BY <2>1, <2>2, <3>1, SameHeld DEF HoldsGauge
  <2> QED
    BY <2>3, <2>4
<1>2. ASSUME NEW r \in Requests, Cancel(r)
      PROVE  GaugeIsHeld'
  BY <1>2, SameHeld DEF Cancel, HoldsGauge, IInv, TypeOK
<1>3. ASSUME NEW r \in Requests, Respond(r) \/ PollTrailers(r)
      PROVE  GaugeIsHeld'
  <2>1. UNCHANGED <<input, gauge, records>> /\ HoldsGauge(r)
    BY <1>3 DEF Respond, PollTrailers, HoldsGauge, IInv, Shape
  <2>2. HoldsGauge(r)'
    <3>1. phase'[r] = "streaming" /\ IInv'
      BY <1>3, IInvInductive DEF Next, Respond, PollTrailers, IInv, TypeOK
    <3> QED
      BY <3>1 DEF HoldsGauge, IInv, Shape
  <2>3. \A q \in Requests \ {r} : phase'[q] = phase[q] /\ state'[q] = state[q]
    BY <1>3 DEF Respond, PollTrailers, IInv, TypeOK
  <2>4. \A q \in Requests : HoldsGauge(q)' = HoldsGauge(q)
    BY <2>1, <2>2, <2>3 DEF HoldsGauge
  <2> QED
    BY <2>1, <2>4, SameHeld
<1>4. ASSUME NEW r \in Requests, PollEnd(r) \/ DropBody(r)
      PROVE  GaugeIsHeld'
  <2>1. RecordTaken(r) /\ input' = input /\ ~HoldsGauge(r)'
    BY <1>4 DEF PollEnd, DropBody, RecordTaken, HoldsGauge, IInv, TypeOK
  <2>2. \A q \in Requests \ {r} : HoldsGauge(q)' = HoldsGauge(q)
    BY <1>4 DEF PollEnd, DropBody, RecordTaken, HoldsGauge, IInv, TypeOK
  <2>3. CASE phase[r] = "streaming"
    <3>1. HoldsGauge(r) /\ gauge' = [gauge EXCEPT ![input[r].method] = @ - 1]
      BY <2>1, <2>3, TakeRecords DEF HoldsGauge, IInv, Shape
    <3> QED
      BY <2>1, <2>2, <3>1, LeaveHeld
  <2>4. CASE phase[r] = "ended"
    <3>1. ~HoldsGauge(r) /\ gauge' = gauge
      BY <2>1, <2>4, TakeAgain DEF HoldsGauge, IInv, Shape
    <3> QED
      BY <2>1, <2>2, <3>1, SameHeld DEF HoldsGauge
  <2> QED
    BY <1>4, <2>3, <2>4 DEF PollEnd, DropBody
<1>5. CASE UNCHANGED vars
  BY <1>5, SameHeld DEF vars, HoldsGauge
<1> QED
  BY <1>1, <1>2, <1>3, <1>4, <1>5 DEF Next, Finished

(* The gauge of a method counts its requests in flight and its cancelled     *)
(* ones, and nothing else: it is never off by a request that was answered.   *)
THEOREM GaugeCounts == Spec => []GaugeIsHeld
<1>1. Init => GaugeIsHeld
  <2> SUFFICES ASSUME Init, NEW m \in Methods PROVE gauge[m] = Cardinality(Held(m))
    BY DEF GaugeIsHeld, Held
  <2>1. Held(m) = {}
    BY DEF Init, Held, HoldsGauge
  <2> QED
    BY <2>1, FS_EmptySet DEF Init
<1>2. IInv /\ GaugeIsHeld /\ [Next]_vars => GaugeIsHeld'
  BY GaugeStep
<1> QED
  BY <1>1, <1>2, Invariance, PTL DEF Spec

(* otel/metrics.rs:547: in-flight counts cancel out, if no request was       *)
(* cancelled while its handler ran: nothing else is left counted.            *)
OnlyCancelledStay ==
  (\A r \in Requests : phase[r] \notin {"handling", "cancelled", "streaming"}) =>
    \A m \in Methods : gauge[m] = 0

(* A series never counts fewer than none.                                    *)
NeverNegative == \A m \in Methods : gauge[m] \in Nat

(* With no request under way and none ever cancelled, every count is back at *)
(* zero, and none is ever below it.                                          *)
THEOREM GaugeReturns == Spec => [](OnlyCancelledStay /\ NeverNegative)
<1>1. IInv /\ GaugeIsHeld => OnlyCancelledStay
  <2> SUFFICES ASSUME IInv, GaugeIsHeld, NEW m \in Methods,
                      \A r \in Requests : phase[r] \notin {"handling", "cancelled", "streaming"}
               PROVE  gauge[m] = 0
    BY DEF OnlyCancelledStay
  <2>1. Held(m) = {}
    BY DEF Held, HoldsGauge, IInv, Shape
  <2> QED
    BY <2>1, FS_EmptySet DEF GaugeIsHeld, Held
<1>2. GaugeIsHeld => NeverNegative
  BY HeldIsFinite, FS_CardinalityType DEF GaugeIsHeld, NeverNegative, Held
<1> QED
  BY <1>1, <1>2, Invariance, GaugeCounts, PTL

-------------------------------------------------------------------------------
(* The ledger. *)

Accounts == [r \in Requests |-> AccountAt[phase[r]]]
Written == [r \in Requests |-> Entries(r)]

(* The accounts that are outstanding are those of the requests that hold a   *)
(* +1, so what the gauge counts is what the ledger balances.                 *)
LEMMA BalanceIsGauge ==
  ASSUME IInv', GaugeIsHeld', input' = input
  PROVE  gauge' = [m \in Methods |-> Cardinality(
           {q \in Requests : /\ Accounts'[q] \in Books!Outstanding
                            /\ [p \in Requests |-> input[p].method][q] = m})]
<1> DEFINE Counted(m) ==
      {q \in Requests : /\ Accounts'[q] \in Books!Outstanding
                       /\ [p \in Requests |-> input[p].method][q] = m}
<1>1. ASSUME NEW q \in Requests
      PROVE  HoldsGauge(q)' <=> Accounts'[q] \in Books!Outstanding
  <2>1. phase'[q] \in Phases
    BY DEF IInv, TypeOK
  <2>2. HoldsGauge(q)' <=> phase'[q] \in {"handling", "cancelled", "streaming"}
    BY DEF IInv, Shape, HoldsGauge
  <2>3. Accounts'[q] = AccountAt[phase'[q]]
    BY DEF Accounts
  <2> QED
    BY <2>1, <2>2, <2>3 DEF AccountAt, Phases, Books!Outstanding
<1>2. ASSUME NEW m \in Methods
      PROVE  gauge'[m] = Cardinality(Counted(m))
  <2>1. Counted(m) = {q \in Requests : HoldsGauge(q)' /\ input'[q].method = m}
    BY <1>1
  <2> QED
    BY <2>1 DEF GaugeIsHeld
<1>3. gauge' \in [Methods -> Int]
  BY DEF IInv, TypeOK
<1> HIDE DEF Counted
<1>4. gauge' = [m \in Methods |-> Cardinality(Counted(m))]
  BY <1>2, <1>3
<1> QED
  BY <1>4 DEF Counted

(* A request that changes its phase moves its account.                       *)
LEMMA AccountMoves ==
  ASSUME IInv, IInv', GaugeIsHeld', NEW r \in Requests, NEW to \in Phases,
         phase' = [phase EXCEPT ![r] = to], UNCHANGED <<instruments, input>>
  PROVE  Books!Move(r, AccountAt[phase[r]], AccountAt[to])
<1>1. Accounts' = [Accounts EXCEPT ![r] = AccountAt[to]]
  BY DEF Accounts, IInv, TypeOK
<1>2. Accounts[r] = AccountAt[phase[r]]
  BY DEF Accounts
<1>3. gauge' = [m \in Methods |-> Cardinality(
        {q \in Requests : /\ Accounts'[q] \in Books!Outstanding
                         /\ [p \in Requests |-> input[p].method][q] = m})]
  BY BalanceIsGauge
<1>4. ASSUME NEW S PROVE Books!Cardinality(S) = Cardinality(S)
  BY DEF Books!Cardinality, Cardinality
<1>5. gauge' = [m \in Methods |-> Books!Cardinality(
        {q \in Requests : /\ Accounts'[q] \in Books!Outstanding
                         /\ [p \in Requests |-> input[p].method][q] = m})]
  BY <1>3, <1>4
<1> QED
  BY <1>1, <1>2, <1>5 DEF Books!Move, Accounts

(* Nothing entered, nothing written; and the one record is the one entry.    *)
LEMMA NoEntry ==
  ASSUME NEW r \in Requests, records[r] = <<>>
  PROVE  Entries(r) = <<>>
BY DEF Entries

LEMMA LedgerInit == Init => Books!Init
<1> SUFFICES ASSUME Init PROVE Books!Init
  OBVIOUS
<1>1. \A r \in Requests : input[r] \in InputType
  BY InputsAssumption DEF Init
<1>2. [r \in Requests |-> input[r].method] \in [Requests -> Methods]
  BY <1>1 DEF InputType
<1>3. [r \in Requests |-> input[r].grpc] \in [Requests -> BOOLEAN]
  BY <1>1 DEF InputType
<1>4. [r \in Requests |-> AccountAt[phase[r]]] = [r \in Requests |-> "none"]
  BY DEF Init, AccountAt
<1>5. [r \in Requests |-> Entries(r)] = [r \in Requests |-> <<>>]
  BY NoEntry DEF Init
<1> QED
  BY <1>2, <1>3, <1>4, <1>5 DEF Init, Books!Init

(* The records of the requests that did not end stay as they are.            *)
LEMMA SameWritten ==
  ASSUME UNCHANGED records
  PROVE  Written' = Written
BY DEF Written, Entries

(* The response that ends: its account is settled by the entry of what the   *)
(* client was told.                                                          *)
LEMMA EndSettles ==
  ASSUME IInv, IInv', GaugeIsHeld', NEW r \in Requests, phase[r] = "streaming",
         PollEnd(r) \/ DropBody(r)
  PROVE  Books!Settle(r)
<1>1. /\ RecordTaken(r)
      /\ UNCHANGED <<instruments, input, delivered>>
      /\ \E to \in {"ended", "dropped"} : phase' = [phase EXCEPT ![r] = to]
  BY DEF PollEnd, DropBody
<1>2. Books!Move(r, "answered", "settled")
  <2>1. PICK to \in {"ended", "dropped"} : phase' = [phase EXCEPT ![r] = to]
    BY <1>1
  <2>2. to \in Phases
    BY DEF Phases
  <2>3. Books!Move(r, AccountAt[phase[r]], AccountAt[to])
    BY <1>1, <2>1, <2>2, AccountMoves
  <2>4. AccountAt[phase[r]] = "answered" /\ AccountAt[to] = "settled"
    BY <2>1 DEF AccountAt
  <2> QED
    BY <2>3, <2>4
<1> DEFINE s == state[r][1]
           a == attributes(input[r], s)
<1>3. /\ s \in State
      /\ records' = [records EXCEPT ![r] = <<a>>]
  BY <1>1, TakeRecords
<1>4. s.code = delivered[r]
  <2>1. state[r] # <<>>
    BY DEF IInv, Shape
  <2> QED
    BY <2>1 DEF IInv, InHand
<1> DEFINE e == [code |-> a.code, failed |-> a.error = "grpc"]
<1>5. e = [code |-> IF input[r].grpc THEN delivered[r] ELSE None,
           failed |-> input[r].grpc /\ delivered[r] \notin {None, 0}]
  <2>1. input[r] \in InputType
    BY InputsAssumption DEF IInv, TypeOK
  <2> QED
    BY <1>3, <1>4, <2>1 DEF attributes, InputType
<1> HIDE DEF a
<1>6. Written' = [Written EXCEPT ![r] = <<e>>]
  <2>1. records \in [Requests -> Seq(Attributes)]
    BY DEF IInv, TypeOK
  <2>2. ASSUME NEW q \in Requests, q # r
        PROVE  Entries(q)' = Entries(q)
    BY <1>3, <2>1, <2>2 DEF Entries
  <2>3. records'[r] = <<a>>
    BY <1>3, <2>1
  <2>4. Entries(r)' = <<e>>
    BY <2>3 DEF Entries
  <2> HIDE DEF e
  <2> QED
    BY <2>2, <2>4 DEF Written
<1> HIDE DEF e
<1>7. UNCHANGED delivered
  BY <1>1
<1> QED
  BY <1>2, <1>5, <1>6, <1>7 DEF Books!Settle, Books!Entry, Written

LEMMA LedgerStep ==
  ASSUME IInv, GaugeIsHeld, [Next]_vars
  PROVE  [Books!Next]_(Books!vars)
<1> USE DEF AccountAt
<1>0. IInv' /\ GaugeIsHeld'
  BY IInvInductive, GaugeStep
<1>1. ASSUME NEW r \in Requests, Begin(r)
      PROVE  Books!Next
  <2>1. UNCHANGED <<instruments, input, records, delivered>> /\ phase[r] = "idle"
    BY <1>1 DEF Begin
  <2>2. Written' = Written
    BY <2>1, SameWritten
  <2>3. CASE instruments
    <3>1. Books!Move(r, AccountAt[phase[r]], AccountAt["handling"])
      BY <1>0, <1>1, <2>1, <2>3, AccountMoves DEF Begin, Phases
    <3> QED
      BY <2>1, <2>2, <2>3, <3>1 DEF Books!Next, Books!Open, Written
  <2>4. CASE ~instruments
    <3>1. Books!Move(r, AccountAt[phase[r]], AccountAt["untracked"])
      BY <1>0, <1>1, <2>1, <2>4, AccountMoves DEF Begin, Phases
    <3> QED
      BY <2>1, <2>2, <2>4, <3>1 DEF Books!Next, Books!Ignore, Written
  <2> QED
    BY <2>3, <2>4
<1>2. ASSUME NEW r \in Requests, Cancel(r)
      PROVE  Books!Next
  <2>1. Books!Move(r, AccountAt[phase[r]], AccountAt["cancelled"])
    BY <1>0, <1>2, AccountMoves DEF Cancel, Phases
  <2>2. UNCHANGED delivered /\ Written' = Written /\ phase[r] = "handling"
    BY <1>2, SameWritten DEF Cancel
  <2> QED
    BY <2>1, <2>2 DEF Books!Next, Books!Abandon, Written
<1>3. ASSUME NEW r \in Requests, Respond(r)
      PROVE  Books!Next
  <2>1. Books!Move(r, AccountAt[phase[r]], AccountAt["streaming"])
    BY <1>0, <1>3, AccountMoves DEF Respond, Phases
  <2>2. Written' = Written /\ phase[r] = "handling"
    BY <1>3, SameWritten DEF Respond
  <2>3. \E code \in Codes \cup {None} : delivered' = [delivered EXCEPT ![r] = code]
    BY <1>3, CodesAssumption DEF Respond, HeaderCodes
  <2>4. Books!Move(r, "open", "answered")
    BY <2>1, <2>2
  <2>5. Books!Answer(r)
    BY <2>2, <2>3, <2>4 DEF Books!Answer, Written
  <2> QED
    BY <2>5 DEF Books!Next
<1>4. ASSUME NEW r \in Requests, PollTrailers(r)
      PROVE  Books!Next \/ UNCHANGED Books!vars
  <2>1. /\ UNCHANGED <<instruments, phase, input, gauge, records>>
        /\ phase[r] = "streaming"
    BY <1>4 DEF PollTrailers
  <2>2. Written' = Written
    BY <2>1, SameWritten
  <2>3. PICK code \in Trailers(input[r]) :
          IF code = None THEN UNCHANGED delivered
                         ELSE delivered' = [delivered EXCEPT ![r] = code]
    BY <1>4 DEF PollTrailers
  <2>4. CASE code = None
    BY <2>1, <2>2, <2>3, <2>4 DEF Books!vars, Written
  <2>5. CASE code # None
    <3>1. code \in Codes /\ delivered' = [delivered EXCEPT ![r] = code]
      BY <2>3, <2>5 DEF Trailers
    <3>2. phase' = [phase EXCEPT ![r] = "streaming"]
      BY <2>1 DEF IInv, TypeOK
    <3>3. Books!Move(r, AccountAt[phase[r]], AccountAt["streaming"])
      BY <1>0, <2>1, <3>2, AccountMoves DEF Phases
    <3>4. Books!Move(r, "answered", "answered")
      BY <2>1, <3>3
    <3>5. Books!Correct(r)
      BY <2>2, <3>1, <3>4 DEF Books!Correct, Written
    <3> QED
      BY <3>5 DEF Books!Next
  <2> QED
    BY <2>4, <2>5
<1>5. ASSUME NEW r \in Requests, PollEnd(r) \/ DropBody(r)
      PROVE  Books!Next \/ UNCHANGED Books!vars
  <2>1. CASE phase[r] = "streaming"
    BY <1>0, <1>5, <2>1, EndSettles DEF Books!Next
  <2>2. CASE phase[r] = "ended"
    <3>1. UNCHANGED <<instruments, input, delivered, state, records, gauge>>
      BY <1>5, <2>2, TakeAgain DEF PollEnd, DropBody
    <3>2. Accounts' = Accounts
      BY <1>5, <2>2 DEF PollEnd, DropBody, Accounts, IInv, TypeOK
    <3>3. Written' = Written
      BY <3>1, SameWritten
    <3> QED
      BY <3>1, <3>2, <3>3 DEF Books!vars, Accounts, Written
  <2> QED
    BY <1>5, <2>1, <2>2 DEF PollEnd, DropBody
<1>6. CASE UNCHANGED vars
  <2>1. Written' = Written
    BY <1>6, SameWritten DEF vars
  <2> QED
    BY <1>6, <2>1 DEF vars, Books!vars, Written
<1> QED
  BY <1>1, <1>2, <1>3, <1>4, <1>5, <1>6 DEF Next, Finished

(* otel/metrics.rs:60,223-227: whatever requests do, the two instruments are *)
(* a ledger of them: each counted until one final data point settles it with *)
(* what its client was told.                                                 *)
THEOREM Refinement == Spec => ImplementsLedger
<1>1. Init => Books!Init
  BY LedgerInit
<1>2. IInv /\ GaugeIsHeld /\ [Next]_vars => [Books!Next]_(Books!vars)
  BY LedgerStep
<1> QED
  BY <1>1, <1>2, Invariance, GaugeCounts, PTL DEF Spec, Books!Spec, ImplementsLedger
================================================================================
