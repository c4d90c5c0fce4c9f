---------------------------- MODULE ServerStartProofs ----------------------------
(***************************************************************************)
(* The properties of ServerStart for any program, ports and neighbours:    *)
(* exactly the targets are served, only servers that can be assembled      *)
(* bind, and a program that has served can do so again.                    *)
(***************************************************************************)
EXTENDS ServerStart, SequenceTheorems, TLAPS

-------------------------------------------------------------------------------
(* The inductive invariant. *)

Phases ==
  /\ pc \in {"build", "down"} => next = 1 /\ listeners = <<>>
  /\ pc # "build" => server = Empty
  /\ pc = "down" => binds = <<>>
  /\ pc # "down" => outcome = "none"
  /\ pc \in {"bind", "bind6", "serving"} => step = Len(program) + 1
  /\ pc # "bind6" => v4 = <<>>
  /\ pc = "bind6" => next <= Len(binds) /\ binds[next].variant = "DualStackPort"
  /\ pc = "serving" => next > Len(binds)

Done(i) == i \in DOMAIN program /\ i < step

SameService(i, j) ==
  /\ program[i].call = "grpc_service"
  /\ program[j].call = "grpc_service"
  /\ program[i].name = program[j].name

(* The Server is what the calls made so far have put there, and no two of   *)
(* them have clashed.                                                       *)
BuiltFromCalls ==
  pc = "build" =>
    /\ \A path : path \in server.routes <=> \E i : Done(i) /\ path \in Paths(i)
    /\ \A name : name \in server.services <=>
         \E i : Done(i) /\ program[i].call = "grpc_service" /\ name = program[i].name
    /\ \A valid : valid \in server.sets <=>
         \E i : Done(i) /\ program[i].call = "grpc_reflection" /\ valid = program[i].valid
    /\ server.has_http <=> \E i : Done(i) /\ program[i].call \in {"router", "route"}
    /\ server.health_check <=> \E i : Done(i) /\ program[i].call = "health"
    /\ \A i, j : Done(i) /\ Done(j) /\ i < j =>
         Paths(i) \cap Paths(j) = {} /\ ~SameService(i, j)

Target(i) == into_spec(program[i].target)

(* The pending binds are the targets of the calls made, or the default.     *)
BindsFromCalls ==
  /\ \A i : pc # "down" /\ Done(i) /\ Binds(i) =>
       \E k \in DOMAIN binds : binds[k] = Target(i)
  /\ \/ pc # "build" /\ binds = <<DefaultBind>>
     \/ \A k \in DOMAIN binds : \E i : Done(i) /\ Binds(i) /\ binds[k] = Target(i)
  /\ Apart => \A k, l \in DOMAIN binds :
       k < l => Clear(Wanted(binds[k]), Wanted(binds[l]))

IsListener(spec) == spec.variant = "Listener"
SocketOf(spec) == <<spec.family, spec.port>>

(* Every bind behind `next` has its listeners, and nothing held stands in   *)
(* the way of anything else.                                                *)
ListenersAreOwn ==
  /\ \A i \in DOMAIN binds : i < next => \E n \in DOMAIN listeners : listeners[n].of = i
  /\ \A n \in DOMAIN listeners :
       /\ listeners[n].of \in DOMAIN binds
       /\ listeners[n].of < next
       /\ listeners[n].at \in Wanted(binds[listeners[n].of])
       /\ \A i \in DOMAIN binds :
            IsListener(binds[i]) /\ Meets(SocketOf(binds[i]), listeners[n].at)
              => listeners[n].of = i
  /\ \A n, m \in DOMAIN listeners : n < m =>
       /\ listeners[n].of <= listeners[m].of
       /\ ~Meets(listeners[n].at, listeners[m].at)
       /\ listeners[n].of = listeners[m].of =>
            listeners[n].at[1] = "v4" /\ listeners[m].at[1] = "v6"
  /\ \A i, j \in DOMAIN binds :
       i < j /\ IsListener(binds[i]) /\ IsListener(binds[j]) =>
         ~Meets(SocketOf(binds[i]), SocketOf(binds[j]))

(* A pre-bound listener has a socket of this host.                          *)
PreBound ==
  \A i \in DOMAIN binds : IsListener(binds[i]) =>
    SocketOf(binds[i]) \in Sockets /\ Stack(binds[i].family) \in stacks

HalfIsOwn ==
  \A k \in DOMAIN v4 :
    /\ v4[k] \in Wanted(binds[next]) /\ v4[k][1] = "v4"
    /\ \A n \in DOMAIN listeners : ~Meets(listeners[n].at, v4[k])
    /\ \A i \in DOMAIN binds : IsListener(binds[i]) => ~Meets(SocketOf(binds[i]), v4[k])

(* A target no host with these families refuses.                            *)
Fine(spec) == ~IsBad(spec) /\ (spec.variant # "DualStackPort" => Stack(spec.family) \in stacks)

(* What a start that has come to serve says about the next one.             *)
StartsTell ==
  /\ \A i \in DOMAIN binds : i < next => Fine(binds[i])
  /\ served => Servable /\ \A i \in DOMAIN program : Binds(i) => Fine(Target(i))
  /\ ~disturbed => taken = {}
  /\ pc = "bind6" /\ ~disturbed /\ "v4" \in stacks /\ Apart => v4 # <<>>

IInv ==
  /\ TypeOK
  /\ Phases
  /\ BuiltFromCalls
  /\ BindsFromCalls
  /\ ListenersAreOwn
  /\ HalfIsOwn
  /\ PreBound
  /\ StartsTell
  /\ OnlyServableStarts
  /\ RestartsServe

-------------------------------------------------------------------------------
(* Operators. *)

LEMMA CallTypes ==
  ASSUME NEW c \in Calls
  PROVE  /\ c.call = "router" => c.paths \in SUBSET STRING
         /\ c.call = "route" => c.path \in STRING
         /\ c.call = "grpc_service" => c.name \in STRING
         /\ c.call = "grpc_reflection" => c.valid \in BOOLEAN
         /\ c.call = "bind" => c.target \in Targets
BY DEF Calls

LEMMA SpecType ==
  ASSUME NEW target \in Targets
  PROVE  /\ into_spec(target) \in BindSpec
         /\ IsListener(into_spec(target)) => SocketOf(into_spec(target)) \in Sockets
<1>1. into_spec(target) \in BindSpec
  BY DEF Targets, BindSpec, into_spec
<1>2. IsListener(into_spec(target)) => target.is = "TcpListener"
  BY DEF Targets, into_spec, IsListener
<1> QED
  BY <1>1, <1>2 DEF Targets, into_spec, SocketOf, Sockets, BindSpec

(* Of two listeners neither or each stands in the way of the other.         *)
LEMMA Meeting ==
  /\ \A s, t : Meets(s, t) <=> Meets(t, s)
  /\ \A s : Meets(s, s)
  /\ \A s, t : s[1] = "v4" /\ t[1] = "v6" => ~Meets(s, t)
  /\ \A S, T : Clear(S, T) <=> Clear(T, S)
BY DEF Meets, Clear

(* What a target becomes wants what the target asks for.                    *)
LEMMA AskedIsWanted ==
  ASSUME NEW target \in Targets
  PROVE  /\ Wanted(into_spec(target)) = Asked(target)
         /\ IsBad(into_spec(target)) <=> Unreadable(target)
<1>1. target \in [is: {"u16", "IpAddr", "[u8; 4]", "&str", "SocketAddr", "TcpListener"},
                  text: {"ip:port", "ip", "neither"},
                  family: Kinds, port: Ports \cup {0}]
  BY DEF Targets
<1>2. /\ target.is \in {"u16", "IpAddr", "[u8; 4]", "&str", "SocketAddr", "TcpListener"}
      /\ target.text \in {"ip:port", "ip", "neither"}
      /\ target.is = "TcpListener" => target.port # 0
  BY <1>1 DEF Targets
<1>3. /\ into_spec(target).text = target.text /\ into_spec(target).family = target.family
      /\ into_spec(target).port = target.port
      /\ into_spec(target).variant =
           CASE target.is = "u16" -> "DualStackPort"
             [] target.is \in {"IpAddr", "[u8; 4]"} -> "Ip"
             [] target.is = "&str" -> "Str"
             [] target.is = "SocketAddr" -> "Addr"
             [] target.is = "TcpListener" -> "Listener"
  BY DEF into_spec
<1>4. IsBad(into_spec(target)) <=> Unreadable(target)
  BY <1>2, <1>3 DEF IsBad, Unreadable
<1>5. CASE target.is = "TcpListener"
  <2>1. Choices(target.family, target.port) = {<<target.family, target.port>>}
    BY <1>2, <1>5 DEF Choices
  <2> QED
    BY <1>3, <1>4, <1>5, <2>1 DEF Wanted, Asked
<1>6. CASE target.is # "TcpListener"
  BY <1>2, <1>3, <1>4, <1>6 DEF Wanted, Asked, Port
<1> QED
  BY <1>5, <1>6

LEMMA TargetsTyped ==
  ASSUME program \in Programs, NEW i \in DOMAIN program, Binds(i)
  PROVE  program[i].target \in Targets
<1>1. program \in Seq(Calls)
  BY ProgramsAssumption
<1>2. program[i] \in Calls
  BY <1>1, ElementOfSeq, LenProperties
<1> QED
  BY <1>2, CallTypes DEF Binds

LEMMA ApartWanted ==
  ASSUME program \in Programs, Apart, NEW i \in DOMAIN program, NEW j \in DOMAIN program,
         i < j, Binds(i), Binds(j)
  PROVE  Clear(Wanted(Target(i)), Wanted(Target(j)))
<1>1. program[i].target \in Targets /\ program[j].target \in Targets
  BY TargetsTyped
<1>2. Clear(Asked(program[i].target), Asked(program[j].target))
  BY DEF Apart
<1> QED
  BY <1>1, <1>2, AskedIsWanted DEF Target

(* What a program says does not change while it runs.                       *)
LEMMA ProgramKept ==
  ASSUME UNCHANGED program
  PROVE  /\ Servable' <=> Servable
         /\ HasRoutes' <=> HasRoutes
         /\ HasInvalidSet' <=> HasInvalidSet
         /\ Clash' <=> Clash
         /\ Apart' <=> Apart
         /\ \A i : Paths(i)' = Paths(i)
         /\ \A i : Binds(i)' <=> Binds(i)
         /\ \A i : Target(i)' = Target(i)
         /\ \A i, j : SameService(i, j)' <=> SameService(i, j)
<1>1. \A i : Paths(i)' = Paths(i)
  BY DEF Paths
<1>2. Clash' <=> Clash
  BY <1>1 DEF Clash
<1>3. /\ HasRoutes' <=> HasRoutes
      /\ HasInvalidSet' <=> HasInvalidSet
      /\ \A i : Binds(i)' <=> Binds(i)
  BY DEF HasRoutes, Makes, HasInvalidSet, Binds
<1>4. Apart' <=> Apart
  BY <1>3 DEF Apart
<1>5. \A i : Target(i)' = Target(i)
  BY DEF Target
<1> QED
  BY <1>1, <1>2, <1>3, <1>4, <1>5 DEF Servable, SameService

LEMMA InitInv == Init => IInv
<1> SUFFICES ASSUME Init PROVE IInv
  OBVIOUS
<1>1. TypeOK
  <2>1. program \in Programs /\ Len(program) \in Nat
    BY ProgramsAssumption, LenProperties DEF Init
  <2>2. Empty \in Builder
    BY DEF Empty, Builder
  <2>3. /\ program \in Programs
        /\ stacks \in SUBSET Families
        /\ pc \in {"build", "bind", "bind6", "serving", "down"}
        /\ server \in Builder
        /\ v4 \in {<<>>} \cup {<<s>> : s \in Sockets}
        /\ taken \in SUBSET Foreign
        /\ timeWait \in SUBSET (Families \X Ports)
        /\ served \in BOOLEAN
        /\ disturbed \in BOOLEAN
    BY <2>2 DEF Init
  <2>4. outcome \in {"none", "NoRoutes", "InvalidDescriptorSet", "InvalidAddress",
                     "Io", "panic", "NoListener", "stopped"}
    BY DEF Init
  <2>5. step \in 1..(Len(program) + 1) /\ starts \in 1..MaxStarts
    BY <2>1, MaxStartsAssumption DEF Init
  <2>6. /\ binds \in Seq(BindSpec)
        /\ next \in 1..(Len(binds) + 1)
        /\ listeners \in Seq([of: Nat, at: Sockets])
    BY EmptySeq DEF Init
  <2> QED
    BY <2>3, <2>4, <2>5, <2>6 DEF TypeOK
<1>2. Phases
  BY DEF Init, Phases
<1>3. BuiltFromCalls
  BY DEF Init, BuiltFromCalls, Empty, Done, TypeOK
<1>4. BindsFromCalls
  BY DEF Init, BindsFromCalls, Done
<1>5. ListenersAreOwn /\ HalfIsOwn /\ PreBound
  BY DEF Init, ListenersAreOwn, HalfIsOwn, PreBound
<1>6. StartsTell
  BY DEF Init, StartsTell
<1>7. OnlyServableStarts /\ RestartsServe
  BY DEF Init, OnlyServableStarts, RestartsServe
<1> QED
  BY <1>1, <1>2, <1>3, <1>4, <1>5, <1>6, <1>7 DEF IInv

-------------------------------------------------------------------------------
(* The ways a start goes on or ends. *)

LEMMA ExitInv ==
  ASSUME NEW result \in {"NoRoutes", "InvalidDescriptorSet", "InvalidAddress", "Io", "panic",
                         "NoListener"},
         IInv, pc # "down", Exit(result),
         result = "NoRoutes" => ~HasRoutes,
         result = "InvalidDescriptorSet" => HasInvalidSet,
         result = "panic" => Clash,
         result \in {"InvalidAddress", "Io"} => Servable,
         ~(served /\ ~disturbed /\ "v4" \in stacks /\ Apart)
  PROVE  IInv'
<1> USE DEF IInv
<1>1. /\ pc' = "down" /\ outcome' = result /\ server' = Empty
      /\ binds' = <<>> /\ next' = 1 /\ v4' = <<>> /\ listeners' = <<>>
      /\ UNCHANGED <<host, life, step>>
  BY DEF Exit
<1>2. TypeOK'
  <2>1. Empty \in Builder
    BY DEF Empty, Builder
  <2>2. binds' \in Seq(BindSpec) /\ Len(binds') = 0 /\ listeners' \in Seq([of: Nat, at: Sockets])
    BY <1>1, EmptySeq
  <2> QED
    BY <1>1, <2>1, <2>2 DEF TypeOK, host, life
<1>3. Phases'
  BY <1>1 DEF Phases
<1>4. BuiltFromCalls' /\ ListenersAreOwn' /\ HalfIsOwn' /\ PreBound' /\ BindsFromCalls'
  BY <1>1 DEF BuiltFromCalls, ListenersAreOwn, HalfIsOwn, PreBound, BindsFromCalls
<1>5. StartsTell'
  BY <1>1, ProgramKept DEF StartsTell, host, life, Fine
<1>6. OnlyServableStarts'
  BY <1>1, ProgramKept DEF OnlyServableStarts, life
<1>7. RestartsServe'
  BY <1>1, ProgramKept DEF RestartsServe, life, host
<1> QED
  BY <1>2, <1>3, <1>4, <1>5, <1>6, <1>7

(* A call that adds no bind.                                                *)
LEMMA BuiltInv ==
  ASSUME NEW name, name # "bind", NEW s \in Builder, IInv, Calling(name), Built(s),
         UNCHANGED binds, BuiltFromCalls'
  PROVE  IInv'
<1> USE DEF IInv
<1>1. /\ pc = "build" /\ step \in Nat /\ step <= Len(program) /\ step' = step + 1
      /\ program[step].call # "bind" /\ server' = s /\ program \in Seq(Calls)
      /\ UNCHANGED <<host, life, pc, binding, outcome, binds>>
  BY ProgramsAssumption DEF Calling, Built, TypeOK
<1>2. \A i : Done(i)' => Done(i) \/ i = step
  BY <1>1, LenProperties DEF Done, life, TypeOK
<1>3. \A i : Done(i) => Done(i)'
  BY <1>1, LenProperties DEF Done, life, TypeOK
<1>4. TypeOK'
  <2>1. Len(program) \in Nat
    BY <1>1, LenProperties
  <2> QED
    BY <1>1, <2>1 DEF TypeOK, host, life, binding
<1>5. Phases'
  BY <1>1 DEF Phases, binding, life
<1>6. BindsFromCalls'
  <2>1. \A i : Binds(i) => i # step
    BY <1>1 DEF Binds
  <2> QED
    BY <1>1, <1>2, <1>3, <2>1, ProgramKept DEF BindsFromCalls, life
<1>7. ListenersAreOwn' /\ HalfIsOwn' /\ PreBound'
  BY <1>1 DEF ListenersAreOwn, HalfIsOwn, PreBound, binding, host
<1>8. StartsTell'
  BY <1>1, ProgramKept DEF StartsTell, host, life, binding, Fine
<1>9. OnlyServableStarts' /\ RestartsServe'
  BY <1>1, ProgramKept DEF OnlyServableStarts, RestartsServe, life, host
<1> QED
  BY <1>4, <1>5, <1>6, <1>7, <1>8, <1>9

-------------------------------------------------------------------------------
(* The builder's calls. *)

(* The call at `step`, and what is done once it is.                         *)
LEMMA CallingTells ==
  ASSUME NEW name, IInv, Calling(name)
  PROVE  /\ step \in DOMAIN program /\ ~Done(step)
         /\ program[step] \in Calls /\ program[step].call = name
         /\ pc = "build" /\ step \in Nat
         /\ \A i : Done(i) => i < step /\ i \in DOMAIN program
         /\ \A i : i \in DOMAIN program => i \in Nat
         /\ step' = step + 1 /\ UNCHANGED program => \A i : Done(i)' <=> Done(i) \/ i = step
<1>1. program \in Seq(Calls) /\ step \in 1..(Len(program) + 1)
  BY ProgramsAssumption DEF IInv, TypeOK
<1>2. Len(program) \in Nat /\ DOMAIN program = 1..Len(program)
  BY <1>1, LenProperties
<1>3. pc = "build" /\ step <= Len(program) /\ program[step].call = name
  BY DEF Calling
<1>4. step \in DOMAIN program
  BY <1>1, <1>2, <1>3
<1>5. program[step] \in Calls
  BY <1>1, <1>2, <1>4, ElementOfSeq
<1> QED
  BY <1>1, <1>2, <1>3, <1>4, <1>5 DEF Done

LEMMA AddRoutesInv ==
  ASSUME NEW name \in {"router", "route"}, IInv, Calling(name), AddRoutes(Paths(step)),
         Paths(step) \in SUBSET STRING
  PROVE  IInv'
<1> USE DEF IInv
<1>1. CASE Paths(step) \cap server.routes # {}
  <2>1. Exit("panic")
    BY <1>1 DEF AddRoutes
  <2>2. PICK path : path \in Paths(step) /\ path \in server.routes
    BY <1>1
  <2>3. PICK i : Done(i) /\ path \in Paths(i)
    BY <2>2, CallingTells DEF BuiltFromCalls
  <2>4. Clash
    BY <2>2, <2>3, CallingTells DEF Clash
  <2>5. ~served
    BY <2>4 DEF StartsTell, Servable
  <2> QED
    BY <2>1, <2>4, <2>5, ExitInv, CallingTells
<1>2. CASE Paths(step) \cap server.routes = {}
  <2> DEFINE s == [server EXCEPT !.routes = @ \cup Paths(step), !.has_http = TRUE]
  <2>1. Built(s) /\ UNCHANGED binds
    BY <1>2 DEF AddRoutes
  <2>2. s \in Builder
    BY DEF Builder, TypeOK
  <2>3. /\ s.routes = server.routes \cup Paths(step) /\ s.has_http = TRUE
        /\ s.services = server.services /\ s.sets = server.sets
        /\ s.health_check = server.health_check
    BY DEF TypeOK, Builder
  <2> HIDE DEF s
  <2>4. server' = s /\ UNCHANGED <<program, pc>> /\ step' = step + 1
    BY <2>1 DEF Built, life
  <2>5. /\ \A i : Done(i)' <=> Done(i) \/ i = step
        /\ program[step].call = name /\ pc = "build"
    BY <2>4, CallingTells
  <2>6. \A i, j : Done(i)' /\ Done(j)' /\ i < j =>
          Paths(i) \cap Paths(j) = {} /\ ~SameService(i, j)
    <3> SUFFICES ASSUME NEW i, NEW j, Done(i)', Done(j)', i < j
                 PROVE  Paths(i) \cap Paths(j) = {} /\ ~SameService(i, j)
      OBVIOUS
    <3>1. CASE Done(i) /\ Done(j)
      BY <3>1, <2>5 DEF BuiltFromCalls
    <3>2. CASE j = step
      <4>1. Done(i)
        BY <3>2, <2>5, CallingTells
      <4>2. Paths(i) \subseteq server.routes
        BY <4>1, <2>5 DEF BuiltFromCalls
      <4> QED
        BY <3>2, <4>2, <1>2, <2>5 DEF SameService
    <3>3. CASE i = step /\ Done(j)
      BY <3>3, CallingTells
    <3> QED
      BY <3>1, <3>2, <3>3, <2>5
  <2>7. BuiltFromCalls'
    BY <2>3, <2>4, <2>5, <2>6, ProgramKept DEF BuiltFromCalls
  <2> QED
    BY <2>1, <2>2, <2>7, BuiltInv
<1> QED
  BY <1>1, <1>2

LEMMA RouterInv == ASSUME IInv, Router \/ Route PROVE IInv'
<1>1. CASE Router
  <2>1. Calling("router") /\ Paths(step) = program[step].paths
    BY <1>1, CallingTells DEF Router, Paths
  <2> QED
    BY <1>1, <2>1, AddRoutesInv, CallingTells, CallTypes DEF Router
<1>2. CASE Route
  <2>1. Calling("route") /\ Paths(step) = {program[step].path}
    BY <1>2, CallingTells DEF Route, Paths
  <2>2. program[step].path \in STRING
    BY <2>1, CallingTells, CallTypes
  <2> QED
    BY <1>2, <2>1, <2>2, AddRoutesInv DEF Route
<1> QED
  BY <1>1, <1>2

LEMMA GrpcServiceInv == ASSUME IInv, GrpcService PROVE IInv'
<1> USE DEF IInv
<1> DEFINE name == program[step].name
<1>1. Calling("grpc_service")
  BY DEF GrpcService
<1>2. name \in STRING
  BY <1>1, CallingTells, CallTypes
<1>3. CASE name \in server.services
  <2>1. Exit("panic")
    BY <1>3 DEF GrpcService
  <2>2. PICK i : Done(i) /\ program[i].call = "grpc_service" /\ name = program[i].name
    BY <1>1, <1>3, CallingTells DEF BuiltFromCalls
  <2>3. Clash
    BY <1>1, <2>2, CallingTells DEF Clash
  <2>4. ~served
    BY <2>3 DEF StartsTell, Servable
  <2> QED
    BY <1>1, <2>1, <2>3, <2>4, ExitInv, CallingTells
<1>4. CASE name \notin server.services
  <2> DEFINE s == [server EXCEPT !.services = @ \cup {name}]
  <2>1. Built(s) /\ UNCHANGED binds
    BY <1>4 DEF GrpcService
  <2>2. s \in Builder
    BY <1>2 DEF Builder, TypeOK
  <2>3. /\ s.services = server.services \cup {name} /\ s.has_http = server.has_http
        /\ s.routes = server.routes /\ s.sets = server.sets
        /\ s.health_check = server.health_check
    BY DEF TypeOK, Builder
  <2> HIDE DEF s
  <2>4. server' = s /\ UNCHANGED <<program, pc>> /\ step' = step + 1
    BY <2>1 DEF Built, life
  <2>5. /\ \A i : Done(i)' <=> Done(i) \/ i = step
        /\ program[step].call = "grpc_service" /\ pc = "build" /\ Paths(step) = {}
    BY <1>1, <2>4, CallingTells DEF Paths
  <2>6. \A i, j : Done(i)' /\ Done(j)' /\ i < j =>
          Paths(i) \cap Paths(j) = {} /\ ~SameService(i, j)
    <3> SUFFICES ASSUME NEW i, NEW j, Done(i)', Done(j)', i < j
                 PROVE  Paths(i) \cap Paths(j) = {} /\ ~SameService(i, j)
      OBVIOUS
    <3>1. CASE Done(i) /\ Done(j)
      BY <3>1, <2>5 DEF BuiltFromCalls
    <3>2. CASE j = step
      <4>1. Done(i)
        BY <1>1, <3>2, <2>5, CallingTells
      <4>2. program[i].call = "grpc_service" => program[i].name \in server.services
        BY <4>1, <2>5 DEF BuiltFromCalls
      <4> QED
        BY <3>2, <4>2, <1>4, <2>5 DEF SameService
    <3>3. CASE i = step /\ Done(j)
      BY <1>1, <3>3, CallingTells
    <3> QED
      BY <3>1, <3>2, <3>3, <2>5
  <2>7. BuiltFromCalls'
    BY <2>3, <2>4, <2>5, <2>6, ProgramKept DEF BuiltFromCalls
  <2> QED
    BY <1>1, <2>1, <2>2, <2>7, BuiltInv
<1> QED
  BY <1>3, <1>4

(* A call that claims neither a path nor a service.                         *)
LEMMA NoClaim ==
  ASSUME NEW name \in {"grpc_reflection", "health", "on_shutdown", "bind"},
         IInv, Calling(name), UNCHANGED program, step' = step + 1
  PROVE  \A i, j : Done(i)' /\ Done(j)' /\ i < j =>
           Paths(i) \cap Paths(j) = {} /\ ~SameService(i, j)
<1> SUFFICES ASSUME NEW i, NEW j, Done(i)', Done(j)', i < j
             PROVE  Paths(i) \cap Paths(j) = {} /\ ~SameService(i, j)
  OBVIOUS
<1>1. Done(i) \/ i = step
  BY CallingTells
<1>2. Done(j) \/ j = step
  BY CallingTells
<1>3. Paths(step) = {} /\ program[step].call # "grpc_service" /\ pc = "build"
  BY CallingTells DEF Paths
<1>4. CASE Done(i) /\ Done(j)
  BY <1>3, <1>4 DEF BuiltFromCalls, IInv
<1>5. CASE i = step \/ j = step
  BY <1>3, <1>5 DEF SameService
<1> QED
  BY <1>1, <1>2, <1>4, <1>5

LEMMA OtherCallsInv ==
  ASSUME IInv, GrpcReflection \/ HealthCheck \/ OnShutdown
  PROVE  IInv'
<1> USE DEF IInv
<1>1. CASE GrpcReflection
  <2> DEFINE valid == program[step].valid
             s == [server EXCEPT !.sets = @ \cup {valid}]
  <2>1. Calling("grpc_reflection") /\ Built(s) /\ UNCHANGED binds
    BY <1>1 DEF GrpcReflection
  <2>2. valid \in BOOLEAN
    BY <2>1, CallingTells, CallTypes
  <2>3. s \in Builder
    BY <2>2 DEF Builder, TypeOK
  <2>4. /\ s.sets = server.sets \cup {valid} /\ s.has_http = server.has_http
        /\ s.routes = server.routes /\ s.services = server.services
        /\ s.health_check = server.health_check
    BY DEF TypeOK, Builder
  <2> HIDE DEF s
  <2>5. server' = s /\ UNCHANGED <<program, pc>> /\ step' = step + 1
    BY <2>1 DEF Built, life
  <2>6. /\ \A i : Done(i)' <=> Done(i) \/ i = step
        /\ program[step].call = "grpc_reflection" /\ pc = "build" /\ Paths(step) = {}
    BY <2>1, <2>5, CallingTells DEF Paths
  <2>7. BuiltFromCalls'
    BY <2>1, <2>4, <2>5, <2>6, NoClaim, ProgramKept DEF BuiltFromCalls
  <2> QED
    BY <2>1, <2>3, <2>7, BuiltInv
<1>2. CASE HealthCheck
  <2> DEFINE s == [server EXCEPT !.health_check = TRUE]
  <2>1. Calling("health") /\ Built(s) /\ UNCHANGED binds
    BY <1>2 DEF HealthCheck
  <2>2. s \in Builder
    BY DEF Builder, TypeOK
  <2>3. /\ s.sets = server.sets /\ s.has_http = server.has_http
        /\ s.routes = server.routes /\ s.services = server.services
        /\ s.health_check = TRUE
    BY DEF TypeOK, Builder
  <2> HIDE DEF s
  <2>4. server' = s /\ UNCHANGED <<program, pc>> /\ step' = step + 1
    BY <2>1 DEF Built, life
  <2>5. /\ \A i : Done(i)' <=> Done(i) \/ i = step
        /\ program[step].call = "health" /\ pc = "build" /\ Paths(step) = {}
    BY <2>1, <2>4, CallingTells DEF Paths
  <2>6. BuiltFromCalls'
    BY <2>1, <2>3, <2>4, <2>5, NoClaim, ProgramKept DEF BuiltFromCalls
  <2> QED
    BY <2>1, <2>2, <2>6, BuiltInv
<1>3. CASE OnShutdown
  <2> DEFINE s == [server EXCEPT !.hook = TRUE]
  <2>1. Calling("on_shutdown") /\ Built(s) /\ UNCHANGED binds
    BY <1>3 DEF OnShutdown
  <2>2. s \in Builder
    BY DEF Builder, TypeOK
  <2>3. /\ s.sets = server.sets /\ s.has_http = server.has_http
        /\ s.routes = server.routes /\ s.services = server.services
        /\ s.health_check = server.health_check
    BY DEF TypeOK, Builder
  <2> HIDE DEF s
  <2>4. server' = s /\ UNCHANGED <<program, pc>> /\ step' = step + 1
    BY <2>1 DEF Built, life
  <2>5. /\ \A i : Done(i)' <=> Done(i) \/ i = step
        /\ program[step].call = "on_shutdown" /\ pc = "build" /\ Paths(step) = {}
    BY <2>1, <2>4, CallingTells DEF Paths
  <2>6. BuiltFromCalls'
    BY <2>1, <2>3, <2>4, <2>5, NoClaim, ProgramKept DEF BuiltFromCalls
  <2> QED
    BY <2>1, <2>2, <2>6, BuiltInv
<1> QED
  BY <1>1, <1>2, <1>3

(* While the server is built only pre-bound listeners hold a socket.        *)
LEMMA HeldWhileBuilding ==
  ASSUME IInv, pc = "build"
  PROVE  Held = {SocketOf(binds[i]) : i \in {j \in DOMAIN binds : IsListener(binds[j])}}
<1>1. listeners = <<>> /\ v4 = <<>>
  BY DEF IInv, Phases
<1>2. {listeners[n].at : n \in DOMAIN listeners} = {} /\ {v4[n] : n \in DOMAIN v4} = {}
  BY <1>1
<1> QED
  BY <1>2 DEF Held, SocketOf, IsListener

LEMMA ListenerWants ==
  ASSUME NEW spec, IsListener(spec)
  PROVE  SocketOf(spec) \in Wanted(spec) /\ Wanted(spec) = {SocketOf(spec)}
BY DEF Wanted, IsListener, SocketOf

LEMMA BindInv == ASSUME IInv, Bind PROVE IInv'
<1> USE DEF IInv
<1> DEFINE spec == Target(step)
           socket == SocketOf(spec)
<1>1. Calling("bind")
  BY DEF Bind
<1>2. /\ step \in DOMAIN program /\ Binds(step) /\ program[step].target \in Targets
      /\ pc = "build"
  BY <1>1, CallingTells, CallTypes DEF Binds
<1>3. spec \in BindSpec /\ (IsListener(spec) => socket \in Sockets)
  BY <1>2, SpecType DEF Target
<1> HIDE DEF spec
<1>4. CASE IsListener(spec) /\ ~Grants(socket)
  <2>1. Exit("NoListener")
    BY <1>4 DEF Bind, IsListener, SocketOf, spec, Target
  <2>2. ASSUME served, ~disturbed, Apart PROVE FALSE
    <3>1. Fine(spec) /\ taken = {}
      BY <1>2, <2>2 DEF StartsTell, spec
    <3>2. PICK t \in Held : Meets(socket, t)
      BY <1>4, <3>1 DEF Grants, Clear, Fine, IsListener, SocketOf
    <3>3. PICK i \in DOMAIN binds : IsListener(binds[i]) /\ SocketOf(binds[i]) = t
      BY <1>2, HeldWhileBuilding
    <3>5. PICK p : Done(p) /\ Binds(p) /\ binds[i] = Target(p)
      BY <1>2 DEF BindsFromCalls
    <3>6. p \in DOMAIN program /\ p < step
      BY <3>5 DEF Done
    <3>7. Clear(Wanted(Target(p)), Wanted(spec))
      BY <1>2, <2>2, <3>5, <3>6, ApartWanted DEF spec, TypeOK
    <3> QED
      BY <1>4, <3>2, <3>3, <3>5, <3>7, ListenerWants, Meeting DEF Clear
  <2> QED
    BY <1>2, <2>1, <2>2, ExitInv
<1>5. CASE ~(IsListener(spec) /\ ~Grants(socket))
  <2>1. /\ binds' = Append(binds, spec) /\ server' = server /\ step' = step + 1
        /\ UNCHANGED <<host, life, pc, binding, outcome>>
    BY <1>5 DEF Bind, Built, IsListener, SocketOf, spec, Target
  <2>2. /\ binds' \in Seq(BindSpec) /\ Len(binds') = Len(binds) + 1 /\ Len(binds) \in Nat
        /\ DOMAIN binds = 1..Len(binds) /\ DOMAIN binds' = 1..(Len(binds) + 1)
        /\ \A k \in 1..Len(binds) : binds'[k] = binds[k]
        /\ binds'[Len(binds) + 1] = spec
    BY <1>3, <2>1, AppendProperties, LenProperties DEF TypeOK
  <2>3. /\ \A i : Done(i)' <=> Done(i) \/ i = step
        /\ \A i : Done(i) => i \in DOMAIN program /\ i < step
        /\ program[step].call = "bind" /\ Paths(step) = {}
    BY <1>1, <2>1, CallingTells DEF Paths, life
  <2>4. TypeOK'
    <3>1. program \in Seq(Calls)
      BY ProgramsAssumption DEF TypeOK
    <3>2. Len(program) \in Nat /\ step <= Len(program) /\ step \in Nat
      BY <1>1, <3>1, LenProperties DEF Calling, TypeOK
    <3> QED
      BY <2>1, <2>2, <3>2 DEF TypeOK, host, life, binding
  <2>5. Phases'
    BY <1>2, <2>1 DEF Phases, binding, life
  <2>6. BuiltFromCalls'
    BY <1>1, <1>2, <2>1, <2>3, NoClaim, ProgramKept DEF BuiltFromCalls, life
  <2>7. BindsFromCalls'
    <3>1. \A i : Done(i)' /\ Binds(i) => \E k \in DOMAIN binds' : binds'[k] = Target(i)
      <4> SUFFICES ASSUME NEW i, Done(i)', Binds(i)
                   PROVE  \E k \in DOMAIN binds' : binds'[k] = Target(i)
        OBVIOUS
      <4>1. CASE Done(i)
        <5>1. PICK k \in DOMAIN binds : binds[k] = Target(i)
          BY <1>2, <4>1 DEF BindsFromCalls
        <5> QED
          BY <2>2, <5>1
      <4>2. CASE i = step
        BY <2>2, <4>2 DEF spec
      <4> QED
        BY <2>3, <4>1, <4>2
    <3>2. \A k \in DOMAIN binds' : \E i : Done(i)' /\ Binds(i) /\ binds'[k] = Target(i)
      <4> SUFFICES ASSUME NEW k \in DOMAIN binds'
                   PROVE  \E i : Done(i)' /\ Binds(i) /\ binds'[k] = Target(i)
        OBVIOUS
      <4>1. CASE k \in 1..Len(binds)
        <5>1. PICK i : Done(i) /\ Binds(i) /\ binds[k] = Target(i)
          BY <1>2, <2>2, <4>1 DEF BindsFromCalls
        <5> QED
          BY <2>2, <2>3, <4>1, <5>1
      <4>2. CASE k = Len(binds) + 1
        BY <1>2, <2>2, <2>3, <4>2 DEF spec
      <4> QED
        BY <2>2, <4>1, <4>2
    <3>3. ASSUME Apart, NEW k \in DOMAIN binds', NEW l \in DOMAIN binds', k < l
          PROVE  Clear(Wanted(binds'[k]), Wanted(binds'[l]))
      <4>1. CASE l \in 1..Len(binds)
        <5>1. k \in DOMAIN binds /\ l \in DOMAIN binds
          BY <2>2, <3>3, <4>1
        <5> QED
          BY <2>2, <3>3, <4>1, <5>1 DEF BindsFromCalls
      <4>2. CASE l = Len(binds) + 1
        <5>1. k \in DOMAIN binds /\ binds'[k] = binds[k] /\ binds'[l] = spec
          BY <2>2, <3>3, <4>2
        <5>2. PICK i : Done(i) /\ Binds(i) /\ binds[k] = Target(i)
          BY <1>2, <5>1 DEF BindsFromCalls
        <5> QED
          BY <1>2, <2>3, <3>3, <5>1, <5>2, ApartWanted DEF spec, Done, TypeOK
      <4> QED
        BY <2>2, <4>1, <4>2
    <3>4. /\ \A i : Binds(i)' <=> Binds(i)
          /\ \A i : Target(i)' = Target(i)
          /\ Apart' <=> Apart
      BY <2>1, ProgramKept DEF life
    <3>5. Apart => \A k, l \in DOMAIN binds' :
            k < l => Clear(Wanted(binds'[k]), Wanted(binds'[l]))
      BY <3>3
    <3>6. (\A i : pc # "down" /\ Done(i) /\ Binds(i) =>
             \E k \in DOMAIN binds : binds[k] = Target(i))'
      BY <3>1, <3>4
    <3>7. (\A k \in DOMAIN binds : \E i : Done(i) /\ Binds(i) /\ binds[k] = Target(i))'
      BY <3>2, <3>4
    <3> QED
      BY <3>4, <3>5, <3>6, <3>7 DEF BindsFromCalls
  <2>8. ListenersAreOwn' /\ HalfIsOwn' /\ PreBound'
    <3>1. listeners' = <<>> /\ v4' = <<>> /\ next' = 1
      BY <1>2, <2>1 DEF Phases, binding
    <3>2. ASSUME NEW i \in DOMAIN binds', NEW j \in DOMAIN binds', i < j,
                 IsListener(binds'[i]), IsListener(binds'[j])
          PROVE  ~Meets(SocketOf(binds'[i]), SocketOf(binds'[j]))
      <4>1. i \in DOMAIN binds /\ binds'[i] = binds[i]
        BY <2>2, <3>2
      <4>2. CASE j \in 1..Len(binds)
        BY <2>2, <3>2, <4>1, <4>2 DEF ListenersAreOwn
      <4>3. CASE j = Len(binds) + 1
        <5>1. SocketOf(binds[i]) \in Held
          BY <1>2, <3>2, <4>1, HeldWhileBuilding
        <5> QED
          BY <1>5, <2>2, <3>2, <4>1, <4>3, <5>1, Meeting DEF Grants, Clear
      <4> QED
        BY <2>2, <4>2, <4>3
    <3>3. PreBound'
      <4>1. IsListener(spec) => socket \in Sockets /\ Stack(spec.family) \in stacks
        BY <1>3, <1>5 DEF Grants, SocketOf
      <4>2. stacks' = stacks
        BY <2>1 DEF host
      <4> QED
        BY <2>2, <4>1, <4>2 DEF PreBound
    <3> QED
      BY <2>2, <3>1, <3>2, <3>3 DEF ListenersAreOwn, HalfIsOwn
  <2>9. StartsTell'
    <3>1. next' = 1 /\ pc' = "build"
      BY <1>2, <2>1 DEF Phases, binding
    <3> QED
      BY <2>1, <2>2, <3>1, ProgramKept DEF StartsTell, host, life, Fine
  <2>10. OnlyServableStarts' /\ RestartsServe'
    BY <1>2, <2>1, ProgramKept DEF OnlyServableStarts, RestartsServe, life, host
  <2> QED
    BY <2>4, <2>5, <2>6, <2>7, <2>8, <2>9, <2>10
<1> QED
  BY <1>4, <1>5

-------------------------------------------------------------------------------
(* into_app. *)

(* Once every call is made the Server tells whether the program is one that *)
(* can be served.                                                           *)
LEMMA ServingTells ==
  ASSUME IInv, Serving
  PROVE  /\ pc = "build" /\ step = Len(program) + 1
         /\ \A i : Done(i) <=> i \in DOMAIN program
         /\ configured <=> HasRoutes
         /\ FALSE \in server.sets <=> HasInvalidSet
         /\ "/health" \in server.routes <=> Clash
<1> USE DEF IInv
<1>1. program \in Seq(Calls) /\ step \in 1..(Len(program) + 1)
  BY ProgramsAssumption DEF TypeOK
<1>2. Len(program) \in Nat /\ DOMAIN program = 1..Len(program)
  BY <1>1, LenProperties
<1>3. pc = "build" /\ step = Len(program) + 1
  BY <1>1, <1>2 DEF Serving
<1>4. \A i : Done(i) <=> i \in DOMAIN program
  BY <1>2, <1>3 DEF Done
<1>5. \A i \in DOMAIN program : program[i] \in Calls
  BY <1>1, ElementOfSeq, <1>2
<1>6. configured <=> HasRoutes
  <2>1. server.has_http <=> Makes("router") \/ Makes("route")
    BY <1>3, <1>4 DEF BuiltFromCalls, Makes
  <2>2. server.services # {} <=> Makes("grpc_service")
    <3>1. \A name : name \in server.services <=>
            \E i \in DOMAIN program : program[i].call = "grpc_service" /\ name = program[i].name
      BY <1>3, <1>4 DEF BuiltFromCalls
    <3> HIDE DEF IInv
    <3> QED
      BY <3>1 DEF Makes
  <2>3. server.sets # {} <=> Makes("grpc_reflection")
    <3>1. \A valid : valid \in server.sets <=>
            \E i \in DOMAIN program :
              program[i].call = "grpc_reflection" /\ valid = program[i].valid
      BY <1>3, <1>4 DEF BuiltFromCalls
    <3> HIDE DEF IInv
    <3> QED
      BY <3>1 DEF Makes
  <2>4. server.health_check <=> Makes("health")
    BY <1>3, <1>4 DEF BuiltFromCalls, Makes
  <2> QED
    BY <2>1, <2>2, <2>3, <2>4 DEF configured, HasRoutes
<1>7. FALSE \in server.sets <=> HasInvalidSet
  <2>1. FALSE \in server.sets <=> \E i \in DOMAIN program :
          program[i].call = "grpc_reflection" /\ FALSE = program[i].valid
    BY <1>3, <1>4 DEF BuiltFromCalls
  <2>2. \A i \in DOMAIN program :
          program[i].call = "grpc_reflection" => program[i].valid \in BOOLEAN
    BY <1>5, CallTypes
  <2> QED
    BY <2>1, <2>2 DEF HasInvalidSet
<1>8. "/health" \in server.routes <=> Clash
  <2>1. "/health" \in server.routes <=> \E i \in DOMAIN program : "/health" \in Paths(i)
    BY <1>3, <1>4 DEF BuiltFromCalls
  <2>2. \A i, j \in DOMAIN program : i < j =>
          Paths(i) \cap Paths(j) = {} /\ ~SameService(i, j)
    BY <1>3, <1>4 DEF BuiltFromCalls
  <2> QED
    BY <2>1, <2>2 DEF Clash, SameService
<1> QED
  BY <1>3, <1>4, <1>6, <1>7, <1>8

LEMMA RefusedInv ==
  ASSUME IInv, NoRoutes \/ HealthIsTaken \/ InvalidDescriptorSet
  PROVE  IInv'
<1>1. Serving
  BY DEF NoRoutes, HealthIsTaken, InvalidDescriptorSet
<1>2. PICK result \in {"NoRoutes", "panic", "InvalidDescriptorSet"} :
        /\ Exit(result)
        /\ result = "NoRoutes" => ~configured
        /\ result = "panic" => "/health" \in server.routes
        /\ result = "InvalidDescriptorSet" => FALSE \in server.sets
  BY DEF NoRoutes, HealthIsTaken, InvalidDescriptorSet
<1>3. /\ result = "NoRoutes" => ~HasRoutes
      /\ result = "panic" => Clash
      /\ result = "InvalidDescriptorSet" => HasInvalidSet
  BY <1>1, <1>2, ServingTells
<1>4. ~served
  BY <1>3 DEF IInv, StartsTell, Servable
<1> QED
  BY <1>1, <1>2, <1>3, <1>4, ServingTells, ExitInv

LEMMA DefaultIsSpec == DefaultBind \in BindSpec
BY PortsAssumption DEF DefaultBind, BindSpec, Kinds, Families

LEMMA IntoAppInv == ASSUME IInv, IntoApp PROVE IInv'
<1> USE DEF IInv
<1>1. /\ Serving /\ configured /\ "/health" \notin server.routes /\ FALSE \notin server.sets
      /\ pc' = "bind" /\ server' = Empty
      /\ binds' = IF binds = <<>> THEN <<DefaultBind>> ELSE binds
      /\ UNCHANGED <<host, life, step, binding, outcome>>
  BY DEF IntoApp
<1>2. /\ Servable /\ pc = "build" /\ step = Len(program) + 1
      /\ next = 1 /\ listeners = <<>> /\ v4 = <<>>
  BY <1>1, ServingTells DEF Servable, Phases
<1>3. binds' \in Seq(BindSpec) /\ Len(binds') \in Nat
  BY <1>1, DefaultIsSpec, LenProperties DEF TypeOK
<1>4. TypeOK'
  <2>1. Empty \in Builder
    BY DEF Empty, Builder
  <2> QED
    BY <1>1, <1>2, <1>3, <2>1 DEF TypeOK, host, life, binding
<1>5. Phases' /\ BuiltFromCalls'
  BY <1>1, <1>2 DEF Phases, BuiltFromCalls, binding, life
<1>6. BindsFromCalls'
  <2>1. /\ \A i : Binds(i)' <=> Binds(i)
        /\ \A i : Target(i)' = Target(i)
        /\ \A i : Done(i)' <=> Done(i)
        /\ Apart' <=> Apart
    BY <1>1, ProgramKept DEF life, Done
  <2>2. CASE binds = <<>>
    <3>1. \A i : Done(i) => ~Binds(i)
      BY <1>2, <2>2 DEF BindsFromCalls
    <3>2. binds' = <<DefaultBind>> /\ DOMAIN binds' = {1}
      BY <1>1, <2>2
    <3> QED
      BY <1>1, <2>1, <3>1, <3>2 DEF BindsFromCalls
  <2>3. CASE binds # <<>>
    BY <1>1, <1>2, <2>1, <2>3 DEF BindsFromCalls
  <2> QED
    BY <2>2, <2>3
<1>7. ListenersAreOwn' /\ HalfIsOwn' /\ PreBound'
  <2>1. next' = 1 /\ listeners' = <<>> /\ v4' = <<>>
    BY <1>1, <1>2 DEF binding
  <2>2. \A i, j \in DOMAIN binds' :
          i < j /\ IsListener(binds'[i]) /\ IsListener(binds'[j]) =>
            ~Meets(SocketOf(binds'[i]), SocketOf(binds'[j]))
    <3>1. CASE binds = <<>>
      BY <1>1, <3>1
    <3>2. CASE binds # <<>>
      BY <1>1, <3>2 DEF ListenersAreOwn
    <3> QED
      BY <3>1, <3>2
  <2>3. DOMAIN binds' = 1..Len(binds')
    BY <1>3, LenProperties
  <2>4. PreBound'
    <3>1. CASE binds = <<>>
      BY <1>1, <3>1 DEF PreBound, DefaultBind, IsListener
    <3>2. CASE binds # <<>>
      BY <1>1, <3>2 DEF PreBound, host
    <3> QED
      BY <3>1, <3>2
  <2> QED
    BY <1>3, <2>1, <2>2, <2>3, <2>4 DEF ListenersAreOwn, HalfIsOwn
<1>8. StartsTell'
  <2>1. DOMAIN binds' = 1..Len(binds') /\ next' = 1
    BY <1>1, <1>2, <1>3, LenProperties DEF binding
  <2> QED
    BY <1>1, <1>3, <2>1, ProgramKept DEF StartsTell, host, life, Fine
<1>9. OnlyServableStarts' /\ RestartsServe'
  BY <1>1, <1>2, ProgramKept DEF OnlyServableStarts, RestartsServe, life, host, Servable, Phases
<1> QED
  BY <1>4, <1>5, <1>6, <1>7, <1>8, <1>9

-------------------------------------------------------------------------------
(* resolve_binds. *)

LEMMA WantedIs ==
  ASSUME NEW spec \in BindSpec
  PROVE  /\ Port(spec) \in Ports \cup {0} /\ spec.port \in Ports \cup {0}
         /\ spec.family \in Kinds
         /\ spec.variant = "DualStackPort" =>
              \A f \in Families : Choices(f, spec.port) \subseteq Wanted(spec)
         /\ spec.variant \in {"Addr", "Ip", "Str"} =>
              Wanted(spec) = Choices(spec.family, Port(spec))
<1>1. Port(spec) \in Ports \cup {0} /\ spec.port \in Ports \cup {0} /\ spec.family \in Kinds
  BY PortsAssumption DEF BindSpec, Port
<1>2. spec.variant = "DualStackPort" => Wanted(spec) = DualStack(spec.port)
  BY DEF Wanted
<1>3. spec.variant \in {"Addr", "Ip", "Str"} => Wanted(spec) = Choices(spec.family, Port(spec))
  BY DEF Wanted
<1> QED
  BY <1>1, <1>2, <1>3 DEF DualStack

(* A socket the kernel gives is nobody's.                                   *)
LEMMA FreeIsFree ==
  ASSUME NEW kind \in Kinds, NEW port \in Ports \cup {0}, NEW s \in Free(kind, port)
  PROVE  /\ s \in Sockets /\ s[1] = kind /\ s \in Choices(kind, port)
         /\ Stack(kind) \in stacks /\ Clear({s}, Held)
         /\ \A n \in DOMAIN listeners : ~Meets(listeners[n].at, s)
         /\ \A k \in DOMAIN v4 : ~Meets(v4[k], s)
         /\ \A i \in DOMAIN binds : IsListener(binds[i]) => ~Meets(SocketOf(binds[i]), s)
<1>1. /\ s \in {kind} \X (IF port = 0 THEN Ports ELSE {port})
      /\ Stack(s[1]) \in stacks /\ \A t \in taken \cup Held : ~Meets(s, t)
  BY DEF Free, Choices, Grants, Clear
<1>2. s \in Sockets /\ s[1] = kind /\ s \in Choices(kind, port) /\ Clear({s}, Held)
  BY <1>1 DEF Sockets, Choices, Clear
<1>3. /\ \A n \in DOMAIN listeners : listeners[n].at \in Held
      /\ \A k \in DOMAIN v4 : v4[k] \in Held
      /\ \A i \in DOMAIN binds : IsListener(binds[i]) => SocketOf(binds[i]) \in Held
  BY DEF Held, IsListener, SocketOf
<1>4. \A t \in Held : ~Meets(t, s)
  BY <1>1, Meeting
<1> QED
  BY <1>1, <1>2, <1>3, <1>4

(* Without neighbours a bind that no other one interferes with finds a      *)
(* socket.                                                                  *)
LEMMA FreeAtHand ==
  ASSUME IInv, pc \in {"bind", "bind6"}, NEW kind \in Kinds, v4 = <<>> \/ kind = "v6",
         next \in DOMAIN binds, ~IsListener(binds[next]),
         ~disturbed, Apart,
         Stack(kind) \in stacks, NEW port \in Ports \cup {0},
         Choices(kind, port) \subseteq Wanted(binds[next])
  PROVE  Free(kind, port) # {}
<1> USE DEF IInv
<1> DEFINE q == IF port = 0 THEN ConfigPort ELSE port
           s == <<kind, q>>
<1>1. s \in {kind} \X (IF port = 0 THEN Ports ELSE {port}) /\ s[1] = kind
  BY PortsAssumption
<1>2. s \in Wanted(binds[next])
  BY <1>1 DEF Choices
<1> HIDE DEF s
<1>3. taken = {} /\ \A k \in DOMAIN v4 : ~Meets(v4[k], s)
  BY <1>1, Meeting DEF StartsTell, HalfIsOwn
<1>4. \A i \in DOMAIN binds : i # next => \A t \in Wanted(binds[i]) : ~Meets(t, s)
  <2> SUFFICES ASSUME NEW i \in DOMAIN binds, i # next
               PROVE  \A t \in Wanted(binds[i]) : ~Meets(t, s)
    OBVIOUS
  <2>1. i < next \/ next < i
    BY LenProperties DEF TypeOK
  <2>2. Clear(Wanted(binds[i]), Wanted(binds[next]))
    BY <2>1, Meeting DEF BindsFromCalls
  <2> QED
    BY <1>2, <2>2 DEF Clear
<1>5. \A n \in DOMAIN listeners : ~Meets(listeners[n].at, s)
  <2> SUFFICES ASSUME NEW n \in DOMAIN listeners PROVE ~Meets(listeners[n].at, s)
    OBVIOUS
  <2>1. /\ listeners[n].of \in DOMAIN binds /\ listeners[n].of < next
        /\ listeners[n].at \in Wanted(binds[listeners[n].of])
    BY DEF ListenersAreOwn
  <2>2. listeners[n].of # next
    BY <2>1 DEF TypeOK
  <2> QED
    BY <1>4, <2>1, <2>2
<1>6. \A i \in DOMAIN binds : IsListener(binds[i]) => ~Meets(SocketOf(binds[i]), s)
  BY <1>4, ListenerWants
<1>7. \A t \in Held : ~Meets(t, s)
  BY <1>3, <1>5, <1>6 DEF Held, IsListener, SocketOf
<1>8. Clear({s}, taken \cup Held)
  BY <1>3, <1>7, Meeting DEF Clear
<1>9. s \in Free(kind, port)
  BY <1>1, <1>8 DEF Free, Choices, Grants
<1> QED
  BY <1>9

(* A socket that may be pushed.                                             *)
Pushable(s) ==
  /\ s \in Sockets
  /\ s \in Wanted(binds[next])
  /\ \A n \in DOMAIN listeners : ~Meets(listeners[n].at, s)
  /\ \A i \in DOMAIN binds :
       IsListener(binds[i]) /\ Meets(SocketOf(binds[i]), s) => i = next

(* Listeners of one bind are added to the others.                           *)
LEMMA PushInv ==
  ASSUME IInv, pc \in {"bind", "bind6"}, next <= Len(binds), Fine(binds[next]),
         NEW sockets \in Seq(Sockets), Len(sockets) \in {1, 2}, Push(sockets),
         Len(sockets) = 2 => sockets[1][1] = "v4" /\ sockets[2][1] = "v6",
         \A k \in DOMAIN sockets : Pushable(sockets[k])
  PROVE  IInv'
<1> USE DEF IInv
<1> DEFINE pushed == [n \in DOMAIN sockets |-> [of |-> next, at |-> sockets[n]]]
           L == Len(listeners)
           K == Len(sockets)
<1>1. /\ pc' = "bind" /\ listeners' = listeners \o pushed /\ v4' = <<>>
      /\ next' = next + 1
      /\ UNCHANGED <<host, life, step, server, binds, outcome>>
  BY DEF Push
<1>2. /\ K \in {1, 2} /\ L \in Nat /\ DOMAIN sockets = 1..K /\ DOMAIN listeners = 1..L
      /\ Len(binds) \in Nat /\ DOMAIN binds = 1..Len(binds) /\ next \in 1..Len(binds)
      /\ binds[next] \in BindSpec
  BY LenProperties, ElementOfSeq DEF TypeOK
<1>3. pushed \in Seq([of: Nat, at: Sockets]) /\ Len(pushed) = K
  <2>1. \A n \in 1..K : [of |-> next, at |-> sockets[n]] \in [of: Nat, at: Sockets]
    BY <1>2, ElementOfSeq
  <2>2. pushed \in [1..K -> [of: Nat, at: Sockets]]
    BY <1>2, <2>1
  <2> QED
    BY <1>2, <2>2, LenProperties
<1>4. \A n \in 1..K : pushed[n].of = next /\ pushed[n].at = sockets[n]
  BY <1>2
<1> HIDE DEF pushed, K, L
<1>5. /\ listeners' \in Seq([of: Nat, at: Sockets]) /\ DOMAIN listeners' = 1..(L + K)
      /\ \A n \in 1..L : listeners'[n] = listeners[n]
      /\ \A n \in 1..(L + K) : n > L => /\ listeners'[n].of = next
                                        /\ n - L \in 1..K
                                        /\ listeners'[n].at = sockets[n - L]
  <2> DEFINE R == [of: Nat, at: Sockets]
             all == listeners \o pushed
  <2>1. listeners \in Seq(R) /\ pushed \in Seq(R) /\ Len(listeners) = L /\ Len(pushed) = K
    BY <1>3 DEF TypeOK, L
  <2> HIDE DEF R
  <2>2. all \in Seq(R) /\ Len(all) = L + K
    <3>1. /\ listeners \o pushed \in Seq(R)
          /\ Len(listeners \o pushed) = Len(listeners) + Len(pushed)
      BY <2>1, ConcatProperties
    <3> QED
      BY <2>1, <3>1
  <2>3. \A n \in 1..(L + K) : all[n] = IF n <= L THEN listeners[n] ELSE pushed[n - L]
    BY <2>1, ConcatProperties
  <2>4. DOMAIN all = 1..(L + K)
    BY <2>2, LenProperties
  <2> HIDE DEF all
  <2>5. \A n \in 1..(L + K) : n > L => n - L \in 1..K /\ all[n] = pushed[n - L]
    BY <1>2, <2>3
  <2>6. \A n \in 1..L : n \in 1..(L + K) /\ all[n] = listeners[n]
    BY <1>2, <2>3
  <2>7. listeners' = all
    BY <1>1 DEF all
  <2> QED
    BY <1>4, <2>2, <2>4, <2>5, <2>6, <2>7 DEF R
<1>6. TypeOK'
  <2>1. next' \in 1..(Len(binds) + 1)
    BY <1>1, <1>2
  <2> QED
    BY <1>1, <1>5, <2>1 DEF TypeOK, host, life
<1>7. Phases' /\ BuiltFromCalls'
  BY <1>1 DEF Phases, BuiltFromCalls, life
<1>8. BindsFromCalls'
  BY <1>1, ProgramKept DEF BindsFromCalls, life, Done
<1>9. ListenersAreOwn'
  <2> DEFINE D == 1..(L + K)
  <2>1. /\ \A n \in D : n <= L \/ n > L
        /\ \A n \in D : n <= L => n \in DOMAIN listeners /\ listeners'[n] = listeners[n]
        /\ \A n \in D : n > L => /\ listeners'[n].of = next
                                 /\ listeners'[n].at = sockets[n - L]
                                 /\ n - L \in DOMAIN sockets
        /\ D \subseteq Int /\ L + 1 \in D /\ DOMAIN listeners \subseteq D
        /\ next \in DOMAIN binds /\ DOMAIN binds \subseteq Int
    BY <1>2, <1>5
  <2>2. ASSUME NEW i \in DOMAIN binds, i < next + 1
        PROVE  \E n \in D : listeners'[n].of = i
    <3>1. CASE i = next
      <4>1. L + 1 > L
        BY <1>2
      <4>2. listeners'[L + 1].of = next
        BY <2>1, <4>1
      <4> QED
        BY <2>1, <3>1, <4>2
    <3>2. CASE i < next
      <4>1. PICK n \in DOMAIN listeners : listeners[n].of = i
        BY <3>2 DEF ListenersAreOwn
      <4>2. n \in D /\ n <= L
        BY <1>2, <2>1, <4>1
      <4> QED
        BY <2>1, <4>1, <4>2
    <3> QED
      BY <2>1, <2>2, <3>1, <3>2
  <2>3. ASSUME NEW n \in D
        PROVE  /\ listeners'[n].of \in DOMAIN binds
               /\ listeners'[n].of < next + 1
               /\ listeners'[n].at \in Wanted(binds[listeners'[n].of])
               /\ \A i \in DOMAIN binds :
                    IsListener(binds[i]) /\ Meets(SocketOf(binds[i]), listeners'[n].at)
                      => listeners'[n].of = i
    <3>1. CASE n <= L
      BY <2>1, <3>1 DEF ListenersAreOwn
    <3>2. CASE n > L
      BY <2>1, <3>2 DEF Pushable
    <3> QED
      BY <2>1, <3>1, <3>2
  <2>4. ASSUME NEW n \in D, NEW m \in D, n < m
        PROVE  /\ listeners'[n].of <= listeners'[m].of
               /\ ~Meets(listeners'[n].at, listeners'[m].at)
               /\ listeners'[n].of = listeners'[m].of =>
                    listeners'[n].at[1] = "v4" /\ listeners'[m].at[1] = "v6"
    <3>1. CASE m <= L
      <4>1. n <= L
        BY <1>2, <2>1, <2>4, <3>1
      <4> QED
        <5>1. /\ n \in DOMAIN listeners /\ listeners'[n] = listeners[n]
              /\ m \in DOMAIN listeners /\ listeners'[m] = listeners[m]
          BY <2>1, <3>1, <4>1
        <5> QED
          BY <2>4, <5>1 DEF ListenersAreOwn
    <3>2. CASE n <= L /\ m > L
      <4>1. listeners[n].of < next /\ listeners[n].of \in Int
        BY <2>1, <3>2 DEF ListenersAreOwn
      <4> QED
        BY <2>1, <3>2, <4>1 DEF Pushable
    <3>3. CASE n > L
      <4>1. m > L /\ n - L < m - L /\ n - L \in 1..K /\ m - L \in 1..K
        BY <1>2, <2>1, <2>4, <3>3
      <4>2. n - L = 1 /\ m - L = 2 /\ K = 2
        BY <1>2, <4>1
      <4>3. sockets[1][1] = "v4" /\ sockets[2][1] = "v6"
        BY <4>2 DEF K
      <4> QED
        BY <2>1, <3>3, <4>1, <4>2, <4>3, Meeting
    <3> QED
      BY <2>1, <3>1, <3>2, <3>3
  <2>5. \A i, j \in DOMAIN binds :
          i < j /\ IsListener(binds[i]) /\ IsListener(binds[j]) =>
            ~Meets(SocketOf(binds[i]), SocketOf(binds[j]))
    BY DEF ListenersAreOwn
  <2>6. binds' = binds /\ next' = next + 1 /\ DOMAIN listeners' = D
    BY <1>1, <1>5
  <2> HIDE DEF D
  <2> QED
    BY <2>2, <2>3, <2>4, <2>5, <2>6 DEF ListenersAreOwn
<1>10. HalfIsOwn' /\ PreBound'
  BY <1>1 DEF HalfIsOwn, PreBound, host
<1>11. StartsTell'
  BY <1>1, <1>2, ProgramKept DEF StartsTell, host, life, Fine
<1>12. OnlyServableStarts' /\ RestartsServe'
  BY <1>1, ProgramKept DEF OnlyServableStarts, RestartsServe, life, host, Phases
<1> QED
  BY <1>6, <1>7, <1>8, <1>9, <1>10, <1>11, <1>12

(* The bind at `next`, when resolve_binds is at it.                         *)
LEMMA AtTells ==
  ASSUME IInv, NEW variants, At(variants)
  PROVE  /\ pc = "bind" /\ next \in DOMAIN binds /\ next <= Len(binds)
         /\ binds[next] \in BindSpec /\ binds[next].variant \in variants
         /\ v4 = <<>>
<1>1. pc = "bind" /\ next <= Len(binds) /\ binds[next].variant \in variants /\ v4 = <<>>
  BY DEF At, IInv, Phases
<1>2. binds \in Seq(BindSpec) /\ next \in 1..(Len(binds) + 1)
  BY DEF IInv, TypeOK
<1>3. Len(binds) \in Nat /\ DOMAIN binds = 1..Len(binds)
  BY <1>2, LenProperties
<1>4. next \in 1..Len(binds)
  BY <1>1, <1>2, <1>3
<1> QED
  BY <1>1, <1>2, <1>3, <1>4, ElementOfSeq

(* A bind of a program that has served is one that cannot be refused.       *)
LEMMA ServedIsFine ==
  ASSUME IInv, served, NEW i \in DOMAIN binds
  PROVE  Fine(binds[i])
<1> USE DEF IInv
<1>1. CASE binds = <<DefaultBind>>
  <2>1. binds[i] = DefaultBind
    BY <1>1
  <2> QED
    BY <2>1 DEF DefaultBind, Fine, IsBad
<1>2. CASE binds # <<DefaultBind>>
  <2>1. PICK p : Done(p) /\ Binds(p) /\ binds[i] = Target(p)
    BY <1>2 DEF BindsFromCalls
  <2> QED
    BY <2>1 DEF Done, StartsTell
<1> QED
  BY <1>1, <1>2

LEMMA PushOne ==
  ASSUME IInv, pc \in {"bind", "bind6"}, next <= Len(binds), Fine(binds[next]),
         NEW s, Pushable(s), Push(<<s>>)
  PROVE  IInv'
<1> DEFINE one == <<s>>
<1>1. one \in Seq(Sockets) /\ Len(one) = 1 /\ \A k \in DOMAIN one : one[k] = s
  BY DEF Pushable
<1>2. Push(one)
  OBVIOUS
<1> HIDE DEF one
<1> QED
  BY <1>1, <1>2, PushInv

LEMMA PushPair ==
  ASSUME IInv, pc \in {"bind", "bind6"}, next <= Len(binds), Fine(binds[next]),
         NEW s, Pushable(s), s[1] = "v4", NEW t, Pushable(t), t[1] = "v6",
         Push(<<s>> \o <<t>>)
  PROVE  IInv'
<1> DEFINE pair == <<s>> \o <<t>>
<1>1. <<s>> \in Seq(Sockets) /\ <<t>> \in Seq(Sockets) /\ Len(<<s>>) = 1 /\ Len(<<t>>) = 1
  BY DEF Pushable
<1>2. /\ pair \in Seq(Sockets) /\ Len(pair) = 2
      /\ \A k \in 1..2 : pair[k] = IF k <= 1 THEN <<s>>[k] ELSE <<t>>[k - 1]
  BY <1>1, ConcatProperties
<1>3. Push(pair)
  OBVIOUS
<1> HIDE DEF pair
<1>4. DOMAIN pair = {1, 2} /\ pair[1] = s /\ pair[2] = t
  BY <1>2, LenProperties
<1>5. \A k \in DOMAIN pair : Pushable(pair[k])
  BY <1>4
<1> QED
  BY <1>2, <1>3, <1>4, <1>5, PushInv

LEMMA UseListenerInv == ASSUME IInv, UseListener PROVE IInv'
<1> USE DEF IInv
<1> DEFINE spec == binds[next]
           s == SocketOf(spec)
<1>1. /\ pc = "bind" /\ next \in DOMAIN binds /\ next <= Len(binds)
      /\ spec \in BindSpec /\ spec.variant = "Listener"
  BY AtTells DEF UseListener
<1>2. Push(<<s>>)
  BY DEF UseListener, SocketOf
<1>3. s \in Wanted(spec)
  BY <1>1, ListenerWants DEF IsListener
<1>4. s \in Sockets /\ Stack(spec.family) \in stacks
  BY <1>1 DEF PreBound, IsListener
<1>5. Fine(spec)
  BY <1>1, <1>4 DEF Fine, IsBad
<1>6. \A n \in DOMAIN listeners : ~Meets(listeners[n].at, s)
  <2>1. SUFFICES ASSUME NEW n \in DOMAIN listeners, Meets(s, listeners[n].at)
                 PROVE  FALSE
    BY Meeting
  <2>2. /\ listeners[n].of < next
        /\ IsListener(spec) /\ Meets(s, listeners[n].at) => listeners[n].of = next
    BY <1>1 DEF ListenersAreOwn
  <2>3. next \in Nat
    BY DEF TypeOK
  <2> HIDE DEF s, spec, IInv
  <2> QED
    BY <1>1, <2>1, <2>2, <2>3 DEF IsListener
<1>7. \A i \in DOMAIN binds : IsListener(binds[i]) /\ Meets(SocketOf(binds[i]), s) => i = next
  BY <1>1, LenProperties, Meeting DEF ListenersAreOwn, IsListener, TypeOK
<1>8. Pushable(s)
  BY <1>3, <1>4, <1>6, <1>7 DEF Pushable
<1> HIDE DEF spec, s
<1> QED
  BY <1>1, <1>2, <1>5, <1>8, PushOne DEF spec

LEMMA BindAddressInv == ASSUME IInv, InvalidAddress \/ BindAddress PROVE IInv'
<1> USE DEF IInv
<1> DEFINE spec == binds[next]
           port == Port(spec)
<1>1. /\ pc = "bind" /\ next \in DOMAIN binds /\ next <= Len(binds)
      /\ spec \in BindSpec /\ spec.variant \in {"Addr", "Ip", "Str"}
  BY AtTells DEF InvalidAddress, BindAddress
<1>2. /\ port \in Ports \cup {0} /\ spec.family \in Kinds
      /\ Wanted(spec) = Choices(spec.family, port)
  BY <1>1, WantedIs
<1>3. served => Fine(spec)
  BY <1>1, ServedIsFine
<1> HIDE DEF spec, port
<1>4. CASE InvalidAddress
  <2>1. Exit("InvalidAddress") /\ IsBad(spec)
    BY <1>4 DEF InvalidAddress, spec
  <2>2. ~served
    BY <1>3, <2>1 DEF Fine
  <2>3. Servable
    BY <1>1 DEF OnlyServableStarts
  <2> QED
    BY <1>1, <2>1, <2>2, <2>3, ExitInv
<1>5. CASE BindAddress
  <2>1. PICK l \in Attempt(Free(spec.family, port)) :
          IF l = <<>> THEN Exit("Io") ELSE Push(l)
    BY <1>5 DEF BindAddress, spec, port
  <2>2. ~IsBad(spec)
    BY <1>5 DEF BindAddress, spec
  <2>3. CASE Free(spec.family, port) = {}
    <3>1. Exit("Io")
      BY <2>1, <2>3 DEF Attempt
    <3>2. ASSUME served, ~disturbed, Apart PROVE FALSE
      <4>1. Stack(spec.family) \in stacks
        BY <1>1, <1>3, <3>2 DEF Fine
      <4>2. ~IsListener(spec) /\ Choices(spec.family, port) \subseteq Wanted(spec)
        BY <1>1, <1>2 DEF IsListener
      <4> QED
        BY <1>1, <1>2, <2>3, <3>2, <4>1, <4>2, FreeAtHand DEF spec, Phases
    <3>3. Servable
      BY <1>1 DEF OnlyServableStarts
    <3> QED
      BY <1>1, <3>1, <3>2, <3>3, ExitInv
  <2>4. CASE Free(spec.family, port) # {}
    <3>1. PICK s \in Free(spec.family, port) : l = <<s>>
      BY <2>1, <2>4 DEF Attempt
    <3>2. /\ s \in Sockets /\ s \in Wanted(spec) /\ Stack(spec.family) \in stacks
          /\ \A n \in DOMAIN listeners : ~Meets(listeners[n].at, s)
          /\ \A i \in DOMAIN binds : IsListener(binds[i]) => ~Meets(SocketOf(binds[i]), s)
      <4>1. spec.family \in Kinds /\ port \in Ports \cup {0}
        BY <1>2
      <4>2. s \in Sockets /\ s \in Choices(spec.family, port) /\ Stack(spec.family) \in stacks
        BY <4>1, FreeIsFree
      <4>3. /\ \A n \in DOMAIN listeners : ~Meets(listeners[n].at, s)
            /\ \A i \in DOMAIN binds : IsListener(binds[i]) => ~Meets(SocketOf(binds[i]), s)
        BY <4>1, FreeIsFree
      <4> QED
        BY <1>2, <4>2, <4>3
    <3>3. Push(<<s>>)
      BY <2>1, <3>1
    <3>4. Fine(spec)
      BY <2>2, <3>2 DEF Fine
    <3>5. Pushable(s)
      BY <3>2 DEF Pushable, spec
    <3> QED
      BY <1>1, <3>3, <3>4, <3>5, PushOne DEF spec
  <2> QED
    BY <2>3, <2>4
<1> QED
  BY <1>4, <1>5

LEMMA BindV4Inv == ASSUME IInv, BindV4 PROVE IInv'
<1> USE DEF IInv
<1> DEFINE spec == binds[next]
           port == spec.port
<1>1. /\ pc = "bind" /\ next \in DOMAIN binds /\ next <= Len(binds)
      /\ spec \in BindSpec /\ spec.variant = "DualStackPort"
  BY AtTells DEF BindV4
<1>2. port \in Ports \cup {0} /\ Choices("v4", port) \subseteq Wanted(spec)
  BY <1>1, WantedIs DEF Families
<1> HIDE DEF spec, port
<1>3. /\ v4' \in Attempt(Free("v4", port))
      /\ pc' = "bind6"
      /\ UNCHANGED <<host, life, step, server, binds, next, listeners, outcome>>
  BY DEF BindV4, spec, port
<1>4. v4' = <<>> \/ \E s \in Free("v4", port) : v4' = <<s>>
  BY <1>3 DEF Attempt
<1>5. \A s \in Free("v4", port) :
        /\ s \in Sockets /\ s[1] = "v4" /\ s \in Wanted(spec)
        /\ \A n \in DOMAIN listeners : ~Meets(listeners[n].at, s)
        /\ \A i \in DOMAIN binds : IsListener(binds[i]) => ~Meets(SocketOf(binds[i]), s)
  BY <1>2, FreeIsFree DEF Kinds, Families
<1>6. TypeOK'
  <2>1. v4' \in {<<>>} \cup {<<s>> : s \in Sockets}
    BY <1>4, <1>5
  <2> QED
    BY <1>3, <2>1 DEF TypeOK, host, life
<1>7. Phases' /\ BuiltFromCalls'
  BY <1>1, <1>3 DEF Phases, BuiltFromCalls, life, spec
<1>8. BindsFromCalls'
  BY <1>1, <1>3, ProgramKept DEF BindsFromCalls, life, Done
<1>9. ListenersAreOwn' /\ PreBound'
  BY <1>3 DEF ListenersAreOwn, PreBound, host
<1>10. HalfIsOwn'
  <2>1. CASE v4' = <<>>
    BY <2>1 DEF HalfIsOwn
  <2>2. ASSUME NEW s \in Free("v4", port), v4' = <<s>>
        PROVE  HalfIsOwn'
    <3>1. \A k \in DOMAIN v4' : v4'[k] = s
      BY <2>2
    <3> QED
      BY <1>3, <1>5, <3>1 DEF HalfIsOwn, spec
  <2> QED
    BY <1>4, <2>1, <2>2
<1>11. StartsTell'
  <2>1. ~disturbed /\ "v4" \in stacks /\ Apart => v4' # <<>>
    <3> SUFFICES ASSUME ~disturbed, "v4" \in stacks, Apart PROVE v4' # <<>>
      OBVIOUS
    <3>1. Free("v4", port) # {}
      BY <1>1, <1>2, FreeAtHand DEF spec, IsListener, Phases, Kinds, Families, Stack
    <3>2. v4' \in {<<s>> : s \in Free("v4", port)}
      BY <1>3, <3>1 DEF Attempt
    <3> HIDE DEF IInv
    <3> QED
      BY <3>2
  <2> QED
    BY <1>3, <2>1, ProgramKept DEF StartsTell, host, life, Fine
<1>12. OnlyServableStarts' /\ RestartsServe'
  BY <1>1, <1>3, ProgramKept DEF OnlyServableStarts, RestartsServe, life, host
<1> QED
  BY <1>6, <1>7, <1>8, <1>9, <1>10, <1>11, <1>12

LEMMA BindV6Inv == ASSUME IInv, BindV6 PROVE IInv'
<1> USE DEF IInv
<1> DEFINE spec == binds[next]
           port == spec.port
<1>1. /\ pc = "bind6" /\ next \in DOMAIN binds /\ next <= Len(binds)
      /\ spec \in BindSpec /\ spec.variant = "DualStackPort"
  BY LenProperties, ElementOfSeq DEF BindV6, Phases, TypeOK
<1>2. /\ port \in Ports \cup {0} /\ Choices("v6", port) \subseteq Wanted(spec)
      /\ Choices("v4", port) \subseteq Wanted(spec)
  BY <1>1, WantedIs DEF Families
<1>3. Fine(spec)
  BY <1>1 DEF Fine, IsBad
<1> HIDE DEF spec, port
<1>4. PICK v6 \in Attempt(FreeV6Only(port)) :
        IF v4 = <<>> /\ v6 = <<>> THEN Exit("Io") ELSE Push(v4 \o v6)
  BY DEF BindV6, spec, port
<1>5. v6 = <<>> \/ \E t \in Free("v6", port) : v6 = <<t>>
  BY <1>4 DEF Attempt, FreeV6Only
<1>6. \A t \in Free("v6", port) :
        t \in Sockets /\ t[1] = "v6" /\ Pushable(t)
  BY <1>2, FreeIsFree DEF Pushable, spec, Kinds, Families
<1>7. v4 = <<>> \/ \E s \in Sockets : v4 = <<s>> /\ s[1] = "v4" /\ Pushable(s)
  <2>1. ASSUME NEW s \in Sockets, v4 = <<s>> PROVE s[1] = "v4" /\ Pushable(s)
    <3>1. 1 \in DOMAIN v4 /\ v4[1] = s
      BY <2>1
    <3> QED
      BY <3>1 DEF HalfIsOwn, Pushable
  <2>2. v4 = <<>> \/ \E s \in Sockets : v4 = <<s>>
    BY DEF TypeOK
  <2> QED
    BY <2>1, <2>2
<1>8. CASE v4 = <<>> /\ v6 = <<>>
  <2>1. Exit("Io")
    BY <1>4, <1>8
  <2>2. ~(~disturbed /\ "v4" \in stacks /\ Apart)
    BY <1>1, <1>8 DEF StartsTell
  <2>3. Servable
    BY <1>1 DEF OnlyServableStarts
  <2> QED
    BY <1>1, <2>1, <2>2, <2>3, ExitInv
<1>9. ASSUME NEW t \in Free("v6", port), v4 = <<>>, v6 = <<t>> PROVE IInv'
  <2>1. v4 \o v6 = <<t>>
    BY <1>6, <1>9, ConcatEmptySeq
  <2>2. Push(<<t>>)
    BY <1>4, <1>9, <2>1
  <2> QED
    BY <1>1, <1>3, <1>6, <2>2, PushOne DEF spec
<1>10. ASSUME NEW s \in Sockets, v4 = <<s>>, s[1] = "v4", Pushable(s), v6 = <<>>
       PROVE  IInv'
  <2>1. v4 \o v6 = <<s>>
    BY <1>10, ConcatEmptySeq
  <2>2. Push(<<s>>)
    BY <1>4, <1>10, <2>1
  <2> QED
    BY <1>1, <1>3, <1>10, <2>2, PushOne DEF spec
<1>11. ASSUME NEW s \in Sockets, v4 = <<s>>, s[1] = "v4", Pushable(s),
              NEW t \in Free("v6", port), v6 = <<t>>
       PROVE  IInv'
  <2>1. Push(<<s>> \o <<t>>)
    BY <1>4, <1>11
  <2> QED
    BY <1>1, <1>3, <1>6, <1>11, <2>1, PushPair DEF spec
<1> QED
  BY <1>5, <1>7, <1>8, <1>9, <1>10, <1>11

LEMMA StartInv == ASSUME IInv, Start PROVE IInv'
<1> USE DEF IInv
<1>1. /\ pc = "bind" /\ next > Len(binds) /\ pc' = "serving" /\ served' = TRUE
      /\ UNCHANGED <<host, program, starts, step, server, binds, binding, outcome>>
  BY DEF Start
<1>2. \A i \in DOMAIN binds : i < next
  BY <1>1, LenProperties DEF TypeOK
<1>3. /\ \A i : Binds(i)' <=> Binds(i)
      /\ \A i : Target(i)' = Target(i)
      /\ \A i : Done(i)' <=> Done(i)
      /\ Apart' <=> Apart
      /\ Servable' <=> Servable
      /\ HasRoutes' <=> HasRoutes
      /\ HasInvalidSet' <=> HasInvalidSet
      /\ Clash' <=> Clash
  BY <1>1, ProgramKept DEF Done
<1>4. TypeOK'
  BY <1>1 DEF TypeOK, host, binding
<1>5. Phases' /\ BuiltFromCalls'
  BY <1>1 DEF Phases, BuiltFromCalls, binding
<1>6. BindsFromCalls'
  BY <1>1, <1>3 DEF BindsFromCalls
<1>7. ListenersAreOwn' /\ HalfIsOwn' /\ PreBound'
  BY <1>1 DEF ListenersAreOwn, HalfIsOwn, PreBound, binding, host
<1>8. StartsTell'
  <2>1. Servable
    BY <1>1 DEF OnlyServableStarts, Servable
  <2>2. ASSUME NEW i \in DOMAIN program, Binds(i) PROVE Fine(Target(i))
    <3>1. Done(i)
      BY <1>1, ProgramsAssumption, LenProperties DEF Done, Phases, TypeOK
    <3>2. PICK k \in DOMAIN binds : binds[k] = Target(i)
      BY <1>1, <2>2, <3>1 DEF BindsFromCalls
    <3> QED
      BY <1>2, <3>2 DEF StartsTell
  <2> QED
    BY <1>1, <1>3, <2>1, <2>2 DEF StartsTell, host, binding, Fine
<1>9. OnlyServableStarts' /\ RestartsServe'
  BY <1>1, <1>3 DEF OnlyServableStarts, RestartsServe, host, Phases
<1> QED
  BY <1>4, <1>5, <1>6, <1>7, <1>8, <1>9

-------------------------------------------------------------------------------
(* The host. *)

LEMMA StopInv == ASSUME IInv, Stop PROVE IInv'
<1> USE DEF IInv
<1>1. /\ pc = "serving" /\ pc' = "down" /\ outcome' = "stopped"
      /\ binds' = <<>> /\ next' = 1 /\ v4' = <<>> /\ listeners' = <<>>
      /\ UNCHANGED <<stacks, taken, disturbed, life, step, server>>
  BY DEF Stop
<1>2. timeWait' \in SUBSET (Families \X Ports)
  <2>1. PICK closed \in SUBSET {s \in stacks \X Ports :
                                 \E n \in DOMAIN listeners : Meets(s, listeners[n].at)} :
          timeWait' = timeWait \cup closed
    BY DEF Stop
  <2>2. closed \subseteq stacks \X Ports
    BY <2>1
  <2> QED
    BY <2>1, <2>2 DEF TypeOK
<1>3. TypeOK'
  <2>1. binds' \in Seq(BindSpec) /\ Len(binds') = 0 /\ listeners' \in Seq([of: Nat, at: Sockets])
    BY <1>1, EmptySeq
  <2> QED
    BY <1>1, <1>2, <2>1 DEF TypeOK, life
<1>4. Phases' /\ BuiltFromCalls' /\ BindsFromCalls'
  BY <1>1 DEF Phases, BuiltFromCalls, BindsFromCalls
<1>5. ListenersAreOwn' /\ HalfIsOwn' /\ PreBound'
  BY <1>1 DEF ListenersAreOwn, HalfIsOwn, PreBound
<1>6. StartsTell'
  BY <1>1, ProgramKept DEF StartsTell, life, Fine
<1>7. OnlyServableStarts' /\ RestartsServe'
  BY <1>1 DEF OnlyServableStarts, RestartsServe
<1> QED
  BY <1>3, <1>4, <1>5, <1>6, <1>7

LEMMA RestartInv == ASSUME IInv, Restart PROVE IInv'
<1> USE DEF IInv
<1>1. /\ pc = "down" /\ starts < MaxStarts /\ starts' = starts + 1
      /\ pc' = "build" /\ step' = 1 /\ outcome' = "none"
      /\ UNCHANGED <<host, program, served, server, binds, binding>>
  BY DEF Restart
<1>2. server' = Empty /\ binds' = <<>> /\ next' = 1 /\ listeners' = <<>> /\ v4' = <<>>
  BY <1>1 DEF Phases, binding
<1>3. program \in Seq(Calls) /\ Len(program) \in Nat /\ DOMAIN program = 1..Len(program)
  BY ProgramsAssumption, LenProperties DEF TypeOK
<1>4. \A i : ~Done(i)'
  BY <1>1, <1>3 DEF Done
<1>5. TypeOK'
  BY <1>1, <1>3, MaxStartsAssumption DEF TypeOK, host, binding
<1>6. Phases'
  BY <1>1, <1>2 DEF Phases
<1>7. BuiltFromCalls'
  BY <1>2, <1>4 DEF BuiltFromCalls, Empty
<1>8. BindsFromCalls'
  BY <1>2, <1>4 DEF BindsFromCalls
<1>9. ListenersAreOwn' /\ HalfIsOwn' /\ PreBound'
  BY <1>2 DEF ListenersAreOwn, HalfIsOwn, PreBound
<1>10. StartsTell'
  BY <1>1, <1>2, ProgramKept DEF StartsTell, host, Fine
<1>11. OnlyServableStarts' /\ RestartsServe'
  BY <1>1 DEF OnlyServableStarts, RestartsServe
<1> QED
  BY <1>5, <1>6, <1>7, <1>8, <1>9, <1>10, <1>11

LEMMA NeighboursInv == ASSUME IInv, Expire \/ Take \/ Release PROVE IInv'
<1> USE DEF IInv
<1>1. UNCHANGED <<stacks, program, starts, served, pc, step, server, binds, next, v4,
                  listeners, outcome>>
  BY DEF Expire, Take, Release, life, binding
<1>2. /\ timeWait' \in SUBSET (Families \X Ports) /\ taken' \in SUBSET Foreign /\ disturbed' \in BOOLEAN
      /\ ~disturbed' => ~disturbed /\ taken' = {}
  <2>1. CASE Expire
    BY <2>1 DEF Expire, TypeOK, StartsTell
  <2>2. CASE Take
    BY <2>2 DEF Take, TypeOK
  <2>3. CASE Release
    BY <2>3 DEF Release, TypeOK, StartsTell
  <2> QED
    BY <2>1, <2>2, <2>3
<1>3. TypeOK'
  BY <1>1, <1>2 DEF TypeOK
<1>4. Phases'
  BY <1>1 DEF Phases
<1>5. BuiltFromCalls' /\ BindsFromCalls'
  BY <1>1, ProgramKept DEF BuiltFromCalls, BindsFromCalls, Done
<1>6. ListenersAreOwn' /\ HalfIsOwn' /\ PreBound'
  BY <1>1 DEF ListenersAreOwn, HalfIsOwn, PreBound
<1>7. StartsTell'
  BY <1>1, <1>2, ProgramKept DEF StartsTell, Fine
<1>8. OnlyServableStarts' /\ RestartsServe'
  BY <1>1, <1>2, ProgramKept DEF OnlyServableStarts, RestartsServe
<1> QED
  BY <1>3, <1>4, <1>5, <1>6, <1>7, <1>8

LEMMA StepInv == IInv /\ [Next]_vars => IInv'
<1> SUFFICES ASSUME IInv, [Next]_vars PROVE IInv'
  OBVIOUS
<1>1. ASSUME UNCHANGED vars PROVE IInv'
  <2>1. /\ UNCHANGED <<program, stacks, pc, step, server, binds, next, v4, listeners>>
        /\ UNCHANGED <<outcome, starts, taken, timeWait, served, disturbed>>
    BY <1>1 DEF vars, host, life, binding
  <2> QED
    BY <2>1, ProgramKept DEF IInv, TypeOK, Phases, BuiltFromCalls, BindsFromCalls,
      ListenersAreOwn, HalfIsOwn, PreBound, StartsTell, OnlyServableStarts, RestartsServe,
      Fine, Done
<1> QED
  BY <1>1, RouterInv, GrpcServiceInv, OtherCallsInv, BindInv, RefusedInv, IntoAppInv,
     UseListenerInv, BindAddressInv, BindV4Inv, BindV6Inv, StartInv,
     StopInv, RestartInv, NeighboursInv
  DEF Next, Build, Serve, ResolveBinds, Host, Finished

LEMMA Invariant == Spec => []IInv
BY InitInv, StepInv, PTL DEF Spec

(* Variables keep their types for any program and ports.                    *)
THEOREM TypeCorrect == Spec => []TypeOK
<1>1. IInv => TypeOK
  BY DEF IInv
<1> QED
  BY Invariant, <1>1, PTL

(* errors.rs:11-26: what binds can be served, and what is refused before it *)
(* is refused for a reason in the program.                                  *)
THEOREM RefusalsAreReal == Spec => []OnlyServableStarts
<1>1. IInv => OnlyServableStarts
  BY DEF IInv
<1> QED
  BY Invariant, <1>1, PTL

(* server.rs:497-509: with IPv4 and no neighbours, TIME_WAIT never keeps a  *)
(* program that has served once from serving again.                         *)
THEOREM RestartIsServed == Spec => []RestartsServe
<1>1. IInv => RestartsServe
  BY DEF IInv
<1> QED
  BY Invariant, <1>1, PTL

-------------------------------------------------------------------------------
(* The refinement of Startup. *)

(* Each pending bind is of one call and each call made so far has one, in   *)
(* their order; a server to be bound has at least the default.              *)
BindsAreCalls ==
  /\ pc \in {"bind", "bind6", "serving"} => binds # <<>>
  /\ \/ pc = "down"
     \/ pc # "build" /\ binds = <<DefaultBind>> /\ \A i \in DOMAIN program : ~Binds(i)
     \/ \E origin \in [DOMAIN binds -> DOMAIN program] :
          /\ \A k \in DOMAIN binds :
               Done(origin[k]) /\ Binds(origin[k]) /\ binds[k] = Target(origin[k])
          /\ \A k, l \in DOMAIN binds : k < l => origin[k] < origin[l]
          /\ \A i : Done(i) /\ Binds(i) => \E k \in DOMAIN binds : origin[k] = i

(* Listeners are of families of the host, which has some, and TIME_WAIT is  *)
(* of an earlier start.                                                     *)
OfTheHost ==
  /\ stacks # {}
  /\ \A n \in DOMAIN listeners : Stack(listeners[n].at[1]) \in stacks
  /\ \A k \in DOMAIN v4 : Stack(v4[k][1]) \in stacks
  /\ ~served => timeWait = {} /\ pc # "serving"
  /\ starts = 1 /\ pc # "down" => timeWait = {}

(* A family no TIME_WAIT can keep from a pair.                              *)
Sure(f) == f = "v4" \/ starts = 1 \/ ~served

(* With nothing in the way a pair behind `next` has its sure families, and  *)
(* an IPv4 half that is missing is missing for something that is held.      *)
PairsAreWhole ==
  /\ ~disturbed /\ Apart =>
       \A i \in DOMAIN binds : i < next /\ binds[i].variant = "DualStackPort" =>
         \A f \in stacks : Sure(f) =>
           \E n \in DOMAIN listeners : listeners[n].of = i /\ listeners[n].at[1] = f
  /\ pc = "bind6" /\ ~disturbed /\ v4 = <<>> => Free("v4", binds[next].port) = {}

RInv == BindsAreCalls /\ OfTheHost /\ PairsAreWhole

LEMMA BindsKept ==
  ASSUME BindsAreCalls, UNCHANGED <<program, step, binds>>,
         \/ pc' = pc
         \/ pc \in {"bind", "bind6"} /\ pc' \in {"bind", "bind6", "serving"}
  PROVE  BindsAreCalls'
<1>1. /\ \A i : Binds(i)' <=> Binds(i)
      /\ \A i : Target(i)' = Target(i)
      /\ \A i : Done(i)' <=> Done(i)
  BY ProgramKept DEF Done
<1> QED
  BY <1>1 DEF BindsAreCalls

LEMMA HostKept ==
  ASSUME OfTheHost, UNCHANGED <<stacks, starts, served, timeWait, v4, listeners>>,
         \/ pc' = pc
         \/ pc # "down" /\ pc' # "serving"
  PROVE  OfTheHost'
BY DEF OfTheHost

(* Before anything is resolved there is no pair to speak of.                *)
LEMMA NoPairs ==
  ASSUME binds' \in Seq(BindSpec), next' = 1, pc' # "bind6"
  PROVE  PairsAreWhole'
<1>1. DOMAIN binds' = 1..Len(binds') /\ Len(binds') \in Nat
  BY LenProperties
<1>2. \A i \in DOMAIN binds' : ~(i < next')
  BY <1>1
<1> QED
  BY <1>2 DEF PairsAreWhole

LEMMA ExitR == ASSUME NEW result, IInv, RInv, Exit(result) PROVE RInv'
<1>1. /\ pc' = "down" /\ binds' = <<>> /\ next' = 1 /\ listeners' = <<>> /\ v4' = <<>>
      /\ UNCHANGED <<host, life>>
  BY DEF Exit
<1>2. PairsAreWhole'
  BY <1>1, EmptySeq, NoPairs
<1>3. BindsAreCalls' /\ OfTheHost'
  BY <1>1 DEF RInv, BindsAreCalls, OfTheHost, host, life
<1> QED
  BY <1>2, <1>3 DEF RInv

(* A call that is no bind.                                                  *)
LEMMA BuiltR ==
  ASSUME NEW name, name # "bind", NEW s, IInv, RInv, Calling(name), Built(s), UNCHANGED binds
  PROVE  RInv'
<1>1. /\ pc = "build" /\ pc' = "build" /\ step' = step + 1
      /\ UNCHANGED <<host, life, pc, binding, binds>>
  BY DEF Calling, Built
<1>2. \A i : Done(i)' <=> Done(i) \/ i = step
  BY <1>1, CallingTells DEF life
<1>3. ~Binds(step)
  BY DEF Calling, Binds
<1>4. PICK origin \in [DOMAIN binds -> DOMAIN program] :
        /\ \A k \in DOMAIN binds :
             Done(origin[k]) /\ Binds(origin[k]) /\ binds[k] = Target(origin[k])
        /\ \A k, l \in DOMAIN binds : k < l => origin[k] < origin[l]
        /\ \A i : Done(i) /\ Binds(i) => \E k \in DOMAIN binds : origin[k] = i
  BY <1>1 DEF RInv, BindsAreCalls
<1>5. \A i : (Binds(i)' <=> Binds(i)) /\ Target(i)' = Target(i)
  BY <1>1, ProgramKept DEF life
<1>6. BindsAreCalls'
  BY <1>1, <1>2, <1>3, <1>4, <1>5 DEF BindsAreCalls, life
<1>7. OfTheHost'
  BY <1>1, HostKept DEF RInv, host, life, binding
<1>8. PairsAreWhole'
  BY <1>1, NoPairs DEF IInv, TypeOK, Phases, binding
<1> QED
  BY <1>6, <1>7, <1>8 DEF RInv

LEMMA BindR == ASSUME IInv, RInv, Bind PROVE RInv'
<1> DEFINE spec == Target(step)
<1>1. CASE Exit("NoListener")
  BY <1>1, ExitR
<1>2. CASE Built(server) /\ binds' = Append(binds, spec)
  <2>1. /\ pc = "build" /\ pc' = "build" /\ step' = step + 1
        /\ UNCHANGED <<host, life, pc, binding>>
    BY <1>2 DEF Bind, Calling, Built
  <2>2. /\ step \in DOMAIN program /\ ~Done(step) /\ Binds(step)
        /\ \A i : Done(i)' <=> Done(i) \/ i = step
    BY <2>1, CallingTells DEF Bind, Calling, Binds, life
  <2>3. PICK origin \in [DOMAIN binds -> DOMAIN program] :
          /\ \A k \in DOMAIN binds :
               Done(origin[k]) /\ Binds(origin[k]) /\ binds[k] = Target(origin[k])
          /\ \A k, l \in DOMAIN binds : k < l => origin[k] < origin[l]
          /\ \A i : Done(i) /\ Binds(i) => \E k \in DOMAIN binds : origin[k] = i
    BY <2>1 DEF RInv, BindsAreCalls
  <2> HIDE DEF spec
  <2>4. /\ Len(binds) \in Nat /\ DOMAIN binds = 1..Len(binds)
        /\ DOMAIN binds' = 1..(Len(binds) + 1)
        /\ \A k \in 1..Len(binds) : binds'[k] = binds[k]
        /\ binds'[Len(binds) + 1] = spec
    <3>1. binds \in Seq(BindSpec)
      BY DEF IInv, TypeOK
    <3>2. spec \in BindSpec
      BY <2>2, TargetsTyped, SpecType DEF spec, Target, IInv, TypeOK
    <3> QED
      BY <1>2, <3>1, <3>2, LenProperties, AppendProperties
  <2>5. \A k \in DOMAIN binds' : k \in DOMAIN binds \/ k = Len(binds) + 1
    BY <2>4
  <2>6. /\ Len(binds) + 1 \in DOMAIN binds' /\ Len(binds) + 1 \notin DOMAIN binds
        /\ \A k \in DOMAIN binds : k \in DOMAIN binds'
    BY <2>4
  <2>7. PICK all \in [DOMAIN binds' -> DOMAIN program] :
          all[Len(binds) + 1] = step /\ \A k \in DOMAIN binds : all[k] = origin[k]
    <3>1. [k \in DOMAIN binds' |-> IF k = Len(binds) + 1 THEN step ELSE origin[k]]
            \in [DOMAIN binds' -> DOMAIN program]
      BY <2>2, <2>3, <2>5
    <3> QED
      BY <2>6, <3>1
  <2>8. \A i : (Binds(i)' <=> Binds(i)) /\ Target(i)' = Target(i)
    BY <2>1, ProgramKept DEF life
  <2>9. \A k \in DOMAIN binds' :
          Done(all[k])' /\ Binds(all[k])' /\ binds'[k] = Target(all[k])'
    <3> SUFFICES ASSUME NEW k \in DOMAIN binds'
                 PROVE  Done(all[k])' /\ Binds(all[k])' /\ binds'[k] = Target(all[k])'
      OBVIOUS
    <3>1. CASE k \in DOMAIN binds
      <4>1. all[k] = origin[k] /\ binds'[k] = binds[k]
        BY <2>4, <2>7, <3>1
      <4> QED
        BY <2>2, <2>3, <2>8, <3>1, <4>1
    <3>2. CASE k = Len(binds) + 1
      BY <2>2, <2>4, <2>7, <2>8, <3>2 DEF spec
    <3> QED
      BY <2>5, <3>1, <3>2
  <2>10. \A k, l \in DOMAIN binds' : k < l => all[k] < all[l]
    <3> SUFFICES ASSUME NEW k \in DOMAIN binds', NEW l \in DOMAIN binds', k < l
                 PROVE  all[k] < all[l]
      OBVIOUS
    <3>1. k \in DOMAIN binds
      BY <2>4
    <3>2. CASE l \in DOMAIN binds
      BY <2>3, <2>7, <3>1, <3>2
    <3>3. CASE l = Len(binds) + 1
      BY <2>3, <2>7, <3>1, <3>3 DEF Done
    <3> QED
      BY <2>5, <3>2, <3>3
  <2>11. \A i : Done(i)' /\ Binds(i)' => \E k \in DOMAIN binds' : all[k] = i
    BY <2>2, <2>3, <2>6, <2>7, <2>8
  <2>12. BindsAreCalls'
    <3>1. program' = program /\ pc' = "build"
      BY <2>1 DEF life
    <3> QED
      BY <2>7, <2>9, <2>10, <2>11, <3>1 DEF BindsAreCalls
  <2>13. OfTheHost'
    BY <2>1, HostKept DEF RInv, host, life, binding
  <2>14. PairsAreWhole'
    <3>1. binds' \in Seq(BindSpec)
      <4>1. binds \in Seq(BindSpec)
        BY DEF IInv, TypeOK
      <4>2. spec \in BindSpec
        BY <2>2, TargetsTyped, SpecType DEF spec, Target, IInv, TypeOK
      <4> QED
        BY <1>2, <4>1, <4>2, AppendProperties
    <3> QED
      BY <2>1, <3>1, NoPairs DEF IInv, Phases, binding
  <2> QED
    BY <2>12, <2>13, <2>14 DEF RInv
<1> QED
  BY <1>1, <1>2 DEF Bind, Target

LEMMA IntoAppR == ASSUME IInv, RInv, IntoApp PROVE RInv'
<1>1. /\ pc = "build" /\ pc' = "bind" /\ step > Len(program)
      /\ binds' = IF binds = <<>> THEN <<DefaultBind>> ELSE binds
      /\ UNCHANGED <<host, life, step, binding>>
  BY DEF IntoApp, Serving
<1>2. PICK origin \in [DOMAIN binds -> DOMAIN program] :
        /\ \A k \in DOMAIN binds :
             Done(origin[k]) /\ Binds(origin[k]) /\ binds[k] = Target(origin[k])
        /\ \A k, l \in DOMAIN binds : k < l => origin[k] < origin[l]
        /\ \A i : Done(i) /\ Binds(i) => \E k \in DOMAIN binds : origin[k] = i
  BY <1>1 DEF RInv, BindsAreCalls
<1>3. /\ \A i : (Binds(i)' <=> Binds(i)) /\ Target(i)' = Target(i)
      /\ \A i : Done(i)' <=> Done(i)
  BY <1>1, ProgramKept DEF life, Done
<1>4. PairsAreWhole'
  <2>1. binds' \in Seq(BindSpec)
    BY <1>1, DefaultIsSpec DEF IInv, TypeOK
  <2> QED
    BY <1>1, <2>1, NoPairs DEF IInv, Phases, binding
<1>5. CASE binds = <<>>
  <2>1. \A i : Done(i) => ~Binds(i)
    BY <1>2, <1>5
  <2>2. \A i \in DOMAIN program : Done(i)
    BY <1>1, ProgramsAssumption, LenProperties DEF IInv, TypeOK, Done
  <2>3. binds' = <<DefaultBind>> /\ binds' # <<>>
    BY <1>1, <1>5
  <2> QED
    BY <1>1, <1>3, <1>4, <2>1, <2>2, <2>3, HostKept
    DEF RInv, BindsAreCalls, host, life, binding
<1>6. CASE binds # <<>>
  <2>1. UNCHANGED <<program, binds>>
    BY <1>1, <1>6 DEF life
  <2>2. BindsAreCalls'
    BY <1>1, <1>2, <1>3, <1>6, <2>1 DEF BindsAreCalls
  <2> QED
    BY <1>1, <1>4, <2>2, HostKept DEF RInv, host, life, binding
<1> QED
  BY <1>5, <1>6

(* What is in a concatenation is in one of its parts.                       *)
LEMMA Parts ==
  ASSUME NEW S, NEW s \in Seq(S), NEW t \in Seq(S)
  PROVE  /\ s \o t \in Seq(S)
         /\ \A k \in DOMAIN s : k \in DOMAIN (s \o t) /\ (s \o t)[k] = s[k]
         /\ \A k \in DOMAIN t : \E n \in DOMAIN (s \o t) : (s \o t)[n] = t[k]
         /\ \A n \in DOMAIN (s \o t) :
              \/ n \in DOMAIN s /\ (s \o t)[n] = s[n]
              \/ \E k \in DOMAIN t : (s \o t)[n] = t[k]
<1> DEFINE st == s \o t
<1>1. /\ st \in Seq(S) /\ DOMAIN st = 1..(Len(s) + Len(t))
      /\ Len(s) \in Nat /\ DOMAIN s = 1..Len(s) /\ Len(t) \in Nat /\ DOMAIN t = 1..Len(t)
      /\ \A n \in 1..(Len(s) + Len(t)) : st[n] = IF n <= Len(s) THEN s[n] ELSE t[n - Len(s)]
  BY ConcatProperties, LenProperties
<1> HIDE DEF st
<1>2. \A k \in DOMAIN s : k \in DOMAIN st /\ st[k] = s[k]
  BY <1>1
<1>3. \A k \in DOMAIN t : k + Len(s) \in DOMAIN st /\ st[k + Len(s)] = t[k]
  BY <1>1
<1>4. \A n \in DOMAIN st : n > Len(s) => n - Len(s) \in DOMAIN t /\ st[n] = t[n - Len(s)]
  BY <1>1
<1>5. \A n \in DOMAIN st : n <= Len(s) => n \in DOMAIN s /\ st[n] = s[n]
  BY <1>1
<1>6. \A n \in DOMAIN st : n > Len(s) \/ n <= Len(s)
  BY <1>1
<1> QED
  BY <1>1, <1>2, <1>3, <1>4, <1>5, <1>6 DEF st

(* The listeners after a bind.                                              *)
LEMMA Pushed ==
  ASSUME IInv, NEW s \in Seq(Sockets), Push(s)
  PROVE  /\ \A n \in DOMAIN listeners : n \in DOMAIN listeners' /\ listeners'[n] = listeners[n]
         /\ \A k \in DOMAIN s : \E n \in DOMAIN listeners' :
              listeners'[n] = [of |-> next, at |-> s[k]]
         /\ \A n \in DOMAIN listeners' :
              \/ n \in DOMAIN listeners /\ listeners'[n] = listeners[n]
              \/ \E k \in DOMAIN s : listeners'[n] = [of |-> next, at |-> s[k]]
<1> DEFINE R == [of: Nat, at: Sockets]
           new == [n \in DOMAIN s |-> [of |-> next, at |-> s[n]]]
<1>1. listeners \in Seq(R) /\ next \in Nat
  BY DEF IInv, TypeOK
<1>2. s \in [1..Len(s) -> Sockets] /\ Len(s) \in Nat /\ DOMAIN s = 1..Len(s)
  BY LenProperties
<1>3. new \in [1..Len(s) -> R]
  BY <1>1, <1>2
<1>4. new \in Seq(R) /\ DOMAIN new = DOMAIN s /\ \A k \in DOMAIN s : new[k] = [of |-> next, at |-> s[k]]
  BY <1>2, <1>3, SeqDef
<1>5. listeners' = listeners \o new
  BY DEF Push
<1> HIDE DEF R, new
<1>6. /\ \A n \in DOMAIN listeners : n \in DOMAIN listeners' /\ listeners'[n] = listeners[n]
      /\ \A k \in DOMAIN new : \E n \in DOMAIN listeners' : listeners'[n] = new[k]
      /\ \A n \in DOMAIN listeners' :
           \/ n \in DOMAIN listeners /\ listeners'[n] = listeners[n]
           \/ \E k \in DOMAIN new : listeners'[n] = new[k]
  <2>1. listeners \in Seq(R) /\ new \in Seq(R)
    BY <1>1, <1>4
  <2>2. /\ \A k \in DOMAIN listeners :
             k \in DOMAIN (listeners \o new) /\ (listeners \o new)[k] = listeners[k]
        /\ \A k \in DOMAIN new : \E n \in DOMAIN (listeners \o new) : (listeners \o new)[n] = new[k]
        /\ \A n \in DOMAIN (listeners \o new) :
             \/ n \in DOMAIN listeners /\ (listeners \o new)[n] = listeners[n]
             \/ \E k \in DOMAIN new : (listeners \o new)[n] = new[k]
    BY <2>1, Parts
  <2> QED
    BY <1>5, <2>2, Zenon
<1>7. \A k \in DOMAIN s : \E n \in DOMAIN listeners' : listeners'[n] = [of |-> next, at |-> s[k]]
  BY <1>4, <1>6
<1>8. \A n \in DOMAIN listeners' :
        \/ n \in DOMAIN listeners /\ listeners'[n] = listeners[n]
        \/ \E k \in DOMAIN s : listeners'[n] = [of |-> next, at |-> s[k]]
  BY <1>4, <1>6
<1> QED
  BY <1>6, <1>7, <1>8

(* A bind brings its sockets and, with them, the half it had.               *)
LEMMA PushHeld ==
  ASSUME IInv, NEW s \in Seq(Sockets), Push(s),
         \A k \in DOMAIN v4 : \E m \in DOMAIN s : s[m] = v4[k]
  PROVE  Held' = Held \cup {s[k] : k \in DOMAIN s}
<1>1. v4' = <<>> /\ UNCHANGED binds
  BY DEF Push
<1>2. {listeners'[n].at : n \in DOMAIN listeners'}
        = {listeners[n].at : n \in DOMAIN listeners} \cup {s[k] : k \in DOMAIN s}
  <2>1. ASSUME NEW n \in DOMAIN listeners'
        PROVE  \/ \E m \in DOMAIN listeners : listeners[m].at = listeners'[n].at
               \/ \E k \in DOMAIN s : s[k] = listeners'[n].at
    BY Pushed
  <2>2. \A n \in DOMAIN listeners : \E m \in DOMAIN listeners' :
          listeners'[m].at = listeners[n].at
    BY Pushed
  <2>3. \A k \in DOMAIN s : \E m \in DOMAIN listeners' : listeners'[m].at = s[k]
    BY Pushed
  <2> QED
    BY <2>1, <2>2, <2>3
<1>3. {v4'[n] : n \in DOMAIN v4'} = {} /\ {v4[n] : n \in DOMAIN v4} \subseteq {s[k] : k \in DOMAIN s}
  BY <1>1
<1>4. {<<binds[i].family, binds[i].port>> : i \in {j \in DOMAIN binds : binds[j].variant = "Listener"}}'
       = {<<binds[i].family, binds[i].port>> : i \in {j \in DOMAIN binds : binds[j].variant = "Listener"}}
  BY <1>1
<1> QED
  BY <1>2, <1>3, <1>4 DEF Held

LEMMA FreeKept ==
  ASSUME UNCHANGED <<listeners, v4, binds>>
  PROVE  /\ Held' = Held
         /\ UNCHANGED <<stacks, taken>> =>
              \A kind, port : Free(kind, port)' = Free(kind, port)
<1>1. Held' = Held
  BY DEF Held
<1>2. UNCHANGED <<stacks, taken>> => \A s : Grants(s)' <=> Grants(s)
  BY <1>1 DEF Grants
<1> QED
  BY <1>1, <1>2 DEF Free

LEMMA PairsKept ==
  ASSUME PairsAreWhole, UNCHANGED <<program, stacks, starts, binds, next, v4, listeners>>,
         served => served', disturbed => disturbed',
         ~disturbed' => UNCHANGED taken,
         pc' = pc \/ pc' # "bind6"
  PROVE  PairsAreWhole'
<1>1. \A f : Sure(f)' => Sure(f)
  BY DEF Sure
<1>2. Apart' <=> Apart
  BY ProgramKept
<1>3. ~disturbed' => \A kind, port : Free(kind, port)' = Free(kind, port)
  BY FreeKept
<1>4. ASSUME NEW i \in DOMAIN binds', ~disturbed', Apart', i < next', binds'[i].variant = "DualStackPort",
             NEW f \in stacks', Sure(f)'
      PROVE  \E n \in DOMAIN listeners' : listeners'[n].of = i /\ listeners'[n].at[1] = f
  BY <1>1, <1>2, <1>4 DEF PairsAreWhole
<1>5. pc' = "bind6" /\ ~disturbed' /\ v4' = <<>> => Free("v4", binds[next].port)' = {}
  BY <1>3 DEF PairsAreWhole
<1> QED
  BY <1>4, <1>5 DEF PairsAreWhole

LEMMA PushR ==
  ASSUME IInv, RInv, pc \in {"bind", "bind6"}, NEW s \in Seq(Sockets), Push(s),
         \A k \in DOMAIN s : Stack(s[k][1]) \in stacks,
         ~disturbed /\ Apart /\ binds[next].variant = "DualStackPort" =>
           \A f \in stacks : Sure(f) => \E k \in DOMAIN s : s[k][1] = f
  PROVE  RInv'
<1>1. /\ pc' = "bind" /\ v4' = <<>> /\ next' = next + 1
      /\ UNCHANGED <<host, life, step, server, binds, outcome>>
  BY DEF Push
<1>2. BindsAreCalls'
  BY <1>1, BindsKept DEF RInv, life
<1>3. \A n \in DOMAIN listeners' : Stack(listeners'[n].at[1]) \in stacks
  <2> SUFFICES ASSUME NEW n \in DOMAIN listeners' PROVE Stack(listeners'[n].at[1]) \in stacks
    OBVIOUS
  <2>1. CASE n \in DOMAIN listeners /\ listeners'[n] = listeners[n]
    BY <2>1 DEF RInv, OfTheHost
  <2>2. ASSUME NEW k \in DOMAIN s, listeners'[n] = [of |-> next, at |-> s[k]]
        PROVE  Stack(listeners'[n].at[1]) \in stacks
    BY <2>2
  <2> QED
    BY <2>1, <2>2, Pushed
<1>4. OfTheHost'
  BY <1>1, <1>3 DEF RInv, OfTheHost, host, life
<1>5. PairsAreWhole'
  <2>1. SUFFICES ASSUME ~disturbed, Apart, NEW i \in DOMAIN binds, i < next + 1,
                        binds[i].variant = "DualStackPort", NEW f \in stacks, Sure(f)
                 PROVE  \E n \in DOMAIN listeners' :
                          listeners'[n].of = i /\ listeners'[n].at[1] = f
    BY <1>1, ProgramKept DEF PairsAreWhole, host, life, Sure
  <2>2. i < next \/ i = next
    BY <2>1, LenProperties DEF IInv, TypeOK
  <2>3. CASE i < next
    <3>1. PICK n \in DOMAIN listeners : listeners[n].of = i /\ listeners[n].at[1] = f
      BY <2>1, <2>3 DEF RInv, PairsAreWhole
    <3> QED
      BY <3>1, Pushed
  <2>4. CASE i = next
    <3>1. PICK k \in DOMAIN s : s[k][1] = f
      BY <2>1, <2>4
    <3>2. PICK n \in DOMAIN listeners' : listeners'[n] = [of |-> next, at |-> s[k]]
      BY Pushed
    <3> QED
      BY <2>4, <3>1, <3>2
  <2> QED
    BY <2>2, <2>3, <2>4
<1> QED
  BY <1>2, <1>4, <1>5 DEF RInv

(* What a bind gives is a socket of the host, or nothing.                   *)
LEMMA AttemptIsFree ==
  ASSUME NEW kind \in Kinds, NEW port \in Ports \cup {0},
         NEW free \in SUBSET Free(kind, port), NEW s \in Attempt(free)
  PROVE  s \in Seq(Sockets) /\ \A k \in DOMAIN s : Stack(s[k][1]) \in stacks
<1>1. CASE s = <<>>
  BY <1>1, EmptySeq
<1>2. ASSUME NEW t \in free, s = <<t>>
      PROVE  s \in Seq(Sockets) /\ \A k \in DOMAIN s : Stack(s[k][1]) \in stacks
  <2>1. t \in Sockets /\ Stack(t[1]) \in stacks
    BY FreeIsFree
  <2>2. \A k \in DOMAIN s : s[k] = t
    BY <1>2
  <2> QED
    BY <1>2, <2>1, <2>2
<1> QED
  BY <1>1, <1>2 DEF Attempt

(* The half of a pair that is bound, as a sequence.                         *)
LEMMA HalfIsSeq ==
  ASSUME IInv, RInv
  PROVE  /\ v4 \in Seq(Sockets) /\ \A k \in DOMAIN v4 : v4[k][1] = "v4" /\ Stack(v4[k][1]) \in stacks
         /\ v4 # <<>> => 1 \in DOMAIN v4
<1>1. v4 = <<>> \/ \E t \in Sockets : v4 = <<t>>
  BY DEF IInv, TypeOK
<1>2. \A t \in Sockets : <<t>> \in Seq(Sockets)
  OBVIOUS
<1>3. <<>> \in Seq(Sockets)
  BY EmptySeq
<1>4. v4 \in Seq(Sockets)
  BY <1>1, <1>2, <1>3, Zenon
<1> QED
  BY <1>1, <1>4 DEF RInv, OfTheHost, IInv, HalfIsOwn

(* The sockets of a pair, when nothing is in their way.                     *)
LEMMA PairFound ==
  ASSUME IInv, RInv, pc = "bind6", next \in DOMAIN binds,
         binds[next].variant = "DualStackPort", binds[next] \in BindSpec,
         NEW v6 \in Attempt(FreeV6Only(binds[next].port)),
         v6 \in Seq(Sockets), ~disturbed, Apart, NEW f \in stacks, Sure(f)
  PROVE  \E k \in DOMAIN (v4 \o v6) : (v4 \o v6)[k][1] = f
<1> DEFINE port == binds[next].port
<1>1. f \in Families /\ port \in Ports \cup {0}
  BY WantedIs DEF IInv, TypeOK
<1>2. CASE f = "v4"
  <2>1. v4 # <<>>
    BY <1>2 DEF IInv, StartsTell
  <2>2. 1 \in DOMAIN v4 /\ v4[1][1] = "v4"
    BY <2>1, HalfIsSeq
  <2>3. 1 \in DOMAIN (v4 \o v6) /\ (v4 \o v6)[1] = v4[1]
    BY <2>2, HalfIsSeq, Parts
  <2> QED
    BY <1>2, <2>2, <2>3
<1>3. CASE f = "v6"
  <2>1. timeWait = {}
    BY <1>3 DEF Sure, RInv, OfTheHost
  <2>2. FreeV6Only(port) = Free("v6", port)
    BY <2>1 DEF FreeV6Only
  <2>3. Choices("v6", port) \subseteq Wanted(binds[next])
    BY WantedIs DEF Families
  <2>4. Stack("v6") \in stacks /\ "v6" \in Kinds
    BY <1>3 DEF Stack, Kinds, Families
  <2>5. Free("v6", port) # {}
    BY <1>1, <2>3, <2>4, FreeAtHand DEF IsListener
  <2>6. PICK t \in Free("v6", port) : v6 = <<t>>
    BY <2>2, <2>5 DEF Attempt
  <2>7. t[1] = "v6"
    BY <1>1, <2>4, FreeIsFree
  <2>8. 1 \in DOMAIN v6 /\ v6[1] = t
    BY <2>6
  <2>9. \E n \in DOMAIN (v4 \o v6) : (v4 \o v6)[n] = v6[1]
    BY <2>8, HalfIsSeq, Parts
  <2> QED
    BY <1>3, <2>7, <2>8, <2>9
<1> QED
  BY <1>1, <1>2, <1>3 DEF Families

LEMMA ResolveR ==
  ASSUME IInv, RInv, UseListener \/ InvalidAddress \/ BindAddress \/ BindV4 \/ BindV6 \/ Start
  PROVE  RInv'
<1> DEFINE spec == binds[next]
<1>1. CASE UseListener
  <2>1. /\ pc = "bind" /\ next \in DOMAIN binds /\ IsListener(spec)
        /\ spec.variant # "DualStackPort"
    BY <1>1, AtTells DEF UseListener, IsListener
  <2>2. SocketOf(spec) \in Sockets /\ Stack(spec.family) \in stacks
    BY <2>1 DEF IInv, PreBound
  <2>3. Push(<<SocketOf(spec)>>)
    BY <1>1 DEF UseListener, SocketOf
  <2>4. /\ <<SocketOf(spec)>> \in Seq(Sockets)
        /\ \A k \in DOMAIN <<SocketOf(spec)>> : <<SocketOf(spec)>>[k] = SocketOf(spec)
    BY <2>2
  <2>5. SocketOf(spec)[1] = spec.family
    BY DEF SocketOf
  <2> QED
    BY <2>1, <2>2, <2>3, <2>4, <2>5, PushR
<1>2. CASE InvalidAddress
  BY <1>2, ExitR DEF InvalidAddress
<1>3. CASE BindAddress
  <2>1. /\ pc = "bind" /\ next \in DOMAIN binds /\ spec \in BindSpec
        /\ spec.variant # "DualStackPort"
    BY <1>3, AtTells DEF BindAddress
  <2>2. Port(spec) \in Ports \cup {0} /\ spec.family \in Kinds
    BY <2>1, WantedIs
  <2>3. PICK l \in Attempt(Free(spec.family, Port(spec))) :
          IF l = <<>> THEN Exit("Io") ELSE Push(l)
    BY <1>3 DEF BindAddress
  <2>4. l \in Seq(Sockets) /\ \A k \in DOMAIN l : Stack(l[k][1]) \in stacks
    BY <2>2, <2>3, AttemptIsFree
  <2> QED
    BY <2>1, <2>3, <2>4, ExitR, PushR
<1>4. CASE BindV4
  <2>1. /\ pc = "bind" /\ next \in DOMAIN binds /\ spec \in BindSpec /\ v4 = <<>>
    BY <1>4, AtTells DEF BindV4
  <2>2. spec.port \in Ports \cup {0} /\ "v4" \in Kinds
    BY <2>1, WantedIs DEF Kinds, Families
  <2>3. /\ v4' \in Attempt(Free("v4", spec.port)) /\ pc' = "bind6"
        /\ UNCHANGED <<host, life, step, server, binds, next, listeners, outcome>>
    BY <1>4 DEF BindV4
  <2>4. \A k \in DOMAIN v4' : Stack(v4'[k][1]) \in stacks
    BY <2>2, <2>3, AttemptIsFree
  <2>5. OfTheHost'
    BY <2>1, <2>3, <2>4 DEF RInv, OfTheHost, host, life
  <2>6. BindsAreCalls'
    BY <2>1, <2>3, BindsKept DEF RInv, life
  <2>7. v4' = <<>> => Free("v4", spec.port)' = {}
    <3> SUFFICES ASSUME v4' = <<>> PROVE Free("v4", spec.port)' = {}
      OBVIOUS
    <3>1. Free("v4", spec.port) = {}
      BY <2>3 DEF Attempt
    <3>2. UNCHANGED <<listeners, v4, binds, stacks, taken, next>>
      BY <2>1, <2>3 DEF host
    <3> QED
      BY <3>1, <3>2, FreeKept
  <2>8. PairsAreWhole'
    BY <2>3, <2>7, ProgramKept DEF RInv, PairsAreWhole, host, life, Sure
  <2> QED
    BY <2>5, <2>6, <2>8 DEF RInv
<1>5. CASE BindV6
  <2>1. /\ pc = "bind6" /\ next \in DOMAIN binds /\ spec \in BindSpec
        /\ spec.variant = "DualStackPort"
    BY <1>5, LenProperties, ElementOfSeq DEF BindV6, IInv, Phases, TypeOK
  <2>2. spec.port \in Ports \cup {0} /\ "v6" \in Kinds
    BY <2>1, WantedIs DEF Kinds, Families
  <2>3. PICK v6 \in Attempt(FreeV6Only(spec.port)) :
          IF v4 = <<>> /\ v6 = <<>> THEN Exit("Io") ELSE Push(v4 \o v6)
    BY <1>5 DEF BindV6
  <2>4. v6 \in Seq(Sockets) /\ \A k \in DOMAIN v6 : Stack(v6[k][1]) \in stacks
    BY <2>2, <2>3, AttemptIsFree DEF FreeV6Only
  <2>5. /\ v4 \o v6 \in Seq(Sockets)
        /\ \A k \in DOMAIN (v4 \o v6) : Stack((v4 \o v6)[k][1]) \in stacks
    <3>1. /\ v4 \o v6 \in Seq(Sockets)
          /\ \A n \in DOMAIN (v4 \o v6) :
               \/ n \in DOMAIN v4 /\ (v4 \o v6)[n] = v4[n]
               \/ \E k \in DOMAIN v6 : (v4 \o v6)[n] = v6[k]
      <4>1. v4 \in Seq(Sockets) /\ v6 \in Seq(Sockets)
        BY <2>4, HalfIsSeq
      <4> QED
        BY <4>1, Parts
    <3> QED
      BY <2>4, <3>1, HalfIsSeq
  <2>6. ~disturbed /\ Apart =>
          \A f \in stacks : Sure(f) => \E k \in DOMAIN (v4 \o v6) : (v4 \o v6)[k][1] = f
    BY <2>1, <2>3, <2>4, PairFound
  <2> QED
    BY <2>1, <2>3, <2>5, <2>6, ExitR, PushR
<1>6. CASE Start
  <2>1. /\ pc = "bind" /\ pc' = "serving" /\ served' = TRUE
        /\ UNCHANGED <<host, program, starts, step, server, binds, binding, outcome>>
    BY <1>6 DEF Start
  <2> QED
    BY <2>1, BindsKept, PairsKept DEF RInv, OfTheHost, host, binding
<1> QED
  BY <1>1, <1>2, <1>3, <1>4, <1>5, <1>6

LEMMA HostR == ASSUME IInv, RInv, Host PROVE RInv'
<1>1. CASE Stop
  <2>1. /\ pc' = "down" /\ listeners' = <<>> /\ v4' = <<>> /\ pc = "serving"
        /\ binds' = <<>> /\ next' = 1
        /\ UNCHANGED <<stacks, taken, disturbed, life, step, server>>
    BY <1>1 DEF Stop
  <2>2. served
    BY <2>1 DEF RInv, OfTheHost
  <2>3. PairsAreWhole'
    BY <2>1, EmptySeq, NoPairs
  <2> QED
    BY <2>1, <2>2, <2>3 DEF RInv, BindsAreCalls, OfTheHost, life
<1>2. CASE Restart
  <2>1. /\ pc = "down" /\ pc' = "build" /\ step' = 1 /\ starts' = starts + 1
        /\ UNCHANGED <<host, program, served, server, binds, binding>>
    BY <1>2 DEF Restart
  <2>2. binds' = <<>> /\ listeners' = <<>> /\ next' = 1 /\ starts' # 1
    BY <2>1 DEF IInv, Phases, binding, TypeOK
  <2>3. \A i : ~Done(i)'
    BY <2>1, ProgramsAssumption, LenProperties DEF Done, IInv, TypeOK
  <2>4. <<>> \in [DOMAIN binds' -> DOMAIN program'] /\ DOMAIN binds' = {}
    BY <2>2
  <2>5. BindsAreCalls'
    BY <2>1, <2>3, <2>4 DEF BindsAreCalls
  <2>6. PairsAreWhole'
    BY <2>1, <2>2, EmptySeq, NoPairs
  <2> QED
    BY <2>1, <2>2, <2>5, <2>6 DEF RInv, OfTheHost, host, binding
<1>3. CASE Expire \/ Take \/ Release
  <2>1. /\ UNCHANGED <<stacks, program, starts, served, pc, step, binds, next, v4, listeners>>
        /\ timeWait' \subseteq timeWait
    BY <1>3 DEF Expire, Take, Release, life, binding
  <2>2. (disturbed => disturbed') /\ (~disturbed' => UNCHANGED taken)
    BY <1>3 DEF Expire, Take, Release, IInv, StartsTell
  <2> QED
    BY <2>1, <2>2, BindsKept, PairsKept DEF RInv, OfTheHost
<1>4. CASE Finished
  BY <1>4, BindsKept, HostKept, PairsKept DEF Finished, vars, host, life, binding, RInv
<1> QED
  BY <1>1, <1>2, <1>3, <1>4 DEF Host

LEMMA BuilderR ==
  ASSUME IInv, RInv, Build \/ NoRoutes \/ HealthIsTaken \/ InvalidDescriptorSet
  PROVE  RInv'
<1>1. CASE Router \/ Route
  <2>1. PICK name \in {"router", "route"} : \E paths : Calling(name) /\ AddRoutes(paths)
    BY <1>1 DEF Router, Route
  <2>2. PICK paths : Calling(name) /\ AddRoutes(paths)
    BY <2>1
  <2> QED
    BY <2>1, <2>2, ExitR, BuiltR DEF AddRoutes
<1>2. CASE GrpcService
  BY <1>2, ExitR, BuiltR DEF GrpcService
<1>3. CASE GrpcReflection \/ HealthCheck \/ OnShutdown
  BY <1>3, BuiltR DEF GrpcReflection, HealthCheck, OnShutdown
<1>4. CASE NoRoutes \/ HealthIsTaken \/ InvalidDescriptorSet
  BY <1>4, ExitR DEF NoRoutes, HealthIsTaken, InvalidDescriptorSet
<1> QED
  BY <1>1, <1>2, <1>3, <1>4, BindR DEF Build

LEMMA RInvariant == Spec => []RInv
<1>1. Init => RInv
  <2> SUFFICES ASSUME Init PROVE RInv
    OBVIOUS
  <2>1. \A i : ~Done(i)
    BY ProgramsAssumption, LenProperties DEF Done, Init
  <2>2. <<>> \in [DOMAIN binds -> DOMAIN program] /\ DOMAIN binds = {}
    BY DEF Init
  <2>3. BindsAreCalls
    BY <2>1, <2>2 DEF Init, BindsAreCalls
  <2>4. PairsAreWhole
    BY <2>2 DEF Init, PairsAreWhole
  <2> QED
    BY <2>3, <2>4 DEF Init, RInv, OfTheHost
<1>2. IInv /\ RInv /\ [Next]_vars => RInv'
  <2> SUFFICES ASSUME IInv, RInv, [Next]_vars PROVE RInv'
    OBVIOUS
  <2>1. CASE UNCHANGED vars
    BY <2>1, BindsKept, HostKept, PairsKept DEF vars, host, life, binding, RInv
  <2> QED
    BY <2>1, BuilderR, IntoAppR, ResolveR, HostR DEF Next, Serve, ResolveBinds
<1> QED
  BY <1>1, <1>2, Invariant, PTL DEF Spec

(* server.rs:254-257: a server that serves does so on its targets, on each  *)
(* of them, and on nothing twice, whatever other processes take while it    *)
(* binds; if they take nothing, a port is served in every family but for    *)
(* the IPv6 half TIME_WAIT may keep from a later start.                     *)
THEOREM TargetsAreServed == Spec => []EveryBindIsServed
<1>1. IInv /\ RInv => EveryBindIsServed
  <2> SUFFICES ASSUME IInv, RInv, pc = "serving" PROVE EveryBindIsServed
    BY DEF EveryBindIsServed
  <2>1. \A i \in DOMAIN binds : i < next
    BY LenProperties DEF IInv, TypeOK, Phases
  <2>2. ~disturbed /\ Apart =>
          \A i \in DOMAIN binds : binds[i].variant = "DualStackPort" =>
            \A f \in stacks : f = "v4" \/ starts = 1 =>
              \E n \in DOMAIN listeners : listeners[n].of = i /\ listeners[n].at[1] = f
    BY <2>1 DEF RInv, PairsAreWhole, Sure
  <2>3. /\ \A i \in DOMAIN binds : \E n \in DOMAIN listeners : listeners[n].of = i
        /\ \A n \in DOMAIN listeners :
             /\ listeners[n].of \in DOMAIN binds
             /\ listeners[n].at \in Wanted(binds[listeners[n].of])
        /\ \A n, m \in DOMAIN listeners : n < m =>
             /\ listeners[n].of <= listeners[m].of
             /\ ~Meets(listeners[n].at, listeners[m].at)
             /\ listeners[n].of = listeners[m].of =>
                  listeners[n].at[1] = "v4" /\ listeners[m].at[1] = "v6"
    BY <2>1 DEF IInv, ListenersAreOwn
  <2> QED
    BY <2>2, <2>3 DEF EveryBindIsServed
<1> QED
  BY <1>1, Invariant, RInvariant, PTL

-------------------------------------------------------------------------------
(* Startup reads the program as ServerStart does.                           *)
LEMMA SameProgram ==
  /\ Promise!HasRoutes <=> HasRoutes
  /\ Promise!HasInvalidSet <=> HasInvalidSet
  /\ Promise!Clash <=> Clash
  /\ Promise!Servable <=> Servable
  /\ Promise!Apart <=> Apart
  /\ Promise!Families = Families
  /\ \A i : Promise!Binds(i) <=> Binds(i)
  /\ \A kind : Promise!Stack(kind) = Stack(kind)
  /\ \A s, t : Promise!Meets(s, t) <=> Meets(s, t)
  /\ \A S, T : Promise!Clear(S, T) <=> Clear(S, T)
  /\ \A port : Promise!DualStack(port) = DualStack(port)
  /\ \A target : Promise!Asked(target) = Asked(target)
  /\ \A target : Promise!Unreadable(target) <=> Unreadable(target)
<1>1. \A i : Promise!Paths(i) = Paths(i)
  BY DEF Promise!Paths, Paths
<1>2. Promise!Clash <=> Clash
  BY <1>1 DEF Promise!Clash, Clash
<1>3. Promise!HasRoutes <=> HasRoutes
  BY DEF Promise!HasRoutes, HasRoutes, Promise!Makes, Makes
<1>4. Promise!HasInvalidSet <=> HasInvalidSet
  BY DEF Promise!HasInvalidSet, HasInvalidSet
<1>5. \A i : Promise!Binds(i) <=> Binds(i)
  BY DEF Promise!Binds, Binds
<1>6. \A family, port : Promise!Choices(family, port) = Choices(family, port)
  BY DEF Promise!Choices, Choices
<1>7. /\ Promise!Families = Families
      /\ \A port : Promise!DualStack(port) = DualStack(port)
  BY <1>6 DEF Promise!DualStack, DualStack, Promise!Families, Families
<1>8. \A target : Promise!Asked(target) = Asked(target)
  BY <1>6, <1>7 DEF Promise!Asked, Asked
<1>9. \A target : Promise!Unreadable(target) <=> Unreadable(target)
  BY DEF Promise!Unreadable, Unreadable
<1>10. /\ \A kind : Promise!Stack(kind) = Stack(kind)
       /\ \A s, t : Promise!Meets(s, t) <=> Meets(s, t)
  BY DEF Promise!Stack, Stack, Promise!Meets, Meets
<1>11. \A S, T : Promise!Clear(S, T) <=> Clear(S, T)
  BY <1>10 DEF Promise!Clear, Clear
<1>12. Promise!Apart <=> Apart
  BY <1>5, <1>8, <1>11 DEF Promise!Apart, Apart
<1> QED
  BY <1>2, <1>3, <1>4, <1>5, <1>7, <1>8, <1>9, <1>10, <1>11, <1>12
  DEF Promise!Servable, Servable

(* What a call's bind is to Startup.                                        *)
LEMMA CallIs ==
  ASSUME program \in Programs, NEW i \in DOMAIN program, Binds(i)
  PROVE  /\ i \in Promise!Owners /\ i \in Nat /\ i # 0
         /\ Promise!Wants(i) = Wanted(Target(i))
         /\ IsListener(Target(i)) <=> i \in Promise!PreBoundCalls
         /\ IsBad(Target(i)) <=> Promise!Bad(i)
<1>1. i \in Nat /\ i # 0
  BY ProgramsAssumption, LenProperties
<1>2. i \in Promise!BindCalls /\ i \in Promise!Owners
  BY SameProgram DEF Promise!BindCalls, Promise!Owners
<1>3. program[i].target \in Targets
  BY TargetsTyped
<1>4. IsListener(into_spec(program[i].target)) <=> program[i].target.is = "TcpListener"
  BY <1>3 DEF IsListener, into_spec, Targets
<1> QED
  BY <1>1, <1>2, <1>3, <1>4, AskedIsWanted, SameProgram
  DEF Promise!Wants, Promise!Implicit, Promise!PreBoundCalls, Promise!Bad, Target

(* The pending binds and those Startup divides the sockets among.           *)
Origin(origin) ==
  /\ origin \in [DOMAIN binds -> Promise!Owners]
  /\ \A k \in DOMAIN binds :
       /\ origin[k] \in Nat
       /\ Wanted(binds[k]) = Promise!Wants(origin[k])
       /\ IsListener(binds[k]) <=> origin[k] \in Promise!PreBoundCalls
       /\ IsBad(binds[k]) <=> Promise!Bad(origin[k])
  /\ \A k, l \in DOMAIN binds : k < l => origin[k] < origin[l]
  /\ \A i \in Promise!Owners : \E k \in DOMAIN binds : origin[k] = i

LEMMA OwnersOfBinds ==
  ASSUME IInv, RInv, pc \in {"bind", "bind6", "serving"}
  PROVE  \E origin : Origin(origin)
<1>1. /\ program \in Programs /\ Len(program) \in Nat /\ DOMAIN program = 1..Len(program)
      /\ step = Len(program) + 1 /\ binds # <<>> /\ binds \in Seq(BindSpec)
  BY ProgramsAssumption, LenProperties DEF IInv, TypeOK, Phases, RInv, BindsAreCalls
<1>2. \A i \in DOMAIN program : Done(i)
  BY <1>1 DEF Done
<1>3. Promise!BindCalls = {i \in DOMAIN program : Binds(i)}
  BY SameProgram DEF Promise!BindCalls
<1>4. CASE binds = <<DefaultBind>> /\ \A i \in DOMAIN program : ~Binds(i)
  <2>1. Promise!Owners = {0} /\ Promise!PreBoundCalls = {}
    BY <1>3, <1>4 DEF Promise!Owners, Promise!Implicit, Promise!PreBoundCalls
  <2>2. DOMAIN binds = {1} /\ binds[1] = DefaultBind
    BY <1>4
  <2>3. Wanted(DefaultBind) = DualStack(ConfigPort)
    BY DEF Wanted, DefaultBind
  <2>4. Promise!Wants(0) = DualStack(ConfigPort) /\ ~Promise!Bad(0)
    BY SameProgram DEF Promise!Wants, Promise!Implicit, Promise!Bad
  <2>5. ~IsListener(DefaultBind) /\ ~IsBad(DefaultBind)
    BY DEF IsListener, IsBad, DefaultBind
  <2>6. PICK o : o = [k \in {1} |-> 0]
    OBVIOUS
  <2>7. o \in [DOMAIN binds -> Promise!Owners] /\ o[1] = 0
    BY <2>1, <2>2, <2>6
  <2> QED
    BY <2>1, <2>2, <2>3, <2>4, <2>5, <2>7 DEF Origin
<1>5. ASSUME NEW origin \in [DOMAIN binds -> DOMAIN program],
             \A k \in DOMAIN binds :
               Done(origin[k]) /\ Binds(origin[k]) /\ binds[k] = Target(origin[k]),
             \A k, l \in DOMAIN binds : k < l => origin[k] < origin[l],
             \A i : Done(i) /\ Binds(i) => \E k \in DOMAIN binds : origin[k] = i
      PROVE  Origin(origin)
  <2>1. 1 \in DOMAIN binds
    <3>1. Len(binds) \in Nat /\ Len(binds) # 0 /\ DOMAIN binds = 1..Len(binds)
      BY <1>1, EmptySeq, LenProperties
    <3> QED
      BY <3>1
  <2>2. Promise!Owners = Promise!BindCalls
    BY <1>3, <1>5, <2>1 DEF Promise!Owners
  <2>3. \A k \in DOMAIN binds : origin[k] \in DOMAIN program /\ Binds(origin[k])
    BY <1>5
  <2>4. \A k \in DOMAIN binds :
          /\ origin[k] \in Nat
          /\ Wanted(binds[k]) = Promise!Wants(origin[k])
          /\ IsListener(binds[k]) <=> origin[k] \in Promise!PreBoundCalls
          /\ IsBad(binds[k]) <=> Promise!Bad(origin[k])
    BY <1>1, <1>5, <2>3, CallIs
  <2>5. origin \in [DOMAIN binds -> Promise!Owners]
    BY <1>3, <1>5, <2>2
  <2> QED
    BY <1>2, <1>3, <1>5, <2>2, <2>4, <2>5 DEF Origin
<1> QED
  BY <1>1, <1>4, <1>5 DEF RInv, BindsAreCalls

(* The target that is reached: what is held is of targets before it, but    *)
(* for the half of its own pair.                                            *)
Reached(i) ==
  /\ i \in Promise!Owners \ Promise!PreBoundCalls
  /\ Promise!Wants(i) = Wanted(binds[next])
  /\ Promise!Bad(i) <=> IsBad(binds[next])
  /\ \A j \in Promise!Owners : Promise!Before(j, i) => ~Promise!Bad(j) /\ Promise!Suited(j) # {}
  /\ \A t \in Held :
       \/ \E k \in DOMAIN v4 : t = v4[k]
       \/ \E j \in Promise!Owners : Promise!Before(j, i) /\ t \in Promise!Wants(j)

LEMMA SuitedBy ==
  ASSUME NEW i, NEW s \in Promise!Wants(i), Stack(s[1]) \in stacks
  PROVE  Promise!Suited(i) # {}
BY SameProgram DEF Promise!Suited

LEMMA ReachedBind ==
  ASSUME IInv, RInv, pc \in {"bind", "bind6"}, next \in DOMAIN binds, ~IsListener(binds[next])
  PROVE  \E i : Reached(i)
<1>1. PICK origin : Origin(origin)
  BY OwnersOfBinds
<1>2. PICK i : i = origin[next]
  OBVIOUS
<1>3. /\ i \in Promise!Owners \ Promise!PreBoundCalls /\ i \in Nat
      /\ Promise!Wants(i) = Wanted(binds[next])
      /\ Promise!Bad(i) <=> IsBad(binds[next])
  BY <1>1, <1>2 DEF Origin
<1>4. \A k \in DOMAIN binds :
        /\ k < next \/ IsListener(binds[k]) => Promise!Before(origin[k], i)
        /\ Promise!Before(origin[k], i) => k < next \/ IsListener(binds[k])
  <2> SUFFICES ASSUME NEW k \in DOMAIN binds
               PROVE  /\ k < next \/ IsListener(binds[k]) => Promise!Before(origin[k], i)
                      /\ Promise!Before(origin[k], i) => k < next \/ IsListener(binds[k])
    OBVIOUS
  <2>1. k \in Nat /\ next \in Nat
    BY LenProperties DEF IInv, TypeOK
  <2>2. /\ origin[k] \in Nat /\ (IsListener(binds[k]) <=> origin[k] \in Promise!PreBoundCalls)
        /\ k < next => origin[k] < i
        /\ next < k => i < origin[k]
    BY <1>1, <1>2 DEF Origin
  <2> QED
    BY <1>2, <1>3, <2>1, <2>2 DEF Promise!Before
<1>5. ASSUME NEW j \in Promise!Owners, Promise!Before(j, i)
      PROVE  ~Promise!Bad(j) /\ Promise!Suited(j) # {}
  <2>1. PICK k \in DOMAIN binds : origin[k] = j
    BY <1>1 DEF Origin
  <2>2. /\ Wanted(binds[k]) = Promise!Wants(j)
        /\ IsBad(binds[k]) <=> Promise!Bad(j)
    BY <1>1, <2>1 DEF Origin
  <2>3. CASE IsListener(binds[k])
    <3>1. ~IsBad(binds[k])
      BY <2>3 DEF IsListener, IsBad
    <3>2. SocketOf(binds[k]) \in Promise!Wants(j) /\ Stack(SocketOf(binds[k])[1]) \in stacks
      BY <2>2, <2>3, ListenerWants DEF IInv, PreBound, SocketOf
    <3> QED
      BY <2>2, <3>1, <3>2, SuitedBy
  <2>4. CASE k < next
    <3>1. ~IsBad(binds[k])
      BY <2>4 DEF IInv, StartsTell, Fine
    <3>2. PICK n \in DOMAIN listeners : listeners[n].of = k
      BY <2>4 DEF IInv, ListenersAreOwn
    <3>3. listeners[n].at \in Promise!Wants(j) /\ Stack(listeners[n].at[1]) \in stacks
      BY <2>2, <3>2 DEF IInv, ListenersAreOwn, RInv, OfTheHost
    <3> QED
      BY <2>2, <3>1, <3>3, SuitedBy
  <2> QED
    BY <1>4, <1>5, <2>1, <2>3, <2>4
<1>6. ASSUME NEW t \in Held, \A k \in DOMAIN v4 : t # v4[k]
      PROVE  \E j \in Promise!Owners : Promise!Before(j, i) /\ t \in Promise!Wants(j)
  <2>1. CASE \E n \in DOMAIN listeners : t = listeners[n].at
    <3>1. PICK n \in DOMAIN listeners : t = listeners[n].at
      BY <2>1
    <3>2. PICK k \in DOMAIN binds : k = listeners[n].of /\ k < next /\ t \in Wanted(binds[k])
      BY <3>1 DEF IInv, ListenersAreOwn
    <3> QED
      BY <1>1, <1>4, <3>2 DEF Origin
  <2>2. CASE \E k \in DOMAIN binds : IsListener(binds[k]) /\ t = SocketOf(binds[k])
    <3>1. PICK k \in DOMAIN binds : IsListener(binds[k]) /\ t \in Wanted(binds[k])
      BY <2>2, ListenerWants
    <3> QED
      BY <1>1, <1>4, <3>1 DEF Origin
  <2> QED
    BY <1>6, <2>1, <2>2 DEF Held, IsListener, SocketOf
<1>7. Reached(i)
  BY <1>3, <1>5, <1>6 DEF Reached
<1> QED
  BY <1>7

(* A target that is refused a family of the host is refused it for another. *)
LEMMA NothingFree ==
  ASSUME IInv, ~disturbed, v4 = <<>>, NEW i, Reached(i),
         NEW kind, NEW port \in Ports \cup {0}, Free(kind, port) = {},
         Choices(kind, port) \subseteq Wanted(binds[next]), Stack(kind) \in stacks
  PROVE  \E j \in Promise!Owners :
           Promise!Before(j, i) /\ ~Promise!Clear(Promise!Wants(j), Promise!Wants(i))
<1> DEFINE s == <<kind, IF port = 0 THEN ConfigPort ELSE port>>
<1>1. s \in Choices(kind, port) /\ s[1] = kind
  BY PortsAssumption DEF Choices
<1> HIDE DEF s
<1>2. ~Grants(s)
  BY <1>1 DEF Free
<1>3. taken = {}
  BY DEF IInv, StartsTell
<1>4. PICK t \in Held : Meets(s, t)
  BY <1>1, <1>2, <1>3 DEF Grants, Clear
<1>5. PICK j \in Promise!Owners : Promise!Before(j, i) /\ t \in Promise!Wants(j)
  BY DEF Reached
<1>6. s \in Promise!Wants(i)
  BY <1>1 DEF Reached
<1>7. ~Clear(Promise!Wants(j), Promise!Wants(i))
  BY <1>4, <1>5, <1>6, Meeting DEF Clear
<1> QED
  BY <1>5, <1>7, SameProgram

-------------------------------------------------------------------------------
(* The steps of Startup. *)

(* A refusal is one of Startup; the reasons that are facts of the program   *)
(* are those of OnlyServableStarts.                                         *)
LEMMA ExitRefuses ==
  ASSUME IInv, IInv', pc \in {"build", "bind", "bind6"},
         NEW result \in {"NoRoutes", "InvalidDescriptorSet", "InvalidAddress", "Io", "panic",
                         "NoListener"},
         Exit(result),
         result = "InvalidDescriptorSet" => ~Clash,
         result \in {"InvalidAddress", "Io", "NoListener"} => Promise!Cause(result)
  PROVE  Promise!Refuse
<1>1. /\ pc' = "down" /\ outcome' = result /\ UNCHANGED <<host, life>>
      /\ binds' = <<>> /\ v4' = <<>> /\ listeners' = <<>>
  BY DEF Exit
<1>2. /\ result = "NoRoutes" => ~HasRoutes
      /\ result = "InvalidDescriptorSet" => HasInvalidSet
      /\ result = "panic" => Clash
  BY <1>1, ProgramKept DEF IInv, OnlyServableStarts, life
<1>3. Promise!Cause(result)
  BY <1>2, SameProgram DEF Promise!Cause
<1>4. Held' = {}
  BY <1>1 DEF Held
<1>5. startPhase = "starting" /\ startPhase' = "down"
  BY <1>1 DEF startPhase
<1> QED
  BY <1>1, <1>3, <1>4, <1>5 DEF Promise!Refuse, host, life

(* While a start holds what it held Startup stands still.                   *)
LEMMA StartStutters ==
  ASSUME UNCHANGED <<program, stacks, disturbed, outcome, served>>, Held' = Held,
         \/ UNCHANGED pc
         \/ pc \in {"build", "bind", "bind6"} /\ pc' \in {"build", "bind", "bind6"}
  PROVE  UNCHANGED Promise!vars
<1>1. UNCHANGED startPhase
  BY DEF startPhase
<1> QED
  BY <1>1 DEF Promise!vars

LEMMA Acquires ==
  ASSUME NEW i \in Promise!Owners, NEW s \in Promise!Wants(i),
         Servable \/ i \in Promise!PreBoundCalls,
         Stack(s[1]) \in stacks, Clear({s}, Held), Held' = Held \cup {s},
         UNCHANGED <<program, stacks, disturbed, outcome, served>>,
         pc \in {"build", "bind", "bind6"}, pc' \in {"build", "bind", "bind6"}
  PROVE  Promise!Acquire
<1>1. startPhase = "starting" /\ UNCHANGED startPhase
  BY DEF startPhase
<1> QED
  BY <1>1, SameProgram DEF Promise!Acquire

LEMMA BuildStarts ==
  ASSUME IInv, IInv', Router \/ Route \/ GrpcService \/ GrpcReflection \/ HealthCheck \/ OnShutdown
  PROVE  Promise!Next \/ UNCHANGED Promise!vars
<1>1. pc = "build" /\ (Exit("panic") \/ (UNCHANGED binds /\ \E s : Built(s)))
  BY DEF Router, Route, GrpcService, GrpcReflection, HealthCheck, OnShutdown, AddRoutes, Calling
<1>2. CASE Exit("panic")
  BY <1>1, <1>2, ExitRefuses DEF Promise!Next
<1>3. ASSUME NEW s, Built(s), UNCHANGED binds PROVE UNCHANGED Promise!vars
  <2>1. Held' = Held
    BY <1>3, FreeKept DEF Built, binding
  <2> QED
    BY <1>1, <1>3, <2>1, StartStutters DEF Built, host, life
<1> QED
  BY <1>1, <1>2, <1>3

(* A pre-bound listener that fails has another process, another target or   *)
(* a missing family in its way; one that does not is the first its target   *)
(* gets.                                                                    *)
LEMMA BindStarts ==
  ASSUME IInv, IInv', Bind
  PROVE  Promise!Next \/ UNCHANGED Promise!vars
<1> DEFINE spec == Target(step)
           socket == SocketOf(spec)
<1>1. Calling("bind") /\ pc = "build"
  BY DEF Bind, Calling
<1>2. step \in DOMAIN program /\ Binds(step) /\ program \in Programs
  BY <1>1, CallingTells DEF Binds, IInv, TypeOK
<1>3. /\ step \in Promise!Owners /\ step \in Nat
      /\ Promise!Wants(step) = Wanted(spec)
      /\ IsListener(spec) <=> step \in Promise!PreBoundCalls
  BY <1>2, CallIs
<1>4. IsListener(spec) => Wanted(spec) = {socket} /\ socket[1] = spec.family
  BY ListenerWants DEF SocketOf
<1>5. \/ IsListener(spec) /\ ~Grants(socket) /\ Exit("NoListener")
      \/ /\ IsListener(spec) => Grants(socket)
         /\ Built(server) /\ binds' = Append(binds, spec)
  BY DEF Bind, IsListener, SocketOf, Target
<1> HIDE DEF spec, socket
<1>6. CASE IsListener(spec) /\ ~Grants(socket) /\ Exit("NoListener")
  <2>1. Promise!Obstructed(step)
    <3> SUFFICES ASSUME ~disturbed
                 PROVE  \/ Promise!Certain(step) = {}
                        \/ \E j \in Promise!Owners :
                             Promise!Before(j, step)
                               /\ ~Promise!Clear(Promise!Wants(j), Promise!Wants(step))
      BY DEF Promise!Obstructed
    <3>1. CASE Stack(socket[1]) \notin stacks
      <4>1. Promise!Suited(step) = {}
        BY <1>3, <1>4, <1>6, <3>1, SameProgram DEF Promise!Suited
      <4> QED
        BY <4>1 DEF Promise!Certain
    <3>2. CASE Stack(socket[1]) \in stacks
      <4>1. taken = {}
        BY DEF IInv, StartsTell
      <4>2. PICK t \in Held : Meets(socket, t)
        BY <1>6, <3>2, <4>1 DEF Grants, Clear
      <4>3. PICK k \in DOMAIN binds : IsListener(binds[k]) /\ SocketOf(binds[k]) = t
        BY <1>1, <4>2, HeldWhileBuilding
      <4>4. PICK p : Done(p) /\ Binds(p) /\ binds[k] = Target(p)
        BY <1>1 DEF IInv, BindsFromCalls
      <4>5. p \in DOMAIN program /\ p < step
        BY <4>4 DEF Done
      <4>6. p \in Promise!Owners /\ p \in Promise!PreBoundCalls /\ t \in Promise!Wants(p)
        BY <1>2, <4>3, <4>4, <4>5, CallIs, ListenerWants
      <4>7. Promise!Before(p, step)
        BY <1>3, <1>6, <4>5, <4>6 DEF Promise!Before
      <4>8. ~Clear(Promise!Wants(p), Promise!Wants(step))
        BY <1>3, <1>4, <1>6, <4>2, <4>6, Meeting DEF Clear
      <4> QED
        BY <4>6, <4>7, <4>8, SameProgram
    <3> QED
      BY <3>1, <3>2
  <2>2. Promise!Cause("NoListener")
    BY <1>3, <1>6, <2>1 DEF Promise!Cause
  <2> QED
    BY <1>1, <1>6, <2>2, ExitRefuses DEF Promise!Next
<1>7. CASE (IsListener(spec) => Grants(socket)) /\ Built(server) /\ binds' = Append(binds, spec)
  <2>1. /\ pc' = "build"
        /\ UNCHANGED <<program, stacks, disturbed, outcome, served, listeners, v4>>
    BY <1>1, <1>7 DEF Built, host, life, binding
  <2>2. Held' = Held \cup (IF IsListener(spec) THEN {socket} ELSE {})
    <3>1. binds \in Seq(BindSpec) /\ spec \in BindSpec
      BY <1>2, TargetsTyped, SpecType DEF spec, Target, IInv, TypeOK
    <3>2. /\ Len(binds) \in Nat /\ DOMAIN binds = 1..Len(binds)
          /\ DOMAIN binds' = 1..(Len(binds) + 1)
          /\ \A k \in 1..Len(binds) : binds'[k] = binds[k]
          /\ binds'[Len(binds) + 1] = spec
      BY <1>7, <3>1, LenProperties, AppendProperties
    <3>3. \A k : k \in DOMAIN binds' <=> k \in DOMAIN binds \/ k = Len(binds) + 1
      BY <3>2
    <3>4. \A t : (\E k \in DOMAIN binds' : IsListener(binds'[k]) /\ t = SocketOf(binds'[k]))
            <=> \/ \E k \in DOMAIN binds : IsListener(binds[k]) /\ t = SocketOf(binds[k])
                \/ IsListener(spec) /\ t = socket
      BY <3>2, <3>3 DEF socket
    <3>5. \A t : t \in Held' <=>
            \/ \E n \in DOMAIN listeners : t = listeners[n].at
            \/ \E n \in DOMAIN v4 : t = v4[n]
            \/ \E k \in DOMAIN binds' : IsListener(binds'[k]) /\ t = SocketOf(binds'[k])
      BY <2>1 DEF Held, IsListener, SocketOf
    <3>6. \A t : t \in Held <=>
            \/ \E n \in DOMAIN listeners : t = listeners[n].at
            \/ \E n \in DOMAIN v4 : t = v4[n]
            \/ \E k \in DOMAIN binds : IsListener(binds[k]) /\ t = SocketOf(binds[k])
      BY DEF Held, IsListener, SocketOf
    <3> QED
      BY <3>4, <3>5, <3>6
  <2>3. CASE IsListener(spec)
    <3>1. Stack(socket[1]) \in stacks /\ Clear({socket}, Held)
      BY <1>7, <2>3 DEF Grants, Clear
    <3> QED
      BY <1>1, <1>3, <1>4, <2>1, <2>2, <2>3, <3>1, Acquires DEF Promise!Next
  <2>4. CASE ~IsListener(spec)
    BY <1>1, <2>1, <2>2, <2>4, StartStutters
  <2> QED
    BY <2>3, <2>4
<1> QED
  BY <1>5, <1>6, <1>7

LEMMA ServeStarts ==
  ASSUME IInv, IInv', Serve
  PROVE  Promise!Next \/ UNCHANGED Promise!vars
<1>1. pc = "build" /\ Serving
  BY DEF Serve, NoRoutes, HealthIsTaken, InvalidDescriptorSet, IntoApp, Serving
<1>2. CASE NoRoutes
  BY <1>1, <1>2, ExitRefuses DEF NoRoutes, Promise!Next
<1>3. CASE HealthIsTaken
  BY <1>1, <1>3, ExitRefuses DEF HealthIsTaken, Promise!Next
<1>4. CASE InvalidDescriptorSet
  <2>1. ~Clash
    BY <1>1, <1>4, ServingTells DEF InvalidDescriptorSet
  <2> QED
    BY <1>1, <1>4, <2>1, ExitRefuses DEF InvalidDescriptorSet, Promise!Next
<1>5. CASE IntoApp
  <2>1. /\ pc' = "bind" /\ UNCHANGED <<host, life, binding, outcome>>
        /\ binds' = IF binds = <<>> THEN <<DefaultBind>> ELSE binds
    BY <1>5 DEF IntoApp
  <2>2. Held' = Held
    <3>1. CASE binds = <<>>
      <4>1. DOMAIN binds = {} /\ DOMAIN binds' = {1} /\ binds'[1] = DefaultBind
        BY <2>1, <3>1
      <4>2. ~\E k \in DOMAIN binds' : binds'[k].variant = "Listener"
        BY <4>1 DEF DefaultBind
      <4>3. {<<binds[i].family, binds[i].port>> :
               i \in {j \in DOMAIN binds : binds[j].variant = "Listener"}} = {}
        BY <4>1
      <4>4. {<<binds'[i].family, binds'[i].port>> :
               i \in {j \in DOMAIN binds' : binds'[j].variant = "Listener"}} = {}
        BY <4>2
      <4> QED
        BY <2>1, <4>3, <4>4 DEF Held, binding
    <3>2. CASE binds # <<>>
      BY <2>1, <3>2, FreeKept DEF binding
    <3> QED
      BY <3>1, <3>2
  <2> QED
    BY <1>1, <2>1, <2>2, StartStutters DEF host, life
<1> QED
  BY <1>2, <1>3, <1>4, <1>5 DEF Serve

LEMMA AddressStarts ==
  ASSUME IInv, IInv', RInv, UseListener \/ InvalidAddress \/ BindAddress
  PROVE  Promise!Next \/ UNCHANGED Promise!vars
<1> DEFINE spec == binds[next]
<1>1. /\ pc = "bind" /\ next \in DOMAIN binds /\ spec \in BindSpec /\ v4 = <<>>
      /\ spec.variant \in {"Listener", "Addr", "Ip", "Str"}
  BY AtTells DEF UseListener, InvalidAddress, BindAddress
<1>2. Servable
  BY <1>1 DEF IInv, OnlyServableStarts
<1>3. ASSUME NEW s \in Sockets, Push(<<s>>)
      PROVE  /\ Held' = Held \cup {s} /\ pc' = "bind"
             /\ UNCHANGED <<program, stacks, disturbed, outcome, served>>
  <2>1. PICK one : one = <<s>>
    OBVIOUS
  <2>2. one \in Seq(Sockets) /\ {one[k] : k \in DOMAIN one} = {s} /\ Push(one)
    BY <1>3, <2>1
  <2>3. \A k \in DOMAIN v4 : \E m \in DOMAIN one : one[m] = v4[k]
    BY <1>1
  <2>4. Held' = Held \cup {s}
    BY <2>2, <2>3, PushHeld
  <2> QED
    BY <2>2, <2>4 DEF Push, host, life
<1>4. CASE UseListener
  <2>1. Push(<<SocketOf(spec)>>) /\ IsListener(spec)
    BY <1>4 DEF UseListener, SocketOf, At, IsListener
  <2>2. SocketOf(spec) \in Sockets /\ SocketOf(spec) \in Held
    BY <1>1, <2>1 DEF IInv, PreBound, Held, IsListener, SocketOf
  <2>3. /\ Held' = Held /\ pc' = "bind"
        /\ UNCHANGED <<program, stacks, disturbed, outcome, served>>
    BY <1>3, <2>1, <2>2
  <2> QED
    BY <1>1, <2>3, StartStutters
<1>5. CASE InvalidAddress
  <2>1. Exit("InvalidAddress") /\ IsBad(spec) /\ ~IsListener(spec)
    BY <1>5 DEF InvalidAddress, IsBad, IsListener
  <2>2. PICK i : Reached(i)
    BY <1>1, <2>1, ReachedBind
  <2>3. Promise!Cause("InvalidAddress")
    BY <1>2, <2>1, <2>2, SameProgram DEF Promise!Cause, Reached
  <2> QED
    BY <1>1, <2>1, <2>3, ExitRefuses DEF Promise!Next
<1>6. CASE BindAddress
  <2>1. spec.variant \in {"Addr", "Ip", "Str"} /\ ~IsListener(spec) /\ ~IsBad(spec)
    BY <1>6, AtTells DEF BindAddress, IsListener
  <2>2. /\ Port(spec) \in Ports \cup {0} /\ spec.family \in Kinds
        /\ Wanted(spec) = Choices(spec.family, Port(spec))
    BY <1>1, <2>1, WantedIs
  <2>3. PICK l \in Attempt(Free(spec.family, Port(spec))) :
          IF l = <<>> THEN Exit("Io") ELSE Push(l)
    BY <1>6 DEF BindAddress
  <2>4. PICK i : Reached(i)
    BY <1>1, <2>1, ReachedBind
  <2>5. CASE Free(spec.family, Port(spec)) = {}
    <3>1. Exit("Io")
      BY <2>3, <2>5 DEF Attempt
    <3>2. Promise!Obstructed(i)
      <4>1. CASE disturbed
        BY <4>1 DEF Promise!Obstructed
      <4>2. CASE Stack(spec.family) \notin stacks
        <5>1. \A s \in Promise!Wants(i) : s[1] = spec.family
          BY <2>2, <2>4 DEF Reached, Choices
        <5>2. Promise!Suited(i) = {}
          BY <4>2, <5>1, SameProgram DEF Promise!Suited
        <5> QED
          BY <5>2 DEF Promise!Obstructed, Promise!Certain
      <4>3. CASE ~disturbed /\ Stack(spec.family) \in stacks
        <5>1. \E j \in Promise!Owners :
                Promise!Before(j, i) /\ ~Promise!Clear(Promise!Wants(j), Promise!Wants(i))
          BY <1>1, <2>2, <2>4, <2>5, <4>3, NothingFree
        <5> QED
          BY <5>1 DEF Promise!Obstructed
      <4> QED
        BY <4>1, <4>2, <4>3
    <3>3. Promise!Cause("Io")
      BY <1>2, <2>1, <2>4, <3>2, SameProgram DEF Promise!Cause, Reached
    <3> QED
      BY <1>1, <3>1, <3>3, ExitRefuses DEF Promise!Next
  <2>6. CASE Free(spec.family, Port(spec)) # {}
    <3>1. PICK s \in Free(spec.family, Port(spec)) : l = <<s>>
      BY <2>3, <2>6 DEF Attempt
    <3>2. /\ s \in Sockets /\ s \in Choices(spec.family, Port(spec))
          /\ Stack(s[1]) \in stacks /\ Clear({s}, Held)
      BY <2>2, FreeIsFree
    <3>3. Push(<<s>>)
      BY <2>3, <3>1
    <3>4. i \in Promise!Owners /\ s \in Promise!Wants(i)
      BY <2>2, <2>4, <3>2 DEF Reached
    <3>5. /\ Held' = Held \cup {s} /\ pc' = "bind"
          /\ UNCHANGED <<program, stacks, disturbed, outcome, served>>
      BY <1>3, <3>2, <3>3
    <3> QED
      BY <1>1, <1>2, <3>2, <3>4, <3>5, Acquires DEF Promise!Next
  <2> QED
    BY <2>5, <2>6
<1> QED
  BY <1>4, <1>5, <1>6

(* A port is in every family a host can have.                               *)
LEMMA PairFamilies ==
  ASSUME NEW spec, spec.variant = "DualStackPort", NEW i, Promise!Wants(i) = Wanted(spec)
  PROVE  {Promise!Stack(s[1]) : s \in Promise!Wants(i)} = Promise!Families
<1>1. Promise!Wants(i) = DualStack(spec.port)
  BY DEF Wanted
<1>2. PICK port : port \in (IF spec.port = 0 THEN Ports ELSE {spec.port})
  BY PortsAssumption
<1>3. \A f \in Families : <<f, port>> \in Promise!Wants(i)
  BY <1>1, <1>2 DEF DualStack, Choices
<1>4. \A s \in Promise!Wants(i) : s[1] \in Families
  BY <1>1 DEF DualStack, Choices
<1>5. \A f \in Families : Stack(f) = f
  BY DEF Stack, Families
<1>6. \A f \in Families : <<f, port>>[1] = f
  OBVIOUS
<1>7. \A f : f \in {Stack(s[1]) : s \in Promise!Wants(i)} <=> f \in Families
  BY <1>3, <1>4, <1>5, <1>6
<1> QED
  BY <1>7, SameProgram

(* Each half of a pair is a socket of its own. Both are refused on a host   *)
(* that has IPv4 for what is held before, on one without for that or        *)
(* because of TIME_WAIT.                                                    *)
LEMMA PairStarts ==
  ASSUME IInv, IInv', RInv, BindV4 \/ BindV6
  PROVE  Promise!Next \/ UNCHANGED Promise!vars
<1> DEFINE spec == binds[next]
<1>1. /\ pc \in {"bind", "bind6"} /\ next \in DOMAIN binds /\ spec \in BindSpec
      /\ spec.variant = "DualStackPort" /\ ~IsListener(spec) /\ ~IsBad(spec)
  <2>1. CASE BindV4
    BY <2>1, AtTells DEF BindV4, IsListener, IsBad
  <2>2. CASE BindV6
    <3>1. /\ pc = "bind6" /\ next \in DOMAIN binds
          /\ spec.variant = "DualStackPort"
      BY <2>2, LenProperties DEF BindV6, IInv, Phases, TypeOK
    <3>2. spec \in BindSpec
      BY <3>1, LenProperties, ElementOfSeq DEF IInv, TypeOK
    <3> QED
      BY <3>1, <3>2 DEF IsListener, IsBad
  <2> QED
    BY <2>1, <2>2
<1>2. Servable
  BY <1>1 DEF IInv, OnlyServableStarts
<1>3. PICK i : Reached(i)
  BY <1>1, ReachedBind
<1>4. /\ i \in Promise!Owners /\ spec.port \in Ports \cup {0}
      /\ "v4" \in Kinds /\ "v6" \in Kinds
      /\ \A f \in Families : Choices(f, spec.port) \subseteq Wanted(spec)
      /\ \A f \in Families : Choices(f, spec.port) \subseteq Promise!Wants(i)
  BY <1>1, <1>3, WantedIs DEF Reached, Kinds, Families
<1>5. CASE BindV4
  <2>1. /\ v4' \in Attempt(Free("v4", spec.port)) /\ pc' = "bind6" /\ v4 = <<>>
        /\ UNCHANGED <<host, life, step, server, binds, next, listeners, outcome>>
    BY <1>5, AtTells DEF BindV4
  <2>2. Held' = Held \cup {v4'[k] : k \in DOMAIN v4'}
    BY <2>1 DEF Held
  <2>3. CASE v4' = <<>>
    <3>1. Held' = Held
      BY <2>2, <2>3
    <3> QED
      BY <1>1, <2>1, <3>1, StartStutters DEF host, life
  <2>4. ASSUME NEW s \in Free("v4", spec.port), v4' = <<s>> PROVE Promise!Next
    <3>1. Held' = Held \cup {s}
      BY <2>2, <2>4
    <3>2. /\ s \in Choices("v4", spec.port) /\ Stack(s[1]) \in stacks /\ Clear({s}, Held)
      BY <1>4, FreeIsFree
    <3>3. s \in Promise!Wants(i)
      BY <1>4, <3>2 DEF Families
    <3> QED
      BY <1>1, <1>2, <1>4, <2>1, <3>1, <3>2, <3>3, Acquires DEF Promise!Next, host, life
  <2> QED
    BY <2>1, <2>3, <2>4 DEF Attempt
<1>6. CASE BindV6
  <2>1. pc = "bind6"
    BY <1>6 DEF BindV6
  <2>2. PICK v6 \in Attempt(FreeV6Only(spec.port)) :
          IF v4 = <<>> /\ v6 = <<>> THEN Exit("Io") ELSE Push(v4 \o v6)
    BY <1>6 DEF BindV6
  <2>3. CASE v4 = <<>> /\ v6 = <<>>
    <3>1. Exit("Io")
      BY <2>2, <2>3
    <3>2. Promise!Obstructed(i)
      <4>1. CASE disturbed
        BY <4>1 DEF Promise!Obstructed
      <4>2. ASSUME NEW f \in Families, f \in stacks, ~disturbed, Free(f, spec.port) = {}
            PROVE  Promise!Obstructed(i)
        <5>1. Stack(f) \in stacks
          BY <4>2 DEF Stack, Families
        <5>2. \E j \in Promise!Owners :
                Promise!Before(j, i) /\ ~Promise!Clear(Promise!Wants(j), Promise!Wants(i))
          BY <1>3, <1>4, <2>3, <4>2, <5>1, NothingFree
        <5> QED
          BY <5>2 DEF Promise!Obstructed
      <4>3. CASE ~disturbed /\ "v4" \in stacks
        <5>1. Free("v4", spec.port) = {}
          BY <2>1, <2>3, <4>3 DEF RInv, PairsAreWhole
        <5> QED
          BY <4>2, <4>3, <5>1 DEF Families
      <4>4. CASE ~disturbed /\ "v4" \notin stacks
        <5>1. stacks = {"v6"}
          BY <4>4 DEF IInv, TypeOK, RInv, OfTheHost, Families
        <5>2. FreeV6Only(spec.port) = {}
          BY <2>2, <2>3 DEF Attempt
        <5>3. CASE Free("v6", spec.port) = {}
          BY <4>2, <4>4, <5>1, <5>3 DEF Families
        <5>4. CASE Free("v6", spec.port) # {}
          <6>1. served
            BY <5>2, <5>4 DEF FreeV6Only, RInv, OfTheHost
          <6>2. Promise!Suited(i) \subseteq {"v6"}
            BY <5>1 DEF Promise!Suited
          <6>3. {Promise!Stack(s[1]) : s \in Promise!Wants(i)} = Promise!Families
            BY <1>1, <1>3, PairFamilies DEF Reached
          <6>4. Promise!Certain(i) = {}
            BY <6>1, <6>2, <6>3 DEF Promise!Certain
          <6> QED
            BY <6>4 DEF Promise!Obstructed
        <5> QED
          BY <5>3, <5>4
      <4> QED
        BY <4>1, <4>3, <4>4
    <3>3. Promise!Cause("Io")
      BY <1>1, <1>2, <1>3, <3>2, SameProgram DEF Promise!Cause, Reached
    <3> QED
      BY <1>1, <3>1, <3>3, ExitRefuses DEF Promise!Next
  <2>4. CASE ~(v4 = <<>> /\ v6 = <<>>)
    <3>1. Push(v4 \o v6)
      BY <2>2, <2>4
    <3>2. /\ pc' = "bind" /\ UNCHANGED <<program, stacks, disturbed, outcome, served>>
      BY <3>1 DEF Push, host, life
    <3>3. v6 \in Seq(Sockets)
      BY <1>4, <2>2, AttemptIsFree DEF FreeV6Only
    <3>4. v4 \in Seq(Sockets)
      BY HalfIsSeq
    <3>5. /\ v4 \o v6 \in Seq(Sockets)
          /\ \A k \in DOMAIN v4 : k \in DOMAIN (v4 \o v6) /\ (v4 \o v6)[k] = v4[k]
          /\ \A k \in DOMAIN v6 : \E n \in DOMAIN (v4 \o v6) : (v4 \o v6)[n] = v6[k]
          /\ \A n \in DOMAIN (v4 \o v6) :
               \/ n \in DOMAIN v4 /\ (v4 \o v6)[n] = v4[n]
               \/ \E k \in DOMAIN v6 : (v4 \o v6)[n] = v6[k]
      BY <3>3, <3>4, Parts
    <3>6. PICK pair : pair = v4 \o v6
      OBVIOUS
    <3>7. Held' = Held \cup {pair[k] : k \in DOMAIN pair}
      <4>1. pair \in Seq(Sockets) /\ Push(pair)
            /\ \A k \in DOMAIN v4 : \E m \in DOMAIN pair : pair[m] = v4[k]
        BY <3>1, <3>5, <3>6
      <4> QED
        BY <4>1, PushHeld
    <3>8. Held' = Held \cup {v6[k] : k \in DOMAIN v6}
      <4>1. \A k \in DOMAIN v4 : v4[k] \in Held
        BY DEF Held
      <4>2. \A n \in DOMAIN pair : pair[n] \in Held \/ \E k \in DOMAIN v6 : pair[n] = v6[k]
        BY <3>5, <3>6, <4>1
      <4>3. \A k \in DOMAIN v6 : \E n \in DOMAIN pair : pair[n] = v6[k]
        BY <3>5, <3>6
      <4> QED
        BY <3>7, <4>2, <4>3
    <3>9. CASE v6 = <<>>
      <4>1. Held' = Held
        BY <3>8, <3>9
      <4> QED
        BY <1>1, <3>2, <4>1, StartStutters
    <3>10. ASSUME NEW s \in FreeV6Only(spec.port), v6 = <<s>> PROVE Promise!Next
      <4>1. Held' = Held \cup {s}
        BY <3>8, <3>10
      <4>2. s \in Free("v6", spec.port)
        BY DEF FreeV6Only
      <4>3. /\ s \in Choices("v6", spec.port) /\ Stack(s[1]) \in stacks /\ Clear({s}, Held)
        BY <1>4, <4>2, FreeIsFree
      <4>4. s \in Promise!Wants(i)
        BY <1>4, <4>3 DEF Families
      <4> QED
        BY <1>1, <1>2, <1>4, <3>2, <4>1, <4>3, <4>4, Acquires DEF Promise!Next
    <3> QED
      BY <2>2, <3>9, <3>10 DEF Attempt
  <2> QED
    BY <2>3, <2>4
<1> QED
  BY <1>5, <1>6

(* Every target has its certain families when the binds are done.           *)
LEMMA StartIsWhole ==
  ASSUME IInv, RInv, pc = "bind", next > Len(binds), ~disturbed, Apart,
         NEW origin, Origin(origin)
  PROVE  Promise!Whole(Held)
<1> SUFFICES ASSUME NEW i \in Promise!Owners, NEW f \in Promise!Certain(i)
             PROVE  \E s \in Held \cap Promise!Wants(i) : Promise!Stack(s[1]) = f
  BY DEF Promise!Whole
<1>1. PICK k \in DOMAIN binds : origin[k] = i
  BY DEF Origin
<1>2. Promise!Wants(i) = Wanted(binds[k]) /\ binds[k] \in BindSpec /\ k < next
  BY <1>1, LenProperties, ElementOfSeq DEF Origin, IInv, TypeOK
<1>3. f \in Promise!Suited(i)
  BY DEF Promise!Certain
<1>4. f \in stacks /\ \E s \in Promise!Wants(i) : f = Stack(s[1])
  BY <1>3, SameProgram DEF Promise!Suited
<1>5. \A n \in DOMAIN listeners : listeners[n].of = k =>
        listeners[n].at \in Held \cap Promise!Wants(i)
  BY <1>2 DEF IInv, ListenersAreOwn, Held
<1>6. CASE binds[k].variant = "DualStackPort"
  <2>1. {Promise!Stack(s[1]) : s \in Promise!Wants(i)} = Promise!Families
    BY <1>2, <1>6, PairFamilies
  <2>2. Sure(f)
    <3>1. served => f # "v6"
      BY <2>1 DEF Promise!Certain
    <3> QED
      BY <1>4, <3>1 DEF Sure, IInv, TypeOK, Families
  <2>3. PICK n \in DOMAIN listeners : listeners[n].of = k /\ listeners[n].at[1] = f
    BY <1>2, <1>4, <1>6, <2>2 DEF RInv, PairsAreWhole
  <2>4. Stack(listeners[n].at[1]) = f
    BY <1>4, <2>3 DEF Stack, IInv, TypeOK, Families
  <2> QED
    BY <1>5, <2>3, <2>4, SameProgram
<1>7. CASE binds[k].variant # "DualStackPort"
  <2>1. \A s, t \in Wanted(binds[k]) : s[1] = t[1]
    BY <1>7 DEF Wanted, Choices
  <2>2. PICK n \in DOMAIN listeners : listeners[n].of = k
    BY <1>2 DEF IInv, ListenersAreOwn
  <2>3. Stack(listeners[n].at[1]) = f
    BY <1>2, <1>4, <1>5, <2>1, <2>2
  <2> QED
    BY <1>5, <2>2, <2>3, SameProgram
<1> QED
  BY <1>6, <1>7

(* The sockets of the listeners are divided as the listeners are.           *)
LEMMA StartIsDivided ==
  ASSUME IInv, RInv, pc = "bind", next > Len(binds), NEW origin, Origin(origin)
  PROVE  Promise!Divided(Held)
<1> DEFINE at(s) == CHOOSE n \in DOMAIN listeners : listeners[n].at = s
           owner == [s \in Held |-> origin[listeners[at(s)].of]]
<1>1. \A i \in DOMAIN binds : i < next
  BY LenProperties DEF IInv, TypeOK
<1>2. \A s \in Held : \E n \in DOMAIN listeners : listeners[n].at = s
  <2>1. \A k \in DOMAIN binds : IsListener(binds[k]) =>
          \E n \in DOMAIN listeners : listeners[n].at = SocketOf(binds[k])
    <3> SUFFICES ASSUME NEW k \in DOMAIN binds, IsListener(binds[k])
                 PROVE  \E n \in DOMAIN listeners : listeners[n].at = SocketOf(binds[k])
      OBVIOUS
    <3>1. PICK n \in DOMAIN listeners : listeners[n].of = k
      BY <1>1 DEF IInv, ListenersAreOwn
    <3>2. listeners[n].at \in Wanted(binds[k])
      BY <3>1 DEF IInv, ListenersAreOwn
    <3> QED
      BY <3>2, ListenerWants
  <2>2. v4 = <<>>
    BY DEF IInv, Phases
  <2>3. \A s \in Held : \/ \E n \in DOMAIN listeners : listeners[n].at = s
                        \/ \E k \in DOMAIN v4 : s = v4[k]
                        \/ \E k \in DOMAIN binds : IsListener(binds[k]) /\ s = SocketOf(binds[k])
    BY DEF Held, IsListener, SocketOf
  <2> QED
    BY <2>1, <2>2, <2>3
<1>3. \A s \in Held : at(s) \in DOMAIN listeners /\ listeners[at(s)].at = s
  BY <1>2
<1>4. \A n \in DOMAIN listeners :
        /\ listeners[n].of \in DOMAIN binds
        /\ listeners[n].at \in Wanted(binds[listeners[n].of])
        /\ listeners[n].at \in Held
  BY DEF IInv, ListenersAreOwn, Held
<1>5. \A n, m \in DOMAIN listeners : n # m =>
        /\ listeners[n].at # listeners[m].at
        /\ listeners[n].of = listeners[m].of => listeners[n].at[1] # listeners[m].at[1]
  <2>1. listeners \in Seq([of: Nat, at: Sockets])
    BY DEF IInv, TypeOK
  <2>2. \A n, m \in DOMAIN listeners : n # m => n < m \/ m < n
    BY <2>1, LenProperties
  <2>3. \A n, m \in DOMAIN listeners : n < m =>
          /\ listeners[n].at # listeners[m].at
          /\ listeners[n].of = listeners[m].of => listeners[n].at[1] # listeners[m].at[1]
    BY Meeting DEF IInv, ListenersAreOwn
  <2> QED
    BY <2>2, <2>3
<1>6. \A k, l \in DOMAIN binds : k # l => origin[k] # origin[l]
  <2>1. \A k, l \in DOMAIN binds : k # l => k < l \/ l < k
    BY LenProperties DEF IInv, TypeOK
  <2>2. \A k, l \in DOMAIN binds : k < l => origin[k] # origin[l]
    BY DEF Origin
  <2> QED
    BY <2>1, <2>2
<1> HIDE DEF at
<1>7. owner \in [Held -> Promise!Owners]
  BY <1>3, <1>4 DEF Origin
<1>8. \A s \in Held : owner[s] = origin[listeners[at(s)].of]
  OBVIOUS
<1>9. \A n \in DOMAIN listeners : at(listeners[n].at) = n
  BY <1>3, <1>4, <1>5
<1> HIDE DEF owner
<1>10. \A s \in Held : s \in Promise!Wants(owner[s])
  BY <1>3, <1>4, <1>8 DEF Origin
<1>11. \A i \in Promise!Owners : \E s \in Held : owner[s] = i
  <2> SUFFICES ASSUME NEW i \in Promise!Owners PROVE \E s \in Held : owner[s] = i
    OBVIOUS
  <2>1. PICK k \in DOMAIN binds : origin[k] = i
    BY DEF Origin
  <2>2. PICK n \in DOMAIN listeners : listeners[n].of = k
    BY <1>1 DEF IInv, ListenersAreOwn
  <2> QED
    BY <1>4, <1>8, <1>9, <2>1, <2>2
<1>12. \A s, t \in Held : s # t /\ owner[s] = owner[t] => s[1] # t[1]
  <2> SUFFICES ASSUME NEW s \in Held, NEW t \in Held, s # t, owner[s] = owner[t]
               PROVE  s[1] # t[1]
    OBVIOUS
  <2>1. at(s) # at(t) /\ at(s) \in DOMAIN listeners /\ at(t) \in DOMAIN listeners
    BY <1>3
  <2>2. listeners[at(s)].of = listeners[at(t)].of
    BY <1>4, <1>6, <1>8, <2>1
  <2>3. listeners[at(s)].at[1] # listeners[at(t)].at[1]
    BY <1>5, <2>1, <2>2
  <2> QED
    BY <1>3, <2>3
<1> QED
  BY <1>7, <1>10, <1>11, <1>12 DEF Promise!Divided

LEMMA StartOpens ==
  ASSUME IInv, RInv, Start
  PROVE  Promise!Open
<1>1. /\ pc = "bind" /\ next > Len(binds) /\ pc' = "serving" /\ served' = TRUE
      /\ UNCHANGED <<host, program, starts, step, server, binds, binding, outcome>>
  BY DEF Start
<1>2. Servable
  BY <1>1 DEF IInv, OnlyServableStarts
<1>3. PICK origin : Origin(origin)
  BY <1>1, OwnersOfBinds
<1>4. \A i \in Promise!Owners : ~Promise!Bad(i)
  <2> SUFFICES ASSUME NEW i \in Promise!Owners PROVE ~Promise!Bad(i)
    OBVIOUS
  <2>1. PICK k \in DOMAIN binds : origin[k] = i
    BY <1>3 DEF Origin
  <2>2. k < next
    BY <1>1, LenProperties DEF IInv, TypeOK
  <2>3. ~IsBad(binds[k])
    BY <2>2 DEF IInv, StartsTell, Fine
  <2> QED
    BY <1>3, <2>1, <2>3 DEF Origin
<1>5. Promise!Divided(Held)
  BY <1>1, <1>3, StartIsDivided
<1>6. ~disturbed /\ Apart => Promise!Whole(Held)
  BY <1>1, <1>3, StartIsWhole
<1>7. startPhase = "starting" /\ startPhase' = "up"
  BY <1>1 DEF startPhase
<1>8. Held' = Held
  BY <1>1, FreeKept DEF binding
<1> QED
  BY <1>1, <1>2, <1>4, <1>5, <1>6, <1>7, <1>8, SameProgram DEF Promise!Open, host

LEMMA HostStarts ==
  ASSUME IInv, RInv, Host
  PROVE  [Promise!Next]_(Promise!vars)
<1>1. CASE Stop
  <2>1. /\ pc = "serving" /\ pc' = "down" /\ outcome' = "stopped"
        /\ binds' = <<>> /\ v4' = <<>> /\ listeners' = <<>>
        /\ UNCHANGED <<program, stacks, disturbed, served>>
    BY <1>1 DEF Stop, life
  <2>2. startPhase = "up" /\ startPhase' = "down" /\ Held' = {}
    BY <2>1 DEF startPhase, Held
  <2> QED
    BY <2>1, <2>2 DEF Promise!Stop, Promise!Next
<1>2. CASE Restart
  <2>1. /\ pc = "down" /\ pc' = "build" /\ outcome' = "none"
        /\ UNCHANGED <<program, stacks, disturbed, served, binds, listeners, v4>>
    BY <1>2 DEF Restart, host, binding
  <2>2. startPhase = "down" /\ startPhase' = "starting" /\ Held' = Held
    BY <2>1, FreeKept DEF startPhase
  <2> QED
    BY <2>1, <2>2 DEF Promise!Again, Promise!Next
<1>3. CASE Take
  <2>1. /\ disturbed' = TRUE
        /\ UNCHANGED <<program, stacks, pc, binds, v4, listeners, outcome, served>>
    BY <1>3 DEF Take, life, binding
  <2>2. UNCHANGED startPhase /\ Held' = Held
    BY <2>1, FreeKept DEF startPhase
  <2> QED
    BY <2>1, <2>2 DEF Promise!Disturb, Promise!Next
<1>4. CASE Expire \/ Release \/ Finished
  <2>1. UNCHANGED <<program, stacks, disturbed, outcome, served, pc, binds, v4, listeners>>
    BY <1>4 DEF Expire, Release, Finished, vars, host, life, binding
  <2>2. Held' = Held
    BY <2>1, FreeKept
  <2> QED
    BY <2>1, <2>2, StartStutters
<1> QED
  BY <1>1, <1>2, <1>3, <1>4 DEF Host

(* server.rs:220-257 and errors.rs:11-26, for any program, host and         *)
(* neighbours: the sockets a start holds are taken one by one, each for a   *)
(* target that asks for it, free of those it has and, but for the listeners *)
(* main brings, only when the program can be served; it comes up with them  *)
(* divided among its targets, or it holds none of them any more and names a *)
(* cause that the program, the host or an earlier target has given.         *)
THEOREM Refinement == Spec => ImplementsStartup
<1>1. Init => Promise!Init
  BY DEF Init, Promise!Init, startPhase, Held, Promise!Families, Families
<1>2. IInv /\ IInv' /\ RInv /\ [Next]_vars => [Promise!Next]_(Promise!vars)
  <2> SUFFICES ASSUME IInv, IInv', RInv, [Next]_vars PROVE [Promise!Next]_(Promise!vars)
    OBVIOUS
  <2>1. CASE UNCHANGED vars
    <3>1. UNCHANGED <<program, stacks, disturbed, outcome, served, pc, binds, v4, listeners>>
      BY <2>1 DEF vars, host, life, binding
    <3> QED
      BY <3>1, FreeKept, StartStutters
  <2>2. CASE Build
    BY <2>2, BuildStarts, BindStarts DEF Build
  <2>3. CASE Serve
    BY <2>3, ServeStarts
  <2>4. CASE ResolveBinds
    BY <2>4, AddressStarts, PairStarts, StartOpens DEF ResolveBinds, Promise!Next
  <2>5. CASE Host
    BY <2>5, HostStarts
  <2> QED
    BY <2>1, <2>2, <2>3, <2>4, <2>5 DEF Next
<1> QED
  BY <1>1, <1>2, Invariant, RInvariant, PTL DEF Spec, ImplementsStartup, Promise!Spec
================================================================================
