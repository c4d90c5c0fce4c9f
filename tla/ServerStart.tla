------------------------------ MODULE ServerStart -------------------------------
(***************************************************************************)
(* A Server from Server::new to the sockets it serves on (server.rs): the  *)
(* builder's calls, into_app, and resolve_binds against sockets that other *)
(* processes take and release; then the same program's next start.         *)
(* A host has one address per family here, which is also the wildcard that *)
(* bind_v6only and 0.0.0.0 are; the IPv6 wildcard of TcpListener::bind is  *)
(* a third one, "dual".                                                    *)
(***************************************************************************)
EXTENDS Program

CONSTANTS
  Foreign,     \* bound: the sockets other processes may take
  MaxStarts    \* bound: starts of the program

BindSpec == [variant: {"DualStackPort", "Addr", "Ip", "Str", "Listener"},
             text: {"ip:port", "ip", "neither"},
             family: Kinds, port: Ports \cup {0}]
Builder == [routes: SUBSET STRING, services: SUBSET STRING, sets: SUBSET BOOLEAN,
            has_http: BOOLEAN, health_check: BOOLEAN, hook: BOOLEAN]

ASSUME ForeignAssumption == Foreign \subseteq Sockets
ASSUME MaxStartsAssumption == MaxStarts \in Nat \ {0}

VARIABLES
  stacks,     \* the address families the host has
  pc,         \* where the process is
  step,       \* the builder call it makes next
  server,     \* the Server being built
  binds,      \* its pending binds
  next,       \* the one resolve_binds is at
  v4,         \* the IPv4 half of a dual-stack bind: a listener, or none
  listeners,  \* the listeners so far, each with the bind it is of
  outcome,    \* how the last start ended
  starts,     \* starts made
  taken,      \* the sockets other processes listen on
  timeWait,   \* where connections are in TIME_WAIT, by their own family
  served,     \* history: a start has come to serve
  disturbed   \* history: another process has taken a socket

host == <<stacks, taken, timeWait, disturbed>>
life == <<program, starts, served>>
binding == <<next, v4, listeners>>
vars == <<host, life, pc, step, server, binds, binding, outcome>>

Empty == [routes |-> {}, services |-> {}, sets |-> {},
          has_http |-> FALSE, health_check |-> FALSE, hook |-> FALSE]

TypeOK ==
  /\ program \in Programs
  /\ stacks \in SUBSET Families
  /\ pc \in {"build", "bind", "bind6", "serving", "down"}
  /\ step \in 1..(Len(program) + 1)
  /\ server \in Builder
  /\ binds \in Seq(BindSpec)
  /\ next \in 1..(Len(binds) + 1)
  /\ v4 \in {<<>>} \cup {<<s>> : s \in Sockets}
  /\ listeners \in Seq([of: Nat, at: Sockets])
  /\ outcome \in {"none", "NoRoutes", "InvalidDescriptorSet", "InvalidAddress",
                  "Io", "panic", "NoListener", "stopped"}
  /\ starts \in 1..MaxStarts
  /\ taken \in SUBSET Foreign
  /\ timeWait \in SUBSET (Families \X Ports)
  /\ served \in BOOLEAN
  /\ disturbed \in BOOLEAN

Init ==
  /\ program \in Programs
  /\ stacks \in (SUBSET Families) \ {{}}
  /\ pc = "build"
  /\ step = 1
  /\ server = Empty
  /\ binds = <<>>
  /\ next = 1
  /\ v4 = <<>>
  /\ listeners = <<>>
  /\ outcome = "none"
  /\ starts = 1
  /\ taken = {}
  /\ timeWait = {}
  /\ served = FALSE
  /\ disturbed = FALSE

(* What this process holds: its listeners, half a pair, pre-bound listeners. *)
Held ==
  {listeners[n].at : n \in DOMAIN listeners}
    \cup {v4[n] : n \in DOMAIN v4}
    \cup {<<binds[i].family, binds[i].port>> :
            i \in {j \in DOMAIN binds : binds[j].variant = "Listener"}}

(* `?`, return Err or a panic: every local is dropped, and its sockets.     *)
Exit(result) ==
  /\ pc' = "down"
  /\ outcome' = result
  /\ server' = Empty
  /\ binds' = <<>>
  /\ next' = 1
  /\ v4' = <<>>
  /\ listeners' = <<>>
  /\ UNCHANGED <<host, life, step>>

-------------------------------------------------------------------------------
(* The builder. Server::new finds a configuration (Telemetry's Assemble).   *)

Calling(name) ==
  /\ pc = "build"
  /\ step <= Len(program)
  /\ program[step].call = name

Built(s) ==
  /\ server' = s
  /\ step' = step + 1
  /\ UNCHANGED <<host, life, pc, binding, outcome>>

(* axum panics when a path gets a second GET handler.                       *)
AddRoutes(paths) ==
  IF paths \cap server.routes # {}
  THEN Exit("panic")
  ELSE /\ Built([server EXCEPT !.routes = @ \cup paths, !.has_http = TRUE])
       /\ UNCHANGED binds

Router == Calling("router") /\ AddRoutes(program[step].paths)

Route == Calling("route") /\ AddRoutes({program[step].path})

GrpcService ==
  /\ Calling("grpc_service")
  /\ IF program[step].name \in server.services
     THEN Exit("panic")
     ELSE /\ Built([server EXCEPT !.services = @ \cup {program[step].name}])
          /\ UNCHANGED binds

GrpcReflection ==
  /\ Calling("grpc_reflection")
  /\ Built([server EXCEPT !.sets = @ \cup {program[step].valid}])
  /\ UNCHANGED binds

HealthCheck ==
  /\ Calling("health")
  /\ Built([server EXCEPT !.health_check = TRUE])
  /\ UNCHANGED binds

OnShutdown ==
  /\ Calling("on_shutdown")
  /\ Built([server EXCEPT !.hook = TRUE])
  /\ UNCHANGED binds

(* The six impls of BindTarget.                                             *)
into_spec(target) ==
  [variant |-> CASE target.is = "u16" -> "DualStackPort"
                 [] target.is \in {"IpAddr", "[u8; 4]"} -> "Ip"
                 [] target.is = "&str" -> "Str"
                 [] target.is = "SocketAddr" -> "Addr"
                 [] target.is = "TcpListener" -> "Listener",
   text |-> target.text, family |-> target.family, port |-> target.port]

(* The kernel gives a socket nobody stands in the way of.                   *)
Grants(s) == Stack(s[1]) \in stacks /\ Clear({s}, taken \cup Held)

(* A pre-bound listener has a socket of its own by now: a main that cannot  *)
(* have it returns its own error.                                           *)
Bind ==
  /\ Calling("bind")
  /\ LET spec == into_spec(program[step].target)
         socket == <<spec.family, spec.port>>
     IN  IF spec.variant = "Listener" /\ ~Grants(socket)
         THEN Exit("NoListener")
         ELSE Built(server) /\ binds' = Append(binds, spec)

-------------------------------------------------------------------------------
(* serve and into_app: nothing is bound before the router is assembled.     *)

Serving == pc = "build" /\ step > Len(program)

configured ==
  \/ server.has_http
  \/ server.services # {}
  \/ server.sets # {}
  \/ server.health_check

NoRoutes == Serving /\ ~configured /\ Exit("NoRoutes")

(* The path is reserved: a GET of the user's there makes axum panic.        *)
HealthIsTaken ==
  /\ Serving
  /\ configured
  /\ "/health" \in server.routes
  /\ Exit("panic")

InvalidDescriptorSet ==
  /\ Serving
  /\ "/health" \notin server.routes
  /\ FALSE \in server.sets
  /\ Exit("InvalidDescriptorSet")

DefaultBind == [variant |-> "DualStackPort", text |-> "neither",
                family |-> "v4", port |-> ConfigPort]

(* Mutant: the binds are resolved before the router is assembled.           *)
IntoApp_BindsFirst ==
  /\ Serving
  /\ pc' = "bind"
  /\ binds' = IF binds = <<>> THEN <<DefaultBind>> ELSE binds
  /\ server' = Empty
  /\ UNCHANGED <<host, life, step, binding, outcome>>

(* The server is consumed; serve has taken its hook and its binds.          *)
IntoApp ==
  /\ Serving
  /\ configured
  /\ "/health" \notin server.routes
  /\ FALSE \notin server.sets
  /\ pc' = "bind"
  /\ binds' = IF binds = <<>> THEN <<DefaultBind>> ELSE binds
  /\ server' = Empty
  /\ UNCHANGED <<host, life, step, binding, outcome>>

-------------------------------------------------------------------------------
(* resolve_binds. *)

(* The sockets the kernel may give for a port, 0 meaning any.               *)
(* TcpListener::bind sets SO_REUSEADDR and leaves the IPv6 wildcard open to *)
(* IPv4.                                                                    *)
Free(kind, port) == {s \in Choices(kind, port) : Grants(s)}

(* bind_v6only does not, so connections in TIME_WAIT are in its way.        *)
FreeV6Only(port) == Free("v6", port) \ timeWait

Attempt(free) == IF free = {} THEN {<<>>} ELSE {<<s>> : s \in free}

At(variants) ==
  /\ pc = "bind"
  /\ next <= Len(binds)
  /\ binds[next].variant \in variants

Push(sockets) ==
  /\ pc' = "bind"
  /\ listeners' = listeners \o [n \in DOMAIN sockets |-> [of |-> next, at |-> sockets[n]]]
  /\ v4' = <<>>
  /\ next' = next + 1
  /\ UNCHANGED <<host, life, step, server, binds, outcome>>

UseListener ==
  /\ At({"Listener"})
  /\ Push(<<<<binds[next].family, binds[next].port>>>>)

(* A string is a socket address, else an address, else an error; a bare     *)
(* address gets the configured port.                                        *)
IsBad(spec) == spec.variant = "Str" /\ spec.text = "neither"

Port(spec) ==
  IF spec.variant = "Ip" \/ (spec.variant = "Str" /\ spec.text = "ip")
  THEN ConfigPort ELSE spec.port

InvalidAddress ==
  At({"Str"}) /\ IsBad(binds[next]) /\ Exit("InvalidAddress")

BindAddress ==
  /\ At({"Addr", "Ip", "Str"})
  /\ ~IsBad(binds[next])
  /\ \E l \in Attempt(Free(binds[next].family, Port(binds[next]))) :
       IF l = <<>> THEN Exit("Io") ELSE Push(l)

(* Mutant: the IPv4 half is bound as the IPv6 half is.                      *)
BindV4_NoReuse ==
  /\ At({"DualStackPort"})
  /\ v4' \in Attempt(Free("v4", binds[next].port) \ timeWait)
  /\ pc' = "bind6"
  /\ UNCHANGED <<host, life, step, server, binds, next, listeners, outcome>>

BindV4 ==
  /\ At({"DualStackPort"})
  /\ v4' \in Attempt(Free("v4", binds[next].port))
  /\ pc' = "bind6"
  /\ UNCHANGED <<host, life, step, server, binds, next, listeners, outcome>>

(* Mutant: the match hands on the IPv6 listener alone where there is one.   *)
BindV6_V6Alone ==
  /\ pc = "bind6"
  /\ \E v6 \in Attempt(FreeV6Only(binds[next].port)) :
       IF v4 = <<>> /\ v6 = <<>> THEN Exit("Io")
       ELSE Push(IF v6 = <<>> THEN v4 ELSE v6)

(* Best effort: only if both families fail is it an error.                  *)
BindV6 ==
  /\ pc = "bind6"
  /\ \E v6 \in Attempt(FreeV6Only(binds[next].port)) :
       IF v4 = <<>> /\ v6 = <<>> THEN Exit("Io") ELSE Push(v4 \o v6)

(* Every listener gets its task; Serve goes on from here.                   *)
Start ==
  /\ pc = "bind"
  /\ next > Len(binds)
  /\ pc' = "serving"
  /\ served' = TRUE
  /\ UNCHANGED <<host, program, starts, step, server, binds, binding, outcome>>

-------------------------------------------------------------------------------
(* The host. *)

(* The process ends. It closes its clients' connections, and what it closed *)
(* first stays in TIME_WAIT.                                                *)
Stop ==
  /\ pc = "serving"
  /\ pc' = "down"
  /\ outcome' = "stopped"
  /\ \E closed \in SUBSET {s \in stacks \X Ports :
                             \E n \in DOMAIN listeners : Meets(s, listeners[n].at)} :
       timeWait' = timeWait \cup closed
  /\ binds' = <<>>
  /\ next' = 1
  /\ v4' = <<>>
  /\ listeners' = <<>>
  /\ UNCHANGED <<stacks, taken, disturbed, life, step, server>>

Restart ==
  /\ pc = "down"
  /\ starts < MaxStarts
  /\ starts' = starts + 1
  /\ pc' = "build"
  /\ step' = 1
  /\ outcome' = "none"
  /\ UNCHANGED <<host, program, served, server, binds, binding>>

Expire ==
  /\ \E s \in timeWait : timeWait' = timeWait \ {s}
  /\ UNCHANGED <<stacks, taken, disturbed, life, pc, step, server, binds, binding, outcome>>

Take ==
  /\ \E s \in Foreign : Grants(s) /\ taken' = taken \cup {s}
  /\ disturbed' = TRUE
  /\ UNCHANGED <<stacks, timeWait, life, pc, step, server, binds, binding, outcome>>

Release ==
  /\ \E s \in taken : taken' = taken \ {s}
  /\ UNCHANGED <<stacks, timeWait, disturbed, life, pc, step, server, binds, binding, outcome>>

(* Not a step of the program: the bound is reached.                         *)
Finished == pc = "down" /\ starts = MaxStarts /\ UNCHANGED vars

Build ==
  Router \/ Route \/ GrpcService \/ GrpcReflection \/ HealthCheck \/ OnShutdown \/ Bind

Serve == NoRoutes \/ HealthIsTaken \/ InvalidDescriptorSet \/ IntoApp

ResolveBinds ==
  UseListener \/ InvalidAddress \/ BindAddress \/ BindV4 \/ BindV6 \/ Start

Host == Stop \/ Restart \/ Expire \/ Take \/ Release \/ Finished

Next == Build \/ Serve \/ ResolveBinds \/ Host

Spec == Init /\ [][Next]_vars

-------------------------------------------------------------------------------
(* Properties. *)

Wanted(spec) ==
  CASE spec.variant = "DualStackPort" -> DualStack(spec.port)
    [] spec.variant = "Listener" -> {<<spec.family, spec.port>>}
    [] OTHER -> Choices(spec.family, Port(spec))

(* server.rs:254-257: exactly the bound addresses are served: each target   *)
(* has its listener in the order of the calls, a port one per family at     *)
(* most, and no listener stands in the way of another. A port has all the   *)
(* families of the host if nothing else is in the way, but for the IPv6     *)
(* half after an earlier start.                                             *)
EveryBindIsServed ==
  pc = "serving" =>
    /\ \A i \in DOMAIN binds : \E n \in DOMAIN listeners : listeners[n].of = i
    /\ \A n \in DOMAIN listeners :
         /\ listeners[n].of \in DOMAIN binds
         /\ listeners[n].at \in Wanted(binds[listeners[n].of])
    /\ \A n, m \in DOMAIN listeners : n < m =>
         /\ listeners[n].of <= listeners[m].of
         /\ ~Meets(listeners[n].at, listeners[m].at)
         /\ listeners[n].of = listeners[m].of =>
              listeners[n].at[1] = "v4" /\ listeners[m].at[1] = "v6"
    /\ ~disturbed /\ Apart =>
         \A i \in DOMAIN binds : binds[i].variant = "DualStackPort" =>
           \A f \in stacks : f = "v4" \/ starts = 1 =>
             \E n \in DOMAIN listeners : listeners[n].of = i /\ listeners[n].at[1] = f

(* errors.rs:11-26 and server.rs:8-9, of the program as it is written: a    *)
(* socket is bound only for a server that can be assembled, and what is     *)
(* refused before that is refused for the reason given.                     *)
OnlyServableStarts ==
  /\ pc \in {"bind", "bind6", "serving"} => Servable
  /\ outcome = "NoRoutes" => ~HasRoutes
  /\ outcome = "InvalidDescriptorSet" => HasInvalidSet
  /\ outcome = "panic" => Clash
  /\ outcome \in {"InvalidAddress", "Io"} => Servable

(* A program that has served and stopped can serve again at once, whatever  *)
(* TIME_WAIT is left, unless another process has taken a socket: IPv4 makes *)
(* up for the IPv6 listener that is refused. (A host without IPv4, or with  *)
(* a bind that needs the same port of it, has to wait.)                     *)
RestartsServe ==
  served /\ ~disturbed /\ "v4" \in stacks /\ Apart => outcome \in {"none", "stopped"}

(* server.rs:498-499: a family is left out only in environments without it. *)
EveryStackIsServed ==
  pc = "serving" =>
    \A i \in DOMAIN binds : binds[i].variant = "DualStackPort" =>
      \A f \in stacks : \E n \in DOMAIN listeners :
        listeners[n].of = i /\ listeners[n].at[1] = f

-------------------------------------------------------------------------------
(* What a start promises (Startup).                                         *)
startPhase ==
  CASE pc \in {"build", "bind", "bind6"} -> "starting"
    [] pc = "serving" -> "up"
    [] pc = "down" -> "down"

Promise == INSTANCE Startup
  WITH phase <- startPhase, sockets <- Held, reason <- outcome, wasUp <- served

(* Seen by the sockets the process holds at any moment: a start takes them  *)
(* one by one, each for a target that asks for it and, but for the          *)
(* listeners main binds itself, only once the program is known to be        *)
(* servable; it comes up on exactly those, divided among its targets        *)
(* (server.rs:254-257), or gives all of them back and names a cause that    *)
(* the program or the host has given (errors.rs:11-26).                     *)
ImplementsStartup == Promise!Spec
================================================================================
