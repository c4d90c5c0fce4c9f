--------------------------------- MODULE Program ---------------------------------
(***************************************************************************)
(* What a main asks of its Server (server.rs): the calls it makes on the   *)
(* builder, in order, and what follows from them before any is made: which *)
(* of them cannot stand together, and which sockets each bind asks for.    *)
(***************************************************************************)
EXTENDS Naturals, Sequences

CONSTANTS
  Programs,    \* the builder calls a main may make, in order
  Ports,       \* the ports of the host, 0 not among them
  ConfigPort   \* base.port

Families == {"v4", "v6"}
(* The addresses a listener may have, one of each kind to a host: of a      *)
(* family, or the IPv6 wildcard bound without IPV6_V6ONLY, as               *)
(* TcpListener::bind does: it takes IPv4 connections too.                   *)
Kinds == Families \cup {"dual"}
Sockets == Kinds \X Ports
(* Port 0 lets the kernel choose; a pre-bound listener has had its choice.  *)
Targets == {target \in [is: {"u16", "IpAddr", "[u8; 4]", "&str", "SocketAddr", "TcpListener"},
                        text: {"ip:port", "ip", "neither"},
                        family: Kinds, port: Ports \cup {0}] :
              /\ target.is = "TcpListener" => target.port # 0
              /\ target.is = "[u8; 4]" => target.family = "v4"}
Calls == [call: {"router"}, paths: SUBSET STRING]
           \cup [call: {"route"}, path: STRING]
           \cup [call: {"grpc_service"}, name: STRING]
           \cup [call: {"grpc_reflection"}, valid: BOOLEAN]
           \cup [call: {"health", "on_shutdown"}]
           \cup [call: {"bind"}, target: Targets]

ASSUME ProgramsAssumption == Programs \subseteq Seq(Calls)
ASSUME PortsAssumption == Ports \subseteq Nat \ {0} /\ ConfigPort \in Ports

VARIABLE program  \* what this main calls

-------------------------------------------------------------------------------
(* Routes and services. *)

Makes(name) == \E i \in DOMAIN program : program[i].call = name

Paths(i) == CASE program[i].call = "router" -> program[i].paths
              [] program[i].call = "route" -> {program[i].path}
              [] OTHER -> {}

(* Two calls that claim one path or one service, or one that claims /health. *)
Clash ==
  \E i \in DOMAIN program :
    \/ "/health" \in Paths(i)
    \/ \E j \in DOMAIN program : i < j /\
         \/ Paths(i) \cap Paths(j) # {}
         \/ /\ program[i].call = "grpc_service"
            /\ program[j].call = "grpc_service"
            /\ program[i].name = program[j].name

HasRoutes == \E name \in {"router", "route", "grpc_service", "grpc_reflection", "health"} :
               Makes(name)

HasInvalidSet ==
  \E i \in DOMAIN program : program[i].call = "grpc_reflection" /\ ~program[i].valid

Servable == HasRoutes /\ ~HasInvalidSet /\ ~Clash

-------------------------------------------------------------------------------
(* Binds. *)

Binds(i) == program[i].call = "bind"

(* The family a host must have for a listener of this kind.                 *)
Stack(kind) == IF kind = "dual" THEN "v6" ELSE kind

(* Two listeners cannot have these: without IPV6_V6ONLY the IPv6 wildcard   *)
(* and IPv4 "conflict on Linux" (server.rs:515-517).                        *)
Meets(s, t) == s[2] = t[2] /\ (s[1] = t[1] \/ "dual" \in {s[1], t[1]})

Clear(S, T) == \A s \in S, t \in T : ~Meets(s, t)

(* The sockets of one kind that are one for a port, 0 meaning any.          *)
Choices(family, port) == {family} \X (IF port = 0 THEN Ports ELSE {port})

DualStack(port) == UNION {Choices(family, port) : family \in Families}

Unreadable(target) == target.is = "&str" /\ target.text = "neither"

(* The docs of BindTarget (server.rs:540-550): a port is both families, an  *)
(* address without a port gets the configured one, port 0 is any port.      *)
Asked(target) ==
  CASE target.is = "u16" -> DualStack(target.port)
    [] target.is \in {"IpAddr", "[u8; 4]"} \/ (target.is = "&str" /\ target.text = "ip") ->
         Choices(target.family, ConfigPort)
    [] OTHER -> Choices(target.family, target.port)

(* No target of the program asks for what another one may have.             *)
Apart ==
  \A i, j \in DOMAIN program : i < j /\ Binds(i) /\ Binds(j) =>
    Clear(Asked(program[i].target), Asked(program[j].target))
================================================================================
