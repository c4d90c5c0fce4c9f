----------------------------- MODULE MCServerStart ------------------------------
(***************************************************************************)
(* ServerStart for TLC: every short program over one call of each kind and *)
(* the targets that can meet on the two ports of the host.                 *)
(***************************************************************************)
EXTENDS ServerStart

MCPorts == {80, 81}

MCForeign == {<<"v4", 80>>, <<"dual", 80>>}

To(is, text, family, port) ==
  [call |-> "bind",
   target |-> [is |-> is, text |-> text, family |-> family, port |-> port]]

BindCalls == {
  To("u16", "neither", "v4", 80),
  To("u16", "neither", "v4", 0),
  To("IpAddr", "ip", "v6", 81),
  To("[u8; 4]", "ip", "v4", 81),
  To("SocketAddr", "ip:port", "v4", 81),
  To("&str", "ip:port", "v6", 80),
  To("&str", "ip", "v4", 81),
  To("&str", "neither", "v4", 81),
  To("SocketAddr", "ip:port", "dual", 80),
  To("&str", "ip:port", "dual", 81),
  To("TcpListener", "ip:port", "v4", 80)}

Hello == [call |-> "route", path |-> "/hello"]

RouteCalls == {
  Hello,
  [call |-> "route", path |-> "/health"],
  [call |-> "router", paths |-> {}],
  [call |-> "router", paths |-> {"/hello", "/bye"}],
  [call |-> "grpc_service", name |-> "Greeter"],
  [call |-> "grpc_reflection", valid |-> TRUE],
  [call |-> "grpc_reflection", valid |-> FALSE],
  [call |-> "health"],
  [call |-> "on_shutdown"]}

(* Calls that leave a server unservable beside a bind.                      *)
Unservable == {
  <<>>,
  <<[call |-> "route", path |-> "/health"]>>,
  <<[call |-> "grpc_reflection", valid |-> FALSE]>>}

(* Bound: up to three calls that make routes, a route and two binds, or a   *)
(* bind of a server that cannot be assembled.                               *)
MCPrograms ==
  UNION {[1..n -> RouteCalls] : n \in 0..3}
    \cup {<<Hello, b>> : b \in BindCalls}
    \cup {<<Hello, b, c>> : b, c \in BindCalls}
    \cup {u \o <<b>> : u \in Unservable, b \in BindCalls}

(* A program that leaves the binding to serve.                              *)
DefaultPrograms == {<<Hello>>}
================================================================================
