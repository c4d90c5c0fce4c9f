--------------------------- MODULE MCRequestMetrics ----------------------------
(* Requests for TLC: the paths and routes the properties tell apart.         *)
EXTENDS RequestMetrics

In(grpc, route, service, known, names) ==
  [method |-> "POST", grpc |-> grpc, route |-> route, service |-> service,
   known |-> known, names |-> names]

Rpc == In(TRUE, TRUE, TRUE, TRUE, TRUE)           \* /pkg.Svc/Method
Probe == In(TRUE, TRUE, TRUE, FALSE, TRUE)        \* /pkg.Svc/Fuzzed
DeepProbe == In(TRUE, TRUE, TRUE, FALSE, FALSE)   \* /pkg.Svc/a/b
Unmatched == In(TRUE, FALSE, FALSE, FALSE, TRUE)  \* /no.Svc/Method
GrpcToHttp == In(TRUE, TRUE, FALSE, FALSE, TRUE)  \* /users/{id}, grpc content
Http == In(FALSE, TRUE, FALSE, FALSE, TRUE)       \* /users/{id}
HttpToRpc == In(FALSE, TRUE, TRUE, TRUE, TRUE)    \* /pkg.Svc/Method, no grpc

Get == [Http EXCEPT !.method = "GET"]             \* the other gauge series

AllInputs ==
  {Rpc, Probe, DeepProbe, Unmatched, GrpcToHttp, Http, HttpToRpc, Get}
================================================================================
