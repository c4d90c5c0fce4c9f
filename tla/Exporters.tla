------------------------------- MODULE Exporters -------------------------------
(***************************************************************************)
(* What otel::init (otel.rs) makes of its environment: for each signal the *)
(* endpoint, the files of its TLS setup and the transport of its exporter. *)
(* A URL is known by its scheme, "bad" if the exporter's builder refuses   *)
(* it; a file by whether it can be read; an entry of otel_headers by what  *)
(* is wrong with it.                                                       *)
(***************************************************************************)

Signals == {"traces", "metrics", "logs"}
Urls == {"http", "https", "bad"}
Files == {"CERTIFICATE", "CLIENT_CERTIFICATE", "CLIENT_KEY"}
Entries == {"blank", "key=value", "no =", "bad key", "bad value"}

(* The files of a signal's own variables, and of those for "any" signal.    *)
Environment ==
  [base: Urls \cup {"unset"},
   headers: SUBSET Entries,
   exporter: [Signals -> {"unset", "none", "otlp"}],
   endpoint: [Signals -> Urls \cup {"unset", "blank"}],
   file: [Signals \cup {"any"} -> [Files -> {"unset", "blank", "readable", "missing"}]]]

IsSet(value) == value \notin {"unset", "blank"}

(* "unset" disables the signal.                                             *)
resolve_endpoint(env, signal) ==
  CASE env.exporter[signal] = "none" -> "unset"
    [] env.exporter[signal] # "none" /\ IsSet(env.endpoint[signal]) -> env.endpoint[signal]
    [] OTHER -> env.base

(* Blank entries are passed over, any other has to be a valid pair.         *)
metadata(env) == IF env.headers \subseteq {"blank", "key=value"} THEN "map" ELSE "error"

(* The files of a signal, each known by the variable that names it: the     *)
(* signal's own outranks the generic one, per file.                         *)
resolve_tls_files(env, signal) ==
  {v \in [level: {signal, "any"}, file: Files] :
     /\ IsSet(env.file[v.level][v.file])
     /\ v.level = "any" => ~IsSet(env.file[signal][v.file])}

(* The transport of an exporter: plain, or TLS with the files it uses. One  *)
(* without a CERTIFICATE trusts the roots of the system.                    *)
Plain == [is |-> "plain", files |-> {}]
Tls(files) == [is |-> "tls", files |-> files]
Refused == [is |-> "error", files |-> {}]

Unreadable(env, files) == \E v \in files : env.file[v.level][v.file] # "readable"

Identity(files) == {v \in files : v.file # "CERTIFICATE"}

(* One of the client's certificate and key without the other.               *)
IsHalf(files) ==
  LET given == {v.file : v \in files}
  IN  ("CLIENT_CERTIFICATE" \in given) # ("CLIENT_KEY" \in given)

(* Mutants: the certificate variables also count for http; a certificate    *)
(* without its key is passed over.                                          *)
build_tls_AlsoHttp(env, url, files) ==
  CASE Unreadable(env, files) \/ IsHalf(files) -> Refused
    [] url # "https" -> Plain
    [] OTHER -> Tls(files)

build_tls_HalfIsNone(env, url, files) ==
  LET used == IF IsHalf(files) THEN files \ Identity(files) ELSE files
  IN  CASE url # "https" -> Plain
        [] url = "https" /\ Unreadable(env, used) -> Refused
        [] OTHER -> Tls(used)

(* Every file that is named has to be read, and a client certificate needs  *)
(* its key.                                                                 *)
build_tls(env, url, files) ==
  CASE url # "https" -> Plain
    [] url = "https" /\ (Unreadable(env, files) \/ IsHalf(files)) -> Refused
    [] OTHER -> Tls(files)

(* The signals that are to be exported, and how; what is refused fails init.*)
Endpoints(env) == {g \in Signals : resolve_endpoint(env, g) # "unset"}

Transport(env, signal) ==
  IF resolve_endpoint(env, signal) = "bad" THEN Refused
  ELSE build_tls(env, resolve_endpoint(env, signal), resolve_tls_files(env, signal))
================================================================================
