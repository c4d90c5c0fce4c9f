------------------------------ MODULE MCTelemetry ------------------------------
(***************************************************************************)
(* Telemetry for TLC: environments that export none, some and all of the   *)
(* signals, and those in which a TLS file or a header decides about init.  *)
(***************************************************************************)
EXTENDS Telemetry, TLC

NoFiles == [f \in Files |-> "unset"]

NoExport ==
  [base |-> "unset", headers |-> {"key=value", "blank"},
   exporter |-> [g \in Signals |-> "unset"],
   endpoint |-> [g \in Signals |-> "unset"],
   file |-> [g \in Signals \cup {"any"} |-> NoFiles]]

(* Signals with an endpoint of their own; a base and signals without it.    *)
Only(signals) ==
  [NoExport EXCEPT !.endpoint = [g \in Signals |-> IF g \in signals THEN "http" ELSE "blank"]]
AllBut(signals) ==
  [NoExport EXCEPT !.base = "http",
                !.exporter = [g \in Signals |-> IF g \in signals THEN "none" ELSE "otlp"]]

(* Everything over https but the logs, with these files for every signal.   *)
Https(files) ==
  [NoExport EXCEPT !.base = "https", !.endpoint["logs"] = "http",
                !.file["any"] = files @@ NoFiles]

CertAndKey == [f \in {"CLIENT_CERTIFICATE", "CLIENT_KEY"} |-> "readable"]

MCEnvironments ==
  {NoExport, Only({"metrics"}), Only({"traces", "logs"}), AllBut({"traces"}), AllBut({"logs"}),
   [NoExport EXCEPT !.headers = {"no ="}],
   [AllBut({}) EXCEPT !.headers = {"key=value", "bad value"}],
   [AllBut({}) EXCEPT !.endpoint["metrics"] = "bad"],
   [AllBut({"traces"}) EXCEPT !.file["any"] = "CLIENT_KEY" :> "readable" @@ NoFiles],
   [AllBut({"traces"}) EXCEPT !.endpoint["traces"] = "https",
                              !.file["traces"] = "CERTIFICATE" :> "missing" @@ NoFiles],
   Https(<<>>), Https(CertAndKey),
   Https("CLIENT_CERTIFICATE" :> "readable"),
   Https("CERTIFICATE" :> "missing"),
   [Https(CertAndKey) EXCEPT !.file["metrics"] = "CLIENT_KEY" :> "missing" @@ NoFiles],
   [Https(CertAndKey) EXCEPT !.file["metrics"] = "CERTIFICATE" :> "readable" @@ NoFiles],
   [Https("CERTIFICATE" :> "missing") EXCEPT
      !.file["traces"] = "CERTIFICATE" :> "readable" @@ NoFiles,
      !.file["metrics"] = "CERTIFICATE" :> "blank" @@ NoFiles]}

ExportsAll == {AllBut({})}
================================================================================
