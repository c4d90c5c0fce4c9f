------------------------------- MODULE Telemetry -------------------------------
(***************************************************************************)
(* OpenTelemetry in tinkr_framework, over the whole process: init_with     *)
(* (bootstrap.rs) builds the providers one signal after the other          *)
(* (otel.rs), servers read the statics it leaves behind when they assemble *)
(* their routers (server.rs), and each of them flushes on its way out.     *)
(***************************************************************************)
EXTENDS Exporters

CONSTANTS
  Servers,       \* the Servers the program builds
  Environments,  \* what otel::init may find
  Failures       \* the other steps of init_with that may fail

Steps == {"load", "filter", "metadata", "store", "subscribe"} \cup Signals

ASSUME EnvironmentsAssumption == Environments \subseteq Environment
ASSUME FailuresAssumption == Failures \subseteq {"load", "filter", "subscribe"}

VARIABLES
  env,          \* the environment of the process
  boot,         \* control of init_with: the step it is about to take
  loaded,       \* GLOBAL of tinkr_config is set
  built,        \* the providers init has built
  stored,       \* PROVIDERS holds them
  instruments,  \* INSTRUMENTS is set
  subscribed,   \* the registry with the exporting layers is installed
  server,       \* where each Server is
  gates,        \* the middlewares its router was assembled with
  thread,       \* the provider its blocking flush shuts down next
  buffered,     \* per signal, the servers with telemetry not exported yet
  closed,       \* the providers that are shut down
  lost          \* history: servers whose telemetry met a closed provider

bootVars == <<boot, loaded, built, stored, instruments, subscribed>>
serverVars == <<server, gates, thread>>
exportVars == <<buffered, closed, lost>>
vars == <<env, bootVars, serverVars, exportVars>>

(* The signals endpoint() finds a URL for.                                  *)
endpoints == Endpoints(env)

TypeOK ==
  /\ env \in Environments
  /\ boot \in Steps \cup {"ok", "err", "panic"}
  /\ loaded \in BOOLEAN
  /\ built \in SUBSET endpoints
  /\ stored \in BOOLEAN
  /\ instruments \in BOOLEAN
  /\ subscribed \in BOOLEAN
  /\ server \in [Servers -> {"new", "serving", "flushing", "stopped", "abandoned"}]
  /\ gates \in [Servers -> SUBSET {"traces", "metrics"}]
  /\ thread \in [Servers -> Signals \cup {"none", "done"}]
  /\ buffered \in [Signals -> SUBSET Servers]
  /\ closed \in SUBSET built
  /\ lost \in SUBSET Servers

Init ==
  /\ env \in Environments
  /\ boot = "load"
  /\ loaded = FALSE
  /\ built = {}
  /\ stored = FALSE
  /\ instruments = FALSE
  /\ subscribed = FALSE
  /\ server = [s \in Servers |-> "new"]
  /\ gates = [s \in Servers |-> {}]
  /\ thread = [s \in Servers |-> "none"]
  /\ buffered = [g \in Signals |-> {}]
  /\ closed = {}
  /\ lost = {}

(* signals() and the PROVIDERS static behind it.                            *)
providers == IF stored THEN built ELSE {}

-------------------------------------------------------------------------------
(* init_with. *)

Boot(from, to) ==
  /\ boot = from
  /\ boot' = to
  /\ UNCHANGED <<env, serverVars, exportVars>>

(* Mutant: a process that has its configuration goes on with it.            *)
LoadConfig_Anyway ==
  /\ Boot("load", "filter")
  /\ loaded' = TRUE
  /\ UNCHANGED <<built, stored, instruments, subscribed>>

(* The configuration is frozen before anything else can fail.               *)
LoadConfig ==
  /\ Boot("load", "filter")
  /\ ~loaded
  /\ loaded' = TRUE
  /\ UNCHANGED <<built, stored, instruments, subscribed>>

(* "configuration already loaded"                                           *)
LoadTwice ==
  /\ Boot("load", "panic")
  /\ loaded
  /\ UNCHANGED <<loaded, built, stored, instruments, subscribed>>

ReadFilter ==
  /\ Boot("filter", "metadata")
  /\ UNCHANGED <<loaded, built, stored, instruments, subscribed>>

(* The headers are parsed whether or not a signal has an endpoint.          *)
ParseMetadata ==
  /\ metadata(env) = "map"
  /\ Boot("metadata", "traces")
  /\ UNCHANGED <<loaded, built, stored, instruments, subscribed>>

(* traces, metrics, logs: in this order, and each only with an endpoint.    *)
After(signal) == CASE signal = "traces" -> "metrics"
                   [] signal = "metrics" -> "logs"
                   [] signal = "logs" -> "store"

(* A signal that is to be exported has an exporter that can be built.       *)
Sound(signal) == signal \in endpoints => Transport(env, signal) # Refused

(* Mutant: PROVIDERS is filled while the providers are still being built.   *)
BuildProvider_StoreEarly(signal) ==
  /\ Sound(signal)
  /\ Boot(signal, After(signal))
  /\ built' = built \cup ({signal} \cap endpoints)
  /\ stored' = TRUE
  /\ instruments' = (instruments \/ signal \in {"metrics"} \cap endpoints)
  /\ UNCHANGED <<loaded, subscribed>>

(* Mutant: metrics::init is not called.                                     *)
BuildProvider_NoInstruments(signal) ==
  /\ Sound(signal)
  /\ Boot(signal, After(signal))
  /\ built' = built \cup ({signal} \cap endpoints)
  /\ UNCHANGED <<loaded, stored, instruments, subscribed>>

(* Exporter, provider, global provider; for metrics the instruments too.    *)
BuildProvider(signal) ==
  /\ Sound(signal)
  /\ Boot(signal, After(signal))
  /\ built' = built \cup ({signal} \cap endpoints)
  /\ instruments' = (instruments \/ signal \in {"metrics"} \cap endpoints)
  /\ UNCHANGED <<loaded, stored, subscribed>>

StoreProviders ==
  /\ Boot("store", "subscribe")
  /\ stored' = TRUE
  /\ UNCHANGED <<loaded, built, instruments, subscribed>>

(* registry.init(): from here on spans and events reach the layers.         *)
Subscribe ==
  /\ Boot("subscribe", "ok")
  /\ subscribed' = TRUE
  /\ UNCHANGED <<loaded, built, stored, instruments>>

(* `?` returns an Err, an invalid RUST_LOG or a second subscriber panics.   *)
(* What the steps before have set stays set.                                *)
BootFails ==
  /\ \/ boot \in Failures /\ (boot = "load" => ~loaded)
     \/ boot = "metadata" /\ metadata(env) = "error"
     \/ boot \in Signals /\ ~Sound(boot)
  /\ boot' = IF boot \in {"filter", "subscribe"} THEN "panic" ELSE "err"
  /\ UNCHANGED <<env, loaded, built, stored, instruments, subscribed,
                 serverVars, exportVars>>

(* A program that calls init! again, before it builds a Server.             *)
InitAgain ==
  /\ boot \in {"ok", "err"}
  /\ \A s \in Servers : server[s] = "new"
  /\ boot' = "load"
  /\ UNCHANGED <<env, loaded, built, stored, instruments, subscribed,
                 serverVars, exportVars>>

-------------------------------------------------------------------------------
(* The servers. A program may go on after init_with returned an Err, but    *)
(* not without a configuration: base() panics.                              *)
Assemble(s) ==
  /\ boot \in {"ok", "err"}
  /\ loaded
  /\ server[s] = "new"
  /\ server' = [server EXCEPT ![s] = "serving"]
  /\ gates' = [gates EXCEPT ![s] =
                 ({"traces"} \cap providers)
                   \cup (IF instruments THEN {"metrics"} ELSE {})]
  /\ UNCHANGED <<env, bootVars, thread, exportVars>>

(* What a request to s puts into the pipelines: its span, its measurements, *)
(* its log events.                                                          *)
Emitted(s) == gates[s] \cup (IF subscribed THEN {"logs"} \cap built ELSE {})

(* Also while it drains, in the hook, and after serve has given up on it;   *)
(* not during its own flush (FlushIsLast of Serve).                         *)
Emit(s) ==
  /\ server[s] \in {"serving", "abandoned"}
  /\ buffered' = [g \in Signals |->
                    IF g \in Emitted(s) \ closed THEN buffered[g] \cup {s}
                                                 ELSE buffered[g]]
  /\ lost' = IF Emitted(s) \cap closed # {} THEN lost \cup {s} ELSE lost
  /\ UNCHANGED <<env, bootVars, serverVars, closed>>

(* The batch processors and the periodic reader export now and then.        *)
Export(signal) ==
  /\ signal \in built \ closed
  /\ buffered' = [buffered EXCEPT ![signal] = {}]
  /\ UNCHANGED <<env, bootVars, serverVars, closed, lost>>

(* Mutant: the blocking thread is spawned but not awaited.                  *)
Flush_Detached(s) ==
  /\ server[s] = "serving"
  /\ server' = [server EXCEPT ![s] = "stopped"]
  /\ thread' = IF providers = {} THEN thread ELSE [thread EXCEPT ![s] = "traces"]
  /\ UNCHANGED <<env, bootVars, gates, exportVars>>

(* otel::shutdown: two early returns, then the blocking thread.             *)
Flush(s) ==
  /\ server[s] = "serving"
  /\ IF providers = {}
     THEN /\ server' = [server EXCEPT ![s] = "stopped"]
          /\ UNCHANGED thread
     ELSE /\ server' = [server EXCEPT ![s] = "flushing"]
          /\ thread' = [thread EXCEPT ![s] = "traces"]
  /\ UNCHANGED <<env, bootVars, gates, exportVars>>

(* Mutant: the providers are shut down inside serve's own future, which an  *)
(* expired deadline drops.                                                  *)
ShutDown_Inline(s) ==
  /\ server[s] = "flushing"
  /\ thread[s] \in Signals
  /\ thread' = [thread EXCEPT
                  ![s] = IF @ = "logs" THEN "done" ELSE After(@)]
  /\ closed' = closed \cup ({thread[s]} \cap providers)
  /\ buffered' = [buffered EXCEPT ![thread[s]] = {}]
  /\ UNCHANGED <<env, bootVars, server, gates, lost>>

(* Mutant: the thread's three `if let Some` are left out.                   *)
ShutDown_Unbuilt(s) ==
  /\ thread[s] \in Signals
  /\ thread' = [thread EXCEPT
                  ![s] = IF @ = "logs" THEN "done" ELSE After(@)]
  /\ closed' = closed \cup {thread[s]}
  /\ buffered' = [buffered EXCEPT ![thread[s]] = {}]
  /\ UNCHANGED <<env, bootVars, server, gates, lost>>

(* One provider.shutdown(), which exports what it has buffered; repeating   *)
(* it is an error that is ignored.                                          *)
ShutDown(s) ==
  /\ thread[s] \in Signals
  /\ thread' = [thread EXCEPT
                  ![s] = IF @ = "logs" THEN "done" ELSE After(@)]
  /\ closed' = closed \cup ({thread[s]} \cap providers)
  /\ buffered' = [buffered EXCEPT ![thread[s]] = {}]
  /\ UNCHANGED <<env, bootVars, server, gates, lost>>

Stop(s) ==
  /\ server[s] = "flushing"
  /\ thread[s] = "done"
  /\ server' = [server EXCEPT ![s] = "stopped"]
  /\ UNCHANGED <<env, bootVars, gates, thread, exportVars>>

(* The deadline, a failed listener, a panic: serve returns, the blocking    *)
(* thread goes on.                                                          *)
Abandon(s) ==
  /\ server[s] \in {"serving", "flushing"}
  /\ server' = [server EXCEPT ![s] = "abandoned"]
  /\ UNCHANGED <<env, bootVars, gates, thread, exportVars>>

(* Not a step of the program: nothing is left to run.                       *)
Finished ==
  /\ \/ boot = "panic"
     \/ boot = "err" /\ ~loaded
     \/ \A s \in Servers : server[s] = "stopped"
  /\ UNCHANGED vars

BootStep ==
  \/ LoadConfig
  \/ LoadTwice
  \/ ReadFilter
  \/ ParseMetadata
  \/ \E signal \in Signals : BuildProvider(signal)
  \/ StoreProviders
  \/ Subscribe
  \/ BootFails
  \/ InitAgain

ServerStep(s) ==
  Assemble(s) \/ Emit(s) \/ Flush(s) \/ ShutDown(s) \/ Stop(s) \/ Abandon(s)

Next ==
  \/ BootStep
  \/ \E s \in Servers : ServerStep(s)
  \/ \E signal \in Signals : Export(signal)
  \/ Finished

Spec == Init /\ [][Next]_vars

(* A blocking thread runs to its end, and every shutdown of the SDK gives   *)
(* up on an exporter that does not answer.                                  *)
FairSpec == Spec /\ \A s \in Servers : WF_vars(ShutDown(s))

-------------------------------------------------------------------------------
(* Properties. *)

(* health.rs:20-22: what /health reports is what was configured; PROVIDERS  *)
(* and INSTRUMENTS are never half of an init that failed on the way.        *)
AllOrNothing ==
  providers # {} => /\ providers = endpoints
                    /\ instruments <=> "metrics" \in endpoints

(* init of otel.rs is called once: its statics and the SDK's globals ignore  *)
(* or replace what is set twice, and only the configuration, which is       *)
(* loaded first, stands between a second init! and a second set of          *)
(* providers.                                                               *)
SetUpOnce ==
  boot \in {"filter", "metadata", "traces"} =>
    built = {} /\ ~stored /\ ~instruments /\ ~subscribed

(* What the environment asks of a signal, said without the code's operators:*)
(* where it goes, which files it is given, and by which variable.           *)
Destination(signal) ==
  IF IsSet(env.endpoint[signal]) THEN env.endpoint[signal] ELSE env.base

Named(file, signal) == \E level \in {signal, "any"} : IsSet(env.file[level][file])

Variable(file, signal) ==
  [level |-> IF IsSet(env.file[signal][file]) THEN signal ELSE "any", file |-> file]

CanBeRead(file, signal) == env.file[Variable(file, signal).level][file] = "readable"

HasIdentity(signal) == Named("CLIENT_CERTIFICATE", signal) /\ Named("CLIENT_KEY", signal)

(* otel.rs:355-357, 378-387 and the table of the README: a signal goes to   *)
(* its own endpoint, else to the base, and never when it is switched off;   *)
(* over https its connection uses every file it is given and no other, each *)
(* from its own variable where that is set, and a whole client identity or  *)
(* none; over http it uses no file.                                         *)
ExportersAreAsConfigured ==
  \A signal \in built :
    LET transport == Transport(env, signal)
        given == {f \in Files : Named(f, signal)}
    IN  /\ env.exporter[signal] # "none"
        /\ Destination(signal) \in {"http", "https"}
        /\ resolve_endpoint(env, signal) = Destination(signal)
        /\ Destination(signal) = "http" => transport = Plain
        /\ Destination(signal) = "https" =>
             /\ transport = Tls({Variable(f, signal) : f \in given})
             /\ \A f \in given : CanBeRead(f, signal)
             /\ given \subseteq {"CERTIFICATE"} \/ HasIdentity(signal)

(* init fails for a reason in what it uses: a malformed header, even when   *)
(* nothing is exported, or a signal that is exported and not built, whose   *)
(* endpoint is none, or which lacks a file or half its identity over https. *)
(* What is overridden, switched off or over http never fails it.            *)
FailsForItsReason ==
  boot = "err" /\ loaded =>
    \/ env.headers \cap {"no =", "bad key", "bad value"} # {}
    \/ \E signal \in Signals \ built :
         LET given == {f \in Files : Named(f, signal)} IN
         /\ env.exporter[signal] # "none"
         /\ \/ Destination(signal) = "bad"
            \/ /\ Destination(signal) = "https"
               /\ \/ \E f \in given : ~CanBeRead(f, signal)
                  \/ ~(given \subseteq {"CERTIFICATE"} \/ HasIdentity(signal))

(* lib.rs:100-107: requests get spans and metrics if and only if their      *)
(* signal is exported, although the two middlewares ask different statics.  *)
(* In a program that goes on after a failed init, where one static may be   *)
(* set and the other is not, they get no spans, and metrics only if their   *)
(* provider was built before the failure.                                   *)
GatesFollowEndpoints ==
  \A s \in Servers : server[s] # "new" =>
    /\ boot = "ok" => gates[s] = endpoints \cap {"traces", "metrics"}
    /\ boot = "err" => gates[s] = built \cap {"metrics"}

Flushed(s) == s \notin lost /\ \A g \in Signals : s \notin buffered[g]

(* server.rs:325-326: the first server of the process to flush loses none   *)
(* of its telemetry, even beside one that goes on emitting.                 *)
FirstIsFlushed ==
  boot = "ok" =>
    \A s \in Servers :
      server[s] = "stopped" /\ (\A u \in Servers \ {s} : thread[u] = "none")
        => Flushed(s)

(* otel.rs:212-214: once begun, a flush shuts every provider down, whether  *)
(* or not serve still waits for it and whoever shut some down before.       *)
FlushCompletes ==
  \A s \in Servers :
    thread[s] # "none" ~> thread[s] = "done" /\ endpoints \subseteq closed

(* lib.rs:107: buffered telemetry is flushed during graceful shutdown.      *)
TelemetryIsFlushed ==
  \A s \in Servers : server[s] = "stopped" => Flushed(s)
================================================================================
