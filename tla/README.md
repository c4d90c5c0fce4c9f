# A TLA+ model of tinkr_framework

`tinkr_framework` is a Rust library for standing up API servers: one `init!`
loads a layered configuration, sets up logging and OpenTelemetry, and one
`Server::serve` binds, serves HTTP and gRPC, and shuts down gracefully on
ctrl-c or SIGTERM. This directory models its stateful parts in TLA+, checks
them with TLC on small instances, and proves their safety with TLAPS for any
size of instance.

Paths below are relative to `src/crates/`; `server.rs`, `otel.rs`,
`otel/metrics.rs`, `bootstrap.rs`, `health.rs`, `logging.rs` and `utilities.rs` are in
`tinkr_framework/src/`, the `lib.rs` of the configuration in
`tinkr_config/src/`.

## 1. The system

| Component | State | Operations | What makes it correct |
| --- | --- | --- | --- |
| `Server::serve` (`server.rs`) | the task running `serve`, a spawned signal task, a oneshot and a watch channel, a `JoinSet` with one axum task per listener, the shutdown hook, a deadline | start, signal, drain, hook, flush, return | hook after the last request, flush after the hook, always an end after a signal, an undisturbed `Ok` means everything was done |
| request metrics (`otel/metrics.rs`) | `INSTRUMENTS`, an up-down counter per method, a histogram, one `State` per response | `track_request`, `Tracked::poll_frame`, `Drop`, `record` | one record per response, its real outcome, a gauge that counts, no unbounded series |
| OpenTelemetry set-up and shutdown (`otel.rs`, `bootstrap.rs`) | `PROVIDERS`, `INSTRUMENTS`, the SDK's buffers, the global subscriber | `init_with`, `otel::init`, `otel::shutdown` | all configured signals or none, nothing buffered is lost by a clean stop |
| configuration load (`tinkr_config/src/lib.rs`) | `GLOBAL`, `CONFIG_PATH`, the environment, the files | `load_with`, `get`, `base` | loaded once, frozen, named files required, provenance and errors name the file that was read |
| layered resolution (`base.rs`, `__private.rs`, what the macros generate) | the layers, the provenance pushed so far | `parse`, `from_env`, `merge_required`, `merge_optional`, `merge_env`, `schema` | env over file over default, provenance follows the value, exactly the right inputs load, an error blames the right field, the schema asks for what `parse` needs |
| server builder and router assembly (`server.rs`) | the `Server` being built: routes, services, reflection sets, health check, hook, pending binds | `new`, `router`, `route`, `grpc_service`, `grpc_reflection`, `health`, `on_shutdown`, `bind`, `into_app` | nothing is bound for a server that cannot be assembled, and a refusal says why |
| bind resolution (`server.rs`) | listeners, sockets of other processes, sockets in TIME_WAIT | `into_spec`, `resolve_binds`, `bind_v6only` | each target is served, in order, and nothing else; a restart serves again |
| OTLP endpoint, metadata and TLS (`otel.rs`) | the environment | `resolve_endpoint`, `metadata`, `resolve_tls_files`, `build_tls` | a client certificate that is given is presented, or init fails; what is not used cannot fail it |
| request tracing (`otel.rs`) | the spans entered on each worker thread, a span per request | `trace_request`, polls, awaits, cancellation | no log line has another request's trace, a span ends with its status |
| structured logging (`logging.rs`) | per line | `format_event`, `correlate_trace`, `rfc3339`, `civil_from_days` | fixed keys win over fields of the same name, and nothing else is lost |
| health endpoint (`health.rs`) | per request | `response` | the status code is the status, the uptime reads as what it was |
| utilities (`utilities.rs`), errors, environments | none | `to_iso8601`, `new_id` | a duration can be read back |
| demo crate | | | section 8 |

How they interact: `init_with` calls `load_with`, then `otel::init` on the base
fields, then installs the subscriber. `serve` reads the frozen base fields and
the two telemetry statics while it assembles its router, and calls
`otel::shutdown` as its last act. The middlewares run inside the listener
tasks' connections. Everything shared is a `OnceLock`, a channel or an atomic
inside the SDK, so the hard behaviours are orderings, not data races:

- *select! and the two ways out of the loop.* The signal and the last listener
  can be ready in the same poll; `select!` picks either.
- *cancellation.* A dropped future runs none of the code behind its `await`:
  the drain under `tokio::time::timeout`, a request whose client left, the
  listener tasks when their `JoinSet` is dropped.
- *partial failure.* A listener fails while others drain; the third exporter
  fails to build after two were installed; a load fails after it has published
  its path.
- *process-wide statics* shared by several servers, several loads, and
  displays that read them later; a second `init!` that meets what the first one set.
- *threads that serve many requests.* A span is current on a thread for one poll;
  every await in a handler hands the thread to another request.
- *what the last process left.* Its connections in TIME_WAIT stand in the way of one of
  the two address families and not of the other.

`PROJECT.json` lists every hazard at its line with the properties for it.

## 2. The modules

    ServiceLifecycle      what serve promises (abstract)
       ^ implemented by
    Serve ------------- ServeProofs
    Program             what a main asks of its Server (calls, binds, clashes)
       ^ used by
    Startup             what a start promises (abstract)
       ^ implemented by
    ServerStart ------- MCServerStart, ServerStartProofs   (Serve's Start, from inside)
    Ledger              what the request metrics promise (abstract)
       ^ implemented by
    RequestMetrics ---- MCRequestMetrics, RequestMetricsProofs
    Calendar ---------- CalendarProofs
       ^ used by
    RequestTrace ------ MCRequestTrace, RequestTraceProofs
    Exporters
       ^ used by
    Telemetry --------- MCTelemetry, TelemetryProofs   (its servers rely on Serve's FlushIsLast)
    WriteOnce           what load_with, get and base promise (abstract)
       ^ implemented by
    ConfigLoad -------- ConfigLoadProofs
    Resolution          what parse promises (abstract)
       ^ implemented by
    Layering ---------- MCLayering, LayeringProofs   (ConfigLoad's Parse, from inside)

### Serve and ServiceLifecycle

`serve` is the control of the calling task: `starting`, `loop` (the `select!`),
`drain`/`drainHook`/`drainFlush` (the three awaits inside the timeout),
`tailHook`/`tailFlush` (the same awaits after the loop's `break`), and the
outcomes. `signalTask`, `signalled` and `broadcast` are the spawned task and
its two channels; a channel counts as resolved by a send and by the drop of its
sender, because the code matches `_ = signal_rx` and ignores the result of
`changed()`. `task` and `conns` are the listener tasks and their connections,
which are tokio tasks of their own and outlive an aborted listener. `hook` and
`flush` follow the clean-up; the flush runs on a blocking thread, which nobody
can cancel, so `FlushFinishes` is possible after `serve` has returned. `osSignal`
and `expired` are history variables.

Each await is one control point; between two awaits the task runs without
interleaving, so everything up to the next await is one action. `Leave` is
part of every action that returns or panics: it drops the locals, which aborts
the listener tasks in the `JoinSet` and loses an unfinished hook.

`ServiceLifecycle` is the promise without tasks and channels: up, stopping,
cleaning up once quiet, hook before flush, stopped, abandoned or failed.
`ImplementsLifecycle` maps Serve's control to its phases, `conns` to the busy
listeners, and `hook`/`flush` to the clean-up steps due and done.

### ServerStart, Program and Startup

Program holds what can be said of a `main` without running it: its calls (`Calls`), what they
make routes of, which of them clash (`Clash`), whether an app can be assembled of them
(`Servable`), the binds they ask for (`Asked`) and which sockets a bind may end up with
(`Choices`). Both other modules are written with it.

`program` is what a `main` calls on its `Server`, one action a call; `server` and
`binds` are what the builder has of it. axum's panics on a second handler of a path and on
a second service of a name are part of the call that meets them. `Serving` is the call
of `serve`: `NoRoutes`, `HealthIsTaken` and `InvalidDescriptorSet` are the ways
`into_app` refuses, `IntoApp` is the one that goes on, with the default bind where the
program has none. `resolve_binds` then takes one target an action (`UseListener`,
`InvalidAddress`, `BindAddress`), a dual-stack port in two (`BindV4`, `BindV6`), because
between two binds other processes take and release sockets (`Take`, `Release`). `Exit` is
every `?`, `return Err` and panic: the locals are dropped and their sockets with them.

A socket is a kind of address with a port. There are three kinds: `v4` and `v6`, one address
of each family, which is also the wildcard that 0.0.0.0 and `bind_v6only` take, and `dual`,
the IPv6 wildcard as `TcpListener::bind` takes it, without IPV6_V6ONLY. That one needs the
IPv6 stack, accepts IPv4 too, and on its port meets the sockets of both families (`Stack`,
`Meets`, `Clear`; `server.rs:515-517`). `Free` is what the kernel would give beside what this
process and others hold: `TcpListener::bind` sets SO_REUSEADDR and passes over TIME_WAIT,
`bind_v6only` does not. `Stop` leaves some of the served sockets in TIME_WAIT, `Restart` runs
the same program again, `Expire` ends a TIME_WAIT. `stacks` is which families the host has.
Serve takes all this for one step that succeeds or fails, at the same place: before the
signal task is spawned and before the first listener task.

`Startup` is the promise without the builder, the router and the listeners; what it sees of
a start is the sockets the process holds at every moment. A start takes them one at a time
(`Acquire`), each for a target of the program that asks for it and clear of those it holds,
and, but for listeners `main` has bound itself, only for a program that can be served
(`Servable`). It comes up (`Open`) on exactly those, divided among the targets, at least one
for each and one in a family (`Divided`), and on every family of the host where nothing was in
the way (`Whole`); or it is refused (`Refuse`), gives all of them back, and names a cause
(`Cause`). A program that cannot be served is refused as such. An `Io` or an `InvalidAddress`
is of a program that can be: the first of a readable target with no unreadable one before it
that something stood in the way of (`Obstructed`): another process that has taken a socket,
an earlier target of the same program, a host without the family, or, after an earlier start,
TIME_WAIT under the IPv6 half of a pair where there is no other half; the second of an
unreadable target with none before it that this host could not have bound.
`ImplementsStartup` maps `pc` to its phases (`startPhase`), all the sockets held (`Held`: of
listeners, of half a pair, pre-bound) to its sockets at every step, and `outcome` to the
reason. The calls and refused halves of a pair stutter. Resolving the binds before `into_app`
has accepted the program is an `Acquire` too early, the bug of the run's mutant.

### RequestTrace

A request is `new`, `running` on a worker, `waiting` at an await, `answered` or
`dropped`. `current` is the stack of spans entered on each thread; a poll enters the
request's open spans (`Begin`, `Resume`) and drops the guards at its end (`Leave`, in
`Yield`, `Answered` and `Cancel`), as `Instrument` and the guards of tracing do. A span
is the path from its root, so a child opened under a foreign span would show it. A log
line is a function from its keys to where each value comes from: the event, the span,
or the metadata. `format_event` is the code's sequence of inserts into one JSON map
(`Inserted`: the later value wins), in its order: the event's fields, `spans`, the fixed
keys, the source location, the trace keys. `out` is what the last step wrote, a line or
a `/health` answer, for the properties to look at.

`admits` says whether RUST_LOG lets the request span through, `exporting` whether the
middleware was layered (`GatesFollowEndpoints` of Telemetry).

### Calendar

`civil_from_days`, `rfc3339` and `to_iso8601` as the code computes them, with the
truncating `/` of Rust's integers (`Quot`) and the clock before the epoch that reads as
zero; and a reference they are compared with, the Gregorian calendar counted forwards
(`DayNumber`, `IsDate`) and the sum of the written units (`ReadDuration`).
`MCRequestTrace` has TLC compare every day from 1970 to 2100-03-02.

### RequestMetrics

One request is `idle`, `handling` (at `next.run(req).await`), `streaming` (its
body is wrapped in `Tracked`), `ended`, `dropped`, or `cancelled` when its
future was dropped at the await. `RecordTaken` is `self.state.take()` followed
by `record`, shared by `poll_frame` and `Drop` as in the code. `attributes` is
the attribute set of the data point, with the strings abstracted to what the
properties tell apart: whether a name is present, whether `http.route` is the
matched pattern or the raw path, whether `error.type` is HTTP's or gRPC's. What
axum, tonic and clients do (which status, which trailers, whether the body is
polled past its end) is chosen freely within what they can do, and marked
external in the map.

`MCRequestMetrics` names the requests worth telling apart: an RPC, a probe of an
unknown method, a deeper probe, an unmatched path, gRPC content on an HTTP
route, plain HTTP on two methods, and plain HTTP on an RPC's path.

`Ledger` is what the two instruments promise their reader, without middleware, wrapped body
and polls: an account per request, opened on its method's series, told what the client is
told, settled once by one entry that says it (`Entry`), abandoned if its request is given up
before there is an answer; and a balance that after every move counts the accounts
outstanding. `ImplementsLedger` maps the phases to the states of an account (`AccountAt`), the
gauge to the balance and the histogram to the entries. Polling a body past its end is a
stutter of it.

### Telemetry

`env` is what `init_with` finds in its environment. Exporters says what the code makes of
it, signal by signal: `resolve_endpoint` (the `none` exporter, the signal's own URL, the
base), `metadata` (the header entries), `resolve_tls_files` (the files it is given, each known by the variable that names it, the
signal's own before the generic one) and `build_tls` (plain, TLS with the files it uses, or
an error). `ExportersAreAsConfigured` and `FailsForItsReason` do not trust these operators:
they compare the outcome with what the environment's variables ask for, written down apart
from them (`Destination`, `Named`, `Variable`, `CanBeRead`, `HasIdentity`).
`boot` walks through `init_with`: load, RUST_LOG, metadata, traces, metrics, logs,
`PROVIDERS.set`, `registry.init()`. Headers and exporters fail where the environment says
so, the other steps may fail where `Failures` lets them; what was set before stays set.
`InitAgain` calls it a second time and `LoadTwice` is the panic it meets. A server
assembles its router (`gates` is which middlewares were layered), emits, flushes on its
way out or is abandoned; `thread` is the blocking closure's position between the three
provider shutdowns. `buffered` is who has telemetry in which pipeline, `closed` which
providers were shut down, `lost` who emitted into a closed one.

`MCTelemetry` has seventeen environments: signals exported by their own URLs or by the
base and the `none` exporter, none, some and all of them, and those in which a bad
header, a bad URL, a missing file or half a client certificate decides, for every signal
or for one.

That a server emits nothing during its own flush is not assumed out of thin
air: it is `FlushIsLast` and `NoTrafficAfterHook` of Serve.

### ConfigLoad

`load_with` by several threads, each step that another thread can observe an
action: `Enter` (dotenv and the first check of `GLOBAL`), `Resolve` (path and
`CONFIG_PATH`), `Parse` or `Fail`, `Store` (`OnceLock::set`, the second check).
`get` and `base` read it at any time, and panic without one or, for `get`, with another
type. Files change between any two steps. A configuration is reduced to who stored it, its
type, from which path, and whether the file was there; `seen` is what a reader was given.
A load may fail with any file: `ErrorsWith` says which errors what is at the path can end in,
with a good file a reserved name, a bad variable, an unknown environment or a missing value
(Layering says when). `errorOf` is the file a caller's last error is about, to be compared
with the path `Display` would print now, and unset for an error whose text names none
(`FileErrors`).

`WriteOnce` is the cell without the two checks, the variables, the files and the paths'
resolution: of the loads under way at most one writes, every read gets what it wrote, a load
is refused only when another one has written, and one that fails leaves no trace.
`ImplementsWriteOnce` maps `GLOBAL` to the cell and the three stages of a load to one
(`DoingAt`); `Resolve` and `Parse` are stutters, the write is `Store`'s.

### Layering

`parse`, which `load_with` calls on the file's text, stage by stage: `CheckReserved`,
`ReadFile` (both layers read from one text), `ReadBaseEnv`, `MergeBase` (one field a
step, with one provenance entry), `ReadAppEnv`, `MergeApp`. Every `?` is a `Fail` with the
error and the field it is about. `fields` is the base fields and those of one
application struct, each a `FieldSpec`: whether it is required, optional or the
environment, whether it names a variable and has a default, and the table it is in.
`IsField` and `IsStruct` are the declarations derive(Configurable) accepts. A value is
absent, malformed for its layer's type, a string that names no environment, or good;
the order of merging is base.rs's (the environment first) and the order of reading
variables is its own (`ReadBefore`). `stray` says whether the file also has a key of no field,
which both layers skip. `SchemaRequires` is the "required" lists of the rendered schema,
`RequiredKeysAreThere` applies them to the keys of the same file, and `SchemaAccepts` adds
its `additionalProperties: false`.

Tables nested in tables, two fields that name one variable and text that is no TOML at
all are left out; ConfigLoad has the last one as a "bad" file. Values are not carried
along: each merge takes the value and its source in one tuple, so `sources` says which
layer's value a field has.

`Resolution` is the same in one step: the inputs become a configuration, which has the value
of the highest layer that gives one for every field and says so once for each, or an error
about a field at fault. `ImplementsResolution` lets the seven stages stutter up to the one
that ends `parse`.

## 3. The runs

| Run | States | Question | Result |
| --- | --- | --- | --- |
| `serve` | 14132 | two listeners, up to two connections each, every fault: order of drain, hook and flush; `Ok` is clean; refinement; three liveness properties | holds |
| `serve_unbounded_tail` | | does a signal always end `serve`, with a hook that may hang? | no (section 6) |
| `server_start` | 229598 | every short program on hosts with one family or both, beside processes that take ports, started twice: what is served is what was bound, which sockets a start takes and when (refinement), restarts | holds |
| `server_start_restart` | | is a family left out only on hosts without it? | no |
| `request_trace` | 35292 | two requests polled in turns by two workers, with every cancellation: traces, lines, span status, `/health` (up to symmetry) | holds |
| `metrics` | 32656 | two concurrent requests of any of eight kinds, every header and trailer status: a ledger of them (refinement), real outcome, exact gauge, collapsed probes | holds |
| `metrics_leak` | | is the gauge zero once every request is over? | no |
| `config` | 238815 | two threads, two loads each, readers of two types, files that come, go and break, loads that fail with good ones: a cell written once (refinement), provenance, fresh errors | holds |
| `config_error_path` | | does a kept error still name its file? | no |
| `telemetry` | 11922 | seventeen environments, every other failing boot step, a second `init!`, two servers | holds |
| `telemetry_two_servers` | | does a clean stop flush every server's telemetry? | no |
| `layering` | 295080 | two base fields with 14 kinds of application field alone, none, or in five pairs; every mix of absent, bad and good values, with and without a key of no field: what parse promises (refinement), what the schema asks for | holds |

### Properties, by what could go wrong

- `NoTrafficAfterHook`: a hook that closes a pool while another listener's connection
  still uses it. Two listeners, because joining only the first one is the bug one test
  listener cannot show.
- `OkIsClean`, `ImplementsLifecycle`: a flush that starts early or an `Ok` returned
  before the flush is through. They hold across expiry: the flush of an
  abandoned drain was begun after the last connection, too.
- `SignalLeavesLoop`, `DrainIsBounded`, `ClientsCannotHold`: no combination of
  hanging clients, hook and exporter swallows the signal or stops the deadline;
  and when hook and exporter do end, clients that never leave cannot keep
  `serve` from returning.
- `EveryBindIsServed`: binds of several kinds meet on one port, the IPv6 wildcard and IPv4
  among them, ephemeral ports are given away between two of them, one family of a pair is
  refused: each target still has its listener, in order, and none that it did not ask for; and
  a pair that nothing stood in the way of has both of its families.
- `ImplementsStartup`: no socket is taken before the program is known to be servable, none
  for anything but one of its targets, and a start that fails after some binds keeps none of
  them; each error is about the program as written, and a bind that fails has a reason outside
  the code or in an earlier target.
- `RestartsServe`: TIME_WAIT refuses the IPv6 half of a pair; the IPv4 half, bound by other
  code, must carry the start. The conditions in the formula are the ones it needs.
- `LinesCarryOwnTrace`: a guard held across one await gives the next request on that
  thread the wrong trace; no single-request test shows it.
- `SpansTellOutcome`: the status is recorded after the handler's await, which a cancelled
  request never passes.
- `LinesKeepTheirEvent`, `HealthTellsTheTruth`: fields with reserved names, messages that
  are not text, times at the ends of eras, durations whose units are zero.
- `ImplementsLedger`, `GaugeIsHeld`: a body may be polled past its end, dropped early or
  both. `GaugeIsHeld` says exactly who holds a `+1`, and so names the leak of cancelled
  requests.
- `OutcomeIsReal`: the recorded `grpc-status` is the last one the client was
  sent, so a failed RPC never counts as a success.
- `ProbesCollapse`: probes of unknown methods of a service add no method and no path of
  their own, and unmatched paths no name at all. The sentence before this one in the
  code's comment does not hold, and the property excepts what breaks it by name (section 6).
- `ImplementsWriteOnce`: both `GLOBAL` checks are needed; an `Ok` is handed only to the
  thread whose configuration every `get` and `base` serves from then on, and no load panics
  without a winner before it.
- `FreshErrorsNameTheirFile`: `CONFIG_PATH` is set by every load, also one nobody named a
  path for after one somebody did; an error about a file, shown before the next attempt, is
  then right.
- `ProvenanceIsReal`: a file somebody named is never silently replaced by defaults
  (`NamedFilesAreRead` in it), and `CONFIG_PATH` is not touched by loads that fail before
  or are refused after, as long as no second loader was past the first check.
- `AllOrNothing`, `GatesFollowEndpoints`, `SetUpOnce`: `PROVIDERS` and `INSTRUMENTS` are
  set at different steps and read by different gates, yet agree for every server; a second
  `init!` after any failure sets nothing up twice.
- `ExportersAreAsConfigured`, `FailsForItsReason`: a certificate and its key may come from
  variables of two levels; every file that is given is used, from the signal's own variable
  where that is set, nobody connects with half an identity, and what is overridden, switched
  off or of an `http` endpoint fails no init.
- `FirstIsFlushed`, `FlushCompletes`: the flush exports all of the first server's
  telemetry, and goes on when its `serve` is gone.
- `ImplementsResolution`: the precedence is written three times and
  the provenance beside each; a reserved name let through would read one key twice; the
  stages together refuse exactly the inputs that make no configuration, such as a malformed
  value a higher layer overrides, but not an unknown environment that is overridden; and with
  several bad values at once the one error is about a field at fault in the layer it names.
- `SchemaAsksOnlyTheNeeded`, `SchemaAsksTheNeeded`: the schema is computed from the
  attributes, `parse` works on the layers; a file that loads is rejected for a key of no
  field only, never for a missing one, and a value only the file can give is asked for where
  its table is.

Every property of a passing run has a mutant in its module, a plausible bug of
the mapped code placed before the definition it changes, under which the same
run must report that property. The type invariants of Serve, ServerStart and ConfigLoad are
theorems only: no plausible bug of that code ends in a value of another type.

### Bounds

`Listeners` two and `MaxConns` two: an order between listeners needs two of them,
a miscounted connection two on one listener; the actions are symmetric in both.
`Requests` two: requests share nothing but the gauge of their method, of which there are
two. In RequestTrace two requests on two workers: a span left on a thread needs a second
request there, and a request that moves needs a second thread. Its events, clocks and
durations are in MCRequestTrace: fields named like fixed keys, and times at the ends of the
calendar's periods and of the units. `MaxStarts` two: a start and one after it; `Ports`
two and `Foreign` IPv4 and the IPv6 wildcard of one of them: targets meet on a port or not, and one port
stays free for an ephemeral bind. A program is up to three calls that make routes, or a
route and two binds: clashes, and binds that take from each other, are of two calls, the
third is for what comes between. `Loaders`
two and `MaxCalls` two: a race needs two, a refused or repeated load one call
after the first; `MaxCalls = 3` in the error run only widens it. `Servers` two:
one that flushes and one that still emits. `Statuses {200, 500}` and `Codes
{0, 12, 13}` are an HTTP success and failure, and OK, UNIMPLEMENTED (treated
apart by the code) and any other. Layering's fields meet only through the order of the
stages and the names, so pairs suffice; the base has the environment and one of the
required fields (the optional ones behave as the application's), and the proofs cover
any sequence of fields. Deadlock is checked in every run; where the
program is through, an explicit stuttering step (`Returned`, `Finished`) says so.

### Fairness

`FairSpec` of Serve has weak fairness on what the tokio runtime does by itself:
it polls a woken task (`ServeStep`, `SignalStep`, `ListenerStep`) and fires a
timer (`DeadlineExpires`). There is none on connections, the hook, the exporter,
the arrival of a signal or any fault. `ClientsCannotHold` adds fairness of
`HookFinishes` and `FlushFinishes` as its premise, in the formula.

ConfigLoad, Layering, ServerStart, RequestMetrics and RequestTrace need no fairness: no
liveness is claimed of them (a host may never give a port, a handler never return, a client
never let go of its body).

In Telemetry only `ShutDown` is fair: a started blocking thread runs to its end, and each shutdown of
the SDK has a timeout of its own.

## 4. The proofs

All safety and action properties above and the five refinements (`ImplementsLifecycle`,
`ImplementsStartup`, `ImplementsLedger`, `ImplementsWriteOnce`, `ImplementsResolution`) are
proved for every value of the constants, the temporal ones (`~>`) are not. Where a refinement
says what an invariant or an action property said before it (`OnlyServableStarts`,
`RecordedOnce`, `RecordsAreFinal`, `LoadedOnce`, `Frozen`, `HighestLayerWins`,
`EveryFieldIsTraced`), the latter stays as a theorem, and the run checks the refinement. The assumptions are the named ones in
the modules: `Listeners` is not empty, `MaxConns` and `MaxCalls` are naturals, `MaxStarts`
is a positive one, `Faults` and `Failures` are among the known ones, `Requests` of
RequestMetrics is finite, `Inputs` are consistent, 12 is one of its `Codes`, 200 and 503
are among those of RequestTrace, `Unset` is a value of its own and `Default` is not among
`Paths`, traces from outside are not those of requests, `Events`, `Reports`,
`Environments`, `Programs`, `Instants` and `Durations` have their types, `Ports` are
positive with the configured one among them, `Foreign` are sockets of the host, and `Base`
and `Apps` are structs derive(Configurable) accepts, the base's names reserved.

**ServeProofs.** `HookSeesNoTraffic`, which with `FlushIsLast` is proved beside the runs'
properties (`HookIsSafe`, `FlushComesLast`), is not inductive: nothing in it says why a
connection cannot open while the hook runs. `IInv` adds what each control point
has established: a listener task that ended is quiet (`EndedIsQuiet`), nothing
exists before the start (`NotStarted`), every later point of the clean-up has all
listeners joined (`CleanupIsJoined`), and the status of hook and flush at each
point (`BeforeCleanup`, `InHook`, `InFlush`), after an `Ok`, an expiry and any
return (`AfterOk`, `AfterExpiry`, `AfterServe`). Since connections open only
beside an accepting or aborting task, joined listeners stay quiet for ever. The
refinement is proved one action at a time: most map to one step of
ServiceLifecycle or to a stutter, `ConnOpen` and `ConnClose` to `Traffic` or a
stutter.

**RequestMetricsProofs.** A request's record, its taken `State` and its phase move
together (`Shape`); that gives `RecordedOnce` and `OutcomeIsReal`, and that a record never
changes (`FinalRecords`), the outcome through an invariant that the pending `State` carries
what was delivered (`InHand`). `GaugeIsHeld` counts with `Cardinality`: each action adds or
removes one request from the set of one method, by the library's facts about finite sets.
`GaugeReturns` is what it leaves of `metrics.rs:547`: with no request under way and none
cancelled all counts are zero. The refinement of Ledger puts these together:
`BalanceIsGauge` says the requests that hold a `+1` are the outstanding accounts, `EndSettles`
that the data point of a body that ends is the entry the ledger asks for; every other action
moves an account or none (`AccountMoves`).

**ServerStartProofs.** `EveryBindIsServed` speaks of the end, the invariant of each call and
each target: `BuiltFromCalls` and `BindsFromCalls` say that the builder holds exactly what
the calls made so far put there and no two of them clashed, which makes `OnlyServableStarts`
a fact about the program; `ListenersAreOwn` that every bind behind `next` has its listeners
and that no socket is held twice, pre-bound ones and the half pair (`HalfIsOwn`, `PreBound`)
included. For `RestartsServe`, `StartsTell` carries over what a start that came to serve has
shown of the program: it can be assembled and its targets fit the host. `FreeAtHand` then
finds a free socket for each target of an undisturbed start, whatever is in TIME_WAIT.
The refinement of Startup needs more than what is bound: `RInv` adds that each pending bind is
one of the program's calls, in their order (`BindsAreCalls`), that whatever is bound is of
a family of this host (`OfTheHost`), and that a pair nothing stood in the way of has its
families (`PairsAreWhole`), which is what `TargetsAreServed` says at the end. A step that gets
a socket, for half a pair too, is an `Acquire` of a target that wants it (`Acquires`,
`PushHeld`), allowed because `IntoApp` has shown the program servable. At the end the binds and the calls
that asked for them are one to one (`OwnersOfBinds`), which divides the sockets
(`StartIsDivided`) and makes them whole (`StartIsWhole`); and a bind that finds nothing free
where nothing is in the way would contradict `FreeAtHand` (`NothingFree`), so an `Io` has its
cause (`AddressStarts`, `PairStarts`).

**RequestTraceProofs.** `ThreadsAgree` is the heart: a worker has entered exactly the open
spans of the request it polls, and none when it polls none. With `SpansAreOwn` (every path of
spans is of one request, from its server span on) and `StatusAtEnd` a written line is
checked key by key from the state before the step (`EntryValues`): each key of
`format_event` comes from the last insert that has it.

**CalendarProofs.** `CivilDates`: for every day from the epoch on, `civil_from_days` is a
date of the Gregorian calendar and the one whose number is that day. The year is split at
March, where the algorithm begins it; `YearIsRight` and `MonthIsRight` invert its two
quotients, `FirstOfMarch` and `LeapInEra` tie its eras to the rule of leap years.
`StampsReadBack` and `DurationsReadBack` add the time of day and the units.
RequestTraceProofs cites all three.

**TelemetryProofs.** `BootOrder` ties `built` to the boot step, `StoredIsAll` says
`PROVIDERS` is set only when all is built, and `LoadedFirst` that a second `init!` meets a
loaded configuration whenever there is anything to set up twice (`NoSecondSetUp`).
`BuiltAreSound` and `ErrHasReason` keep why each exporter was or was not built; what that
means (`ExportersAreRight`, `InitFailsForItsReason`) rests on three lemmas that compare the
code's operators with the variables themselves: `EndpointIsDestination`, `TlsFilesAreGiven`
(the files resolved are those named, each by the variable that counts) and
`GivenFilesRefused` (what makes them unusable). For the flush: a closed provider has a
flushing thread (`ClosedByFlush`), lost telemetry another server's thread
(`LostToAnother`), and a thread leaves nothing of its server behind it
(`PassedIsEmpty`); together they give `FirstIsFlushed`.

**ConfigLoadProofs.** `Resolved` and `Parsed` carry the knowledge that a missing
file was an unnamed one to `Store`; `LoadedOnce` is inductive with the types once readers
are compared with `GLOBAL` itself. `OwnPath` says that a loader alone past its
first check owns `CONFIG_PATH` from `Resolve` to the end, `LastPath` that a failed one keeps
it up to its next attempt, which makes `FreshErrors`. The refinement of WriteOnce needs no
more: `StoreWrites` takes the file of the written configuration from `Parsed`, the rest is
which stage of a load each step begins or ends (`TakesTurn`, `SameDoing`).

**LayeringProofs.** The properties speak of the end of `parse`, the invariant of each
stage: `StagesOK` says what the stages behind have ruled out (no reserved name, nothing
malformed in the file, then in the environment) and how far the provenance reaches,
`MergedOK` that every merged field took its winner and could be built from it,
`BlamedFieldIsAtFault` what any error so far is about. Three lemmas, one for each way a
stage ends (`GotoKeeps`, `FailKeeps`, `RecordKeeps`), carry all actions. `ReturnedIsLoadable`
reads `StagesOK` at the end. The refinement of Resolution is the step that
ends `parse` (`InvThrough`): with every field merged, the configuration is that of the highest
layers (`WinnerIsHighest`), and the blame of a `Fail` is the fault Resolution asks for.

## 5. What is model-checked only

`SignalLeavesLoop`, `DrainIsBounded`, `ClientsCannotHold` and `FlushCompletes`: the prover handles neither fairness nor ENABLED.

## 6. Where code and text disagree

Each has a run that TLC must find violated, and a finding in `PROJECT.json`.

- **The tail has no deadline** (`serve_unbounded_tail`). After a signal, listeners
  that drain at once make `join_next()` ready together with the signal; `select!`
  may take it, the loop ends by its `break`, and hook and flush run at
  `server.rs:343-347` outside `timeout`. The doc of `serve` promises they are
  abandoned at `shutdown_timeout`, and the comment at `server.rs:313` that this
  branch means no signal was received.
- **Cancelled requests leak the gauge** (`metrics_leak`). `State`, whose `record`
  subtracts, is made only after `next.run(req).await`.
- **An error names another file** (`config_error_path`). The paths in `Display` come from
  `CONFIG_PATH` at display time. The same static gives the loaded configuration the
  path of a loser that raced it past the first check; `ProvenanceIsReal` states what
  is left.
- **A restart serves half** (`server_start_restart`). `bind_v6only` (`server.rs:521`) sets no
  SO_REUSEADDR, and a dual-stack bind passes over whatever error one family has. A process
  that starts again while connections of its last run are in TIME_WAIT serves IPv4 only, and
  says nothing; `server.rs:498` has it that only environments without a stack lose it.
- **Two servers, one flush** (`telemetry_two_servers`). The first server to stop shuts
  down the providers of the process.

Others are part of the models, without a run of their own:

- The two `expect`s of `shutdown_signal` panic in a detached task; the dropped sender
  resolves `signal_rx`, and `serve` returns `Ok` without a signal (`"install"` in `Faults`).
- The comment at `otel/metrics.rs:152` has it that the RPC is named only for requests that
  matched a registered service; the code asks whether any route matched. gRPC content sent to
  an HTTP route of two segments gets `rpc.service`, `rpc.method` and its raw path for
  `http.route`, on a parametric route a series for every path. `attributes` does the same, and
  `ProbesCollapse` holds of everything else.
- `Property.required` is false for every nested field, so the schema accepts a file without
  a table that `parse` cannot do without (`SchemaAsksTheNeeded` says where it does ask). And it rejects a key of no field, which
  `parse` takes no notice of (`SchemaAsksOnlyTheNeeded` excepts it).
- With `RUST_LOG=warn` the request span is filtered out before it is exported
  (`admits`), though `lib.rs:100` promises one for every request.
- A field of an event named like a fixed key is overwritten, a message recorded as a number
  or an error is lost, and outside a trace a field named like the trace key passes for one
  (`LinesKeepTheirEvent` and `LinesCarryOwnTrace` say exactly what is kept).

## 7. Plan

Done, in this order: Serve with ServiceLifecycle; RequestMetrics; ConfigLoad with `get` and
`base`; Telemetry; Layering; ServerStart; Exporters inside Telemetry; Calendar and
RequestTrace; each with its proofs. Then what the components promise, as modules of their own
with the refinements proved: Startup, Ledger, WriteOnce, Resolution.

Left, in order of importance:

1. Tables in tables in Layering: the recursion of the macros over nested structs.
2. The template: does what `render_template` writes load, and does a redacted secret stay
   out of every rendering?
3. The types in the schema against the conversions of `parse`.
4. A promise of Telemetry in the same form: what a reader of the exporters may count on, over
   the life of several servers.

## 8. What is not modelled, and why

- The kernel's accept queue, HTTP data frames, TLS records: axum, hyper and tonic are
  external; the model keeps what they can do to this code.
- A signal before `shutdown_signal` has installed its handlers: the default action ends
  the process, and no state is left to relate.
- Several addresses in one family: ServerStart's host has one of each, which stands for the
  wildcard of its own family alone; the IPv6 wildcard that is in the way of IPv4 is a third.
  A host with IPv6 alone has no half that passes over TIME_WAIT, so a quick
  restart fails there altogether; `RestartsServe` excludes it by name.
- The SDK's batching and retries; a provider's shutdown is taken to export its buffer.
- What a PEM file contains, a blank base endpoint, and two entries of one header key: they
  are passed on to the exporter's builder, which is external.
- Captured fields of spans in log lines (a span's field called `name` displaces its name,
  `logging.rs:61`), and microseconds: values copied through.
- In `/health` the service, the version and the wall times of single checks, copied
  through too; `new_id`, which is random and has no state.
- The macros as a compiler pass, the schema's types and descriptions, the template, the
  Display texts: layout without state.
- The demo crate and the generated protobuf code.
