# Kyverno authorization server: models, checks and proofs

The repository builds authorization servers for Envoy and for plain HTTP that
evaluate Kyverno `ValidatingPolicy` objects, a control plane that replicates the
policies to sidecars, and a controller that runs servers described by
`AuthorizationServer` objects. This directory holds TLA+ models of these parts,
the TLC configurations that check them, and proofs that TLAPS checks.

All paths below are relative to the repository.

## 1. The system

### Components, their state and their operations

| Component | State | Operations |
|---|---|---|
| Policy reconciler, `pkg/control-plane/reconciler.go` | none; one worker of a work queue | `Reconcile`: Get, then delete, skip or store, then `go SendPolicy` |
| Policy sender, `pkg/control-plane/sender` | `policies`, `cxnsMap`, `healthCheckMap` | `StorePolicy`, `DeletePolicy`, `SendPolicy`, `ValidatingPoliciesStream` (one call per stream), `HealthCheck`, `deleteInactive` on a timer |
| Policy listener, `pkg/control-plane/listener` | connection, `connEstablished` | `Start` (dial, health checks, listen), a goroutine per message; the caller starts it again for ever |
| Listener source, `pkg/engine/sources/listener.go` | `resources` | `Process`, `Load` |
| AuthorizationServer controller, `pkg/commands/run` | `servers` | `Reconcile`: `runEnvoyServer`, `runHttpServer`, `stopServer`, `buildSources` |
| Kubernetes source, `sdk/extensions/controller-runtime` | `resources` | `Reconcile`, `Load` |
| Cache, Once, composite, `sdk/core/sources` | two buffers; the outcome of the first load | `Load` |
| Engine, `pkg/engine/compiler`, `sdk/core` | per request: resulter | load, dispatch, evaluate, collect |
| Servers, `pkg/authz` | none | `Check`, `ServeHTTP` |
| File source, `pkg/engine/sources/fs.go`, `sdk/core/sources` | none; one load has the stages walk, read, load and compile | `Load` |
| Policy compiler and CEL libraries, `pkg/engine/compiler`, `pkg/cel` | per request: the lazy variables and the messages they hold | compile; evaluate a rule; response builders, JWT, JSON and MCP functions |
| Messages, `pkg/control-plane/validating_policy.go` | none | `ToProto`, `FromProto` |
| Validation webhooks, `pkg/webhook/validation` | none | `ValidateCreate`, `ValidateUpdate`, `ValidateDelete` |
| Sidecar injector, `pkg/sidecar`, `pkg/webhook/mutation`, `pkg/server/handlers` | the sidecar, loaded once | review: decode, inject, patch |
| Process lifecycle, `pkg/commands`, `pkg/signals`, `pkg/server` | contexts, wait groups, deferred calls | setup, serve, signal, shutdown |
| OCI, metrics, SDK adapters, generated code | see PROJECT.json | not modelled |

### How they interact

The API server's watch events put names in the queue of a controller. The policy
reconciler writes the sender's map and starts a goroutine that ranges over the
connected streams; each stream is written to by goroutines of its own, and each
message that a sidecar receives is handled by a goroutine of its own. The sidecar
announces its address once per stream, which makes the sender take a snapshot of
its policies and then register the stream. Health checks go the other way, on
their own calls. An authorization server loads its policies anew for every
request, through the cache, concurrently with other requests and with the
reconciler of the source, and evaluates them in order. Policies enter the cluster
through the validation webhooks, one per mode, and reach a sidecar as messages.
Every part runs in a process whose goroutines share one context: the first server
that ends, or a signal, cancels it.

### What is hard

The list is in PROJECT.json under `hazards`, each at its line, with the
properties that would notice. The themes: goroutines that nobody waits for, so
that messages overtake each other; the time between reading a map and using what
was read (registration of streams, flush of clients, double buffer); restarts of
either side, which keep everything in memory; errors that are returned next to
data and then drop it or are dropped; retries by the work queue; deferred calls
that wait for each other; functions that change the message they are given.

### What makes each part correct

* Replication: the sender holds what the API server holds, up to what is queued;
  a connected sidecar misses no update; a sidecar at rest holds what the sender
  holds; listeners come back.
* `SendPolicy`: every stream is sent the policy; no panic; the call ends.
* Controller: entries match objects; a reconcile touches its own object only;
  what is deleted is stopped.
* Engine: the loops compute the decision that match conditions, rules, failure
  policies and the order of policies define; evaluation stops at a verdict.
* Sources: the source follows the API server; the cache cannot be seen; a request
  is answered by the policies that it read; one bad file costs no other.
* Rules: a response holds what its expression says; evaluations do not influence
  each other; what compiles fails only for what the request brings.
* Admission: what is stored compiles; a sidecar decides as the cluster does; a pod
  keeps what its author wrote.
* Lifecycle: a signal, a failed setup and the end of any server end the process,
  with its goroutines and with its errors.

## 2. Modules

| Module | Models | Proofs |
|---|---|---|
| `PolicySync` | reconciler, sender, listener and listener source, with faults of both sides | `PolicySync_proofs` |
| `SendFanout` | one call of `SendPolicy` in detail: WaitGroup, channel, goroutines, changes of the map below it | `PolicySync_proofs` |
| `AuthzServers` | the controller in `pkg/commands/run` | `AuthzServers_proofs` |
| `PolicyEngine` | evaluation of a list of policies for a request, and the answer | `PolicyEngine_proofs` |
| `PolicySources` | Kubernetes source, cache, Once, composites, concurrent requests | `PolicySources_proofs` |
| `Replication` | abstract: what the control plane promises to its sidecars | |
| `ReplicationRefinement` | `PolicySync` implements `Replication`: the mapping | `PolicySync_proofs` |
| `FileSource` | one load of files, stage by stage, while they change | `FileSource_proofs` |
| `CelRules` | compilation and evaluation of rules with the functions of the CEL libraries | `CelRules_proofs` |
| `Admission` | validation webhooks, messages and back, sidecar injector | `Admission_proofs` |
| `Lifecycle` | the process of each of the seven commands that serve | `Lifecycle_proofs` |

`MC*` modules give the constants that a configuration file cannot write down.
`PolicySync` treats the range of `SendPolicy` as one step and refers to
`SendFanout` for the rest of the call. `PolicySources` reduces a policy to its
verdict, `PolicyEngine` says how a verdict comes about from the outcomes of its
programs, and `CelRules` how an outcome comes about from the functions it calls.
The pipeline of an external source is one outcome in `PolicySources` and the
subject of `FileSource`. `Admission!Replicate` is one step for what `PolicySync`
has in full.

Definitions that begin with "Faulty variant" in their comment are plausible
mistakes. No specification uses them: each is put in the place of the definition
that follows it to see that a property notices (PROJECT.json, `mutants`).

### PolicySync

An action is a part of a handler between two points at which another goroutine
can see or change what it uses: `Reconcile` is split after `Get`,
`ValidatingPoliciesStream` between the snapshot and the registration,
`deleteInactive` between the scan and the deletion. Goroutines are elements of
the sets `sends`, `sending` and `handling`. A message in `sending` is either not
yet written to the stream or not yet received: order within a stream is not kept,
since the goroutines in front of it and behind it run in any order anyway. The
numbers of versions, streams, `seen`, `last` and `gap` are history; no guard that
comes from the code looks at them, except that a stream number stands for the
identity of the stream object. Timers (flush, health check, backoff) may fire
whenever they can. `HealthExpires` is the passing of time. A crash of the control
plane is possible at any step, which also stands for the fatal error that Go
raises for the unlocked maps.

### SendFanout

The caller sets the counter, ranges over the map, waits, closes and drains. A
range over a Go map visits every entry that is there all along, and one that is
entered meanwhile or not; a write during the range may stop the process. The
goroutines can leave `errCh <-` only by the panic: nothing receives before the
channel is closed. `Connections` are the streams that the call may meet, `cxns` the
ones that are in the map.

### AuthzServers

`Reconcile` reads the object, then runs under the lock; with one worker nothing
else of the controller happens in between, but the object may be edited and
servers may die. `buildSources` goes through the list of sources in its order and
ends at the first that fails or panics (`Reaches`, `SourceFails`, `SourcePanics`), so
that a Kubernetes source before that one has taken the name of its controller and one
behind it has not; a second Kubernetes source finds the name taken by the first.
Failures of set-up before the manager starts, of the cache sync,
of `buildSources` and the panics (a Git source reads `src.Fs.Path`, the HTTP
server reads `Type.HTTP` of an Envoy object) are separate actions because they
leave different things behind. External: the queue with its retry, and the rule
of controller-runtime that a controller's name is given once per process.

### PolicyEngine

One action per step of the three loops (policies, match conditions, rules). A CEL
program is what it evaluates to for the request. Requests follow each other;
concurrent ones share no state of this module.

### PolicySources

An object is named by its resource version. A request reads the source, then goes
through the cache under the cache's lock, then loads the external sources, then
is answered; the reconciler and other requests run in between. The key of the
cache is a constant function of name and version, so that both distinct and
colliding keys can be checked. Reading, decoding and compiling the files of an
external source is one outcome.

### Replication and its refinement

`Replication` has three variables: what is stored, what may still reach each
sidecar, and what each sidecar holds. Messages may be lost, repeated and
reordered on any step. What it excludes is a sidecar with a policy nobody stored,
or with another policy's content, or one that was never sent to it; a policy that
disappears from a sidecar without a message or a restart; and a store that goes
back to an older revision. The mapping takes `policies` and `resources` as they
are, and as messages under way those of `sends`, `sending` and `handling` that
are for the client, on whatever stream. The reconciler, registrations, flushes,
retries and broken streams are then stuttering or loss.

### FileSource

The walk, the reads and the remaining stages are actions, because files may
change between them; the last stages look at documents only and are one action
made of the operators `NewTransformErr`, `NewFilter` and `LoadDocument`. A
document is a policy that compiles, one that does not, an object of another kind
or text that is not valid. The tree is a sequence of entries in the order of a
depth-first walk, which `OrderAssumption` says for any tree: an entry comes after
its directory, and what is between the two is inside that directory.
Directories are named by their paths and files by their base names
(`EntriesAssumption`); a name says of what kind the file is and is given once in a
directory. Any directory, the root included, may be unreadable; this ends the walk with an
error, and what was found before is still read.

### CelRules

An expression is a postfix program of literals, variables and calls; one action
evaluates one instruction. The tables `...Overloads` are what the libraries
declare, `...Converts` what the implementations convert their arguments to: the
first is used when a policy is compiled, the second when it runs. The builders
for Envoy change the message they are called on, so messages live in `heap`; the
second heap `pure` runs the same calls on copies, and the difference between the
two is what a property can speak of. The checker is `Typed`, one instruction after
the other, with the types of the variables that were compiled before; `Accepts` has
its rule that what is declared as `dyn` goes with everything. `Dispatches` is the check
of the declared types that cel-go makes when a call runs, before the implementation gets
its arguments, and `ConvertToNative` what the implementation makes of them: a status
code has to be an `int32`, metadata has to have a JSON form. When a call fails, the
result keeps the function, and the types and values of the arguments it was given. What
`unmarshal` yields has the type that the JSON of the body has. The body of a request is
the JSON of an MCP request, another JSON value, or no JSON. The parsers and decoders
take the body and the token from the request, whatever string a policy hands to them.
The getters for other MCP arguments than strings have no implementation here: no call
of them gets past the conversion. Both tables of types are kept in full, since the
question is where the two differ. `PoliciesAssumption` says that policies are written
with the three forms of instruction and have a rule; `RequestsAssumption` that bodies
are JSON and that the keys of an object are distinct.

### Admission

Policies and pods are the two halves of one module. A write of a policy begins,
is reviewed by each installed webhook, and is committed if the object did not
change meanwhile; the API server is external. A webhook that is down counts as
its failure policy says. A message has optional fields as records with `set`.
Pods are the four lists that `Inject` appends to, one field that stands for the
rest, and `newer`, the fields that the injector's version of the type lacks. The
API types of policies, pods and sidecars are definitions, and `ObjectsAssumption`
says that what users write is of these types, which the API server and the strict
decoding of the configuration file see to.

### Lifecycle

A command is a sequence of steps: a call that may fail (`Try`), one whose failure
ends the process (`Fatal`, for `log.Fatalf` and `panic`), a deferred call, a
goroutine that joins the wait group, and the wait for the cache. Deferred calls
are a stack, run last in first out, after the values of the return statement are
fixed. The goroutines have the statuses starting, serving, draining and ended.
`Fatal("POD_IP")` is the panic in the HTTP server. External: the manager of
controller-runtime and the clients of the gRPC servers.

## 3. Runs

### Runs that pass

| Run | Checks | Bounds |
|---|---|---|
| `sync_replication` | `TypeOK`, `StoredIsCurrentOrPending`, `NoLostUpdate`, `DrainedIsCurrent`, the refinement `PromiseKept`, and the liveness `StoreSettles`, `ListenersRegister`, `LiveClientsCatchUp` | 1 policy, 1 client, 2 edits, modes HTTP and Kubernetes, health checks of any age, 1 fault |
| `send_fanout` | `EndsOnlyWithLateStreams`, `EveryStreamIsSent` | 3 streams |
| `servers` | `EntriesMatchObjects`, `StopsOnlyItsOwn`, `DeletedIsStopped`, `EnvoyIsEntered` | 2 objects of one name, 2 edits, 6 specs with up to 2 sources, 1 fault |
| `engine_http` | `TypeOK`, `ResultIsDecision`, `AllowedOnlyUnopposed`, `StopsAtVerdict` | every policy of at most 2 conditions and 2 rules; every list of at most 3 of 6 kinds |
| `sources` | `TypeOK`, `KnownOrPending`, `LoadIsExact`, `StaleIsDiscarded`, `AnswerIsOfSnapshot`, `SourceSettles` | 2 objects, 2 versions, 2 requests, 2 external sources, 1 fault |
| `lifecycle` | `NothingOutlivesTheCommand`, `FailuresAreReported`, `SignalStops`, `EndOfAServerStops`, `SetupErrorStops` | all commands with the flags that change their setup, 1 open call, 2 signals |
| `files` | `LoadIsExact`, `GoodFilesSurvive`, `SilentLossOnlyByNamesake` | 5 files in 2 directories, two of them with one base name; any of the directories unreadable; 1 file changes |
| `rules` | `ResponseIsWhatWasWritten`, `EvaluationIsRepeatable`, `FailsOnlyForTheRequest` | 26 policies that call every function, 27 requests, each made twice; an `int32` ends at 1000 |
| `admission` | `StoredPoliciesCompile`, `ReplicaDecidesAlike`, `InjectionOnlyAdds` | 1 policy, 2 writers, 3 writes, 5 specs; 2 pods created, of 3 kinds or copies, 4 configurations |

Why the bounds are enough to meet the cases: policies do not interact in the
replication, and neither do clients except through the shared maps, whose entries
are written per client, so that one of each with several edits meets the races
(the theorems are for any number of both). One fault gives a second stream, and
so an old handler next to a new one, dead entries in `cxnsMap` and sends to streams that are gone. Two edits are a policy
that is created, and then changed, deleted or moved out of the served modes, with
the messages of both versions on their way at once. Two requests can read before and after a reconcile and reach the
cache in the other order. Two writers whose writes overlap can change the mode under each other,
and a third write follows on the outcome. Two creations are a pod and a copy of it that has its
sidecar already. A second request after the same one shows what an evaluation leaves behind. The
second signal finds the default behaviour restored. The engine has one HTTP run: the steps of the Envoy server are the same
without the two failures. What a bound could still hide is what the theorems are
for.

Deadlock is not checked in the runs of `PolicySync`, `SendFanout`, `CelRules`,
`Admission` and `AuthzServers`, where the model stops when the edits and faults are used up and
everything is at rest (and, in `SendFanout`, when the process has died or the
call hangs, which `send_fanout_returns` is about).

### Fairness

* `PolicySync`: goroutines that can run do run (the scheduler of Go), the worker
  of the controller takes what is queued, a control plane that stopped is started
  again (its Deployment), and a stream that does not break carries what is sent
  on it. Edits, faults, health checks and the flush need not happen.
* `SendFanout`: the caller and its goroutines run.
* `AuthzServers`: the worker runs, and every waiting name is taken in turn
  (strong fairness per name, since the queue is first in, first out and the worker
  is busy in between).
* `Lifecycle`: goroutines run, a server that was started gets to serve, and to stop
  once it is told to; `Shutdown` and the manager's stop are bounded by timeouts, and
  the calls of Envoy are answered. Failures and signals need not happen, and a
  policy stream need not end: it ends when the sidecar does.
* `PolicySources`: the worker runs.

### Runs that show a disagreement

Each checks one sentence of a document or comment; PROJECT.json (`findings`)
quotes it with its place.

| Run | Property | What happens |
|---|---|---|
| `send_fanout_returns` | `CallReturns` | `SendPolicy` never returns when a client is connected |
| `engine_http_default` | `DeniedByDefault` | all rules null: allowed |
| `sources_broken` | `BrokenPolicyDenies` | a policy that does not compile (it may have been admitted without the webhook, or by an older version of it) switches off all policies of the cluster |

### Exceptions

Several passing properties name the cases in which the code does otherwise; that
they hold says that there are no further ones within what is modelled (Section 6).

* `NoLostUpdate`, `LiveClientsCatchUp`: a policy that is stored and fanned out
  between the snapshot for a stream and its registration (`gap`) is sent to that
  client by nobody.
* `DrainedIsCurrent`: a message that is handled after a newer one of the same
  policy, a deletion included, wins. What is deleted while a sidecar is
  disconnected stays there; `PromiseKept` allows it.
* `EnvoyIsEntered`: an object whose name was given to a controller before, by the
  same object or by one in another namespace, gets no server at any retry. An
  object of type HTTP never gets one, because `runServer` tests the Envoy field
  twice (`ToHttp`, `RunNothing`).
* `deleteInactive` removes a client whose health check arrives between the scan
  and the deletion (`FlushScan`, `FlushDelete`).
* `PolicySources!LoadIsExact`: the key of the cache joins name and version without
  a separator, so that `"p" + "11"` is `"p1" + "1"`. With such names as constants
  the property fails.
* `AnswerIsOfSnapshot`: one external source that cannot be read takes the others
  with it (`LoadExternal`).
* `FileSource!LoadIsExact`, `GoodFilesSurvive`, `SilentLossOnlyByNamesake`: a file of a
  directory is read by its base name, so that it is an error, or the file of that name
  at the root is loaded in its place. `website/docs/quick-start/policy-sources.md:118`
  says that files are loaded "recusively". The properties are about the pipeline. What
  it yields next to an error is then dropped by the composite of the server
  (`sources_broken` has this for a Kubernetes source), so that one document that is not
  valid costs all policies of its mount, where line 123 of the page says that such
  documents are skipped.
* `FailuresAreReported`: `run` combines its errors before its goroutines have ended.
* `SetupErrorStops`: when the manager of the HTTP server cannot be created after
  the listener was started, the deferred wait comes before the deferred cancel,
  and the command waits for a signal.
* `SignalStops`, `EndOfAServerStops`: a gRPC server waits for its open streams for
  ever, so the control plane stays as long as a sidecar is connected.
* `ResponseIsWhatWasWritten`: a variable that is named more than once holds one
  message, which every builder that is called on it changes. Macros that bind a
  message within an expression are not in the language of the model.
* `ResultIsDecision`: the order of policies is the one of `Load`;
  `website/docs/policies/http-policy-breakdown.md:188` calls it random.
* `NothingOutlivesTheCommand`: about the goroutines of the wait group. Those of
  `sendHealthChecks` and `SendPolicy` belong to nobody and end with the process.
* `FailsOnlyForTheRequest`: the MCP getters other than the one for strings declare
  other argument types than they convert to (the documented
  `GetIntArgument("count", 0)`, `website/docs/cel-extensions/mcp.md:121`, does not
  compile, and what compiles fails); a parser given something else than a string, such
  as the bytes of the body of an HTTP request, fails, because it is declared for `dyn`;
  so does a call with a value from JSON where another type is declared, because the type
  of what `unmarshal` yields is `dyn` (`PassesJson`); a status code that is no `int32`;
  metadata with a value that JSON has no form for; an empty key for a token; and a token
  with an audience that is decoded with a key. In the run each of these happens: without
  any one of them the property is violated.
* `ReplicaDecidesAlike`: a policy without failure policy is Fail in the cluster
  and Ignore in a sidecar.
* `StoredPoliciesCompile`: a webhook looks at its own mode only, and one that may
  be skipped is.
* `InjectionOnlyAdds`: fields that are newer than the injector are removed from the
  pod.

## 4. Proofs

For every value of the constants that satisfies the named assumptions: bounds are
natural numbers, modes and kinds are the ones that exist, the streams that one call
meets are finitely many (`ConnectionsAssumption`), policies, pods and sidecars are
of their API types (`ObjectsAssumption`), and trees of files, expressions and requests
are what Section 2 says of them. TLC evaluates these assumptions in the runs.

| Module | Theorem | States | Inductive invariant |
|---|---|---|---|
| `PolicySync_proofs` | `TypeCorrect` | `TypeOK` | itself |
| | `StoreAgrees` | `StoredIsCurrentOrPending` | `StoreInv` |
| | `NothingLost` | `NoLostUpdate` | `StreamInv`, `DeliveryInv` |
| | `DrainedHoldsStored` | `DrainedIsCurrent` | `OriginInv`, on top of these |
| | `KeepsThePromise` | `PromiseKept` | `TypeOK`, `OriginInv` |
| | `EndsOnlyLate` | `EndsOnlyWithLateStreams` | `CounterInv` |
| `AuthzServers_proofs` | `TypeCorrect` | `TypeOK` | itself |
| | `EntriesMatch` | `EntriesMatchObjects` | `EntriesInv` |
| | `StopsItsOwn` | `StopsOnlyItsOwn`, an action property | `TypeOK` |
| `PolicyEngine_proofs` | `TypeCorrect`, `DecisionIsComputed`, `NeverAllowedAgainst`, `EvaluationStops` | `TypeOK`, `ResultIsDecision`, `AllowedOnlyUnopposed`, `StopsAtVerdict` | `EngineInv` |
| `PolicySources_proofs` | `SourceFollows` | `KnownOrPending` | `SourceInv` |
| | `CacheIsExact` | `LoadIsExact`, if `KeysDistinct` | `CacheInv` |
| | `TypeCorrect` | `TypeOK` | `TypeInv` |
| | `CacheDiscards` | `StaleIsDiscarded` | `TypeInv` with the property |
| | `SnapshotIsAnswered` | `AnswerIsOfSnapshot`, if `KeysDistinct` | `CacheInv`, `TypeInv`, `AnswerInv` |
| `Lifecycle_proofs` | `NothingIsLeft`, `ErrorsAreReturned` | `NothingOutlivesTheCommand`, `FailuresAreReported` | `TypeOK`, `ExitInv` |
| `Admission_proofs` | `WebhooksGuard` | `StoredPoliciesCompile` | `WriteInv` |
| | `ReplicasDecideAlike` | `ReplicaDecidesAlike` | `WriteInv`, `ReplicaInv` |
| | `InjectorOnlyAdds` | `InjectionOnlyAdds` | `InjectionInv` |
| `FileSource_proofs` | `PipelineIsExact`, `OneBadFileCostsItself`, `NoErrorNoLoss`, `FileSourceTypes` | `LoadIsExact`, `GoodFilesSurvive`, `SilentLossOnlyByNamesake`, `TypeOK` | `TypeInv`, `WalkInv`, `ReadInv` |
| `CelRules_proofs` | `FailuresAreTheRequests` | `FailsOnlyForTheRequest` | `FramesInv`, `CacheInv` |
| | `AnswersRepeat` | `EvaluationIsRepeatable` | `RepeatInv`, on top of these |

The arguments, and why the properties do not do by themselves:

* Replication. `StoreAgrees` has to know that what the reconcile in progress has
  read is still current, or that its name is queued again. `NothingLost` follows
  the policy from the store to the client: what is stored is in `sends`, or was
  fanned out to every stream that was registered then; a handler that has taken
  its snapshot has every stored policy in flight, handled, or in `gap`; stream
  numbers only grow, so that a handler beyond the client's stream does not exist;
  what is sent has a version no newer than what is stored. `DrainedHoldsStored`
  adds where things come from: everything that reconciler, sender, goroutines and
  listeners have of a policy is a version that is no newer than what the API
  server, the reconcile and the store have, and equal to it if the version numbers
  are (`Known`). So a client whose last message was its newest has the stored
  policy and not another one of that number.
* The refinement goes step by step. What is in transit in `Replication` is the
  union of three sets of goroutines, so the proof first says what a step does to
  that union (`InTransit`, `InTransitNext`); then every action of `PolicySync` is
  shown to be `Publish`, `Resend`, `Deliver`, `RestartClient`, `Crash`, `Lose`, or no step. That
  a store never goes back to an older revision needs `OriginInv`.
* `SendPolicy`: no goroutine calls `wg.Done`, so the counter stays what `wg.Add`
  made it. It is 0 only if there was no stream then, and with an empty map and no
  late stream no goroutine is started. The finiteness of the set of streams is
  what makes 0 the size of the empty set only.
* The controller: as for the store, a reconcile works with the object as it is, or
  the object is queued again; and it gets to `runHttpServer` with an Envoy object
  only, since `runServer` tests that field twice.
* The engine: `EngineInv` says what each position in the three loops has
  established about the conditions, rules and policies before it; the decision is
  defined without loops, by quantifiers. The answer is related to the decision
  when it is given.
* The sources: the read buffer holds under each key a policy that was compiled
  from a version with that key, and the write buffer is empty whenever the lock is
  free. `KeysDistinct` says that name and version written together tell objects
  apart; without it `CacheIsExact` is false (see above), while `TypeCorrect` and
  `CacheDiscards` do not need it. `TypeInv` has that nobody holds a version
  before it was written, and that the cache and the requests hold only what
  compiles: a policy that does not compile has no verdict, and an answer made of
  one no type. The first verdict of a list is a choice; that it exists is a
  property of the natural numbers (`LeastExists`, `GreatestExists`), taken from
  their well-foundedness. `AnswerInv` has for each request that its external
  policies are those of the `Once`s, which never change again, and that its error
  tells whether something it read does not compile.
* The lifecycle: the argument is about the text of the commands. In the setup
  sequence of every command line, every goroutine is started after the wait for
  it was deferred (`Guarded`, `CommandsAreGuarded`). So at each step nothing has
  been started yet, or the wait is on the stack; it is run before the command
  returns, and from then on the errors are final.
* Admission: a write that is admitted so far was looked at by each webhook that has
  answered (`ReviewedOnce`), and is committed only when none is waited for; what
  other writers commit meanwhile does not change it. `MessageKeeps` says what
  comes back from `FromProto(ToProto(p))` for any policy; `ReplicaInv` that what a
  sidecar holds was made in this way of a policy that was stored. A pod may be a
  copy of one that was injected before, so `InjectionInv` types everything that
  was ever created.
* Files. `WalkInv`: the walk is at a position of the tree; what is still to be visited
  is, in order, what comes after it and lies in directories that are open, and what is
  listed is what comes before it, up to files that changed; or a directory could not be
  read, which ends the walk. `ReadInv`: of the files that were found, a prefix is read,
  and the documents so far are what the files at the root with these names have; and
  whatever happens to the others, a file at the root that stays is listed or its
  documents are read. The last stages are compared with their definition by sets
  and order through lemmas about `Only`, a filter, and `FlattenSeq`: what they have as
  members, how they go together with concatenation, and that the order is kept.
* Expressions. `FramesInv` says that the checker is right about the evaluator: in every
  frame, the stack has at each place a value of the type that the checker computed
  for this place before the instruction that is next, or a JSON value of any type where
  that type is `dyn`; the frame below waits at the instruction that names the variable above
  it; and what the lazy map holds has the type of its variable. No value has the type
  `dyn`, so that a mismatch comes only from what the libraries declare and from
  what a body has where the checker has `dyn`. The
  lemmas on the tables (`EnvoySound`, `HttpSound`, `McpSound`, `JwtSound`) compare what
  each library declares with what it converts to: they agree for all functions but the
  ones that the exceptions name. `CallTypes` puts the two together; what is left are
  values of the right types that cannot be converted (`ConversionExplained`), and the
  errors of the calls themselves (`CallExplained`).
* Answers. The parts of an evaluation that matter are a state, `Step` is a function on
  states, and every action of the evaluator is shown to take `Step` (`Goes`, `Ends`).
  `RepeatInv` says that the current state, and every answer that was given, is at the
  end of a sequence of such states from the same beginning. Two of these agree as far
  as both go, and the first end stops them. That the beginning is the same is what
  `setupVariables` is for: it is false if the lazy map outlives a request.

Induction over numbers and over sequences is a theorem about sets here
(`NumbersInduct`, `SequencesInduct`), from the least element of a set of numbers, so
that it needs no operator as a parameter. The same gives that a function which is
defined by recursion over numbers exists and has the values it is written with
(`RecursionExists`, `FlattenIs`).

Only model-checked:

* all liveness: fairness and ENABLED are out of the prover's reach;
* `ResponseIsWhatWasWritten`: it compares two heaps, whose references differ, and needs
  that an expression which names a variable is evaluated once, that no two values that
  are still to be used share a message, that no literal stands for a message, and for
  each function of the libraries that it keeps all of this. The invariant is known in this outline; it is not written down or proved.

## 5. Status and plan

The models are done. All the safety properties of the passing runs, and the
refinement, are theorems, except `ResponseIsWhatWasWritten`.

Worth doing next: that theorem; what a step may do to the parts that the invariants
above leave open, as further action properties (a sidecar's resource changes only to
what a message for it says; a committed write is the one that was reviewed); proofs
that are shorter where steps repeat.

## 6. Not modelled, and why

The grammar and the standard functions of CEL, the verification of signatures,
the syntax of JSON and YAML, image data and cluster resources in rules (libraries;
their outcomes are modelled); OCI, Git and registries (I/O; their failures are
modelled); metrics, the answers of probes, logging, flags, TLS, headers of
answers and the functions of the output expression; generated code and the parts
of the SDK that no server is built from. Several control planes behind one
address: with leader election only the leader reconciles while all of them accept
streams, which the repository leaves to the cluster. The source that the control
plane feeds is never handed to the engine of a sidecar, so that there is nothing
to compose of the two. Durations are abstracted everywhere.
