------------------------------ MODULE Lifecycle ------------------------------
(***************************************************************************)
(* The life of one process of the plugin: the commands under               *)
(* pkg/commands, the signal handling of pkg/signals, and the servers of    *)
(* pkg/server, pkg/probes and pkg/control-plane they run.                  *)
(*                                                                         *)
(* Every command is a sequence of setup steps: a call that may fail, a     *)
(* call whose failure ends the process at once, a goroutine that joins the *)
(* wait group, the wait for the cache, a deferred call.  Deferred calls    *)
(* are a stack, because their order decides whether a command ends: a      *)
(* deferred group.Wait that runs before the deferred cancel waits for      *)
(* goroutines nobody has told to stop.                                     *)
(***************************************************************************)
EXTENDS Naturals, Sequences, FiniteSets

CONSTANTS
  Deployments,  \* the command lines: records [command, controlPlane, kube]
  MaxRpcs,      \* bound: calls and streams that are open at a grpc server
  MaxSignals    \* bound: SIGINT and SIGTERM the process is sent

Commands == {"envoy-authz-server", "http-authz-server", "control-plane",
             "envoy-validation-webhook", "http-validation-webhook",
             "sidecar-injector", "run"}

Tasks == {"listener", "manager", "probes", "server", "monitor"}

ASSUME DeploymentsAssumption ==
  Deployments \subseteq
    [command : Commands, controlPlane : BOOLEAN, kube : BOOLEAN]
ASSUME BoundsAssumption == MaxRpcs \in Nat /\ MaxSignals \in Nat

VARIABLES
  deployment,  \* the command line of the process
  pc,          \* the setup step it is at
  defers,      \* the stack of deferred calls of the function it is in
  ret,         \* the errors of the return statement, fixed when it runs
  phase,       \* "setup", "deferred", "stopping", "exited" or "killed"
  exit,        \* the errors the command returns
  cancelled,   \* the command's own context is cancelled
  sig,         \* the signal aware context is cancelled
  handler,     \* what a signal does: "notify" or "default"
  watcher,     \* the goroutine of signals.Do: "waiting" or "ended"
  task,        \* status of every goroutine of the wait group
  failed,      \* the goroutines whose error variable is set
  synced,      \* the manager's caches have synced
  rpcs,        \* calls and streams open at the grpc server
  signals      \* signals sent so far

vars == <<deployment, pc, defers, ret, phase, exit, cancelled, sig, handler,
          watcher, task, failed, synced, rpcs, signals>>
setupVars == <<deployment, pc, defers, ret, phase, exit>>
ctxVars == <<cancelled, sig, handler, watcher, signals>>
taskVars == <<task, failed, synced, rpcs>>

(***************************************************************************)
(* The commands.                                                           *)
(***************************************************************************)
Try(what) == [op |-> "try", what |-> what]
Fatal(what) == [op |-> "fatal", what |-> what]
Defer(call) == [op |-> "defer", what |-> call]
Start(t) == [op |-> "start", what |-> t]
Sync == [op |-> "sync", what |-> "cache"]

\* getExternalProviders: a URL that no file system serves is an error.
ExternalProviders == <<Try("external")>>

\* The clients, the registry options (log.Fatalf) and the external sources.
SourcesSetup == <<Try("clients"), Fatal("registry")>> \o ExternalProviders

\* Faulty variant: without its wait group, a goroutine is left behind.
EnvoyAuthzUnwaited(kube) ==
  <<Try("config"), Defer("cancel")>> \o SourcesSetup
  \o (IF kube THEN <<Try("manager"), Start("manager"), Sync>> ELSE <<>>)
  \o <<Start("probes"), Start("server")>>

EnvoyAuthz(kube) ==
  <<Try("config"), Defer("cancel"), Defer("wait")>> \o SourcesSetup
  \o (IF kube THEN <<Try("manager"), Start("manager"), Sync>> ELSE <<>>)
  \o <<Start("probes"), Start("server")>>

\* The listener is started before the steps for the manager, which may fail.
HttpAuthz(controlPlane, kube) ==
  <<Try("config"), Defer("cancel"), Defer("wait")>> \o SourcesSetup
  \o (IF controlPlane THEN <<Fatal("POD_IP"), Start("listener")>> ELSE <<>>)
  \o (IF kube THEN <<Try("manager"), Start("manager"), Sync>> ELSE <<>>)
  \o <<Start("probes"), Start("server")>>

\* Faulty variant: the probes are served before the manager is created.
ControlPlaneProbesFirst ==
  <<Try("config"), Defer("cancel"), Defer("wait"), Start("probes"),
    Try("manager"), Start("manager"), Sync, Start("server"),
    Start("monitor")>>

ControlPlane ==
  <<Try("config"), Defer("cancel"), Defer("wait"), Try("manager"),
    Start("manager"), Sync, Start("probes"), Start("server"),
    Start("monitor")>>

\* There is no deferred cancel: the goroutines cancel the context.
EnvoyWebhook ==
  <<Try("config"), Defer("wait"), Try("manager"), Try("webhook"),
    Start("manager"), Start("probes")>>

HttpWebhook ==
  <<Try("config"), Defer("wait"), Try("manager"), Try("webhook"),
    Start("manager"), Start("probes")>>

\* The server runs in the callback itself: it is started and waited for.
SidecarInjector == <<Try("sidecar"), Defer("wait"), Start("server")>>

\* loadConfig, createManager and setup come before the function run().
RunSetup == <<Try("config"), Try("manager"), Try("setup")>>
Run == <<Defer("cancel"), Defer("wait"), Start("manager"), Sync,
         Start("probes")>>

Steps(d) ==
  CASE d.command = "envoy-authz-server" -> EnvoyAuthz(d.kube)
    [] d.command = "http-authz-server" -> HttpAuthz(d.controlPlane, d.kube)
    [] d.command = "control-plane" -> ControlPlane
    [] d.command = "envoy-validation-webhook" -> EnvoyWebhook
    [] d.command = "http-validation-webhook" -> HttpWebhook
    [] d.command = "sidecar-injector" -> SidecarInjector
    [] d.command = "run" -> RunSetup \o Run

Step == Steps(deployment)[pc]
At(op) == phase = "setup" /\ pc <= Len(Steps(deployment)) /\ Step.op = op

\* The context of the goroutines: a child of the signal aware one.
Done == cancelled \/ sig

Over == phase \in {"exited", "killed"}

\* The goroutines that call cancel when they end.
Cancels(t) ==
  /\ t \in {"manager", "probes", "server"}
  /\ deployment.command # "sidecar-injector"

IsGrpc(t) ==
  t = "server" /\ deployment.command \in {"envoy-authz-server", "control-plane"}
IsHttp(t) == t \in {"probes", "server"} /\ ~IsGrpc(t)

Init ==
  /\ deployment \in Deployments
  /\ pc = 1 /\ defers = <<>> /\ ret = {} /\ phase = "setup" /\ exit = {}
  /\ cancelled = FALSE /\ sig = FALSE /\ signals = 0
  /\ handler = "notify" /\ watcher = "waiting"
  /\ task = [t \in Tasks |-> "none"] /\ failed = {} /\ synced = FALSE
  /\ rpcs = 0

(***************************************************************************)
(* Setup.                                                                  *)
(***************************************************************************)
Return(errors) ==
  /\ ret' = errors
  /\ phase' = "deferred"

TryStep ==
  /\ At("try")
  /\ \/ pc' = pc + 1 /\ UNCHANGED <<ret, phase>>
     \/ Return({Step.what}) /\ UNCHANGED pc
  /\ UNCHANGED <<deployment, defers, exit, ctxVars, taskVars>>

\* log.Fatalf and panic: the process ends with everything that runs in it.
FatalStep ==
  /\ At("fatal")
  /\ \/ pc' = pc + 1 /\ UNCHANGED phase
     \/ phase' = "killed" /\ UNCHANGED pc
  /\ UNCHANGED <<deployment, defers, ret, exit, ctxVars, taskVars>>

DeferStep ==
  /\ At("defer")
  /\ defers' = <<Step.what>> \o defers
  /\ pc' = pc + 1
  /\ UNCHANGED <<deployment, ret, phase, exit, ctxVars, taskVars>>

StartStep ==
  /\ At("start")
  /\ task' = [task EXCEPT ![Step.what] =
                IF Step.what \in {"listener", "monitor"} THEN "serving"
                ELSE "starting"]
  /\ pc' = pc + 1
  /\ UNCHANGED <<deployment, defers, ret, phase, exit, ctxVars,
                 failed, synced, rpcs>>

\* WaitForCacheSync: true once the caches are synced, false once the context
\* is done, either when both hold.
SyncStep ==
  /\ At("sync")
  /\ \/ synced /\ pc' = pc + 1 /\ UNCHANGED <<defers, ret, phase>>
     \/ /\ Done /\ Return({"cache"})
        /\ defers' = <<"cancel">> \o defers
        /\ UNCHANGED pc
  /\ UNCHANGED <<deployment, exit, ctxVars, taskVars>>

\* The commands return nil; run() combines what the error variables hold now,
\* read without synchronisation with the goroutines that write them.
StepsEnd ==
  /\ phase = "setup" /\ pc > Len(Steps(deployment))
  /\ \E seen \in IF deployment.command = "run" THEN SUBSET failed ELSE {{}} :
       Return(seen)
  /\ UNCHANGED <<deployment, pc, defers, exit, ctxVars, taskVars>>

(***************************************************************************)
(* The way out: the deferred calls, then the rest of signals.Do.           *)
(***************************************************************************)
Waited == \A t \in Tasks : task[t] \in {"none", "ended"}

Deferred ==
  /\ phase = "deferred" /\ defers # <<>>
  /\ CASE Head(defers) = "cancel" -> cancelled' = TRUE
       [] Head(defers) = "wait" -> Waited /\ UNCHANGED cancelled
  /\ defers' = Tail(defers)
  /\ UNCHANGED <<deployment, pc, ret, phase, exit, sig, handler, watcher,
                 signals, taskVars>>

\* Faulty variant: the errors are combined before the goroutines are waited for.
CombineEarly == ret

\* multierr.Combine after the inner function has returned.  connErr, the
\* error of the listener, is not combined, and run() has combined already.
Combine == IF deployment.command = "run" THEN ret ELSE ret \cup failed

CallbackReturns ==
  /\ phase = "deferred" /\ defers = <<>>
  /\ exit' = Combine
  /\ phase' = "stopping"
  /\ sig' = TRUE /\ handler' = "default"
  /\ UNCHANGED <<deployment, pc, defers, ret, cancelled, watcher, signals,
                 taskVars>>

DoReturns ==
  /\ phase = "stopping" /\ watcher = "ended"
  /\ phase' = "exited"
  /\ UNCHANGED <<deployment, pc, defers, ret, exit, ctxVars, taskVars>>

WatcherStops ==
  /\ watcher = "waiting" /\ sig
  /\ watcher' = "ended"
  /\ handler' = "default"
  /\ UNCHANGED <<setupVars, cancelled, sig, signals, taskVars>>

Signal ==
  /\ ~Over /\ signals < MaxSignals
  /\ signals' = signals + 1
  /\ \/ handler = "notify" /\ sig' = TRUE /\ UNCHANGED phase
     \/ handler = "default" /\ phase' = "killed" /\ UNCHANGED sig
  /\ UNCHANGED <<deployment, pc, defers, ret, exit, cancelled, handler,
                 watcher, taskVars>>

(***************************************************************************)
(* The goroutines.  "draining" is the time between the end of serving and  *)
(* the return of the server: Shutdown, GracefulStop, the manager's stop.   *)
(***************************************************************************)
Alive(t, statuses) == ~Over /\ task[t] \in statuses

\* Faulty variant: the goroutine does not cancel the context.
EndsQuietly(t) ==
  /\ task' = [task EXCEPT ![t] = "ended"]
  /\ UNCHANGED cancelled

Ends(t) ==
  /\ task' = [task EXCEPT ![t] = "ended"]
  /\ cancelled' = (cancelled \/ Cancels(t))

\* controller-runtime: caches sync once the manager runs.
ManagerServes ==
  /\ Alive("manager", {"starting"})
  /\ task' = [task EXCEPT !["manager"] = "serving"]
  /\ synced' = TRUE
  /\ UNCHANGED <<setupVars, ctxVars, failed, rpcs>>

\* It fails at any time (lost lease, metrics port), and stops when told to.
ManagerStops ==
  /\ Alive("manager", {"starting", "serving"})
  /\ \/ failed' = failed \cup {"manager"}
     \/ Done /\ UNCHANGED failed
  /\ task' = [task EXCEPT !["manager"] = "draining"]
  /\ UNCHANGED <<setupVars, ctxVars, synced, rpcs>>

\* Its stop is bounded by a timeout, which is an error.
ManagerEnds ==
  /\ Alive("manager", {"draining"})
  /\ Ends("manager")
  /\ failed' \in {failed, failed \cup {"manager"}}
  /\ UNCHANGED <<setupVars, sig, handler, watcher, signals, synced, rpcs>>

\* The environment, the input and the output expression are compiled when
\* the HTTP authorization server starts, not when its flags are read.
ServerBuildFails ==
  /\ deployment.command = "http-authz-server"
  /\ Alive("server", {"starting"})
  /\ Ends("server")
  /\ failed' = failed \cup {"server"}
  /\ UNCHANGED <<setupVars, sig, handler, watcher, signals, synced, rpcs>>

HttpServes(t) ==
  /\ IsHttp(t) /\ Alive(t, {"starting"})
  /\ task' = [task EXCEPT ![t] = "serving"]
  /\ UNCHANGED <<setupVars, ctxVars, failed, synced, rpcs>>

\* ListenAndServe returns an error; the deferred cancel starts the shutdown.
HttpFails(t) ==
  /\ IsHttp(t) /\ Alive(t, {"starting", "serving"})
  /\ task' = [task EXCEPT ![t] = "draining"]
  /\ failed' = failed \cup {t}
  /\ UNCHANGED <<setupVars, ctxVars, synced, rpcs>>

\* Faulty variant: the shutdown is not started by the context.
HttpServesOn(t) ==
  /\ IsHttp(t) /\ Alive(t, {"starting"}) /\ Done
  /\ task' = [task EXCEPT ![t] = "draining"]
  /\ UNCHANGED <<setupVars, ctxVars, failed, synced, rpcs>>

\* The context is done: Shutdown makes ListenAndServe return ErrServerClosed,
\* also when it is called only afterwards.
HttpShutdown(t) ==
  /\ IsHttp(t) /\ Alive(t, {"starting", "serving"}) /\ Done
  /\ task' = [task EXCEPT ![t] = "draining"]
  /\ UNCHANGED <<setupVars, ctxVars, failed, synced, rpcs>>

\* Shutdown waits ten seconds for the open requests, then returns an error.
HttpEnds(t) ==
  /\ IsHttp(t) /\ Alive(t, {"draining"})
  /\ Ends(t)
  /\ failed' \in {failed, failed \cup {t}}
  /\ UNCHANGED <<setupVars, sig, handler, watcher, signals, synced, rpcs>>

\* net.Listen fails in NewServer of the control plane and of the Envoy server.
GrpcListenFails(t) ==
  /\ IsGrpc(t) /\ Alive(t, {"starting"})
  /\ Ends(t)
  /\ failed' = failed \cup {t}
  /\ UNCHANGED <<setupVars, sig, handler, watcher, signals, synced, rpcs>>

GrpcServes(t) ==
  /\ IsGrpc(t) /\ Alive(t, {"starting"})
  /\ task' = [task EXCEPT ![t] = "serving"]
  /\ UNCHANGED <<setupVars, ctxVars, failed, synced, rpcs>>

\* GracefulStop before Serve: Serve returns ErrServerStopped.
GrpcStopsFirst(t) ==
  /\ IsGrpc(t) /\ Alive(t, {"starting"}) /\ Done
  /\ Ends(t)
  /\ failed' = failed \cup {t}
  /\ UNCHANGED <<setupVars, sig, handler, watcher, signals, synced, rpcs>>

GrpcFails(t) ==
  /\ IsGrpc(t) /\ Alive(t, {"serving"})
  /\ task' = [task EXCEPT ![t] = "draining"]
  /\ failed' = failed \cup {t}
  /\ UNCHANGED <<setupVars, ctxVars, synced, rpcs>>

GrpcGracefulStop(t) ==
  /\ IsGrpc(t) /\ Alive(t, {"serving"}) /\ Done
  /\ task' = [task EXCEPT ![t] = "draining"]
  /\ UNCHANGED <<setupVars, ctxVars, failed, synced, rpcs>>

\* GracefulStop has no timeout: it waits for every open call and stream.
GrpcEnds(t) ==
  /\ IsGrpc(t) /\ Alive(t, {"draining"}) /\ rpcs = 0
  /\ Ends(t)
  /\ UNCHANGED <<setupVars, sig, handler, watcher, signals, failed, synced,
                 rpcs>>

RpcOpens ==
  /\ IsGrpc("server") /\ Alive("server", {"serving"}) /\ rpcs < MaxRpcs
  /\ rpcs' = rpcs + 1
  /\ UNCHANGED <<setupVars, ctxVars, task, failed, synced>>

RpcEnds ==
  /\ ~Over /\ rpcs > 0
  /\ rpcs' = rpcs - 1
  /\ UNCHANGED <<setupVars, ctxVars, task, failed, synced>>

\* The loop that restarts the listener ends at the latest after a sleep of
\* ten seconds; a failed connection is retried and never ends it.
ListenerEnds ==
  /\ Alive("listener", {"serving"}) /\ Done
  /\ Ends("listener")
  /\ UNCHANGED <<setupVars, sig, handler, watcher, signals, failed, synced,
                 rpcs>>

MonitorEnds ==
  /\ Alive("monitor", {"serving"}) /\ Done
  /\ Ends("monitor")
  /\ UNCHANGED <<setupVars, sig, handler, watcher, signals, failed, synced,
                 rpcs>>

Setup == TryStep \/ FatalStep \/ DeferStep \/ StartStep \/ SyncStep \/ StepsEnd
WayOut == Deferred \/ CallbackReturns \/ DoReturns

Next ==
  \/ Setup \/ WayOut \/ WatcherStops \/ Signal
  \/ ManagerServes \/ ManagerStops \/ ManagerEnds
  \/ ServerBuildFails
  \/ \E t \in {"probes", "server"} :
       HttpServes(t) \/ HttpFails(t) \/ HttpShutdown(t) \/ HttpEnds(t)
  \/ \E t \in {"server"} :
       \/ GrpcListenFails(t) \/ GrpcServes(t) \/ GrpcStopsFirst(t)
       \/ GrpcFails(t) \/ GrpcGracefulStop(t) \/ GrpcEnds(t)
  \/ RpcOpens \/ RpcEnds \/ ListenerEnds \/ MonitorEnds
  \/ Over /\ UNCHANGED vars

\* Goroutines run, servers get to serve and to stop, and the calls of Envoy
\* are answered.  Failures, signals, new calls and the end of a policy stream
\* are nobody's duty.
Fairness ==
  /\ WF_vars(Setup) /\ WF_vars(WayOut) /\ WF_vars(WatcherStops)
  /\ WF_vars(ManagerServes) /\ WF_vars(ManagerEnds)
  /\ WF_vars(Done /\ ManagerStops)
  /\ \A t \in {"probes", "server"} :
       WF_vars(HttpServes(t)) /\ WF_vars(HttpShutdown(t)) /\ WF_vars(HttpEnds(t))
  /\ WF_vars(GrpcServes("server")) /\ WF_vars(GrpcGracefulStop("server"))
  /\ WF_vars(GrpcEnds("server"))
  /\ WF_vars(deployment.command = "envoy-authz-server" /\ RpcEnds)
  /\ WF_vars(ListenerEnds) /\ WF_vars(MonitorEnds)

Spec == Init /\ [][Next]_vars /\ Fairness

-----------------------------------------------------------------------------
(***************************************************************************)
(* Properties.                                                             *)
(***************************************************************************)
\* Every variable has its type.
TypeOK ==
  /\ deployment \in Deployments
  /\ pc \in 1 .. Len(Steps(deployment)) + 1
  /\ defers \in Seq({"cancel", "wait"})
  /\ phase \in {"setup", "deferred", "stopping", "exited", "killed"}
  /\ handler \in {"notify", "default"} /\ watcher \in {"waiting", "ended"}
  /\ cancelled \in BOOLEAN /\ sig \in BOOLEAN /\ synced \in BOOLEAN
  /\ task \in [Tasks -> {"none", "starting", "serving", "draining", "ended"}]
  /\ failed \subseteq Tasks
  /\ rpcs \in 0 .. MaxRpcs /\ signals \in 0 .. MaxSignals

\* When a command returns, from wherever in its setup, every goroutine it has
\* started has ended ("wait all tasks in the group are over").
NothingOutlivesTheCommand ==
  phase \in {"stopping", "exited"} => Waited

\* A serve command that returns reports the error of every server and manager
\* that failed, whenever it failed.  run() is the exception: its return
\* statement is evaluated before its goroutines are waited for, so that only
\* what its setup step returned is sure to be reported.
FailuresAreReported ==
  phase = "exited" =>
    /\ ret \subseteq exit
    /\ deployment.command # "run" => failed \subseteq exit

\* A process that is told to stop does, once the clients of its grpc server
\* are gone: GracefulStop waits for the policy streams for ever.
SignalStops == <>[](rpcs = 0) => (sig ~> Over)

\* A server or manager that ends takes the others and the process with it:
\* no process is left that answers its probes and serves nothing.
EndOfAServerStops ==
  <>[](rpcs = 0) =>
    \A t \in {"manager", "probes", "server"} : (task[t] = "ended") ~> Over

\* The deferred wait runs before the deferred cancel, and nobody else cancels.
HeldByListener ==
  /\ phase = "deferred" /\ ret # {} /\ ~Done
  /\ task["listener"] = "serving"

\* A setup step that fails ends the command.  The one exception is a failure
\* after the listener was started: the command then waits for the listener,
\* which waits for a signal.
SetupErrorStops == (phase = "deferred" /\ ret # {}) ~> (Over \/ HeldByListener)
=============================================================================
