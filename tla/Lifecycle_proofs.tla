--------------------------- MODULE Lifecycle_proofs ---------------------------
(***************************************************************************)
(* Proofs of the safety properties of Lifecycle, for every set of command  *)
(* lines.                                                                  *)
(***************************************************************************)
EXTENDS Lifecycle, TLAPS

-----------------------------------------------------------------------------
(* The commands *)

Calls == {"cancel", "wait"}
Reasons == {"config", "clients", "registry", "external", "manager", "POD_IP", "webhook",
            "sidecar", "setup"}

\* The setup steps that there are.
SetupSteps ==
  [op : {"try", "fatal"}, what : Reasons] \cup [op : {"defer"}, what : Calls]
  \cup [op : {"start"}, what : Tasks] \cup {Sync}

\* The steps of a sequence that starts a goroutine come after the one that defers the
\* wait for it.
Guarded(s) ==
  /\ s \in Seq(SetupSteps)
  /\ \E w \in 1..Len(s) : /\ s[w] = Defer("wait")
                          /\ \A i \in 1..Len(s) : s[i].op = "start" => w < i

\* The steps are steps.
LEMMA StepTypes ==
  /\ \A x \in Reasons : Try(x) \in SetupSteps /\ Fatal(x) \in SetupSteps
  /\ \A x \in Calls : Defer(x) \in SetupSteps
  /\ \A t \in Tasks : Start(t) \in SetupSteps
  /\ Sync \in SetupSteps
BY DEF Try, Fatal, Defer, Start, Sync, SetupSteps

\* A sequence stays guarded when steps follow.
LEMMA GuardedAppend ==
  ASSUME NEW s, Guarded(s), NEW rest \in Seq(SetupSteps)
  PROVE  Guarded(s \o rest)
<1> DEFINE t == s \o rest
<1>1. PICK w \in 1..Len(s) : /\ s[w] = Defer("wait")
                             /\ \A i \in 1..Len(s) : s[i].op = "start" => w < i
  BY DEF Guarded
<1>2. s \in Seq(SetupSteps)
  BY DEF Guarded
<1>3. /\ t \in Seq(SetupSteps) /\ Len(t) = Len(s) + Len(rest)
      /\ \A i \in 1..Len(s) : t[i] = s[i]
  BY <1>2
<1>4. Len(s) \in Nat /\ Len(rest) \in Nat
  BY <1>2
<1> HIDE DEF t
<1>5. w \in 1..Len(t) /\ t[w] = Defer("wait")
  BY <1>1, <1>3, <1>4
<1>6. ASSUME NEW i \in 1..Len(t), t[i].op = "start" PROVE w < i
  <2>1. CASE i \in 1..Len(s)
    BY <1>1, <1>3, <1>6, <2>1
  <2>2. CASE i \notin 1..Len(s)
    BY <1>3, <1>4, <2>2
  <2>. QED  BY <2>1, <2>2
<1>. QED  BY <1>3, <1>5, <1>6 DEF Guarded, t

\* The three ways in which a command begins.
LEMMA GuardedBeginnings ==
  ASSUME NEW x \in Reasons, NEW y \in Reasons, NEW z \in Reasons
  PROVE  /\ Guarded(<<Try(x), Defer("wait")>>)
         /\ Guarded(<<Try(x), Defer("cancel"), Defer("wait")>>)
         /\ Guarded(<<Try(x), Try(y), Try(z), Defer("cancel"), Defer("wait")>>)
<1>0. /\ Try(x) \in SetupSteps /\ Try(y) \in SetupSteps /\ Try(z) \in SetupSteps
      /\ Defer("cancel") \in SetupSteps /\ Defer("wait") \in SetupSteps
  BY StepTypes DEF Calls
<1>1. Guarded(<<Try(x), Defer("wait")>>)
  <2> DEFINE s == <<Try(x), Defer("wait")>>
  <2>1. s \in Seq(SetupSteps) /\ Len(s) = 2 /\ s[2] = Defer("wait")
    BY <1>0
  <2>2. s[1].op = "try" /\ s[2].op = "defer"
    BY DEF Try, Defer
  <2> HIDE DEF s
  <2>3. \A i \in 1..Len(s) : i = 1 \/ i = 2
    BY <2>1
  <2>. QED  BY <2>1, <2>2, <2>3 DEF Guarded, s
<1>2. Guarded(<<Try(x), Defer("cancel"), Defer("wait")>>)
  <2> DEFINE s == <<Try(x), Defer("cancel"), Defer("wait")>>
  <2>1. s \in Seq(SetupSteps) /\ Len(s) = 3 /\ s[3] = Defer("wait")
    BY <1>0
  <2>2. s[1].op = "try" /\ s[2].op = "defer" /\ s[3].op = "defer"
    BY DEF Try, Defer
  <2> HIDE DEF s
  <2>3. \A i \in 1..Len(s) : i = 1 \/ i = 2 \/ i = 3
    BY <2>1
  <2>. QED  BY <2>1, <2>2, <2>3 DEF Guarded, s
<1>3. Guarded(<<Try(x), Try(y), Try(z), Defer("cancel"), Defer("wait")>>)
  <2> DEFINE s == <<Try(x), Try(y), Try(z), Defer("cancel"), Defer("wait")>>
  <2>1. s \in Seq(SetupSteps) /\ Len(s) = 5 /\ s[5] = Defer("wait")
    BY <1>0
  <2>2. /\ s[1].op = "try" /\ s[2].op = "try" /\ s[3].op = "try"
        /\ s[4].op = "defer" /\ s[5].op = "defer"
    BY DEF Try, Defer
  <2> HIDE DEF s
  <2>3. \A i \in 1..Len(s) : i = 1 \/ i = 2 \/ i = 3 \/ i = 4 \/ i = 5
    BY <2>1
  <2>. QED  BY <2>1, <2>2, <2>3 DEF Guarded, s
<1>. QED  BY <1>1, <1>2, <1>3

\* Every command waits for what it starts.
LEMMA CommandsAreGuarded ==
  ASSUME NEW d \in Deployments
  PROVE  Guarded(Steps(d))
<1>1. /\ \A t \in Tasks : Start(t) \in SetupSteps
      /\ Try("config") \in SetupSteps /\ Try("clients") \in SetupSteps
      /\ Try("external") \in SetupSteps /\ Try("manager") \in SetupSteps
      /\ Try("webhook") \in SetupSteps /\ Fatal("registry") \in SetupSteps
      /\ Fatal("POD_IP") \in SetupSteps /\ Sync \in SetupSteps
  BY StepTypes DEF Reasons
<1>2. /\ Start("listener") \in SetupSteps /\ Start("manager") \in SetupSteps
      /\ Start("probes") \in SetupSteps /\ Start("server") \in SetupSteps
      /\ Start("monitor") \in SetupSteps
  BY <1>1 DEF Tasks
<1>3. SourcesSetup \in Seq(SetupSteps)
  <2>1. <<Try("clients"), Fatal("registry")>> \in Seq(SetupSteps)
        /\ <<Try("external")>> \in Seq(SetupSteps)
    BY <1>1
  <2>. QED  BY <2>1 DEF SourcesSetup, ExternalProviders
<1>4. /\ <<Try("manager"), Start("manager"), Sync>> \in Seq(SetupSteps)
      /\ <<Fatal("POD_IP"), Start("listener")>> \in Seq(SetupSteps)
      /\ <<Start("probes"), Start("server")>> \in Seq(SetupSteps)
      /\ <<>> \in Seq(SetupSteps)
  BY <1>1, <1>2
<1>5. Guarded(<<Try("config"), Defer("cancel"), Defer("wait")>> \o SourcesSetup)
  BY <1>3, GuardedAppend, GuardedBeginnings DEF Reasons
<1>6. ASSUME NEW k \in BOOLEAN PROVE Guarded(EnvoyAuthz(k))
  BY <1>4, <1>5, GuardedAppend DEF EnvoyAuthz
<1>7. ASSUME NEW c \in BOOLEAN, NEW k \in BOOLEAN PROVE Guarded(HttpAuthz(c, k))
  BY <1>4, <1>5, GuardedAppend DEF HttpAuthz
<1>8. Guarded(ControlPlane)
  <2> DEFINE rest == <<Try("manager"), Start("manager"), Sync, Start("probes"),
                       Start("server"), Start("monitor")>>
  <2>1. rest \in Seq(SetupSteps)
    BY <1>1, <1>2
  <2>2. ControlPlane = <<Try("config"), Defer("cancel"), Defer("wait")>> \o rest
    BY DEF ControlPlane
  <2> HIDE DEF rest
  <2>. QED  BY <2>1, <2>2, GuardedAppend, GuardedBeginnings DEF Reasons
<1>9. Guarded(EnvoyWebhook) /\ Guarded(HttpWebhook)
  <2> DEFINE rest == <<Try("manager"), Try("webhook"), Start("manager"), Start("probes")>>
  <2>1. rest \in Seq(SetupSteps)
    BY <1>1, <1>2
  <2>2. /\ EnvoyWebhook = <<Try("config"), Defer("wait")>> \o rest
        /\ HttpWebhook = <<Try("config"), Defer("wait")>> \o rest
    BY DEF EnvoyWebhook, HttpWebhook
  <2> HIDE DEF rest
  <2>. QED  BY <2>1, <2>2, GuardedAppend, GuardedBeginnings DEF Reasons
<1>10. Guarded(SidecarInjector)
  <2>1. <<Start("server")>> \in Seq(SetupSteps)
    BY <1>2
  <2>2. SidecarInjector = <<Try("sidecar"), Defer("wait")>> \o <<Start("server")>>
    BY DEF SidecarInjector
  <2>. QED  BY <2>1, <2>2, GuardedAppend, GuardedBeginnings DEF Reasons
<1>11. Guarded(RunSetup \o Run)
  <2> DEFINE rest == <<Start("manager"), Sync, Start("probes")>>
  <2>1. rest \in Seq(SetupSteps)
    BY <1>1, <1>2
  <2>2. RunSetup \o Run
          = <<Try("config"), Try("manager"), Try("setup"), Defer("cancel"), Defer("wait")>> \o rest
    BY DEF RunSetup, Run
  <2> HIDE DEF rest
  <2>. QED  BY <2>1, <2>2, GuardedAppend, GuardedBeginnings DEF Reasons
<1>12. d.command \in Commands /\ d.kube \in BOOLEAN /\ d.controlPlane \in BOOLEAN
  BY DeploymentsAssumption
<1>. QED  BY <1>6, <1>7, <1>8, <1>9, <1>10, <1>11, <1>12 DEF Steps, Commands

-----------------------------------------------------------------------------
(* Types *)

\* The steps of a command line have their types.
LEMMA StepsType ==
  ASSUME NEW d \in Deployments
  PROVE  Steps(d) \in Seq(SetupSteps) /\ Len(Steps(d)) \in Nat
<1>1. Steps(d) \in Seq(SetupSteps)
  BY CommandsAreGuarded DEF Guarded
<1>. QED  BY <1>1

\* The step that a process is at is one of them, and names a call or a goroutine where
\* it has to.
LEMMA StepAt ==
  ASSUME TypeOK, NEW op, At(op)
  PROVE  /\ pc \in 1..Len(Steps(deployment)) /\ pc + 1 \in 1..Len(Steps(deployment)) + 1
         /\ Step \in SetupSteps /\ Step.op = op
         /\ op = "defer" => Step.what \in {"cancel", "wait"}
         /\ op = "start" => Step.what \in Tasks
<1>1. Steps(deployment) \in Seq(SetupSteps) /\ Len(Steps(deployment)) \in Nat
  BY StepsType DEF TypeOK
<1>2. pc \in 1..Len(Steps(deployment))
  BY <1>1 DEF At, TypeOK
<1>3. Step \in SetupSteps /\ Step.op = op
  BY <1>1, <1>2 DEF Step, At
<1>4. \A s \in SetupSteps : /\ s.op = "defer" => s.what \in {"cancel", "wait"}
                            /\ s.op = "start" => s.what \in Tasks
  BY DEF SetupSteps, Calls, Sync
<1>. QED  BY <1>1, <1>2, <1>3, <1>4

\* Everything starts in its type.
LEMMA InitType == Init => TypeOK
<1> SUFFICES ASSUME Init PROVE TypeOK
  OBVIOUS
<1>1. deployment \in Deployments
  BY DEF Init
<1>2. Len(Steps(deployment)) \in Nat
  BY <1>1, StepsType
<1>3. 1 \in 1..Len(Steps(deployment)) + 1 /\ <<>> \in Seq({"cancel", "wait"})
  BY <1>2
<1>4. 0 \in 0..MaxRpcs /\ 0 \in 0..MaxSignals
  BY BoundsAssumption
<1>. QED  BY <1>1, <1>3, <1>4 DEF Init, TypeOK

\* The steps of the setup.
LEMMA SetupKeepsType == ASSUME TypeOK, Setup PROVE TypeOK'
<1> USE DEF TypeOK, ctxVars, taskVars, Return
<1>1. CASE TryStep
  BY <1>1, StepAt DEF TryStep
<1>2. CASE FatalStep
  BY <1>2, StepAt DEF FatalStep
<1>3. CASE DeferStep
  <2>1. Step.what \in {"cancel", "wait"}
    BY <1>3, StepAt DEF DeferStep
  <2>2. <<Step.what>> \o defers \in Seq({"cancel", "wait"})
    BY <2>1
  <2>. QED  BY <1>3, <2>2, StepAt DEF DeferStep
<1>4. CASE StartStep
  <2>1. Step.what \in Tasks
    BY <1>4, StepAt DEF StartStep
  <2>. QED  BY <1>4, <2>1, StepAt DEF StartStep
<1>5. CASE SyncStep
  <2>1. <<"cancel">> \o defers \in Seq({"cancel", "wait"})
    OBVIOUS
  <2>. QED  BY <1>5, <2>1, StepAt DEF SyncStep
<1>6. CASE StepsEnd
  BY <1>6 DEF StepsEnd
<1>. QED  BY <1>1, <1>2, <1>3, <1>4, <1>5, <1>6 DEF Setup

\* The way out, and the signals.
LEMMA WayOutKeepsType == ASSUME TypeOK, WayOut \/ WatcherStops \/ Signal PROVE TypeOK'
<1> USE BoundsAssumption DEF TypeOK, setupVars, ctxVars, taskVars
<1>1. CASE Deferred
  <2>1. Head(defers) \in {"cancel", "wait"} /\ Tail(defers) \in Seq({"cancel", "wait"})
    BY <1>1 DEF Deferred
  <2>. QED  BY <1>1, <2>1 DEF Deferred
<1>2. CASE CallbackReturns
  BY <1>2 DEF CallbackReturns
<1>3. CASE DoReturns
  BY <1>3 DEF DoReturns
<1>4. CASE WatcherStops
  BY <1>4 DEF WatcherStops
<1>5. CASE Signal
  <2>1. signals' \in 0..MaxSignals
    BY <1>5 DEF Signal
  <2>. QED  BY <1>5, <2>1 DEF Signal
<1>. QED  BY <1>1, <1>2, <1>3, <1>4, <1>5 DEF WayOut

-----------------------------------------------------------------------------
(* The goroutines *)

\* A step of a goroutine, or of a client of the grpc server.
TaskStep ==
  \/ ManagerServes \/ ManagerStops \/ ManagerEnds
  \/ ServerBuildFails
  \/ \E t \in {"probes", "server"} :
       HttpServes(t) \/ HttpFails(t) \/ HttpShutdown(t) \/ HttpEnds(t)
  \/ \E t \in {"server"} :
       \/ GrpcListenFails(t) \/ GrpcServes(t) \/ GrpcStopsFirst(t)
       \/ GrpcFails(t) \/ GrpcGracefulStop(t) \/ GrpcEnds(t)
  \/ RpcOpens \/ RpcEnds \/ ListenerEnds \/ MonitorEnds

\* A goroutine leaves the state of the command alone, and only one that runs does
\* anything.
LEMMA TaskSteps ==
  ASSUME TypeOK, TaskStep
  PROVE  /\ UNCHANGED <<setupVars, sig, handler, watcher, signals>>
         /\ TypeOK'
         /\ Waited => UNCHANGED <<task, failed>>
<1> USE DEF setupVars, ctxVars, TypeOK, Alive, Ends, Waited, Tasks
<1>1. CASE ManagerServes
  BY <1>1 DEF ManagerServes
<1>2. CASE ManagerStops
  BY <1>2 DEF ManagerStops
<1>3. CASE ManagerEnds
  BY <1>3 DEF ManagerEnds, Cancels
<1>4. CASE ServerBuildFails
  BY <1>4 DEF ServerBuildFails, Cancels
<1>5. ASSUME NEW t \in {"probes", "server"}, HttpServes(t)
      PROVE  UNCHANGED <<setupVars, sig, handler, watcher, signals>> /\ TypeOK'
             /\ (Waited => UNCHANGED <<task, failed>>)
  BY <1>5 DEF HttpServes
<1>6. ASSUME NEW t \in {"probes", "server"}, HttpFails(t)
      PROVE  UNCHANGED <<setupVars, sig, handler, watcher, signals>> /\ TypeOK'
             /\ (Waited => UNCHANGED <<task, failed>>)
  BY <1>6 DEF HttpFails
<1>7. ASSUME NEW t \in {"probes", "server"}, HttpShutdown(t)
      PROVE  UNCHANGED <<setupVars, sig, handler, watcher, signals>> /\ TypeOK'
             /\ (Waited => UNCHANGED <<task, failed>>)
  BY <1>7 DEF HttpShutdown
<1>8. ASSUME NEW t \in {"probes", "server"}, HttpEnds(t)
      PROVE  UNCHANGED <<setupVars, sig, handler, watcher, signals>> /\ TypeOK'
             /\ (Waited => UNCHANGED <<task, failed>>)
  BY <1>8 DEF HttpEnds, Cancels
<1>9. CASE GrpcListenFails("server") \/ GrpcStopsFirst("server")
  BY <1>9 DEF GrpcListenFails, GrpcStopsFirst, Cancels
<1>10. CASE GrpcServes("server")
  BY <1>10 DEF GrpcServes
<1>11. CASE GrpcFails("server")
  BY <1>11 DEF GrpcFails
<1>12. CASE GrpcGracefulStop("server")
  BY <1>12 DEF GrpcGracefulStop
<1>13. CASE GrpcEnds("server")
  BY <1>13 DEF GrpcEnds, Cancels
<1>14. CASE RpcOpens \/ RpcEnds
  <2>1. rpcs' \in 0..MaxRpcs
    BY <1>14, BoundsAssumption DEF RpcOpens, RpcEnds
  <2>2. UNCHANGED <<setupVars, ctxVars, task, failed, synced>>
    BY <1>14 DEF RpcOpens, RpcEnds
  <2>. QED  BY <2>1, <2>2
<1>15. CASE ListenerEnds
  BY <1>15 DEF ListenerEnds, Cancels
<1>16. CASE MonitorEnds
  BY <1>16 DEF MonitorEnds, Cancels
<1>. QED
  BY <1>1, <1>2, <1>3, <1>4, <1>5, <1>6, <1>7, <1>8, <1>9, <1>10, <1>11, <1>12, <1>13,
     <1>14, <1>15, <1>16
  DEF TaskStep

\* Next has nothing else.
LEMMA NextCases ==
  ASSUME [Next]_vars
  PROVE  Setup \/ WayOut \/ WatcherStops \/ Signal \/ TaskStep \/ UNCHANGED vars
BY DEF Next, TaskStep

\* The type invariant is inductive.
LEMMA NextType == ASSUME TypeOK, [Next]_vars PROVE TypeOK'
<1>1. CASE UNCHANGED vars
  BY <1>1 DEF TypeOK, vars
<1>. QED  BY <1>1, NextCases, SetupKeepsType, WayOutKeepsType, TaskSteps

\* Every variable keeps its type, for every set of command lines.
THEOREM TypeCorrect == Spec => []TypeOK
BY InitType, NextType, PTL DEF Spec

-----------------------------------------------------------------------------
(* The way out *)

\* The wait for the goroutines is among the deferred calls.
WillWait == \E i \in 1..Len(defers) : defers[i] = "wait"

\* Nothing was started, and the wait is still to be deferred.
NotYet ==
  /\ \A t \in Tasks : task[t] = "none"
  /\ \A i \in 1..Len(Steps(deployment)) : i < pc => Steps(deployment)[i] # Defer("wait")

\* Goroutines run only while the wait for them is deferred; from then on the error
\* variables are final, so that what the command combines is all there will be.
ExitInv ==
  /\ phase = "setup" => WillWait \/ NotYet
  /\ phase = "deferred" => WillWait \/ Waited
  /\ phase \in {"stopping", "exited"} =>
       /\ Waited
       /\ ret \subseteq exit
       /\ deployment.command # "run" => failed \subseteq exit

\* Nothing was started.
LEMMA InitExit == Init => ExitInv
<1> SUFFICES ASSUME Init PROVE ExitInv
  OBVIOUS
<1>1. Len(Steps(deployment)) \in Nat
  BY StepsType DEF Init
<1>. QED  BY <1>1 DEF Init, ExitInv, NotYet

\* A deferred call does not hide the ones before it.
LEMMA DeferKeepsWait ==
  ASSUME TypeOK, NEW x \in {"cancel", "wait"}, defers' = <<x>> \o defers, WillWait \/ x = "wait"
  PROVE  WillWait'
<1>1. defers \in Seq({"cancel", "wait"}) /\ Len(defers) \in Nat
  BY DEF TypeOK
<1>2. /\ Len(defers') = Len(defers) + 1 /\ defers'[1] = x
      /\ \A i \in 1..Len(defers) : defers'[i + 1] = defers[i]
  BY <1>1
<1>3. 1 \in 1..Len(defers') /\ \A i \in 1..Len(defers) : i + 1 \in 1..Len(defers')
  BY <1>1, <1>2
<1>. QED  BY <1>2, <1>3 DEF WillWait

\* The setup starts nothing before the wait is deferred.
LEMMA SetupKeepsExit == ASSUME TypeOK, ExitInv, Setup PROVE ExitInv'
<1> USE DEF taskVars, ctxVars
<1>1. phase = "setup" /\ UNCHANGED deployment /\ (WillWait \/ NotYet)
  BY DEF Setup, TryStep, FatalStep, DeferStep, StartStep, SyncStep, StepsEnd, At, ExitInv
<1>2. NotYet => Waited
  BY DEF NotYet, Waited
<1>3. ASSUME UNCHANGED <<defers, task>>, pc' \in {pc, pc + 1},
             phase' \in {"setup", "deferred", "killed"},
             Step # Defer("wait") \/ pc' = pc, pc \in 1..Len(Steps(deployment)) + 1
      PROVE  ExitInv'
  <2>1. WillWait => WillWait'
    BY <1>3 DEF WillWait
  <2>2. NotYet => NotYet' /\ Waited'
    <3>1. Len(Steps(deployment)) \in Nat
      BY StepsType DEF TypeOK
    <3>2. \A i \in 1..Len(Steps(deployment)) : i < pc' => i < pc \/ (i = pc /\ pc' # pc)
      BY <1>3, <3>1
    <3>. QED  BY <1>1, <1>3, <3>2 DEF NotYet, Waited, Step
  <2>. QED  BY <1>1, <1>3, <2>1, <2>2 DEF ExitInv
<1>4. CASE TryStep
  <2>1. Step # Defer("wait") /\ pc \in 1..Len(Steps(deployment)) + 1
    BY <1>4, StepAt DEF TryStep, Defer, TypeOK
  <2>. QED  BY <1>1, <1>3, <1>4, <2>1 DEF TryStep, Return
<1>5. CASE FatalStep
  <2>1. Step # Defer("wait") /\ pc \in 1..Len(Steps(deployment)) + 1
    BY <1>5, StepAt DEF FatalStep, Defer, TypeOK
  <2>. QED  BY <1>1, <1>3, <1>5, <2>1 DEF FatalStep
<1>6. CASE DeferStep
  <2>1. /\ defers' = <<Step.what>> \o defers /\ pc' = pc + 1 /\ UNCHANGED <<phase, task>>
        /\ Step.op = "defer" /\ Step.what \in {"cancel", "wait"} /\ Step \in SetupSteps
        /\ pc \in 1..Len(Steps(deployment))
    BY <1>6, StepAt DEF DeferStep
  <2>2. CASE WillWait \/ Step.what = "wait"
    BY <1>1, <2>1, <2>2, DeferKeepsWait DEF ExitInv
  <2>3. CASE NotYet /\ Step.what # "wait"
    <3>1. \A i \in 1..Len(Steps(deployment)) : i < pc' => i < pc \/ i = pc
      BY <2>1
    <3>2. Step # Defer("wait")
      BY <2>3 DEF Defer
    <3>3. NotYet'
      BY <1>1, <2>1, <2>3, <3>1, <3>2 DEF NotYet, Step
    <3>. QED  BY <1>1, <2>1, <3>3 DEF ExitInv
  <2>. QED  BY <1>1, <2>2, <2>3
<1>7. CASE StartStep
  <2>1. UNCHANGED <<defers, phase>> /\ Step.op = "start" /\ pc \in 1..Len(Steps(deployment))
    BY <1>7, StepAt DEF StartStep
  <2>2. PICK w \in 1..Len(Steps(deployment)) :
          Steps(deployment)[w] = Defer("wait") /\ w < pc
    BY <2>1, CommandsAreGuarded DEF Guarded, TypeOK, Step
  <2>3. WillWait
    BY <1>1, <2>2 DEF NotYet
  <2>4. WillWait'
    BY <2>1, <2>3 DEF WillWait
  <2>. QED  BY <1>1, <2>1, <2>4 DEF ExitInv
<1>8. CASE SyncStep
  <2>1. UNCHANGED task /\ Step.op = "sync"
    BY <1>8, StepAt DEF SyncStep
  <2>2. CASE pc' = pc + 1 /\ UNCHANGED <<defers, phase>>
    <3>1. Step # Defer("wait") /\ pc \in 1..Len(Steps(deployment)) + 1
      BY <2>1 DEF Defer, TypeOK
    <3>. QED  BY <1>1, <1>3, <2>1, <2>2, <3>1
  <2>3. CASE phase' = "deferred" /\ defers' = <<"cancel">> \o defers
    <3>1. WillWait => WillWait'
      BY <2>3, DeferKeepsWait
    <3>2. NotYet => Waited'
      BY <1>2, <2>1 DEF Waited
    <3>. QED  BY <1>1, <2>3, <3>1, <3>2 DEF ExitInv
  <2>. QED  BY <1>8, <2>2, <2>3 DEF SyncStep, Return
<1>9. CASE StepsEnd
  <2>1. pc' = pc /\ UNCHANGED <<defers, task>> /\ phase' = "deferred"
    BY <1>9 DEF StepsEnd, Return
  <2>. QED  BY <1>3, <2>1 DEF TypeOK
<1>. QED  BY <1>4, <1>5, <1>6, <1>7, <1>8, <1>9 DEF Setup

\* The deferred calls, and what the command makes of the errors.
LEMMA WayOutKeepsExit == ASSUME TypeOK, ExitInv, WayOut PROVE ExitInv'
<1> USE DEF taskVars
<1>1. CASE Deferred
  <2>1. /\ phase = "deferred" /\ UNCHANGED <<phase, task>> /\ defers' = Tail(defers)
        /\ defers \in Seq({"cancel", "wait"}) /\ defers # <<>>
    BY <1>1 DEF Deferred, TypeOK
  <2>2. /\ Len(defers) \in Nat /\ Len(defers') = Len(defers) - 1
        /\ \A i \in 1..Len(defers') : defers'[i] = defers[i + 1]
    BY <2>1
  <2>3. CASE Waited
    BY <2>1, <2>3 DEF ExitInv, Waited
  <2>4. CASE ~Waited
    <3>1. Head(defers) = "cancel"
      <4>1. Head(defers) \in {"cancel", "wait"}
        BY <2>1
      <4>2. Head(defers) # "wait"
        BY <1>1, <2>4 DEF Deferred
      <4>. QED  BY <4>1, <4>2
    <3>2. defers[1] = "cancel"
      BY <2>1, <3>1
    <3>3. PICK i \in 1..Len(defers) : defers[i] = "wait"
      BY <2>1, <2>4 DEF ExitInv, WillWait
    <3>4. i # 1
      BY <3>2, <3>3
    <3>5. i - 1 \in 1..Len(defers') /\ (i - 1) + 1 = i
      BY <2>2, <3>3, <3>4
    <3>6. defers'[i - 1] = "wait"
      BY <2>2, <3>3, <3>5
    <3>. QED  BY <2>1, <3>5, <3>6 DEF ExitInv, WillWait
  <2>. QED  BY <2>3, <2>4
<1>2. CASE CallbackReturns
  <2>1. /\ phase = "deferred" /\ phase' = "stopping" /\ defers = <<>>
        /\ exit' = Combine /\ UNCHANGED <<deployment, ret, task, failed>>
    BY <1>2 DEF CallbackReturns
  <2>2. ~WillWait
    BY <2>1 DEF WillWait
  <2>. QED  BY <2>1, <2>2 DEF ExitInv, Waited, Combine
<1>3. CASE DoReturns
  BY <1>3 DEF DoReturns, ExitInv, Waited
<1>. QED  BY <1>1, <1>2, <1>3 DEF WayOut

\* ExitInv is inductive: a goroutine that runs is one that is waited for.
LEMMA NextExit == ASSUME TypeOK, ExitInv, [Next]_vars PROVE ExitInv'
<1>1. CASE TaskStep
  <2>1. UNCHANGED <<deployment, pc, defers, ret, phase, exit>>
        /\ (Waited => UNCHANGED <<task, failed>>)
    BY <1>1, TaskSteps DEF setupVars
  <2>2. NotYet => Waited
    BY DEF NotYet, Waited
  <2>3. (NotYet => NotYet') /\ (Waited => Waited') /\ (WillWait => WillWait')
    BY <2>1, <2>2 DEF NotYet, Waited, WillWait
  <2>. QED  BY <2>1, <2>3 DEF ExitInv
<1>2. CASE WatcherStops \/ Signal \/ UNCHANGED vars
  <2>1. /\ UNCHANGED <<deployment, pc, defers, ret, exit, task, failed>>
        /\ phase' = phase \/ phase' = "killed"
    BY <1>2 DEF WatcherStops, Signal, vars, setupVars, taskVars
  <2>2. (NotYet => NotYet') /\ (Waited => Waited') /\ (WillWait => WillWait')
    BY <2>1 DEF NotYet, Waited, WillWait
  <2>. QED  BY <2>1, <2>2 DEF ExitInv
<1>. QED  BY <1>1, <1>2, NextCases, SetupKeepsExit, WayOutKeepsExit

\* Whichever command it is, and wherever in its setup it returns, it leaves no
\* goroutine behind.
THEOREM NothingIsLeft == Spec => []NothingOutlivesTheCommand
<1>1. ExitInv => NothingOutlivesTheCommand
  BY DEF ExitInv, NothingOutlivesTheCommand
<1>. QED  BY <1>1, InitType, NextType, InitExit, NextExit, PTL DEF Spec

\* What failed by the time a command returns is in the error it returns, but for the
\* goroutines of run().
THEOREM ErrorsAreReturned == Spec => []FailuresAreReported
<1>1. ExitInv => FailuresAreReported
  BY DEF ExitInv, FailuresAreReported
<1>. QED  BY <1>1, InitType, NextType, InitExit, NextExit, PTL DEF Spec
=============================================================================
