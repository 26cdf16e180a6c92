------------------------------ MODULE PolicySync ------------------------------
(***************************************************************************)
(* Replication of ValidatingPolicy resources from the Kubernetes API to    *)
(* the sidecar authorization servers.                                      *)
(*                                                                         *)
(*   API server --> policyReconciler --> PolicySender ==stream==>          *)
(*                    policyListener --> listener (a policy source)        *)
(*                                                                         *)
(* Every goroutine that the code starts and does not wait for is an        *)
(* element of a set: `sends' (SendPolicy calls the reconciler started),    *)
(* `sending' (sendWithBackoff calls, one per stream and message) and       *)
(* `handling' (the goroutine that the listener starts for each message it  *)
(* receives).  The order in which a stream carries messages is not kept:   *)
(* the senders in front of it and the handlers behind it run in any order. *)
(*                                                                         *)
(* A message is [name, pol].  pol.mode = "absent" is the Delete flag.      *)
(* pol.ver numbers the edits of a policy; the code has no such number, it  *)
(* only tells contents apart here.                                         *)
(***************************************************************************)
EXTENDS Naturals

CONSTANTS
  Policies,    \* policy names
  Clients,     \* client addresses (POD_IP of the sidecars)
  Modes,       \* evaluation modes that edits may give to a policy
  Processors,  \* modes for which the listener has a processor
  Ages,        \* ages a health check may have on arrival: {"fresh", "stale"}
  MaxRev,      \* bound: edits per policy
  MaxFaults    \* bound: faults (Get errors, crashes, broken streams)

\* The modes that Reconcile hands to the sender.
ServedModes == {"HTTP", "Envoy"}

ASSUME ModesAssumption ==
  /\ Modes \subseteq {"HTTP", "Envoy", "Kubernetes", "JSON"}
  /\ Processors \subseteq ServedModes
  /\ Ages \subseteq {"fresh", "stale"}
ASSUME BoundsAssumption == MaxRev \in Nat /\ MaxFaults \in Nat

VARIABLES
  api,            \* policy -> content in the manager's cache of the API server
  queue,          \* policy names in the controller's work queue
  rec,            \* the reconcile in progress: what Get returned for which name
  up,             \* is the control plane process running
  policies,       \* PolicySender.policies
  cxnsMap,        \* PolicySender.cxnsMap: client -> stream number, 0 if no entry
  healthCheckMap, \* PolicySender.healthCheckMap: client -> age of the last check
  inactive,       \* clients that the running deleteInactive found inactive
  sends,          \* messages of SendPolicy calls that have not read cxnsMap yet
  sending,        \* running sendWithBackoff calls
  handler,        \* client -> stream -> where ValidatingPoliciesStream stands
  phase,          \* client -> where policyListener stands
  stream,         \* client -> number of its latest stream, 0 before the first
  alive,          \* client -> is that stream unbroken
  beating,        \* client -> has a sendHealthChecks goroutine been started
  handling,       \* message goroutines of the listeners
  resources,      \* client -> policy -> content in listener.resources
  seen,           \* history: newest version of a policy the client has handled
  last,           \* history: content of the message it handled last
  gap,            \* history: policies fanned out between the snapshot for the
                  \* client's stream and its registration
  faults          \* number of faults so far

apiVars      == <<api, queue>>
senderVars   == <<policies, cxnsMap, healthCheckMap, inactive>>
wireVars     == <<sends, sending, handler>>
clientVars   == <<phase, stream, alive, beating, handling, resources, seen,
                  last>>
vars == <<api, queue, rec, up, policies, cxnsMap, healthCheckMap, inactive,
          sends, sending, handler, phase, stream, alive, beating,
          handling, resources, seen, last, gap, faults>>

-----------------------------------------------------------------------------
(* Values *)

MaxStreams == MaxFaults + 1
Streams == 1..MaxStreams
Contents == [ver : 0..MaxRev, mode : Modes \cup {"absent"}]
NoPolicy == [ver |-> 0, mode |-> "absent"]

Messages == [name : Policies, pol : Contents]
Delete(m) == m.pol.mode = "absent"

\* A sendWithBackoff call or a message it carried: for which client and stream,
\* and which of the two callers started it.
Packets == [cl : Clients, strm : Streams, msg : Messages,
            via : {"snapshot", "SendPolicy"}]

Idle == [step |-> "idle"]
Reconciles == [step : {"got"}, name : Policies, pol : Contents]
         \cup [step : {"error"}, name : Policies]
         \cup {Idle}

HandlerPhases == {"none", "recv", "request", "snapshot", "registered", "ended"}
ListenerPhases == {"idle", "dialled", "open", "listening"}

TypeOK ==
  /\ api \in [Policies -> Contents]
  /\ queue \subseteq Policies
  /\ rec \in Reconciles
  /\ up \in BOOLEAN
  /\ policies \in [Policies -> Contents]
  /\ cxnsMap \in [Clients -> 0..MaxStreams]
  /\ healthCheckMap \in [Clients -> {"none", "fresh", "stale"}]
  /\ inactive \subseteq Clients
  /\ sends \subseteq Messages
  /\ sending \subseteq Packets
  /\ handler \in [Clients -> [Streams -> HandlerPhases]]
  /\ phase \in [Clients -> ListenerPhases]
  /\ stream \in [Clients -> 0..MaxStreams]
  /\ alive \in [Clients -> BOOLEAN]
  /\ beating \in [Clients -> BOOLEAN]
  /\ handling \subseteq Packets
  /\ resources \in [Clients -> [Policies -> Contents]]
  /\ seen \in [Clients -> [Policies -> 0..MaxRev]]
  /\ last \in [Clients -> [Policies -> Contents]]
  /\ gap \in [Clients -> SUBSET Policies]
  /\ faults \in 0..MaxFaults

\* NewPolicySender, NewPolicyListener and NewListener: everything starts empty.
Init ==
  /\ api = [p \in Policies |-> NoPolicy]
  /\ queue = {}
  /\ rec = Idle
  /\ up = TRUE
  /\ policies = [p \in Policies |-> NoPolicy]
  /\ cxnsMap = [c \in Clients |-> 0]
  /\ healthCheckMap = [c \in Clients |-> "none"]
  /\ inactive = {}
  /\ sends = {}
  /\ sending = {}
  /\ handler = [c \in Clients |-> [n \in Streams |-> "none"]]
  /\ phase = [c \in Clients |-> "idle"]
  /\ stream = [c \in Clients |-> 0]
  /\ alive = [c \in Clients |-> FALSE]
  /\ beating = [c \in Clients |-> FALSE]
  /\ handling = {}
  /\ resources = [c \in Clients |-> [p \in Policies |-> NoPolicy]]
  /\ seen = [c \in Clients |-> [p \in Policies |-> 0]]
  /\ last = [c \in Clients |-> [p \in Policies |-> NoPolicy]]
  /\ gap = [c \in Clients |-> {}]
  /\ faults = 0

Fault ==
  /\ faults < MaxFaults
  /\ faults' = faults + 1

-----------------------------------------------------------------------------
(* The API server and the work queue of the controller (external) *)

\* A policy is created, updated or deleted; the watch event puts its name in
\* the queue of a running control plane.
Edit(p, m) ==
  /\ api[p].ver < MaxRev
  /\ m = "absent" => api[p].mode # "absent"
  /\ api' = [api EXCEPT ![p] = [ver |-> api[p].ver + 1, mode |-> m]]
  /\ queue' = IF up THEN queue \cup {p} ELSE queue
  /\ UNCHANGED <<rec, up, senderVars, wireVars, clientVars, gap, faults>>

-----------------------------------------------------------------------------
(* policyReconciler.Reconcile, with its one worker *)

\* The worker takes a name and Get answers from the cache.
ReconcileGet(p) ==
  /\ up
  /\ rec = Idle
  /\ p \in queue
  /\ queue' = queue \ {p}
  /\ rec' = [step |-> "got", name |-> p, pol |-> api[p]]
  /\ UNCHANGED <<api, up, senderVars, wireVars, clientVars, gap, faults>>

\* Get fails with an error other than NotFound.
ReconcileGetFails(p) ==
  /\ up
  /\ rec = Idle
  /\ p \in queue
  /\ Fault
  /\ queue' = queue \ {p}
  /\ rec' = [step |-> "error", name |-> p]
  /\ UNCHANGED <<api, up, senderVars, wireVars, clientVars, gap>>

\* Faulty variant: the error of Get is swallowed.
ErrorSwallowed ==
  /\ rec.step = "error"
  /\ rec' = Idle
  /\ UNCHANGED <<apiVars, up, senderVars, wireVars, clientVars, gap, faults>>

\* Reconcile returns the error: the controller puts the name back.
ReconcileRequeue ==
  /\ rec.step = "error"
  /\ queue' = queue \cup {rec.name}
  /\ rec' = Idle
  /\ UNCHANGED <<api, up, senderVars, wireVars, clientVars, gap, faults>>

\* NotFound: DeletePolicy, then `go SendPolicy' of a message with Delete set.
ReconcileDelete ==
  /\ rec.step = "got"
  /\ rec.pol.mode = "absent"
  /\ policies' = [policies EXCEPT ![rec.name] = NoPolicy]
  /\ sends' = sends \cup {[name |-> rec.name, pol |-> rec.pol]}
  /\ rec' = Idle
  /\ UNCHANGED <<apiVars, up, cxnsMap, healthCheckMap, inactive,
                 sending, handler, clientVars, gap, faults>>

\* A policy of another evaluation mode: return without touching the sender.
ReconcileSkip ==
  /\ rec.step = "got"
  /\ rec.pol.mode \notin ServedModes \cup {"absent"}
  /\ rec' = Idle
  /\ UNCHANGED <<apiVars, up, senderVars, wireVars, clientVars, gap, faults>>

\* ToProto, StorePolicy, then `go SendPolicy'.
ReconcileStore ==
  /\ rec.step = "got"
  /\ rec.pol.mode \in ServedModes
  /\ policies' = [policies EXCEPT ![rec.name] = rec.pol]
  /\ sends' = sends \cup {[name |-> rec.name, pol |-> rec.pol]}
  /\ rec' = Idle
  /\ UNCHANGED <<apiVars, up, cxnsMap, healthCheckMap, inactive,
                 sending, handler, clientVars, gap, faults>>

-----------------------------------------------------------------------------
(* PolicySender *)

\* Faulty variants: a send for every known client, entered in cxnsMap or not; and
\* no send at all.
FanoutToAll(m) ==
  {[cl |-> c, strm |-> cxnsMap[c], msg |-> m, via |-> "SendPolicy"] : c \in Clients}
FanoutToNone(m) == {}

\* One sendWithBackoff for every stream in cxnsMap.
Fanout(m) ==
  {[cl |-> c, strm |-> cxnsMap[c], msg |-> m, via |-> "SendPolicy"] :
     c \in {d \in Clients : cxnsMap[d] # 0}}

\* A SendPolicy goroutine ranges over cxnsMap and starts a sendWithBackoff for
\* every stream in it.  (SendFanout models the rest of the call.)
SendPolicy(m) ==
  /\ m \in sends
  /\ sends' = sends \ {m}
  /\ sending' = sending \cup Fanout(m)
  /\ gap' = [c \in Clients |->
       IF stream[c] # 0 /\ handler[c][stream[c]] = "snapshot"
         THEN gap[c] \cup {m.name} ELSE gap[c]]
  /\ UNCHANGED <<apiVars, rec, up, senderVars, handler, clientVars, faults>>

\* sendWithBackoff on a broken stream: every attempt fails, until the backoff
\* gives up.  What was written to the stream and not yet received is lost too.
SendGivesUp(k) ==
  /\ k \in sending
  /\ ~(alive[k.cl] /\ k.strm = stream[k.cl])
  /\ sending' = sending \ {k}
  /\ UNCHANGED <<apiVars, rec, up, senderVars, sends, handler, clientVars, gap,
                 faults>>

\* Faulty variants: a new stream is sent no stored policy, or what the API server
\* has, stored or not.
SnapshotEmpty(c, n) == {}
SnapshotOfApi(c, n) ==
  {[cl |-> c, strm |-> n, msg |-> [name |-> p, pol |-> api[p]],
    via |-> "snapshot"] : p \in {q \in Policies : api[q].mode \in ServedModes}}

\* One sendWithBackoff on a stream for every stored policy.
Snapshot(c, n) ==
  {[cl |-> c, strm |-> n, msg |-> [name |-> p, pol |-> policies[p]],
    via |-> "snapshot"] : p \in {q \in Policies : policies[q].mode # "absent"}}

\* ValidatingPoliciesStream receives the client's request: it reads the stored
\* policies and starts a sendWithBackoff for each ...
StreamSnapshot(c, n) ==
  /\ handler[c][n] = "request"
  /\ sending' = sending \cup Snapshot(c, n)
  /\ handler' = [handler EXCEPT ![c][n] = "snapshot"]
  /\ UNCHANGED <<apiVars, rec, up, senderVars, sends, clientVars, gap, faults>>

\* ... and then takes cxnMu and enters the stream in cxnsMap.
StreamRegister(c, n) ==
  /\ handler[c][n] = "snapshot"
  /\ cxnsMap' = [cxnsMap EXCEPT ![c] = n]
  /\ handler' = [handler EXCEPT ![c][n] = "registered"]
  /\ UNCHANGED <<apiVars, rec, up, policies, healthCheckMap, inactive, sends,
                 sending, clientVars, gap, faults>>

\* Recv returns EOF or an error: the handler returns, cxnsMap keeps the entry.
StreamEnds(c, n) ==
  /\ handler[c][n] \in {"recv", "request", "registered"}
  /\ ~(alive[c] /\ n = stream[c])
  /\ handler' = [handler EXCEPT ![c][n] = "ended"]
  /\ UNCHANGED <<apiVars, rec, up, senderVars, sends, sending, clientVars, gap,
                 faults>>

\* HealthCheck: the time is kept when it is the first or later than the one kept.
HealthCheck(c, age) ==
  /\ up
  /\ beating[c]
  /\ healthCheckMap' =
       IF healthCheckMap[c] = "none" \/ age = "fresh"
         THEN [healthCheckMap EXCEPT ![c] = age] ELSE healthCheckMap
  /\ UNCHANGED <<apiVars, rec, up, policies, cxnsMap, inactive, wireVars,
                 clientVars, gap, faults>>

\* maxClientInactiveDuration passes without a health check of the client.
HealthExpires(c) ==
  /\ healthCheckMap[c] = "fresh"
  /\ healthCheckMap' = [healthCheckMap EXCEPT ![c] = "stale"]
  /\ UNCHANGED <<apiVars, rec, up, policies, cxnsMap, inactive, wireVars,
                 clientVars, gap, faults>>

\* deleteInactive, first half: getInactiveClients, before cxnMu is taken ...
FlushScan ==
  /\ inactive = {}
  /\ inactive' = {c \in Clients : healthCheckMap[c] = "stale"}
  /\ inactive' # {}
  /\ UNCHANGED <<apiVars, rec, up, policies, cxnsMap, healthCheckMap, wireVars,
                 clientVars, gap, faults>>

\* ... second half: the entries of those clients are removed from both maps.
FlushDelete ==
  /\ inactive # {}
  /\ cxnsMap' = [c \in Clients |-> IF c \in inactive THEN 0 ELSE cxnsMap[c]]
  /\ healthCheckMap' =
       [c \in Clients |-> IF c \in inactive THEN "none" ELSE healthCheckMap[c]]
  /\ inactive' = {}
  /\ UNCHANGED <<apiVars, rec, up, policies, wireVars, clientVars, gap, faults>>

-----------------------------------------------------------------------------
(* policyListener *)

\* Start: dial marks a new connection and the health checks are started.
Dial(c) ==
  /\ phase[c] = "idle"
  /\ phase' = [phase EXCEPT ![c] = "dialled"]
  /\ beating' = [beating EXCEPT ![c] = TRUE]
  /\ UNCHANGED <<apiVars, rec, up, senderVars, wireVars, stream, alive, handling,
                 resources, seen, last, gap, faults>>

\* listen opens a stream; the server starts ValidatingPoliciesStream for it.
OpenStream(c) ==
  /\ up
  /\ phase[c] = "dialled"
  /\ stream[c] < MaxStreams
  /\ stream' = [stream EXCEPT ![c] = stream[c] + 1]
  /\ alive' = [alive EXCEPT ![c] = TRUE]
  /\ handler' = [handler EXCEPT ![c][stream[c] + 1] = "recv"]
  /\ phase' = [phase EXCEPT ![c] = "open"]
  /\ gap' = [gap EXCEPT ![c] = {}]
  /\ UNCHANGED <<apiVars, rec, up, senderVars, sends, sending, beating, handling,
                 resources, seen, last, faults>>

\* No control plane to connect to: listen returns the error, Start is retried.
OpenStreamFails(c) ==
  /\ ~up
  /\ phase[c] = "dialled"
  /\ phase' = [phase EXCEPT ![c] = "idle"]
  /\ UNCHANGED <<apiVars, rec, up, senderVars, wireVars, stream, alive, beating,
                 handling, resources, seen, last, gap, faults>>

\* The listener sends its address, once per stream (connEstablished).
SendAddress(c) ==
  /\ phase[c] = "open"
  /\ alive[c]
  /\ phase' = [phase EXCEPT ![c] = "listening"]
  /\ handler' = [handler EXCEPT ![c][stream[c]] = "request"]
  /\ UNCHANGED <<apiVars, rec, up, senderVars, sends, sending, stream, alive,
                 beating, handling, resources, seen, last, gap, faults>>

\* Faulty variant: the listener does not start again.
ListenStops(c) ==
  /\ phase[c] \in {"open", "listening"}
  /\ ~alive[c]
  /\ phase' = [phase EXCEPT ![c] = "stopped"]
  /\ UNCHANGED <<apiVars, rec, up, senderVars, wireVars, stream, alive, beating,
                 handling, resources, seen, last, gap, faults>>

\* Send or Recv on a broken stream fails: listen returns, Start is called again.
ListenFails(c) ==
  /\ phase[c] \in {"open", "listening"}
  /\ ~alive[c]
  /\ phase' = [phase EXCEPT ![c] = "idle"]
  /\ UNCHANGED <<apiVars, rec, up, senderVars, wireVars, stream, alive, beating,
                 handling, resources, seen, last, gap, faults>>

\* Recv returns a message: a goroutine is started to handle it.
Recv(k) ==
  /\ k \in sending
  /\ alive[k.cl]
  /\ k.strm = stream[k.cl]
  /\ phase[k.cl] = "listening"
  /\ sending' = sending \ {k}
  /\ handling' = handling \cup {k}
  /\ UNCHANGED <<apiVars, rec, up, senderVars, sends, handler, phase, stream,
                 alive, beating, resources, seen, last, gap, faults>>

\* Faulty variant: a policy that is held is not replaced.
ApplyOnce(held, m) ==
  CASE Delete(m) -> [held EXCEPT ![m.name] = NoPolicy]
    [] m.pol.mode \in Processors /\ held[m.name] = NoPolicy ->
         [held EXCEPT ![m.name] = m.pol]
    [] OTHER -> held

\* What Process of the processors makes of the resources: a delete goes to all
\* of them, a policy to the one for its mode, if there is one.
Apply(held, m) ==
  CASE Delete(m) -> [held EXCEPT ![m.name] = NoPolicy]
    [] m.pol.mode \in Processors -> [held EXCEPT ![m.name] = m.pol]
    [] OTHER -> held

\* The goroutine of a message hands it to the processors.
Process(k) ==
  LET c == k.cl
      m == k.msg
  IN /\ k \in handling
     /\ handling' = handling \ {k}
     /\ resources' = [resources EXCEPT ![c] = Apply(@, m)]
     /\ seen' = [seen EXCEPT ![c][m.name] =
                   IF @ < m.pol.ver THEN m.pol.ver ELSE @]
     /\ last' = [last EXCEPT ![c][m.name] = m.pol]
     /\ UNCHANGED <<apiVars, rec, up, senderVars, wireVars, phase, stream, alive,
                    beating, gap, faults>>

-----------------------------------------------------------------------------
(* Faults *)

\* The connection under a stream breaks.
StreamBreaks(c) ==
  /\ Fault
  /\ alive[c]
  /\ alive' = [alive EXCEPT ![c] = FALSE]
  /\ UNCHANGED <<apiVars, rec, up, senderVars, wireVars, phase, stream, beating,
                 handling, resources, seen, last, gap>>

\* A sidecar stops (also by ctx.Done in listen) and starts again, empty.
ClientRestarts(c) ==
  /\ Fault
  /\ phase[c] # "idle"
  /\ phase' = [phase EXCEPT ![c] = "idle"]
  /\ alive' = [alive EXCEPT ![c] = FALSE]
  /\ beating' = [beating EXCEPT ![c] = FALSE]
  /\ handling' = {k \in handling : k.cl # c}
  /\ resources' = [resources EXCEPT ![c] = [p \in Policies |-> NoPolicy]]
  /\ seen' = [seen EXCEPT ![c] = [p \in Policies |-> 0]]
  /\ last' = [last EXCEPT ![c] = [p \in Policies |-> NoPolicy]]
  /\ UNCHANGED <<apiVars, rec, up, senderVars, wireVars, stream, gap>>

\* The control plane stops, also by a concurrent access to one of its unlocked
\* maps (fatal in Go) or a panic of a goroutine: all it has is in memory.
ControlPlaneCrashes ==
  /\ Fault
  /\ up
  /\ up' = FALSE
  /\ rec' = Idle
  /\ queue' = {}
  /\ policies' = [p \in Policies |-> NoPolicy]
  /\ cxnsMap' = [c \in Clients |-> 0]
  /\ healthCheckMap' = [c \in Clients |-> "none"]
  /\ inactive' = {}
  /\ sends' = {}
  /\ sending' = {}
  /\ handler' = [c \in Clients |-> [n \in Streams |->
       IF handler[c][n] = "none" THEN "none" ELSE "ended"]]
  /\ alive' = [c \in Clients |-> FALSE]
  /\ UNCHANGED <<api, phase, stream, beating, handling, resources, seen, last, gap>>

\* It starts again; the informer lists the policies that exist.
ControlPlaneStarts ==
  /\ ~up
  /\ up' = TRUE
  /\ queue' = {p \in Policies : api[p].mode # "absent"}
  /\ UNCHANGED <<api, rec, senderVars, wireVars, clientVars, gap, faults>>

-----------------------------------------------------------------------------
(* The specification *)

Reconcile ==
  \/ \E p \in Policies : ReconcileGet(p) \/ ReconcileGetFails(p)
  \/ ReconcileRequeue \/ ReconcileDelete \/ ReconcileSkip \/ ReconcileStore

Sender ==
  \/ \E m \in sends : SendPolicy(m)
  \/ \E k \in sending : SendGivesUp(k)
  \/ \E c \in Clients, n \in Streams :
       StreamSnapshot(c, n) \/ StreamRegister(c, n) \/ StreamEnds(c, n)
  \/ \E c \in Clients, age \in Ages : HealthCheck(c, age)
  \/ \E c \in Clients : HealthExpires(c)
  \/ FlushScan \/ FlushDelete

Listener ==
  \/ \E c \in Clients :
       Dial(c) \/ OpenStream(c) \/ OpenStreamFails(c) \/ SendAddress(c)
         \/ ListenFails(c)
  \/ \E k \in sending : Recv(k)
  \/ \E k \in handling : Process(k)

Faults ==
  \/ \E c \in Clients : StreamBreaks(c) \/ ClientRestarts(c)
  \/ ControlPlaneCrashes \/ ControlPlaneStarts

Next ==
  \/ \E p \in Policies, m \in Modes \cup {"absent"} : Edit(p, m)
  \/ Reconcile \/ Sender \/ Listener \/ Faults

Spec == Init /\ [][Next]_vars

\* Goroutines that can run do run; the control plane is started again; a stream
\* that does not break carries what is sent on it.  No fault, no edit, no health
\* check and no flush has to happen.
Fairness ==
  /\ WF_vars(\E p \in Policies : ReconcileGet(p))
  /\ WF_vars(ReconcileRequeue \/ ReconcileDelete \/ ReconcileSkip \/ ReconcileStore)
  /\ WF_vars(\E m \in sends : SendPolicy(m))
  /\ \A c \in Clients :
       /\ WF_vars(Dial(c) \/ OpenStream(c) \/ OpenStreamFails(c) \/ SendAddress(c)
                    \/ ListenFails(c))
       /\ WF_vars(\E n \in Streams : StreamSnapshot(c, n) \/ StreamRegister(c, n))
  /\ WF_vars(\E k \in sending : Recv(k))
  /\ WF_vars(\E k \in handling : Process(k))
  /\ WF_vars(ControlPlaneStarts)

FairSpec == Spec /\ Fairness

-----------------------------------------------------------------------------
(* Properties *)

\* What Reconcile leaves in the sender for a policy.  A policy of a mode that
\* is not served is not looked at: what was stored before stays.
Settled(p) ==
  /\ api[p].mode \in ServedModes => policies[p] = api[p]
  /\ api[p].mode = "absent" => policies[p].mode = "absent"

\* PolicySender.policies agrees with the API server for every policy whose name
\* is neither queued nor being reconciled: no event is lost between Get, an
\* edit that comes before Store, an error that requeues, and a restart.
StoredIsCurrentOrPending ==
  up => \A p \in Policies :
          p \in queue \/ (rec # Idle /\ rec.name = p) \/ Settled(p)

\* The client's latest stream is unbroken and is the one SendPolicy would use.
Live(c) == alive[c] /\ cxnsMap[c] = stream[c]

InFlight(c, p, pol) ==
  \/ [name |-> p, pol |-> pol] \in sends
  \/ \E k \in sending \cup handling :
       k.cl = c /\ k.strm = stream[c] /\ k.msg = [name |-> p, pol |-> pol]

\* Every policy that the sender stores has reached, or is on its way to, every
\* live client, unless its SendPolicy read cxnsMap after the snapshot for the
\* client's stream was taken and before the stream was registered.
NoLostUpdate ==
  \A c \in Clients, p \in Policies :
    Live(c) /\ policies[p].mode # "absent" /\ p \notin gap[c]
      => InFlight(c, p, policies[p]) \/ seen[c][p] >= policies[p].ver

Quiet(c, p) ==
  /\ \A m \in sends : m.name # p
  /\ \A k \in sending \cup handling : ~(k.cl = c /\ k.msg.name = p)

\* The registration window and the overtaking of a message by an older one are
\* the only ways in which a live client ends up with something else than the
\* stored policy: when nothing is on its way, the policy's mode has a processor,
\* its update was not in the window, and the message handled last was the newest,
\* then listener.resources holds what the sender stores.
DrainedIsCurrent ==
  \A c \in Clients, p \in Policies :
    /\ Live(c) /\ Quiet(c, p)
    /\ p \notin gap[c]
    /\ policies[p].mode \in Processors
    /\ last[c][p].ver = seen[c][p]
    => resources[c][p] = policies[p]

\* The sender catches up with the API server, whatever fails on the way.
StoreSettles == \A p \in Policies : []<>Settled(p)

\* A listener that has to connect ends up with an unbroken stream of its own in
\* cxnsMap, whatever breaks on the way: the entry of the stream it lost, which
\* stays in cxnsMap, does not count.
ListenersRegister == \A c \in Clients : phase[c] = "idle" ~> Live(c)

\* A live client handles the stored version of a policy (or a newer one), unless
\* its stream breaks or is flushed or the policy changes first, and unless the
\* update fell in the registration window.
LiveClientsCatchUp ==
  \A c \in Clients, p \in Policies :
    (Live(c) /\ policies[p].mode # "absent" /\ p \notin gap[c])
      ~> (~Live(c) \/ seen[c][p] >= policies[p].ver)

=============================================================================
