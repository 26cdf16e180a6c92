--------------------------- MODULE PolicySync_proofs ---------------------------
(***************************************************************************)
(* Theorems about the control plane: about PolicySync, that it implements  *)
(* Replication, for any policies, clients and bounds; and about SendFanout *)
(* for any finite set of streams.                                          *)
(***************************************************************************)
EXTENDS ReplicationRefinement, SendFanout, FiniteSetTheorems, TLAPS

-----------------------------------------------------------------------------
(* The sets of values *)

\* A policy, stored or absent, is a record of a version and a mode.
LEMMA ContentsType ==
  /\ NoPolicy \in Contents
  /\ \A v \in 0..MaxRev, m \in Modes \cup {"absent"} :
       [ver |-> v, mode |-> m] \in Contents
  /\ \A x \in Contents : x.ver \in 0..MaxRev
BY BoundsAssumption DEF Contents, NoPolicy

\* A message of the stream is a policy under its name.
LEMMA MessagesType ==
  /\ \A p \in Policies, x \in Contents : [name |-> p, pol |-> x] \in Messages
  /\ \A m \in Messages : m.name \in Policies /\ m.pol \in Contents
BY DEF Messages

\* A sendWithBackoff call names its client, stream, message and caller.
LEMMA PacketsType ==
  /\ \A c \in Clients, n \in Streams, m \in Messages :
       /\ [cl |-> c, strm |-> n, msg |-> m, via |-> "snapshot"] \in Packets
       /\ [cl |-> c, strm |-> n, msg |-> m, via |-> "SendPolicy"] \in Packets
  /\ \A k \in Packets : k.cl \in Clients /\ k.strm \in Streams /\ k.msg \in Messages
BY DEF Packets

\* A reconcile has read a policy, has met an error, or is not there.
LEMMA ReconcilesType ==
  /\ Idle \in Reconciles
  /\ \A p \in Policies, x \in Contents :
       [step |-> "got", name |-> p, pol |-> x] \in Reconciles
  /\ \A p \in Policies : [step |-> "error", name |-> p] \in Reconciles
  /\ \A r \in Reconciles : r.step = "got" => r.name \in Policies /\ r.pol \in Contents
  /\ \A r \in Reconciles : r.step = "error" => r.name \in Policies
BY DEF Reconciles, Idle

\* The next stream of a client that may open one is a stream.
LEMMA StreamsType ==
  /\ Streams \subseteq 0..MaxStreams
  /\ 0 \in 0..MaxStreams
  /\ \A n \in 0..MaxStreams : n # 0 => n \in Streams
  /\ \A n \in 0..MaxStreams : n < MaxStreams => n + 1 \in Streams
BY BoundsAssumption DEF Streams, MaxStreams

-----------------------------------------------------------------------------
(* Type correctness *)

\* The initial state has the type.
LEMMA InitTypeOK == Init => TypeOK
BY ContentsType, ReconcilesType, StreamsType, BoundsAssumption
   DEF Init, TypeOK, HandlerPhases, ListenerPhases

\* An edit and the steps of Reconcile keep the type.
LEMMA ReconcileTypeOK ==
  ASSUME TypeOK,
         Reconcile \/ \E p \in Policies, m \in Modes \cup {"absent"} : Edit(p, m)
  PROVE  TypeOK'
<1> USE ContentsType, MessagesType, ReconcilesType, BoundsAssumption DEF TypeOK,
      apiVars, senderVars, wireVars, clientVars, Fault
<1>1. CASE \E p \in Policies, m \in Modes \cup {"absent"} : Edit(p, m)
  <2>1. PICK p \in Policies, m \in Modes \cup {"absent"} : Edit(p, m)
    BY <1>1
  <2>2. api[p].ver + 1 \in 0..MaxRev
    <3>1. api[p].ver \in 0..MaxRev /\ api[p].ver < MaxRev
      BY <2>1 DEF Edit
    <3>2. QED
      BY <3>1
  <2>3. [ver |-> api[p].ver + 1, mode |-> m] \in Contents
    BY <2>2
  <2>4. QED
    BY <2>1, <2>3 DEF Edit
<1>2. ASSUME NEW p \in Policies, ReconcileGet(p)
      PROVE  TypeOK'
  BY <1>2 DEF ReconcileGet
<1>3. ASSUME NEW p \in Policies, ReconcileGetFails(p)
      PROVE  TypeOK'
  BY <1>3 DEF ReconcileGetFails
<1>4. CASE ReconcileRequeue
  BY <1>4 DEF ReconcileRequeue
<1>5. CASE ReconcileDelete
  BY <1>5 DEF ReconcileDelete
<1>6. CASE ReconcileSkip
  BY <1>6 DEF ReconcileSkip
<1>7. CASE ReconcileStore
  BY <1>7 DEF ReconcileStore
<1>8. QED
  BY <1>1, <1>2, <1>3, <1>4, <1>5, <1>6, <1>7 DEF Reconcile

\* The steps of the sender keep the type.
LEMMA SenderTypeOK == ASSUME TypeOK, Sender PROVE TypeOK'
<1> USE ContentsType, MessagesType, PacketsType, StreamsType
    DEF TypeOK, apiVars, senderVars, wireVars, clientVars, HandlerPhases
<1>1. ASSUME NEW m \in sends, SendPolicy(m)
      PROVE  TypeOK'
  <2>1. ASSUME NEW k \in sending'
        PROVE  k \in Packets
    <3>1. CASE k \in sending
      BY <3>1
    <3>2. CASE \E c \in Clients : /\ cxnsMap[c] # 0
                                  /\ k = [cl |-> c, strm |-> cxnsMap[c],
                                          msg |-> m, via |-> "SendPolicy"]
      <4>1. PICK c \in Clients : /\ cxnsMap[c] # 0
                                 /\ k = [cl |-> c, strm |-> cxnsMap[c],
                                         msg |-> m, via |-> "SendPolicy"]
        BY <3>2
      <4>2. cxnsMap[c] \in Streams /\ m \in Messages
        BY <4>1
      <4>3. QED
        BY <4>1, <4>2
    <3>3. QED
      BY <1>1, <2>1, <3>1, <3>2 DEF SendPolicy, Fanout
  <2>2. gap' \in [Clients -> SUBSET Policies]
    BY <1>1 DEF SendPolicy, Fanout
  <2>3. QED
    BY <1>1, <2>1, <2>2 DEF SendPolicy, Fanout
<1>2. ASSUME NEW k \in sending, SendGivesUp(k)
      PROVE  TypeOK'
  BY <1>2 DEF SendGivesUp
<1>3. ASSUME NEW c \in Clients, NEW n \in Streams, StreamSnapshot(c, n)
      PROVE  TypeOK'
  <2>1. ASSUME NEW k \in sending'
        PROVE  k \in Packets
    <3>1. CASE k \in sending
      BY <3>1
    <3>2. CASE \E p \in Policies :
                 k = [cl |-> c, strm |-> n, via |-> "snapshot",
                      msg |-> [name |-> p, pol |-> policies[p]]]
      <4>1. PICK p \in Policies :
                 k = [cl |-> c, strm |-> n, via |-> "snapshot",
                      msg |-> [name |-> p, pol |-> policies[p]]]
        BY <3>2
      <4>2. [name |-> p, pol |-> policies[p]] \in Messages
        OBVIOUS
      <4>3. QED
        BY <4>1, <4>2
    <3>3. QED
      BY <1>3, <2>1, <3>1, <3>2 DEF StreamSnapshot, Snapshot
  <2>2. QED
    BY <1>3, <2>1 DEF StreamSnapshot, Snapshot
<1>4. ASSUME NEW c \in Clients, NEW n \in Streams, StreamRegister(c, n)
      PROVE  TypeOK'
  BY <1>4 DEF StreamRegister
<1>5. ASSUME NEW c \in Clients, NEW n \in Streams, StreamEnds(c, n)
      PROVE  TypeOK'
  BY <1>5 DEF StreamEnds
<1>6. ASSUME NEW c \in Clients, NEW age \in Ages, HealthCheck(c, age)
      PROVE  TypeOK'
  BY <1>6, ModesAssumption DEF HealthCheck
<1>7. ASSUME NEW c \in Clients, HealthExpires(c)
      PROVE  TypeOK'
  BY <1>7 DEF HealthExpires
<1>8. CASE FlushScan
  BY <1>8 DEF FlushScan
<1>9. CASE FlushDelete
  BY <1>9 DEF FlushDelete
<1>10. QED
  BY <1>1, <1>2, <1>3, <1>4, <1>5, <1>6, <1>7, <1>8, <1>9 DEF Sender

\* The steps of the listener keep the type.
LEMMA ListenerTypeOK == ASSUME TypeOK, Listener PROVE TypeOK'
<1> USE ContentsType, MessagesType, PacketsType, StreamsType
    DEF TypeOK, apiVars, senderVars, wireVars, clientVars, HandlerPhases,
        ListenerPhases
<1>1. ASSUME NEW c \in Clients, Dial(c)
      PROVE  TypeOK'
  BY <1>1 DEF Dial
<1>2. ASSUME NEW c \in Clients, OpenStream(c)
      PROVE  TypeOK'
  BY <1>2 DEF OpenStream
<1>3. ASSUME NEW c \in Clients, OpenStreamFails(c)
      PROVE  TypeOK'
  BY <1>3 DEF OpenStreamFails
<1>4. ASSUME NEW c \in Clients, SendAddress(c)
      PROVE  TypeOK'
  BY <1>4 DEF SendAddress
<1>5. ASSUME NEW c \in Clients, ListenFails(c)
      PROVE  TypeOK'
  BY <1>5 DEF ListenFails
<1>6. ASSUME NEW k \in sending, Recv(k)
      PROVE  TypeOK'
  BY <1>6 DEF Recv
<1>7. ASSUME NEW k \in handling, Process(k)
      PROVE  TypeOK'
  <2>1. k.cl \in Clients /\ k.msg.name \in Policies /\ k.msg.pol \in Contents
    BY <1>7
  <2>2. resources' \in [Clients -> [Policies -> Contents]]
    <3>1. Apply(resources[k.cl], k.msg) \in [Policies -> Contents]
      BY <2>1 DEF Apply
    <3>2. QED
      BY <1>7, <2>1, <3>1 DEF Process
  <2>3. seen' \in [Clients -> [Policies -> 0..MaxRev]]
    BY <1>7, <2>1 DEF Process
  <2>4. last' \in [Clients -> [Policies -> Contents]]
    BY <1>7, <2>1 DEF Process
  <2>5. QED
    BY <1>7, <2>2, <2>3, <2>4 DEF Process
<1>8. QED
  BY <1>1, <1>2, <1>3, <1>4, <1>5, <1>6, <1>7 DEF Listener

\* Faults keep the type.
LEMMA FaultsTypeOK == ASSUME TypeOK, Faults PROVE TypeOK'
<1> USE ContentsType, ReconcilesType, StreamsType, BoundsAssumption
    DEF TypeOK, apiVars, senderVars, wireVars, clientVars, HandlerPhases,
        ListenerPhases, Fault
<1>1. ASSUME NEW c \in Clients, StreamBreaks(c)
      PROVE  TypeOK'
  BY <1>1 DEF StreamBreaks
<1>2. ASSUME NEW c \in Clients, ClientRestarts(c)
      PROVE  TypeOK'
  BY <1>2 DEF ClientRestarts
<1>3. CASE ControlPlaneCrashes
  <2>1. handler' \in [Clients -> [Streams -> HandlerPhases]]
    BY <1>3 DEF ControlPlaneCrashes
  <2>2. alive' \in [Clients -> BOOLEAN]
    BY <1>3 DEF ControlPlaneCrashes
  <2>3. /\ policies' \in [Policies -> Contents]
        /\ cxnsMap' \in [Clients -> 0..MaxStreams]
        /\ healthCheckMap' \in [Clients -> {"none", "fresh", "stale"}]
    BY <1>3 DEF ControlPlaneCrashes
  <2>4. /\ queue' = {} /\ rec' = Idle /\ up' = FALSE /\ inactive' = {}
        /\ sends' = {} /\ sending' = {} /\ faults' \in 0..MaxFaults
    BY <1>3 DEF ControlPlaneCrashes
  <2>5. UNCHANGED <<api, phase, stream, beating, handling, resources, seen, last, gap>>
    BY <1>3 DEF ControlPlaneCrashes
  <2>6. QED
    BY <2>1, <2>2, <2>3, <2>4, <2>5
<1>4. CASE ControlPlaneStarts
  BY <1>4 DEF ControlPlaneStarts
<1>5. QED
  BY <1>1, <1>2, <1>3, <1>4 DEF Faults

\* Every step of the specification keeps the type.
LEMMA NextTypeOK == ASSUME TypeOK, [Next]_vars PROVE TypeOK'
<1>1. CASE UNCHANGED vars
  BY <1>1 DEF TypeOK, vars
<1>2. CASE Next
  BY <1>2, ReconcileTypeOK, SenderTypeOK, ListenerTypeOK, FaultsTypeOK DEF Next
<1>3. QED
  BY <1>1, <1>2

\* The variables of reconciler, sender and listeners keep their types, for any
\* policies, clients and bounds.
THEOREM TypeCorrect == Spec => []TypeOK
<1>1. QED
  BY InitTypeOK, NextTypeOK, PTL DEF Spec

-----------------------------------------------------------------------------
(* The store of the sender agrees with the API server *)

\* The inductive invariant: what the reconcile in progress read is current
\* unless its name is queued again, and a stopped control plane has nothing.
StoreInv ==
  /\ StoredIsCurrentOrPending
  /\ \A p \in Policies :
       rec.step = "got" /\ rec.name = p => p \in queue \/ rec.pol = api[p]
  /\ ~up => rec = Idle /\ policies = [p \in Policies |-> NoPolicy]

\* NewPolicySender starts with the store and the API server both empty.
LEMMA InitStoreInv == Init => StoreInv
BY DEF Init, StoreInv, StoredIsCurrentOrPending, Settled, NoPolicy, Idle, ServedModes

\* Every step keeps the store current, or its policy queued or being reconciled:
\* one case for each step of Reconcile, for an edit and for a crash or start.
LEMMA NextStoreInv == ASSUME TypeOK, StoreInv, [Next]_vars PROVE StoreInv'
<1> USE ReconcilesType DEF StoreInv, StoredIsCurrentOrPending, Settled, apiVars,
      senderVars, wireVars, clientVars
<1>1. CASE UNCHANGED <<api, queue, rec, up, policies>>
  BY <1>1
<1>2. ASSUME NEW p \in Policies, NEW m \in Modes \cup {"absent"}, Edit(p, m)
      PROVE  StoreInv'
  <2>1. UNCHANGED <<rec, up, policies>>
    BY <1>2 DEF Edit
  <2>2. \A q \in Policies : q # p => api'[q] = api[q]
    BY <1>2 DEF Edit, TypeOK
  <2>3. queue \subseteq queue' /\ (up => p \in queue')
    BY <1>2 DEF Edit
  <2>4. CASE up
    BY <2>1, <2>2, <2>3, <2>4
  <2>5. CASE ~up
    BY <2>1, <2>5 DEF Idle
  <2>6. QED
    BY <2>4, <2>5
<1>3. ASSUME NEW p \in Policies, ReconcileGet(p)
      PROVE  StoreInv'
  BY <1>3 DEF ReconcileGet, TypeOK, Idle
<1>4. ASSUME NEW p \in Policies, ReconcileGetFails(p)
      PROVE  StoreInv'
  BY <1>4 DEF ReconcileGetFails, TypeOK, Idle
<1>5. CASE ReconcileRequeue
  BY <1>5 DEF ReconcileRequeue, TypeOK, Idle
<1>6. CASE ReconcileDelete
  BY <1>6 DEF ReconcileDelete, TypeOK, Idle, NoPolicy, ServedModes
<1>7. CASE ReconcileSkip
  BY <1>7 DEF ReconcileSkip, TypeOK, Idle
<1>8. CASE ReconcileStore
  BY <1>8 DEF ReconcileStore, TypeOK, Idle, ServedModes
<1>9. CASE ControlPlaneCrashes
  BY <1>9 DEF ControlPlaneCrashes, Idle
<1>10. CASE ControlPlaneStarts
  <2>1. /\ rec = Idle /\ rec' = rec
        /\ policies = [p \in Policies |-> NoPolicy] /\ policies' = policies
        /\ up' = TRUE /\ api' = api
    BY <1>10 DEF ControlPlaneStarts
  <2>2. ASSUME NEW p \in Policies
        PROVE  p \in queue' \/ Settled(p)'
    <3>1. CASE api[p].mode = "absent"
      BY <2>1, <3>1 DEF NoPolicy, ServedModes
    <3>2. CASE api[p].mode # "absent"
      BY <1>10, <3>2 DEF ControlPlaneStarts
    <3>3. QED
      BY <3>1, <3>2
  <2>3. QED
    BY <2>1, <2>2 DEF Idle
<1>11. CASE Sender
  BY <1>1, <1>11 DEF Sender, SendPolicy, SendGivesUp, StreamSnapshot,
     StreamRegister, StreamEnds, HealthCheck, HealthExpires, FlushScan, FlushDelete
<1>12. CASE Listener
  BY <1>1, <1>12 DEF Listener, Dial, OpenStream, OpenStreamFails, SendAddress,
     ListenFails, Recv, Process
<1>13. CASE \E c \in Clients : StreamBreaks(c) \/ ClientRestarts(c)
  BY <1>1, <1>13 DEF StreamBreaks, ClientRestarts
<1>14. QED
  BY <1>1, <1>2, <1>3, <1>4, <1>5, <1>6, <1>7, <1>8, <1>9, <1>10, <1>11, <1>12,
     <1>13 DEF Next, Reconcile, Faults, vars

\* For any number of policies, clients, edits and faults, what the sender stores
\* for a policy agrees with the API server unless the policy's name is queued or
\* being reconciled.
THEOREM StoreAgrees == Spec => []StoredIsCurrentOrPending
<1>1. StoreInv => StoredIsCurrentOrPending
  BY DEF StoreInv
<1>2. QED
  BY <1>1, TypeCorrect, InitStoreInv, NextStoreInv, PTL DEF Spec

-----------------------------------------------------------------------------
(* No update is lost outside the registration window *)

\* How the streams of a client, their handlers and the entry of the client in
\* cxnsMap are related.
StreamInv ==
  \A c \in Clients :
    /\ cxnsMap[c] <= stream[c]
    /\ cxnsMap[c] # 0 => handler[c][cxnsMap[c]] \in {"registered", "ended"}
    /\ \A n \in Streams : n > stream[c] => handler[c][n] = "none"
    /\ alive[c] => stream[c] # 0
    /\ alive[c] /\ phase[c] = "open" => handler[c][stream[c]] = "recv"

\* The policies are on their way from the snapshot on, not only from the
\* registration on: that is what makes NoLostUpdate inductive.
Served(c) ==
  /\ alive[c]
  /\ cxnsMap[c] = stream[c] \/ handler[c][stream[c]] = "snapshot"

Reaches(c, p) ==
  Served(c) /\ policies[p].mode # "absent" /\ p \notin gap[c]
    => InFlight(c, p, policies[p]) \/ seen[c][p] >= policies[p].ver

DeliveryInv == \A c \in Clients, p \in Policies : Reaches(c, p)

\* At the start there are no streams and nothing to deliver.
LEMMA InitDelivery == Init => StreamInv /\ DeliveryInv
BY DEF Init, StreamInv, DeliveryInv, Reaches, Served

\* Streams, handlers and cxnsMap stay related.
LEMMA NextStreamInv == ASSUME TypeOK, StreamInv, [Next]_vars PROVE StreamInv'
<1> USE StreamsType DEF StreamInv, TypeOK, apiVars, senderVars, wireVars, clientVars
<1>1. CASE UNCHANGED <<cxnsMap, stream, handler, alive, phase>>
  BY <1>1
<1>2. CASE Reconcile \/ \E p \in Policies, m \in Modes \cup {"absent"} : Edit(p, m)
  BY <1>1, <1>2 DEF Reconcile, Edit, ReconcileGet, ReconcileGetFails,
     ReconcileRequeue, ReconcileDelete, ReconcileSkip, ReconcileStore
<1>3. ASSUME NEW c \in Clients, NEW n \in Streams, StreamSnapshot(c, n)
      PROVE  StreamInv'
  BY <1>3 DEF StreamSnapshot, Snapshot
<1>4. ASSUME NEW c \in Clients, NEW n \in Streams, StreamRegister(c, n)
      PROVE  StreamInv'
  BY <1>4 DEF StreamRegister
<1>5. ASSUME NEW c \in Clients, NEW n \in Streams, StreamEnds(c, n)
      PROVE  StreamInv'
  BY <1>5 DEF StreamEnds
<1>6. CASE FlushDelete
  BY <1>6 DEF FlushDelete
<1>7. ASSUME NEW c \in Clients, OpenStream(c)
      PROVE  StreamInv'
  BY <1>7 DEF OpenStream
<1>8. ASSUME NEW c \in Clients, SendAddress(c)
      PROVE  StreamInv'
  BY <1>8 DEF SendAddress
<1>9. ASSUME NEW c \in Clients,
             Dial(c) \/ OpenStreamFails(c) \/ ListenFails(c)
      PROVE  StreamInv'
  BY <1>9 DEF Dial, OpenStreamFails, ListenFails
<1>10. ASSUME NEW c \in Clients, StreamBreaks(c) \/ ClientRestarts(c)
      PROVE  StreamInv'
  <2>1. UNCHANGED <<cxnsMap, stream, handler>>
    BY <1>10 DEF StreamBreaks, ClientRestarts
  <2>2. /\ alive'[c] = FALSE
        /\ \A d \in Clients : d # c => alive'[d] = alive[d] /\ phase'[d] = phase[d]
    <3>1. CASE StreamBreaks(c)
      BY <3>1 DEF StreamBreaks
    <3>2. CASE ClientRestarts(c)
      BY <3>2 DEF ClientRestarts
    <3>3. QED
      BY <1>10, <3>1, <3>2
  <2>3. ASSUME NEW d \in Clients
        PROVE  /\ alive'[d] => stream'[d] # 0
               /\ alive'[d] /\ phase'[d] = "open" => handler'[d][stream'[d]] = "recv"
    <3>1. CASE d = c
      BY <2>2, <3>1
    <3>2. CASE d # c
      BY <2>1, <2>2, <3>2
    <3>3. QED
      BY <3>1, <3>2
  <2>4. QED
    BY <2>1, <2>3
<1>11. CASE ControlPlaneCrashes
  BY <1>11 DEF ControlPlaneCrashes
<1>12. CASE ControlPlaneStarts
  BY <1>1, <1>12 DEF ControlPlaneStarts
<1>13. CASE \E m \in sends : SendPolicy(m)
  BY <1>1, <1>13 DEF SendPolicy, Fanout
<1>14. CASE \E k \in sending : SendGivesUp(k) \/ Recv(k)
  BY <1>1, <1>14 DEF SendGivesUp, Recv
<1>15. CASE \E k \in handling : Process(k)
  BY <1>1, <1>15 DEF Process
<1>16. CASE \/ \E c \in Clients, age \in Ages : HealthCheck(c, age)
            \/ \E c \in Clients : HealthExpires(c)
            \/ FlushScan
  BY <1>1, <1>16 DEF HealthCheck, HealthExpires, FlushScan
<1>17. CASE UNCHANGED vars
  BY <1>1, <1>17 DEF vars
<1>18. QED
  BY <1>2, <1>3, <1>4, <1>5, <1>6, <1>7, <1>8, <1>9, <1>10, <1>11, <1>12, <1>13,
     <1>14, <1>15, <1>16, <1>17 DEF Next, Sender, Listener, Faults

\* A step that keeps the policy of a live client on its way keeps Reaches.
LEMMA ReachesFrame ==
  ASSUME NEW c \in Clients, NEW p \in Policies, Reaches(c, p),
         Served(c)' => Served(c),
         stream[c]' = stream[c], policies'[p] = policies[p], seen'[c] = seen[c],
         gap[c] \subseteq gap[c]',
         Served(c)' /\ p \notin gap[c]' /\ InFlight(c, p, policies[p])
           => InFlight(c, p, policies[p])'
  PROVE  Reaches(c, p)'
BY DEF Reaches

\* Steps that take a message from one goroutine to the next.
LEMMA InFlightFrame ==
  ASSUME NEW c \in Clients, NEW p \in Policies, stream[c]' = stream[c],
         sends \subseteq sends', sending \cup handling \subseteq sending' \cup handling',
         policies'[p] = policies[p]
  PROVE  InFlight(c, p, policies[p]) => InFlight(c, p, policies[p])'
BY DEF InFlight

\* Versions are natural numbers, before and after a step.
LEMMA SeenType ==
  ASSUME TypeOK, [Next]_vars, NEW c \in Clients, NEW p \in Policies
  PROVE  seen[c][p] \in Nat /\ seen'[c][p] \in Nat
BY NextTypeOK, BoundsAssumption DEF TypeOK

\* Every step keeps each stored policy handled by, or on its way to, the clients
\* whose stream is registered or has had its snapshot taken.
LEMMA NextDeliveryInv ==
  ASSUME TypeOK, StreamInv, DeliveryInv, [Next]_vars PROVE DeliveryInv'
<1> SUFFICES ASSUME NEW c \in Clients, NEW p \in Policies PROVE Reaches(c, p)'
  BY DEF DeliveryInv
<1>r. Reaches(c, p)
  BY DEF DeliveryInv
<1> USE DEF apiVars, senderVars, wireVars, clientVars
<1>1. CASE /\ UNCHANGED <<stream, policies, seen, gap>>
           /\ Served(c)' => Served(c)
           /\ sends \subseteq sends'
           /\ sending \cup handling \subseteq sending' \cup handling'
  BY <1>1, <1>r, ReachesFrame, InFlightFrame
<1>2. CASE /\ UNCHANGED <<stream, policies, seen, gap, sends, sending, handling>>
           /\ UNCHANGED <<alive, cxnsMap, handler>>
  BY <1>2, <1>1 DEF Served
<1>3. ASSUME NEW q \in Policies, NEW m \in Modes \cup {"absent"},
             Edit(q, m) \/ ReconcileGet(q) \/ ReconcileGetFails(q)
      PROVE  Reaches(c, p)'
  BY <1>3, <1>2 DEF Edit, ReconcileGet, ReconcileGetFails
<1>4. CASE ReconcileRequeue \/ ReconcileSkip
  BY <1>4, <1>2 DEF ReconcileRequeue, ReconcileSkip
<1>5. ASSUME rec.step = "got",
             policies'[rec.name].mode = "absent"
               \/ [name |-> rec.name, pol |-> policies'[rec.name]] \in sends',
             \A q \in Policies : q # rec.name => policies'[q] = policies[q],
             sends \subseteq sends',
             UNCHANGED <<stream, seen, gap, sending, handling, alive, cxnsMap, handler>>
      PROVE  Reaches(c, p)'
  <2>1. CASE p = rec.name
    BY <1>5, <2>1 DEF Reaches, InFlight
  <2>2. CASE p # rec.name
    BY <1>5, <1>r, <2>2, ReachesFrame, InFlightFrame DEF Served
  <2>3. QED
    BY <2>1, <2>2
<1>6. CASE ReconcileDelete
  BY <1>6, <1>5, ReconcilesType DEF ReconcileDelete, TypeOK, NoPolicy
<1>7. CASE ReconcileStore
  BY <1>7, <1>5, ReconcilesType DEF ReconcileStore, TypeOK
<1>8. ASSUME NEW m \in sends, SendPolicy(m)
      PROVE  Reaches(c, p)'
  <2>1. /\ UNCHANGED <<stream, policies, seen, alive, cxnsMap, handler, handling>>
        /\ sending \subseteq sending' /\ sends' = sends \ {m}
    BY <1>8 DEF SendPolicy, Fanout
  <2>2. gap[c] \subseteq gap[c]'
    BY <1>8 DEF SendPolicy, Fanout, TypeOK
  <2>3. CASE m # [name |-> p, pol |-> policies[p]]
    <3>1. InFlight(c, p, policies[p]) => InFlight(c, p, policies[p])'
      BY <2>1, <2>3 DEF InFlight
    <3>2. QED
      BY <1>r, <2>1, <2>2, <3>1, ReachesFrame DEF Served
  <2>4. CASE m = [name |-> p, pol |-> policies[p]] /\ Served(c)
    <3>1. CASE cxnsMap[c] = stream[c]
      <4>1. stream[c] # 0
        BY <2>4 DEF Served, StreamInv
      <4>2. [cl |-> c, strm |-> stream[c], msg |-> m, via |-> "SendPolicy"] \in sending'
        BY <1>8, <3>1, <4>1 DEF SendPolicy, Fanout
      <4>3. QED
        BY <2>1, <2>4, <4>2 DEF Reaches, InFlight
    <3>2. CASE handler[c][stream[c]] = "snapshot"
      <4>1. stream[c] # 0
        BY <2>4 DEF Served, StreamInv
      <4>2. p \in gap'[c]
        BY <1>8, <2>4, <3>2, <4>1 DEF SendPolicy, Fanout
      <4>3. QED
        BY <4>2 DEF Reaches
    <3>3. QED
      BY <2>4, <3>1, <3>2 DEF Served
  <2>5. CASE ~Served(c)
    BY <2>1, <2>5 DEF Reaches, Served
  <2>6. QED
    BY <2>3, <2>4, <2>5
<1>9. ASSUME NEW k \in sending, SendGivesUp(k)
      PROVE  Reaches(c, p)'
  <2>1. UNCHANGED <<stream, policies, seen, gap, alive, cxnsMap, handler, sends, handling>>
    BY <1>9 DEF SendGivesUp
  <2>2. Served(c) /\ InFlight(c, p, policies[p]) => InFlight(c, p, policies[p])'
    BY <1>9, <2>1 DEF SendGivesUp, InFlight, Served
  <2>3. Served(c)' <=> Served(c)
    BY <2>1 DEF Served
  <2>4. QED
    BY <1>r, <2>1, <2>2, <2>3, ReachesFrame
<1>10. ASSUME NEW d \in Clients, NEW n \in Streams, StreamSnapshot(d, n)
      PROVE  Reaches(c, p)'
  <2>1. /\ UNCHANGED <<stream, policies, seen, gap, alive, cxnsMap, sends, handling>>
        /\ sending \subseteq sending'
    BY <1>10 DEF StreamSnapshot, Snapshot
  <2>2. CASE c = d /\ n = stream[c]
    <3>1. policies[p].mode # "absent" =>
            [cl |-> c, strm |-> n, msg |-> [name |-> p, pol |-> policies[p]],
             via |-> "snapshot"] \in sending'
      BY <1>10, <2>2 DEF StreamSnapshot, Snapshot
    <3>2. QED
      BY <2>1, <2>2, <3>1 DEF Reaches, InFlight
  <2>3. CASE ~(c = d /\ n = stream[c])
    <3>1. handler'[c][stream[c]] = handler[c][stream[c]]
      BY <1>10, <2>3 DEF StreamSnapshot, Snapshot, TypeOK
    <3>2. Served(c)' => Served(c)
      BY <2>1, <3>1 DEF Served
    <3>3. QED
      BY <1>1, <2>1, <3>2
  <2>4. QED
    BY <2>2, <2>3
<1>11. ASSUME NEW d \in Clients, NEW n \in Streams, StreamRegister(d, n)
      PROVE  Reaches(c, p)'
  <2>1. UNCHANGED <<stream, policies, seen, gap, alive, sends, sending, handling>>
    BY <1>11 DEF StreamRegister
  <2>2. Served(c)' => Served(c)
    <3>1. CASE c = d /\ n = stream[c]
      BY <1>11, <2>1, <3>1 DEF StreamRegister, Served, TypeOK
    <3>2. CASE c # d
      BY <1>11, <2>1, <3>2 DEF StreamRegister, Served, TypeOK
    <3>3. CASE c = d /\ n # stream[c]
      BY <1>11, <2>1, <3>3 DEF StreamRegister, Served, TypeOK
    <3>4. QED
      BY <3>1, <3>2, <3>3
  <2>3. QED
    BY <1>1, <2>1, <2>2
<1>12. ASSUME NEW d \in Clients, NEW n \in Streams, StreamEnds(d, n)
      PROVE  Reaches(c, p)'
  <2>1. UNCHANGED <<stream, policies, seen, gap, alive, cxnsMap, sends, sending, handling>>
    BY <1>12 DEF StreamEnds
  <2>2. Served(c)' => Served(c)
    BY <1>12, <2>1 DEF StreamEnds, Served, TypeOK
  <2>3. QED
    BY <1>1, <2>1, <2>2
<1>13. CASE \/ \E d \in Clients, age \in Ages : HealthCheck(d, age)
            \/ \E d \in Clients : HealthExpires(d)
            \/ FlushScan \/ ControlPlaneStarts
  BY <1>13, <1>2 DEF HealthCheck, HealthExpires, FlushScan, ControlPlaneStarts
<1>14. CASE FlushDelete
  <2>1. UNCHANGED <<stream, policies, seen, gap, alive, handler, sends, sending, handling>>
    BY <1>14 DEF FlushDelete
  <2>2. Served(c)' => Served(c)
    BY <1>14, <2>1 DEF FlushDelete, Served, StreamInv
  <2>3. QED
    BY <1>1, <2>1, <2>2
<1>15. ASSUME NEW d \in Clients, Dial(d) \/ OpenStreamFails(d) \/ ListenFails(d)
      PROVE  Reaches(c, p)'
  BY <1>15, <1>2 DEF Dial, OpenStreamFails, ListenFails
<1>16. ASSUME NEW d \in Clients, OpenStream(d)
      PROVE  Reaches(c, p)'
  <2>1. /\ UNCHANGED <<policies, seen, sends, sending, handling, cxnsMap>>
        /\ c # d => UNCHANGED <<stream[c], gap[c], alive[c], handler[c]>>
    BY <1>16 DEF OpenStream, TypeOK
  <2>2. CASE c # d
    <3>1. InFlight(c, p, policies[p]) => InFlight(c, p, policies[p])'
      BY <2>1, <2>2, InFlightFrame
    <3>2. Served(c)' => Served(c)
      BY <2>1, <2>2 DEF Served
    <3>3. QED
      BY <1>r, <2>1, <2>2, <3>1, <3>2, ReachesFrame
  <2>3. CASE c = d
    <3>1. /\ stream'[c] = stream[c] + 1 /\ stream[c] \in Nat
          /\ handler'[c][stream'[c]] = "recv"
      BY <1>16, <2>3, StreamsType DEF OpenStream, TypeOK
    <3>2. cxnsMap'[c] # stream'[c]
      BY <2>1, <3>1 DEF StreamInv, TypeOK
    <3>3. QED
      BY <3>1, <3>2 DEF Reaches, Served
  <2>4. QED
    BY <2>2, <2>3
<1>17. ASSUME NEW d \in Clients, SendAddress(d)
      PROVE  Reaches(c, p)'
  <2>1. UNCHANGED <<policies, seen, gap, sends, sending, handling, cxnsMap, stream, alive>>
    BY <1>17 DEF SendAddress
  <2>2. Served(c)' => Served(c)
    BY <1>17, <2>1 DEF SendAddress, Served, TypeOK
  <2>3. QED
    BY <1>1, <2>1, <2>2
<1>18. ASSUME NEW k \in sending, Recv(k)
      PROVE  Reaches(c, p)'
  <2>1. /\ UNCHANGED <<policies, seen, gap, sends, cxnsMap, stream, alive, handler>>
        /\ sending \cup handling \subseteq sending' \cup handling'
    BY <1>18 DEF Recv
  <2>2. QED
    BY <1>1, <2>1 DEF Served
<1>19. ASSUME NEW k \in handling, Process(k)
      PROVE  Reaches(c, p)'
  <2>1. UNCHANGED <<policies, gap, sends, sending, cxnsMap, stream, alive, handler>>
    BY <1>19 DEF Process
  <2>2. Served(c)' <=> Served(c)
    BY <2>1 DEF Served
  <2>3. k.cl \in Clients /\ k.msg.name \in Policies /\ k.msg.pol.ver \in Nat
    BY PacketsType, MessagesType, ContentsType, BoundsAssumption DEF TypeOK
  <2>4. seen'[c][p] >= seen[c][p]
    BY <1>19, <2>3, BoundsAssumption DEF Process, TypeOK
  <2>5. CASE k.cl = c /\ k.msg = [name |-> p, pol |-> policies[p]]
    <3>1. seen'[c][p] >= policies[p].ver
      BY <1>19, <2>3, <2>5, BoundsAssumption DEF Process, TypeOK
    <3>2. QED
      BY <2>1, <3>1 DEF Reaches
  <2>6. CASE ~(k.cl = c /\ k.msg = [name |-> p, pol |-> policies[p]])
    <3>1. InFlight(c, p, policies[p]) => InFlight(c, p, policies[p])'
      BY <1>19, <2>1, <2>6 DEF InFlight, Process
    <3>2. seen[c][p] >= policies[p].ver => seen'[c][p] >= policies[p].ver
      <4>1. policies[p].ver \in Nat
        BY ContentsType, BoundsAssumption DEF TypeOK
      <4>2. seen[c][p] \in Nat /\ seen'[c][p] \in Nat
        BY SeenType
      <4>3. QED
        BY <2>4, <4>1, <4>2
    <3>3. QED
      BY <1>r, <2>1, <2>2, <3>1, <3>2 DEF Reaches
  <2>7. QED
    BY <2>5, <2>6
<1>20. ASSUME NEW d \in Clients, StreamBreaks(d)
      PROVE  Reaches(c, p)'
  <2>1. UNCHANGED <<policies, seen, gap, sends, sending, handling, cxnsMap, stream, handler>>
    BY <1>20 DEF StreamBreaks
  <2>2. Served(c)' => Served(c)
    BY <1>20, <2>1 DEF StreamBreaks, Served, TypeOK
  <2>3. QED
    BY <1>1, <2>1, <2>2
<1>21. ASSUME NEW d \in Clients, ClientRestarts(d)
      PROVE  Reaches(c, p)'
  <2>1. UNCHANGED <<policies, gap, sends, sending, cxnsMap, stream, handler>>
    BY <1>21 DEF ClientRestarts
  <2>2. CASE c = d
    BY <1>21, <2>2 DEF ClientRestarts, Reaches, Served, TypeOK
  <2>3. CASE c # d
    <3>1. seen'[c] = seen[c] /\ alive'[c] = alive[c]
      BY <1>21, <2>3 DEF ClientRestarts, TypeOK
    <3>2. InFlight(c, p, policies[p]) => InFlight(c, p, policies[p])'
      BY <1>21, <2>1, <2>3 DEF ClientRestarts, InFlight
    <3>3. Served(c)' => Served(c)
      BY <2>1, <3>1 DEF Served
    <3>4. QED
      BY <1>r, <2>1, <3>1, <3>2, <3>3, ReachesFrame
  <2>4. QED
    BY <2>2, <2>3
<1>22. CASE ControlPlaneCrashes
  BY <1>22 DEF ControlPlaneCrashes, Reaches, Served
<1>23. CASE UNCHANGED vars
  BY <1>2, <1>23 DEF vars
<1>24. QED
  BY <1>3, <1>4, <1>6, <1>7, <1>8, <1>9, <1>10, <1>11, <1>12, <1>13, <1>14, <1>15,
     <1>16, <1>17, <1>18, <1>19, <1>20, <1>21, <1>22, <1>23
     DEF Next, Reconcile, Sender, Listener, Faults

\* For any policies, clients, edits and faults: every policy the sender stores is
\* handled by, or on its way to, every live client, unless its SendPolicy ran
\* between the snapshot for the client's stream and its registration.
THEOREM NothingLost == Spec => []NoLostUpdate
<1>1. StreamInv /\ DeliveryInv => NoLostUpdate
  BY DEF StreamInv, DeliveryInv, Reaches, Served, NoLostUpdate, Live
<1>2. QED
  BY <1>1, TypeCorrect, InitDelivery, NextStreamInv, NextDeliveryInv, PTL DEF Spec

-----------------------------------------------------------------------------
(* A drained client holds what is stored *)

\* x is an older version of a policy than y, or the same.
OldOf(x, y) == x.ver <= y.ver /\ (x.ver = y.ver => x = y)

\* x was made of policy p by an edit, and nothing that came after is older: neither
\* what the API server has, nor what is being reconciled, nor what is stored.
Known(p, x) ==
  /\ OldOf(x, api[p])
  /\ rec.step = "got" /\ rec.name = p => OldOf(x, rec.pol)
  /\ policies[p].mode # "absent" => OldOf(x, policies[p])

\* Everything that reconciler, sender, goroutines and listeners have of a policy is
\* known, and a listener holds what it handled last if it has a processor for it.
OriginInv ==
  /\ \A p \in Policies :
       /\ Known(p, NoPolicy) /\ Known(p, policies[p])
       /\ policies[p].mode = "absent" => policies[p] = NoPolicy
  /\ rec.step = "got" => OldOf(rec.pol, api[rec.name])
  /\ \A m \in sends : Known(m.name, m.pol)
  /\ \A k \in sending \cup handling : Known(k.msg.name, k.msg.pol)
  /\ \A c \in Clients, p \in Policies :
       /\ Known(p, last[c][p])
       /\ \E x \in Contents : Known(p, x) /\ x.ver = seen[c][p]
       /\ last[c][p].mode \in Processors => resources[c][p] = last[c][p]

\* Everything starts as the policy of version 0 that is not there.
LEMMA InitOrigin == Init => OriginInv
<1> SUFFICES ASSUME Init PROVE OriginInv
  OBVIOUS
<1>1. \A p \in Policies : Known(p, NoPolicy)
  <2>1. OldOf(NoPolicy, NoPolicy) /\ Idle.step # "got"
    BY DEF OldOf, NoPolicy, Idle
  <2>2. QED
    BY <2>1 DEF Init, Known
<1>2. NoPolicy.mode \notin Processors /\ NoPolicy.ver = 0
  BY ModesAssumption DEF NoPolicy, ServedModes
<1>3. QED
  BY <1>1, <1>2, ContentsType DEF Init, OriginInv, Idle

\* Versions of policies are natural numbers.
LEMMA VersionsAreNat ==
  ASSUME TypeOK
  PROVE  /\ \A p \in Policies : api[p].ver \in Nat /\ policies[p].ver \in Nat
         /\ rec.step = "got" => rec.name \in Policies /\ rec.pol \in Contents
         /\ \A x \in Contents : x.ver \in Nat
BY ContentsType, ReconcilesType, BoundsAssumption DEF TypeOK

\* What is known stays known: an edit makes a newer version, Get reads the newest,
\* StorePolicy stores what Get read, and a crash forgets.
LEMMA KnownStays ==
  ASSUME TypeOK, [Next]_vars, NEW p \in Policies, NEW x \in Contents, Known(p, x)
  PROVE  Known(p, x)'
<1> USE ReconcilesType, VersionsAreNat DEF Known, apiVars, senderVars, wireVars, clientVars
<1>1. CASE UNCHANGED <<api, rec, policies>>
  BY <1>1
<1>2. ASSUME NEW q \in Policies, NEW m \in Modes \cup {"absent"}, Edit(q, m)
      PROVE  Known(p, x)'
  <2>1. UNCHANGED <<rec, policies>>
    BY <1>2 DEF Edit
  <2>2. CASE p = q
    <3>1. api'[p].ver = api[p].ver + 1
      BY <1>2, <2>2 DEF Edit, TypeOK
    <3>2. OldOf(x, api'[p])
      BY <3>1 DEF OldOf
    <3>3. QED
      BY <2>1, <3>2
  <2>3. CASE p # q
    <3>1. api'[p] = api[p]
      BY <1>2, <2>3 DEF Edit, TypeOK
    <3>2. QED
      BY <2>1, <3>1
  <2>4. QED
    BY <2>2, <2>3
<1>3. ASSUME NEW q \in Policies, ReconcileGet(q) PROVE Known(p, x)'
  BY <1>3 DEF ReconcileGet
<1>4. ASSUME NEW q \in Policies, ReconcileGetFails(q) PROVE Known(p, x)'
  BY <1>4 DEF ReconcileGetFails
<1>5. CASE ReconcileRequeue \/ ReconcileSkip
  BY <1>5 DEF ReconcileRequeue, ReconcileSkip, Idle
<1>6. CASE ReconcileDelete
  BY <1>6 DEF ReconcileDelete, TypeOK, Idle, NoPolicy
<1>7. CASE ReconcileStore
  BY <1>7 DEF ReconcileStore, TypeOK, Idle
<1>8. CASE ControlPlaneCrashes
  BY <1>8 DEF ControlPlaneCrashes, Idle, NoPolicy
<1>9. CASE Sender
  BY <1>1, <1>9 DEF Sender, SendPolicy, SendGivesUp, StreamSnapshot,
     StreamRegister, StreamEnds, HealthCheck, HealthExpires, FlushScan, FlushDelete
<1>10. CASE Listener
  BY <1>1, <1>10 DEF Listener, Dial, OpenStream, OpenStreamFails, SendAddress,
     ListenFails, Recv, Process
<1>11. CASE ControlPlaneStarts \/ \E c \in Clients : StreamBreaks(c) \/ ClientRestarts(c)
  BY <1>1, <1>11 DEF ControlPlaneStarts, StreamBreaks, ClientRestarts
<1>12. CASE UNCHANGED vars
  BY <1>1, <1>12 DEF vars
<1>13. QED
  BY <1>2, <1>3, <1>4, <1>5, <1>6, <1>7, <1>8, <1>9, <1>10, <1>11, <1>12
     DEF Next, Reconcile, Faults

\* What the reconcile in progress read is known once it is stored or deleted.
LEMMA ReadIsKnown ==
  ASSUME TypeOK, OriginInv, ReconcileDelete \/ ReconcileStore,
         NEW p \in Policies, NEW x \in Contents, rec.name = p, rec.pol = x
  PROVE  Known(p, x)'
<1>1. /\ rec.step = "got" /\ rec' = Idle /\ api' = api
      /\ policies'[p] \in {NoPolicy, x}
  BY DEF ReconcileDelete, ReconcileStore, TypeOK, apiVars
<1>2. OldOf(x, api[p]) /\ OldOf(x, x)
  BY <1>1, VersionsAreNat DEF OriginInv, OldOf
<1>3. NoPolicy.mode = "absent" /\ Idle.step # "got"
  BY DEF NoPolicy, Idle
<1>4. QED
  BY <1>1, <1>2, <1>3 DEF Known

\* The store keeps known policies.
LEMMA NextStoredIsKnown ==
  ASSUME TypeOK, OriginInv, [Next]_vars
  PROVE  /\ \A p \in Policies :
              /\ Known(p, NoPolicy)' /\ Known(p, policies[p])'
              /\ policies'[p].mode = "absent" => policies'[p] = NoPolicy
         /\ rec'.step = "got" => OldOf(rec'.pol, api'[rec'.name])
<1> USE DEF apiVars, senderVars, wireVars, clientVars
<1>1. \A p \in Policies : Known(p, NoPolicy)' /\ policies[p] \in Contents
  BY KnownStays, ContentsType DEF OriginInv, TypeOK
<1>2. CASE UNCHANGED policies /\ (rec' = rec \/ rec'.step # "got") /\ UNCHANGED api
  BY <1>1, <1>2, KnownStays DEF OriginInv
<1>3. ASSUME NEW q \in Policies, NEW m \in Modes \cup {"absent"}, Edit(q, m)
      PROVE  /\ \A p \in Policies :
                  /\ Known(p, policies[p])'
                  /\ policies'[p].mode = "absent" => policies'[p] = NoPolicy
             /\ rec'.step = "got" => OldOf(rec'.pol, api'[rec'.name])
  <2>1. UNCHANGED <<rec, policies>>
    BY <1>3 DEF Edit
  <2>2. rec.step = "got" => OldOf(rec.pol, api'[rec.name])
    BY <1>3, VersionsAreNat DEF Edit, OriginInv, OldOf, TypeOK
  <2>3. \A p \in Policies : Known(p, policies[p])'
    BY <1>1, <2>1, KnownStays DEF OriginInv
  <2>4. QED
    BY <2>1, <2>2, <2>3 DEF OriginInv
<1>4. ASSUME NEW q \in Policies, ReconcileGet(q)
      PROVE  /\ \A p \in Policies :
                  /\ Known(p, policies[p])'
                  /\ policies'[p].mode = "absent" => policies'[p] = NoPolicy
             /\ rec'.step = "got" => OldOf(rec'.pol, api'[rec'.name])
  <2>1. UNCHANGED <<api, policies>> /\ rec' = [step |-> "got", name |-> q, pol |-> api[q]]
    BY <1>4 DEF ReconcileGet
  <2>2. OldOf(rec'.pol, api'[rec'.name])
    BY <2>1, VersionsAreNat DEF OldOf
  <2>3. \A p \in Policies : Known(p, policies[p])'
    BY <1>1, <2>1, KnownStays DEF OriginInv
  <2>4. QED
    BY <2>1, <2>2, <2>3 DEF OriginInv
<1>5. CASE ReconcileDelete \/ ReconcileStore
  <2>1. /\ rec' = Idle /\ rec.name \in Policies
        /\ \A p \in Policies : p # rec.name => policies'[p] = policies[p]
        /\ policies'[rec.name] \in {NoPolicy, rec.pol}
    BY <1>5, VersionsAreNat DEF ReconcileDelete, ReconcileStore, TypeOK
  <2>2. rec.pol.mode = "absent" => policies'[rec.name] = NoPolicy
    BY <1>5, <2>1 DEF ReconcileDelete, ReconcileStore, TypeOK, ServedModes
  <2>3. rec.pol \in Contents
    BY <1>5, VersionsAreNat DEF ReconcileDelete, ReconcileStore
  <2>4. ASSUME NEW p \in Policies PROVE Known(p, policies[p])'
    <3>1. CASE p = rec.name
      <4>1. \A x \in Contents : x \in {NoPolicy, rec.pol} => Known(p, x)'
        BY <1>1, <1>5, <3>1, ReadIsKnown
      <4>2. NoPolicy \in Contents
        BY ContentsType
      <4>3. QED
        BY <2>1, <2>3, <3>1, <4>1, <4>2 DEF Known
    <3>2. CASE p # rec.name
      BY <1>1, <2>1, <3>2, KnownStays DEF OriginInv, Known
    <3>3. QED
      BY <3>1, <3>2
  <2>5. \A p \in Policies : policies'[p].mode = "absent" => policies'[p] = NoPolicy
    BY <2>1, <2>2 DEF OriginInv
  <2>6. QED
    BY <1>1, <2>1, <2>4, <2>5 DEF Idle
<1>6. CASE ControlPlaneCrashes
  BY <1>1, <1>6 DEF ControlPlaneCrashes, Idle
<1>7. CASE \/ \E p \in Policies : ReconcileGetFails(p)
           \/ ReconcileRequeue \/ ReconcileSkip
  BY <1>2, <1>7 DEF ReconcileGetFails, ReconcileRequeue, ReconcileSkip, Idle
<1>8. CASE Sender
  BY <1>2, <1>8 DEF Sender, SendPolicy, SendGivesUp, StreamSnapshot,
     StreamRegister, StreamEnds, HealthCheck, HealthExpires, FlushScan, FlushDelete
<1>9. CASE Listener
  BY <1>2, <1>9 DEF Listener, Dial, OpenStream, OpenStreamFails, SendAddress,
     ListenFails, Recv, Process
<1>10. CASE ControlPlaneStarts \/ \E c \in Clients : StreamBreaks(c) \/ ClientRestarts(c)
  BY <1>2, <1>10 DEF ControlPlaneStarts, StreamBreaks, ClientRestarts
<1>11. CASE UNCHANGED vars
  BY <1>2, <1>11 DEF vars
<1>12. QED
  BY <1>1, <1>3, <1>4, <1>5, <1>6, <1>7, <1>8, <1>9, <1>10, <1>11
     DEF Next, Reconcile, Faults

\* Every message is of a known policy: it comes from Reconcile, from the store or from
\* another message.
LEMMA NextSentIsKnown ==
  ASSUME TypeOK, OriginInv, [Next]_vars
  PROVE  /\ \A m \in sends' : Known(m.name, m.pol)'
         /\ \A k \in sending' \cup handling' : Known(k.msg.name, k.msg.pol)'
<1> USE DEF apiVars, senderVars, wireVars, clientVars
<1> DEFINE NewMessage(m) == m \notin sends /\ \A k \in sending \cup handling : k.msg # m
<1>1. ASSUME NEW m, ~NewMessage(m) PROVE Known(m.name, m.pol)'
  <2>1. m \in Messages /\ Known(m.name, m.pol)
    BY <1>1, PacketsType DEF OriginInv, TypeOK
  <2>2. QED
    BY <2>1, MessagesType, KnownStays
<1>2. CASE /\ \A m \in sends' : ~NewMessage(m)
           /\ \A k \in sending' \cup handling' : ~NewMessage(k.msg)
  BY <1>1, <1>2
<1>3. CASE sends' \subseteq sends /\ sending' \cup handling' \subseteq sending \cup handling
  BY <1>2, <1>3
<1>4. CASE \/ \E p \in Policies, m \in Modes \cup {"absent"} : Edit(p, m)
           \/ \E p \in Policies : ReconcileGet(p) \/ ReconcileGetFails(p)
           \/ ReconcileRequeue \/ ReconcileSkip
  BY <1>3, <1>4 DEF Edit, ReconcileGet, ReconcileGetFails, ReconcileRequeue, ReconcileSkip
<1>5. CASE ReconcileDelete \/ ReconcileStore
  <2>1. /\ sends' = sends \cup {[name |-> rec.name, pol |-> rec.pol]}
        /\ UNCHANGED <<sending, handling>>
    BY <1>5 DEF ReconcileDelete, ReconcileStore
  <2>2. rec.name \in Policies /\ rec.pol \in Contents
    BY <1>5, VersionsAreNat DEF ReconcileDelete, ReconcileStore
  <2>3. ASSUME NEW m \in sends', m \notin sends PROVE Known(m.name, m.pol)'
    <3>1. m.name = rec.name /\ m.pol = rec.pol
      BY <2>1, <2>3
    <3>2. QED
      BY <1>5, <2>2, <3>1, ReadIsKnown
  <2>4. QED
    BY <1>1, <2>1, <2>3
<1>6. ASSUME NEW m \in sends, SendPolicy(m)
      PROVE  /\ \A l \in sends' : ~NewMessage(l)
             /\ \A k \in sending' \cup handling' : ~NewMessage(k.msg)
  <2>1. \A k \in Fanout(m) : k.msg = m
    BY DEF Fanout
  <2>2. QED
    BY <1>6, <2>1 DEF SendPolicy
<1>7. ASSUME NEW c \in Clients, NEW n \in Streams, StreamSnapshot(c, n)
      PROVE  /\ \A m \in sends' : Known(m.name, m.pol)'
             /\ \A k \in sending' \cup handling' : Known(k.msg.name, k.msg.pol)'
  <2>1. /\ UNCHANGED <<sends, handling, policies>>
        /\ sending' = sending \cup Snapshot(c, n)
    BY <1>7 DEF StreamSnapshot
  <2>2. \A k \in Snapshot(c, n) : k.msg.name \in Policies /\ k.msg.pol = policies[k.msg.name]
    BY DEF Snapshot
  <2>3. \A p \in Policies : Known(p, policies[p])'
    BY NextStoredIsKnown
  <2>4. QED
    BY <1>1, <2>1, <2>2, <2>3
<1>8. CASE \E k \in sending : SendGivesUp(k) \/ Recv(k)
  BY <1>3, <1>8 DEF SendGivesUp, Recv
<1>9. CASE \E k \in handling : Process(k)
  BY <1>3, <1>9 DEF Process
<1>10. CASE \/ \E c \in Clients, n \in Streams : StreamRegister(c, n) \/ StreamEnds(c, n)
            \/ \E c \in Clients, age \in Ages : HealthCheck(c, age)
            \/ \E c \in Clients : HealthExpires(c)
            \/ FlushScan \/ FlushDelete
  BY <1>3, <1>10 DEF StreamRegister, StreamEnds, HealthCheck, HealthExpires, FlushScan,
     FlushDelete
<1>11. CASE \/ \E c \in Clients : \/ Dial(c) \/ OpenStream(c) \/ OpenStreamFails(c)
                                  \/ SendAddress(c) \/ ListenFails(c)
            \/ Faults
  BY <1>3, <1>11 DEF Dial, OpenStream, OpenStreamFails, SendAddress, ListenFails, Faults,
     StreamBreaks, ClientRestarts, ControlPlaneCrashes, ControlPlaneStarts
<1>12. CASE UNCHANGED vars
  BY <1>3, <1>12 DEF vars
<1>13. QED
  BY <1>2, <1>4, <1>5, <1>6, <1>7, <1>8, <1>9, <1>10, <1>11, <1>12
     DEF Next, Reconcile, Sender, Listener

\* What a listener has handled is known, and is what it holds if it has a processor for
\* it.
LEMMA NextHandledIsKnown ==
  ASSUME TypeOK, OriginInv, [Next]_vars, NEW c \in Clients, NEW p \in Policies
  PROVE  /\ Known(p, last[c][p])'
         /\ \E x \in Contents : Known(p, x)' /\ x.ver = seen'[c][p]
         /\ last'[c][p].mode \in Processors => resources'[c][p] = last'[c][p]
<1> USE DEF apiVars, senderVars, wireVars, clientVars
<1>1. \A x \in Contents : Known(p, x) => Known(p, x)'
  BY KnownStays
<1>2. CASE UNCHANGED <<last[c][p], seen[c][p], resources[c][p]>>
  <2>1. last[c][p] \in Contents
    BY DEF TypeOK
  <2>2. QED
    BY <1>1, <1>2, <2>1 DEF OriginInv, Known
<1>3. ASSUME NEW k \in handling, Process(k)
      PROVE  /\ Known(p, last[c][p])'
             /\ \E x \in Contents : Known(p, x)' /\ x.ver = seen'[c][p]
             /\ last'[c][p].mode \in Processors => resources'[c][p] = last'[c][p]
  <2> DEFINE m == k.msg
  <2>1. /\ k.cl \in Clients /\ m.name \in Policies /\ m.pol \in Contents
        /\ Known(m.name, m.pol)
    BY PacketsType, MessagesType DEF TypeOK, OriginInv
  <2>2. CASE ~(k.cl = c /\ m.name = p)
    <3>1. UNCHANGED <<last[c][p], seen[c][p]>>
      BY <1>3, <2>1, <2>2 DEF Process, TypeOK
    <3>2. UNCHANGED resources[c][p]
      <4>1. Apply(resources[k.cl], m)[p] = resources[k.cl][p] \/ m.name = p
        BY <2>1 DEF Apply, TypeOK
      <4>2. resources' = [resources EXCEPT ![k.cl] = Apply(resources[k.cl], m)]
        BY <1>3 DEF Process
      <4>3. QED
        BY <2>1, <2>2, <4>1, <4>2 DEF TypeOK
    <3>3. QED
      BY <1>2, <3>1, <3>2
  <2>3. CASE k.cl = c /\ m.name = p
    <3>1. last'[c][p] = m.pol
      BY <1>3, <2>1, <2>3 DEF Process, TypeOK
    <3>2. m.pol.mode \in Processors => resources'[c][p] = m.pol
      <4>1. m.pol.mode \in Processors => Apply(resources[c], m)[p] = m.pol
        BY <2>1, <2>3, ModesAssumption DEF Apply, Delete, ServedModes, TypeOK
      <4>2. resources' = [resources EXCEPT ![c] = Apply(resources[c], m)]
        BY <1>3, <2>3 DEF Process
      <4>3. QED
        BY <4>1, <4>2 DEF TypeOK
    <3>3. seen'[c][p] \in {seen[c][p], m.pol.ver}
      BY <1>3, <2>1, <2>3 DEF Process, TypeOK
    <3>4. \E x \in Contents : Known(p, x)' /\ x.ver = seen'[c][p]
      <4>1. PICK x \in Contents : Known(p, x) /\ x.ver = seen[c][p]
        BY DEF OriginInv
      <4>2. Known(p, x)'
        BY <1>1, <4>1
      <4>3. \E y \in Contents : Known(p, y)' /\ y = m.pol
        BY <1>1, <2>1, <2>3
      <4>4. QED
        BY <3>3, <4>1, <4>2, <4>3
    <3>5. Known(p, last[c][p])'
      BY <1>1, <2>1, <2>3, <3>1 DEF Known
    <3>6. QED
      BY <3>1, <3>2, <3>4, <3>5
  <2>4. QED
    BY <2>2, <2>3
<1>4. ASSUME NEW d \in Clients, ClientRestarts(d)
      PROVE  /\ Known(p, last[c][p])'
             /\ \E x \in Contents : Known(p, x)' /\ x.ver = seen'[c][p]
             /\ last'[c][p].mode \in Processors => resources'[c][p] = last'[c][p]
  <2>1. CASE c # d
    BY <1>2, <1>4, <2>1 DEF ClientRestarts, TypeOK
  <2>2. CASE c = d
    <3>1. last'[c][p] = NoPolicy /\ seen'[c][p] = 0
      BY <1>4, <2>2 DEF ClientRestarts, TypeOK
    <3>2. NoPolicy \in Contents /\ NoPolicy.ver = 0 /\ NoPolicy.mode \notin Processors
      BY ContentsType, ModesAssumption DEF NoPolicy, ServedModes
    <3>3. Known(p, NoPolicy)'
      BY NextStoredIsKnown
    <3>4. \E x \in Contents : Known(p, x)' /\ x.ver = 0
      <4>1. \E x \in Contents : Known(p, x)' /\ x = NoPolicy
        BY <1>1, <3>2 DEF OriginInv
      <4>2. QED
        BY <3>2, <4>1
    <3>5. Known(p, last[c][p])'
      BY <3>1, <3>3 DEF Known
    <3>6. QED
      BY <3>1, <3>2, <3>4, <3>5
  <2>3. QED
    BY <2>1, <2>2
<1>5. CASE \/ \E q \in Policies, m \in Modes \cup {"absent"} : Edit(q, m)
           \/ Reconcile
  BY <1>2, <1>5 DEF Edit, Reconcile, ReconcileGet, ReconcileGetFails, ReconcileRequeue,
     ReconcileDelete, ReconcileSkip, ReconcileStore
<1>6. CASE Sender
  BY <1>2, <1>6 DEF Sender, SendPolicy, SendGivesUp, StreamSnapshot,
     StreamRegister, StreamEnds, HealthCheck, HealthExpires, FlushScan, FlushDelete
<1>7. CASE \/ \E d \in Clients : \/ Dial(d) \/ OpenStream(d) \/ OpenStreamFails(d)
                                 \/ SendAddress(d) \/ ListenFails(d) \/ StreamBreaks(d)
           \/ \E k \in sending : Recv(k)
           \/ ControlPlaneCrashes \/ ControlPlaneStarts
  BY <1>2, <1>7 DEF Dial, OpenStream, OpenStreamFails, SendAddress, ListenFails,
     StreamBreaks, Recv, ControlPlaneCrashes, ControlPlaneStarts
<1>8. CASE UNCHANGED vars
  BY <1>2, <1>8 DEF vars
<1>9. QED
  BY <1>3, <1>4, <1>5, <1>6, <1>7, <1>8 DEF Next, Listener, Faults

\* What reconciler, sender, goroutines and listeners have of a policy stays known.
LEMMA NextOrigin == ASSUME TypeOK, OriginInv, [Next]_vars PROVE OriginInv'
BY NextStoredIsKnown, NextSentIsKnown, NextHandledIsKnown DEF OriginInv, Known

\* A live client that has drained its messages has handled the stored version, which
\* is the newest there is, and holds it.
LEMMA DrainedHolds ==
  ASSUME TypeOK, StreamInv, DeliveryInv, OriginInv
  PROVE  DrainedIsCurrent
<1> SUFFICES ASSUME NEW c \in Clients, NEW p \in Policies, Live(c), Quiet(c, p),
                    p \notin gap[c], policies[p].mode \in Processors,
                    last[c][p].ver = seen[c][p]
             PROVE  resources[c][p] = policies[p]
  BY DEF DrainedIsCurrent
<1>1. Served(c) /\ policies[p].mode # "absent"
  BY ModesAssumption DEF Live, Served, ServedModes
<1>2. ~InFlight(c, p, policies[p])
  BY DEF Quiet, InFlight
<1>3. seen[c][p] >= policies[p].ver
  BY <1>1, <1>2 DEF DeliveryInv, Reaches
<1>4. seen[c][p] <= policies[p].ver
  BY <1>1 DEF OriginInv, Known, OldOf
<1>5. seen[c][p] \in Nat /\ policies[p].ver \in Nat
  BY VersionsAreNat, BoundsAssumption DEF TypeOK
<1>6. last[c][p].ver = policies[p].ver
  BY <1>3, <1>4, <1>5
<1>7. last[c][p] = policies[p]
  BY <1>1, <1>6 DEF OriginInv, Known, OldOf
<1>8. QED
  BY <1>7 DEF OriginInv

\* For any policies, clients, edits and faults: a live client that has nothing on its
\* way holds the policy as the sender stores it, unless its update fell in the
\* registration window or an older message was handled last.
THEOREM DrainedHoldsStored == Spec => []DrainedIsCurrent
<1>1. QED
  BY TypeCorrect, InitDelivery, NextStreamInv, NextDeliveryInv, InitOrigin, NextOrigin,
     DrainedHolds, PTL DEF Spec

-----------------------------------------------------------------------------
(* The refinement: each step of the control plane and of the listeners is  *)
(* a step of Replication or changes nothing that it speaks of.  It rests   *)
(* on OriginInv: what is being reconciled is never older than what is      *)
(* stored, and a policy that is deleted from the store leaves nothing.     *)

\* A message may reach a client if it waits to be fanned out, or is under way to it.
LEMMA InTransit ==
  /\ DOMAIN Transit = Clients
  /\ \A c \in Clients : \A m :
       m \in Transit[c] <=>
         m \in sends \/ \E k \in sending \cup handling : k.cl = c /\ k.msg = m
BY DEF Transit

\* The same after a step.
LEMMA InTransitNext ==
  /\ DOMAIN Transit' = Clients
  /\ \A c \in Clients : \A m :
       m \in Transit'[c] <=>
         m \in sends' \/ \E k \in sending' \cup handling' : k.cl = c /\ k.msg = m
BY DEF Transit

\* A step that adds no message and changes neither the store nor a sidecar is the
\* loss of messages.
LEMMA LoseStep ==
  ASSUME UNCHANGED <<policies, resources>>,
         \A c \in Clients : Transit'[c] \subseteq Transit[c]
  PROVE  Promise!Next
BY DEF Promise!Next, Promise!Lose, Promise!Lost

\* Nothing that the promise is about is changed.
LEMMA StutterStep ==
  ASSUME UNCHANGED <<policies, resources, sends, sending, handling>>
  PROVE  UNCHANGED Promise!vars
BY DEF Promise!vars, Transit

\* The empty start of sender and listeners is the empty start of the promise.
LEMMA InitMaps == Init => Promise!Init
BY DEF Init, Promise!Init, Promise!Empty, Promise!NoPolicy, NoPolicy, Transit

\* StorePolicy or DeletePolicy, with the message handed to SendPolicy, publishes.
LEMMA PublishStep ==
  ASSUME TypeOK, OriginInv, ReconcileDelete \/ ReconcileStore
  PROVE  Promise!Next
<1> DEFINE m == [name |-> rec.name, pol |-> rec.pol]
<1>1. rec.step = "got" /\ rec.name \in Policies /\ rec.pol \in Contents
  BY ReconcilesType DEF ReconcileDelete, ReconcileStore, TypeOK
<1>2. rec.pol.ver >= policies[rec.name].ver
  <2>1. OldOf(policies[rec.name], rec.pol)
    BY <1>1 DEF OriginInv, Known
  <2>2. QED
    BY <1>1, <2>1, VersionsAreNat DEF OldOf
<1>3. policies' = [policies EXCEPT ![rec.name] = Promise!Effect(rec.pol)]
  BY DEF ReconcileDelete, ReconcileStore, Promise!Effect, Promise!NoPolicy, NoPolicy, ServedModes
<1>4. /\ sends' = sends \cup {m}
      /\ UNCHANGED <<resources, sending, handling>>
  BY DEF ReconcileDelete, ReconcileStore, clientVars
<1>5. Transit' = [c \in Clients |-> Transit[c] \cup {m}]
  BY <1>4 DEF Transit
<1>6. Promise!Publish(rec.name, rec.pol)
  BY <1>2, <1>3, <1>4, <1>5 DEF Promise!Publish
<1>7. QED
  BY <1>1, <1>6 DEF Promise!Next

\* The snapshot for a new stream sends everything that is stored to one client.
LEMMA ResendStep ==
  ASSUME TypeOK, OriginInv, NEW c \in Clients, NEW n \in Streams, StreamSnapshot(c, n)
  PROVE  Promise!Next
<1> DEFINE all == {[name |-> p, pol |-> policies[p]] :
                     p \in {q \in Policies : policies[q] # Promise!NoPolicy}}
<1>1. /\ UNCHANGED <<policies, resources, sends, handling>>
      /\ sending' = sending \cup Snapshot(c, n)
  BY DEF StreamSnapshot, senderVars, clientVars
<1>2. \A p \in Policies : policies[p].mode # "absent" <=> policies[p] # Promise!NoPolicy
  <2>1. Promise!NoPolicy = NoPolicy /\ NoPolicy.mode = "absent"
    BY DEF Promise!NoPolicy, NoPolicy
  <2>2. QED
    BY <2>1 DEF OriginInv
<1>3. \A k \in Snapshot(c, n) : k.cl = c /\ k.msg \in all
  BY <1>2 DEF Snapshot
<1>4. \A m \in all : \E k \in Snapshot(c, n) : k.cl = c /\ k.msg = m
  <2> SUFFICES ASSUME NEW p \in Policies, policies[p] # Promise!NoPolicy
               PROVE  \E k \in Snapshot(c, n) :
                        k.cl = c /\ k.msg = [name |-> p, pol |-> policies[p]]
    OBVIOUS
  <2> DEFINE k == [cl |-> c, strm |-> n, msg |-> [name |-> p, pol |-> policies[p]],
                   via |-> "snapshot"]
  <2>1. k \in Snapshot(c, n)
    BY <1>2 DEF Snapshot
  <2>2. QED
    BY <2>1
<1>5. ASSUME NEW d \in Clients
      PROVE  Transit'[d] = IF d = c THEN Transit[c] \cup all ELSE Transit[d]
  <2>1. ASSUME NEW m
        PROVE  m \in Transit'[d] <=> m \in Transit[d] \/ (d = c /\ m \in all)
    <3>1. (\E k \in Snapshot(c, n) : k.cl = d /\ k.msg = m) <=> d = c /\ m \in all
      BY <1>3, <1>4
    <3>2. QED
      BY <1>1, <3>1, InTransit, InTransitNext
  <2>2. CASE d = c
    BY <2>1, <2>2
  <2>3. CASE d # c
    BY <2>1, <2>3
  <2>4. QED
    BY <2>2, <2>3
<1>6. Transit' = [Transit EXCEPT ![c] = @ \cup all]
  BY <1>5 DEF Transit
<1>7. Promise!Resend(c)
  BY <1>1, <1>6 DEF Promise!Resend
<1>8. QED
  BY <1>7 DEF Promise!Next

\* Process hands a message that was on its way to the client to its processors.
LEMMA DeliverStep ==
  ASSUME TypeOK, NEW k \in handling, Process(k)
  PROVE  Promise!Next
<1> DEFINE c == k.cl
           m == k.msg
<1>1. c \in Clients /\ m \in Messages /\ m.name \in Policies
  BY PacketsType, MessagesType DEF TypeOK
<1>2. m \in Transit[c]
  BY <1>1, InTransit
<1>3. UNCHANGED <<policies, sends, sending>> /\ handling' = handling \ {k}
  BY DEF Process, senderVars, wireVars
<1>4. Promise!Lost
  BY <1>3, InTransit, InTransitNext DEF Promise!Lost
<1>5. resources' = [resources EXCEPT ![c] = Apply(resources[c], m)]
  BY DEF Process
<1>6. CASE Delete(m) \/ m.pol.mode \in Processors
  <2>1. Apply(resources[c], m) = [resources[c] EXCEPT ![m.name] = Promise!Effect(m.pol)]
    BY <1>6, ModesAssumption
       DEF Apply, Delete, Promise!Effect, Promise!NoPolicy, NoPolicy, ServedModes
  <2>2. resources' = [resources EXCEPT ![c][m.name] = Promise!Effect(m.pol)]
    BY <1>5, <2>1
  <2>3. Promise!Deliver(c, m)
    BY <1>2, <1>3, <1>4, <2>2 DEF Promise!Deliver
  <2>4. QED
    BY <1>1, <1>2, <2>3 DEF Promise!Next
<1>7. CASE ~Delete(m) /\ m.pol.mode \notin Processors
  <2>1. Apply(resources[c], m) = resources[c]
    BY <1>7 DEF Apply
  <2>2. resources' = resources
    BY <1>1, <1>5, <2>1 DEF TypeOK
  <2>3. Promise!Deliver(c, m)
    BY <1>2, <1>3, <1>4, <1>7, <2>2 DEF Promise!Deliver, Delete
  <2>4. QED
    BY <1>1, <1>2, <2>3 DEF Promise!Next
<1>8. QED
  BY <1>6, <1>7

\* A sidecar that starts again has nothing.
LEMMA RestartStep ==
  ASSUME TypeOK, NEW c \in Clients, ClientRestarts(c)
  PROVE  Promise!Next
<1>1. /\ UNCHANGED <<policies, sends, sending>> /\ handling' \subseteq handling
      /\ resources' = [resources EXCEPT ![c] = Promise!Empty]
  BY DEF ClientRestarts, senderVars, wireVars, Promise!Empty, Promise!NoPolicy, NoPolicy
<1>2. Promise!Lost
  BY <1>1, InTransit, InTransitNext DEF Promise!Lost
<1>3. Promise!RestartClient(c)
  BY <1>1, <1>2 DEF Promise!RestartClient
<1>4. QED
  BY <1>3 DEF Promise!Next

\* Nor has a control plane that crashed.
LEMMA CrashStep == ASSUME ControlPlaneCrashes PROVE Promise!Next
<1>1. /\ policies' = Promise!Empty /\ sends' = {} /\ sending' = {}
      /\ UNCHANGED <<resources, handling>>
  BY DEF ControlPlaneCrashes, Promise!Empty, Promise!NoPolicy, NoPolicy
<1>2. Promise!Lost
  BY <1>1, InTransit, InTransitNext DEF Promise!Lost
<1>3. QED
  BY <1>1, <1>2 DEF Promise!Next, Promise!Crash

\* Every step of PolicySync is a step of Replication or leaves it as it is.
LEMMA NextMaps ==
  ASSUME TypeOK, OriginInv, [Next]_vars
  PROVE  [Promise!Next]_(Promise!vars)
<1> USE DEF apiVars, senderVars, wireVars, clientVars
<1>1. CASE UNCHANGED <<policies, resources, sends, sending, handling>>
  BY <1>1, StutterStep
<1>2. CASE \/ \E p \in Policies, m \in Modes \cup {"absent"} : Edit(p, m)
           \/ \E p \in Policies : ReconcileGet(p) \/ ReconcileGetFails(p)
           \/ ReconcileRequeue \/ ReconcileSkip
  BY <1>1, <1>2 DEF Edit, ReconcileGet, ReconcileGetFails, ReconcileRequeue, ReconcileSkip
<1>3. CASE ReconcileDelete \/ ReconcileStore
  BY <1>3, PublishStep
<1>4. ASSUME NEW m \in sends, SendPolicy(m) PROVE Promise!Next
  <2>1. /\ UNCHANGED <<policies, resources, handling>>
        /\ sends' = sends \ {m} /\ sending' = sending \cup Fanout(m)
    BY <1>4 DEF SendPolicy
  <2>2. \A k \in Fanout(m) : k.msg \in sends
    BY DEF Fanout
  <2>3. \A c \in Clients : Transit'[c] \subseteq Transit[c]
    BY <2>1, <2>2, InTransit, InTransitNext
  <2>4. QED
    BY <2>1, <2>3, LoseStep
<1>5. ASSUME NEW k \in sending, SendGivesUp(k) PROVE Promise!Next
  <2>1. UNCHANGED <<policies, resources, sends, handling>> /\ sending' \subseteq sending
    BY <1>5 DEF SendGivesUp
  <2>2. \A c \in Clients : Transit'[c] \subseteq Transit[c]
    BY <2>1, InTransit, InTransitNext
  <2>3. QED
    BY <2>1, <2>2, LoseStep
<1>6. ASSUME NEW c \in Clients, NEW n \in Streams, StreamSnapshot(c, n) PROVE Promise!Next
  BY <1>6, ResendStep
<1>7. ASSUME NEW k \in sending, Recv(k) PROVE Promise!Next
  <2>1. /\ UNCHANGED <<policies, resources, sends>>
        /\ sending' \cup handling' \subseteq sending \cup handling
    BY <1>7 DEF Recv
  <2>2. \A c \in Clients : Transit'[c] \subseteq Transit[c]
    BY <2>1, InTransit, InTransitNext
  <2>3. QED
    BY <2>1, <2>2, LoseStep
<1>8. ASSUME NEW k \in handling, Process(k) PROVE Promise!Next
  BY <1>8, DeliverStep
<1>9. ASSUME NEW c \in Clients, ClientRestarts(c) PROVE Promise!Next
  BY <1>9, RestartStep
<1>10. CASE ControlPlaneCrashes
  BY <1>10, CrashStep
<1>11. CASE \/ \E c \in Clients, n \in Streams : StreamRegister(c, n) \/ StreamEnds(c, n)
            \/ \E c \in Clients, age \in Ages : HealthCheck(c, age)
            \/ \E c \in Clients : HealthExpires(c)
            \/ FlushScan \/ FlushDelete
  BY <1>1, <1>11 DEF StreamRegister, StreamEnds, HealthCheck, HealthExpires, FlushScan,
     FlushDelete
<1>12. CASE \/ \E c \in Clients : \/ Dial(c) \/ OpenStream(c) \/ OpenStreamFails(c)
                                  \/ SendAddress(c) \/ ListenFails(c) \/ StreamBreaks(c)
            \/ ControlPlaneStarts
  BY <1>1, <1>12 DEF Dial, OpenStream, OpenStreamFails, SendAddress, ListenFails,
     StreamBreaks, ControlPlaneStarts
<1>13. CASE UNCHANGED vars
  BY <1>1, <1>13 DEF vars
<1>14. QED
  BY <1>2, <1>3, <1>4, <1>5, <1>6, <1>7, <1>8, <1>9, <1>10, <1>11, <1>12, <1>13
     DEF Next, Reconcile, Sender, Listener, Faults

\* Whatever crashes, breaks, is lost or overtakes, for any policies, clients, edits
\* and faults: PolicySync implements Replication.
THEOREM KeepsThePromise == Spec => PromiseKept
<1>1. Spec => []TypeOK
  BY TypeCorrect
<1>2. Spec => []OriginInv
  BY <1>1, InitOrigin, NextOrigin, PTL DEF Spec
<1>3. QED
  BY <1>1, <1>2, InitMaps, NextMaps, PTL DEF Spec, PromiseKept, Promise!Spec

-----------------------------------------------------------------------------
(* One call of SendPolicy, for any finite set of streams                   *)

\* len(cxnsMap) is a number, and 0 only for the empty map.
LEMMA LenType ==
  ASSUME NEW S \in SUBSET Connections
  PROVE  /\ Cardinality(S) \in 0..Cardinality(Connections)
         /\ Cardinality(S) = 0 => S = {}
<1>1. IsFiniteSet(S) /\ Cardinality(S) <= Cardinality(Connections)
  BY ConnectionsAssumption, FS_Subset
<1>2. Cardinality(S) \in Nat /\ Cardinality(Connections) \in Nat
  BY <1>1, ConnectionsAssumption, FS_CardinalityType
<1>3. Cardinality(S) = 0 => S = {}
  BY <1>1, FS_EmptySet
<1>4. QED
  BY <1>1, <1>2, <1>3

\* The call starts with nothing started.
LEMMA CallInitTypeOK == CallInit => CallTypeOK
<1>1. 0 \in 0..Cardinality(Connections)
  BY ConnectionsAssumption, FS_CardinalityType
<1>2. QED
  BY <1>1 DEF CallInit, CallTypeOK

\* Caller, goroutines and the other users of the map keep the type.
LEMMA CallNextTypeOK == ASSUME CallTypeOK, [CallNext]_callVars PROVE CallTypeOK'
<1> USE DEF CallTypeOK
<1>1. CASE Add
  BY <1>1, LenType DEF Add
<1>2. ASSUME NEW s \in Connections, Visit(s) PROVE CallTypeOK'
  BY <1>2 DEF Visit
<1>3. CASE RangeEnds \/ Wait \/ Close \/ Drain
  BY <1>3 DEF RangeEnds, Wait, Close, Drain
<1>4. ASSUME NEW s \in Connections, WorkerSends(s) \/ WorkerPanics(s) PROVE CallTypeOK'
  BY <1>4 DEF WorkerSends, WorkerPanics
<1>5. ASSUME NEW s \in Connections, Register(s) PROVE CallTypeOK'
  BY <1>5 DEF Register
<1>6. ASSUME NEW s \in Connections, Remove(s) PROVE CallTypeOK'
  BY <1>6 DEF Remove
<1>7. CASE UNCHANGED callVars
  BY <1>7 DEF callVars
<1>8. QED
  BY <1>1, <1>2, <1>3, <1>4, <1>5, <1>6, <1>7 DEF CallNext, Caller, Worker, Others

\* The variables of the call keep their types.
THEOREM CallTypeCorrect == CallSpec => []CallTypeOK
<1>1. QED
  BY CallInitTypeOK, CallNextTypeOK, PTL DEF CallSpec

Started == \E s \in Connections : worker[s] # "none"

\* The inductive invariant: no goroutine calls wg.Done, so that the counter is what
\* wg.Add made it; it is 0 only if the map was empty then, and while the map is empty
\* no goroutine is started.
CounterInv ==
  /\ pc = "add" => ~Started
  /\ pc # "add" /\ wg = 0 /\ ~late => cxns = {} /\ ~Started
  /\ pc \in {"close", "drain", "returned"} => wg = 0
  /\ closed => pc \in {"drain", "returned"}
  /\ process = "panic" => closed

\* The call starts before its first goroutine.
LEMMA InitCounter == CallInit => CounterInv
BY DEF CallInit, CounterInv, Started

\* Each step of the caller, of its goroutines and of the others keeps the counter in
\* step with the goroutines.
LEMMA NextCounter == ASSUME CallTypeOK, CounterInv, [CallNext]_callVars PROVE CounterInv'
<1> USE DEF CallTypeOK, CounterInv, Started
<1>1. CASE Add
  BY <1>1, LenType DEF Add
<1>2. ASSUME NEW s \in Connections, Visit(s) PROVE CounterInv'
  BY <1>2 DEF Visit
<1>3. CASE RangeEnds
  BY <1>3 DEF RangeEnds
<1>4. CASE Wait
  BY <1>4 DEF Wait
<1>5. CASE Close
  BY <1>5 DEF Close
<1>6. CASE Drain
  BY <1>6 DEF Drain
<1>7. ASSUME NEW s \in Connections, WorkerSends(s) PROVE CounterInv'
  BY <1>7 DEF WorkerSends
<1>8. ASSUME NEW s \in Connections, WorkerPanics(s) PROVE CounterInv'
  BY <1>8 DEF WorkerPanics
<1>9. ASSUME NEW s \in Connections, Register(s) PROVE CounterInv'
  BY <1>9 DEF Register
<1>10. ASSUME NEW s \in Connections, Remove(s) PROVE CounterInv'
  BY <1>10 DEF Remove
<1>11. CASE UNCHANGED callVars
  BY <1>11 DEF callVars
<1>12. QED
  BY <1>1, <1>2, <1>3, <1>4, <1>5, <1>6, <1>7, <1>8,
     <1>9, <1>10, <1>11 DEF CallNext, Caller, Worker, Others

\* For any finite set of streams: the call gets past wg.Wait with a goroutine started,
\* and a goroutine panics on the closed channel, only after a stream was entered in
\* cxnsMap behind the back of wg.Add.
THEOREM EndsOnlyLate == CallSpec => []EndsOnlyWithLateStreams
<1>1. CallTypeOK /\ CounterInv => EndsOnlyWithLateStreams
  BY DEF CounterInv, EndsOnlyWithLateStreams, Started
<1>2. QED
  BY <1>1, CallTypeCorrect, InitCounter, NextCounter, PTL DEF CallSpec
=============================================================================
