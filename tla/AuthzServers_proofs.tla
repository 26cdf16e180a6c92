-------------------------- MODULE AuthzServers_proofs --------------------------
(***************************************************************************)
(* Theorems about AuthzServers for any objects, specs and bounds.          *)
(***************************************************************************)
EXTENDS AuthzServers, TLAPS

-----------------------------------------------------------------------------
(* Type correctness *)

\* A reconcile that is not idle is for a request, of which it has read the spec.
LEMMA ReconcilesType ==
  /\ Idle \notin Reconciles
  /\ Idle.step = "idle"
  /\ \A r \in Requests, spec \in Specs \cup {NoObject}, failed \in BOOLEAN,
        s \in {"got", "error", "http"} :
       [step |-> s, req |-> r, spec |-> spec, failed |-> failed] \in Reconciles
  /\ \A x \in Reconciles :
       /\ x.step \in {"got", "error", "http"}
       /\ x.req \in Requests
       /\ x.spec \in Specs \cup {NoObject}
       /\ \A failed \in BOOLEAN : [x EXCEPT !.step = "http", !.failed = failed] \in Reconciles
BY DEF Reconciles, Idle

\* Only an object that is not there has the type "absent".
LEMMA SpecsType ==
  /\ NoObject.type = "absent"
  /\ \A spec \in Specs : spec.type \in {"Envoy", "HTTP"} /\ spec # NoObject
BY SpecsAssumption DEF NoObject

\* The bounds hold after a failure, an edit and the leak of a manager.
LEMMA BoundsKept ==
  ASSUME TypeOK
  PROVE  /\ Fault => faults' \in 0..MaxFaults
         /\ \A r \in Requests : edits[r] < MaxEdits => edits[r] + 1 \in 0..MaxEdits
         /\ rec # Idle /\ ManagerLeaks => leaked' \in [Requests -> 0..MaxLeaked]
<1>1. Fault => faults' \in 0..MaxFaults
  BY BoundsAssumption DEF TypeOK, Fault
<1>2. \A r \in Requests : edits[r] < MaxEdits => edits[r] + 1 \in 0..MaxEdits
  <2>1. \A r \in Requests : edits[r] \in 0..MaxEdits
    BY DEF TypeOK
  <2>2. QED
    BY <2>1, BoundsAssumption
<1>3. \A r \in Requests : leaked[r] < MaxLeaked => leaked[r] + 1 \in 0..MaxLeaked
  <2>1. \A r \in Requests : leaked[r] \in 0..MaxLeaked
    BY DEF TypeOK
  <2>2. QED
    BY <2>1, BoundsAssumption
<1>4. rec # Idle /\ ManagerLeaks => leaked' \in [Requests -> 0..MaxLeaked]
  <2> SUFFICES ASSUME rec # Idle, ManagerLeaks PROVE leaked' \in [Requests -> 0..MaxLeaked]
    OBVIOUS
  <2>1. rec.req \in Requests
    BY ReconcilesType DEF TypeOK
  <2>2. \E n \in 0..MaxLeaked : leaked' = [leaked EXCEPT ![rec.req] = n]
    BY <1>3, <2>1 DEF TypeOK, ManagerLeaks
  <2>3. QED
    BY <2>2 DEF TypeOK
<1>5. QED
  BY <1>1, <1>2, <1>4

\* Everything starts empty.
LEMMA InitTypeOK == Init => TypeOK
BY BoundsAssumption DEF Init, TypeOK

\* Every step of the controller, of the API server and of the servers keeps the type.
LEMMA NextTypeOK == ASSUME TypeOK, [Next]_vars PROVE TypeOK'
<1>b. /\ Fault => faults' \in 0..MaxFaults
      /\ \A r \in Requests : edits[r] < MaxEdits => edits[r] + 1 \in 0..MaxEdits
      /\ rec # Idle /\ ManagerLeaks => leaked' \in [Requests -> 0..MaxLeaked]
  BY BoundsKept
<1>c. ASSUME NEW i, NameRegistered(i), rec # Idle
      PROVE  usedNames' \subseteq {NameOf[r] : r \in Requests}
  BY <1>c, ReconcilesType DEF NameRegistered, TypeOK
<1>d. ASSUME NEW i, SourceFails(i) \/ SourcePanics(i), rec # Idle
      PROVE  /\ usedNames' \subseteq {NameOf[r] : r \in Requests}
             /\ faults' \in 0..MaxFaults
  BY <1>b, <1>c, <1>d DEF SourceFails, SourcePanics, TypeOK
<1> USE <1>b, ReconcilesType DEF TypeOK, Return, ToHttp
<1>1. ASSUME NEW r \in Requests, ServerDies(r) PROVE TypeOK'
  BY <1>1 DEF ServerDies
<1>2. ASSUME NEW r \in Requests, NEW spec \in Specs \cup {NoObject}, Edit(r, spec)
      PROVE  TypeOK'
  BY <1>2 DEF Edit
<1>3. ASSUME NEW r \in Requests, ReconcileGet(r) PROVE TypeOK'
  BY <1>3 DEF ReconcileGet
<1>4. ASSUME NEW r \in Requests, ReconcileGetFails(r) PROVE TypeOK'
  BY <1>4 DEF ReconcileGetFails
<1>5. CASE ReconcileRequeue
  BY <1>5 DEF ReconcileRequeue
<1>6. CASE StopServer
  BY <1>6 DEF StopServer
<1>7. CASE RunNothing
  BY <1>7 DEF RunNothing
<1>8. CASE RunEnvoyKnown
  BY <1>8 DEF RunEnvoyKnown
<1>9. CASE RunEnvoyFails
  BY <1>9 DEF RunEnvoyFails
<1>10. CASE RunEnvoySourcesFail
  BY <1>10, <1>d DEF RunEnvoySourcesFail
<1>11. CASE RunEnvoyPanics
  BY <1>11, <1>d DEF RunEnvoyPanics
<1>12. CASE RunEnvoyStarts
  BY <1>12, <1>c DEF RunEnvoyStarts
<1>13. CASE RunHttpSkips
  BY <1>13 DEF RunHttpSkips
<1>14. CASE RunHttpFails
  <2>1. rec # Idle
    BY <1>14 DEF RunHttpFails
  <2>2. /\ usedNames' \subseteq {NameOf[r] : r \in Requests}
        /\ faults' \in 0..MaxFaults
        /\ leaked' \in [Requests -> 0..MaxLeaked]
    BY <1>14, <2>1, <1>c, <1>d DEF RunHttpFails
  <2>. QED  BY <1>14, <2>1, <2>2 DEF RunHttpFails
<1>15. CASE UNCHANGED vars
  BY <1>15 DEF vars
<1>16. QED
  BY <1>1, <1>2, <1>3, <1>4, <1>5, <1>6, <1>7, <1>8, <1>9, <1>10, <1>11, <1>12, <1>13,
     <1>14, <1>15 DEF Next, Reconcile

\* The variables of the controller keep their types.
THEOREM TypeCorrect == Spec => []TypeOK
<1>1. QED
  BY InitTypeOK, NextTypeOK, PTL DEF Spec

-----------------------------------------------------------------------------
(* Entries and objects *)

\* What an object at rest has.
Matches(r) ==
  /\ object[r].type = "Envoy" => servers[r] # "none"
  /\ object[r] = NoObject => servers[r] = "none"

\* The inductive invariant: a reconcile that has not failed in Get works with the
\* object as it is, unless the object is queued again, and comes to runHttpServer
\* only with an Envoy object.
EntriesInv ==
  /\ EntriesMatchObjects
  /\ rec.step \in {"got", "http"} => rec.req \in queue \/ rec.spec = object[rec.req]
  /\ rec.step = "http" => rec.spec.type = "Envoy"

\* Before the first object there is no entry.
LEMMA InitEntries == Init => EntriesInv
BY DEF Init, EntriesInv, EntriesMatchObjects, NoObject, Idle

\* A reconcile ends with its object at rest or back in the queue.
LEMMA ReturnKeepsEntries ==
  ASSUME TypeOK, EntriesInv, NEW failed, Return(failed), rec # Idle, object' = object,
         NEW q \in Requests, rec.req = q,
         \A r \in Requests : r # q => servers'[r] = servers[r],
         failed \/ q \in queue \/ Matches(q)'
  PROVE  EntriesInv'
<1>1. rec' = Idle /\ rec'.step = "idle"
  BY ReconcilesType DEF Return
<1>2. queue \subseteq queue' /\ (failed => q \in queue')
  BY DEF Return
<1>3. ASSUME NEW r \in Requests PROVE Pending(r)' \/ Matches(r)'
  <2>1. CASE r = q
    BY <1>2, <2>1 DEF Pending
  <2>2. CASE r # q
    <3>1. r \in queue \/ Matches(r)
      BY <2>2 DEF EntriesInv, EntriesMatchObjects, Pending, Matches
    <3>2. QED
      BY <1>2, <2>2, <3>1 DEF Pending, Matches
  <2>3. QED
    BY <2>1, <2>2
<1>4. QED
  BY <1>1, <1>3 DEF EntriesInv, EntriesMatchObjects, Matches

\* The step from runEnvoyServer to runHttpServer leaves the reconcile in progress.
LEMMA ToHttpKeepsEntries ==
  ASSUME TypeOK, EntriesInv, NEW failed \in BOOLEAN, ToHttp(failed), rec.step = "got",
         rec.spec.type = "Envoy", UNCHANGED <<object, queue>>,
         \A r \in Requests : r # rec.req => servers'[r] = servers[r]
  PROVE  EntriesInv'
<1>1. /\ rec \in Reconciles /\ rec' \in Reconciles
      /\ rec'.step = "http" /\ rec'.req = rec.req /\ rec'.spec = rec.spec
  BY ReconcilesType DEF TypeOK, ToHttp, Reconciles
<1>2. rec # Idle /\ rec' # Idle
  BY <1>1, ReconcilesType
<1>3. ASSUME NEW r \in Requests PROVE Pending(r)' \/ Matches(r)'
  BY <1>1, <1>2 DEF EntriesInv, EntriesMatchObjects, Pending, Matches
<1>4. QED
  BY <1>1, <1>3 DEF EntriesInv, EntriesMatchObjects, Matches

\* Every edit makes its object pending, every failure keeps it so, and only a success
\* for the object as it is ends it.
LEMMA NextEntries == ASSUME TypeOK, EntriesInv, [Next]_vars PROVE EntriesInv'
<1>r. /\ rec = Idle \/ rec \in Reconciles
      /\ rec.step \in {"got", "http", "error"} => rec # Idle /\ rec.req \in Requests
                                                  /\ rec.spec \in Specs \cup {NoObject}
  BY ReconcilesType DEF TypeOK
<1>1. ASSUME NEW r \in Requests, ServerDies(r) PROVE EntriesInv'
  <2>1. /\ UNCHANGED <<object, queue, rec>>
        /\ \A q \in Requests : servers'[q] = "none" <=> servers[q] = "none"
    BY <1>1 DEF ServerDies, TypeOK
  <2>2. QED
    BY <2>1 DEF EntriesInv, EntriesMatchObjects, Pending
<1>2. ASSUME NEW r \in Requests, NEW spec \in Specs \cup {NoObject}, Edit(r, spec)
      PROVE  EntriesInv'
  <2>1. /\ UNCHANGED <<rec, servers>> /\ queue' = queue \cup {r}
        /\ \A q \in Requests : q # r => object'[q] = object[q]
    BY <1>2 DEF Edit, TypeOK
  <2>2. \A q \in Requests : Pending(q)' \/ (Matches(q) /\ q # r)
    BY <2>1 DEF EntriesInv, EntriesMatchObjects, Pending, Matches
  <2>3. rec.step \in {"got", "http"} => rec.req \in queue' \/ rec.spec = object'[rec.req]
    BY <1>r, <2>1 DEF EntriesInv
  <2>4. QED
    BY <2>1, <2>2, <2>3 DEF EntriesInv, EntriesMatchObjects, Matches
<1>3. ASSUME NEW r \in Requests, ReconcileGet(r) \/ ReconcileGetFails(r) PROVE EntriesInv'
  <2>1. /\ rec = Idle /\ queue' = queue \ {r} /\ UNCHANGED <<object, servers>>
        /\ rec' \in Reconciles /\ rec'.req = r /\ rec'.step \in {"got", "error"}
        /\ rec'.step = "got" => rec'.spec = object[r]
    <3>1. CASE ReconcileGet(r)
      BY <3>1, ReconcilesType DEF ReconcileGet, TypeOK
    <3>2. CASE ReconcileGetFails(r)
      BY <3>2, ReconcilesType DEF ReconcileGetFails, TypeOK
    <3>3. QED
      BY <1>3, <3>1, <3>2
  <2>2. \A q \in Requests : Pending(q) => Pending(q)'
    BY <2>1, ReconcilesType DEF Pending
  <2>3. QED
    BY <2>1, <2>2 DEF EntriesInv, EntriesMatchObjects
<1>4. CASE ReconcileRequeue
  BY <1>r, <1>4, ReturnKeepsEntries DEF ReconcileRequeue
<1>5. CASE StopServer
  <2>1. /\ rec # Idle /\ object' = object /\ rec.spec = NoObject
        /\ servers' = [servers EXCEPT ![rec.req] = "none"]
        /\ Return(servers[rec.req] = "dead")
    BY <1>r, <1>5 DEF StopServer
  <2>2. \A q \in Requests : q = rec.req => q \in queue \/ Matches(q)'
    BY <1>r, <1>5, <2>1, SpecsType DEF StopServer, EntriesInv, Matches, TypeOK
  <2>3. QED
    <3>1. \A r \in Requests : r # rec.req => servers'[r] = servers[r]
      BY <2>1 DEF TypeOK
    <3>2. QED
      BY <1>r, <1>5, <2>1, <2>2, <3>1, ReturnKeepsEntries DEF StopServer
<1>6. CASE RunNothing
  <2>1. \A q \in Requests : q = rec.req => q \in queue \/ Matches(q)'
    BY <1>r, <1>6, SpecsType DEF RunNothing, EntriesInv, Matches
  <2>2. QED
    BY <1>r, <1>6, <2>1, ReturnKeepsEntries DEF RunNothing
<1>7. CASE RunEnvoyKnown
  BY <1>7, ToHttpKeepsEntries DEF RunEnvoyKnown
<1>8. CASE RunEnvoyFails
  BY <1>8, ToHttpKeepsEntries DEF RunEnvoyFails
<1>9. CASE RunEnvoySourcesFail
  BY <1>9, ToHttpKeepsEntries DEF RunEnvoySourcesFail
<1>10. CASE RunEnvoyPanics
  BY <1>r, <1>10, ReturnKeepsEntries DEF RunEnvoyPanics
<1>11. CASE RunEnvoyStarts
  <2>1. \A r \in Requests : r # rec.req => servers'[r] = servers[r]
    BY <1>11 DEF RunEnvoyStarts, TypeOK
  <2>2. QED
    BY <1>11, <2>1, ToHttpKeepsEntries DEF RunEnvoyStarts
<1>12. CASE RunHttpSkips
  <2>1. \A q \in Requests : q = rec.req => q \in queue \/ Matches(q)'
    BY <1>r, <1>12, SpecsType DEF RunHttpSkips, EntriesInv, Matches
  <2>2. QED
    BY <1>r, <1>12, <2>1, ReturnKeepsEntries DEF RunHttpSkips
<1>13. CASE RunHttpFails
  BY <1>r, <1>13, ReturnKeepsEntries DEF RunHttpFails
<1>14. CASE UNCHANGED vars
  BY <1>14 DEF vars, EntriesInv, EntriesMatchObjects, Pending
<1>15. QED
  BY <1>1, <1>2, <1>3, <1>4, <1>5, <1>6, <1>7, <1>8, <1>9, <1>10, <1>11, <1>12, <1>13,
     <1>14 DEF Next, Reconcile

\* Whatever fails, dies or is edited in between: at rest there is an entry for every
\* Envoy object and none for an object that is gone.
THEOREM EntriesMatch == Spec => []EntriesMatchObjects
<1>1. EntriesInv => EntriesMatchObjects
  BY DEF EntriesInv
<1>2. QED
  BY <1>1, TypeCorrect, InitEntries, NextEntries, PTL DEF Spec

-----------------------------------------------------------------------------
(* Nobody stops the server of another object *)

\* Only stopServer and the death of a server change an entry that runs.
LEMMA StopStep ==
  ASSUME TypeOK, [Next]_vars, NEW r \in Requests, servers[r] = "running",
         servers'[r] # "running"
  PROVE  (rec # Idle /\ rec.req = r /\ rec.spec = NoObject) \/ faults' = faults + 1
<1>1. CASE UNCHANGED servers
  BY <1>1
<1>2. ASSUME NEW q \in Requests, ServerDies(q)
      PROVE  faults' = faults + 1
  BY <1>2 DEF ServerDies, Fault
<1>3. CASE StopServer
  BY <1>3, ReconcilesType DEF StopServer, TypeOK
<1>4. CASE RunEnvoyStarts
  BY <1>4 DEF RunEnvoyStarts, TypeOK
<1>5. CASE \/ \E q \in Requests : \/ ReconcileGet(q) \/ ReconcileGetFails(q)
                                  \/ \E spec \in Specs \cup {NoObject} : Edit(q, spec)
           \/ ReconcileRequeue \/ RunNothing \/ RunEnvoyKnown \/ RunEnvoyFails
           \/ RunEnvoySourcesFail \/ RunEnvoyPanics \/ RunHttpSkips \/ RunHttpFails
           \/ UNCHANGED vars
  BY <1>1, <1>5 DEF ReconcileGet, ReconcileGetFails, Edit, ReconcileRequeue, RunNothing,
     RunEnvoyKnown, RunEnvoyFails, RunEnvoySourcesFail, RunEnvoyPanics, RunHttpSkips,
     RunHttpFails, vars
<1>6. QED
  BY <1>2, <1>3, <1>4, <1>5 DEF Next, Reconcile

\* A running server goes away only when its own object is being removed or when it
\* dies, for any number of objects, also of the same name.
THEOREM StopsItsOwn == Spec => StopsOnlyItsOwn
<1>1. TypeOK /\ [Next]_vars =>
        [\A r \in Requests :
           servers[r] = "running" /\ servers'[r] # "running"
             => \/ rec # Idle /\ rec.req = r /\ rec.spec = NoObject
                \/ faults' = faults + 1]_vars
  BY StopStep
<1>2. QED
  BY <1>1, TypeCorrect, PTL DEF Spec, StopsOnlyItsOwn
=============================================================================
