----------------------------- MODULE AuthzServers -----------------------------
(***************************************************************************)
(* The controller of AuthorizationServer objects (pkg/commands/run): for   *)
(* each object it starts a policy manager and an authorization server in   *)
(* its own process, remembers them in `servers', and stops them when the   *)
(* object is gone.  One worker reconciles; the servers it started run and  *)
(* die on their own.                                                       *)
(*                                                                         *)
(* External: the work queue, which takes a name back when Reconcile        *)
(* returns an error or panics, and the names of controllers, which the     *)
(* library keeps per process and refuses to give twice.                    *)
(***************************************************************************)
EXTENDS Naturals, Sequences

CONSTANTS
  Requests,   \* namespace/name of the objects
  NameOf,     \* request -> name without the namespace
  Specs,      \* the specs an object may have: [type, sources], sources a list of kinds
  MaxEdits,   \* bound: edits of each object
  MaxFaults,  \* bound: failures of the environment
  MaxLeaked   \* bound: managers left running that are counted

SourceKinds == {"Kubernetes", "Git", "Fs", "Oci"}

ASSUME SpecsAssumption ==
  /\ Specs \subseteq [type : {"Envoy", "HTTP"}, sources : Seq(SourceKinds)]
  /\ NameOf \in [Requests -> STRING]
ASSUME BoundsAssumption == MaxEdits \in Nat /\ MaxFaults \in Nat /\ MaxLeaked \in Nat

VARIABLES
  object,     \* request -> spec in the API server, or NoObject
  edits,      \* request -> number of edits
  queue,      \* requests waiting to be reconciled
  rec,        \* the reconcile in progress
  servers,    \* reconciler.servers: request -> state of the server of its entry
  usedNames,  \* names of controllers taken in this process
  leaked,     \* request -> managers running that no entry can stop
  faults

vars == <<object, edits, queue, rec, servers, usedNames, leaked, faults>>

NoObject == [type |-> "absent", sources |-> <<>>]
Idle == [step |-> "idle"]
Reconciles == [step : {"got", "error", "http"}, req : Requests, spec : Specs \cup {NoObject},
               failed : BOOLEAN]

TypeOK ==
  /\ object \in [Requests -> Specs \cup {NoObject}]
  /\ edits \in [Requests -> 0..MaxEdits]
  /\ queue \subseteq Requests
  /\ rec \in Reconciles \cup {Idle}
  /\ servers \in [Requests -> {"none", "running", "dead"}]
  /\ usedNames \subseteq {NameOf[r] : r \in Requests}
  /\ leaked \in [Requests -> 0..MaxLeaked]
  /\ faults \in 0..MaxFaults

Init ==
  /\ object = [r \in Requests |-> NoObject]
  /\ edits = [r \in Requests |-> 0]
  /\ queue = {}
  /\ rec = Idle
  /\ servers = [r \in Requests |-> "none"]
  /\ usedNames = {}
  /\ leaked = [r \in Requests |-> 0]
  /\ faults = 0

Fault ==
  /\ faults < MaxFaults
  /\ faults' = faults + 1

-----------------------------------------------------------------------------
(* The environment *)

\* An object is created, updated (its type or its sources) or deleted.
Edit(r, spec) ==
  /\ edits[r] < MaxEdits
  /\ spec # object[r]
  /\ object' = [object EXCEPT ![r] = spec]
  /\ edits' = [edits EXCEPT ![r] = @ + 1]
  /\ queue' = queue \cup {r}
  /\ UNCHANGED <<rec, servers, usedNames, leaked, faults>>

\* A server or its manager ends with an error (say, the address is in use): the
\* shared context is cancelled and both stop.  The entry stays.
ServerDies(r) ==
  /\ Fault
  /\ servers[r] = "running"
  /\ servers' = [servers EXCEPT ![r] = "dead"]
  /\ UNCHANGED <<object, edits, queue, rec, usedNames, leaked>>

-----------------------------------------------------------------------------
(* Reconcile *)

ReconcileGet(r) ==
  /\ rec = Idle
  /\ r \in queue
  /\ queue' = queue \ {r}
  /\ rec' = [step |-> "got", req |-> r, spec |-> object[r], failed |-> FALSE]
  /\ UNCHANGED <<object, edits, servers, usedNames, leaked, faults>>

\* Get fails with an error other than NotFound ...
ReconcileGetFails(r) ==
  /\ rec = Idle
  /\ r \in queue
  /\ Fault
  /\ rec' = [step |-> "error", req |-> r, spec |-> NoObject, failed |-> TRUE]
  /\ queue' = queue \ {r}
  /\ UNCHANGED <<object, edits, servers, usedNames, leaked>>

\* Faulty variant: the error is logged and not returned.
ErrorDropped(failed) ==
  /\ rec' = Idle
  /\ queue' = queue

\* Reconcile is over; on an error the controller puts the request back.
Return(failed) ==
  /\ rec' = Idle
  /\ queue' = IF failed THEN queue \cup {rec.req} ELSE queue

\* ... which is returned.
ReconcileRequeue ==
  /\ rec.step = "error"
  /\ Return(TRUE)
  /\ UNCHANGED <<object, edits, servers, usedNames, leaked, faults>>

\* Faulty variants: the entry is not dropped; the servers of all objects of the
\* name are stopped, in whatever namespace.
EntryKept ==
  /\ rec.step = "got"
  /\ rec.spec = NoObject
  /\ Return(servers[rec.req] = "dead")
  /\ UNCHANGED <<object, edits, servers, usedNames, leaked, faults>>
StopByName ==
  /\ rec.step = "got"
  /\ rec.spec = NoObject
  /\ servers' = [r \in Requests |->
       IF NameOf[r] = NameOf[rec.req] THEN "none" ELSE servers[r]]
  /\ Return(servers[rec.req] = "dead")
  /\ UNCHANGED <<object, edits, usedNames, leaked, faults>>

\* NotFound, stopServer: cancel, wait for server and manager, drop the entry.
\* The errors they ended with, if any, are returned.
StopServer ==
  /\ rec.step = "got"
  /\ rec.spec = NoObject
  /\ servers' = [servers EXCEPT ![rec.req] = "none"]
  /\ Return(servers[rec.req] = "dead")
  /\ UNCHANGED <<object, edits, usedNames, leaked, faults>>

\* runServer tests Type.Envoy for both kinds of server: for an object of type
\* HTTP neither test holds and there is nothing to do.
RunNothing ==
  /\ rec.step = "got"
  /\ rec.spec.type = "HTTP"
  /\ Return(FALSE)
  /\ UNCHANGED <<object, edits, servers, usedNames, leaked, faults>>

\* buildSources goes through the list.  The i-th source is a Kubernetes source and
\* the name of its controller is taken, by an object before or by a source before;
\* or it is a Git source, which reads the path of an Fs source that is not there.
KubeBefore(i) == \E j \in 1..(i - 1) : rec.spec.sources[j] = "Kubernetes"
NameTaken(i) ==
  rec.spec.sources[i] = "Kubernetes" /\ (NameOf[rec.req] \in usedNames \/ KubeBefore(i))
GitPanics(i) == rec.spec.sources[i] = "Git"

\* The loop comes as far as the i-th source; past the last one, it is over.
Reaches(i) ==
  /\ i \in 1..(Len(rec.spec.sources) + 1)
  /\ \A j \in 1..(i - 1) : ~NameTaken(j) /\ ~GitPanics(j)
BuildEnds == Len(rec.spec.sources) + 1

\* NewKube has registered its controller for a source before the i-th.
NameRegistered(i) ==
  usedNames' = IF KubeBefore(i) THEN usedNames \cup {NameOf[rec.req]} ELSE usedNames

\* The i-th source ends buildSources with an error: the name is taken, or the files
\* cannot be had.
SourceFails(i) ==
  /\ Reaches(i)
  /\ \/ NameTaken(i) /\ UNCHANGED faults
     \/ rec.spec.sources[i] \in {"Fs", "Oci"} /\ Fault
  /\ NameRegistered(i)

SourcePanics(i) == Reaches(i) /\ GitPanics(i) /\ NameRegistered(i) /\ UNCHANGED faults

\* A return or panic after mgr.Start, without the cancel of its context.
ManagerLeaks ==
  leaked' = [leaked EXCEPT ![rec.req] = IF @ < MaxLeaked THEN @ + 1 ELSE @]

ToHttp(failed) == rec' = [rec EXCEPT !.step = "http", !.failed = failed]

\* runEnvoyServer of an object that has an entry: nothing is configured anew.
RunEnvoyKnown ==
  /\ rec.step = "got"
  /\ rec.spec.type = "Envoy"
  /\ servers[rec.req] # "none"
  /\ ToHttp(FALSE)
  /\ UNCHANGED <<object, edits, queue, servers, usedNames, leaked, faults>>

\* It fails before the manager is started, or the cache does not sync, in which
\* case the context is cancelled.
RunEnvoyFails ==
  /\ rec.step = "got"
  /\ rec.spec.type = "Envoy"
  /\ servers[rec.req] = "none"
  /\ Fault
  /\ ToHttp(TRUE)
  /\ UNCHANGED <<object, edits, queue, servers, usedNames, leaked>>

\* It fails in buildSources: the manager stays, and so does a controller that NewKube
\* registered before a later source failed.
RunEnvoySourcesFail ==
  /\ rec.step = "got"
  /\ rec.spec.type = "Envoy"
  /\ servers[rec.req] = "none"
  /\ \E i \in 1..Len(rec.spec.sources) : SourceFails(i)
  /\ ManagerLeaks
  /\ ToHttp(TRUE)
  /\ UNCHANGED <<object, edits, queue, servers>>

\* A Git source: the panic ends the reconcile and is turned into an error.
RunEnvoyPanics ==
  /\ rec.step = "got"
  /\ rec.spec.type = "Envoy"
  /\ servers[rec.req] = "none"
  /\ \E i \in 1..Len(rec.spec.sources) : SourcePanics(i)
  /\ ManagerLeaks
  /\ Return(TRUE)
  /\ UNCHANGED <<object, edits, servers>>

\* Manager and server are started and entered.
RunEnvoyStarts ==
  /\ rec.step = "got"
  /\ rec.spec.type = "Envoy"
  /\ servers[rec.req] = "none"
  /\ Reaches(BuildEnds)
  /\ NameRegistered(BuildEnds)
  /\ servers' = [servers EXCEPT ![rec.req] = "running"]
  /\ ToHttp(FALSE)
  /\ UNCHANGED <<object, edits, queue, leaked, faults>>

\* runHttpServer, called for the same object, finds the entry.
RunHttpSkips ==
  /\ rec.step = "http"
  /\ servers[rec.req] # "none"
  /\ Return(rec.failed)
  /\ UNCHANGED <<object, edits, servers, usedNames, leaked, faults>>

\* runHttpServer after runEnvoyServer failed: an error or panic of its own, with or
\* without a manager left behind; if nothing else, the panic on Type.HTTP, which is
\* nil.
RunHttpFails ==
  /\ rec.step = "http"
  /\ servers[rec.req] = "none"
  /\ \/ Fault /\ UNCHANGED <<usedNames, leaked>>
     \/ /\ \/ \E i \in 1..Len(rec.spec.sources) : SourceFails(i) \/ SourcePanics(i)
           \/ Reaches(BuildEnds) /\ NameRegistered(BuildEnds) /\ UNCHANGED faults
        /\ ManagerLeaks
  /\ Return(TRUE)
  /\ UNCHANGED <<object, edits, servers>>

-----------------------------------------------------------------------------

Reconcile ==
  \/ \E r \in Requests : ReconcileGet(r) \/ ReconcileGetFails(r)
  \/ ReconcileRequeue \/ StopServer \/ RunNothing
  \/ RunEnvoyKnown \/ RunEnvoyFails \/ RunEnvoySourcesFail \/ RunEnvoyPanics
  \/ RunEnvoyStarts \/ RunHttpSkips \/ RunHttpFails

Next ==
  \/ \E r \in Requests :
       ServerDies(r) \/ \E spec \in Specs \cup {NoObject} : Edit(r, spec)
  \/ Reconcile

\* The worker works, and takes every request that waits in turn (the queue is
\* first in, first out).
Spec ==
  /\ Init /\ [][Next]_vars
  /\ WF_vars(rec # Idle /\ Reconcile)
  /\ \A r \in Requests : SF_vars(ReconcileGet(r))

-----------------------------------------------------------------------------
(* Properties *)

Pending(r) == r \in queue \/ (rec # Idle /\ rec.req = r)

\* At rest, `servers' has an entry for every Envoy object and none for an object
\* that is gone, whatever failed, died or was edited in between: every failure
\* is retried and every deletion reaches stopServer.
EntriesMatchObjects ==
  \A r \in Requests :
    Pending(r) \/ /\ object[r].type = "Envoy" => servers[r] # "none"
                  /\ object[r] = NoObject => servers[r] = "none"

\* A reconcile never touches the server of another object, and replaces no server
\* without stopping it: a running server goes away only when its own object is
\* being removed, or when it dies.
StopsOnlyItsOwn ==
  [][\A r \in Requests :
       servers[r] = "running" /\ servers'[r] # "running"
         => \/ rec # Idle /\ rec.req = r /\ rec.spec = NoObject
            \/ faults' = faults + 1]_vars

\* An object that is deleted for good has its server stopped in the end.
DeletedIsStopped ==
  \A r \in Requests : object[r] = NoObject ~> (servers[r] = "none" \/ object[r] # NoObject)

\* Sources that need no controller and no Git checkout.
FilesOnly(spec) ==
  \A i \in 1..Len(spec.sources) : spec.sources[i] \in {"Fs", "Oci"}

\* An Envoy object whose sources need no controller and no Git checkout gets an
\* entry in the end, however often the environment fails.
EnvoyIsEntered ==
  \A r \in Requests :
    (object[r].type = "Envoy" /\ FilesOnly(object[r]))
      ~> (servers[r] # "none" \/ object[r].type # "Envoy" \/ ~FilesOnly(object[r]))
=============================================================================
