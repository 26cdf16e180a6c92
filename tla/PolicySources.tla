----------------------------- MODULE PolicySources -----------------------------
(***************************************************************************)
(* Where the policies of a request come from: the apiSource that a         *)
(* controller keeps up to date, the double-buffered cache of compiled      *)
(* policies in front of it, the external files behind a Once, and the      *)
(* composite of both.  Requests load concurrently with each other and with *)
(* the reconciler.                                                         *)
(*                                                                         *)
(* An object is named by its resource version, which the API server gives  *)
(* out once: objs[v] is what was written as version v, and 0 stands for no *)
(* object.  A compiled policy is named by the object it was compiled from. *)
(* How a list of policies is evaluated is the subject of PolicyEngine.     *)
(***************************************************************************)
EXTENDS Naturals, Sequences

CONSTANTS
  NumNames,   \* objects are named 1..NumNames, in the order of their names
  Bodies,     \* what an object may hold: see BodyKinds
  External,   \* the external sources, each by the verdict of the policies in it
  Requests,   \* goroutines that serve requests
  Keys,       \* the strings that in.Name + in.ResourceVersion may give
  KeyOf,      \* <<name, version>> -> that string
  MaxRev,     \* bound: writes to the API server
  MaxFaults   \* bound: failed Gets and failed reads of files

Names == 1..NumNames
Revs == 1..MaxRev
Sources == 1..Len(External)
\* A policy that denies, allows or passes the request, or does not compile.
BodyKinds == {"deny", "allow", "null", "broken"}

ASSUME SourcesAssumption ==
  /\ NumNames \in Nat /\ MaxRev \in Nat /\ MaxFaults \in Nat
  /\ Bodies \subseteq BodyKinds
  /\ External \in Seq({"deny", "allow", "null"})
  /\ KeyOf \in [Names \X Revs -> Keys]

VARIABLES
  objs,         \* version -> [name, body]
  rev,          \* the latest version
  api,          \* name -> version in the manager's cache, 0 if there is none
  queue,        \* names in the work queue
  rec,          \* the reconcile in progress
  resources,    \* apiSource.resources: name -> version
  readBuffer,   \* key -> compiled policy
  writeBuffer,  \* key -> compiled policy
  latest,       \* history: what the load that swapped the buffers last had read
  once,         \* external source -> its Once: "new", "loaded" or "failed"
  step,         \* request -> where its Load stands
  data,         \* request -> what apiSource.Load returned, by name
  items,        \* request -> what NewCache returned for it, by name
  failed,       \* request -> did NewCache also return an error
  ext,          \* request -> the external policies it loaded
  answer,       \* request -> its answer
  faults

apiVars == <<objs, rev, api, queue, rec, resources>>
cacheVars == <<readBuffer, writeBuffer, latest>>
requestVars == <<step, data, items, failed, ext, answer>>
vars == <<objs, rev, api, queue, rec, resources, readBuffer, writeBuffer, latest,
          once, step, data, items, failed, ext, answer, faults>>

Idle == [step |-> "idle", name |-> 0, rv |-> 0]
Objects == [name : Names, body : Bodies]
NoObject == [name |-> 0, body |-> "none"]
Versions == [Names -> 0..MaxRev]
Buffers == [Keys -> 0..MaxRev]
Empty == [k \in Keys |-> 0]
Nothing == [n \in Names |-> 0]

\* Faulty variant: the error of the compiler is dropped.
CompilesAlways(v) == TRUE

\* Compile, as the cacheFunc of NewKube uses it.
Compiles(v) == objs[v].body # "broken"

TypeOK ==
  /\ objs \in [Revs -> Objects \cup {NoObject}]
  /\ rev \in 0..MaxRev
  /\ api \in Versions
  /\ queue \subseteq Names
  /\ rec \in [step : {"got", "error"}, name : Names, rv : 0..MaxRev] \cup {Idle}
  /\ resources \in Versions
  /\ readBuffer \in Buffers
  /\ writeBuffer \in Buffers
  /\ latest \in Versions
  /\ once \in [Sources -> {"new", "loaded", "failed"}]
  /\ step \in [Requests -> {"idle", "cache", "ext", "handle", "done"}]
  /\ data \in [Requests -> Versions]
  /\ items \in [Requests -> Versions]
  /\ failed \in [Requests -> BOOLEAN]
  /\ ext \in [Requests -> {<<>>, External}]
  /\ answer \in [Requests -> {"none", "allow", "deny"}]
  /\ faults \in 0..MaxFaults

\* The server takes requests once the manager's cache is in sync: an object that
\* exists then is one that was written before the first request, and may not have
\* been reconciled.
Init ==
  /\ objs = [v \in Revs |-> NoObject]
  /\ rev = 0
  /\ api = Nothing
  /\ queue = {}
  /\ rec = Idle
  /\ resources = Nothing
  /\ readBuffer = Empty
  /\ writeBuffer = Empty
  /\ latest = Nothing
  /\ once = [e \in Sources |-> "new"]
  /\ step = [r \in Requests |-> "idle"]
  /\ data = [r \in Requests |-> Nothing]
  /\ items = [r \in Requests |-> Nothing]
  /\ failed = [r \in Requests |-> FALSE]
  /\ ext = [r \in Requests |-> <<>>]
  /\ answer = [r \in Requests |-> "none"]
  /\ faults = 0

Fault ==
  /\ faults < MaxFaults
  /\ faults' = faults + 1

-----------------------------------------------------------------------------
(* The API server (external) *)

\* An object is created or updated, under a new version ...
Write(n, body) ==
  /\ rev < MaxRev
  /\ rev' = rev + 1
  /\ objs' = [objs EXCEPT ![rev + 1] = [name |-> n, body |-> body]]
  /\ api' = [api EXCEPT ![n] = rev + 1]
  /\ queue' = queue \cup {n}
  /\ UNCHANGED <<rec, resources, cacheVars, once, requestVars, faults>>

\* ... or deleted (or leaves the field selector of the cache).
Remove(n) ==
  /\ api[n] # 0
  /\ api' = [api EXCEPT ![n] = 0]
  /\ queue' = queue \cup {n}
  /\ UNCHANGED <<objs, rev, rec, resources, cacheVars, once, requestVars, faults>>

-----------------------------------------------------------------------------
(* apiSource.Reconcile *)

ReconcileGet(n) ==
  /\ rec = Idle
  /\ n \in queue
  /\ queue' = queue \ {n}
  /\ rec' = [step |-> "got", name |-> n, rv |-> api[n]]
  /\ UNCHANGED <<objs, rev, api, resources, cacheVars, once, requestVars, faults>>

ReconcileGetFails(n) ==
  /\ rec = Idle
  /\ n \in queue
  /\ Fault
  /\ queue' = queue \ {n}
  /\ rec' = [step |-> "error", name |-> n, rv |-> 0]
  /\ UNCHANGED <<objs, rev, api, resources, cacheVars, once, requestVars>>

\* Faulty variant: the error is logged and not returned.
ErrorSwallowed ==
  /\ rec.step = "error"
  /\ rec' = Idle
  /\ UNCHANGED <<objs, rev, api, queue, resources, cacheVars, once, requestVars, faults>>

\* The error is returned and the controller puts the name back.
ReconcileRequeue ==
  /\ rec.step = "error"
  /\ queue' = queue \cup {rec.name}
  /\ rec' = Idle
  /\ UNCHANGED <<objs, rev, api, resources, cacheVars, once, requestVars, faults>>

\* Under the lock: the object is stored, or removed if it was not found.
ReconcileStore ==
  /\ rec.step = "got"
  /\ resources' = [resources EXCEPT ![rec.name] = rec.rv]
  /\ rec' = Idle
  /\ UNCHANGED <<objs, rev, api, queue, cacheVars, once, requestVars, faults>>

-----------------------------------------------------------------------------
(* Load *)

\* A request comes in: apiSource.Load, under the lock of the source.
LoadInner(r) ==
  /\ step[r] = "idle"
  /\ step' = [step EXCEPT ![r] = "cache"]
  /\ data' = [data EXCEPT ![r] = resources]
  /\ UNCHANGED <<apiVars, cacheVars, once, items, failed, ext, answer, faults>>

\* Faulty variant: the version is left out of the key.
KeyByName(v) == KeyOf[<<objs[v].name, 1>>]

\* keyFunc
Key(v) == KeyOf[<<objs[v].name, v>>]

\* The policy returned for version v: the one cached under its key, else the one
\* compiled now, else none.
Cached(v) ==
  IF readBuffer[Key(v)] # 0 THEN readBuffer[Key(v)]
  ELSE IF Compiles(v) THEN v ELSE 0

Items(d) == [n \in Names |-> IF d[n] = 0 THEN 0 ELSE Cached(d[n])]

\* The new buffer: for each key the policy of the last object that has the key.
Owners(d, k) == {n \in Names : d[n] # 0 /\ Cached(d[n]) # 0 /\ Key(d[n]) = k}
Written(d) ==
  [k \in Keys |->
     IF Owners(d, k) = {} THEN writeBuffer[k]
     ELSE Cached(d[CHOOSE n \in Owners(d, k) : \A m \in Owners(d, k) : m <= n])]

\* Faulty variant: the buffers are swapped and the old one is not cleared.
Uncleared(buffer) == buffer

\* What is left of the new write buffer.
Cleared(buffer) == Empty

\* NewCache, under its own lock: another request may have loaded in between.
LoadCache(r) ==
  /\ step[r] = "cache"
  /\ step' = [step EXCEPT ![r] = "ext"]
  /\ items' = [items EXCEPT ![r] = Items(data[r])]
  /\ failed' = [failed EXCEPT ![r] =
       \E n \in Names : data[r][n] # 0 /\ Cached(data[r][n]) = 0]
  /\ readBuffer' = Written(data[r])
  /\ writeBuffer' = Cleared(readBuffer)
  /\ latest' = data[r]
  /\ UNCHANGED <<apiVars, once, data, ext, answer, faults>>

\* What reading, decoding and compiling the files of an external source ends in:
\* all of its policies, or an error, with which the rest is of no use.
FsOutcomes == {"loaded", "failed"}

\* The inner composite calls Once.Load of each external source: the first call
\* reads and compiles the files, later ones repeat its outcome, so that it makes
\* no difference that the calls are one step here.  If one fails, the inner
\* composite returns the others and an error, and the outer one drops them.
LoadExternal(r) ==
  /\ step[r] = "ext"
  /\ once' \in [Sources -> FsOutcomes]
  /\ \A e \in Sources : once[e] # "new" => once'[e] = once[e]
  /\ IF \E e \in Sources : once[e] = "new" /\ once'[e] = "failed"
       THEN Fault ELSE UNCHANGED faults
  /\ step' = [step EXCEPT ![r] = "handle"]
  /\ ext' = [ext EXCEPT ![r] =
       IF \A e \in Sources : once'[e] = "loaded" THEN External ELSE <<>>]
  /\ UNCHANGED <<apiVars, cacheVars, data, items, failed, answer>>

\* The verdicts of the policies in f, by name.
Verdicts(f) == [n \in Names |-> IF f[n] = 0 THEN "null" ELSE objs[f[n]].body]

\* The first verdict of a sequence that is not null; without one the request is
\* allowed.
FirstOf(s) ==
  LET at == {k \in 1..Len(s) : s[k] # "null"}
  IN IF at = {} THEN "allow" ELSE s[CHOOSE k \in at : \A l \in at : k <= l]

\* Faulty variant: the external policies come first.
ExternalFirst(r) == ext[r] \o (IF failed[r] THEN <<>> ELSE Verdicts(items[r]))

\* composite.Load: the policies of the Kubernetes source, none of them if one did
\* not compile, then the external ones.
Composite(r) == (IF failed[r] THEN <<>> ELSE Verdicts(items[r])) \o ext[r]

\* The engine evaluates what was loaded; the error of the load is not looked at.
Handle(r) ==
  /\ step[r] = "handle"
  /\ step' = [step EXCEPT ![r] = "done"]
  /\ answer' = [answer EXCEPT ![r] = FirstOf(Composite(r))]
  /\ UNCHANGED <<apiVars, cacheVars, once, data, items, failed, ext, faults>>

\* The goroutine ends; the next request has one of its own.
Finish(r) ==
  /\ step[r] = "done"
  /\ step' = [step EXCEPT ![r] = "idle"]
  /\ data' = [data EXCEPT ![r] = Nothing]
  /\ items' = [items EXCEPT ![r] = Nothing]
  /\ failed' = [failed EXCEPT ![r] = FALSE]
  /\ ext' = [ext EXCEPT ![r] = <<>>]
  /\ answer' = [answer EXCEPT ![r] = "none"]
  /\ UNCHANGED <<apiVars, cacheVars, once, faults>>

-----------------------------------------------------------------------------

Reconcile ==
  \/ \E n \in Names : ReconcileGet(n) \/ ReconcileGetFails(n)
  \/ ReconcileRequeue \/ ReconcileStore

Load(r) == LoadInner(r) \/ LoadCache(r) \/ LoadExternal(r) \/ Handle(r) \/ Finish(r)

Next ==
  \/ \E n \in Names : Remove(n) \/ \E body \in Bodies : Write(n, body)
  \/ Reconcile
  \/ \E r \in Requests : Load(r)

Spec == Init /\ [][Next]_vars

\* The one worker of the controller works; requests need not come.
FairSpec ==
  /\ Spec
  /\ WF_vars(ReconcileRequeue \/ ReconcileStore)
  /\ WF_vars(\E n \in Names : ReconcileGet(n))

-----------------------------------------------------------------------------
(* Properties *)

\* apiSource.resources has every object as the API server has it, unless the
\* object is queued or being reconciled.
KnownOrPending ==
  \A n \in Names :
    resources[n] = api[n] \/ n \in queue \/ (rec # Idle /\ rec.name = n)

\* The cache cannot be seen: whichever loads ran in between, and whatever they had
\* read, a load returns for each object that it read the policy compiled from
\* that very version, and nothing for one that does not compile.
LoadIsExact ==
  \A r \in Requests, n \in Names :
    step[r] \in {"ext", "handle", "done"} =>
      items[r][n] = IF data[r][n] # 0 /\ Compiles(data[r][n]) THEN data[r][n] ELSE 0

\* The cache holds nothing but what the latest load needed: entries do not pile up
\* however objects come and go.
StaleIsDiscarded ==
  \A k \in Keys :
    readBuffer[k] # 0 => \E n \in Names : latest[n] # 0 /\ Key(latest[n]) = k

\* If all it read compiles and the files were read, a request gets the answer of
\* the policies as they stood when it read them, Kubernetes first.
AnswerIsOfSnapshot ==
  \A r \in Requests :
    /\ step[r] = "done"
    /\ \A e \in Sources : once[e] = "loaded"
    /\ \A n \in Names : data[r][n] # 0 => Compiles(data[r][n])
    => answer[r] = FirstOf(Verdicts(data[r]) \o External)

\* The source catches up with the API server.
SourceSettles == \A n \in Names : []<>(resources[n] = api[n])

\* "`Fail` (default): Deny the request if policy evaluation fails", where failures
\* are "parse errors, type check errors, runtime errors"
\* (website/docs/policies/envoy-policy-breakdown.md): a request that reads a policy
\* that does not compile is not allowed, if all its other policies deny.
BrokenPolicyDenies ==
  \A r \in Requests :
    /\ step[r] = "done"
    /\ \E n \in Names : data[r][n] # 0 /\ ~Compiles(data[r][n])
    /\ \A n \in Names : data[r][n] # 0 => objs[data[r][n]].body \in {"broken", "deny"}
    => answer[r] = "deny"
=============================================================================
