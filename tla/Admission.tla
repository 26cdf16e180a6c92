------------------------------ MODULE Admission ------------------------------
(***************************************************************************)
(* What happens to policies and pods on their way into the cluster: the    *)
(* validation webhooks, which compile a policy before it is stored, the    *)
(* sidecar injector, which changes a pod before it is stored, and the      *)
(* conversion of a stored policy to the message for the sidecars and back. *)
(*                                                                         *)
(* A write to a policy is reviewed by every webhook that is installed,     *)
(* with the object as it was when the write began; the API server stores   *)
(* it if all of them admit it and the object is still the same.  A webhook *)
(* that does not answer counts as its configured failure policy says.      *)
(***************************************************************************)
EXTENDS Naturals, Sequences, Functions

CONSTANTS
  Names,       \* names of policies
  Specs,       \* the policies that users write
  Writers,     \* concurrent writes
  Pods,        \* the pods that users create
  Sidecars,    \* contents of the injector's configuration file
  MaxWrites,   \* bound: writes of policies
  MaxPods      \* bound: pods that are created

Modes == {"Envoy", "HTTP"}
Absent == [absent |-> TRUE]
BadFile == [bad |-> TRUE]
NoSidecar == [initContainers |-> <<>>, containers |-> <<>>, volumes |-> <<>>,
              imagePullSecrets |-> <<>>]

\* The API type of a policy: the fields that the compiler and the messages use.
Optional == [set : BOOLEAN, val : STRING]
Named == [name : STRING, expression : STRING]
ValidatingPolicySpec ==
  [mode : STRING, failurePolicy : Optional, constraints : SUBSET STRING,
   validations : Seq([expression : STRING, message : STRING, reason : Optional]),
   variables : Seq(Named), matchConditions : Seq(Named)]

\* Containers, volumes and secrets by their names.
Sidecar == [initContainers : Seq(STRING), containers : Seq(STRING),
            volumes : Seq(STRING), imagePullSecrets : Seq(STRING)]

\* A pod has the same lists, and fields the injector keeps or does not know.
PodSpec == [initContainers : Seq(STRING), containers : Seq(STRING),
            volumes : Seq(STRING), imagePullSecrets : Seq(STRING),
            other : STRING, newer : SUBSET STRING, decodes : BOOLEAN]

ASSUME ObjectsAssumption ==
  /\ Specs \subseteq ValidatingPolicySpec
  /\ Pods \subseteq PodSpec
  /\ Sidecars \subseteq Sidecar \cup {BadFile}

VARIABLES
  installed,   \* the webhooks of the configuration
  onFailure,   \* their failure policy: "Fail" or "Ignore"
  up,          \* the webhooks that serve
  stored,      \* the policies in the API server
  review,      \* writer -> the write that is under review, or Absent
  budget,      \* bound: the writes of policies and the pods that are left
  replica,     \* policies of a sidecar, as FromProto made them
  sentOf,      \* history: the stored policy each of them was made of
  config,      \* the configuration file of the sidecar injector
  scar,        \* what the injector loaded: Absent while it does not run
  created      \* history: the pods that were created, in order

policyVars == <<installed, onFailure, up, stored, review, replica, sentOf>>
podVars == <<config, scar, created>>
vars == <<policyVars, budget, podVars>>

(***************************************************************************)
(* The compiler, as far as admission is concerned: a mode it knows and no  *)
(* expression that does not compile.                                       *)
(***************************************************************************)
Expressions(p) ==
  {p.validations[i].expression : i \in DOMAIN p.validations}
  \cup {p.variables[i].expression : i \in DOMAIN p.variables}
  \cup {p.matchConditions[i].expression : i \in DOMAIN p.matchConditions}
Compiles(p) == p.mode \in Modes /\ "bad" \notin Expressions(p)

\* The function that a webhook's command hands to the validator.
vpolCompileFunc(webhook, p) == p.mode = webhook => Compiles(p)

ValidateCreate(webhook, new) == vpolCompileFunc(webhook, new)

\* Faulty variant: the object as it was is validated.
ValidateUpdateOld(webhook, old, new) == vpolCompileFunc(webhook, old)

ValidateUpdate(webhook, old, new) == vpolCompileFunc(webhook, new)

ValidateDelete(webhook, old) == TRUE

Verdict(webhook, r) ==
  CASE r.old = Absent -> ValidateCreate(webhook, r.new)
    [] r.new = Absent -> ValidateDelete(webhook, r.old)
    [] OTHER -> ValidateUpdate(webhook, r.old, r.new)

(***************************************************************************)
(* Writes of policies (external: the API server)                           *)
(***************************************************************************)
Write(w, n, new) ==
  /\ review[w] = Absent /\ budget.writes > 0 /\ new # stored[n]
  /\ review' = [review EXCEPT ![w] =
       [name |-> n, old |-> stored[n], new |-> new, waits |-> installed, admitted |-> TRUE]]
  /\ budget' = [budget EXCEPT !.writes = @ - 1]
  /\ UNCHANGED <<installed, onFailure, up, stored, replica, sentOf, podVars>>

\* One webhook answers, or is found not to serve.
Reviewed(w, webhook) ==
  /\ review[w] # Absent /\ webhook \in review[w].waits
  /\ LET answer == IF webhook \in up THEN Verdict(webhook, review[w]) ELSE onFailure = "Ignore"
     IN review' = [review EXCEPT ![w].waits = @ \ {webhook},
                                 ![w].admitted = @ /\ answer]
  /\ UNCHANGED <<installed, onFailure, up, stored, budget, replica, sentOf, podVars>>

\* The write is stored, unless it was denied or the object changed meanwhile.
Commit(w) ==
  /\ review[w] # Absent /\ review[w].waits = {}
  /\ stored' = IF review[w].admitted /\ stored[review[w].name] = review[w].old
                 THEN [stored EXCEPT ![review[w].name] = review[w].new] ELSE stored
  /\ review' = [review EXCEPT ![w] = Absent]
  /\ UNCHANGED <<installed, onFailure, up, budget, replica, sentOf, podVars>>

WebhookStops(webhook) ==
  /\ webhook \in up
  /\ up' = up \ {webhook}
  /\ UNCHANGED <<installed, onFailure, stored, review, budget, replica, sentOf, podVars>>

WebhookStarts(webhook) ==
  /\ webhook \in installed \ up
  /\ up' = up \cup {webhook}
  /\ UNCHANGED <<installed, onFailure, stored, review, budget, replica, sentOf, podVars>>

(***************************************************************************)
(* Policies as messages.  A message has pointers where "set" may be FALSE. *)
(***************************************************************************)
Some(x) == [set |-> TRUE, val |-> x]
None == [set |-> FALSE, val |-> ""]
Each(F(_), s) == [i \in DOMAIN s |-> F(s[i])]

ToProto(p) ==
  [validations |-> Each(LAMBDA v : [expression |-> v.expression, message |-> Some(v.message),
                                    reason |-> v.reason], p.validations),
   variables |-> Each(LAMBDA v : [name |-> v.name, expression |-> v.expression], p.variables),
   matchConditions |-> Each(LAMBDA m : [name |-> m.name, expression |-> m.expression],
                            p.matchConditions),
   failurePolicy |-> IF p.failurePolicy.set THEN p.failurePolicy ELSE Some("Ignore"),
   evaluationMode |-> p.mode]

\* Faulty variant: only one of the modes is known.
FromProtoEnvoy(m) ==
  [validations |-> Each(LAMBDA v : [expression |-> v.expression, message |-> v.message.val,
                                    reason |-> v.reason], m.validations),
   variables |-> m.variables, matchConditions |-> m.matchConditions,
   mode |-> IF m.evaluationMode = "Envoy" THEN "Envoy" ELSE "",
   failurePolicy |-> m.failurePolicy, constraints |-> {}]

FromProto(m) ==
  [validations |-> Each(LAMBDA v : [expression |-> v.expression, message |-> v.message.val,
                                    reason |-> v.reason], m.validations),
   variables |-> Each(LAMBDA v : [name |-> v.name, expression |-> v.expression], m.variables),
   matchConditions |-> Each(LAMBDA c : [name |-> c.name, expression |-> c.expression],
                            m.matchConditions),
   mode |-> IF m.evaluationMode \in Modes THEN m.evaluationMode ELSE "",
   failurePolicy |-> IF m.failurePolicy.set THEN m.failurePolicy ELSE Some("Ignore"),
   constraints |-> {}]

\* The control plane reconciles the policy; PolicySync has the steps of this.
Replicate(n) ==
  /\ sentOf[n] # stored[n]
  /\ \/ /\ stored[n] = Absent
        /\ replica' = [replica EXCEPT ![n] = Absent]
     \/ /\ stored[n] # Absent /\ stored[n].mode \in Modes
        /\ replica' = [replica EXCEPT ![n] = FromProto(ToProto(stored[n]))]
  /\ sentOf' = [sentOf EXCEPT ![n] = stored[n]]
  /\ UNCHANGED <<installed, onFailure, up, stored, review, budget, podVars>>

(***************************************************************************)
(* Pods                                                                    *)
(***************************************************************************)
ConfigChanges(c) ==
  /\ budget.pods > 0 /\ config # c
  /\ config' = c
  /\ UNCHANGED <<policyVars, budget, scar, created>>

\* sidecar.Load, once; an empty file loads as nil.
InjectorStarts ==
  /\ budget.pods > 0 /\ scar = Absent /\ config # BadFile
  /\ scar' = config
  /\ UNCHANGED <<policyVars, budget, config, created>>

InjectorStops ==
  /\ scar # Absent
  /\ scar' = Absent
  /\ UNCHANGED <<policyVars, budget, config, created>>

\* Faulty variant: the init containers replace those of the pod.
InjectReplaces(pod, s) ==
  [pod EXCEPT !.imagePullSecrets = @ \o s.imagePullSecrets,
              !.initContainers = s.initContainers,
              !.containers = @ \o s.containers, !.volumes = @ \o s.volumes]

Inject(pod, s) ==
  [pod EXCEPT !.imagePullSecrets = @ \o s.imagePullSecrets,
              !.initContainers = @ \o s.initContainers,
              !.containers = @ \o s.containers, !.volumes = @ \o s.volumes]

\* The pod is decoded to the injector's Pod type, which drops the fields that the
\* type does not have; the patch makes the raw object equal to the encoded result.
Mutate(pod) == Inject([pod EXCEPT !.newer = {}], scar)

\* What AdmissionReview makes of a request: an HTTP error, or a review with the
\* response of AdmissionResponse.  A request that is no review of a pod is not
\* from the API server; nothing is stored for it.
Faults == {"no body", "cut off", "content type", "no json"}
StatusOf(fault) ==
  CASE fault \in {"no body", "cut off"} -> 400
    [] fault = "content type" -> 415
    [] fault = "no json" -> 417

AdmissionReview(pod, fault) ==
  IF fault # "" THEN [code |-> StatusOf(fault), allowed |-> FALSE, patched |-> pod]
  ELSE IF pod.decodes THEN [code |-> 200, allowed |-> TRUE, patched |-> Mutate(pod)]
  ELSE [code |-> 200, allowed |-> FALSE, patched |-> pod]

\* External: what the API server makes of the answer.  It refuses a pod that has
\* two containers with the same name.
Outcome(pod, fault) ==
  IF scar = Absent \/ fault # ""
  THEN IF onFailure = "Ignore" THEN [kind |-> "as is", pod |-> pod]
       ELSE [kind |-> "refused", pod |-> pod]
  ELSE LET a == AdmissionReview(pod, fault)
       IN IF a.allowed /\ IsInjective(a.patched.initContainers \o a.patched.containers)
          THEN [kind |-> "injected", pod |-> a.patched]
          ELSE [kind |-> "refused", pod |-> pod]

\* A user creates a pod, which may be a copy of one that exists.
CreatePod(pod, fault) ==
  /\ budget.pods > 0
  /\ budget' = [budget EXCEPT !.pods = @ - 1]
  /\ LET o == Outcome(pod, fault)
     IN created' = Append(created, [submitted |-> pod, kind |-> o.kind, pod |-> o.pod, scar |-> scar])
  /\ UNCHANGED <<policyVars, config, scar>>

Submittable == Pods \cup {created[i].pod : i \in DOMAIN created}

Init ==
  /\ installed \in SUBSET Modes /\ up = installed /\ onFailure \in {"Fail", "Ignore"}
  /\ stored = [n \in Names |-> Absent] /\ review = [w \in Writers |-> Absent]
  /\ replica = [n \in Names |-> Absent] /\ sentOf = [n \in Names |-> Absent]
  /\ config \in Sidecars /\ scar = Absent /\ created = <<>>
  \* Policies and pods have nothing to do with each other.
  /\ budget \in {[writes |-> MaxWrites, pods |-> 0], [writes |-> 0, pods |-> MaxPods]}
  /\ budget.pods = 0 => config = BadFile

Next ==
  \/ \E w \in Writers, n \in Names, new \in Specs \cup {Absent} : Write(w, n, new)
  \/ \E w \in Writers, webhook \in Modes : Reviewed(w, webhook)
  \/ \E w \in Writers : Commit(w)
  \/ \E webhook \in Modes : WebhookStops(webhook) \/ WebhookStarts(webhook)
  \/ \E n \in Names : Replicate(n)
  \/ \E c \in Sidecars : ConfigChanges(c)
  \/ InjectorStarts \/ InjectorStops
  \/ \E pod \in Submittable, fault \in Faults \cup {""} : CreatePod(pod, fault)

Spec == Init /\ [][Next]_vars

-----------------------------------------------------------------------------
(***************************************************************************)
(* Properties                                                              *)
(***************************************************************************)
\* A policy that is stored compiles in the server of its mode, whatever writes it
\* went through and however often the webhooks were down, if the webhook for its
\* mode is installed and is required.  A webhook does not look at policies of the
\* other mode, so one webhook alone covers one mode.
StoredPoliciesCompile ==
  \A n \in Names :
    (onFailure = "Fail" /\ stored[n] # Absent /\ stored[n].mode \in installed)
      => Compiles(stored[n])

\* What a server answers for a request: the policy is not used if it does not
\* compile; if an evaluation fails, the failure policy decides, and it is Fail if
\* it is not set.
Decides(p, fails) ==
  CASE ~Compiles(p) -> "not used"
    [] fails -> IF p.failurePolicy.set THEN p.failurePolicy.val ELSE "Fail"
    [] OTHER -> "as its rules say"

\* A sidecar decides as a server that reads the stored policy itself does.  The
\* exception is a policy without failure policy: it is replicated with Ignore,
\* where the compiler takes Fail.
ReplicaDecidesAlike ==
  \A n \in Names : replica[n] # Absent =>
    LET p == sentOf[n]
        q == replica[n]
    IN /\ \A fails \in BOOLEAN :
            Decides(p, fails) = Decides(q, fails) \/ (fails /\ ~p.failurePolicy.set)
       /\ <<p.validations, p.variables, p.matchConditions>>
            = <<q.validations, q.variables, q.matchConditions>>

Lists == {"initContainers", "containers", "volumes", "imagePullSecrets"}

\* A pod that the injector changed has everything that was submitted, in its order,
\* and after that the sidecar that the injector was started with, once.  The
\* exception are fields that are newer than the injector's Pod type, which the
\* patch removes.
InjectionOnlyAdds ==
  \A i \in DOMAIN created : LET c == created[i] IN
    /\ c.kind = "injected" =>
         /\ \A l \in Lists : c.pod[l] = c.submitted[l] \o c.scar[l]
         /\ c.pod.other = c.submitted.other
         /\ c.pod.newer \subseteq c.submitted.newer
    /\ c.kind = "as is" => c.pod = c.submitted /\ onFailure = "Ignore"
=============================================================================
