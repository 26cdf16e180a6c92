--------------------------- MODULE Admission_proofs ---------------------------
(***************************************************************************)
(* Proofs of the properties of Admission, for all policies, pods and       *)
(* sidecars, and any number of concurrent writes.                          *)
(***************************************************************************)
EXTENDS Admission, TLAPS

-----------------------------------------------------------------------------
(* The webhooks *)

MaybePolicy == Specs \cup {Absent}
Review == [name : Names, old : MaybePolicy, new : MaybePolicy, waits : SUBSET Modes,
           admitted : BOOLEAN]

\* A write that is admitted so far was looked at by each webhook that has answered.
ReviewedOnce(w) ==
  /\ onFailure = "Fail" /\ review[w] # Absent
  /\ review[w].admitted /\ review[w].new # Absent
  /\ review[w].new.mode \in installed \ review[w].waits
  => Compiles(review[w].new)

WriteInv ==
  /\ installed \subseteq Modes
  /\ stored \in [Names -> MaybePolicy]
  /\ review \in [Writers -> Review \cup {Absent}]
  /\ \A w \in Writers : ReviewedOnce(w)
  /\ StoredPoliciesCompile

\* Nothing is stored or under review.
LEMMA InitWrites == Init => WriteInv
BY DEF Init, WriteInv, MaybePolicy, ReviewedOnce, StoredPoliciesCompile

\* A webhook that serves lets no policy of its mode pass that does not compile.
LEMMA VerdictTells ==
  ASSUME NEW webhook, NEW r, Verdict(webhook, r), r.new # Absent, r.new.mode = webhook
  PROVE  Compiles(r.new)
BY DEF Verdict, ValidateCreate, ValidateUpdate, ValidateDelete, vpolCompileFunc

\* Writes that run at the same time have a review each.
LEMMA NextWrites == ASSUME WriteInv, [Next]_vars PROVE WriteInv'
<1> USE DEF WriteInv
<1>1. ASSUME NEW w \in Writers, NEW n \in Names, NEW new \in Specs \cup {Absent}, Write(w, n, new)
      PROVE  WriteInv'
  <2> DEFINE r == [name |-> n, old |-> stored[n], new |-> new, waits |-> installed,
                   admitted |-> TRUE]
  <2>1. /\ UNCHANGED <<installed, onFailure, stored>>
        /\ review' = [review EXCEPT ![w] = r]
    BY <1>1 DEF Write
  <2>2. r \in Review
    BY DEF Review, MaybePolicy
  <2>3. review' \in [Writers -> Review \cup {Absent}]
    BY <2>1, <2>2
  <2>4. ASSUME NEW v \in Writers PROVE ReviewedOnce(v)'
    BY <2>1 DEF ReviewedOnce, Compiles, Expressions
  <2>. QED  BY <2>1, <2>3, <2>4 DEF StoredPoliciesCompile, Compiles, Expressions
<1>2. ASSUME NEW w \in Writers, NEW webhook \in Modes, Reviewed(w, webhook)
      PROVE  WriteInv'
  <2> DEFINE a == IF webhook \in up THEN Verdict(webhook, review[w]) ELSE onFailure = "Ignore"
             r == review[w]
             s == [r EXCEPT !.waits = @ \ {webhook}, !.admitted = @ /\ a]
  <2>1. UNCHANGED <<installed, onFailure, stored>>
    BY <1>2 DEF Reviewed
  <2>2. review' = [review EXCEPT ![w] = s] /\ r \in Review
    BY <1>2 DEF Reviewed
  <2>3. a \in BOOLEAN
    BY DEF Verdict, ValidateCreate, ValidateUpdate, ValidateDelete, vpolCompileFunc, Compiles
  <2>4. /\ s.new = r.new /\ s.waits = r.waits \ {webhook} /\ s.admitted = (r.admitted /\ a)
        /\ s \in Review
    BY <2>2, <2>3 DEF Review
  <2>5. onFailure = "Fail" /\ a /\ r.new # Absent /\ r.new.mode = webhook => Compiles(r.new)
    BY VerdictTells
  <2> HIDE DEF a, s
  <2>6. review' \in [Writers -> Review \cup {Absent}]
    BY <2>2, <2>4
  <2>7. ReviewedOnce(w)'
    <3>1. review'[w] = s
      BY <2>2
    <3>2. ReviewedOnce(w)
      OBVIOUS
    <3>3. onFailure = "Fail" /\ r # Absent /\ r.admitted /\ r.new # Absent
          /\ r.new.mode \in installed \ r.waits => Compiles(r.new)
      BY <3>2 DEF ReviewedOnce
    <3>4. r # Absent
      BY <1>2 DEF Reviewed
    <3>5. onFailure = "Fail" /\ s.admitted /\ s.new # Absent
          /\ s.new.mode \in installed \ s.waits => Compiles(s.new)
      BY <2>4, <2>5, <3>3, <3>4
    <3>. QED  BY <2>1, <3>1, <3>5 DEF ReviewedOnce, Compiles, Expressions
  <2>8. ASSUME NEW v \in Writers, v # w PROVE ReviewedOnce(v)'
    BY <2>1, <2>2, <2>8 DEF ReviewedOnce, Compiles, Expressions
  <2>. QED  BY <2>1, <2>6, <2>7, <2>8 DEF StoredPoliciesCompile, Compiles, Expressions
<1>3. ASSUME NEW w \in Writers, Commit(w) PROVE WriteInv'
  <2> DEFINE r == review[w]
  <2>1. /\ UNCHANGED <<installed, onFailure>> /\ r \in Review /\ r # Absent /\ r.waits = {}
        /\ review' = [review EXCEPT ![w] = Absent]
        /\ \/ UNCHANGED stored
           \/ r.admitted /\ stored' = [stored EXCEPT ![r.name] = r.new]
    BY <1>3 DEF Commit
  <2>2. r.name \in Names /\ r.new \in MaybePolicy
    BY <2>1 DEF Review
  <2>3. ReviewedOnce(w)
    OBVIOUS
  <2>4. r.admitted /\ onFailure = "Fail" /\ r.new # Absent /\ r.new.mode \in installed
        => Compiles(r.new)
    BY <2>1, <2>3 DEF ReviewedOnce
  <2> HIDE DEF r
  <2>5. stored' \in [Names -> MaybePolicy]
    BY <2>1, <2>2
  <2>6. review' \in [Writers -> Review \cup {Absent}]
    BY <2>1
  <2>7. \A v \in Writers : ReviewedOnce(v)'
    BY <2>1 DEF ReviewedOnce, Compiles, Expressions
  <2>8. StoredPoliciesCompile'
    BY <2>1, <2>2, <2>4 DEF StoredPoliciesCompile, Compiles, Expressions
  <2>. QED  BY <2>1, <2>5, <2>6, <2>7, <2>8
<1>4. CASE UNCHANGED <<installed, onFailure, stored, review>>
  BY <1>4 DEF ReviewedOnce, StoredPoliciesCompile, Compiles, Expressions
<1>5. ASSUME NEW webhook \in Modes, WebhookStops(webhook) \/ WebhookStarts(webhook)
      PROVE  UNCHANGED <<installed, onFailure, stored, review>>
  BY <1>5 DEF WebhookStops, WebhookStarts
<1>6. ASSUME NEW n \in Names, Replicate(n)
      PROVE  UNCHANGED <<installed, onFailure, stored, review>>
  BY <1>6 DEF Replicate
<1>7. ASSUME \/ \E c \in Sidecars : ConfigChanges(c)
             \/ InjectorStarts \/ InjectorStops
             \/ \E pod \in Submittable, fault \in Faults \cup {""} : CreatePod(pod, fault)
             \/ UNCHANGED vars
      PROVE  UNCHANGED <<installed, onFailure, stored, review>>
  BY <1>7 DEF ConfigChanges, InjectorStarts, InjectorStops, CreatePod, policyVars, vars
<1>. QED  BY <1>1, <1>2, <1>3, <1>4, <1>5, <1>6, <1>7 DEF Next

\* A required webhook keeps out every policy of its mode that does not compile,
\* whatever writes run at the same time and however often it is down.
THEOREM WebhooksGuard == Spec => []StoredPoliciesCompile
<1>1. WriteInv => StoredPoliciesCompile
  BY DEF WriteInv
<1>. QED  BY <1>1, InitWrites, NextWrites, PTL DEF Spec

-----------------------------------------------------------------------------
(* Policies as messages *)

\* The lists of a policy come back as they were, and so does a mode that is known.
LEMMA MessageKeeps ==
  ASSUME NEW p \in ValidatingPolicySpec
  PROVE  LET q == FromProto(ToProto(p))
         IN /\ q.validations = p.validations
            /\ q.variables = p.variables
            /\ q.matchConditions = p.matchConditions
            /\ q.mode = IF p.mode \in Modes THEN p.mode ELSE ""
            /\ q.failurePolicy = IF p.failurePolicy.set THEN p.failurePolicy ELSE Some("Ignore")
<1> DEFINE m == ToProto(p)
           q == FromProto(m)
<1>1. /\ m.validations = [i \in DOMAIN p.validations |->
             [expression |-> p.validations[i].expression,
              message |-> Some(p.validations[i].message), reason |-> p.validations[i].reason]]
      /\ m.variables = [i \in DOMAIN p.variables |->
             [name |-> p.variables[i].name, expression |-> p.variables[i].expression]]
      /\ m.matchConditions = [i \in DOMAIN p.matchConditions |->
             [name |-> p.matchConditions[i].name, expression |-> p.matchConditions[i].expression]]
      /\ m.failurePolicy = IF p.failurePolicy.set THEN p.failurePolicy ELSE Some("Ignore")
      /\ m.evaluationMode = p.mode
  BY DEF ToProto, Each
<1> HIDE DEF m
<1>2. /\ q.validations = [i \in DOMAIN m.validations |->
             [expression |-> m.validations[i].expression,
              message |-> m.validations[i].message.val, reason |-> m.validations[i].reason]]
      /\ q.variables = [i \in DOMAIN m.variables |->
             [name |-> m.variables[i].name, expression |-> m.variables[i].expression]]
      /\ q.matchConditions = [i \in DOMAIN m.matchConditions |->
             [name |-> m.matchConditions[i].name, expression |-> m.matchConditions[i].expression]]
      /\ q.failurePolicy = IF m.failurePolicy.set THEN m.failurePolicy ELSE Some("Ignore")
      /\ q.mode = IF m.evaluationMode \in Modes THEN m.evaluationMode ELSE ""
  BY DEF FromProto, Each
<1> HIDE DEF q
<1>3. q.validations = p.validations
  <2> DEFINE V == [expression : STRING, message : STRING, reason : Optional]
  <2>1. p.validations \in Seq(V)
    BY DEF ValidatingPolicySpec
  <2>2. DOMAIN m.validations = DOMAIN p.validations
    BY <1>1
  <2>3. ASSUME NEW i \in DOMAIN p.validations PROVE q.validations[i] = p.validations[i]
    <3>1. p.validations[i] \in V
      <4> HIDE DEF V
      <4>. QED  BY <2>1
    <3>2. m.validations[i] = [expression |-> p.validations[i].expression,
             message |-> Some(p.validations[i].message), reason |-> p.validations[i].reason]
      BY <1>1
    <3>3. q.validations[i] = [expression |-> m.validations[i].expression,
             message |-> m.validations[i].message.val, reason |-> m.validations[i].reason]
      BY <1>2, <2>2
    <3>4. q.validations[i] = [expression |-> p.validations[i].expression,
             message |-> p.validations[i].message, reason |-> p.validations[i].reason]
      BY <3>2, <3>3 DEF Some
    <3>. QED  BY <3>1, <3>4
  <2>4. p.validations = [i \in DOMAIN p.validations |-> p.validations[i]]
    BY <2>1
  <2>5. q.validations = [i \in DOMAIN p.validations |-> q.validations[i]]
    BY <1>2, <2>2
  <2>. QED  BY <2>3, <2>4, <2>5
<1>4. q.variables = p.variables
  <2>1. p.variables \in Seq(Named)
    BY DEF ValidatingPolicySpec
  <2>2. DOMAIN m.variables = DOMAIN p.variables
    BY <1>1
  <2>3. ASSUME NEW i \in DOMAIN p.variables PROVE q.variables[i] = p.variables[i]
    <3>1. p.variables[i] \in Named
      BY <2>1
    <3>2. m.variables[i] = [name |-> p.variables[i].name,
                            expression |-> p.variables[i].expression]
      BY <1>1
    <3>3. q.variables[i] = [name |-> m.variables[i].name,
                            expression |-> m.variables[i].expression]
      BY <1>2, <2>2
    <3>4. q.variables[i] = [name |-> p.variables[i].name,
                            expression |-> p.variables[i].expression]
      BY <3>2, <3>3
    <3>. QED  BY <3>1, <3>4 DEF Named
  <2>4. p.variables = [i \in DOMAIN p.variables |-> p.variables[i]]
    BY <2>1
  <2>5. q.variables = [i \in DOMAIN p.variables |-> q.variables[i]]
    BY <1>2, <2>2
  <2>. QED  BY <2>3, <2>4, <2>5
<1>5. q.matchConditions = p.matchConditions
  <2>1. p.matchConditions \in Seq(Named)
    BY DEF ValidatingPolicySpec
  <2>2. DOMAIN m.matchConditions = DOMAIN p.matchConditions
    BY <1>1
  <2>3. ASSUME NEW i \in DOMAIN p.matchConditions
        PROVE  q.matchConditions[i] = p.matchConditions[i]
    <3>1. p.matchConditions[i] \in Named
      BY <2>1
    <3>2. m.matchConditions[i] = [name |-> p.matchConditions[i].name,
                            expression |-> p.matchConditions[i].expression]
      BY <1>1
    <3>3. q.matchConditions[i] = [name |-> m.matchConditions[i].name,
                            expression |-> m.matchConditions[i].expression]
      BY <1>2, <2>2
    <3>4. q.matchConditions[i] = [name |-> p.matchConditions[i].name,
                            expression |-> p.matchConditions[i].expression]
      BY <3>2, <3>3
    <3>. QED  BY <3>1, <3>4 DEF Named
  <2>4. p.matchConditions = [i \in DOMAIN p.matchConditions |-> p.matchConditions[i]]
    BY <2>1
  <2>5. q.matchConditions = [i \in DOMAIN p.matchConditions |-> q.matchConditions[i]]
    BY <1>2, <2>2
  <2>. QED  BY <2>3, <2>4, <2>5
<1>6. q.mode = IF p.mode \in Modes THEN p.mode ELSE ""
  BY <1>1, <1>2
<1>7. q.failurePolicy = IF p.failurePolicy.set THEN p.failurePolicy ELSE Some("Ignore")
  BY <1>1, <1>2 DEF Some
<1>. QED  BY <1>3, <1>4, <1>5, <1>6, <1>7 DEF q, m

\* What a sidecar has is the message of the policy that it was made of, as it was
\* stored then, and of a mode that is replicated.
ReplicaInv ==
  /\ stored \in [Names -> MaybePolicy]
  /\ replica \in [Names -> {FromProto(ToProto(p)) : p \in Specs} \cup {Absent}]
  /\ sentOf \in [Names -> MaybePolicy]
  /\ \A n \in Names : replica[n] # Absent =>
       /\ sentOf[n] \in Specs /\ sentOf[n].mode \in Modes
       /\ replica[n] = FromProto(ToProto(sentOf[n]))

\* Only Replicate changes what a sidecar has.
LEMMA NextReplica == ASSUME WriteInv, ReplicaInv, [Next]_vars PROVE ReplicaInv'
<1>0. stored' \in [Names -> MaybePolicy]
  BY NextWrites DEF WriteInv
<1>1. ASSUME NEW n \in Names, Replicate(n) PROVE ReplicaInv'
  <2>1. sentOf' = [sentOf EXCEPT ![n] = stored[n]] /\ stored[n] \in MaybePolicy
    BY <1>1 DEF Replicate, ReplicaInv
  <2>2. CASE replica' = [replica EXCEPT ![n] = Absent]
    BY <1>0, <2>1, <2>2 DEF ReplicaInv
  <2>3. CASE /\ stored[n] # Absent /\ stored[n].mode \in Modes
             /\ replica' = [replica EXCEPT ![n] = FromProto(ToProto(stored[n]))]
    <3>1. stored[n] \in Specs
      BY <2>1, <2>3 DEF MaybePolicy
    <3>. QED  BY <1>0, <2>1, <2>3, <3>1 DEF ReplicaInv
  <2>. QED  BY <1>1, <2>2, <2>3 DEF Replicate
<1>2. CASE UNCHANGED <<replica, sentOf>>
  BY <1>0, <1>2 DEF ReplicaInv
<1>3. ASSUME NEW w \in Writers,
             \/ \E n \in Names, new \in Specs \cup {Absent} : Write(w, n, new)
             \/ \E webhook \in Modes : Reviewed(w, webhook)
             \/ Commit(w)
      PROVE  UNCHANGED <<replica, sentOf>>
  BY <1>3 DEF Write, Reviewed, Commit
<1>4. ASSUME NEW webhook \in Modes, WebhookStops(webhook) \/ WebhookStarts(webhook)
      PROVE  UNCHANGED <<replica, sentOf>>
  BY <1>4 DEF WebhookStops, WebhookStarts
<1>5. ASSUME \/ \E c \in Sidecars : ConfigChanges(c)
             \/ InjectorStarts \/ InjectorStops
             \/ \E pod \in Submittable, fault \in Faults \cup {""} : CreatePod(pod, fault)
             \/ UNCHANGED vars
      PROVE  UNCHANGED <<replica, sentOf>>
  BY <1>5 DEF ConfigChanges, InjectorStarts, InjectorStops, CreatePod, policyVars, vars
<1>. QED  BY <1>1, <1>2, <1>3, <1>4, <1>5 DEF Next

\* A sidecar decides as a server does that reads the policy itself, whatever the policy
\* is, but for the failure policy that is not set.
THEOREM ReplicasDecideAlike == Spec => []ReplicaDecidesAlike
<1>1. Init => ReplicaInv
  BY DEF Init, ReplicaInv, MaybePolicy
<1>2. ReplicaInv => ReplicaDecidesAlike
  <2> SUFFICES ASSUME ReplicaInv, NEW n \in Names, replica[n] # Absent
               PROVE  /\ \A fails \in BOOLEAN :
                           \/ Decides(sentOf[n], fails) = Decides(replica[n], fails)
                           \/ fails /\ ~sentOf[n].failurePolicy.set
                      /\ sentOf[n].validations = replica[n].validations
                      /\ sentOf[n].variables = replica[n].variables
                      /\ sentOf[n].matchConditions = replica[n].matchConditions
    BY DEF ReplicaDecidesAlike
  <2>1. sentOf[n] \in ValidatingPolicySpec /\ sentOf[n].mode \in Modes
    BY ObjectsAssumption DEF ReplicaInv
  <2>2. /\ replica[n].validations = sentOf[n].validations
        /\ replica[n].variables = sentOf[n].variables
        /\ replica[n].matchConditions = sentOf[n].matchConditions
        /\ replica[n].mode = sentOf[n].mode
        /\ sentOf[n].failurePolicy.set => replica[n].failurePolicy = sentOf[n].failurePolicy
    <3>1. replica[n] = FromProto(ToProto(sentOf[n]))
      BY DEF ReplicaInv
    <3>. QED  BY <2>1, <3>1, MessageKeeps
  <2>3. Compiles(replica[n]) = Compiles(sentOf[n])
    BY <2>2 DEF Compiles, Expressions
  <2>. QED  BY <2>2, <2>3 DEF Decides
<1>. QED  BY <1>1, <1>2, InitWrites, NextWrites, NextReplica, PTL DEF Spec

-----------------------------------------------------------------------------
(* The sidecar injector *)

MaybeSidecar == Sidecar \cup {Absent}

\* What is remembered of a pod that was created.
Creation == [submitted : PodSpec, kind : {"as is", "refused", "injected"}, pod : PodSpec,
             scar : MaybeSidecar]

\* What InjectionOnlyAdds says of one pod.
OnlyAdds(c) ==
  /\ c.kind = "injected" =>
       /\ \A l \in Lists : c.pod[l] = c.submitted[l] \o c.scar[l]
       /\ c.pod.other = c.submitted.other
       /\ c.pod.newer \subseteq c.submitted.newer
  /\ c.kind = "as is" => c.pod = c.submitted /\ onFailure = "Ignore"

\* A pod may be made of one that was injected before: everything created is a pod.
InjectionInv ==
  /\ onFailure \in {"Fail", "Ignore"}
  /\ config \in Sidecars /\ scar \in MaybeSidecar
  /\ created \in Seq(Creation)
  /\ \A i \in 1..Len(created) : OnlyAdds(created[i])

\* What the injector makes of a pod.
LEMMA InjectAdds ==
  ASSUME NEW pod \in PodSpec, scar \in Sidecar
  PROVE  /\ Mutate(pod) \in PodSpec
         /\ \A l \in Lists : Mutate(pod)[l] = pod[l] \o scar[l]
         /\ Mutate(pod).other = pod.other /\ Mutate(pod).newer = {}
<1> DEFINE d == [pod EXCEPT !.newer = {}]
           q == Inject(d, scar)
<1>1. /\ d \in PodSpec
      /\ d.initContainers = pod.initContainers /\ d.containers = pod.containers
      /\ d.volumes = pod.volumes /\ d.imagePullSecrets = pod.imagePullSecrets
      /\ d.other = pod.other /\ d.newer = {}
  BY DEF PodSpec
<1> HIDE DEF d
<1>2. /\ d.initContainers \o scar.initContainers \in Seq(STRING)
      /\ d.containers \o scar.containers \in Seq(STRING)
      /\ d.volumes \o scar.volumes \in Seq(STRING)
      /\ d.imagePullSecrets \o scar.imagePullSecrets \in Seq(STRING)
  BY <1>1 DEF PodSpec, Sidecar
<1>3. q \in PodSpec
  BY <1>1, <1>2 DEF Inject, PodSpec
<1>4. /\ q.initContainers = d.initContainers \o scar.initContainers
      /\ q.containers = d.containers \o scar.containers
      /\ q.volumes = d.volumes \o scar.volumes
      /\ q.imagePullSecrets = d.imagePullSecrets \o scar.imagePullSecrets
      /\ q.other = d.other /\ q.newer = d.newer
  BY <1>1, <1>2 DEF Inject, PodSpec
<1>5. q = Mutate(pod)
  BY DEF Mutate, d
<1> HIDE DEF q
<1>6. \A l \in Lists : q[l] = pod[l] \o scar[l]
  BY <1>1, <1>4 DEF Lists
<1>. QED  BY <1>1, <1>3, <1>4, <1>5, <1>6

\* What becomes of a pod that is submitted.
LEMMA OutcomeAdds ==
  ASSUME NEW pod \in PodSpec, NEW fault, scar \in MaybeSidecar, onFailure \in {"Fail", "Ignore"}
  PROVE  LET o == Outcome(pod, fault)
             c == [submitted |-> pod, kind |-> o.kind, pod |-> o.pod, scar |-> scar]
         IN c \in Creation /\ OnlyAdds(c)
<1> DEFINE o == Outcome(pod, fault)
           c == [submitted |-> pod, kind |-> o.kind, pod |-> o.pod, scar |-> scar]
<1>1. CASE o = [kind |-> "as is", pod |-> pod] /\ onFailure = "Ignore"
  <2> HIDE DEF o
  <2>1. o.kind = "as is" /\ o.pod = pod
    BY <1>1
  <2>. QED  BY <1>1, <2>1 DEF Creation, OnlyAdds, o
<1>2. CASE o = [kind |-> "refused", pod |-> pod]
  <2> HIDE DEF o
  <2>1. o.kind = "refused" /\ o.pod = pod
    BY <1>2
  <2>. QED  BY <2>1 DEF Creation, OnlyAdds, o
<1>3. CASE o = [kind |-> "injected", pod |-> Mutate(pod)] /\ scar # Absent
  <2>1. o.kind = "injected" /\ o.pod = Mutate(pod) /\ scar \in Sidecar
    BY <1>3 DEF MaybeSidecar
  <2>2. /\ Mutate(pod) \in PodSpec
        /\ \A l \in Lists : Mutate(pod)[l] = pod[l] \o scar[l]
        /\ Mutate(pod).other = pod.other /\ Mutate(pod).newer = {}
    BY <2>1, InjectAdds
  <2> HIDE DEF o
  <2>3. c \in Creation
    BY <2>1, <2>2 DEF Creation
  <2>4. c.kind = "injected" /\ c.pod = Mutate(pod) /\ c.submitted = pod /\ c.scar = scar
    BY <2>1
  <2> HIDE DEF c
  <2>. QED  BY <2>2, <2>3, <2>4 DEF OnlyAdds, o, c
<1>4. \/ o = [kind |-> "as is", pod |-> pod] /\ onFailure = "Ignore"
      \/ o = [kind |-> "refused", pod |-> pod]
      \/ o = [kind |-> "injected", pod |-> Mutate(pod)] /\ scar # Absent
  <2>1. CASE scar = Absent \/ fault # ""
    BY <2>1 DEF Outcome
  <2>2. CASE scar # Absent /\ fault = ""
    <3> DEFINE a == AdmissionReview(pod, fault)
               ok == a.allowed /\ IsInjective(a.patched.initContainers \o a.patched.containers)
    <3>1. o = IF ok THEN [kind |-> "injected", pod |-> a.patched]
              ELSE [kind |-> "refused", pod |-> pod]
      BY <2>2 DEF Outcome
    <3>2. a.allowed => a.patched = Mutate(pod)
      BY <2>2 DEF AdmissionReview
    <3>3. ok => a.allowed
      OBVIOUS
    <3> HIDE DEF a, ok, o
    <3>. QED  BY <2>2, <3>1, <3>2, <3>3
  <2>. QED  BY <2>1, <2>2
<1>. QED  BY <1>1, <1>2, <1>3, <1>4

\* InjectionInv is inductive; nothing but the creation of a pod adds to what was created.
LEMMA NextInjection == ASSUME InjectionInv, [Next]_vars PROVE InjectionInv'
<1>0. onFailure' = onFailure
  BY DEF Next, Write, Reviewed, Commit, WebhookStops, WebhookStarts, Replicate, ConfigChanges,
         InjectorStarts, InjectorStops, CreatePod, policyVars, vars
<1>1. CASE UNCHANGED podVars
  BY <1>0, <1>1 DEF podVars, InjectionInv, OnlyAdds
<1>2. ASSUME NEW x \in Sidecars, ConfigChanges(x) PROVE InjectionInv'
  BY <1>0, <1>2 DEF ConfigChanges, InjectionInv, OnlyAdds
<1>3. CASE InjectorStarts
  <2>1. scar' \in MaybeSidecar /\ UNCHANGED <<config, created>>
    BY <1>3, ObjectsAssumption DEF InjectorStarts, InjectionInv, MaybeSidecar
  <2>. QED  BY <1>0, <2>1 DEF InjectionInv, OnlyAdds
<1>4. CASE InjectorStops
  BY <1>0, <1>4 DEF InjectorStops, InjectionInv, OnlyAdds, MaybeSidecar
<1>5. ASSUME NEW pod \in Submittable, NEW fault, CreatePod(pod, fault)
      PROVE  InjectionInv'
  <2>0. created \in Seq(Creation)
    BY DEF InjectionInv
  <2>1. pod \in PodSpec
    <3>1. ASSUME NEW i \in DOMAIN created PROVE created[i].pod \in PodSpec
      <4>1. created[i] \in Creation
        BY <2>0
      <4>. QED  BY <4>1 DEF Creation
    <3>. QED  BY <3>1, ObjectsAssumption DEF Submittable
  <2> DEFINE o == Outcome(pod, fault)
             c == [submitted |-> pod, kind |-> o.kind, pod |-> o.pod, scar |-> scar]
  <2>2. created' = Append(created, c) /\ UNCHANGED <<config, scar>>
    BY <1>5 DEF CreatePod
  <2>3. c \in Creation /\ OnlyAdds(c)
    BY <2>1, OutcomeAdds DEF InjectionInv
  <2> HIDE DEF c
  <2>4. /\ Len(created) \in Nat /\ created' \in Seq(Creation)
        /\ Len(created') = Len(created) + 1 /\ created'[Len(created) + 1] = c
        /\ \A i \in 1..Len(created) : created'[i] = created[i]
    <3>1. c \in Creation
      BY <2>3
    <3>. QED  BY <2>0, <2>2, <3>1
  <2>5. \A i \in 1..Len(created') : OnlyAdds(created'[i])
    <3>1. \A i \in 1..Len(created') : i \in 1..Len(created) \/ i = Len(created) + 1
      <4>1. Len(created) \in Nat /\ Len(created') = Len(created) + 1
        BY <2>4
      <4>. QED  BY <4>1
    <3>. QED  BY <2>3, <2>4, <3>1 DEF InjectionInv
  <2>6. \A i \in 1..Len(created') : OnlyAdds(created[i])'
    BY <1>0, <2>5 DEF OnlyAdds
  <2>. QED  BY <1>0, <2>2, <2>4, <2>6 DEF InjectionInv
<1>6. ASSUME NEW w \in Writers,
             \/ \E n \in Names, new \in Specs \cup {Absent} : Write(w, n, new)
             \/ \E webhook \in Modes : Reviewed(w, webhook)
             \/ Commit(w)
      PROVE  UNCHANGED podVars
  BY <1>6 DEF Write, Reviewed, Commit
<1>7. ASSUME \/ \E webhook \in Modes : WebhookStops(webhook) \/ WebhookStarts(webhook)
             \/ \E n \in Names : Replicate(n)
             \/ UNCHANGED vars
      PROVE  UNCHANGED podVars
  BY <1>7 DEF WebhookStops, WebhookStarts, Replicate, vars
<1>. QED  BY <1>0, <1>1, <1>2, <1>3, <1>4, <1>5, <1>6, <1>7 DEF Next

\* Whatever pods are submitted, copies of injected ones too, the injector takes nothing
\* away that it knows and adds the sidecar once.
THEOREM InjectorOnlyAdds == Spec => []InjectionOnlyAdds
<1>1. Init => InjectionInv
  BY DEF Init, InjectionInv, MaybeSidecar
<1>2. InjectionInv => InjectionOnlyAdds
  <2>1. created \in Seq(Creation) => DOMAIN created = 1..Len(created)
    OBVIOUS
  <2>. QED  BY <2>1 DEF InjectionInv, InjectionOnlyAdds, OnlyAdds
<1>. QED  BY <1>1, <1>2, NextInjection, PTL DEF Spec
=============================================================================
