-------------------------- MODULE PolicyEngine_proofs --------------------------
(* Proofs of the properties of PolicyEngine, for any lists of policies. *)
EXTENDS PolicyEngine, TLAPS

-----------------------------------------------------------------------------
(* Policies and what they yield *)

\* A policy of a list is a record of two sequences, a failure policy and the
\* outcome of setupVariables.
LEMMA PolicyType ==
  ASSUME policies \in PolicyLists \cup {NoPolicies}
  PROVE  /\ Len(policies) \in Nat
         /\ \A n \in 1..Len(policies) :
              /\ policies[n] \in CompiledPolicies
              /\ Len(policies[n].matchConditions) \in Nat
              /\ Len(policies[n].rules) \in Nat
              /\ policies[n].failurePolicy \in {"Fail", "Ignore"}
              /\ \A k \in 1..Len(policies[n].matchConditions) :
                   policies[n].matchConditions[k] \in ConditionOutcomes
              /\ \A k \in 1..Len(policies[n].rules) :
                   policies[n].rules[k] \in RuleOutcomes
<1>1. policies \in Seq(CompiledPolicies)
  <2>1. CASE policies \in PolicyLists
    BY <2>1, PolicyListsAssumption
  <2>2. CASE policies = NoPolicies
    <3>1. <<>> \in Seq(CompiledPolicies)
      OBVIOUS
    <3>. QED  BY <2>2, <3>1 DEF NoPolicies
  <2>. QED  BY <2>1, <2>2
<1>2. Len(policies) \in Nat /\ \A n \in 1..Len(policies) : policies[n] \in CompiledPolicies
  BY <1>1
<1>3. ASSUME NEW p \in CompiledPolicies
      PROVE  /\ p.matchConditions \in Seq(ConditionOutcomes)
             /\ p.rules \in Seq(RuleOutcomes)
             /\ p.failurePolicy \in {"Fail", "Ignore"}
  BY DEF CompiledPolicies
<1>4. ASSUME NEW S, NEW s \in Seq(S)
      PROVE  Len(s) \in Nat /\ \A k \in 1..Len(s) : s[k] \in S
  OBVIOUS
<1>. QED  BY <1>2, <1>3, <1>4

\* The rules of a policy have one first value.
LEMMA FirstRuleUnique ==
  ASSUME NEW p, Len(p.rules) \in Nat, NEW r, NEW q, FirstRule(p, r), FirstRule(p, q)
  PROVE  r = q
BY DEF FirstRule

\* A policy yields one contribution.
LEMMA YieldsUnique ==
  ASSUME NEW p, Len(p.rules) \in Nat, NEW d, NEW e, Yields(p, d), Yields(p, e)
  PROVE  d = e
BY FirstRuleUnique DEF Yields, Raw

-----------------------------------------------------------------------------
(* The inductive invariant *)

\* What has been evaluated before policy i left the result it should, and none of
\* it is a verdict.
Before ==
  /\ \A l \in 1..(i - 1) : Yields(policies[l], "nil") \/ Yields(policies[l], "error")
  /\ \/ result = "nil" /\ \A l \in 1..(i - 1) : Yields(policies[l], "nil")
     \/ result = "error" /\ \E k \in 1..(i - 1) :
          Yields(policies[k], "error") /\ \A l \in 1..(k - 1) : Yields(policies[l], "nil")

\* What the loops over conditions and rules have been through.
Progress ==
  /\ pc = "match" =>
       /\ j <= Len(policy.matchConditions) + 1
       /\ \A k \in 1..(j - 1) : policy.matchConditions[k] # "false"
       /\ errs <=> \E k \in 1..(j - 1) : policy.matchConditions[k] = "error"
  /\ pc = "rules" =>
       /\ j <= Len(policy.rules) + 1
       /\ ~Skipped(policy) /\ ~Broken(policy)
       /\ \A k \in 1..(j - 1) : policy.rules[k] = "null"
  /\ pc = "evaluated" => Raw(policy, out)
  /\ pc = "collect" => Yields(policy, out)

EngineInv ==
  /\ pc \in {"receive", "load"} => i = 1 /\ result = "nil"
  /\ pc = "dispatch" => i <= Len(policies) + 1
  /\ pc \in {"match", "rules", "evaluated", "collect"} => i <= Len(policies)
  /\ pc \in {"dispatch", "match", "rules", "evaluated", "collect"} => Before
  /\ Progress
  /\ pc = "respond" => Decides(policies, result)
  /\ pc = "done" /\ answer = "allow" => Decides(policies, "nil") \/ Decides(policies, "allow")

-----------------------------------------------------------------------------
(* Type correctness *)

\* Every step keeps errs a Boolean.
LEMMA NextErrs == ASSUME TypeOK, [Next]_vars PROVE errs' \in BOOLEAN
<1>1. CASE errs' = errs
  BY <1>1 DEF TypeOK
<1>2. CASE MatchCondition
  BY <1>2 DEF TypeOK, MatchCondition
<1>3. CASE errs' = FALSE
  BY <1>3
<1>. QED
  BY <1>1, <1>2, <1>3
  DEF Next, Steps, vars, Receive, ReceiveFails, Load, Dispatch, DispatchEnds, MatchEnds,
      Rule, RulesEnd, Evaluate, Collect, Respond, RespondFails, NextRequest

\* Every step keeps the type of the other variables.
LEMMA NextType ==
  ASSUME TypeOK, [Next]_vars, errs' \in BOOLEAN
  PROVE  TypeOK'
<1> USE DEF TypeOK, Evaluations
<1>1. CASE Receive \/ ReceiveFails \/ Load \/ DispatchEnds
  BY <1>1 DEF Receive, ReceiveFails, Load, DispatchEnds
<1>2. CASE MatchCondition
  BY <1>2 DEF MatchCondition
<1>3. CASE MatchEnds \/ RulesEnd
  BY <1>3 DEF MatchEnds, RulesEnd
<1>4. CASE Rule
  BY <1>4 DEF Rule, Outcome
<1>5. CASE Evaluate \/ Collect
  BY <1>5 DEF Evaluate, Collect
<1>6. CASE Respond \/ RespondFails
  BY <1>6 DEF Respond, RespondFails
<1>7. CASE Dispatch
  <2>1. /\ j' = 1 /\ pc' = "match"
        /\ UNCHANGED <<policies, i, out, result, answer>>
    BY <1>7 DEF Dispatch
  <2>. QED  BY <2>1
<1>8. CASE NextRequest
  <2>1. /\ pc' = "receive" /\ policies' = NoPolicies /\ i' = 1 /\ j' = 1
        /\ out' = "nil" /\ result' = "nil" /\ answer' = "none"
    BY <1>8 DEF NextRequest
  <2>. QED  BY <2>1
<1>9. CASE UNCHANGED vars
  BY <1>9 DEF vars
<1>. QED  BY <1>1, <1>2, <1>3, <1>4, <1>5, <1>6, <1>7, <1>8, <1>9 DEF Next, Steps

\* Every step keeps the type.
LEMMA NextTypeOK == ASSUME TypeOK, [Next]_vars PROVE TypeOK'
BY NextErrs, NextType

\* The state of a request keeps its type, for any policies.
THEOREM TypeCorrect == Spec => []TypeOK
<1>1. Init => TypeOK
  <2> SUFFICES ASSUME Init PROVE TypeOK
    OBVIOUS
  <2>1. errs \in BOOLEAN
    BY DEF Init
  <2>2. /\ pc = "receive" /\ policies = NoPolicies /\ i = 1 /\ j = 1
        /\ out = "nil" /\ result = "nil" /\ answer = "none"
    BY DEF Init
  <2>. QED  BY <2>1, <2>2 DEF TypeOK, Evaluations
<1>. QED  BY <1>1, NextTypeOK, PTL DEF Spec

-----------------------------------------------------------------------------
(* The invariant is inductive *)

\* A request starts with nothing evaluated.
LEMMA InitEngineInv == Init => EngineInv
BY DEF Init, EngineInv, Progress

\* The loop over the match conditions: a false one skips the policy, the errors
\* are remembered, and what is left at its end is the outcome or a policy that
\* is neither skipped nor broken.
LEMMA MatchKeepsInv ==
  ASSUME TypeOK, EngineInv, MatchCondition \/ MatchEnds
  PROVE  EngineInv'
<1> DEFINE C == policy.matchConditions
<1>1. /\ pc = "match" /\ i \in 1..Len(policies)
      /\ policies' = policies /\ i' = i /\ result' = result
      /\ pc' \in {"match", "rules", "evaluated"}
  BY DEF MatchCondition, MatchEnds, EngineInv, TypeOK
<1>2. Len(C) \in Nat /\ \A k \in 1..Len(C) : C[k] \in ConditionOutcomes
  BY <1>1, PolicyType DEF TypeOK, policy
<1>3. Before' /\ policy' = policy
  BY <1>1 DEF EngineInv, Before, policy
<1>4. Progress'
  <2>1. CASE MatchCondition /\ C[j] = "false"
    <3>1. Skipped(policy)
      BY <1>2, <2>1 DEF MatchCondition, Skipped, TypeOK
    <3>. QED  BY <1>3, <2>1, <3>1 DEF MatchCondition, Progress, Raw
  <2>2. CASE MatchCondition /\ C[j] # "false"
    <3>1. pc' = "match" /\ j' = j + 1 /\ j \in Nat \ {0} /\ errs' = (errs \/ C[j] = "error")
      BY <2>2 DEF MatchCondition, TypeOK
    <3>2. \A k \in 1..(j - 1) : C[k] # "false"
      BY <1>1 DEF EngineInv, Progress
    <3>3. errs <=> \E k \in 1..(j - 1) : C[k] = "error"
      BY <1>1 DEF EngineInv, Progress
    <3>4. j' <= Len(C) + 1 /\ \A k \in 1..(j' - 1) : C[k] # "false"
      BY <1>2, <2>2, <3>1, <3>2 DEF MatchCondition
    <3>5. errs' <=> \E k \in 1..(j' - 1) : C[k] = "error"
      <4>1. 1..(j' - 1) = 1..(j - 1) \cup {j}
        BY <3>1
      <4>2. (\E k \in 1..(j' - 1) : C[k] = "error")
              <=> (\E k \in 1..(j - 1) : C[k] = "error") \/ C[j] = "error"
        BY <4>1, Zenon
      <4>. QED  BY <3>1, <3>3, <4>2
    <3>. QED  BY <1>3, <3>1, <3>4, <3>5 DEF Progress
  <2>3. CASE MatchEnds
    <3>1. j = Len(C) + 1
      BY <1>1, <1>2, <2>3 DEF MatchEnds, EngineInv, Progress, TypeOK
    <3>2. ~Skipped(policy)
      BY <1>1, <1>2, <3>1 DEF EngineInv, Progress, Skipped
    <3>3. Broken(policy) <=> errs \/ policy.setup = "error"
      BY <1>1, <1>2, <3>1 DEF EngineInv, Progress, Broken
    <3>4. Len(policy.rules) \in Nat
      BY <1>1, PolicyType DEF TypeOK, policy
    <3>. QED  BY <1>3, <2>3, <3>2, <3>3, <3>4 DEF MatchEnds, Progress, Raw
  <2>. QED  BY <2>1, <2>2, <2>3
<1>. QED  BY <1>1, <1>3, <1>4 DEF EngineInv

\* The loop over the rules: only null rules are passed, and the one that is not
\* null is the outcome.
LEMMA RulesKeepInv ==
  ASSUME TypeOK, EngineInv, Rule \/ RulesEnd
  PROVE  EngineInv'
<1> DEFINE R == policy.rules
<1>1. /\ pc = "rules" /\ i \in 1..Len(policies)
      /\ policies' = policies /\ i' = i /\ result' = result
      /\ pc' \in {"rules", "evaluated"}
  BY DEF Rule, RulesEnd, EngineInv, TypeOK
<1>2. Len(R) \in Nat /\ \A k \in 1..Len(R) : R[k] \in RuleOutcomes
  BY <1>1, PolicyType DEF TypeOK, policy
<1>3. Before' /\ policy' = policy
  BY <1>1 DEF EngineInv, Before, policy
<1>4. /\ j \in Nat \ {0} /\ j <= Len(R) + 1
      /\ ~Skipped(policy) /\ ~Broken(policy)
      /\ \A k \in 1..(j - 1) : R[k] = "null"
  BY <1>1 DEF EngineInv, Progress, TypeOK
<1>5. Progress'
  <2>1. CASE Rule /\ R[j] = "null"
    <3>1. pc' = "rules" /\ j' = j + 1 /\ j <= Len(R)
      BY <1>1, <2>1 DEF Rule
    <3>. QED  BY <1>2, <1>3, <1>4, <2>1, <3>1 DEF Progress
  <2>2. CASE Rule /\ R[j] # "null"
    <3>1. pc' = "evaluated" /\ out' = Outcome(R[j]) /\ j <= Len(R)
      BY <2>2 DEF Rule
    <3>2. FirstRule(policy, R[j])
      BY <1>2, <1>4, <2>2, <3>1 DEF FirstRule
    <3>3. R[j] \in RuleOutcomes
      BY <1>2, <1>4, <3>1
    <3>4. Raw(policy, Outcome(R[j]))
      BY <1>4, <2>2, <3>2, <3>3 DEF Raw, Outcome, RuleOutcomes
    <3>. QED  BY <1>3, <3>1, <3>4 DEF Progress
  <2>3. CASE RulesEnd
    <3>1. FirstRule(policy, "null")
      BY <1>2, <1>4, <2>3 DEF RulesEnd, FirstRule
    <3>. QED  BY <1>3, <1>4, <2>3, <3>1 DEF RulesEnd, Progress, Raw
  <2>. QED  BY <2>1, <2>2, <2>3
<1>. QED  BY <1>1, <1>3, <1>5 DEF EngineInv

\* The failure policy turns the outcome of a policy into its contribution.
LEMMA EvaluateKeepsInv ==
  ASSUME TypeOK, EngineInv, Evaluate
  PROVE  EngineInv'
<1>1. /\ pc = "evaluated" /\ pc' = "collect" /\ i \in 1..Len(policies)
      /\ policies' = policies /\ i' = i /\ result' = result
  BY DEF Evaluate, EngineInv, TypeOK
<1>2. Before' /\ policy' = policy
  BY <1>1 DEF EngineInv, Before, policy
<1>3. Raw(policy, out) /\ policy.failurePolicy \in {"Fail", "Ignore"}
  BY <1>1, PolicyType DEF EngineInv, Progress, TypeOK, policy
<1>4. Yields(policy, out')
  BY <1>3 DEF Evaluate, Yields
<1>. QED  BY <1>1, <1>2, <1>4 DEF EngineInv, Progress

\* Collect adds the contribution of policy i to what the result stands for: the
\* loop goes on with the prefix one longer, or ends with the decision.
LEMMA CollectKeepsInv ==
  ASSUME TypeOK, EngineInv, Collect
  PROVE  EngineInv'
<1>1. /\ pc = "collect" /\ i \in 1..Len(policies) /\ i' = i + 1
      /\ policies' = policies /\ Len(policies) \in Nat
      /\ result' = IF result = "nil" THEN out ELSE result
      /\ pc' = IF out \in {"allow", "deny"} THEN "respond" ELSE "dispatch"
      /\ out \in Evaluations
  BY PolicyType DEF Collect, EngineInv, TypeOK
<1>2. Before /\ Yields(policies[i], out)
  BY <1>1 DEF EngineInv, Progress, policy
<1>3. 1..(i' - 1) = 1..(i - 1) \cup {i}
  BY <1>1
<1>4. CASE out \in {"allow", "deny"}
  <2>1. Decides(policies, result')
    <3>1. CASE result = "nil"
      BY <1>1, <1>2, <1>4, <3>1 DEF Before, Decides
    <3>2. CASE result = "error"
      <4>1. PICK k \in 1..(i - 1) :
              Yields(policies[k], "error") /\ \A l \in 1..(k - 1) : Yields(policies[l], "nil")
        BY <1>2, <3>2 DEF Before
      <4>2. k \in 1..Len(policies)
        BY <1>1, <4>1
      <4>. QED  BY <1>1, <3>2, <4>1, <4>2 DEF Decides
    <3>. QED  BY <1>2, <3>1, <3>2 DEF Before
  <2>. QED  BY <1>1, <1>4, <2>1 DEF EngineInv, Progress
<1>5. CASE out = "nil"
  <2>1. Before'
    BY <1>1, <1>2, <1>3, <1>5 DEF Before
  <2>. QED  BY <1>1, <1>5, <2>1 DEF EngineInv, Progress
<1>6. CASE out = "error"
  <2>1. \A l \in 1..(i' - 1) : Yields(policies[l], "nil") \/ Yields(policies[l], "error")
    BY <1>2, <1>3, <1>6 DEF Before
  <2>2. CASE result = "nil"
    <3>1. /\ i \in 1..(i' - 1) /\ Yields(policies[i], "error")
          /\ \A l \in 1..(i - 1) : Yields(policies[l], "nil")
      BY <1>2, <1>3, <1>6, <2>2 DEF Before
    <3>. QED  BY <1>1, <1>6, <2>1, <2>2, <3>1 DEF Before, EngineInv, Progress
  <2>3. CASE result = "error"
    <3>1. \E k \in 1..(i' - 1) :
            Yields(policies[k], "error") /\ \A l \in 1..(k - 1) : Yields(policies[l], "nil")
      BY <1>2, <1>3, <2>3 DEF Before
    <3>. QED  BY <1>1, <1>6, <2>1, <2>3, <3>1 DEF Before, EngineInv, Progress
  <2>. QED  BY <1>2, <2>2, <2>3 DEF Before
<1>. QED  BY <1>1, <1>4, <1>5, <1>6 DEF Evaluations

\* The other steps: the prefix is empty at the start, whole at the end, and the
\* answer is made of the decision.
LEMMA OthersKeepInv ==
  ASSUME TypeOK, EngineInv,
         \/ Receive \/ ReceiveFails \/ Load \/ Dispatch \/ DispatchEnds
         \/ Respond \/ RespondFails \/ NextRequest \/ UNCHANGED vars
  PROVE  EngineInv'
<1>1. CASE Receive \/ ReceiveFails \/ NextRequest \/ RespondFails
  BY <1>1 DEF Receive, ReceiveFails, NextRequest, RespondFails, EngineInv, Progress
<1>2. CASE Load
  <2>1. Len(policies') \in Nat
    BY <1>2, PolicyListsAssumption DEF Load
  <2>. QED  BY <1>2, <2>1 DEF Load, EngineInv, Progress, Before
<1>3. CASE Dispatch
  <2>1. pc' = "match" /\ j' = 1 /\ ~errs' /\ i <= Len(policies)
        /\ policies' = policies /\ i' = i /\ result' = result /\ pc = "dispatch"
    BY <1>3 DEF Dispatch
  <2>2. i \in 1..Len(policies) /\ Before'
    BY <2>1, PolicyType DEF EngineInv, Before, TypeOK
  <2>3. Len(policy'.matchConditions) \in Nat
    BY <2>1, <2>2, PolicyType DEF policy, TypeOK
  <2>4. Progress'
    BY <2>1, <2>3 DEF Progress
  <2>. QED  BY <2>1, <2>2, <2>4 DEF EngineInv
<1>4. CASE DispatchEnds
  <2>1. i = Len(policies) + 1 /\ Before /\ Len(policies) \in Nat
    BY <1>4, PolicyType DEF DispatchEnds, EngineInv, TypeOK
  <2>2. Decides(policies, result)
    BY <2>1 DEF Before, Decides
  <2>. QED  BY <1>4, <2>2 DEF DispatchEnds, EngineInv, Progress
<1>5. CASE Respond
  BY <1>5 DEF Respond, EngineInv, Progress
<1>6. CASE UNCHANGED vars
  BY <1>6 DEF vars, EngineInv, Progress, Before, policy
<1>. QED  BY <1>1, <1>2, <1>3, <1>4, <1>5, <1>6

\* EngineInv is inductive.
LEMMA NextEngineInv == ASSUME TypeOK, EngineInv, [Next]_vars PROVE EngineInv'
BY MatchKeepsInv, RulesKeepInv, EvaluateKeepsInv, CollectKeepsInv, OthersKeepInv
   DEF Next, Steps

\* EngineInv holds of every request.
LEMMA EngineInvariant == Spec => []EngineInv
BY InitEngineInv, NextEngineInv, TypeCorrect, PTL DEF Spec

-----------------------------------------------------------------------------
(* The properties *)

\* The step by step evaluation of the engine computes the declarative decision.
THEOREM DecisionIsComputed == Spec => []ResultIsDecision
<1>1. EngineInv => ResultIsDecision
  BY DEF EngineInv, ResultIsDecision
<1>. QED  BY <1>1, EngineInvariant, PTL

\* No request is allowed against a policy that denies it or fails under Fail,
\* unless a policy before it allows it.
THEOREM NeverAllowedAgainst == Spec => []AllowedOnlyUnopposed
<1>1. TypeOK /\ EngineInv => AllowedOnlyUnopposed
  <2> SUFFICES ASSUME TypeOK, EngineInv, pc = "done", answer = "allow",
                      NEW k \in 1..Len(policies),
                      Yields(policies[k], "deny") \/ Yields(policies[k], "error")
               PROVE  \E l \in 1..(k - 1) : Yields(policies[l], "allow")
    BY DEF AllowedOnlyUnopposed
  <2>1. Len(policies) \in Nat /\ \A n \in 1..Len(policies) : Len(policies[n].rules) \in Nat
    BY PolicyType DEF TypeOK
  <2>2. ~Yields(policies[k], "nil") /\ ~Yields(policies[k], "allow")
    BY <2>1, YieldsUnique
  <2>3. ~Decides(policies, "nil")
    BY <2>2 DEF Decides
  <2>4. Decides(policies, "allow")
    BY <2>3 DEF EngineInv
  <2>5. PICK l \in 1..Len(policies) :
          Yields(policies[l], "allow") /\ \A n \in 1..(l - 1) : Yields(policies[n], "nil")
    BY <2>4 DEF Decides
  <2>6. l # k /\ k \notin 1..(l - 1)
    BY <2>2, <2>5
  <2>. QED  BY <2>1, <2>5, <2>6
<1>. QED  BY <1>1, EngineInvariant, TypeCorrect, PTL

\* No program of a policy runs after a policy before it gave a verdict.
THEOREM EvaluationStops == Spec => []StopsAtVerdict
<1>1. TypeOK /\ EngineInv => StopsAtVerdict
  <2> SUFFICES ASSUME TypeOK, EngineInv, pc \in {"match", "rules"}, NEW l \in 1..(i - 1)
               PROVE  ~Yields(policies[l], "allow") /\ ~Yields(policies[l], "deny")
    BY DEF StopsAtVerdict
  <2>1. l \in 1..Len(policies)
    BY PolicyType DEF EngineInv, TypeOK
  <2>2. Len(policies[l].rules) \in Nat
    BY <2>1, PolicyType DEF TypeOK
  <2>3. Yields(policies[l], "nil") \/ Yields(policies[l], "error")
    BY DEF EngineInv, Before
  <2>. QED  BY <2>2, <2>3, YieldsUnique
<1>. QED  BY <1>1, EngineInvariant, TypeCorrect, PTL
=============================================================================
