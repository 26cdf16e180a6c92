----------------------------- MODULE PolicyEngine -----------------------------
(***************************************************************************)
(* How an authorization server answers a request: it loads the compiled    *)
(* policies, evaluates them one after the other (match conditions, then    *)
(* rules, then the failure policy), keeps the first evaluation that is not *)
(* empty, and turns it into an answer.                                     *)
(*                                                                         *)
(* A CEL program is represented by what it evaluates to for the request,   *)
(* so a list of policies also stands for the request it is applied to.     *)
(* Handler, dispatcher and resulter are made anew for every request, so    *)
(* requests that run concurrently share nothing of this state.             *)
(***************************************************************************)
EXTENDS Naturals, Sequences

CONSTANTS
  PolicyLists,  \* the lists of policies that source.Load may return
  Server        \* the kind of server: "Envoy" or "HTTP"

\* What a match condition and a rule may evaluate to: "mistyped" is a value that
\* is not the response type of the server.
ConditionOutcomes == {"true", "false", "error"}
RuleOutcomes == {"null", "allow", "deny", "error", "mistyped"}

CompiledPolicies ==
  [failurePolicy : {"Fail", "Ignore"}, matchConditions : Seq(ConditionOutcomes),
   setup : {"ok", "error"}, rules : Seq(RuleOutcomes)]

ASSUME PolicyListsAssumption == PolicyLists \subseteq Seq(CompiledPolicies)
ASSUME ServerAssumption == Server \in {"Envoy", "HTTP"}

VARIABLES
  pc,        \* where the request stands
  policies,  \* fctx.Source.Data
  i,         \* the policy being evaluated
  j,         \* the match condition or rule being evaluated
  errs,      \* has a match condition failed
  out,       \* Evaluation of the current policy: "nil", "allow", "deny", "error"
  result,    \* first.result; "nil" when there is none
  answer     \* what the client gets: "allow", "deny", "error"

vars == <<pc, policies, i, j, errs, out, result, answer>>

Evaluations == {"nil", "allow", "deny", "error"}
NoPolicies == <<>>

TypeOK ==
  /\ pc \in {"receive", "load", "dispatch", "match", "rules", "evaluated",
             "collect", "respond", "done"}
  /\ policies \in PolicyLists \cup {NoPolicies}
  /\ i \in Nat \ {0}
  /\ j \in Nat \ {0}
  /\ errs \in BOOLEAN
  /\ out \in Evaluations
  /\ result \in Evaluations
  /\ answer \in {"none", "allow", "deny", "error"}

Init ==
  /\ pc = "receive"
  /\ policies = NoPolicies
  /\ i = 1
  /\ j = 1
  /\ errs = FALSE
  /\ out = "nil"
  /\ result = "nil"
  /\ answer = "none"

policy == policies[i]

-----------------------------------------------------------------------------
(* The request comes in *)

\* An Envoy CheckRequest is taken as it is.  An HTTP request is unwrapped and
\* converted, and the input expression may replace it ...
Receive ==
  /\ pc = "receive"
  /\ pc' = "load"
  /\ UNCHANGED <<policies, i, j, errs, out, result, answer>>

\* ... and each of these may fail.
ReceiveFails ==
  /\ Server = "HTTP"
  /\ pc = "receive"
  /\ answer' = "error"
  /\ pc' = "done"
  /\ UNCHANGED <<policies, i, j, errs, out, result>>

\* Handle loads the policies; an error of the source is only kept in the context
\* and nobody reads it.
Load ==
  /\ pc = "load"
  /\ policies' \in PolicyLists
  /\ pc' = "dispatch"
  /\ UNCHANGED <<i, j, errs, out, result, answer>>

-----------------------------------------------------------------------------
(* Sequential, compiledPolicy.Evaluate and First *)

\* The dispatcher comes to the next policy, and evaluation starts with match.
Dispatch ==
  /\ pc = "dispatch"
  /\ i <= Len(policies)
  /\ pc' = "match"
  /\ j' = 1
  /\ errs' = FALSE
  /\ UNCHANGED <<policies, i, out, result, answer>>

DispatchEnds ==
  /\ pc = "dispatch"
  /\ i > Len(policies)
  /\ pc' = "respond"
  /\ UNCHANGED <<policies, i, j, errs, out, result, answer>>

\* A faulty variant: an error ends the loop.
MatchConditionFailsFast ==
  LET c == policy.matchConditions[j]
  IN /\ pc = "match"
     /\ j <= Len(policy.matchConditions)
     /\ j' = j + 1
     /\ errs' = (errs \/ c = "error")
     /\ pc' = IF c = "true" THEN "match" ELSE "evaluated"
     /\ out' = IF c = "true" THEN out ELSE IF c = "false" THEN "nil" ELSE "error"
     /\ UNCHANGED <<policies, i, result, answer>>

\* match: errors are collected, and the first false condition skips the policy,
\* whatever failed before it.
MatchCondition ==
  LET c == policy.matchConditions[j]
  IN /\ pc = "match"
     /\ j <= Len(policy.matchConditions)
     /\ j' = j + 1
     /\ errs' = (errs \/ c = "error")
     /\ pc' = IF c = "false" THEN "evaluated" ELSE "match"
     /\ out' = IF c = "false" THEN "nil" ELSE out
     /\ UNCHANGED <<policies, i, result, answer>>

\* No condition was false: an error of one of them, or of setupVariables, is the
\* outcome; otherwise the rules are next.
MatchEnds ==
  /\ pc = "match"
  /\ j > Len(policy.matchConditions)
  /\ IF errs \/ policy.setup = "error"
       THEN /\ out' = "error"
            /\ pc' = "evaluated"
            /\ UNCHANGED j
       ELSE /\ pc' = "rules"
            /\ j' = 1
            /\ UNCHANGED out
  /\ UNCHANGED <<policies, i, errs, result, answer>>

\* Faulty variant: the value is taken as it is, without the type assertion.
OutcomeUnchecked(rule) == rule

\* What evaluateRules makes of the value of a rule that is not null.
Outcome(rule) == IF rule \in {"allow", "deny"} THEN rule ELSE "error"

\* A rule that is null passes to the next one, any other value is the outcome.
Rule ==
  LET r == policy.rules[j]
  IN /\ pc = "rules"
     /\ j <= Len(policy.rules)
     /\ IF r = "null"
          THEN j' = j + 1 /\ UNCHANGED <<pc, out>>
          ELSE pc' = "evaluated" /\ out' = Outcome(r) /\ UNCHANGED j
     /\ UNCHANGED <<policies, i, errs, result, answer>>

RulesEnd ==
  /\ pc = "rules"
  /\ j > Len(policy.rules)
  /\ out' = "nil"
  /\ pc' = "evaluated"
  /\ UNCHANGED <<policies, i, j, errs, result, answer>>

\* Faulty variant: errors are dropped for every failure policy.
EvaluateIgnores ==
  /\ pc = "evaluated"
  /\ out' = IF out = "error" THEN "nil" ELSE out
  /\ pc' = "collect"
  /\ UNCHANGED <<policies, i, j, errs, result, answer>>

\* Evaluate returns an error only under the failure policy Fail.
Evaluate ==
  /\ pc = "evaluated"
  /\ out' = IF out = "error" /\ policy.failurePolicy # "Fail" THEN "nil" ELSE out
  /\ pc' = "collect"
  /\ UNCHANGED <<policies, i, j, errs, result, answer>>

\* Faulty variant: the breaker never breaks.
CollectWithoutBreak ==
  /\ pc = "collect"
  /\ result' = IF result = "nil" THEN out ELSE result
  /\ pc' = "dispatch"
  /\ i' = i + 1
  /\ UNCHANGED <<policies, j, errs, out, answer>>

\* Collect keeps the first evaluation that is a result or an error; the breaker
\* ends the loop at a result, and goes on after an error.
Collect ==
  /\ pc = "collect"
  /\ result' = IF result = "nil" THEN out ELSE result
  /\ pc' = IF out \in {"allow", "deny"} THEN "respond" ELSE "dispatch"
  /\ i' = i + 1
  /\ UNCHANGED <<policies, j, errs, out, answer>>

-----------------------------------------------------------------------------
(* The answer *)

\* check: the result, or an empty CheckResponse (status OK), or the error.
\* ServeHTTP: the same, with an empty Ok, before the output expression.
Respond ==
  /\ pc = "respond"
  /\ answer' = IF result = "nil" THEN "allow" ELSE result
  /\ pc' = "done"
  /\ UNCHANGED <<policies, i, j, errs, out, result>>

\* ServeHTTP: the output expression fails, or gives no HttpResponse.
RespondFails ==
  /\ Server = "HTTP"
  /\ pc = "respond"
  /\ answer' = "error"
  /\ pc' = "done"
  /\ UNCHANGED <<policies, i, j, errs, out, result>>

\* The next request, with a handler, a dispatcher and a resulter of its own.
NextRequest ==
  /\ pc = "done"
  /\ pc' = "receive"
  /\ policies' = NoPolicies
  /\ i' = 1
  /\ j' = 1
  /\ errs' = FALSE
  /\ out' = "nil"
  /\ result' = "nil"
  /\ answer' = "none"

Steps ==
  \/ Receive \/ ReceiveFails \/ Load
  \/ Dispatch \/ DispatchEnds
  \/ MatchCondition \/ MatchEnds \/ Rule \/ RulesEnd \/ Evaluate \/ Collect
  \/ Respond \/ RespondFails

Next == Steps \/ NextRequest

Spec == Init /\ [][Next]_vars

-----------------------------------------------------------------------------
(* What a policy and a list of policies decide *)

\* The first rule that is not null has the value r, or all are null and so is r.
FirstRule(p, r) ==
  \/ /\ r = "null"
     /\ \A k \in 1..Len(p.rules) : p.rules[k] = "null"
  \/ /\ r # "null"
     /\ \E k \in 1..Len(p.rules) :
          p.rules[k] = r /\ \A l \in 1..(k - 1) : p.rules[l] = "null"

Skipped(p) == \E k \in 1..Len(p.matchConditions) : p.matchConditions[k] = "false"
Broken(p) ==
  \/ \E k \in 1..Len(p.matchConditions) : p.matchConditions[k] = "error"
  \/ p.setup = "error"

\* The policy p evaluates to d before its failure policy is applied.
Raw(p, d) ==
  IF Skipped(p) THEN d = "nil"
  ELSE IF Broken(p) THEN d = "error"
  ELSE \/ d = "nil" /\ FirstRule(p, "null")
       \/ d \in {"allow", "deny"} /\ FirstRule(p, d)
       \/ d = "error" /\ (FirstRule(p, "error") \/ FirstRule(p, "mistyped"))

\* The policy p contributes d.
Yields(p, d) ==
  \/ d # "error" /\ Raw(p, d)
  \/ d = "error" /\ Raw(p, "error") /\ p.failurePolicy = "Fail"
  \/ d = "nil" /\ Raw(p, "error") /\ p.failurePolicy = "Ignore"

\* The list ps decides d: its first contribution that is not empty.
Decides(ps, d) ==
  \/ d = "nil" /\ \A k \in 1..Len(ps) : Yields(ps[k], "nil")
  \/ d # "nil" /\ \E k \in 1..Len(ps) :
       Yields(ps[k], d) /\ \A l \in 1..(k - 1) : Yields(ps[l], "nil")

-----------------------------------------------------------------------------
(* Properties *)

\* Whatever the loops over conditions, rules and policies go through, and whatever
\* earlier requests left behind, the resulter ends with what the list decides: a
\* false condition beats errors before and after it, the first rule that is not
\* null counts, an ignored error is nothing, and the first contribution wins.
ResultIsDecision == pc = "respond" => Decides(policies, result)

\* A request is allowed only if each policy that denies it, or that fails under
\* Fail, comes after a policy that allows it.
AllowedOnlyUnopposed ==
  pc = "done" /\ answer = "allow" =>
    \A k \in 1..Len(policies) :
      Yields(policies[k], "deny") \/ Yields(policies[k], "error")
        => \E l \in 1..(k - 1) : Yields(policies[l], "allow")

\* The programs of a policy, which may call out of the process, run only while no
\* policy before it has allowed or denied the request.
StopsAtVerdict ==
  pc \in {"match", "rules"} =>
    \A l \in 1..(i - 1) :
      ~Yields(policies[l], "allow") /\ ~Yields(policies[l], "deny")

\* "If all rules return `null`, the request is denied by default"
\* (website/docs/policies/http-policy-breakdown.md): no request to which every
\* policy applies without a failure, and for which all rules are null, is allowed.
DeniedByDefault ==
  pc = "done" /\ answer = "allow" =>
    ~(/\ policies # <<>>
      /\ \A k \in 1..Len(policies) :
           /\ ~Skipped(policies[k])
           /\ policies[k].rules # <<>>
           /\ Raw(policies[k], "nil"))
=============================================================================
