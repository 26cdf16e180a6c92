---------------------------- MODULE MCPolicyEngine ----------------------------
(* Instances of PolicyEngine for TLC. *)
EXTENDS PolicyEngine, SequencesExt

Policy(f, c, s, r) ==
  [failurePolicy |-> f, matchConditions |-> c, setup |-> s, rules |-> r]

\* Every policy of up to two match conditions and two rules, alone.
Singles ==
  {<<Policy(f, c, s, r)>> : f \in {"Fail", "Ignore"}, s \in {"ok", "error"},
     c \in BoundedSeq(ConditionOutcomes, 2), r \in BoundedSeq(RuleOutcomes, 2)}

\* One policy for each way to contribute, in lists of up to three.
Contributors ==
  {Policy("Fail", <<"error", "false">>, "ok", <<"deny">>),
   Policy("Fail", <<"true", "error">>, "ok", <<"allow">>),
   Policy("Ignore", <<"error">>, "ok", <<"deny">>),
   Policy("Fail", <<>>, "ok", <<"null", "allow">>),
   Policy("Ignore", <<"true">>, "ok", <<"deny">>),
   Policy("Fail", <<>>, "ok", <<"null">>)}

MCPolicyLists == Singles \cup BoundedSeq(Contributors, 3)
=============================================================================
