----------------------------- MODULE MCAdmission -----------------------------
(* Policies, pods and configuration files for Admission. *)
EXTENDS Admission

Spec1(mode, expression, failurePolicy) ==
  [mode |-> mode, failurePolicy |-> failurePolicy, constraints |-> {"pods"},
   validations |-> <<[expression |-> "good", message |-> "", reason |-> None],
                     [expression |-> expression, message |-> "no", reason |-> Some("Forbidden")]>>,
   variables |-> <<[name |-> "v", expression |-> "good"]>>,
   matchConditions |-> <<[name |-> "m", expression |-> "good"], [name |-> "n", expression |-> "good"]>>]

MCSpecs ==
  {Spec1("Envoy", "good", None), Spec1("Envoy", "bad", Some("Fail")),
   Spec1("HTTP", "good", Some("Ignore")), Spec1("HTTP", "bad", None),
   Spec1("Kubernetes", "bad", None)}

Pod(containers, newer, decodes) ==
  [initContainers |-> <<"init">>, containers |-> containers, volumes |-> <<>>,
   imagePullSecrets |-> <<"pull">>, other |-> "spec", newer |-> newer, decodes |-> decodes]

MCPods == {Pod(<<"app">>, {}, TRUE), Pod(<<"app", "log">>, {"field"}, TRUE), Pod(<<>>, {}, FALSE)}

MCSidecars ==
  {[NoSidecar EXCEPT !.containers = <<"authz">>, !.volumes = <<"config">>],
   [NoSidecar EXCEPT !.initContainers = <<"setup">>, !.imagePullSecrets = <<"registry">>],
   NoSidecar, BadFile}
=============================================================================
