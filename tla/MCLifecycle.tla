----------------------------- MODULE MCLifecycle -----------------------------
(* All commands, with the flags that change their setup. *)
EXTENDS Lifecycle

Plain(c) == [command |-> c, controlPlane |-> FALSE, kube |-> TRUE]

MCDeployments ==
  {Plain(c) : c \in Commands}
  \cup {[command |-> "envoy-authz-server", controlPlane |-> FALSE, kube |-> FALSE]}
  \cup {[command |-> "http-authz-server", controlPlane |-> cp, kube |-> k] :
          cp \in BOOLEAN, k \in BOOLEAN}
=============================================================================
