---------------------------- MODULE MCAuthzServers ----------------------------
(* Instances of AuthzServers for TLC. *)
EXTENDS AuthzServers

\* Two objects of the same name in two namespaces.
MCNameOf == [r \in Requests |-> "authz"]

Envoy(sources) == [type |-> "Envoy", sources |-> sources]

\* Lists in which a source fails or panics after, before and without a Kubernetes
\* source, and with two; and an HTTP object.
MCSpecs == {Envoy(<<"Kubernetes", "Oci">>), Envoy(<<"Fs", "Kubernetes">>),
            Envoy(<<"Kubernetes", "Kubernetes">>), Envoy(<<"Fs">>),
            Envoy(<<"Oci", "Git">>), [type |-> "HTTP", sources |-> <<>>]}
=============================================================================
