------------------------ MODULE ReplicationRefinement ------------------------
(***************************************************************************)
(* PolicySync implements Replication: streams, registrations, flushes,     *)
(* retries and reconciles are steps on which nothing of the promise        *)
(* changes, or messages that get lost.                                     *)
(***************************************************************************)
EXTENDS PolicySync

\* The messages that may still reach a client: those of SendPolicy calls that
\* have not looked up the streams yet, and those under way to the client, on a
\* stream of its that may be broken or in a goroutine of its listener.
Transit ==
  [c \in Clients |-> sends \cup {k.msg : k \in {l \in sending \cup handling : l.cl = c}}]

Promise == INSTANCE Replication WITH
  stored <- policies, transit <- Transit, held <- resources

\* Whatever crashes, breaks or overtakes, a sidecar holds of a policy only what
\* the sender stored for it and sent to it, it gives that up only for another
\* message or by a restart, and the sender never goes back to an older revision:
\* StorePolicy, SendPolicy, the snapshot of ValidatingPoliciesStream and Process
\* together implement Replication.
PromiseKept == Promise!Spec
=============================================================================
