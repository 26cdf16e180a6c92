----------------------------- MODULE Replication -----------------------------
(***************************************************************************)
(* What the control plane promises to its sidecars, whatever breaks, is    *)
(* lost, is repeated or arrives out of order: a sidecar holds of a policy  *)
(* only what was stored for that very policy and sent to that very         *)
(* sidecar, it gives it up only for another such message or by starting    *)
(* again, and what is stored never goes back to an older revision.         *)
(*                                                                         *)
(* ReplicationRefinement shows that PolicySync implements it.              *)
(***************************************************************************)
EXTENDS Naturals

CONSTANTS
  Policies,  \* names of policies
  Contents,  \* what a policy may be: records of a revision and a mode
  Clients    \* sidecars

VARIABLES
  stored,   \* policy -> content the control plane has of it
  transit,  \* client -> messages that may still reach it
  held      \* client -> policy -> content the sidecar has of it

vars == <<stored, transit, held>>

NoPolicy == [ver |-> 0, mode |-> "absent"]
Empty == [p \in Policies |-> NoPolicy]

\* A message of mode "absent" tells that the policy is deleted.
Effect(pol) == IF pol.mode = "absent" THEN NoPolicy ELSE pol

Init ==
  /\ stored = Empty
  /\ transit = [c \in Clients |-> {}]
  /\ held = [c \in Clients |-> Empty]

\* Messages get lost on any step.
Lost == \A c \in Clients : transit'[c] \subseteq transit[c]

\* A revision is stored, or its deletion is, and sent to everybody.
Publish(p, pol) ==
  /\ pol.ver >= stored[p].ver
  /\ stored' = [stored EXCEPT ![p] = Effect(pol)]
  /\ transit' = [c \in Clients |-> transit[c] \cup {[name |-> p, pol |-> pol]}]
  /\ UNCHANGED held

\* Everything stored is sent again to one sidecar.
Resend(c) ==
  /\ transit' = [transit EXCEPT ![c] = @ \cup
       {[name |-> p, pol |-> stored[p]] : p \in {q \in Policies : stored[q] # NoPolicy}}]
  /\ UNCHANGED <<stored, held>>

Lose == Lost /\ UNCHANGED <<stored, held>>

\* A sidecar takes a message over, or has no use for its policy.
Deliver(c, m) ==
  /\ m \in transit[c]
  /\ \/ held' = [held EXCEPT ![c][m.name] = Effect(m.pol)]
     \/ m.pol.mode # "absent" /\ UNCHANGED held
  /\ Lost
  /\ UNCHANGED stored

RestartClient(c) ==
  /\ held' = [held EXCEPT ![c] = Empty]
  /\ Lost
  /\ UNCHANGED stored

\* The control plane keeps nothing over a restart.
Crash ==
  /\ stored' = Empty
  /\ Lost
  /\ UNCHANGED held

Next ==
  \/ Lose \/ Crash
  \/ \E p \in Policies, pol \in Contents : Publish(p, pol)
  \/ \E c \in Clients :
       \/ Resend(c) \/ RestartClient(c)
       \/ \E m \in transit[c] : Deliver(c, m)

Spec == Init /\ [][Next]_vars
=============================================================================
