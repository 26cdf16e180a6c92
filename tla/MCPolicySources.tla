---------------------------- MODULE MCPolicySources ----------------------------
(* Instances of PolicySources for TLC. *)
EXTENDS PolicySources

\* Resource versions as the API server writes them.
VersionText == <<"1", "11">>

\* Names of which none is the beginning of another.
NameText == <<"p", "q">>

MCKeyOf == [x \in Names \X Revs |-> NameText[x[1]] \o VersionText[x[2]]]
MCKeys == {MCKeyOf[x] : x \in Names \X Revs}

MCExternal == <<"null", "deny">>
MCNoExternal == <<>>
=============================================================================
