---------------------------- MODULE MCFileSource ----------------------------
(* A root with a yaml, a json and another file around a directory, which has *)
(* a namesake of the yaml file at the root and a file of its own.            *)
EXTENDS FileSource

MCEntries ==
  <<[dir |-> ".", name |-> "a.yaml", kind |-> "yaml"],
    [dir |-> ".", name |-> "notes.txt", kind |-> "other"],
    [dir |-> ".", name |-> "sub", kind |-> "dir"],
    [dir |-> "sub", name |-> "a.yaml", kind |-> "yaml"],
    [dir |-> "sub", name |-> "b.yaml", kind |-> "yaml"],
    [dir |-> ".", name |-> "z.json", kind |-> "json"]>>

MCContents ==
  [yaml |-> {Garbage, <<"p1">>, <<"p2", "broken", "p1">>, <<"malformed", "p2">>,
             <<"other", "p2">>},
   json |-> {<<"p1">>, <<"p2">>, <<"malformed">>},
   other |-> {<<"p2">>}]
=============================================================================
