----------------------------- MODULE FileSource -----------------------------
(***************************************************************************)
(* One load of an external policy source: the pipeline that NewFs of       *)
(* pkg/engine/sources builds from the sources of sdk/core/sources.  The    *)
(* walk lists the files, then every listed file is read and split into     *)
(* documents, then the documents are loaded, filtered and compiled.  Each  *)
(* stage runs to its end before the next one starts, and passes on what it *)
(* has together with the errors so far, so that a file may change between  *)
(* the walk that lists it and the read that opens it.                      *)
(***************************************************************************)
EXTENDS Naturals, Sequences, SequencesExt

CONSTANTS
  Entries,   \* files and directories in the order of WalkDir, depth first:
             \* records [dir, name, kind], kind "dir", "yaml", "json" or "other"
  Contents,  \* kind -> what a file of it may hold: sequences of documents, Garbage
  MaxEdits   \* bound: files that change during the load

Root == [dir |-> "", name |-> ".", kind |-> "dir"]
Garbage == <<"garbage">>  \* yaml that cannot be split
Absent == <<"absent">>    \* no such file

\* Documents: policies that compile, one that does not, an object of another
\* kind, and one that is not valid.
Good == {"p1", "p2"}
Documents == Good \cup {"broken", "other", "malformed"}

Files == {e \in ToSet(Entries) : e.kind # "dir"}
Dirs == {e.name : e \in {f \in ToSet(Entries) : f.kind = "dir"}} \cup {"."}
Entry == [dir : STRING, name : STRING, kind : {"dir", "yaml", "json", "other"}]

\* Entry i is the directory that entry j is in.
Holds(i, j) == Entries[i].kind = "dir" /\ Entries[j].dir = Entries[i].name

\* Directories are named by their paths, files by their base names.  A file name
\* says of what kind the file is, and is given once in a directory.
ASSUME EntriesAssumption ==
  /\ Entries \in Seq(Entry)
  /\ \A i, j \in 1 .. Len(Entries) :
       /\ Entries[i].name = Entries[j].name
       /\ Entries[i].kind = "dir" <=> Entries[j].kind = "dir"
       => /\ Entries[i].kind = Entries[j].kind
          /\ Entries[i].kind = "dir" \/ Entries[i].dir = Entries[j].dir => i = j
  /\ \A i \in 1 .. Len(Entries) : Entries[i].kind = "dir" => Entries[i].name # "."

\* WalkDir comes to a directory before it comes to what is in it, and to nothing
\* else in between: it is depth first.
ASSUME OrderAssumption ==
  /\ \A j \in 1 .. Len(Entries) :
       Entries[j].dir # "." => \E i \in 1 .. (j - 1) : Holds(i, j)
  /\ \A i, k \in 1 .. Len(Entries) : Holds(i, k) =>
       \A j \in (i + 1) .. k : \E h \in i .. (j - 1) : Holds(h, j)

ASSUME ContentsAssumption ==
  /\ \A k \in {"yaml", "json", "other"} : Contents[k] \subseteq Seq(Documents) \cup {Garbage}
  /\ \A c \in Contents["json"] : Len(c) = 1  \* a json file is one document
ASSUME MaxEditsAssumption == MaxEdits \in Nat

\* The items of a sequence that are in a set, in their order.
Only(s, S) ==
  FlattenSeq([i \in 1 .. Len(s) |-> IF s[i] \in S THEN <<s[i]>> ELSE <<>>])

VARIABLES
  tree,        \* file -> content, Absent if it does not exist
  unreadable,  \* directories that cannot be read
  stage,       \* "walk", "read", "compile" or "done"
  todo,        \* entries the walk has yet to visit
  listed,      \* files the walk has found and that are not read yet
  documents,   \* documents read so far
  errs,        \* errors collected so far: [at, item]
  policies,    \* the result
  edited       \* history: files that changed since the load began

vars == <<tree, unreadable, stage, todo, listed, documents, errs, policies, edited>>

ContentsOf(e) == Contents[e.kind] \cup {Absent}
Trees == {t \in [Files -> UNION {ContentsOf(e) : e \in Files}] :
            \A e \in Files : t[e] \in ContentsOf(e)}

Init ==
  /\ tree \in Trees
  /\ unreadable \in SUBSET Dirs
  /\ stage = "walk" /\ todo = <<Root>>
  /\ listed = <<>> /\ documents = <<>> /\ errs = {} /\ policies = <<>>
  /\ edited = {}

(***************************************************************************)
(* sources.NewFs: fs.WalkDir with the predicate of engine/sources.NewFs.   *)
(***************************************************************************)
Exists(e) == e.kind = "dir" \/ tree[e] # Absent
Children(d) == Only(Entries, {e \in ToSet(Entries) : e.dir = d.name /\ Exists(e)})

\* process only files; IsYaml or IsJson of the name
Wanted(e) == e.kind \in {"yaml", "json"}

VisitDir ==
  /\ stage = "walk" /\ todo # <<>> /\ Head(todo).kind = "dir"
  /\ IF Head(todo).name \in unreadable
       THEN \* the callback returns walkErr: the traversal stops, at the root too
            /\ errs' = errs \cup {[at |-> "walk", item |-> Head(todo)]}
            /\ todo' = <<>>
       ELSE /\ todo' = Children(Head(todo)) \o Tail(todo)
            /\ UNCHANGED errs
  /\ UNCHANGED <<tree, unreadable, stage, listed, documents, policies, edited>>

VisitFile ==
  /\ stage = "walk" /\ todo # <<>> /\ Head(todo).kind # "dir"
  /\ listed' = IF Wanted(Head(todo)) THEN Append(listed, Head(todo)) ELSE listed
  /\ todo' = Tail(todo)
  /\ UNCHANGED <<tree, unreadable, stage, documents, errs, policies, edited>>

WalkEnds ==
  /\ stage = "walk" /\ todo = <<>>
  /\ stage' = "read"
  /\ UNCHANGED <<tree, unreadable, todo, listed, documents, errs, policies, edited>>

(***************************************************************************)
(* getDocuments and NewFlatten                                             *)
(***************************************************************************)
\* fs.ReadFile(f, entry.Name()): the base name, so that a file of a directory
\* is looked up at the root.
Opens(e) ==
  LET root == [e EXCEPT !.dir = "."]
  IN IF root \in Files THEN tree[root] ELSE Absent

\* Faulty variants: a file that cannot be read is not an error; the first file
\* that fails ends the load.
ReadQuietly ==
  /\ stage = "read" /\ listed # <<>>
  /\ documents' = IF Opens(Head(listed)) \in {Absent, Garbage} THEN documents
                  ELSE documents \o Opens(Head(listed))
  /\ listed' = Tail(listed)
  /\ UNCHANGED <<tree, unreadable, stage, todo, errs, policies, edited>>

ReadOrStop ==
  /\ stage = "read" /\ listed # <<>>
  /\ IF Opens(Head(listed)) \in {Absent, Garbage}
       THEN /\ errs' = errs \cup {[at |-> "read", item |-> Head(listed)]}
            /\ listed' = <<>>
            /\ UNCHANGED documents
       ELSE /\ documents' = documents \o Opens(Head(listed))
            /\ listed' = Tail(listed)
            /\ UNCHANGED errs
  /\ UNCHANGED <<tree, unreadable, stage, todo, policies, edited>>

\* A file that is gone or cannot be split costs an error and nothing else.
Read ==
  /\ stage = "read" /\ listed # <<>>
  /\ IF Opens(Head(listed)) \in {Absent, Garbage}
       THEN /\ errs' = errs \cup {[at |-> "read", item |-> Head(listed)]}
            /\ UNCHANGED documents
       ELSE /\ documents' = documents \o Opens(Head(listed))
            /\ UNCHANGED errs
  /\ listed' = Tail(listed)
  /\ UNCHANGED <<tree, unreadable, stage, todo, policies, edited>>

ReadEnds ==
  /\ stage = "read" /\ listed = <<>>
  /\ stage' = "compile"
  /\ UNCHANGED <<tree, unreadable, todo, listed, documents, errs, policies, edited>>

(***************************************************************************)
(* The stages after the read: sources with their data and their errors.    *)
(***************************************************************************)
\* NewTransformErr: an item that fails is left out, its error is added; out is
\* what the function made of each item.
NewTransformErr(in, out, at) ==
  [data |-> Only(out, ToSet(out) \ {"error"}),
   errs |-> in.errs \cup
     {[at |-> at, item |-> in.data[i]] : i \in {j \in 1 .. Len(out) : out[j] = "error"}}]

\* Faulty variant: the errors of the stages before are lost.
NewFilterQuietly(in) == [data |-> Only(in.data, ToSet(in.data) \ {"nil"}), errs |-> {}]

\* NewFilter with the predicate of NewFs: the errors pass unchanged.
NewFilter(in) == [data |-> Only(in.data, ToSet(in.data) \ {"nil"}), errs |-> in.errs]

\* The loader knows the kinds; an object of another kind than ValidatingPolicy
\* is neither a policy nor an error.
LoadDocument(d) ==
  CASE d = "malformed" -> "error" [] d = "other" -> "nil" [] OTHER -> d
Compile(p) == IF p = "broken" THEN "error" ELSE p

NewFs ==
  LET Each(F(_), s) == [i \in 1 .. Len(s) |-> F(s[i])]
      load == NewTransformErr([data |-> documents, errs |-> errs],
                              Each(LoadDocument, documents), "load")
      filter == NewFilter(load)
  IN NewTransformErr(filter, Each(Compile, filter.data), "compile")

LoadAndCompile ==
  /\ stage = "compile"
  /\ policies' = NewFs.data
  /\ errs' = NewFs.errs
  /\ stage' = "done"
  /\ UNCHANGED <<tree, unreadable, todo, listed, documents, edited>>

\* Somebody writes, creates or removes a file while the load runs.
Edit(e, c) ==
  /\ stage \in {"walk", "read"} /\ Cardinality(edited \cup {e}) <= MaxEdits
  /\ c # tree[e]
  /\ tree' = [tree EXCEPT ![e] = c]
  /\ edited' = edited \cup {e}
  /\ UNCHANGED <<unreadable, stage, todo, listed, documents, errs, policies>>

Next ==
  \/ VisitDir \/ VisitFile \/ WalkEnds \/ Read \/ ReadEnds \/ LoadAndCompile
  \/ \E e \in Files : \E c \in ContentsOf(e) : Edit(e, c)
  \/ stage = "done" /\ UNCHANGED vars

Spec == Init /\ [][Next]_vars

-----------------------------------------------------------------------------
(***************************************************************************)
(* Properties                                                              *)
(***************************************************************************)
TypeOK ==
  /\ \A e \in Files : tree[e] \in ContentsOf(e)
  /\ unreadable \subseteq Dirs
  /\ stage \in {"walk", "read", "compile", "done"}
  /\ ToSet(todo) \subseteq ToSet(Entries) \cup {Root}
  /\ ToSet(listed) \subseteq Files
  /\ ToSet(documents) \subseteq Documents
  /\ ToSet(policies) \subseteq Good
  /\ edited \subseteq Files

\* What a file contributes, without the pipeline: its policies that compile.
PoliciesOf(c) ==
  IF c \in {Garbage, Absent} THEN <<>> ELSE Only(c, Good)

\* The content under a name at the root.
AtRoot(e) ==
  LET namesakes == {f \in Files : f.dir = "." /\ f.name = e.name}
  IN IF namesakes = {} THEN Absent ELSE tree[CHOOSE f \in namesakes : TRUE]

\* The files of the tree that the walk of an undisturbed load finds, in order.
Found == Only(Entries, {e \in Files : Wanted(e) /\ tree[e] # Absent})

Undisturbed == stage = "done" /\ edited = {} /\ unreadable = {}

\* Every file that the walk finds is at the root.
Flat == \A e \in ToSet(Found) : e.dir = "."

\* For a tree without directories of policies, the stages of NewFs compute together
\* what is defined without them: the policies of every file, in the order of the
\* walk, and an error exactly if a file cannot be split or holds a document that
\* cannot be loaded or compiled.
LoadIsExact ==
  Undisturbed /\ Flat =>
    /\ policies = FlattenSeq([i \in 1 .. Len(Found) |-> PoliciesOf(tree[Found[i]])])
    /\ (errs = {}) =
         \A e \in ToSet(Found) :
           tree[e] # Garbage /\ ToSet(tree[e]) \cap {"broken", "malformed"} = {}

\* The walk comes to a file before it comes to a directory it cannot read.
Reached(e) ==
  /\ "." \notin unreadable
  /\ \A i, j \in 1 .. Len(Entries) :
       Entries[i].kind = "dir" /\ Entries[i].name \in unreadable /\ Entries[j] = e => j < i

\* Whatever else is in the tree, fails or changes during the load, a file at the
\* root that stays as it is and that the walk reaches has its policies loaded:
\* one bad file or document costs only itself, as NewTransformErr promises
\* ("successfully transformed items are included in the output").
GoodFilesSurvive ==
  stage = "done" =>
    \A e \in Files :
      (e.dir = "." /\ Wanted(e) /\ e \notin edited /\ Reached(e)
         /\ tree[e] \notin {Absent, Garbage})
      => ToSet(PoliciesOf(tree[e])) \subseteq ToSet(policies)

\* A load that reports no error has the policies of all files, unless a file of a
\* directory has a namesake at the root, which is then loaded in its place, or
\* files changed under it.
SilentLossOnlyByNamesake ==
  (stage = "done" /\ errs = {} /\ edited = {}) =>
    \A e \in ToSet(Found) :
      \/ ToSet(PoliciesOf(tree[e])) \subseteq ToSet(policies)
      \/ e.dir # "." /\ AtRoot(e) # Absent
=============================================================================
