--------------------------- MODULE FileSource_proofs ---------------------------
(***************************************************************************)
(* Theorems about FileSource, for any files, directories and contents, and *)
(* any changes during the load.                                            *)
(***************************************************************************)
EXTENDS FileSource, WellFoundedInduction, TLAPS

-----------------------------------------------------------------------------
(* Induction.  A set that has 0 and with each number the next one has all  *)
(* numbers; a set of sequences that has the empty one and with each        *)
(* sequence its extensions has all sequences.                              *)

\* A set of numbers that is not empty has a least element.
LEMMA LeastExists ==
  ASSUME NEW T, T \subseteq Nat, T # {}
  PROVE  \E x \in T : \A y \in T : x <= y
<1>1. PICK x \in T : \A y \in T : ~(<<y, x>> \in OpToRel(<, Nat))
  BY NatLessThanWellFounded, WFMin
<1>2. ASSUME NEW y \in T PROVE x <= y
  <2>1. y \in Nat /\ x \in Nat
    OBVIOUS
  <2>2. y < x => <<y, x>> \in OpToRel(<, Nat)
    BY <2>1 DEF OpToRel
  <2>3. ~(y < x)
    BY <1>1, <2>2, Zenon
  <2>. QED  BY <2>1, <2>3
<1>. QED  BY <1>2

\* Induction over numbers.
LEMMA NumbersInduct ==
  ASSUME NEW T, 0 \in T, \A n \in Nat : n \in T => n + 1 \in T
  PROVE  Nat \subseteq T
<1> SUFFICES ASSUME Nat \ T # {} PROVE FALSE
  OBVIOUS
<1>1. PICK x \in Nat \ T : \A y \in Nat \ T : x <= y
  BY LeastExists
<1>2. x # 0 /\ x - 1 \in Nat /\ x = (x - 1) + 1
  BY <1>1
<1>3. x - 1 \in T
  BY <1>1, <1>2
<1>. QED  BY <1>1, <1>2, <1>3

\* Induction over sequences.
LEMMA SequencesInduct ==
  ASSUME NEW X, NEW T, <<>> \in T,
         \A s \in Seq(X) : s \in T => \A x \in X : Append(s, x) \in T
  PROVE  Seq(X) \subseteq T
<1> DEFINE L == {n \in Nat : \A s \in Seq(X) : Len(s) = n => s \in T}
<1>1. 0 \in L
  <2>1. \A s \in Seq(X) : Len(s) = 0 => s = <<>>
    OBVIOUS
  <2>. QED  BY <2>1
<1>2. ASSUME NEW n \in Nat, n \in L PROVE n + 1 \in L
  <2>1. SUFFICES ASSUME NEW s \in Seq(X), Len(s) = n + 1 PROVE s \in T
    OBVIOUS
  <2> DEFINE t == SubSeq(s, 1, n)
  <2>2. t \in Seq(X) /\ Len(t) = n /\ s[n + 1] \in X /\ s = Append(t, s[n + 1])
    BY <2>1
  <2>3. t \in T
    BY <1>2, <2>2
  <2> HIDE DEF t
  <2>. QED  BY <2>2, <2>3
<1>3. Nat \subseteq L
  <2> HIDE DEF L
  <2>. QED  BY <1>1, <1>2, NumbersInduct
<1>. QED  BY <1>3

\* The empty sequence has no items and is of every type.
LEMMA EmptyItems == ToSet(<<>>) = {} /\ \A X : <<>> \in Seq(X)
BY DEF ToSet

\* The items of a sequence are what it has at its positions.
LEMMA ItemsOf ==
  ASSUME NEW X, NEW s \in Seq(X)
  PROVE  ToSet(s) \subseteq X /\ \A x : x \in ToSet(s) <=> \E i \in 1 .. Len(s) : s[i] = x
BY DEF ToSet

\* A sequence that is extended has one item more.
LEMMA AppendItems ==
  ASSUME NEW X, NEW s \in Seq(X), NEW x \in X
  PROVE  Append(s, x) \in Seq(X) /\ ToSet(Append(s, x)) = ToSet(s) \cup {x}
<1>1. Append(s, x) \in Seq(X) /\ Len(Append(s, x)) = Len(s) + 1 /\ Len(s) \in Nat
  OBVIOUS
<1>2. \A i \in 1 .. Len(s) + 1 : Append(s, x)[i] = IF i <= Len(s) THEN s[i] ELSE x
  OBVIOUS
<1>3. \A y : y \in ToSet(Append(s, x)) <=> y \in ToSet(s) \cup {x}
  <2> TAKE y
  <2>1. y \in ToSet(Append(s, x)) <=> \E i \in 1 .. Len(s) + 1 : Append(s, x)[i] = y
    BY <1>1, ItemsOf
  <2>2. y \in ToSet(s) <=> \E i \in 1 .. Len(s) : s[i] = y
    BY ItemsOf
  <2>. QED  BY <1>1, <1>2, <2>1, <2>2
<1>. QED  BY <1>1, <1>3

\* Two sequences together have the items of both.
LEMMA ConcatItems ==
  ASSUME NEW X, NEW s \in Seq(X), NEW t \in Seq(X)
  PROVE  s \o t \in Seq(X) /\ ToSet(s \o t) = ToSet(s) \cup ToSet(t)
<1>1. s \o t \in Seq(X) /\ Len(s \o t) = Len(s) + Len(t) /\ Len(s) \in Nat /\ Len(t) \in Nat
  OBVIOUS
<1>2. /\ \A i \in 1 .. Len(s) : (s \o t)[i] = s[i]
      /\ \A i \in 1 .. Len(t) : (s \o t)[Len(s) + i] = t[i]
  OBVIOUS
<1>3. \A y : y \in ToSet(s \o t) <=> y \in ToSet(s) \cup ToSet(t)
  <2> TAKE y
  <2>1. /\ y \in ToSet(s \o t) <=> \E i \in 1 .. Len(s) + Len(t) : (s \o t)[i] = y
        /\ y \in ToSet(s) <=> \E i \in 1 .. Len(s) : s[i] = y
        /\ y \in ToSet(t) <=> \E i \in 1 .. Len(t) : t[i] = y
    BY <1>1, ItemsOf
  <2>2. ASSUME NEW i \in 1 .. Len(s) + Len(t), (s \o t)[i] = y
        PROVE  y \in ToSet(s) \cup ToSet(t)
    <3>1. CASE i \in 1 .. Len(s)
      BY <1>2, <2>1, <2>2, <3>1
    <3>2. CASE i \notin 1 .. Len(s)
      <4>1. i - Len(s) \in 1 .. Len(t) /\ Len(s) + (i - Len(s)) = i
        BY <1>1, <3>2
      <4>. QED  BY <1>2, <2>1, <2>2, <4>1
    <3>. QED  BY <3>1, <3>2
  <2>3. ASSUME NEW i \in 1 .. Len(s), s[i] = y PROVE y \in ToSet(s \o t)
    <3>1. i \in 1 .. Len(s) + Len(t)
      BY <1>1
    <3>. QED  BY <1>2, <2>1, <2>3, <3>1
  <2>4. ASSUME NEW i \in 1 .. Len(t), t[i] = y PROVE y \in ToSet(s \o t)
    <3>1. Len(s) + i \in 1 .. Len(s) + Len(t)
      BY <1>1
    <3>. QED  BY <1>2, <2>1, <2>4, <3>1
  <2>. QED  BY <2>1, <2>2, <2>3, <2>4
<1>. QED  BY <1>1, <1>3

\* An item appended to the second sequence ends both together.
LEMMA ConcatAppend ==
  ASSUME NEW X, NEW s \in Seq(X), NEW t \in Seq(X), NEW x \in X
  PROVE  s \o Append(t, x) = Append(s \o t, x)
OBVIOUS

\* The empty sequence adds nothing.
LEMMA ConcatEmpty ==
  ASSUME NEW X, NEW s \in Seq(X)
  PROVE  s \o <<>> = s /\ <<>> \o s = s
OBVIOUS

\* A sequence is of the type of its items.
LEMMA ItemsNarrow ==
  ASSUME NEW X, NEW Y, NEW s \in Seq(X), ToSet(s) \subseteq Y
  PROVE  s \in Seq(Y)
<1>1. s = [i \in 1 .. Len(s) |-> s[i]] /\ Len(s) \in Nat
  OBVIOUS
<1>2. \A i \in 1 .. Len(s) : s[i] \in Y
  BY ItemsOf
<1>. QED  BY <1>1, <1>2

-----------------------------------------------------------------------------
(* FlattenSeq and Only *)

\* The function that FlattenSeq computes with.
Flattens(f, s) == f = [i \in 1 .. Len(s) |-> IF i = 1 THEN s[i] ELSE f[i - 1] \o s[i]]

\* It extends to one more item.
LEMMA FlattensAppend ==
  ASSUME NEW X, NEW s \in Seq(X), NEW x \in X, NEW f, Flattens(f, s)
  PROVE  LET g == [i \in 1 .. Len(s) + 1 |->
                     IF i <= Len(s) THEN f[i]
                     ELSE IF Len(s) = 0 THEN x ELSE f[Len(s)] \o x]
         IN Flattens(g, Append(s, x))
<1> DEFINE t == Append(s, x)
           n == Len(s)
           g == [i \in 1 .. n + 1 |->
                   IF i <= n THEN f[i] ELSE IF n = 0 THEN x ELSE f[n] \o x]
<1>1. n \in Nat /\ Len(t) = n + 1 /\ t[n + 1] = x /\ \A i \in 1 .. n : t[i] = s[i]
  OBVIOUS
<1>2. ASSUME NEW i \in 1 .. n + 1 PROVE g[i] = IF i = 1 THEN t[i] ELSE g[i - 1] \o t[i]
  <2>1. CASE i <= n
    <3>1. f[i] = IF i = 1 THEN s[i] ELSE f[i - 1] \o s[i]
      <4>1. i \in 1 .. Len(s)
        BY <1>1, <2>1
      <4>. QED  BY <4>1 DEF Flattens
    <3>2. g[i] = f[i] /\ t[i] = s[i] /\ (i # 1 => g[i - 1] = f[i - 1])
      BY <1>1, <2>1
    <3>. QED  BY <3>1, <3>2
  <2>2. CASE i = n + 1
    BY <1>1, <2>2
  <2>. QED  BY <1>1, <2>1, <2>2
<1>. QED  BY <1>1, <1>2 DEF Flattens

\* There is one for each sequence.
LEMMA FlattensExists ==
  ASSUME NEW X, NEW s \in Seq(X)
  PROVE  \E f : Flattens(f, s)
<1> DEFINE T == {t \in Seq(X) : \E f : Flattens(f, t)}
<1>1. <<>> \in T
  <2> DEFINE f == [i \in 1 .. 0 |-> 0]
  <2>1. Flattens(f, <<>>)
    BY DEF Flattens
  <2>. QED  BY <2>1
<1>2. ASSUME NEW t \in Seq(X), t \in T, NEW x \in X PROVE Append(t, x) \in T
  <2>1. PICK f : Flattens(f, t)
    BY <1>2
  <2>2. \E g : Flattens(g, Append(t, x))
    BY <2>1, FlattensAppend
  <2>. QED  BY <2>2
<1>3. Seq(X) \subseteq T
  <2> HIDE DEF T
  <2>. QED  BY <1>1, <1>2, SequencesInduct
<1>. QED  BY <1>3

\* And only one.
LEMMA FlattensUnique ==
  ASSUME NEW X, NEW s \in Seq(X), NEW f, NEW g, Flattens(f, s), Flattens(g, s)
  PROVE  f = g
<1> DEFINE T == {n \in Nat : n \in 1 .. Len(s) => f[n] = g[n]}
<1>1. 0 \in T
  OBVIOUS
<1>2. ASSUME NEW n \in Nat, n \in T, n + 1 \in 1 .. Len(s) PROVE f[n + 1] = g[n + 1]
  <2>1. \A i \in 1 .. Len(s) : /\ f[i] = IF i = 1 THEN s[i] ELSE f[i - 1] \o s[i]
                               /\ g[i] = IF i = 1 THEN s[i] ELSE g[i - 1] \o s[i]
    BY DEF Flattens
  <2>2. (n + 1) - 1 = n /\ (n + 1 # 1 => n \in 1 .. Len(s))
    BY <1>2
  <2>. QED  BY <1>2, <2>1, <2>2
<1>3. Nat \subseteq T
  <2>1. \A n \in Nat : n \in T => n + 1 \in T
    BY <1>2
  <2> HIDE DEF T
  <2>. QED  BY <1>1, <2>1, NumbersInduct
<1>4. \A n \in 1 .. Len(s) : f[n] = g[n]
  BY <1>3
<1>5. ASSUME NEW i \in 1 .. Len(s)
      PROVE  (IF i = 1 THEN s[i] ELSE f[i - 1] \o s[i])
               = (IF i = 1 THEN s[i] ELSE g[i - 1] \o s[i])
  <2>1. i # 1 => i - 1 \in 1 .. Len(s)
    OBVIOUS
  <2>. QED  BY <1>4, <2>1
<1>6. [i \in 1 .. Len(s) |-> IF i = 1 THEN s[i] ELSE f[i - 1] \o s[i]]
        = [i \in 1 .. Len(s) |-> IF i = 1 THEN s[i] ELSE g[i - 1] \o s[i]]
  BY <1>5
<1>. QED  BY <1>6, Zenon DEF Flattens

\* FlattenSeq is its last value.
LEMMA FlattenIs ==
  ASSUME NEW X, NEW s \in Seq(X), s # <<>>, NEW f, Flattens(f, s)
  PROVE  FlattenSeq(s) = f[Len(s)]
<1> DEFINE h == CHOOSE h : Flattens(h, s)
<1>1. FlattenSeq(s) = h[Len(s)]
  BY DEF FlattenSeq, Flattens
<1>2. Flattens(h, s)
  OBVIOUS
<1>3. h = f
  <2> HIDE DEF h
  <2>. QED  BY <1>2, FlattensUnique
<1>. QED  BY <1>1, <1>3

\* What FlattenSeq makes of a sequence that is extended.
LEMMA FlattenAppend ==
  ASSUME NEW X, NEW s \in Seq(X), NEW x \in X
  PROVE  FlattenSeq(Append(s, x)) = IF s = <<>> THEN x ELSE FlattenSeq(s) \o x
<1> DEFINE t == Append(s, x)
           n == Len(s)
<1>1. PICK f : Flattens(f, s)
  BY FlattensExists
<1> DEFINE g == [i \in 1 .. n + 1 |->
                   IF i <= n THEN f[i] ELSE IF n = 0 THEN x ELSE f[n] \o x]
<1>2. Flattens(g, t)
  BY <1>1, FlattensAppend
<1>3. /\ t \in Seq(X) /\ Len(t) = n + 1 /\ n \in Nat /\ t # <<>>
      /\ n = 0 <=> s = <<>>
  OBVIOUS
<1>4. FlattenSeq(t) = g[n + 1]
  <2> HIDE DEF g, t
  <2>. QED  BY <1>2, <1>3, FlattenIs
<1>5. s # <<>> => FlattenSeq(s) = f[n]
  BY <1>1, FlattenIs
<1>6. g[n + 1] = IF s = <<>> THEN x ELSE f[n] \o x
  BY <1>3
<1> HIDE DEF g, n
<1>. QED  BY <1>4, <1>5, <1>6

\* What FlattenSeq makes of sequences is a sequence of their items.
LEMMA FlattenType ==
  ASSUME NEW X, NEW t \in Seq(Seq(X))
  PROVE  FlattenSeq(t) \in Seq(X)
<1> DEFINE Y == Seq(X)
           T == {s \in Seq(Y) : FlattenSeq(s) \in Y}
<1>1. <<>> \in T
  <2>1. FlattenSeq(<<>>) = <<>>
    BY DEF FlattenSeq
  <2>2. <<>> \in Seq(Y) /\ <<>> \in Y
    BY EmptyItems
  <2> HIDE DEF Y
  <2>. QED  BY <2>1, <2>2
<1>2. ASSUME NEW s \in Seq(Y), s \in T, NEW x \in Y PROVE Append(s, x) \in T
  <2>1. FlattenSeq(Append(s, x)) = IF s = <<>> THEN x ELSE FlattenSeq(s) \o x
    BY FlattenAppend
  <2>2. FlattenSeq(s) \in Y
    BY <1>2
  <2>3. FlattenSeq(s) \o x \in Y
    BY <2>2, ConcatItems
  <2> HIDE DEF Y
  <2>4. Append(s, x) \in Seq(Y)
    BY AppendItems
  <2>. QED  BY <2>1, <2>3, <2>4
<1>3. Seq(Y) \subseteq T
  <2> HIDE DEF T, Y
  <2>. QED  BY <1>1, <1>2, SequencesInduct
<1>. QED  BY <1>3

\* FlattenSeq puts an item that is appended at the end.
LEMMA FlattenStep ==
  ASSUME NEW X, NEW s \in Seq(Seq(X)), NEW x \in Seq(X)
  PROVE  FlattenSeq(Append(s, x)) = FlattenSeq(s) \o x
<1> DEFINE Y == Seq(X)
<1>1. FlattenSeq(Append(s, x)) = IF s = <<>> THEN x ELSE FlattenSeq(s) \o x
  <2> HIDE DEF Y
  <2>1. s \in Seq(Y) /\ x \in Y
    BY DEF Y
  <2>. QED  BY <2>1, FlattenAppend
<1>2. FlattenSeq(<<>>) = <<>>
  BY DEF FlattenSeq
<1>3. <<>> \o x = x
  BY ConcatEmpty
<1>. QED  BY <1>1, <1>2, <1>3

\* The sequences that Only flattens.
Singles(s, S) == [i \in 1 .. Len(s) |-> IF s[i] \in S THEN <<s[i]>> ELSE <<>>]

\* They are sequences of items.
LEMMA SinglesType ==
  ASSUME NEW X, NEW S, NEW s \in Seq(X)
  PROVE  Singles(s, S) \in Seq(Seq(X)) /\ Only(s, S) = FlattenSeq(Singles(s, S))
<1>1. \A i \in 1 .. Len(s) : (IF s[i] \in S THEN <<s[i]>> ELSE <<>>) \in Seq(X)
  OBVIOUS
<1> DEFINE Y == Seq(X)
<1>2. Singles(s, S) \in [1 .. Len(s) -> Y] /\ Len(s) \in Nat
  BY <1>1 DEF Singles
<1>3. Singles(s, S) \in Seq(Y)
  <2> HIDE DEF Y
  <2>. QED  BY <1>2
<1>. QED  BY <1>3 DEF Only, Singles

\* Only on the empty sequence.
LEMMA OnlyEmpty == ASSUME NEW S PROVE Only(<<>>, S) = <<>>
<1>1. Singles(<<>>, S) = <<>>
  BY DEF Singles
<1>2. Only(<<>>, S) = FlattenSeq(Singles(<<>>, S))
  BY DEF Only, Singles
<1>3. FlattenSeq(<<>>) = <<>>
  BY DEF FlattenSeq
<1>. QED  BY <1>1, <1>2, <1>3

\* What Only yields is a sequence of the same items.
LEMMA OnlyType ==
  ASSUME NEW X, NEW S, NEW s \in Seq(X)
  PROVE  Only(s, S) \in Seq(X)
BY SinglesType, FlattenType

\* Only on a sequence that is extended.
LEMMA OnlyAppend ==
  ASSUME NEW X, NEW S, NEW s \in Seq(X), NEW x \in X
  PROVE  Only(Append(s, x), S) = IF x \in S THEN Append(Only(s, S), x) ELSE Only(s, S)
<1> DEFINE y == IF x \in S THEN <<x>> ELSE <<>>
<1>1. Singles(Append(s, x), S) = Append(Singles(s, S), y)
  BY DEF Singles
<1>2. y \in Seq(X)
  OBVIOUS
<1>3. Append(s, x) \in Seq(X)
  BY AppendItems
<1>4. /\ Only(Append(s, x), S) = FlattenSeq(Singles(Append(s, x), S))
      /\ Only(s, S) = FlattenSeq(Singles(s, S)) /\ Singles(s, S) \in Seq(Seq(X))
  BY <1>3, SinglesType
<1>5. FlattenSeq(Append(Singles(s, S), y)) = FlattenSeq(Singles(s, S)) \o y
  <2> HIDE DEF y
  <2>. QED  BY <1>2, <1>4, FlattenStep
<1>6. Only(s, S) \in Seq(X)
  BY OnlyType
<1>7. Only(s, S) \o <<x>> = Append(Only(s, S), x) /\ Only(s, S) \o <<>> = Only(s, S)
  <2>1. \A o \in Seq(X) : o \o <<x>> = Append(o, x) /\ o \o <<>> = o
    OBVIOUS
  <2>. QED  BY <1>6, <2>1
<1>8. Only(Append(s, x), S) = Only(s, S) \o y
  <2> HIDE DEF y
  <2>. QED  BY <1>1, <1>4, <1>5
<1>. QED  BY <1>7, <1>8

\* Only keeps the items that are in the set.
LEMMA OnlyMembers ==
  ASSUME NEW X, NEW S, NEW s \in Seq(X)
  PROVE  ToSet(Only(s, S)) = ToSet(s) \cap S
<1> DEFINE T == {t \in Seq(X) : ToSet(Only(t, S)) = ToSet(t) \cap S}
<1>1. <<>> \in T
  <2>1. <<>> \in Seq(X) /\ ToSet(<<>>) = {}
    BY EmptyItems
  <2>. QED  BY <2>1, OnlyEmpty
<1>2. ASSUME NEW t \in Seq(X), t \in T, NEW x \in X PROVE Append(t, x) \in T
  <2>1. Only(t, S) \in Seq(X)
    BY OnlyType
  <2>2. Only(Append(t, x), S) = IF x \in S THEN Append(Only(t, S), x) ELSE Only(t, S)
    BY OnlyAppend
  <2>3. ToSet(Append(t, x)) = ToSet(t) \cup {x} /\ Append(t, x) \in Seq(X)
    BY AppendItems
  <2>4. ToSet(Append(Only(t, S), x)) = ToSet(Only(t, S)) \cup {x}
    BY <2>1, AppendItems
  <2>5. ToSet(Only(t, S)) = ToSet(t) \cap S
    BY <1>2
  <2>6. ToSet(Only(Append(t, x), S)) = ToSet(Append(t, x)) \cap S
    BY <2>2, <2>3, <2>4, <2>5
  <2>. QED  BY <2>3, <2>6
<1>3. Seq(X) \subseteq T
  <2> HIDE DEF T
  <2>. QED  BY <1>1, <1>2, SequencesInduct
<1>. QED  BY <1>3

\* Only goes through a concatenation.
LEMMA OnlyConcat ==
  ASSUME NEW X, NEW S, NEW s \in Seq(X), NEW t \in Seq(X)
  PROVE  Only(s \o t, S) = Only(s, S) \o Only(t, S)
<1> DEFINE T == {u \in Seq(X) : Only(s \o u, S) = Only(s, S) \o Only(u, S)}
<1>1. <<>> \in T
  <2>1. <<>> \in Seq(X) /\ Only(s, S) \in Seq(X) /\ Only(<<>>, S) = <<>>
    BY OnlyType, OnlyEmpty, EmptyItems
  <2>2. s \o <<>> = s /\ Only(s, S) \o <<>> = Only(s, S)
    BY <2>1, ConcatEmpty
  <2>. QED  BY <2>1, <2>2
<1>2. ASSUME NEW u \in Seq(X), u \in T, NEW x \in X PROVE Append(u, x) \in T
  <2>1. s \o u \in Seq(X) /\ Append(u, x) \in Seq(X)
    BY ConcatItems, AppendItems
  <2>2. s \o Append(u, x) = Append(s \o u, x)
    BY ConcatAppend
  <2>3. Only(s, S) \in Seq(X) /\ Only(u, S) \in Seq(X)
    BY OnlyType
  <2>4. Only(Append(u, x), S) = IF x \in S THEN Append(Only(u, S), x) ELSE Only(u, S)
    BY OnlyAppend
  <2>5. Only(Append(s \o u, x), S)
          = IF x \in S THEN Append(Only(s \o u, S), x) ELSE Only(s \o u, S)
    <3>1. \A w \in Seq(X) :
            Only(Append(w, x), S) = IF x \in S THEN Append(Only(w, S), x) ELSE Only(w, S)
      BY OnlyAppend
    <3>. QED  BY <2>1, <3>1
  <2>6. Only(s, S) \o Append(Only(u, S), x) = Append(Only(s, S) \o Only(u, S), x)
    BY <2>3, ConcatAppend
  <2>7. Only(s \o u, S) = Only(s, S) \o Only(u, S)
    BY <1>2
  <2>8. Only(s \o Append(u, x), S) = Only(s, S) \o Only(Append(u, x), S)
    BY <2>2, <2>4, <2>5, <2>6, <2>7
  <2>. QED  BY <2>1, <2>8
<1>3. Seq(X) \subseteq T
  <2> HIDE DEF T
  <2>. QED  BY <1>1, <1>2, SequencesInduct
<1>. QED  BY <1>3

\* Only goes through FlattenSeq.
LEMMA OnlyFlatten ==
  ASSUME NEW X, NEW S, NEW s \in Seq(Seq(X))
  PROVE  Only(FlattenSeq(s), S) = FlattenSeq([i \in 1 .. Len(s) |-> Only(s[i], S)])
<1> DEFINE Y == Seq(X)
           F(t) == [i \in 1 .. Len(t) |-> Only(t[i], S)]
           T == {t \in Seq(Y) : Only(FlattenSeq(t), S) = FlattenSeq(F(t))}
<1>1. <<>> \in T
  <2>1. F(<<>>) = <<>>
    OBVIOUS
  <2>2. FlattenSeq(<<>>) = <<>> /\ Only(<<>>, S) = <<>> /\ <<>> \in Seq(Y)
    BY OnlyEmpty, EmptyItems DEF FlattenSeq
  <2> HIDE DEF F
  <2>. QED  BY <2>1, <2>2
<1>2. ASSUME NEW t \in Seq(Y), t \in T, NEW x \in Y PROVE Append(t, x) \in T
  <2>1. \A u \in Y : Only(u, S) \in Y
    BY OnlyType
  <2>2. F(t) \in Seq(Y) /\ F(Append(t, x)) = Append(F(t), Only(x, S)) /\ Append(t, x) \in Seq(Y)
    <3> HIDE DEF Y
    <3>. QED  BY <2>1
  <2>3. FlattenSeq(t) \in Y /\ FlattenSeq(Append(t, x)) = FlattenSeq(t) \o x
    BY FlattenStep, FlattenType
  <2>4. FlattenSeq(Append(F(t), Only(x, S))) = FlattenSeq(F(t)) \o Only(x, S)
    <3>1. Only(x, S) \in Y
      BY <2>1
    <3> HIDE DEF F
    <3>. QED  BY <2>2, <3>1, FlattenStep
  <2>5. Only(FlattenSeq(t) \o x, S) = Only(FlattenSeq(t), S) \o Only(x, S)
    BY <2>3, OnlyConcat
  <2>6. Only(FlattenSeq(t), S) = FlattenSeq(F(t))
    BY <1>2
  <2>7. Only(FlattenSeq(Append(t, x)), S) = FlattenSeq(F(Append(t, x)))
    <3> HIDE DEF F, Y
    <3>. QED  BY <2>2, <2>3, <2>4, <2>5, <2>6
  <2> HIDE DEF F, Y
  <2>. QED  BY <2>2, <2>7
<1>3. Seq(Y) \subseteq T
  <2> HIDE DEF T, Y
  <2>. QED  BY <1>1, <1>2, SequencesInduct
<1>. QED  BY <1>3

\* Only keeps the order.
LEMMA OnlyOrder ==
  ASSUME NEW X, NEW S, NEW s \in Seq(X)
  PROVE  \A a, b \in 1 .. Len(Only(s, S)) : a < b =>
           \E i, j \in 1 .. Len(s) : i < j /\ s[i] = Only(s, S)[a] /\ s[j] = Only(s, S)[b]
<1> DEFINE Ordered(t) ==
             \A a, b \in 1 .. Len(Only(t, S)) : a < b =>
               \E i, j \in 1 .. Len(t) : i < j /\ t[i] = Only(t, S)[a] /\ t[j] = Only(t, S)[b]
           T == {t \in Seq(X) : Ordered(t)}
<1>1. <<>> \in T
  BY OnlyEmpty, EmptyItems
<1>2. ASSUME NEW t \in Seq(X), t \in T, NEW x \in X PROVE Append(t, x) \in T
  <2> DEFINE u == Append(t, x)
             o == Only(t, S)
             p == Only(u, S)
  <2>1. o \in Seq(X) /\ p = IF x \in S THEN Append(o, x) ELSE o
    BY OnlyType, OnlyAppend
  <2>2. ASSUME NEW a \in 1 .. Len(p), NEW b \in 1 .. Len(p), a < b
        PROVE  \E i, j \in 1 .. Len(u) : i < j /\ u[i] = p[a] /\ u[j] = p[b]
    <3>1. CASE b \in 1 .. Len(o)
      <4>1. PICK i, j \in 1 .. Len(t) : i < j /\ t[i] = o[a] /\ t[j] = o[b]
        BY <1>2, <2>2, <3>1
      <4>2. o[a] = p[a] /\ o[b] = p[b]
        BY <2>1, <2>2, <3>1
      <4>. QED  BY <4>1, <4>2
    <3>2. CASE b \notin 1 .. Len(o)
      <4>1. x \in S /\ b = Len(o) + 1 /\ p[b] = x /\ a \in 1 .. Len(o) /\ p[a] = o[a]
        BY <2>1, <2>2, <3>2
      <4>2. o[a] \in ToSet(t)
        <5>1. o[a] \in ToSet(o)
          BY <2>1, <4>1 DEF ToSet
        <5>. QED  BY <5>1, OnlyMembers
      <4>3. PICK i \in 1 .. Len(t) : t[i] = o[a]
        BY <4>2 DEF ToSet
      <4>4. Len(t) + 1 \in 1 .. Len(u) /\ u[Len(t) + 1] = x /\ i \in 1 .. Len(u) /\ u[i] = t[i]
        BY <4>3
      <4>. QED  BY <4>1, <4>3, <4>4
    <3>. QED  BY <3>1, <3>2
  <2>3. Append(t, x) \in Seq(X)
    OBVIOUS
  <2>. QED  BY <2>2, <2>3, Zenon
<1>3. Seq(X) \subseteq T
  <2> HIDE DEF T
  <2>. QED  BY <1>1, <1>2, SequencesInduct
<1>. QED  BY <1>3

\* What FlattenSeq yields has the items of all its sequences.
LEMMA FlattenItems ==
  ASSUME NEW X, NEW s \in Seq(Seq(X)), NEW x
  PROVE  x \in ToSet(FlattenSeq(s)) <=> \E i \in 1 .. Len(s) : x \in ToSet(s[i])
<1> DEFINE Y == Seq(X)
           P(t) == x \in ToSet(FlattenSeq(t)) <=> \E i \in 1 .. Len(t) : x \in ToSet(t[i])
           T == {t \in Seq(Y) : P(t)}
<1>1. <<>> \in T
  <2>1. FlattenSeq(<<>>) = <<>> /\ ToSet(<<>>) = {} /\ <<>> \in Seq(Y)
    BY EmptyItems DEF FlattenSeq
  <2> HIDE DEF Y
  <2>. QED  BY <2>1
<1>2. ASSUME NEW t \in Seq(Y), t \in T, NEW y \in Y PROVE Append(t, y) \in T
  <2>1. FlattenSeq(t) \in Y /\ FlattenSeq(Append(t, y)) = FlattenSeq(t) \o y
    BY FlattenStep, FlattenType
  <2>2. ToSet(FlattenSeq(t) \o y) = ToSet(FlattenSeq(t)) \cup ToSet(y)
    BY <2>1, ConcatItems
  <2> HIDE DEF Y
  <2>3. /\ Append(t, y) \in Seq(Y) /\ Len(Append(t, y)) = Len(t) + 1 /\ Len(t) \in Nat
        /\ Append(t, y)[Len(t) + 1] = y /\ \A i \in 1 .. Len(t) : Append(t, y)[i] = t[i]
    OBVIOUS
  <2>4. (\E i \in 1 .. Len(Append(t, y)) : x \in ToSet(Append(t, y)[i]))
          <=> (\E i \in 1 .. Len(t) : x \in ToSet(t[i])) \/ x \in ToSet(y)
    BY <2>3
  <2>5. P(t)
    BY <1>2
  <2>6. P(Append(t, y))
    BY <2>1, <2>2, <2>4, <2>5
  <2>. QED  BY <2>3, <2>6
<1>3. Seq(Y) \subseteq T
  <2> HIDE DEF T, Y
  <2>. QED  BY <1>1, <1>2, SequencesInduct
<1>. QED  BY <1>3

\* Only depends on which of the items are in the set.
LEMMA OnlySame ==
  ASSUME NEW X, NEW s \in Seq(X), NEW S, NEW R, \A x \in ToSet(s) : x \in S <=> x \in R
  PROVE  Only(s, S) = Only(s, R)
<1>1. \A i \in 1 .. Len(s) : s[i] \in ToSet(s)
  BY ItemsOf
<1>2. [i \in 1 .. Len(s) |-> IF s[i] \in S THEN <<s[i]>> ELSE <<>>]
        = [i \in 1 .. Len(s) |-> IF s[i] \in R THEN <<s[i]>> ELSE <<>>]
  BY <1>1
<1>. QED  BY <1>2 DEF Only

\* The first n + 1 items are the first n and one more.
LEMMA PrefixStep ==
  ASSUME NEW X, NEW s \in Seq(X), NEW n \in Nat, n < Len(s)
  PROVE  /\ SubSeq(s, 1, n) \in Seq(X) /\ s[n + 1] \in X
         /\ SubSeq(s, 1, n + 1) = Append(SubSeq(s, 1, n), s[n + 1])
OBVIOUS

\* Only passes over what is not in the set.
LEMMA OnlyGap ==
  ASSUME NEW X, NEW s \in Seq(X), NEW S, NEW k \in 0 .. Len(s), NEW p \in k .. Len(s),
         \A i \in (k + 1) .. p : s[i] \notin S
  PROVE  Only(SubSeq(s, 1, p), S) = Only(SubSeq(s, 1, k), S)
<1> DEFINE G(n) == Only(SubSeq(s, 1, n), S)
           T == {n \in Nat : k + n <= p => G(k + n) = G(k)}
<1>0. Len(s) \in Nat
  OBVIOUS
<1>1. 0 \in T
  <2>1. k + 0 = k
    BY <1>0
  <2>. QED  BY <2>1
<1>2. ASSUME NEW n \in Nat, n \in T PROVE n + 1 \in T
  <2>1. SUFFICES ASSUME k + (n + 1) <= p PROVE G(k + (n + 1)) = G(k)
    OBVIOUS
  <2> DEFINE m == k + n
  <2>2. m \in Nat /\ m < Len(s) /\ k + (n + 1) = m + 1 /\ m <= p /\ m + 1 \in (k + 1) .. p
    BY <1>0, <2>1
  <2>3. G(m) = G(k)
    BY <1>2, <2>2
  <2> HIDE DEF m
  <2>4. /\ SubSeq(s, 1, m) \in Seq(X) /\ s[m + 1] \in X
        /\ SubSeq(s, 1, m + 1) = Append(SubSeq(s, 1, m), s[m + 1])
    BY <2>2, PrefixStep
  <2>5. s[m + 1] \notin S
    BY <2>2
  <2>6. \A w \in Seq(X), x \in X :
          Only(Append(w, x), S) = IF x \in S THEN Append(Only(w, S), x) ELSE Only(w, S)
    BY OnlyAppend
  <2>7. G(m + 1) = G(m)
    BY <2>4, <2>5, <2>6
  <2> HIDE DEF G
  <2>. QED  BY <2>2, <2>3, <2>7
<1>3. Nat \subseteq T
  <2> HIDE DEF T
  <2>. QED  BY <1>1, <1>2, NumbersInduct
<1>4. p - k \in Nat /\ k + (p - k) = p
  BY <1>0
<1>. QED  BY <1>3, <1>4

\* The rest of a sequence.
LEMMA TailItems ==
  ASSUME NEW X, NEW s \in Seq(X), s # <<>>
  PROVE  /\ Head(s) \in X /\ Tail(s) \in Seq(X) /\ Head(s) = s[1]
         /\ Len(s) \in Nat /\ Len(s) >= 1
         /\ Len(Tail(s)) = Len(s) - 1 /\ \A i \in 1 .. Len(s) - 1 : Tail(s)[i] = s[i + 1]
         /\ ToSet(s) = {Head(s)} \cup ToSet(Tail(s))
<1>1. /\ Head(s) \in X /\ Tail(s) \in Seq(X) /\ Head(s) = s[1]
      /\ Len(s) \in Nat /\ Len(s) >= 1
      /\ Len(Tail(s)) = Len(s) - 1 /\ \A i \in 1 .. Len(s) - 1 : Tail(s)[i] = s[i + 1]
  OBVIOUS
<1>2. \A y : y \in ToSet(s) <=> y = Head(s) \/ y \in ToSet(Tail(s))
  <2> TAKE y
  <2>1. /\ y \in ToSet(s) <=> \E i \in 1 .. Len(s) : s[i] = y
        /\ y \in ToSet(Tail(s)) <=> \E i \in 1 .. Len(Tail(s)) : Tail(s)[i] = y
    <3>1. \A t \in Seq(X) : y \in ToSet(t) <=> \E i \in 1 .. Len(t) : t[i] = y
      BY ItemsOf
    <3>. QED  BY <1>1, <3>1
  <2>2. ASSUME NEW i \in 1 .. Len(s), s[i] = y PROVE y = Head(s) \/ y \in ToSet(Tail(s))
    <3>1. i # 1 => i - 1 \in 1 .. Len(s) - 1 /\ (i - 1) + 1 = i
      BY <1>1
    <3>. QED  BY <1>1, <2>1, <2>2, <3>1
  <2>3. \A i \in 1 .. Len(s) - 1 : i + 1 \in 1 .. Len(s)
    BY <1>1
  <2>4. 1 \in 1 .. Len(s)
    BY <1>1
  <2>. QED  BY <1>1, <2>1, <2>2, <2>3, <2>4
<1>. QED  BY <1>1, <1>2

-----------------------------------------------------------------------------
(* The inductive invariant *)

\* The types that the proof needs: sequences, not only sets of items.
TypeInv ==
  /\ \A e \in Files : tree[e] \in ContentsOf(e)
  /\ DOMAIN tree = Files
  /\ unreadable \subseteq Dirs
  /\ stage \in {"walk", "read", "compile", "done"}
  /\ todo \in Seq(ToSet(Entries) \cup {Root})
  /\ listed \in Seq(Files)
  /\ documents \in Seq(Documents)
  /\ policies \in Seq(Good)
  /\ edited \subseteq Files

\* Where the walk comes to an entry.
Pos(e) == CHOOSE i \in 1 .. Len(Entries) : Entries[i] = e

\* The walk has been in the directory of entry i when it has come as far as k.
Open(k, i) == Entries[i].dir = "." \/ \E h \in 1 .. k : Holds(h, i)

\* Entry i exists and nobody has touched it.
Stays(i) == Entries[i] \in Files /\ Entries[i] \notin edited /\ tree[Entries[i]] # Absent

\* The files up to m that stay as they are are listed.
ListedTo(m) ==
  \A i \in 1 .. m : Stays(i) /\ Wanted(Entries[i]) => Entries[i] \in ToSet(listed)

\* What an undisturbed walk lists.
Lists == {e \in Files : Wanted(e) /\ tree[e] # Absent}

\* The walk has dealt with the first k entries, and has to do those that follow in
\* the directories it has been in.
WalkAt(k) ==
  /\ todo \in Seq(ToSet(Entries))
  /\ \A a, b \in 1 .. Len(todo) : a < b => Pos(todo[a]) < Pos(todo[b])
  /\ \A e \in ToSet(todo) : Pos(e) > k /\ Open(k, Pos(e))
  /\ \A i \in (k + 1) .. Len(Entries) :
       Open(k, i) /\ (Entries[i].kind = "dir" \/ Stays(i)) => Entries[i] \in ToSet(todo)
  /\ \A i \in 1 .. k : Entries[i].kind = "dir" => Entries[i].name \notin unreadable
  /\ ListedTo(k)
  /\ edited = {} => /\ \A e \in ToSet(todo) : e.kind = "dir" \/ tree[e] # Absent
                    /\ listed = Only(SubSeq(Entries, 1, k), Lists)

\* No directory has ended the walk.
Whole == \A r \in errs : r.at # "walk"

\* A directory that cannot be read has ended the walk, after what is before it.
Cut ==
  /\ ~Whole
  /\ \/ "." \in unreadable
     \/ \E p \in 1 .. Len(Entries) : /\ Entries[p].kind = "dir" /\ Entries[p].name \in unreadable
                                     /\ ListedTo(p)

WalkInv ==
  \/ todo = <<Root>> /\ listed = <<>> /\ errs = {}
  \/ (\E k \in 0 .. Len(Entries) : WalkAt(k)) /\ errs = {}
  \/ todo = <<>> /\ Cut

\* What the files found up to the k-th of them contribute.
DocumentsOf(c) == IF c \in {Absent, Garbage} THEN <<>> ELSE c
Contributions(k) == [i \in 1 .. k |-> DocumentsOf(AtRoot(Found[i]))]

\* The read of an undisturbed load has come as far as the k-th file.
ReadAt(k) ==
  /\ listed = SubSeq(Found, k + 1, Len(Found))
  /\ documents = FlattenSeq(Contributions(k))
  /\ errs = {} <=> \A i \in 1 .. k : AtRoot(Found[i]) \notin {Absent, Garbage}

ReadInv ==
  /\ \A e \in Files :
       (e.dir = "." /\ Wanted(e) /\ e \notin edited /\ Reached(e)
          /\ tree[e] \notin {Absent, Garbage})
       => e \in ToSet(listed) \/ ToSet(tree[e]) \subseteq ToSet(documents)
  /\ edited = {} /\ Whole => \E k \in 0 .. Len(Found) : ReadAt(k)
  /\ unreadable = {} => Whole

IInv ==
  /\ TypeInv
  /\ stage = "walk" => WalkInv /\ documents = <<>>
  /\ stage \in {"read", "compile"} => ReadInv
  /\ stage = "compile" => listed = <<>>
  /\ stage = "done" => LoadIsExact /\ GoodFilesSurvive /\ SilentLossOnlyByNamesake

-----------------------------------------------------------------------------
(* The entries *)

\* The entries are a sequence of entries, each of its fields.
LEMMA EntriesType ==
  /\ Entries \in Seq(Entry) /\ Len(Entries) \in Nat
  /\ \A i \in 1 .. Len(Entries) : Entries[i] \in Entry /\ Entries[i] \in ToSet(Entries)
  /\ \A e \in ToSet(Entries) : e \in Entry /\ \E i \in 1 .. Len(Entries) : Entries[i] = e
<1>1. Entries \in Seq(Entry)
  BY EntriesAssumption
<1>2. \A i \in 1 .. Len(Entries) : Entries[i] \in ToSet(Entries)
  BY <1>1, ItemsOf
<1>3. \A e \in ToSet(Entries) : e \in Entry /\ \E i \in 1 .. Len(Entries) : Entries[i] = e
  BY <1>1, ItemsOf
<1>. QED  BY <1>1, <1>2, <1>3

\* An entry is at one place.
LEMMA EntriesDiffer ==
  ASSUME NEW i \in 1 .. Len(Entries), NEW j \in 1 .. Len(Entries), Entries[i] = Entries[j]
  PROVE  i = j
BY EntriesAssumption

\* Pos is the place of an entry.
LEMMA PosIs ==
  /\ \A i \in 1 .. Len(Entries) : Pos(Entries[i]) = i
  /\ \A e \in ToSet(Entries) : Pos(e) \in 1 .. Len(Entries) /\ Entries[Pos(e)] = e
<1>1. ASSUME NEW i \in 1 .. Len(Entries) PROVE Pos(Entries[i]) = i
  <2> DEFINE j == CHOOSE j \in 1 .. Len(Entries) : Entries[j] = Entries[i]
  <2>1. j \in 1 .. Len(Entries) /\ Entries[j] = Entries[i]
    OBVIOUS
  <2>2. Pos(Entries[i]) = j
    BY DEF Pos
  <2> HIDE DEF j
  <2>. QED  BY <2>1, <2>2, EntriesDiffer
<1>2. \A e \in ToSet(Entries) : \E i \in 1 .. Len(Entries) : Entries[i] = e
  BY EntriesType
<1>. QED  BY <1>1, <1>2

\* An entry of a directory has one directory, before it; one of the root has none.
LEMMA ParentIs ==
  /\ \A i, g, h \in 1 .. Len(Entries) : Holds(g, i) /\ Holds(h, i) => g = h
  /\ \A i, h \in 1 .. Len(Entries) : Holds(h, i) => h < i /\ Entries[i].dir # "."
<1>1. \A i, g, h \in 1 .. Len(Entries) : Holds(g, i) /\ Holds(h, i) => g = h
  <2>1. \A g, h \in 1 .. Len(Entries) :
          Entries[g].kind = "dir" /\ Entries[h].kind = "dir" /\ Entries[g].name = Entries[h].name
          => g = h
    BY EntriesAssumption
  <2>. QED  BY <2>1 DEF Holds
<1>2. ASSUME NEW i \in 1 .. Len(Entries), NEW h \in 1 .. Len(Entries), Holds(h, i)
      PROVE  h < i /\ Entries[i].dir # "."
  <2>1. Entries[i].dir # "."
    <3>1. Entries[h].kind = "dir" => Entries[h].name # "."
      BY EntriesAssumption
    <3>. QED  BY <1>2, <3>1 DEF Holds
  <2>2. PICK g \in 1 .. (i - 1) : Holds(g, i)
    BY <2>1, OrderAssumption
  <2>3. g \in 1 .. Len(Entries) /\ g < i
    BY EntriesType
  <2>. QED  BY <1>1, <1>2, <2>1, <2>2, <2>3
<1>. QED  BY <1>1, <1>2

\* Every entry is in the root or in a directory before it.
LEMMA ParentExists ==
  ASSUME NEW i \in 1 .. Len(Entries), Entries[i].dir # "."
  PROVE  \E h \in 1 .. Len(Entries) : Holds(h, i) /\ h < i
<1>1. PICK h \in 1 .. (i - 1) : Holds(h, i)
  BY OrderAssumption
<1>. QED  BY <1>1, EntriesType

\* Between the place the walk has come to and the next entry it has to visit there
\* are no directories, and files only that do not exist or were touched.
LEMMA WalkGap ==
  ASSUME TypeInv, NEW k \in 0 .. Len(Entries), WalkAt(k),
         NEW p \in (k + 1) .. (Len(Entries) + 1), \A e \in ToSet(todo) : Pos(e) >= p
  PROVE  \A i \in (k + 1) .. (p - 1) :
           Entries[i].kind # "dir" /\ Open(k, i) /\ ~Stays(i)
<1>0. Len(Entries) \in Nat /\ (k + 1) .. (p - 1) \subseteq 1 .. Len(Entries)
  BY EntriesType
<1>1. ASSUME NEW i \in (k + 1) .. (p - 1), Open(k, i)
      PROVE  Entries[i].kind # "dir" /\ ~Stays(i)
  <2>1. Entries[i] \notin ToSet(todo)
    <3>1. Pos(Entries[i]) = i
      BY <1>0, PosIs
    <3>. QED  BY <1>0, <3>1
  <2>2. i \in (k + 1) .. Len(Entries)
    BY <1>0
  <2>. QED  BY <1>1, <2>1, <2>2 DEF WalkAt
<1> DEFINE D == {i \in (k + 1) .. (p - 1) : Entries[i].kind = "dir"}
<1>2. D = {}
  <2> SUFFICES ASSUME D # {} PROVE FALSE
    OBVIOUS
  <2>1. D \subseteq Nat
    BY <1>0
  <2>2. PICK x \in D : \A y \in D : x <= y
    <3> HIDE DEF D
    <3>. QED  BY <2>1, LeastExists
  <2>3. ~Open(k, x)
    BY <1>1, <2>2
  <2>4. x \in 1 .. Len(Entries) /\ Entries[x].dir # "."
    BY <1>0, <2>2, <2>3 DEF Open
  <2>5. PICK h \in 1 .. Len(Entries) : Holds(h, x) /\ h < x
    BY <2>4, ParentExists
  <2>6. h \notin 1 .. k
    BY <2>3, <2>5 DEF Open
  <2>7. h \in D
    BY <1>0, <2>2, <2>5, <2>6 DEF Holds
  <2>. QED  BY <1>0, <2>2, <2>5, <2>7
<1>3. ASSUME NEW i \in (k + 1) .. (p - 1) PROVE Open(k, i)
  <2> SUFFICES ASSUME Entries[i].dir # "." PROVE \E h \in 1 .. k : Holds(h, i)
    BY DEF Open
  <2>1. PICK h \in 1 .. Len(Entries) : Holds(h, i) /\ h < i
    BY <1>0, ParentExists
  <2>2. h \notin (k + 1) .. (p - 1)
    BY <1>2, <2>1 DEF Holds
  <2>3. h \in 1 .. k
    BY <1>0, <2>1, <2>2
  <2>. QED  BY <2>1, <2>3
<1>. QED  BY <1>1, <1>3

\* What the walk has done up to k it has then done up to the next entry.
LEMMA WalkAdvance ==
  ASSUME TypeInv, NEW k \in 0 .. Len(Entries), WalkAt(k),
         NEW p \in (k + 1) .. (Len(Entries) + 1), \A e \in ToSet(todo) : Pos(e) >= p
  PROVE  /\ ListedTo(p - 1)
         /\ \A i \in 1 .. (p - 1) : Entries[i].kind = "dir" => Entries[i].name \notin unreadable
         /\ edited = {} => listed = Only(SubSeq(Entries, 1, p - 1), Lists)
         /\ \A i \in 1 .. Len(Entries) : Open(p - 1, i) <=> Open(k, i)
<1>0. Len(Entries) \in Nat /\ Entries \in Seq(Entry)
  BY EntriesType
<1>1. \A i \in (k + 1) .. (p - 1) : Entries[i].kind # "dir" /\ ~Stays(i)
  BY WalkGap
<1>2. \A i \in 1 .. (p - 1) : i \in 1 .. k \/ i \in (k + 1) .. (p - 1)
  BY <1>0
<1>3. \A i \in 1 .. k : i \in 1 .. (p - 1)
  BY <1>0
<1>4. ListedTo(p - 1)
  BY <1>1, <1>2 DEF WalkAt, ListedTo
<1>5. \A i \in 1 .. (p - 1) : Entries[i].kind = "dir" => Entries[i].name \notin unreadable
  BY <1>1, <1>2 DEF WalkAt
<1>6. ASSUME edited = {} PROVE listed = Only(SubSeq(Entries, 1, p - 1), Lists)
  <2>1. \A i \in (k + 1) .. (p - 1) : Entries[i] \notin Lists
    BY <1>1, <1>6 DEF Stays, Lists
  <2>2. p - 1 \in k .. Len(Entries)
    BY <1>0
  <2>3. Only(SubSeq(Entries, 1, p - 1), Lists) = Only(SubSeq(Entries, 1, k), Lists)
    BY <1>0, <2>1, <2>2, OnlyGap
  <2>. QED  BY <1>6, <2>3 DEF WalkAt
<1>7. ASSUME NEW i \in 1 .. Len(Entries) PROVE Open(p - 1, i) <=> Open(k, i)
  BY <1>1, <1>2, <1>3 DEF Open, Holds
<1>. QED  BY <1>4, <1>5, <1>6, <1>7

\* The walk goes on with the first of the entries it has to visit.
LEMMA WalkHead ==
  ASSUME TypeInv, NEW k \in 0 .. Len(Entries), WalkAt(k), todo # <<>>
  PROVE  /\ Pos(Head(todo)) \in (k + 1) .. Len(Entries)
         /\ Entries[Pos(Head(todo))] = Head(todo)
         /\ Tail(todo) \in Seq(ToSet(Entries)) /\ ToSet(todo) = {Head(todo)} \cup ToSet(Tail(todo))
         /\ \A e \in ToSet(todo) : Pos(e) >= Pos(Head(todo))
         /\ \A e \in ToSet(Tail(todo)) : Pos(e) > Pos(Head(todo))
         /\ \A a, b \in 1 .. Len(Tail(todo)) : a < b => Pos(Tail(todo)[a]) < Pos(Tail(todo)[b])
<1> DEFINE X == ToSet(Entries)
           p == Pos(Head(todo))
<1>1. todo \in Seq(X) /\ \A a, b \in 1 .. Len(todo) : a < b => Pos(todo[a]) < Pos(todo[b])
  BY DEF WalkAt
<1>2. /\ Head(todo) \in X /\ Tail(todo) \in Seq(X) /\ Head(todo) = todo[1]
      /\ Len(todo) \in Nat /\ Len(todo) >= 1
      /\ Len(Tail(todo)) = Len(todo) - 1
      /\ \A i \in 1 .. Len(todo) - 1 : Tail(todo)[i] = todo[i + 1]
      /\ ToSet(todo) = {Head(todo)} \cup ToSet(Tail(todo))
  <2> HIDE DEF X
  <2>. QED  BY <1>1, TailItems
<1>3. p \in 1 .. Len(Entries) /\ Entries[p] = Head(todo)
  BY <1>2, PosIs
<1>4. p > k
  BY <1>2 DEF WalkAt
<1>5. ASSUME NEW e \in ToSet(Tail(todo)) PROVE Pos(e) > p
  <2>1. PICK a \in 1 .. Len(Tail(todo)) : Tail(todo)[a] = e
    <3> HIDE DEF X
    <3>1. \A t \in Seq(X) : \A x : x \in ToSet(t) <=> \E i \in 1 .. Len(t) : t[i] = x
      BY ItemsOf
    <3>. QED  BY <1>2, <3>1
  <2>2. a + 1 \in 1 .. Len(todo) /\ 1 \in 1 .. Len(todo) /\ 1 < a + 1 /\ todo[a + 1] = e
    BY <1>2, <2>1
  <2>3. e \in X
    <3>1. ToSet(Tail(todo)) \subseteq X
      <4> HIDE DEF X
      <4>. QED  BY <1>2, ItemsOf
    <3>. QED  BY <3>1
  <2>4. Pos(e) \in 1 .. Len(Entries)
    BY <2>3, PosIs
  <2>5. Pos(todo[1]) < Pos(todo[a + 1])
    BY <1>1, <2>2
  <2>. QED  BY <1>2, <1>3, <2>2, <2>4, <2>5
<1>6. \A e \in ToSet(todo) : Pos(e) >= p
  <2>1. ToSet(Tail(todo)) \subseteq X
    <3> HIDE DEF X
    <3>. QED  BY <1>2, ItemsOf
  <2>2. \A e \in ToSet(Tail(todo)) : Pos(e) \in 1 .. Len(Entries)
    BY <2>1, PosIs
  <2> HIDE DEF p
  <2>. QED  BY <1>2, <1>3, <1>5, <2>2 DEF p
<1>7. ASSUME NEW a \in 1 .. Len(Tail(todo)), NEW b \in 1 .. Len(Tail(todo)), a < b
      PROVE  Pos(Tail(todo)[a]) < Pos(Tail(todo)[b])
  <2>1. a + 1 \in 1 .. Len(todo) /\ b + 1 \in 1 .. Len(todo) /\ a + 1 < b + 1
    BY <1>2, <1>7
  <2>2. Tail(todo)[a] = todo[a + 1] /\ Tail(todo)[b] = todo[b + 1]
    BY <1>2
  <2>. QED  BY <1>1, <2>1, <2>2
<1>8. p \in (k + 1) .. Len(Entries)
  BY <1>3, <1>4, EntriesType
<1>. QED  BY <1>2, <1>3, <1>5, <1>6, <1>7, <1>8

\* A file that is visited: the walk has then done one more entry.
LEMMA VisitFileWalks ==
  ASSUME TypeInv, NEW k \in 0 .. Len(Entries), WalkAt(k), VisitFile
  PROVE  \E p \in 0 .. Len(Entries) : WalkAt(p)'
<1>0. PICK h, p : h = Head(todo) /\ p = Pos(h)
  OBVIOUS
<1>1. /\ todo # <<>> /\ h.kind # "dir" /\ todo' = Tail(todo)
      /\ listed' = IF Wanted(h) THEN Append(listed, h) ELSE listed
      /\ tree' = tree /\ unreadable' = unreadable /\ edited' = edited
  BY <1>0 DEF VisitFile
<1>2. /\ p \in (k + 1) .. Len(Entries) /\ Entries[p] = h
      /\ Tail(todo) \in Seq(ToSet(Entries)) /\ ToSet(todo) = {h} \cup ToSet(Tail(todo))
      /\ \A e \in ToSet(todo) : Pos(e) >= p
      /\ \A e \in ToSet(Tail(todo)) : Pos(e) > p
      /\ \A a, b \in 1 .. Len(Tail(todo)) : a < b => Pos(Tail(todo)[a]) < Pos(Tail(todo)[b])
  BY <1>0, <1>1, WalkHead
<1>3. Len(Entries) \in Nat /\ Entries \in Seq(Entry) /\ h \in ToSet(Entries) /\ h \in Entry
  <2>1. p \in 1 .. Len(Entries) /\ Len(Entries) \in Nat
    BY <1>2, EntriesType
  <2>. QED  BY <1>2, <2>1, EntriesType
<1>4. h \in Files
  BY <1>1, <1>3 DEF Files
<1>5. p \in (k + 1) .. (Len(Entries) + 1) /\ p \in 1 .. Len(Entries) /\ p - 1 \in Nat
      /\ p - 1 < Len(Entries) /\ (p - 1) + 1 = p /\ p \in 0 .. Len(Entries)
  BY <1>2, <1>3
<1>6. /\ ListedTo(p - 1)
      /\ \A i \in 1 .. (p - 1) : Entries[i].kind = "dir" => Entries[i].name \notin unreadable
      /\ edited = {} => listed = Only(SubSeq(Entries, 1, p - 1), Lists)
      /\ \A i \in 1 .. Len(Entries) : Open(p - 1, i) <=> Open(k, i)
  BY <1>2, <1>5, WalkAdvance
<1>7. \A i \in 1 .. p : i \in 1 .. (p - 1) \/ i = p
  BY <1>5
<1>8. \A i \in 1 .. Len(Entries) : Open(p, i) <=> Open(k, i)
  <2>1. \A i \in 1 .. Len(Entries) : Open(p, i) <=> Open(p - 1, i)
    <3>1. \A i \in 1 .. (p - 1) : i \in 1 .. p
      BY <1>5
    <3>. QED  BY <1>1, <1>2, <1>7, <3>1 DEF Open, Holds
  <2>. QED  BY <1>6, <2>1
<1>9. ToSet(listed') = IF Wanted(h) THEN ToSet(listed) \cup {h} ELSE ToSet(listed)
  <2>1. listed \in Seq(Files)
    BY DEF TypeInv
  <2>2. ToSet(Append(listed, h)) = ToSet(listed) \cup {h}
    BY <1>4, <2>1, AppendItems
  <2>. QED  BY <1>1, <2>1, <2>2
<1>a. ListedTo(p)'
  BY <1>1, <1>2, <1>6, <1>7, <1>9 DEF ListedTo, Stays
<1>b. ASSUME edited = {}
      PROVE  listed' = Only(SubSeq(Entries, 1, p), Lists)
  <2>1. /\ SubSeq(Entries, 1, p - 1) \in Seq(Entry) /\ Entries[p] \in Entry
        /\ SubSeq(Entries, 1, p) = Append(SubSeq(Entries, 1, p - 1), Entries[p])
    <3>1. /\ SubSeq(Entries, 1, p - 1) \in Seq(Entry) /\ Entries[(p - 1) + 1] \in Entry
          /\ SubSeq(Entries, 1, (p - 1) + 1)
               = Append(SubSeq(Entries, 1, p - 1), Entries[(p - 1) + 1])
      BY <1>3, <1>5, PrefixStep
    <3>. QED  BY <1>5, <3>1
  <2>2. \A w \in Seq(Entry), x \in Entry :
          Only(Append(w, x), Lists) = IF x \in Lists THEN Append(Only(w, Lists), x) ELSE Only(w, Lists)
    BY OnlyAppend
  <2>3. h \in Lists <=> Wanted(h)
    <3>1. h \in ToSet(todo)
      BY <1>2
    <3>2. tree[h] # Absent
      BY <1>1, <1>b, <3>1 DEF WalkAt
    <3>. QED  BY <1>4, <3>2 DEF Lists
  <2>4. Only(SubSeq(Entries, 1, p), Lists)
          = IF h \in Lists THEN Append(Only(SubSeq(Entries, 1, p - 1), Lists), h)
            ELSE Only(SubSeq(Entries, 1, p - 1), Lists)
    BY <1>2, <2>1, <2>2
  <2>. QED  BY <1>1, <1>6, <1>b, <2>3, <2>4
<1>c. Lists' = Lists
  BY <1>1 DEF Lists
<1>d. \A e \in ToSet(Tail(todo)) : Pos(e) > p /\ Open(p, Pos(e))
  <2>1. \A e \in ToSet(Tail(todo)) : Pos(e) \in 1 .. Len(Entries) /\ Open(k, Pos(e))
    <3>1. ToSet(Tail(todo)) \subseteq ToSet(Entries)
      BY <1>2, ItemsOf
    <3>. QED  BY <1>2, <3>1, PosIs DEF WalkAt
  <2>. QED  BY <1>2, <1>8, <2>1
<1>e. ASSUME NEW i \in (p + 1) .. Len(Entries), Open(p, i), Entries[i].kind = "dir" \/ Stays(i)
      PROVE  Entries[i] \in ToSet(Tail(todo))
  <2>1. i \in (k + 1) .. Len(Entries) /\ i \in 1 .. Len(Entries) /\ i # p
    BY <1>3, <1>2
  <2>2. Entries[i] \in ToSet(todo)
    BY <1>8, <1>e, <2>1 DEF WalkAt
  <2>3. Entries[i] # h
    BY <1>2, <1>5, <2>1, EntriesDiffer
  <2>. QED  BY <1>2, <2>2, <2>3
<1>f. \A i \in 1 .. p : Entries[i].kind = "dir" => Entries[i].name \notin unreadable
  BY <1>1, <1>2, <1>6, <1>7
<1>g. edited = {} => \A e \in ToSet(Tail(todo)) : e.kind = "dir" \/ tree[e] # Absent
  BY <1>2 DEF WalkAt
<1>h. \A i : Stays(i)' = Stays(i)
  BY <1>1 DEF Stays
<1>i. WalkAt(p)'
  BY <1>1, <1>2, <1>a, <1>b, <1>c, <1>d, <1>e, <1>f, <1>g, <1>h DEF WalkAt, Open, Holds
<1>. QED  BY <1>5, <1>i

\* The children of a directory: its entries that exist, in the order of the walk.
LEMMA ChildrenAre ==
  ASSUME NEW d
  PROVE  /\ Children(d) \in Seq(ToSet(Entries))
         /\ \A e : e \in ToSet(Children(d)) <=> e \in ToSet(Entries) /\ e.dir = d.name /\ Exists(e)
         /\ \A a, b \in 1 .. Len(Children(d)) : a < b => Pos(Children(d)[a]) < Pos(Children(d)[b])
<1> DEFINE X == ToSet(Entries)
           S == {e \in X : e.dir = d.name /\ Exists(e)}
           o == Only(Entries, S)
<1>1. Entries \in Seq(X)
  <2>1. Entries = [i \in 1 .. Len(Entries) |-> Entries[i]] /\ Len(Entries) \in Nat
    BY EntriesType
  <2>2. \A i \in 1 .. Len(Entries) : Entries[i] \in X
    BY EntriesType
  <2> HIDE DEF X
  <2>. QED  BY <2>1, <2>2
<1>2. Children(d) = o
  BY DEF Children
<1>3. o \in Seq(X) /\ ToSet(o) = X \cap S
  <2> HIDE DEF S
  <2>1. o \in Seq(X)
    BY <1>1, OnlyType
  <2>2. ToSet(Only(Entries, S)) = ToSet(Entries) \cap S
    BY <1>1, OnlyMembers
  <2>. QED  BY <2>1, <2>2
<1>4. \A a, b \in 1 .. Len(o) : a < b =>
        \E i, j \in 1 .. Len(Entries) : i < j /\ Entries[i] = o[a] /\ Entries[j] = o[b]
  <2> HIDE DEF S, X
  <2>. QED  BY <1>1, OnlyOrder
<1>5. ASSUME NEW a \in 1 .. Len(o), NEW b \in 1 .. Len(o), a < b
      PROVE  Pos(o[a]) < Pos(o[b])
  <2>1. PICK i, j \in 1 .. Len(Entries) : i < j /\ Entries[i] = o[a] /\ Entries[j] = o[b]
    BY <1>4, <1>5
  <2>2. Pos(Entries[i]) = i /\ Pos(Entries[j]) = j
    BY PosIs
  <2> HIDE DEF o
  <2>. QED  BY <2>1, <2>2
<1>6. \A e : e \in ToSet(o) <=> e \in X /\ e.dir = d.name /\ Exists(e)
  <2>1. \A e : e \in S <=> e \in X /\ e.dir = d.name /\ Exists(e)
    OBVIOUS
  <2> HIDE DEF S, X, o
  <2>. QED  BY <1>3, <2>1
<1> HIDE DEF o
<1>. QED  BY <1>2, <1>3, <1>5, <1>6

\* Two sequences in order, the first before the second, are together in order.
LEMMA InOrder ==
  ASSUME NEW s \in Seq(ToSet(Entries)), NEW t \in Seq(ToSet(Entries)),
         \A a, b \in 1 .. Len(s) : a < b => Pos(s[a]) < Pos(s[b]),
         \A a, b \in 1 .. Len(t) : a < b => Pos(t[a]) < Pos(t[b]),
         \A c \in ToSet(s), d \in ToSet(t) : Pos(c) < Pos(d)
  PROVE  \A a, b \in 1 .. Len(s \o t) : a < b => Pos((s \o t)[a]) < Pos((s \o t)[b])
<1> DEFINE X == ToSet(Entries)
<1>1. Len(s) \in Nat /\ Len(t) \in Nat /\ Len(s \o t) = Len(s) + Len(t)
  OBVIOUS
<1>2. \A a \in 1 .. Len(s \o t) :
        (s \o t)[a] = IF a <= Len(s) THEN s[a] ELSE t[a - Len(s)]
  OBVIOUS
<1>3. /\ \A a \in 1 .. Len(s) : s[a] \in ToSet(s)
      /\ \A a \in 1 .. Len(t) : t[a] \in ToSet(t)
  <2> HIDE DEF X
  <2>1. \A u \in Seq(X) : \A a \in 1 .. Len(u) : u[a] \in ToSet(u)
    BY ItemsOf
  <2>. QED  BY <2>1 DEF X
<1>4. ASSUME NEW a \in 1 .. Len(s \o t), NEW b \in 1 .. Len(s \o t), a < b
      PROVE  Pos((s \o t)[a]) < Pos((s \o t)[b])
  <2>1. CASE b <= Len(s)
    <3>1. a \in 1 .. Len(s) /\ b \in 1 .. Len(s)
      BY <1>1, <1>4, <2>1
    <3>. QED  BY <1>2, <1>4, <3>1, <2>1
  <2>2. CASE a <= Len(s) /\ b > Len(s)
    <3>1. a \in 1 .. Len(s) /\ b - Len(s) \in 1 .. Len(t) /\ ~(b <= Len(s))
      BY <1>1, <1>4, <2>2
    <3>. QED  BY <1>2, <1>3, <3>1, <2>2
  <2>3. CASE a > Len(s)
    <3>1. /\ a - Len(s) \in 1 .. Len(t) /\ b - Len(s) \in 1 .. Len(t) /\ ~(b <= Len(s))
          /\ a - Len(s) < b - Len(s) /\ ~(a <= Len(s))
      BY <1>1, <1>4, <2>3
    <3>. QED  BY <1>2, <3>1
  <2>. QED  BY <1>1, <2>1, <2>2, <2>3
<1>. QED  BY <1>4

\* The root that is visited: the walk has then the entries of the root to do.
LEMMA VisitRootWalks ==
  ASSUME TypeInv, todo = <<Root>>, listed = <<>>, VisitDir, "." \notin unreadable
  PROVE  WalkAt(0)' /\ errs' = errs
<1>1. Head(todo) = Root /\ Tail(todo) = <<>> /\ Root.name = "." /\ Root.name \notin unreadable
  <2>1. Head(todo) = Root /\ Tail(todo) = <<>>
    OBVIOUS
  <2>2. Root.name = "."
    BY DEF Root
  <2>. QED  BY <2>1, <2>2
<1>2. /\ errs' = errs /\ todo' = Children(Root) \o <<>>
      /\ tree' = tree /\ unreadable' = unreadable /\ edited' = edited /\ listed' = <<>>
  BY <1>1 DEF VisitDir
<1>3. /\ Children(Root) \in Seq(ToSet(Entries))
      /\ \A e : e \in ToSet(Children(Root)) <=> e \in ToSet(Entries) /\ e.dir = "." /\ Exists(e)
      /\ \A a, b \in 1 .. Len(Children(Root)) : a < b =>
           Pos(Children(Root)[a]) < Pos(Children(Root)[b])
  BY <1>1, ChildrenAre
<1>4. todo' = Children(Root)
  BY <1>2, <1>3, ConcatEmpty
<1>5. \A i : Stays(i)' = Stays(i)
  BY <1>2 DEF Stays
<1>6. \A e \in ToSet(todo') : Pos(e) > 0 /\ Open(0, Pos(e))
  BY <1>3, <1>4, PosIs, EntriesType DEF Open
<1>7. ASSUME NEW i \in 1 .. Len(Entries), Open(0, i), Entries[i].kind = "dir" \/ Stays(i)
      PROVE  Entries[i] \in ToSet(todo')
  <2>1. Entries[i].dir = "." /\ Entries[i] \in ToSet(Entries)
    BY <1>7, EntriesType DEF Open
  <2>2. Exists(Entries[i])
    BY <1>7 DEF Exists, Stays
  <2>. QED  BY <1>3, <1>4, <2>1, <2>2
<1>8. \A e \in ToSet(todo') : e.kind = "dir" \/ tree[e] # Absent
  BY <1>3, <1>4 DEF Exists
<1>9. listed' = Only(SubSeq(Entries, 1, 0), Lists')
  <2>1. SubSeq(Entries, 1, 0) = <<>>
    BY EntriesType
  <2>. QED  BY <1>2, <2>1, OnlyEmpty
<1>a. ListedTo(0)'
  BY DEF ListedTo
<1>b. WalkAt(0)'
  BY <1>2, <1>3, <1>4, <1>5, <1>6, <1>7, <1>8, <1>9, <1>a DEF WalkAt, Open, Holds
<1>. QED  BY <1>2, <1>b

\* A root that cannot be read ends the walk before it has begun.
LEMMA VisitRootCuts ==
  ASSUME todo = <<Root>>, VisitDir, "." \in unreadable
  PROVE  todo' = <<>> /\ Cut'
<1>1. Head(todo) = Root /\ Root.name = "."
  <2>1. Head(todo) = Root
    OBVIOUS
  <2>2. Root.name = "."
    BY DEF Root
  <2>. QED  BY <2>1, <2>2
<1>2. /\ errs' = errs \cup {[at |-> "walk", item |-> Root]} /\ todo' = <<>>
      /\ unreadable' = unreadable
  BY <1>1 DEF VisitDir
<1>3. ~Whole'
  <2>1. [at |-> "walk", item |-> Root] \in errs' /\ [at |-> "walk", item |-> Root].at = "walk"
    BY <1>2
  <2>. QED  BY <2>1 DEF Whole
<1>. QED  BY <1>2, <1>3 DEF Cut

\* A directory that is visited: its entries come before the others.
LEMMA VisitDirWalks ==
  ASSUME TypeInv, NEW k \in 0 .. Len(Entries), WalkAt(k), VisitDir,
         Head(todo).name \notin unreadable
  PROVE  \E p \in 0 .. Len(Entries) : WalkAt(p)' /\ errs' = errs
<1>0. PICK h, p : h = Head(todo) /\ p = Pos(h)
  OBVIOUS
<1>1. /\ todo # <<>> /\ h.kind = "dir" /\ todo' = Children(h) \o Tail(todo)
      /\ tree' = tree /\ unreadable' = unreadable /\ edited' = edited
      /\ listed' = listed /\ errs' = errs /\ h.name \notin unreadable
  BY <1>0 DEF VisitDir
<1>2. /\ p \in (k + 1) .. Len(Entries) /\ Entries[p] = h
      /\ Tail(todo) \in Seq(ToSet(Entries)) /\ ToSet(todo) = {h} \cup ToSet(Tail(todo))
      /\ \A e \in ToSet(todo) : Pos(e) >= p
      /\ \A e \in ToSet(Tail(todo)) : Pos(e) > p
      /\ \A a, b \in 1 .. Len(Tail(todo)) : a < b => Pos(Tail(todo)[a]) < Pos(Tail(todo)[b])
  BY <1>0, <1>1, WalkHead
<1>3. Len(Entries) \in Nat /\ Entries \in Seq(Entry)
  BY EntriesType
<1>4. p \in (k + 1) .. (Len(Entries) + 1) /\ p \in 1 .. Len(Entries) /\ p - 1 \in Nat
      /\ p - 1 < Len(Entries) /\ (p - 1) + 1 = p /\ p \in 0 .. Len(Entries)
  BY <1>2, <1>3
<1>5. /\ ListedTo(p - 1)
      /\ \A i \in 1 .. (p - 1) : Entries[i].kind = "dir" => Entries[i].name \notin unreadable
      /\ edited = {} => listed = Only(SubSeq(Entries, 1, p - 1), Lists)
      /\ \A i \in 1 .. Len(Entries) : Open(p - 1, i) <=> Open(k, i)
  BY <1>2, <1>4, WalkAdvance
<1>6. \A i \in 1 .. p : i \in 1 .. (p - 1) \/ i = p
  BY <1>4
<1>7. \A i \in 1 .. Len(Entries) : Open(p, i) <=> Open(k, i) \/ Holds(p, i)
  <2>1. \A i \in 1 .. Len(Entries) : Open(p, i) <=> Open(p - 1, i) \/ Holds(p, i)
    <3>1. (\A i \in 1 .. (p - 1) : i \in 1 .. p) /\ p \in 1 .. p
      BY <1>4
    <3>. QED  BY <1>6, <3>1 DEF Open
  <2>. QED  BY <1>5, <2>1
<1>8. /\ Children(h) \in Seq(ToSet(Entries))
      /\ \A e : e \in ToSet(Children(h)) <=> e \in ToSet(Entries) /\ e.dir = h.name /\ Exists(e)
      /\ \A a, b \in 1 .. Len(Children(h)) : a < b => Pos(Children(h)[a]) < Pos(Children(h)[b])
  BY ChildrenAre
<1>9. \A e \in ToSet(Children(h)) : Pos(e) \in 1 .. Len(Entries) /\ Holds(p, Pos(e)) /\ p < Pos(e)
  <2>1. \A e \in ToSet(Children(h)) : Pos(e) \in 1 .. Len(Entries) /\ Entries[Pos(e)] = e
    BY <1>8, PosIs
  <2>2. \A e \in ToSet(Children(h)) : Holds(p, Pos(e))
    BY <1>1, <1>2, <1>8, <2>1 DEF Holds
  <2>. QED  BY <1>4, <2>1, <2>2, ParentIs
<1>a. ToSet(Tail(todo)) \subseteq ToSet(Entries)
  BY <1>2, ItemsOf
<1>b. \A e \in ToSet(Tail(todo)) : Pos(e) \in 1 .. Len(Entries) /\ Open(k, Pos(e))
  BY <1>2, <1>a, PosIs DEF WalkAt
<1>c. ASSUME NEW c \in ToSet(Children(h)), NEW d \in ToSet(Tail(todo)) PROVE Pos(c) < Pos(d)
  <2> SUFFICES ASSUME ~(Pos(c) < Pos(d)) PROVE FALSE
    OBVIOUS
  <2>1. Pos(c) \in 1 .. Len(Entries) /\ Holds(p, Pos(c))
    BY <1>9
  <2>2. Pos(d) \in 1 .. Len(Entries) /\ Open(k, Pos(d)) /\ Pos(d) > p
    BY <1>2, <1>b
  <2>3. Pos(d) \in (p + 1) .. Pos(c)
    BY <1>3, <1>4, <2>1, <2>2
  <2>4. PICK g \in p .. (Pos(d) - 1) : Holds(g, Pos(d))
    BY <1>4, <2>1, <2>3, OrderAssumption
  <2>5. g \in 1 .. Len(Entries) /\ g >= p
    BY <1>3, <1>4, <2>2, <2>4
  <2>6. Entries[Pos(d)].dir # "."
    BY <2>2, <2>4, <2>5, ParentIs
  <2>7. PICK f \in 1 .. k : Holds(f, Pos(d))
    BY <2>2, <2>6 DEF Open
  <2>8. f \in 1 .. Len(Entries) /\ f < p
    BY <1>2, <1>3
  <2>9. f = g
    BY <2>2, <2>4, <2>5, <2>7, <2>8, ParentIs
  <2>. QED  BY <1>4, <2>5, <2>8, <2>9
<1> DEFINE t == Children(h) \o Tail(todo)
<1>d. \A a, b \in 1 .. Len(t) : a < b => Pos(t[a]) < Pos(t[b])
  BY <1>2, <1>8, <1>c, InOrder
<1>e. t \in Seq(ToSet(Entries)) /\ ToSet(t) = ToSet(Children(h)) \cup ToSet(Tail(todo))
  <2> DEFINE X == ToSet(Entries)
  <2> HIDE DEF X
  <2>1. \A u, w \in Seq(X) : u \o w \in Seq(X) /\ ToSet(u \o w) = ToSet(u) \cup ToSet(w)
    BY ConcatItems
  <2>2. Children(h) \in Seq(X) /\ Tail(todo) \in Seq(X)
    BY <1>2, <1>8 DEF X
  <2>3. Children(h) \o Tail(todo) \in Seq(X)
    BY <2>1, <2>2
  <2>4. ToSet(Children(h) \o Tail(todo)) = ToSet(Children(h)) \cup ToSet(Tail(todo))
    BY <2>1, <2>2
  <2>. QED  BY <2>3, <2>4 DEF X
<1> HIDE DEF t
<1>f. \A e \in ToSet(t) : Pos(e) > p /\ Open(p, Pos(e))
  BY <1>2, <1>4, <1>7, <1>9, <1>b, <1>e
<1>g. ASSUME NEW i \in (p + 1) .. Len(Entries), Open(p, i), Entries[i].kind = "dir" \/ Stays(i)
      PROVE  Entries[i] \in ToSet(t)
  <2>1. i \in (k + 1) .. Len(Entries) /\ i \in 1 .. Len(Entries) /\ i # p
    BY <1>2, <1>3
  <2>2. CASE Open(k, i)
    <3>1. Entries[i] \in ToSet(todo)
      BY <1>g, <2>1, <2>2 DEF WalkAt
    <3>2. Entries[i] # h
      BY <1>2, <1>4, <2>1, EntriesDiffer
    <3>. QED  BY <1>2, <1>e, <3>1, <3>2
  <2>3. CASE Holds(p, i)
    <3>1. Entries[i].dir = h.name /\ Entries[i] \in ToSet(Entries)
      BY <1>2, <2>1, <2>3, EntriesType DEF Holds
    <3>2. Exists(Entries[i])
      BY <1>g DEF Exists, Stays
    <3>. QED  BY <1>8, <1>e, <3>1, <3>2
  <2>. QED  BY <1>7, <1>g, <2>1, <2>2, <2>3
<1>h. \A i \in 1 .. p : Entries[i].kind = "dir" => Entries[i].name \notin unreadable
  BY <1>1, <1>2, <1>5, <1>6
<1>i. h \notin Files
  BY <1>1 DEF Files
<1>j. ListedTo(p)
  BY <1>2, <1>5, <1>6, <1>i DEF ListedTo, Stays
<1>k. ASSUME edited = {} PROVE listed = Only(SubSeq(Entries, 1, p), Lists)
  <2>1. \A i \in p .. p : Entries[i] \notin Lists
    BY <1>2, <1>4, <1>i DEF Lists
  <2>2. Only(SubSeq(Entries, 1, p), Lists) = Only(SubSeq(Entries, 1, p - 1), Lists)
    <3> DEFINE q == p - 1
    <3>1. q \in 0 .. Len(Entries) /\ p \in q .. Len(Entries) /\ q + 1 = p
      BY <1>3, <1>4
    <3>2. \A i \in (q + 1) .. p : Entries[i] \notin Lists
      BY <2>1, <3>1
    <3> HIDE DEF q
    <3>3. Only(SubSeq(Entries, 1, p), Lists) = Only(SubSeq(Entries, 1, q), Lists)
      BY <1>3, <3>1, <3>2, OnlyGap
    <3>. QED  BY <3>3 DEF q
  <2>. QED  BY <1>5, <1>k, <2>2
<1>l. edited = {} => \A e \in ToSet(t) : e.kind = "dir" \/ tree[e] # Absent
  BY <1>2, <1>8, <1>e DEF WalkAt, Exists
<1>m. todo' = t
  BY <1>1 DEF t
<1>n. WalkAt(p)'
  BY <1>1, <1>d, <1>e, <1>f, <1>g, <1>h, <1>j, <1>k, <1>l, <1>m
     DEF WalkAt, Open, Holds, ListedTo, Stays, Lists
<1>. QED  BY <1>1, <1>4, <1>n

\* A directory that cannot be read ends the walk.
LEMMA VisitDirCuts ==
  ASSUME TypeInv, NEW k \in 0 .. Len(Entries), WalkAt(k), VisitDir,
         Head(todo).name \in unreadable
  PROVE  todo' = <<>> /\ Cut'
<1>0. PICK h, p : h = Head(todo) /\ p = Pos(h)
  OBVIOUS
<1>1. /\ todo # <<>> /\ h.kind = "dir" /\ todo' = <<>> /\ errs' = errs \cup {[at |-> "walk", item |-> h]}
      /\ tree' = tree /\ unreadable' = unreadable /\ edited' = edited
      /\ listed' = listed /\ h.name \in unreadable
  BY <1>0 DEF VisitDir
<1>2. /\ p \in (k + 1) .. Len(Entries) /\ Entries[p] = h /\ \A e \in ToSet(todo) : Pos(e) >= p
  BY <1>0, <1>1, WalkHead
<1>3. p \in (k + 1) .. (Len(Entries) + 1) /\ p \in 1 .. Len(Entries)
      /\ \A i \in 1 .. p : i \in 1 .. (p - 1) \/ i = p
  BY <1>2, EntriesType
<1>4. ListedTo(p - 1)
  BY <1>2, <1>3, WalkAdvance
<1>5. h \notin Files
  BY <1>1 DEF Files
<1>6. ListedTo(p)
  BY <1>2, <1>3, <1>4, <1>5 DEF ListedTo, Stays
<1>7. ListedTo(p)'
  BY <1>1, <1>6 DEF ListedTo, Stays
<1>8. ~Whole'
  <2>1. [at |-> "walk", item |-> h] \in errs' /\ [at |-> "walk", item |-> h].at = "walk"
    BY <1>1
  <2>. QED  BY <2>1 DEF Whole
<1>. QED  BY <1>1, <1>2, <1>3, <1>7, <1>8 DEF Cut

\* A file that changes during the walk is not one the walk has promised to list.
LEMMA EditWalks ==
  ASSUME TypeInv, WalkInv, NEW f \in Files, NEW c, Edit(f, c)
  PROVE  WalkInv'
<1>1. /\ tree' = [tree EXCEPT ![f] = c] /\ edited' = edited \cup {f}
      /\ todo' = todo /\ listed' = listed /\ errs' = errs /\ unreadable' = unreadable
  BY DEF Edit
<1>2. \A i : Stays(i)' => Stays(i)
  BY <1>1 DEF Stays, TypeInv
<1>3. edited' # {}
  BY <1>1
<1>4. \A m : ListedTo(m) => ListedTo(m)'
  BY <1>1, <1>2 DEF ListedTo
<1>5. ASSUME NEW k \in 0 .. Len(Entries), WalkAt(k) PROVE WalkAt(k)'
  <2>1. ListedTo(k)'
    BY <1>4, <1>5 DEF WalkAt
  <2>. QED  BY <1>1, <1>2, <1>3, <1>5, <2>1 DEF WalkAt, Open, Holds
<1>6. Cut => Cut'
  BY <1>1, <1>4 DEF Cut, Whole
<1>. QED  BY <1>1, <1>5, <1>6 DEF WalkInv

-----------------------------------------------------------------------------
(* The read *)

\* What a file holds is a sequence of documents, unless it is gone or cannot be split.
LEMMA TreeType ==
  ASSUME TypeInv, NEW e \in Files
  PROVE  e \in Entry /\ e.kind # "dir" /\ tree[e] \in Seq(Documents) \cup {Garbage, Absent}
<1>1. e \in Entry /\ e.kind # "dir"
  BY EntriesType DEF Files
<1>2. e.kind \in {"yaml", "json", "other"}
  BY <1>1 DEF Entry
<1>3. Contents[e.kind] \subseteq Seq(Documents) \cup {Garbage}
  BY <1>2, ContentsAssumption
<1>4. tree[e] \in Contents[e.kind] \cup {Absent}
  BY DEF TypeInv, ContentsOf
<1>. QED  BY <1>1, <1>3, <1>4

\* A file name says what kind the file is, and the root has one file of a name.
LEMMA RootNamesake ==
  ASSUME NEW e \in Files, NEW f \in Files, f.name = e.name, f.dir = "."
  PROVE  f = [e EXCEPT !.dir = "."]
<1>1. e \in ToSet(Entries) /\ f \in ToSet(Entries) /\ e.kind # "dir" /\ f.kind # "dir"
  BY DEF Files
<1>2. PICK i \in 1 .. Len(Entries) : Entries[i] = e
  BY <1>1, EntriesType
<1>3. PICK j \in 1 .. Len(Entries) : Entries[j] = f
  BY <1>1, EntriesType
<1>4. f.kind = e.kind
  BY <1>1, <1>2, <1>3, EntriesAssumption
<1>5. e \in Entry /\ f \in Entry
  BY <1>1, EntriesType
<1>. QED  BY <1>4, <1>5 DEF Entry

\* The read opens what the root has under the name.
LEMMA OpensIsAtRoot ==
  ASSUME NEW e \in Files
  PROVE  /\ Opens(e) = AtRoot(e)
         /\ e.dir = "." => AtRoot(e) = tree[e]
<1> DEFINE root == [e EXCEPT !.dir = "."]
           N == {f \in Files : f.dir = "." /\ f.name = e.name}
<1>1. e \in Entry
  BY EntriesType DEF Files
<1>2. root.dir = "." /\ root.name = e.name /\ (e.dir = "." => root = e)
  BY <1>1 DEF Entry
<1>3. \A f \in N : f = root
  BY RootNamesake
<1>4. N = IF root \in Files THEN {root} ELSE {}
  BY <1>2, <1>3
<1>5. Opens(e) = IF root \in Files THEN tree[root] ELSE Absent
  BY DEF Opens
<1>6. AtRoot(e) = IF N = {} THEN Absent ELSE tree[CHOOSE f \in N : TRUE]
  BY DEF AtRoot
<1>7. N # {} => (CHOOSE f \in N : TRUE) = root
  <2>1. N # {} => (CHOOSE f \in N : TRUE) \in N
    OBVIOUS
  <2> HIDE DEF N
  <2>. QED  BY <1>3, <2>1
<1> HIDE DEF N
<1>8. Opens(e) = AtRoot(e)
  BY <1>4, <1>5, <1>6, <1>7
<1>. QED  BY <1>2, <1>5, <1>8

\* And that is a sequence of documents, unless it is gone or cannot be split.
LEMMA AtRootType ==
  ASSUME TypeInv, NEW e \in Files
  PROVE  AtRoot(e) \in Seq(Documents) \cup {Garbage, Absent}
<1>1. AtRoot(e) = LET root == [e EXCEPT !.dir = "."]
                  IN IF root \in Files THEN tree[root] ELSE Absent
  BY OpensIsAtRoot DEF Opens
<1>. QED  BY <1>1, TreeType

\* What is found are files.
LEMMA FoundType ==
  /\ Found \in Seq(Files) /\ Len(Found) \in Nat
  /\ ToSet(Found) = Lists
  /\ \A i \in 1 .. Len(Found) : Found[i] \in Files /\ Found[i] \in ToSet(Found)
<1>1. Found = Only(Entries, Lists)
  BY DEF Found, Lists
<1>2. Found \in Seq(Entry)
  BY <1>1, EntriesType, OnlyType
<1>3. ToSet(Found) = ToSet(Entries) \cap Lists
  <2>1. ToSet(Only(Entries, Lists)) = ToSet(Entries) \cap Lists
    BY EntriesType, OnlyMembers
  <2>. QED  BY <1>1, <2>1
<1>4. ToSet(Found) = Lists /\ Lists \subseteq Files
  BY <1>3 DEF Lists, Files
<1>5. \A i \in 1 .. Len(Found) : Found[i] \in ToSet(Found)
  BY <1>2, ItemsOf
<1>6. Found = [i \in 1 .. Len(Found) |-> Found[i]] /\ Len(Found) \in Nat
  BY <1>2
<1>7. \A i \in 1 .. Len(Found) : Found[i] \in Files
  BY <1>4, <1>5
<1>8. Found \in Seq(Files)
  BY <1>6, <1>7
<1>. QED  BY <1>4, <1>5, <1>6, <1>7, <1>8

\* The contributions are sequences of documents.
LEMMA ContributionsType ==
  ASSUME TypeInv, NEW k \in 0 .. Len(Found)
  PROVE  /\ Contributions(k) \in Seq(Seq(Documents)) /\ Len(Contributions(k)) = k
         /\ \A i \in 1 .. k : Contributions(k)[i] = DocumentsOf(AtRoot(Found[i]))
<1> DEFINE Y == Seq(Documents)
<1>1. \A i \in 1 .. k : Found[i] \in Files
  BY FoundType
<1>2. \A i \in 1 .. k : AtRoot(Found[i]) \in Y \cup {Garbage, Absent}
  BY <1>1, AtRootType
<1>3. <<>> \in Y
  BY EmptyItems
<1>4. \A i \in 1 .. k : DocumentsOf(AtRoot(Found[i])) \in Y
  <2> HIDE DEF Y
  <2>. QED  BY <1>2, <1>3 DEF DocumentsOf
<1>5. Contributions(k) \in Seq(Y) /\ Len(Contributions(k)) = k
  <2>1. k \in Nat
    BY FoundType
  <2> HIDE DEF Y
  <2>. QED  BY <1>4, <2>1 DEF Contributions
<1>. QED  BY <1>5 DEF Contributions

\* The contributions of one more file.
LEMMA ContributionsStep ==
  ASSUME TypeInv, NEW k \in 0 .. Len(Found), k < Len(Found)
  PROVE  FlattenSeq(Contributions(k + 1))
           = FlattenSeq(Contributions(k)) \o DocumentsOf(AtRoot(Found[k + 1]))
<1> DEFINE Y == Seq(Documents)
           x == DocumentsOf(AtRoot(Found[k + 1]))
<1>0. k + 1 \in 0 .. Len(Found) /\ k \in Nat /\ k + 1 \in 1 .. Len(Found)
  BY FoundType
<1>1. Contributions(k) \in Seq(Y) /\ Len(Contributions(k)) = k
  BY ContributionsType
<1>2. Contributions(k + 1) \in Seq(Y) /\ Len(Contributions(k + 1)) = k + 1
      /\ Contributions(k + 1)[k + 1] = x
  BY <1>0, ContributionsType
<1>3. x \in Y
  <2>1. AtRoot(Found[k + 1]) \in Y \cup {Garbage, Absent}
    BY <1>0, FoundType, AtRootType
  <2>2. <<>> \in Y
    BY EmptyItems
  <2> HIDE DEF Y
  <2>. QED  BY <2>1, <2>2 DEF DocumentsOf
<1>4. Contributions(k + 1) = Append(Contributions(k), x)
  <2>1. \A i \in 1 .. k : Contributions(k + 1)[i] = Contributions(k)[i]
    BY <1>0 DEF Contributions
  <2> HIDE DEF x, Y
  <2>. QED  BY <1>0, <1>1, <1>2, <1>3, <2>1
<1>5. \A s \in Seq(Seq(Documents)), y \in Seq(Documents) :
        FlattenSeq(Append(s, y)) = FlattenSeq(s) \o y
  BY FlattenStep
<1>. QED  BY <1>1, <1>3, <1>4, <1>5

\* The invariant of the read is about the files and what was read of them.
LEMMA ReadFrame ==
  ASSUME ReadInv, tree' = tree, unreadable' = unreadable, edited' = edited,
         listed' = listed, errs' = errs, documents' = documents
  PROVE  ReadInv'
<1>1. Found' = Found /\ \A e : AtRoot(e)' = AtRoot(e)
  BY DEF Found, AtRoot
<1>2. \A k : Contributions(k)' = Contributions(k)
  BY <1>1 DEF Contributions
<1>3. \A k : ReadAt(k)' <=> ReadAt(k)
  BY <1>1, <1>2 DEF ReadAt
<1>4. (Whole' <=> Whole) /\ \A e : Reached(e)' <=> Reached(e)
  BY DEF Whole, Reached
<1>. QED  BY <1>1, <1>3, <1>4 DEF ReadInv

\* The end of the walk: all files that stay as they are, and that the walk reaches,
\* are listed, and those of an undisturbed load in order.
LEMMA WalkEndsReads ==
  ASSUME TypeInv, WalkInv, documents = <<>>, WalkEnds
  PROVE  ReadInv'
<1> DEFINE N == Len(Entries)
<1>1. /\ todo = <<>> /\ tree' = tree /\ unreadable' = unreadable /\ edited' = edited
      /\ listed' = listed /\ errs' = errs /\ documents' = <<>>
  BY DEF WalkEnds
<1>2. ReadInv => ReadInv'
  BY <1>1, ReadFrame
<1>3. N \in Nat /\ Entries \in Seq(Entry)
  BY EntriesType
<1>4. ASSUME NEW e \in Files, tree[e] # Absent, e \notin edited, Wanted(e),
             NEW m, Pos(e) \in 1 .. m, ListedTo(m)
      PROVE  e \in ToSet(listed)
  <2>1. Entries[Pos(e)] = e
    BY PosIs DEF Files
  <2>. QED  BY <1>4, <2>1 DEF ListedTo, Stays
<1>5. ASSUME NEW k \in 0 .. N, WalkAt(k), errs = {} PROVE ReadInv
  <2>1. ToSet(todo) = {}
    BY <1>1, EmptyItems
  <2>2. N + 1 \in (k + 1) .. (N + 1) /\ (N + 1) - 1 = N
    BY <1>3
  <2>3. ListedTo(N) /\ (edited = {} => listed = Only(SubSeq(Entries, 1, N), Lists))
    <3>1. \A q \in (k + 1) .. (N + 1) : (\A e \in ToSet(todo) : Pos(e) >= q) =>
            ListedTo(q - 1) /\ (edited = {} => listed = Only(SubSeq(Entries, 1, q - 1), Lists))
      BY <1>5, WalkAdvance
    <3>2. ListedTo((N + 1) - 1)
          /\ (edited = {} => listed = Only(SubSeq(Entries, 1, (N + 1) - 1), Lists))
      BY <2>1, <2>2, <3>1
    <3>. QED  BY <2>2, <3>2
  <2>4. SubSeq(Entries, 1, N) = Entries
    BY <1>3
  <2>5. \A e \in Files : Pos(e) \in 1 .. N
    BY PosIs DEF Files
  <2>6. ASSUME edited = {} PROVE \E k0 \in 0 .. Len(Found) : ReadAt(k0)
    <3>1. listed = Found
      BY <2>3, <2>4, <2>6 DEF Found, Lists
    <3>2. SubSeq(Found, 0 + 1, Len(Found)) = Found /\ 0 \in 0 .. Len(Found)
      BY FoundType
    <3>3. FlattenSeq(Contributions(0)) = <<>>
      <4>1. Contributions(0) = <<>>
        BY DEF Contributions
      <4>. QED  BY <4>1 DEF FlattenSeq
    <3>4. ReadAt(0)
      BY <1>5, <3>1, <3>2, <3>3 DEF ReadAt
    <3>. QED  BY <3>2, <3>4
  <2>7. Whole
    BY <1>5 DEF Whole
  <2>8. ASSUME NEW e \in Files, Wanted(e), e \notin edited, tree[e] # Absent
        PROVE  e \in ToSet(listed)
    BY <1>4, <2>3, <2>5, <2>8
  <2>. QED  BY <2>6, <2>7, <2>8 DEF ReadInv
<1>6. ASSUME Cut PROVE ReadInv
  <2>0. CASE "." \in unreadable
    <3>1. unreadable # {} /\ ~Whole /\ \A e : ~Reached(e)
      BY <1>6, <2>0 DEF Cut, Reached
    <3>. QED  BY <3>1 DEF ReadInv
  <2>a. SUFFICES ASSUME "." \notin unreadable PROVE ReadInv
    BY <2>0
  <2>1. PICK p \in 1 .. N : /\ Entries[p].kind = "dir" /\ Entries[p].name \in unreadable
                            /\ ListedTo(p)
    BY <1>6, <2>a DEF Cut
  <2>2. ASSUME NEW e \in Files, Reached(e), Wanted(e), e \notin edited, tree[e] # Absent
        PROVE  e \in ToSet(listed)
    <3>1. Pos(e) \in 1 .. N /\ Entries[Pos(e)] = e
      BY PosIs DEF Files
    <3>2. Pos(e) < p
      BY <2>1, <2>2, <3>1 DEF Reached
    <3>3. Pos(e) \in 1 .. p
      BY <1>3, <3>1, <3>2
    <3>. QED  BY <1>4, <2>1, <2>2, <3>3
  <2>3. unreadable # {} /\ ~Whole
    BY <1>6, <2>1 DEF Cut
  <2>. QED  BY <2>2, <2>3 DEF ReadInv
<1>7. todo # <<Root>>
  BY <1>1
<1>. QED  BY <1>2, <1>5, <1>6, <1>7 DEF WalkInv

\* A file that changes during the read is no longer one that the load owes anything.
LEMMA EditReads ==
  ASSUME TypeInv, ReadInv, NEW f \in Files, NEW c, Edit(f, c)
  PROVE  ReadInv'
<1>1. /\ tree' = [tree EXCEPT ![f] = c] /\ edited' = edited \cup {f}
      /\ documents' = documents /\ listed' = listed /\ errs' = errs /\ unreadable' = unreadable
  BY DEF Edit
<1>2. \A e \in Files : e \notin edited' => e \notin edited /\ tree'[e] = tree[e]
  BY <1>1 DEF TypeInv
<1>3. edited' # {} /\ (Whole' <=> Whole) /\ \A e : Reached(e)' <=> Reached(e)
  BY <1>1 DEF Whole, Reached
<1>. QED  BY <1>1, <1>2, <1>3 DEF ReadInv

\* A file that is read.
LEMMA ReadReads ==
  ASSUME TypeInv, ReadInv, Read
  PROVE  ReadInv'
<1>0. PICK h : h = Head(listed)
  OBVIOUS
<1>1. /\ listed # <<>> /\ listed' = Tail(listed)
      /\ tree' = tree /\ unreadable' = unreadable /\ edited' = edited
      /\ Opens(h) \in {Absent, Garbage} =>
           errs' = errs \cup {[at |-> "read", item |-> h]} /\ documents' = documents
      /\ Opens(h) \notin {Absent, Garbage} =>
           errs' = errs /\ documents' = documents \o Opens(h)
  BY <1>0 DEF Read
<1>2. listed \in Seq(Files) /\ documents \in Seq(Documents)
  BY DEF TypeInv
<1>3. /\ h \in Files /\ h = listed[1] /\ Len(listed) \in Nat /\ Len(listed) >= 1
      /\ ToSet(listed) = {h} \cup ToSet(Tail(listed))
  BY <1>0, <1>1, <1>2, TailItems
<1>4. Opens(h) = AtRoot(h) /\ (h.dir = "." => AtRoot(h) = tree[h])
  BY <1>3, OpensIsAtRoot
<1>5. AtRoot(h) \in Seq(Documents) \cup {Garbage, Absent}
  BY <1>3, AtRootType
<1>6. documents' = documents \o DocumentsOf(AtRoot(h))
  <2>1. documents \o <<>> = documents
    BY <1>2, ConcatEmpty
  <2>. QED  BY <1>1, <1>4, <2>1 DEF DocumentsOf
<1>7. /\ ToSet(documents) \subseteq ToSet(documents')
      /\ AtRoot(h) \notin {Absent, Garbage} => ToSet(AtRoot(h)) \subseteq ToSet(documents')
  <2>1. \A s, t \in Seq(Documents) : ToSet(s \o t) = ToSet(s) \cup ToSet(t)
    BY ConcatItems
  <2>2. AtRoot(h) \notin {Absent, Garbage} =>
          ToSet(documents \o AtRoot(h)) = ToSet(documents) \cup ToSet(AtRoot(h))
    BY <1>2, <1>5, <2>1
  <2>. QED  BY <1>1, <1>4, <2>2
<1>8. Whole' <=> Whole
  <2>1. [at |-> "read", item |-> h].at # "walk"
    OBVIOUS
  <2>. QED  BY <1>1, <2>1 DEF Whole
<1>9. ASSUME NEW e \in Files, e.dir = ".", Wanted(e), e \notin edited, Reached(e),
             tree[e] \notin {Absent, Garbage}
      PROVE  e \in ToSet(Tail(listed)) \/ ToSet(tree[e]) \subseteq ToSet(documents')
  <2>1. e \in ToSet(listed) \/ ToSet(tree[e]) \subseteq ToSet(documents)
    BY <1>9 DEF ReadInv
  <2>. QED  BY <1>3, <1>4, <1>7, <1>9, <2>1
<1>a. Found' = Found /\ \A e : AtRoot(e)' = AtRoot(e)
  BY <1>1 DEF Found, AtRoot, Wanted
<1>b. ASSUME edited = {}, Whole PROVE \E k \in 0 .. Len(Found) : ReadAt(k)'
  <2>1. PICK k \in 0 .. Len(Found) : ReadAt(k)
    BY <1>b DEF ReadInv
  <2>2. /\ listed = SubSeq(Found, k + 1, Len(Found))
        /\ documents = FlattenSeq(Contributions(k))
        /\ errs = {} <=> \A i \in 1 .. k : AtRoot(Found[i]) \notin {Absent, Garbage}
    BY <2>1 DEF ReadAt
  <2>3. /\ Found \in Seq(Files) /\ Len(Found) \in Nat
    BY FoundType
  <2>4. k < Len(Found) /\ k \in Nat
    <3>1. k = Len(Found) => SubSeq(Found, k + 1, Len(Found)) = <<>>
      BY <2>3
    <3>. QED  BY <1>1, <2>2, <2>3, <3>1
  <2>5. h = Found[k + 1] /\ listed' = SubSeq(Found, (k + 1) + 1, Len(Found))
    <3>1. /\ Head(SubSeq(Found, k + 1, Len(Found))) = Found[k + 1]
          /\ Tail(SubSeq(Found, k + 1, Len(Found))) = SubSeq(Found, (k + 1) + 1, Len(Found))
      BY <2>3, <2>4
    <3>. QED  BY <1>0, <1>1, <2>2, <3>1
  <2>6. documents' = FlattenSeq(Contributions(k + 1))
    BY <1>6, <2>2, <2>4, <2>5, ContributionsStep
  <2>7. errs' = {} <=> \A i \in 1 .. (k + 1) : AtRoot(Found[i]) \notin {Absent, Garbage}
    <3>1. \A i \in 1 .. (k + 1) : i \in 1 .. k \/ i = k + 1
      BY <2>4
    <3>2. k + 1 \in 1 .. (k + 1) /\ \A i \in 1 .. k : i \in 1 .. (k + 1)
      BY <2>4
    <3>3. errs' = {} <=> errs = {} /\ AtRoot(Found[k + 1]) \notin {Absent, Garbage}
      BY <1>1, <1>4, <2>5
    <3>. QED  BY <2>2, <3>1, <3>2, <3>3
  <2>8. Contributions(k + 1)' = Contributions(k + 1)
    BY <1>a DEF Contributions, DocumentsOf
  <2>9. ReadAt(k + 1)'
    BY <1>a, <2>5, <2>6, <2>7, <2>8 DEF ReadAt
  <2>a. k + 1 \in 0 .. Len(Found)
    BY <2>3, <2>4
  <2>. QED  BY <2>9, <2>a
<1>c. \A e : Reached(e)' <=> Reached(e)
  BY <1>1 DEF Reached
<1>. QED  BY <1>1, <1>8, <1>9, <1>a, <1>b, <1>c DEF ReadInv

-----------------------------------------------------------------------------
(* The stages after the read *)

\* What the loader may make of documents, and what the stages make of them.
Loaded == Documents \cup {"error", "nil"}
Loads(s) == [i \in 1 .. Len(s) |-> LoadDocument(s[i])]
Compiles(s) == [i \in 1 .. Len(s) |-> Compile(s[i])]
Filtered(s) == Only(Only(Loads(s), Loaded \ {"error"}), Loaded \ {"nil"})
Compiled(s) == Only(Compiles(Filtered(s)), Loaded \ {"error"})

\* What the loader makes of one document, and the compiler of one policy.
LEMMA StepTypes ==
  /\ \A d \in Documents : LoadDocument(d) \in Loaded
  /\ \A d \in Loaded : Compile(d) \in Loaded
BY DEF LoadDocument, Compile, Loaded, Documents, Good

\* The stages pass sequences on.
LEMMA StageTypes ==
  ASSUME NEW s \in Seq(Documents)
  PROVE  /\ Loads(s) \in Seq(Loaded) /\ Len(Loads(s)) = Len(s)
         /\ Only(Loads(s), Loaded \ {"error"}) \in Seq(Loaded)
         /\ Filtered(s) \in Seq(Loaded)
         /\ Compiles(Filtered(s)) \in Seq(Loaded)
         /\ Len(Compiles(Filtered(s))) = Len(Filtered(s))
<1>1. Loads(s) \in Seq(Loaded) /\ Len(Loads(s)) = Len(s)
  BY StepTypes DEF Loads
<1>2. Only(Loads(s), Loaded \ {"error"}) \in Seq(Loaded)
  BY <1>1, OnlyType
<1>3. Filtered(s) \in Seq(Loaded)
  BY <1>2, OnlyType DEF Filtered
<1>4. Compiles(Filtered(s)) \in Seq(Loaded) /\ Len(Compiles(Filtered(s))) = Len(Filtered(s))
  BY <1>3, StepTypes DEF Compiles
<1>. QED  BY <1>1, <1>2, <1>3, <1>4

\* Filtering a sequence of documents that is extended.
LEMMA FilteredStep ==
  ASSUME NEW s \in Seq(Documents), NEW d \in Documents
  PROVE  Filtered(Append(s, d))
           = IF d \in {"malformed", "other"} THEN Filtered(s) ELSE Append(Filtered(s), d)
<1> DEFINE l == LoadDocument(d)
           A == Loaded \ {"error"}
           B == Loaded \ {"nil"}
<1>1. l \in Loaded /\ Loads(s) \in Seq(Loaded) /\ Only(Loads(s), A) \in Seq(Loaded)
  BY StepTypes, StageTypes
<1>2. Loads(Append(s, d)) = Append(Loads(s), l)
  BY DEF Loads
<1>3. \A S : \A w \in Seq(Loaded), x \in Loaded :
        Only(Append(w, x), S) = IF x \in S THEN Append(Only(w, S), x) ELSE Only(w, S)
  BY OnlyAppend
<1>4. Only(Append(Loads(s), l), A)
        = IF l \in A THEN Append(Only(Loads(s), A), l) ELSE Only(Loads(s), A)
  BY <1>1, <1>3
<1>5. Only(Append(Only(Loads(s), A), l), B)
        = IF l \in B THEN Append(Only(Only(Loads(s), A), B), l) ELSE Only(Only(Loads(s), A), B)
  BY <1>1, <1>3
<1>6. /\ d = "malformed" => l \notin A
      /\ d = "other" => l \in A /\ l \notin B
      /\ d \notin {"malformed", "other"} => l = d /\ l \in A /\ l \in B
  BY DEF LoadDocument, Loaded, Documents, Good
<1>7. /\ Filtered(s) = Only(Only(Loads(s), A), B)
      /\ Filtered(Append(s, d)) = Only(Only(Append(Loads(s), l), A), B)
  BY <1>2 DEF Filtered
<1> HIDE DEF A, B, l
<1>. QED  BY <1>4, <1>5, <1>6, <1>7

\* Compiling a sequence of documents that is extended.
LEMMA CompiledStep ==
  ASSUME NEW s \in Seq(Documents), NEW d \in Documents
  PROVE  Compiled(Append(s, d)) = IF d \in Good THEN Append(Compiled(s), d) ELSE Compiled(s)
<1> DEFINE A == Loaded \ {"error"}
<1>1. Filtered(s) \in Seq(Loaded) /\ Compiles(Filtered(s)) \in Seq(Loaded) /\ d \in Loaded
      /\ Compile(d) \in Loaded
  BY StageTypes, StepTypes DEF Loaded
<1>2. \A w \in Seq(Loaded) : Compiles(Append(w, d)) = Append(Compiles(w), Compile(d))
  BY DEF Compiles
<1>3. \A w \in Seq(Loaded), x \in Loaded :
        Only(Append(w, x), A) = IF x \in A THEN Append(Only(w, A), x) ELSE Only(w, A)
  BY OnlyAppend
<1>4. Only(Compiles(Append(Filtered(s), d)), A)
        = IF Compile(d) \in A THEN Append(Compiled(s), Compile(d)) ELSE Compiled(s)
  <2>1. Compiles(Append(Filtered(s), d)) = Append(Compiles(Filtered(s)), Compile(d))
    BY <1>1, <1>2
  <2>2. Only(Append(Compiles(Filtered(s)), Compile(d)), A)
          = IF Compile(d) \in A THEN Append(Only(Compiles(Filtered(s)), A), Compile(d))
            ELSE Only(Compiles(Filtered(s)), A)
    BY <1>1, <1>3
  <2>. QED  BY <2>1, <2>2 DEF Compiled
<1>5. Compiled(Append(s, d)) = Only(Compiles(Filtered(Append(s, d))), A)
      /\ Compiled(s) = Only(Compiles(Filtered(s)), A)
  BY DEF Compiled
<1>6. Filtered(Append(s, d))
        = IF d \in {"malformed", "other"} THEN Filtered(s) ELSE Append(Filtered(s), d)
  BY FilteredStep
<1>7. /\ d \in Good => d \notin {"malformed", "other"} /\ Compile(d) = d /\ d \in A
      /\ d \notin Good => d \in {"malformed", "other"} \/ Compile(d) \notin A
  BY DEF Compile, Loaded, Documents, Good
<1> HIDE DEF A
<1>. QED  BY <1>4, <1>5, <1>6, <1>7

\* What is loaded, filtered and compiled are the policies that compile.
LEMMA CompiledIsGood ==
  ASSUME NEW s \in Seq(Documents)
  PROVE  Compiled(s) = Only(s, Good)
<1> DEFINE T == {t \in Seq(Documents) : Compiled(t) = Only(t, Good)}
<1>1. <<>> \in T
  <2>1. Loads(<<>>) = <<>> /\ Compiles(<<>>) = <<>>
    BY DEF Loads, Compiles
  <2>2. \A S : Only(<<>>, S) = <<>>
    BY OnlyEmpty
  <2>3. Filtered(<<>>) = <<>>
    BY <2>1, <2>2 DEF Filtered
  <2>4. Compiled(<<>>) = <<>>
    BY <2>1, <2>2, <2>3 DEF Compiled
  <2>. QED  BY <2>2, <2>4, EmptyItems
<1>2. ASSUME NEW t \in Seq(Documents), t \in T, NEW d \in Documents PROVE Append(t, d) \in T
  <2>1. Compiled(Append(t, d)) = IF d \in Good THEN Append(Compiled(t), d) ELSE Compiled(t)
    BY CompiledStep
  <2>2. Only(Append(t, d), Good) = IF d \in Good THEN Append(Only(t, Good), d) ELSE Only(t, Good)
    BY OnlyAppend
  <2>3. Append(t, d) \in Seq(Documents) /\ Compiled(t) = Only(t, Good)
    BY <1>2
  <2>4. Compiled(Append(t, d)) = Only(Append(t, d), Good)
    BY <2>1, <2>2, <2>3
  <2>. QED  BY <2>3, <2>4
<1>3. Seq(Documents) \subseteq T
  <2> HIDE DEF T
  <2>. QED  BY <1>1, <1>2, SequencesInduct
<1>. QED  BY <1>3

\* The members of what is filtered.
LEMMA FilteredMembers ==
  ASSUME NEW s \in Seq(Documents)
  PROVE  "broken" \in ToSet(Filtered(s)) <=> "broken" \in ToSet(s)
<1> DEFINE A == Loaded \ {"error"}
           B == Loaded \ {"nil"}
<1>1. Loads(s) \in Seq(Loaded) /\ Only(Loads(s), A) \in Seq(Loaded) /\ Len(Loads(s)) = Len(s)
  BY StageTypes
<1>2. \A w \in Seq(Loaded) : \A S : ToSet(Only(w, S)) = ToSet(w) \cap S
  BY OnlyMembers
<1>3. ToSet(Only(Loads(s), A)) = ToSet(Loads(s)) \cap A
  BY <1>1, <1>2
<1>4. ToSet(Only(Only(Loads(s), A), B)) = ToSet(Only(Loads(s), A)) \cap B
  BY <1>1, <1>2
<1>5. "broken" \in A /\ "broken" \in B
  BY DEF Loaded, Documents, Good
<1>6. "broken" \in ToSet(Loads(s)) <=> "broken" \in ToSet(s)
  <2>1. \A i \in 1 .. Len(s) : Loads(s)[i] = "broken" <=> s[i] = "broken"
    BY DEF Loads, LoadDocument
  <2>2. "broken" \in ToSet(s) <=> \E i \in 1 .. Len(s) : s[i] = "broken"
    BY ItemsOf
  <2>3. "broken" \in ToSet(Loads(s)) <=> \E i \in 1 .. Len(Loads(s)) : Loads(s)[i] = "broken"
    BY <1>1, ItemsOf
  <2>. QED  BY <1>1, <2>1, <2>2, <2>3
<1>. QED  BY <1>3, <1>4, <1>5, <1>6 DEF Filtered

\* The stages compute the policies that compile, and add an error exactly if a
\* document is malformed or does not compile.
LEMMA NewFsIs ==
  ASSUME TypeInv
  PROVE  /\ NewFs.data = Only(documents, Good)
         /\ errs \subseteq NewFs.errs
         /\ NewFs.errs = {} <=> errs = {} /\ ToSet(documents) \cap {"broken", "malformed"} = {}
<1> DEFINE s == documents
           o1 == Loads(s)
           d1 == Only(o1, ToSet(o1) \ {"error"})
           e1 == errs \cup {[at |-> "load", item |-> s[i]] : i \in {j \in 1 .. Len(o1) : o1[j] = "error"}}
           d2 == Only(d1, ToSet(d1) \ {"nil"})
           o3 == Compiles(d2)
           d3 == Only(o3, ToSet(o3) \ {"error"})
           e3 == e1 \cup {[at |-> "compile", item |-> d2[i]] : i \in {j \in 1 .. Len(o3) : o3[j] = "error"}}
<1>1. NewFs = [data |-> d3, errs |-> e3]
  <2> DEFINE in == [data |-> s, errs |-> errs]
             load == NewTransformErr(in, o1, "load")
             filter == NewFilter(load)
  <2>1. NewFs = NewTransformErr(filter, Compiles(filter.data), "compile")
    BY DEF NewFs, Loads, Compiles
  <2>2. load = [data |-> d1, errs |-> e1]
    <3>1. in.errs = errs /\ in.data = s
      OBVIOUS
    <3> HIDE DEF in, o1, s
    <3>. QED  BY <3>1 DEF NewTransformErr
  <2>3. load.data = d1 /\ load.errs = e1
    <3> HIDE DEF load, d1, e1
    <3>. QED  BY <2>2
  <2>4. filter = [data |-> d2, errs |-> e1]
    <3> HIDE DEF load, d1, e1
    <3>. QED  BY <2>3 DEF NewFilter
  <2>5. filter.data = d2 /\ filter.errs = e1
    <3> HIDE DEF filter, d2, e1
    <3>. QED  BY <2>4
  <2>6. NewTransformErr(filter, o3, "compile") = [data |-> d3, errs |-> e3]
    <3> HIDE DEF filter, d2, e1, o3
    <3>. QED  BY <2>5 DEF NewTransformErr
  <2>7. o3 = Compiles(filter.data)
    <3> HIDE DEF filter, d2
    <3>. QED  BY <2>5
  <2> HIDE DEF filter, o3, d3, e3
  <2>. QED  BY <2>1, <2>6, <2>7
<1>2. s \in Seq(Documents)
  BY DEF TypeInv
<1>3. /\ Loads(s) \in Seq(Loaded) /\ Len(Loads(s)) = Len(s)
      /\ Only(Loads(s), Loaded \ {"error"}) \in Seq(Loaded)
      /\ Filtered(s) \in Seq(Loaded)
      /\ Compiles(Filtered(s)) \in Seq(Loaded)
      /\ Len(Compiles(Filtered(s))) = Len(Filtered(s))
  BY <1>2, StageTypes
<1>4. \A w \in Seq(Loaded) : \A x : Only(w, ToSet(w) \ {x}) = Only(w, Loaded \ {x})
  <2>1. \A w \in Seq(Loaded) : ToSet(w) \subseteq Loaded
    BY ItemsOf
  <2>2. ASSUME NEW w \in Seq(Loaded), NEW x PROVE Only(w, ToSet(w) \ {x}) = Only(w, Loaded \ {x})
    <3>1. \A y \in ToSet(w) : y \in ToSet(w) \ {x} <=> y \in Loaded \ {x}
      BY <2>1
    <3>. QED  BY <3>1, OnlySame
  <2>. QED  BY <2>2
<1>5. d1 = Only(Loads(s), Loaded \ {"error"})
  BY <1>3, <1>4
<1>6. d2 = Filtered(s)
  BY <1>3, <1>4, <1>5 DEF Filtered
<1>7. d3 = Compiled(s)
  BY <1>3, <1>4, <1>6 DEF Compiled
<1>8. d3 = Only(s, Good)
  BY <1>2, <1>7, CompiledIsGood
<1>9. (\E j \in 1 .. Len(o1) : o1[j] = "error") <=> "malformed" \in ToSet(s)
  <2>1. \A i \in 1 .. Len(s) : Loads(s)[i] = "error" <=> s[i] = "malformed"
    <3>1. \A i \in 1 .. Len(s) : s[i] \in Documents
      BY <1>2
    <3>2. \A d \in Documents : LoadDocument(d) = "error" <=> d = "malformed"
      BY DEF LoadDocument, Documents, Good
    <3>. QED  BY <3>1, <3>2 DEF Loads
  <2>2. "malformed" \in ToSet(s) <=> \E i \in 1 .. Len(s) : s[i] = "malformed"
    BY <1>2, ItemsOf
  <2>. QED  BY <1>3, <2>1, <2>2
<1>a. (\E j \in 1 .. Len(o3) : o3[j] = "error") <=> "broken" \in ToSet(s)
  <2>1. \A i \in 1 .. Len(Filtered(s)) : Compiles(Filtered(s))[i] = "error" <=> Filtered(s)[i] = "broken"
    <3>1. \A i \in 1 .. Len(Filtered(s)) : Filtered(s)[i] # "error"
      <4>1. ToSet(Filtered(s)) = ToSet(Only(Loads(s), Loaded \ {"error"})) \cap (Loaded \ {"nil"})
        BY <1>3, OnlyMembers DEF Filtered
      <4>2. ToSet(Only(Loads(s), Loaded \ {"error"})) = ToSet(Loads(s)) \cap (Loaded \ {"error"})
        BY <1>3, OnlyMembers
      <4>3. \A i \in 1 .. Len(Filtered(s)) : Filtered(s)[i] \in ToSet(Filtered(s))
        BY <1>3, ItemsOf
      <4>. QED  BY <4>1, <4>2, <4>3
    <3>. QED  BY <3>1 DEF Compiles, Compile
  <2>2. "broken" \in ToSet(Filtered(s)) <=> \E i \in 1 .. Len(Filtered(s)) : Filtered(s)[i] = "broken"
    BY <1>3, ItemsOf
  <2>3. "broken" \in ToSet(Filtered(s)) <=> "broken" \in ToSet(s)
    BY <1>2, FilteredMembers
  <2>4. o3 = Compiles(Filtered(s))
    BY <1>6
  <2>. QED  BY <1>3, <2>1, <2>2, <2>3, <2>4
<1>b. e1 = {} <=> errs = {} /\ "malformed" \notin ToSet(s)
  <2>1. {[at |-> "load", item |-> s[i]] : i \in {j \in 1 .. Len(o1) : o1[j] = "error"}} = {}
          <=> ~\E j \in 1 .. Len(o1) : o1[j] = "error"
    OBVIOUS
  <2> HIDE DEF o1
  <2>. QED  BY <1>9, <2>1
<1>c. e3 = {} <=> e1 = {} /\ "broken" \notin ToSet(s)
  <2>1. {[at |-> "compile", item |-> d2[i]] : i \in {j \in 1 .. Len(o3) : o3[j] = "error"}} = {}
          <=> ~\E j \in 1 .. Len(o3) : o3[j] = "error"
    OBVIOUS
  <2> HIDE DEF o3, e1
  <2>. QED  BY <1>a, <2>1
<1>d. errs \subseteq e3
  OBVIOUS
<1>e. NewFs.data = d3 /\ NewFs.errs = e3
  BY <1>1
<1> HIDE DEF d3, e3, e1
<1>. QED  BY <1>8, <1>b, <1>c, <1>d, <1>e

\* The end of an undisturbed read: every file that is found has contributed.
LEMMA ReadComplete ==
  ASSUME TypeInv, ReadInv, listed = <<>>, edited = {}, Whole
  PROVE  ReadAt(Len(Found))
<1>1. PICK k \in 0 .. Len(Found) : ReadAt(k)
  BY DEF ReadInv
<1>2. Found \in Seq(Files) /\ Len(Found) \in Nat
  BY FoundType
<1>3. SubSeq(Found, k + 1, Len(Found)) = <<>>
  BY <1>1 DEF ReadAt
<1>4. k < Len(Found) => SubSeq(Found, k + 1, Len(Found)) # <<>>
  <2>1. k < Len(Found) => Len(SubSeq(Found, k + 1, Len(Found))) # 0
    BY <1>2
  <2>2. Len(<<>>) = 0
    OBVIOUS
  <2>. QED  BY <2>1, <2>2, Zenon
<1>5. k = Len(Found)
  BY <1>2, <1>3, <1>4
<1>. QED  BY <1>1, <1>5

\* The policies of a file that was read are among those of the load.
LEMMA PoliciesAreLoaded ==
  ASSUME TypeInv, NEW c \in Seq(Documents), ToSet(c) \subseteq ToSet(documents)
  PROVE  ToSet(PoliciesOf(c)) \subseteq ToSet(Only(documents, Good))
<1>1. documents \in Seq(Documents)
  BY DEF TypeInv
<1>2. ToSet(Only(documents, Good)) = ToSet(documents) \cap Good
  BY <1>1, OnlyMembers
<1>3. ToSet(Only(c, Good)) = ToSet(c) \cap Good
  BY OnlyMembers
<1>4. ToSet(<<>>) = {}
  BY EmptyItems
<1>. QED  BY <1>2, <1>3, <1>4 DEF PoliciesOf

\* What is read of an undisturbed load are the documents of the files found.
LEMMA ReadDocuments ==
  ASSUME TypeInv, ReadAt(Len(Found))
  PROVE  /\ \A x : x \in ToSet(documents) <=>
              \E e \in ToSet(Found) : AtRoot(e) \notin {Absent, Garbage} /\ x \in ToSet(AtRoot(e))
         /\ errs = {} <=> \A e \in ToSet(Found) : AtRoot(e) \notin {Absent, Garbage}
<1> DEFINE n == Len(Found)
           s == Contributions(n)
<1>1. Found \in Seq(Files) /\ n \in Nat /\ n \in 0 .. n
  BY FoundType
<1>2. s \in Seq(Seq(Documents)) /\ Len(s) = n
      /\ \A i \in 1 .. n : s[i] = DocumentsOf(AtRoot(Found[i]))
  BY <1>1, ContributionsType
<1>3. documents = FlattenSeq(s)
  BY DEF ReadAt
<1>4. \A e : e \in ToSet(Found) <=> \E i \in 1 .. n : Found[i] = e
  BY <1>1, ItemsOf
<1>5. \A x : x \in ToSet(documents) <=> \E i \in 1 .. n : x \in ToSet(s[i])
  <2> HIDE DEF s, n
  <2>1. \A x : x \in ToSet(FlattenSeq(s)) <=> \E i \in 1 .. Len(s) : x \in ToSet(s[i])
    BY <1>2, FlattenItems
  <2>. QED  BY <1>2, <1>3, <2>1
<1>6. \A i \in 1 .. n : \A x : x \in ToSet(s[i]) <=>
        AtRoot(Found[i]) \notin {Absent, Garbage} /\ x \in ToSet(AtRoot(Found[i]))
  <2>1. ToSet(<<>>) = {}
    BY EmptyItems
  <2> HIDE DEF s, n
  <2>. QED  BY <1>2, <2>1 DEF DocumentsOf
<1>7. errs = {} <=> \A i \in 1 .. n : AtRoot(Found[i]) \notin {Absent, Garbage}
  BY DEF ReadAt
<1> HIDE DEF s, n
<1>8. errs = {} <=> \A e \in ToSet(Found) : AtRoot(e) \notin {Absent, Garbage}
  BY <1>4, <1>7
<1>. QED  BY <1>4, <1>5, <1>6, <1>8

\* The stages after the read of an undisturbed load: exactly the policies.
LEMMA LoadsExactly ==
  ASSUME TypeInv, ReadInv, listed = <<>>, LoadAndCompile
  PROVE  LoadIsExact'
<1>0. Found' = Found /\ (\A e : AtRoot(e)' = AtRoot(e)) /\ edited' = edited /\ unreadable' = unreadable
  BY DEF LoadAndCompile, Found, AtRoot, Wanted
<1>a. tree' = tree
  BY DEF LoadAndCompile
<1> SUFFICES ASSUME edited = {}, unreadable = {}, Flat
             PROVE  /\ policies' = FlattenSeq([i \in 1 .. Len(Found) |-> PoliciesOf(tree[Found[i]])])
                    /\ (errs' = {}) <=>
                         \A e \in ToSet(Found) :
                           /\ tree[e] # Garbage
                           /\ ToSet(tree[e]) \cap {"broken", "malformed"} = {}
  BY <1>0, <1>a, Zenon DEF LoadIsExact, Undisturbed, PoliciesOf, Flat
<1>b. \A e \in ToSet(Found) : AtRoot(e) = tree[e] /\ tree[e] # Absent
  <2>1. \A e \in ToSet(Found) : e \in Files /\ e.dir = "." /\ tree[e] # Absent
    BY FoundType DEF Lists, Flat
  <2>. QED  BY <2>1, OpensIsAtRoot
<1>c. \A i \in 1 .. Len(Found) : AtRoot(Found[i]) = tree[Found[i]]
  <2>1. \A i \in 1 .. Len(Found) : Found[i] \in ToSet(Found)
    BY FoundType, ItemsOf
  <2>. QED  BY <1>b, <2>1
<1> DEFINE n == Len(Found)
           s == Contributions(n)
<1>1. policies' = NewFs.data /\ errs' = NewFs.errs
  BY DEF LoadAndCompile
<1>2. /\ NewFs.data = Only(documents, Good)
      /\ NewFs.errs = {} <=> errs = {} /\ ToSet(documents) \cap {"broken", "malformed"} = {}
  BY NewFsIs
<1>3. ReadAt(n)
  BY ReadComplete DEF ReadInv
<1>4. s \in Seq(Seq(Documents)) /\ Len(s) = n /\ n \in 0 .. n
      /\ \A i \in 1 .. n : s[i] = DocumentsOf(AtRoot(Found[i]))
  BY FoundType, ContributionsType
<1>5. documents = FlattenSeq(s)
  BY <1>3 DEF ReadAt
<1>6. Only(FlattenSeq(s), Good) = FlattenSeq([i \in 1 .. Len(s) |-> Only(s[i], Good)])
  <2> HIDE DEF s
  <2>. QED  BY <1>4, OnlyFlatten
<1>7. [i \in 1 .. n |-> Only(s[i], Good)] = [i \in 1 .. n |-> PoliciesOf(AtRoot(Found[i]))]
  <2>1. Only(<<>>, Good) = <<>>
    BY OnlyEmpty
  <2>2. \A i \in 1 .. n : Only(s[i], Good) = PoliciesOf(AtRoot(Found[i]))
    <3> HIDE DEF s, n
    <3>. QED  BY <1>4, <2>1 DEF DocumentsOf, PoliciesOf
  <2> HIDE DEF s, n
  <2>. QED  BY <2>2
<1>8. policies' = FlattenSeq([i \in 1 .. n |-> PoliciesOf(AtRoot(Found[i]))])
  <2> HIDE DEF s, n
  <2>. QED  BY <1>1, <1>2, <1>4, <1>5, <1>6, <1>7
<1>9. (errs' = {}) <=>
        \A e \in ToSet(Found) :
          /\ AtRoot(e) \notin {Absent, Garbage}
          /\ ToSet(AtRoot(e)) \cap {"broken", "malformed"} = {}
  <2>1. /\ \A x : x \in ToSet(documents) <=>
              \E e \in ToSet(Found) : AtRoot(e) \notin {Absent, Garbage} /\ x \in ToSet(AtRoot(e))
        /\ errs = {} <=> \A e \in ToSet(Found) : AtRoot(e) \notin {Absent, Garbage}
    BY <1>3, ReadDocuments
  <2>. QED  BY <1>1, <1>2, <2>1
<1>d. [i \in 1 .. n |-> PoliciesOf(AtRoot(Found[i]))] = [i \in 1 .. n |-> PoliciesOf(tree[Found[i]])]
  BY <1>c
<1>. QED  BY <1>8, <1>9, <1>b, <1>d

\* The stages after the read leave out nothing of a file that was read.
LEMMA LoadsGoodFiles ==
  ASSUME TypeInv, ReadInv, listed = <<>>, LoadAndCompile
  PROVE  GoodFilesSurvive'
<1> SUFFICES ASSUME NEW e \in Files, e.dir = ".", Wanted(e), e \notin edited, Reached(e),
                    tree[e] \notin {Absent, Garbage}
             PROVE  ToSet(PoliciesOf(tree[e])) \subseteq ToSet(policies')
  BY DEF GoodFilesSurvive, LoadAndCompile, Reached, PoliciesOf, Wanted
<1>1. policies' = Only(documents, Good)
  BY NewFsIs DEF LoadAndCompile
<1>2. ToSet(tree[e]) \subseteq ToSet(documents)
  <2>1. ToSet(listed) = {}
    BY EmptyItems
  <2>. QED  BY <2>1 DEF ReadInv
<1>3. tree[e] \in Seq(Documents)
  BY TreeType
<1>. QED  BY <1>1, <1>2, <1>3, PoliciesAreLoaded

\* Without an error, the load has every file that no namesake replaces.
LEMMA LoadsSilently ==
  ASSUME TypeInv, ReadInv, listed = <<>>, LoadAndCompile
  PROVE  SilentLossOnlyByNamesake'
<1> SUFFICES ASSUME errs' = {}, edited = {}, NEW e \in ToSet(Found), e.dir = "." \/ AtRoot(e) = Absent
             PROVE  ToSet(PoliciesOf(tree[e])) \subseteq ToSet(policies')
  BY DEF SilentLossOnlyByNamesake, LoadAndCompile, Found, AtRoot, PoliciesOf, Wanted
<1>1. policies' = Only(documents, Good) /\ errs = {}
  BY NewFsIs DEF LoadAndCompile
<1>2. Whole
  BY <1>1 DEF Whole
<1>3. ReadAt(Len(Found))
  BY <1>2, ReadComplete
<1>4. /\ \A x : x \in ToSet(documents) <=>
           \E f \in ToSet(Found) : AtRoot(f) \notin {Absent, Garbage} /\ x \in ToSet(AtRoot(f))
      /\ \A f \in ToSet(Found) : AtRoot(f) \notin {Absent, Garbage}
  BY <1>1, <1>3, ReadDocuments
<1>5. e \in Files
  BY FoundType DEF Lists
<1>6. AtRoot(e) = tree[e] /\ tree[e] \notin {Absent, Garbage}
  BY <1>4, <1>5, OpensIsAtRoot
<1>7. tree[e] \in Seq(Documents)
  BY <1>5, <1>6, TreeType
<1>8. ToSet(tree[e]) \subseteq ToSet(documents)
  BY <1>4, <1>6
<1>. QED  BY <1>1, <1>7, <1>8, PoliciesAreLoaded

-----------------------------------------------------------------------------
(* Every step *)

\* No step leaves the types.
LEMMA TypeStep ==
  ASSUME TypeInv, [Next]_vars
  PROVE  TypeInv'
<1> USE DEF TypeInv
<1>1. CASE VisitDir
  <2>1. Tail(todo) \in Seq(ToSet(Entries) \cup {Root})
    BY <1>1 DEF VisitDir
  <2>2. Children(Head(todo)) \in Seq(ToSet(Entries))
    BY ChildrenAre
  <2>3. Children(Head(todo)) \o Tail(todo) \in Seq(ToSet(Entries) \cup {Root})
    <3> DEFINE X == ToSet(Entries)
    <3> HIDE DEF X
    <3>1. \A s \in Seq(X), t \in Seq(X \cup {Root}) : s \o t \in Seq(X \cup {Root})
      OBVIOUS
    <3>2. Tail(todo) \in Seq(X \cup {Root}) /\ Children(Head(todo)) \in Seq(X)
      BY <2>1, <2>2 DEF X
    <3>3. Children(Head(todo)) \o Tail(todo) \in Seq(X \cup {Root})
      BY <3>1, <3>2
    <3>. QED  BY <3>3 DEF X
  <2>4. <<>> \in Seq(ToSet(Entries) \cup {Root})
    OBVIOUS
  <2>. QED  BY <1>1, <2>3, <2>4 DEF VisitDir
<1>2. CASE VisitFile
  <2>1. Tail(todo) \in Seq(ToSet(Entries) \cup {Root}) /\ Head(todo) \in ToSet(Entries) \cup {Root}
    BY <1>2 DEF VisitFile
  <2>2. Head(todo) \in Files
    <3>1. Root.kind = "dir"
      BY DEF Root
    <3>. QED  BY <1>2, <2>1, <3>1 DEF VisitFile, Files
  <2>3. Append(listed, Head(todo)) \in Seq(Files)
    BY <2>2
  <2>. QED  BY <1>2, <2>1, <2>3 DEF VisitFile
<1>3. CASE WalkEnds
  BY <1>3 DEF WalkEnds
<1>4. CASE Read
  <2>1. Tail(listed) \in Seq(Files) /\ Head(listed) \in Files
    BY <1>4 DEF Read
  <2>2. Opens(Head(listed)) \in Seq(Documents) \cup {Garbage, Absent}
    BY <2>1, OpensIsAtRoot, AtRootType
  <2>3. Opens(Head(listed)) \notin {Absent, Garbage} =>
          documents \o Opens(Head(listed)) \in Seq(Documents)
    <3>1. \A s, t \in Seq(Documents) : s \o t \in Seq(Documents)
      BY ConcatItems
    <3>. QED  BY <2>2, <3>1
  <2>. QED  BY <1>4, <2>1, <2>3 DEF Read
<1>5. CASE ReadEnds
  BY <1>5 DEF ReadEnds
<1>6. CASE LoadAndCompile
  <2>1. policies' = Only(documents, Good)
    BY <1>6, NewFsIs DEF LoadAndCompile
  <2>2. Only(documents, Good) \in Seq(Documents)
    BY OnlyType
  <2>3. ToSet(Only(documents, Good)) = ToSet(documents) \cap Good
    BY OnlyMembers
  <2>4. Only(documents, Good) \in Seq(Good)
    BY <2>2, <2>3, ItemsNarrow
  <2>. QED  BY <1>6, <2>1, <2>4 DEF LoadAndCompile
<1>7. ASSUME NEW e \in Files, NEW c \in ContentsOf(e), Edit(e, c) PROVE TypeInv'
  BY <1>7 DEF Edit, ContentsOf
<1>8. CASE UNCHANGED vars
  BY <1>8 DEF vars
<1>. QED  BY <1>1, <1>2, <1>3, <1>4, <1>5, <1>6, <1>7, <1>8, Zenon DEF Next

\* The invariant holds when the load begins.
LEMMA InitInv == Init => IInv
<1> SUFFICES ASSUME Init PROVE IInv
  OBVIOUS
<1>1. DOMAIN tree = Files /\ \A e \in Files : tree[e] \in ContentsOf(e)
  <2>1. tree \in Trees
    BY DEF Init
  <2>. QED  BY <2>1 DEF Trees
<1>2. todo \in Seq(ToSet(Entries) \cup {Root})
  BY DEF Init
<1>3. TypeInv
  BY <1>1, <1>2 DEF Init, TypeInv
<1>. QED  BY <1>3 DEF Init, IInv, WalkInv

\* And every step keeps it.
LEMMA NextInv == IInv /\ [Next]_vars => IInv'
<1> SUFFICES ASSUME IInv, [Next]_vars PROVE IInv'
  OBVIOUS
<1>0. TypeInv /\ TypeInv'
  BY TypeStep DEF IInv
<1>1. CASE VisitDir
  <2>1. stage = "walk" /\ stage' = "walk" /\ documents' = documents /\ documents = <<>> /\ WalkInv
        /\ todo # <<>>
    BY <1>1 DEF VisitDir, IInv
  <2>2. CASE todo = <<Root>> /\ listed = <<>> /\ errs = {}
    <3>1. CASE "." \notin unreadable
      <4>1. WalkAt(0)' /\ errs' = {} /\ 0 \in 0 .. Len(Entries)
        BY <1>0, <1>1, <2>2, <3>1, VisitRootWalks, EntriesType
      <4>. QED  BY <1>0, <2>1, <4>1 DEF IInv, WalkInv
    <3>2. CASE "." \in unreadable
      <4>1. todo' = <<>> /\ Cut'
        BY <1>1, <2>2, <3>2, VisitRootCuts
      <4>. QED  BY <1>0, <2>1, <4>1 DEF IInv, WalkInv
    <3>. QED  BY <3>1, <3>2
  <2>3. ASSUME NEW k \in 0 .. Len(Entries), WalkAt(k), errs = {} PROVE IInv'
    <3>1. CASE Head(todo).name \in unreadable
      <4>1. todo' = <<>> /\ Cut'
        BY <1>0, <1>1, <2>3, <3>1, VisitDirCuts
      <4>. QED  BY <1>0, <2>1, <4>1 DEF IInv, WalkInv
    <3>2. CASE Head(todo).name \notin unreadable
      <4>1. \E p \in 0 .. Len(Entries) : WalkAt(p)' /\ errs' = errs
        BY <1>0, <1>1, <2>3, <3>2, VisitDirWalks
      <4>. QED  BY <1>0, <2>1, <2>3, <4>1 DEF IInv, WalkInv
    <3>. QED  BY <3>1, <3>2
  <2>. QED  BY <2>1, <2>2, <2>3 DEF WalkInv
<1>2. CASE VisitFile
  <2>1. stage = "walk" /\ stage' = "walk" /\ documents' = documents /\ documents = <<>> /\ WalkInv
        /\ todo # <<>> /\ Head(todo).kind # "dir" /\ errs' = errs
    BY <1>2 DEF VisitFile, IInv
  <2>2. todo # <<Root>>
    <3>1. Head(<<Root>>) = Root /\ Root.kind = "dir"
      BY DEF Root
    <3>. QED  BY <2>1, <3>1
  <2>3. ASSUME NEW k \in 0 .. Len(Entries), WalkAt(k), errs = {} PROVE IInv'
    <3>1. \E p \in 0 .. Len(Entries) : WalkAt(p)'
      BY <1>0, <1>2, <2>3, VisitFileWalks
    <3>. QED  BY <1>0, <2>1, <2>3, <3>1 DEF IInv, WalkInv
  <2>. QED  BY <2>1, <2>2, <2>3 DEF WalkInv
<1>3. CASE WalkEnds
  <2>1. ReadInv' /\ stage' = "read"
    BY <1>0, <1>3, WalkEndsReads DEF IInv, WalkEnds
  <2>. QED  BY <1>0, <2>1 DEF IInv
<1>4. CASE Read
  <2>1. ReadInv' /\ stage' = "read"
    BY <1>0, <1>4, ReadReads DEF IInv, Read
  <2>. QED  BY <1>0, <2>1 DEF IInv
<1>5. CASE ReadEnds
  <2>1. ReadInv /\ listed = <<>> /\ stage' = "compile"
    BY <1>5 DEF IInv, ReadEnds
  <2>2. ReadInv' /\ listed' = <<>>
    BY <1>5, <2>1, ReadFrame DEF ReadEnds
  <2>. QED  BY <1>0, <2>1, <2>2 DEF IInv
<1>6. CASE LoadAndCompile
  <2>1. ReadInv /\ listed = <<>> /\ stage' = "done"
    BY <1>6 DEF IInv, LoadAndCompile
  <2>2. LoadIsExact' /\ GoodFilesSurvive' /\ SilentLossOnlyByNamesake'
    BY <1>0, <1>6, <2>1, LoadsExactly, LoadsGoodFiles, LoadsSilently
  <2>. QED  BY <1>0, <2>1, <2>2 DEF IInv
<1>7. ASSUME NEW e \in Files, NEW c \in ContentsOf(e), Edit(e, c) PROVE IInv'
  <2>1. stage \in {"walk", "read"} /\ stage' = stage /\ documents' = documents
    BY <1>7 DEF Edit
  <2>2. CASE stage = "walk"
    <3>1. WalkInv'
      BY <1>0, <1>7, <2>2, EditWalks DEF IInv
    <3>. QED  BY <1>0, <2>1, <2>2, <3>1 DEF IInv
  <2>3. CASE stage = "read"
    <3>1. ReadInv'
      BY <1>0, <1>7, <2>3, EditReads DEF IInv
    <3>. QED  BY <1>0, <2>1, <2>3, <3>1 DEF IInv
  <2>. QED  BY <2>1, <2>2, <2>3
<1>8. CASE UNCHANGED vars
  <2>1. /\ tree' = tree /\ unreadable' = unreadable /\ stage' = stage /\ todo' = todo
        /\ listed' = listed /\ documents' = documents /\ errs' = errs /\ policies' = policies
        /\ edited' = edited
    BY <1>8 DEF vars
  <2>2. WalkInv => WalkInv'
    BY <2>1 DEF WalkInv, WalkAt, Open, Holds, Stays, ListedTo, Lists, Cut, Whole
  <2>3. ReadInv => ReadInv'
    BY <2>1, ReadFrame
  <2>4. /\ LoadIsExact => LoadIsExact'
        /\ GoodFilesSurvive => GoodFilesSurvive'
        /\ SilentLossOnlyByNamesake => SilentLossOnlyByNamesake'
    <3>1. Found' = Found /\ \A e : AtRoot(e)' = AtRoot(e)
      BY <2>1 DEF Found, AtRoot
    <3>2. LoadIsExact => LoadIsExact'
      BY <2>1, <3>1, Zenon DEF LoadIsExact, Undisturbed, Flat
    <3>3. GoodFilesSurvive => GoodFilesSurvive'
      BY <2>1 DEF GoodFilesSurvive, Reached
    <3>4. SilentLossOnlyByNamesake => SilentLossOnlyByNamesake'
      BY <2>1, <3>1 DEF SilentLossOnlyByNamesake
    <3>. QED  BY <3>2, <3>3, <3>4
  <2>. QED  BY <1>0, <2>1, <2>2, <2>3, <2>4 DEF IInv
<1>. QED  BY <1>1, <1>2, <1>3, <1>4, <1>5, <1>6, <1>7, <1>8, Zenon DEF Next

-----------------------------------------------------------------------------
(* The theorems *)

\* The inductive invariant of a load.
LEMMA Invariant == Spec => []IInv
BY InitInv, NextInv, PTL DEF Spec

\* What the pipeline of NewFs computes on any tree of files at the root that nobody
\* touches and that can be read is, in order, the policies of its files, with an
\* error exactly if there is something to report.
THEOREM PipelineIsExact == Spec => []LoadIsExact
<1>1. IInv => LoadIsExact
  BY DEF IInv, LoadIsExact, Undisturbed
<1>. QED  BY <1>1, Invariant, PTL

\* However many files fail, change, come and go during the load, what a file at the
\* root has that stays as it is and that the walk reaches is loaded.
THEOREM OneBadFileCostsItself == Spec => []GoodFilesSurvive
<1>1. IInv => GoodFilesSurvive
  BY DEF IInv, GoodFilesSurvive
<1>. QED  BY <1>1, Invariant, PTL

\* A load without an error misses policies only of files that have a namesake at the
\* root, which entry.Name() opens in their place.
THEOREM NoErrorNoLoss == Spec => []SilentLossOnlyByNamesake
<1>1. IInv => SilentLossOnlyByNamesake
  BY DEF IInv, SilentLossOnlyByNamesake
<1>. QED  BY <1>1, Invariant, PTL

\* Files, lists and documents stay of their types during the load.
THEOREM FileSourceTypes == Spec => []TypeOK
<1>1. IInv => TypeOK
  <2> SUFFICES ASSUME TypeInv PROVE TypeOK
    BY DEF IInv
  <2>1. ToSet(todo) \subseteq ToSet(Entries) \cup {Root}
    BY ItemsOf DEF TypeInv
  <2>2. ToSet(listed) \subseteq Files /\ ToSet(documents) \subseteq Documents
    BY ItemsOf DEF TypeInv
  <2>3. ToSet(policies) \subseteq Good
    BY ItemsOf DEF TypeInv
  <2>. QED  BY <2>1, <2>2, <2>3 DEF TypeInv, TypeOK
<1>. QED  BY <1>1, Invariant, PTL
=============================================================================
