---------------------------- MODULE ImageURIProofs ----------------------------
(***************************************************************************)
(* Proofs about URIFromString (ImageURI.tla) for every input over every    *)
(* alphabet holding the two separators: the error is decided by the        *)
(* number of colons (ParseErrors), and a parsed name holds no "/"          *)
(* (NameWithoutSlash).                                                     *)
(*                                                                         *)
(* Both rest on what strings.Split returns: one piece more than there are  *)
(* separators, and no piece holding the separator.  Split cuts at the j-th *)
(* separator, the one with exactly j separators up to it; that one exists  *)
(* for every j up to their number because counting the separators up to   *)
(* each of them is one-to-one into 1..k, hence onto.                       *)
(***************************************************************************)
EXTENDS ImageURI, FiniteSetTheorems, TLAPS

\* The number of separators c in s up to position x.
Rank(s, c, x) == Cardinality({y \in Positions(s, c) : y <= x})

\* The cut points of Split(s, c): 0, the positions of the separators in
\* order, and one past the end.
Cut(s, c, j) ==
  LET P == Positions(s, c)
      k == Cardinality(P)
  IN IF j = 0 THEN 0
     ELSE IF j = k + 1 THEN Len(s) + 1
     ELSE CHOOSE i \in P : Cardinality({x \in P : x <= i}) = j

\* Split written with the cut points.
LEMMA SplitByCuts ==
  ASSUME NEW s, NEW c
  PROVE  Split(s, c) = [j \in 1..Cardinality(Positions(s, c)) + 1 |->
                          SubSeq(s, Cut(s, c, j - 1) + 1, Cut(s, c, j) - 1)]
BY DEF Split, Cut

\* The separators of a sequence are finitely many, at most its length.
LEMMA PositionsFinite ==
  ASSUME NEW X, NEW s \in Seq(X), NEW c
  PROVE  /\ Positions(s, c) \subseteq 1..Len(s)
         /\ IsFiniteSet(Positions(s, c))
         /\ Cardinality(Positions(s, c)) \in 0..Len(s)
<1>0. Len(s) \in Nat /\ 1 \in Int /\ Len(s) \in Int OBVIOUS
<1>1. Positions(s, c) \subseteq 1..Len(s) BY DEF Positions
<1>2. IsFiniteSet(1..Len(s)) /\ Cardinality(1..Len(s)) = Len(s)
  BY <1>0, FS_Interval
<1>3. IsFiniteSet(Positions(s, c)) /\ Cardinality(Positions(s, c)) <= Len(s)
  BY <1>1, <1>2, FS_Subset
<1>4. Cardinality(Positions(s, c)) \in Nat BY <1>3, FS_CardinalityType
<1>5. QED BY <1>1, <1>3, <1>4

\* Counting the separators up to a separator gives a number in 1..k, and a
\* later separator has a larger count.
LEMMA RankFacts ==
  ASSUME NEW X, NEW s \in Seq(X), NEW c
  PROVE  /\ \A x \in Positions(s, c) :
              Rank(s, c, x) \in 1..Cardinality(Positions(s, c))
         /\ \A x, y \in Positions(s, c) : x < y => Rank(s, c, x) < Rank(s, c, y)
<1> DEFINE P == Positions(s, c)
           U(x) == {y \in P : y <= x}
<1>1. IsFiniteSet(P) /\ P \subseteq 1..Len(s) BY PositionsFinite
<1>2. ASSUME NEW x \in P PROVE Rank(s, c, x) \in 1..Cardinality(P)
  <2>1. IsFiniteSet(U(x)) /\ Cardinality(U(x)) <= Cardinality(P)
    BY <1>1, FS_Subset
  <2>2. U(x) # {} BY <1>1
  <2>3. Cardinality(U(x)) \in Nat /\ Cardinality(U(x)) # 0
    BY <2>1, <2>2, FS_EmptySet, FS_CardinalityType
  <2>4. Cardinality(P) \in Nat BY <1>1, FS_CardinalityType
  <2>5. QED BY <2>1, <2>3, <2>4 DEF Rank
<1>3. ASSUME NEW x \in P, NEW y \in P, x < y PROVE Rank(s, c, x) < Rank(s, c, y)
  <2>1. IsFiniteSet(U(y)) BY <1>1, FS_Subset
  <2>2. U(x) \subseteq U(y) /\ y \in U(y) /\ y \notin U(x) BY <1>1, <1>3
  <2>3. /\ IsFiniteSet(U(x))
        /\ Cardinality(U(x)) <= Cardinality(U(y))
        /\ Cardinality(U(y)) = Cardinality(U(x)) => U(y) = U(x)
    BY <2>1, <2>2, FS_Subset
  <2>4. Cardinality(U(x)) \in Nat /\ Cardinality(U(y)) \in Nat
    BY <2>1, <2>3, FS_CardinalityType
  <2>5. QED BY <2>2, <2>3, <2>4 DEF Rank
<1>4. QED BY <1>2, <1>3

\* Every count in 1..k is the count of some separator.
LEMMA RankOnto ==
  ASSUME NEW X, NEW s \in Seq(X), NEW c,
         NEW j \in 1..Cardinality(Positions(s, c))
  PROVE  \E x \in Positions(s, c) : Rank(s, c, x) = j
<1> DEFINE P == Positions(s, c)
           k == Cardinality(P)
           f == [x \in P |-> Rank(s, c, x)]
<1>1. IsFiniteSet(P) /\ k \in Nat /\ P \subseteq Nat BY PositionsFinite
<1>2. IsFiniteSet(1..k) /\ Cardinality(1..k) = k BY <1>1, FS_Interval
<1>3. f \in [P -> 1..k] BY RankFacts
<1>4. f \in Injection(P, 1..k)
  <2>1. ASSUME NEW x \in P, NEW y \in P, f[x] = f[y] PROVE x = y
    <3>1. x < y => Rank(s, c, x) < Rank(s, c, y) BY RankFacts
    <3>2. y < x => Rank(s, c, y) < Rank(s, c, x) BY RankFacts
    <3>3. Rank(s, c, x) = Rank(s, c, y) BY <2>1
    <3>4. Rank(s, c, x) \in Nat BY RankFacts
    <3>5. QED BY <1>1, <3>1, <3>2, <3>3, <3>4
  <2>2. QED BY <1>3, <2>1 DEF Injection, IsInjective
<1>5. f \in Surjection(P, 1..k) BY <1>1, <1>2, <1>4, FS_Injection
<1>6. QED BY <1>5 DEF Surjection

\* The cut points of Split: 0, then the j-th separator for j in 1..k, then
\* one past the end.
LEMMA CutFacts ==
  ASSUME NEW X, NEW s \in Seq(X), NEW c
  PROVE  /\ Cut(s, c, 0) = 0
         /\ Cut(s, c, Cardinality(Positions(s, c)) + 1) = Len(s) + 1
         /\ \A j \in 1..Cardinality(Positions(s, c)) :
              Cut(s, c, j) \in Positions(s, c) /\ Rank(s, c, Cut(s, c, j)) = j
<1> DEFINE P == Positions(s, c)
           k == Cardinality(P)
<1>1. k \in Nat BY PositionsFinite
<1>2. Cut(s, c, 0) = 0 BY DEF Cut
<1>3. Cut(s, c, k + 1) = Len(s) + 1 BY <1>1 DEF Cut
<1>4. ASSUME NEW j \in 1..k
      PROVE  Cut(s, c, j) \in P /\ Rank(s, c, Cut(s, c, j)) = j
  <2>0. \E x \in P : Rank(s, c, x) = j BY <1>4, RankOnto
  <2>1. \E x \in P : Cardinality({y \in P : y <= x}) = j BY <2>0 DEF Rank
  <2>2. j # 0 /\ j # k + 1 BY <1>1, <1>4
  <2>3. Cut(s, c, j) = CHOOSE i \in P : Cardinality({x \in P : x <= i}) = j
    BY <2>2 DEF Cut
  <2>4. QED BY <2>1, <2>3 DEF Rank
<1>5. QED BY <1>2, <1>3, <1>4

\* strings.Split returns one piece more than there are separators, and no
\* piece holds the separator.
LEMMA SplitFacts ==
  ASSUME NEW X, NEW s \in Seq(X), NEW c
  PROVE  /\ Split(s, c) \in Seq(Seq(X \ {c}))
         /\ Len(Split(s, c)) = Cardinality(Positions(s, c)) + 1
<1> DEFINE P == Positions(s, c)
           k == Cardinality(P)
           R(x) == Rank(s, c, x)
<1>1. k \in 0..Len(s) /\ P \subseteq 1..Len(s) BY PositionsFinite
<1>2. /\ \A x \in P : R(x) \in 1..k
      /\ \A x, y \in P : x < y => R(x) < R(y)
  BY RankFacts
<1>3. /\ Cut(s, c, 0) = 0
      /\ Cut(s, c, k + 1) = Len(s) + 1
      /\ \A j \in 1..k : Cut(s, c, j) \in P /\ R(Cut(s, c, j)) = j
  BY CutFacts
<1>4. ASSUME NEW j \in 1..k + 1
      PROVE  SubSeq(s, Cut(s, c, j - 1) + 1, Cut(s, c, j) - 1) \in Seq(X \ {c})
  <2> DEFINE a == Cut(s, c, j - 1)
             b == Cut(s, c, j)
  <2>1. /\ a \in 0..Len(s)
        /\ j - 1 = 0 => a = 0
        /\ j - 1 # 0 => a \in P /\ R(a) = j - 1
    BY <1>1, <1>3
  <2>2. /\ b \in 1..Len(s) + 1
        /\ j = k + 1 => b = Len(s) + 1
        /\ j # k + 1 => b \in P /\ R(b) = j
    BY <1>1, <1>3
  <2>3. a < b
    <3>1. CASE j - 1 # 0 /\ j # k + 1 BY <1>1, <1>2, <2>1, <2>2, <3>1
    <3>2. CASE j - 1 = 0 BY <2>1, <2>2, <3>2
    <3>3. CASE j = k + 1 BY <2>1, <2>2, <3>3
    <3>4. QED BY <3>1, <3>2, <3>3
  <2>4. ASSUME NEW x \in a + 1..b - 1 PROVE s[x] \in X \ {c}
    <3>1. x \in 1..Len(s) BY <2>1, <2>2
    <3>2. SUFFICES ASSUME s[x] = c PROVE FALSE BY <3>1
    <3>3. x \in P BY <3>1, <3>2 DEF Positions
    <3>4. R(x) \in 1..k BY <1>2, <3>3
    <3>5. R(x) >= j
      <4>1. CASE j - 1 = 0 BY <3>4, <4>1
      <4>2. CASE j - 1 # 0 BY <1>2, <2>1, <3>3, <4>2
      <4>3. QED BY <4>1, <4>2
    <3>6. R(x) < j
      <4>1. CASE j = k + 1 BY <1>1, <3>4, <4>1
      <4>2. CASE j # k + 1 BY <1>2, <2>2, <3>3, <4>2
      <4>3. QED BY <4>1, <4>2
    <3>7. QED BY <3>5, <3>6, <3>4
  <2>5. QED BY <2>1, <2>2, <2>3, <2>4
<1>5. Split(s, c) = [j \in 1..k + 1 |->
                      SubSeq(s, Cut(s, c, j - 1) + 1, Cut(s, c, j) - 1)]
  BY SplitByCuts
<1>6. k + 1 \in Nat BY <1>1
<1>7. Split(s, c) \in [1..k + 1 -> Seq(X \ {c})] BY <1>4, <1>5
<1>8. Split(s, c) \in Seq(Seq(X \ {c})) BY <1>6, <1>7
<1>9. DOMAIN Split(s, c) = 1..k + 1 BY <1>5
<1>10. Len(Split(s, c)) = k + 1 BY <1>6, <1>8, <1>9
<1>11. QED BY <1>8, <1>10

\* An element of a sequence over S is in S.
LEMMA SeqElem ==
  ASSUME NEW S, NEW q \in Seq(S), NEW i \in 1..Len(q)
  PROVE  q[i] \in S
OBVIOUS

\* A sequence over an alphabet without c does not contain c.
LEMMA AvoidsNotContains ==
  ASSUME NEW Y, NEW t \in Seq(Y), NEW c, c \notin Y
  PROVE  ~Contains(t, c)
BY DEF Contains, Positions

(***************************************************************************)
(* URIFromString.                                                          *)
(***************************************************************************)
\* For every input: the error is decided by the number of colons, and a
\* successful parse leaves no "/" in the name.
LEMMA ParseFacts ==
  ASSUME NEW s \in Seq(Chars)
  PROVE  LET r == URIFromString(s)
         IN  /\ (r.err = "empty") = (s = <<>>)
             /\ (r.err = "invalid") = (s # <<>> /\ ColonCount(s) = 0)
             /\ (r.err = "multicolon") = (ColonCount(s) > 1)
             /\ r.err = "none" => ~Contains(r.uri.name, Slash)
<1> DEFINE nameArr == Split(s, Colon)
           repoArr == Split(nameArr[1], Slash)
           r == URIFromString(s)
<1> SUFFICES /\ (r.err = "empty") = (s = <<>>)
             /\ (r.err = "invalid") = (s # <<>> /\ ColonCount(s) = 0)
             /\ (r.err = "multicolon") = (ColonCount(s) > 1)
             /\ r.err = "none" => ~Contains(r.uri.name, Slash)
  OBVIOUS
<1>1. /\ nameArr \in Seq(Seq(Chars \ {Colon}))
      /\ Len(nameArr) = ColonCount(s) + 1
  BY SplitFacts DEF ColonCount
<1>2. ColonCount(s) \in Nat
  BY PositionsFinite DEF ColonCount
<1>2a. Len(nameArr) \in Nat /\ Len(nameArr) = ColonCount(s) + 1 BY <1>1
<1>3. ColonCount(<<>>) = 0
  <2>1. Positions(<<>>, Colon) = {} BY DEF Positions
  <2>2. QED BY <2>1, FS_EmptySet DEF ColonCount
<1>4. CASE s = <<>>
  <2>1. r = Error("empty") BY <1>4 DEF URIFromString
  <2>2. QED BY <1>3, <1>4, <2>1 DEF Error
<1>5. CASE s # <<>> /\ Len(nameArr) = 1
  <2>1. r = Error("invalid") BY <1>5 DEF URIFromString
  <2>2. QED BY <1>2a, <1>2, <1>5, <2>1 DEF Error
<1>6. CASE s # <<>> /\ Len(nameArr) > PartCountAfterSplitByColon
  <2>1. Len(nameArr) # 1 BY <1>2a, <1>6 DEF PartCountAfterSplitByColon
  <2>2. r = Error("multicolon") BY <1>6, <2>1 DEF URIFromString
  <2>3. QED BY <1>2a, <1>2, <1>6, <2>2 DEF Error, PartCountAfterSplitByColon
<1>7. CASE s # <<>> /\ Len(nameArr) = 2
  <2>1. Len(nameArr) = 2 BY <1>7
  <2>2. ColonCount(s) + 1 = 2 BY <1>2a, <2>1
  <2>3. ColonCount(s) = 1 BY <1>2, <2>2
  <2>4. nameArr[1] \in Seq(Chars \ {Colon})
    <3>1. 1 \in 1..Len(nameArr) BY <2>1
    <3>2. QED BY <1>1, <3>1, SeqElem
  <2>5. r.err = "none" /\ ~Contains(r.uri.name, Slash)
    <3>1. CASE Contains(nameArr[1], Slash)
      \* The name is the last piece of nameArr[1] split at "/".
      <4>1. r.err = "none" /\ r.uri.name = repoArr[Len(repoArr)]
        BY <1>7, <3>1 DEF URIFromString, PartCountAfterSplitByColon, MkURI
      <4>2. /\ repoArr \in Seq(Seq((Chars \ {Colon}) \ {Slash}))
            /\ Len(repoArr) = Cardinality(Positions(nameArr[1], Slash)) + 1
        BY <2>4, SplitFacts
      <4>3. Cardinality(Positions(nameArr[1], Slash)) \in Nat
        BY <2>4, PositionsFinite
      <4>4. Len(repoArr) \in 1..Len(repoArr) BY <4>2, <4>3
      <4>5. repoArr[Len(repoArr)] \in Seq((Chars \ {Colon}) \ {Slash}) BY <4>2, <4>4
      <4>6. ~Contains(repoArr[Len(repoArr)], Slash)
        BY <4>5, AvoidsNotContains
      <4>7. QED BY <4>1, <4>6
    <3>2. CASE ~Contains(nameArr[1], Slash)
      \* The name is nameArr[1] itself.
      <4>1. r.err = "none" /\ r.uri.name = nameArr[1]
        BY <1>7, <3>2 DEF URIFromString, PartCountAfterSplitByColon, MkURI
      <4>2. QED BY <3>2, <4>1
    <3>3. QED BY <3>1, <3>2
  <2>6. s # <<>> BY <1>7
  <2>7. (r.err = "empty") = FALSE /\ (s = <<>>) = FALSE BY <2>5, <2>6
  <2>8. (r.err = "invalid") = FALSE /\ (ColonCount(s) = 0) = FALSE BY <2>3, <2>5
  <2>9. (r.err = "multicolon") = FALSE /\ (ColonCount(s) > 1) = FALSE BY <2>3, <2>5
  <2>10. QED BY <2>5, <2>7, <2>8, <2>9
<1>8. QED
  <2>2. \/ s = <<>>
        \/ s # <<>> /\ Len(nameArr) = 1
        \/ s # <<>> /\ Len(nameArr) > PartCountAfterSplitByColon
        \/ s # <<>> /\ Len(nameArr) = 2
    <3>1. Len(nameArr) = 1 \/ Len(nameArr) = 2 \/ Len(nameArr) > 2 BY <1>2a, <1>2
    <3>2. QED BY <3>1, Zenon DEF PartCountAfterSplitByColon
  <2>3. QED BY <1>4, <1>5, <1>6, <1>7, <2>2

(***************************************************************************)
(* The specification.                                                      *)
(***************************************************************************)
\* The result a caller holds is the one URIFromString returns for the input
\* it was given: String and StringNoTag change neither.
UInv == raw \in Inputs /\ parsed = URIFromString(raw)

\* An input is a sequence of characters.
LEMMA InputsAreSeqs == Inputs \subseteq Seq(Chars)
<1> SUFFICES ASSUME NEW s \in Inputs PROVE s \in Seq(Chars)
  OBVIOUS
<1>1. PICK n \in 0..MaxLen : s \in [1..n -> Chars] BY DEF Inputs
<1>2. n \in Nat BY <1>1, URIAssumption DEF URIAssumption
<1>3. QED BY <1>1, <1>2

\* UInv holds initially.
LEMMA UInvInit == Init => UInv
BY DEF Init, UInv

\* Every call keeps UInv.
LEMMA UInvStep == UInv /\ [Next]_vars => UInv'
<1> SUFFICES ASSUME UInv, [Next]_vars PROVE UInv'
  OBVIOUS
<1>1. CASE CallURIFromString BY <1>1 DEF CallURIFromString, UInv
<1>2. CASE CallString BY <1>2 DEF CallString, UInv
<1>3. CASE CallStringNoTag BY <1>3 DEF CallStringNoTag, UInv
<1>4. CASE UNCHANGED vars BY <1>4 DEF vars, UInv
<1>5. QED BY <1>1, <1>2, <1>3, <1>4 DEF Next

\* UInv holds in every reachable state.
LEMMA UInvHolds == Spec => []UInv
BY UInvInit, UInvStep, PTL DEF Spec

\* ParseErrors: in every state, the error URIFromString returned is decided
\* by the number of colons of the input alone (part_002 62-75): empty input,
\* no colon, more than one colon.  So a registry host with a port,
\* "host:5000/app:1", is rejected whatever its length.
THEOREM ParseErrorsHolds == Spec => []ParseErrors
<1>1. UInv => ParseErrors
  <2> SUFFICES ASSUME UInv PROVE ParseErrors
    OBVIOUS
  <2>1. raw \in Seq(Chars) BY InputsAreSeqs DEF UInv
  <2>2. QED BY <2>1, ParseFacts DEF UInv, ParseErrors
<1>2. QED BY <1>1, UInvHolds, PTL

\* NameWithoutSlash: a successful parse never leaves a "/" in the name: the
\* name is the last piece of the part before the colon split at "/"
\* (part_002 79-84), or that part itself when it holds none.
THEOREM NameWithoutSlashHolds == Spec => []NameWithoutSlash
<1>1. UInv => NameWithoutSlash
  <2> SUFFICES ASSUME UInv PROVE NameWithoutSlash
    OBVIOUS
  <2>1. raw \in Seq(Chars) BY InputsAreSeqs DEF UInv
  <2>2. QED BY <2>1, ParseFacts DEF UInv, NameWithoutSlash
<1>2. QED BY <1>1, UInvHolds, PTL

====
