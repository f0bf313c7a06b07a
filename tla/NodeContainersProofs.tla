------------------------- MODULE NodeContainersProofs -------------------------
(***************************************************************************)
(* Proofs about the container list of the node page (NodeContainers.tla)  *)
(* for every set of containers, container states and page sizes: the      *)
(* pages of the slice of node-containers-list.tsx:114 partition the list   *)
(* (PagesPartition).                                                       *)
(*                                                                         *)
(* PagesPartition is about one state, not about steps: it holds for every  *)
(* list of distinct names and every positive page size, so the invariant   *)
(* it needs is only that the list and the page size are of that kind.     *)
(***************************************************************************)
EXTENDS NodeContainers, FiniteSetTheorems, TLAPS

\* The page sizes and the page bound of NodeAssumption, the facts about the
\* constants the proofs use.
LEMMA PageConstants == PageSizes \subseteq Nat \ {0} /\ MaxPage \in Nat
BY NodeAssumption DEF NodeAssumption

USE PageConstants

\* The fields of a pagination the Paginator can set are natural numbers, the
\* page size a positive one.
LEMMA PageFields ==
  ASSUME NEW p, p.pageNumber \in 0..MaxPage, p.pageSize \in PageSizes \cup {10}
  PROVE  p.pageNumber \in Nat /\ p.pageSize \in Nat \ {0}
<1>1. \A x \in 0..MaxPage : x \in Nat OBVIOUS
<1>2. \A x \in PageSizes \cup {10} : x \in Nat \ {0} OBVIOUS
<1>3. QED BY <1>1, <1>2, Zenon

(***************************************************************************)
(* Array.prototype.slice.                                                  *)
(***************************************************************************)
\* slice(a, b) of a sequence, for 0 <= a <= b: its length is what is left
\* of the sequence between a and b, and its j-th element is the (a + j)-th.
LEMMA SliceFacts ==
  ASSUME NEW s \in Seq(Names), NEW a \in Nat, NEW b \in Nat, a <= b
  PROVE  /\ Slice(s, a, b) \in Seq(Names)
         /\ Len(Slice(s, a, b)) = IF (IF b > Len(s) THEN Len(s) ELSE b) > a
                                    THEN (IF b > Len(s) THEN Len(s) ELSE b) - a
                                    ELSE 0
         /\ \A j \in 1..Len(Slice(s, a, b)) : Slice(s, a, b)[j] = s[a + j]
<1>1. CASE (IF b > Len(s) THEN Len(s) ELSE b) <= a
  BY <1>1 DEF Slice
<1>2. CASE (IF b > Len(s) THEN Len(s) ELSE b) > a
  <2> DEFINE e == IF b > Len(s) THEN Len(s) ELSE b
  <2>1. e \in 0..Len(s) BY <1>2
  <2>2. Slice(s, a, b) = SubSeq(s, a + 1, e) BY <1>2 DEF Slice
  <2>3. QED BY <1>2, <2>1, <2>2
<1>3. QED BY <1>1, <1>2

\* No name occurs twice in the sequence s.
Distinct(s) == \A x, y \in 1..Len(s) : s[x] = s[y] => x = y

\* A filtered list is a sequence of names without repetition.
LEMMA ListsAreDistinct ==
  ASSUME NEW s \in Lists
  PROVE  s \in Seq(Names) /\ Distinct(s)
<1>1. PICK n \in 0..Cardinality(Names) : s \in [1..n -> Names]
  BY DEF Lists
<1>2. n \in Nat BY <1>1
<1>3. s \in Seq(Names) /\ Len(s) = n BY <1>1, <1>2
<1>4. QED BY <1>3 DEF Lists, Distinct

\* The slice from lo to lo + sz of a list of distinct names holds its i-th
\* entry exactly when lo < i <= lo + sz.
LEMMA OnSlice ==
  ASSUME NEW s \in Seq(Names), Distinct(s), NEW sz \in Nat, NEW lo \in Nat,
         NEW i \in 1..Len(s)
  PROVE  (\E j \in 1..Len(Slice(s, lo, lo + sz)) : Slice(s, lo, lo + sz)[j] = s[i])
           <=> (lo < i /\ i <= lo + sz)
<1> DEFINE r == Slice(s, lo, lo + sz)
           e == IF lo + sz > Len(s) THEN Len(s) ELSE lo + sz
<1>1. /\ Len(r) = IF e > lo THEN e - lo ELSE 0
      /\ \A j \in 1..Len(r) : r[j] = s[lo + j]
  <2>1. lo + sz \in Nat /\ lo <= lo + sz OBVIOUS
  <2>2. QED BY <2>1, SliceFacts
<1>2. ASSUME NEW j \in 1..Len(r), r[j] = s[i]
      PROVE  lo < i /\ i <= lo + sz
  <2>1. lo + j \in 1..Len(s) /\ j <= sz BY <1>1
  <2>2. lo + j = i BY <1>1, <1>2, <2>1 DEF Distinct
  <2>3. QED BY <2>1, <2>2
<1>3. ASSUME lo < i, i <= lo + sz
      PROVE  \E j \in 1..Len(r) : r[j] = s[i]
  <2>1. i - lo \in 1..Len(r) BY <1>1, <1>3
  <2>2. r[i - lo] = s[i] BY <1>1, <2>1
  <2>3. QED BY <2>1, <2>2
<1>4. QED BY <1>2, <1>3

\* Consecutive rows of a slice are consecutive entries of the list.
LEMMA SliceConsecutive ==
  ASSUME NEW s \in Seq(Names), NEW sz \in Nat, NEW lo \in Nat
  PROVE  \A j \in 1..Len(Slice(s, lo, lo + sz)) - 1 :
           \E i \in 1..Len(s) - 1 : /\ Slice(s, lo, lo + sz)[j] = s[i]
                                    /\ Slice(s, lo, lo + sz)[j + 1] = s[i + 1]
<1> DEFINE r == Slice(s, lo, lo + sz)
           e == IF lo + sz > Len(s) THEN Len(s) ELSE lo + sz
<1>1. /\ Len(r) = IF e > lo THEN e - lo ELSE 0
      /\ \A j \in 1..Len(r) : r[j] = s[lo + j]
  <2>1. lo + sz \in Nat /\ lo <= lo + sz OBVIOUS
  <2>2. QED BY <2>1, SliceFacts
<1>2. SUFFICES ASSUME NEW j \in 1..Len(r) - 1
               PROVE  \E i \in 1..Len(s) - 1 : r[j] = s[i] /\ r[j + 1] = s[i + 1]
  OBVIOUS
<1>3. lo + j \in 1..Len(s) - 1 /\ j \in 1..Len(r) /\ j + 1 \in 1..Len(r)
  BY <1>1
<1>4. r[j] = s[lo + j] /\ r[j + 1] = s[(lo + j) + 1]
  BY <1>1, <1>3
<1>5. QED BY <1>3, <1>4

\* The i-th entry of a list of distinct names is on the page (i - 1) \div sz
\* and on no other.
LEMMA OnePage ==
  ASSUME NEW s \in Seq(Names), Distinct(s), NEW sz \in Nat \ {0},
         NEW i \in 1..Len(s)
  PROVE  Cardinality({k \in 0..Len(s) :
                        \E j \in 1..Len(Slice(s, k * sz, k * sz + sz)) :
                          Slice(s, k * sz, k * sz + sz)[j] = s[i]}) = 1
<1> DEFINE q == (i - 1) \div sz
<1>1. q \in 0..Len(s) /\ q * sz < i /\ i <= q * sz + sz
  BY SMT
<1>2. ASSUME NEW k \in Nat, k * sz < i, i <= k * sz + sz
      PROVE  k = q
  <2>1. CASE k < q
    <3>1. (k + 1) * sz <= q * sz BY <2>1, SMT
    <3>2. QED BY <1>1, <1>2, <3>1, SMT
  <2>2. CASE q < k
    <3>1. (q + 1) * sz <= k * sz BY <2>2, SMT
    <3>2. QED BY <1>1, <1>2, <3>1, SMT
  <2>3. QED BY <2>1, <2>2, <1>1, SMT
<1>3. {k \in 0..Len(s) :
         \E j \in 1..Len(Slice(s, k * sz, k * sz + sz)) :
           Slice(s, k * sz, k * sz + sz)[j] = s[i]} = {q}
  <2>1. ASSUME NEW k \in 0..Len(s)
        PROVE  (\E j \in 1..Len(Slice(s, k * sz, k * sz + sz)) :
                  Slice(s, k * sz, k * sz + sz)[j] = s[i])
               <=> (k * sz < i /\ i <= k * sz + sz)
    <3>1. k * sz \in Nat BY SMT
    <3>2. QED BY <3>1, OnSlice
  <2>2. ASSUME NEW k \in 0..Len(s)
        PROVE  (k * sz < i /\ i <= k * sz + sz) <=> k = q
    BY <1>1, <1>2
  <2>3. QED BY <1>1, <2>1, <2>2
<1>4. QED BY <1>3, FS_Singleton

(***************************************************************************)
(* The type, and the two properties.                                      *)
(***************************************************************************)
\* The page of a pagination with natural numbers is a list of names.
LEMMA RowsAreNames ==
  ASSUME NEW s \in Seq(Names), NEW p, p.pageNumber \in Nat, p.pageSize \in Nat
  PROVE  Rows(s, p) \in Seq(Names)
<1>1. /\ p.pageNumber * p.pageSize \in Nat
      /\ p.pageNumber * p.pageSize + p.pageSize \in Nat
      /\ p.pageNumber * p.pageSize <= p.pageNumber * p.pageSize + p.pageSize
  BY SMT
<1>2. QED BY <1>1, SliceFacts DEF Rows

\* TypeOK holds in the initial states and every step keeps it.
LEMMA TypeInit == Init => TypeOK
BY DEF Init, TypeOK, DefaultPagination, NoCall

LEMMA TypeStep == TypeOK /\ [Next]_vars => TypeOK'
<1> SUFFICES ASSUME TypeOK, [Next]_vars PROVE TypeOK'
  OBVIOUS
<1>1. ASSUME NEW op \in Ops, NEW i \in 1..Cardinality(Names), Click(op, i)
      PROVE  TypeOK'
  <2>1. containers \in Seq(Names) BY ListsAreDistinct DEF TypeOK
  <2>2. pagination.pageNumber \in 0..MaxPage
        /\ pagination.pageSize \in PageSizes \cup {10}
    BY DEF TypeOK
  <2>6. pagination.pageNumber \in Nat /\ pagination.pageSize \in Nat
    BY <2>2, PageFields
  <2>3. Rows(containers, pagination) \in Seq(Names) BY <2>1, <2>6, RowsAreNames
  <2>4. i \in 1..Len(Rows(containers, pagination))
        /\ last' = [op |-> op, name |-> Rows(containers, pagination)[i]]
        /\ UNCHANGED <<containers, cstate, target, pagination>>
    BY <1>1 DEF Click
  <2>5. QED BY <2>3, <2>4 DEF TypeOK
<1>2. CASE \E c \in Names, st \in ContainerStates : Report(c, st)
  BY <1>2 DEF Report, TypeOK
<1>3. CASE \E l \in Lists : Filter(l)
  BY <1>3 DEF Filter, TypeOK
<1>4. CASE \E c \in Names, st \in ContainerStates \cup {None} : SetTarget(c, st)
  BY <1>4 DEF SetTarget, TypeOK
<1>5. CASE \E n \in 0..MaxPage, sz \in PageSizes : SetPagination(n, sz)
  BY <1>5 DEF SetPagination, TypeOK
<1>6. CASE UNCHANGED vars BY <1>6 DEF vars, TypeOK
<1>7. QED BY <1>1, <1>2, <1>3, <1>4, <1>5, <1>6 DEF Next

\* The type of every variable: the filtered list is a list of distinct
\* names and the page size one the Paginator offers or the default.
LEMMA NodeTypeCorrect == Spec => []TypeOK
BY TypeInit, TypeStep, PTL DEF Spec

\* PagesPartition holds in every state of the right type: paging any list of
\* distinct names by any positive page size with the slice bounds of
\* node-containers-list.tsx:114 puts each container on exactly one page and
\* keeps the rows of a page consecutive.
LEMMA PartitionOfType == TypeOK => PagesPartition
<1> SUFFICES ASSUME TypeOK PROVE PagesPartition
  OBVIOUS
<1> DEFINE sz == pagination.pageSize
           n == Len(containers)
<1>1. containers \in Seq(Names) /\ Distinct(containers)
  BY ListsAreDistinct DEF TypeOK
<1>2. sz \in Nat \ {0}
  <2>1. sz \in PageSizes \cup {10} BY DEF TypeOK
  <2>2. pagination.pageNumber \in 0..MaxPage BY DEF TypeOK
  <2>3. QED BY <2>1, <2>2, PageFields
<1>3. \A k \in Nat : Rows(containers, [pageNumber |-> k, pageSize |-> sz])
                       = Slice(containers, k * sz, k * sz + sz)
  BY DEF Rows
<1>4. \A i \in 1..n :
        Cardinality({k \in 0..n : \E j \in 1..Len(Slice(containers, k * sz, k * sz + sz)) :
                                   Slice(containers, k * sz, k * sz + sz)[j] = containers[i]})
        = 1
  BY <1>1, <1>2, OnePage
<1>5. \A k \in 0..n - 1 : \A j \in 1..Len(Slice(containers, k * sz, k * sz + sz)) - 1 :
        \E i \in 1..n - 1 : /\ Slice(containers, k * sz, k * sz + sz)[j] = containers[i]
                            /\ Slice(containers, k * sz, k * sz + sz)[j + 1] = containers[i + 1]
  <2>1. SUFFICES ASSUME NEW k \in 0..n - 1
                 PROVE  \A j \in 1..Len(Slice(containers, k * sz, k * sz + sz)) - 1 :
                          \E i \in 1..n - 1 :
                            /\ Slice(containers, k * sz, k * sz + sz)[j] = containers[i]
                            /\ Slice(containers, k * sz, k * sz + sz)[j + 1] = containers[i + 1]
    OBVIOUS
  <2>2. k * sz \in Nat BY <1>2, SMT
  <2>3. QED BY <1>1, <1>2, <2>2, SliceConsecutive
<1> DEFINE R(k) == Rows(containers, [pageNumber |-> k, pageSize |-> sz])
<1>6. \A i \in 1..n :
        Cardinality({k \in 0..n : \E j \in 1..Len(R(k)) : R(k)[j] = containers[i]}) = 1
  <2>1. SUFFICES ASSUME NEW i \in 1..n
                 PROVE  Cardinality({k \in 0..n : \E j \in 1..Len(R(k)) :
                                                    R(k)[j] = containers[i]}) = 1
    OBVIOUS
  <2>2. {k \in 0..n : \E j \in 1..Len(R(k)) : R(k)[j] = containers[i]}
        = {k \in 0..n : \E j \in 1..Len(Slice(containers, k * sz, k * sz + sz)) :
                          Slice(containers, k * sz, k * sz + sz)[j] = containers[i]}
    BY <1>3
  <2>3. QED BY <1>4, <2>2
<1>7. \A k \in 0..n - 1 : \A j \in 1..Len(R(k)) - 1 :
        \E i \in 1..n - 1 : R(k)[j] = containers[i] /\ R(k)[j + 1] = containers[i + 1]
  <2>1. SUFFICES ASSUME NEW k \in 0..n - 1
                 PROVE  \A j \in 1..Len(R(k)) - 1 : \E i \in 1..n - 1 :
                          R(k)[j] = containers[i] /\ R(k)[j + 1] = containers[i + 1]
    OBVIOUS
  <2>2. k \in Nat BY <1>1
  <2>3. R(k) = Slice(containers, k * sz, k * sz + sz) BY <1>3, <2>2
  <2>4. \A j \in 1..Len(Slice(containers, k * sz, k * sz + sz)) - 1 :
          \E i \in 1..n - 1 :
            /\ Slice(containers, k * sz, k * sz + sz)[j] = containers[i]
            /\ Slice(containers, k * sz, k * sz + sz)[j + 1] = containers[i + 1]
    BY <1>5
  <2>5. QED BY <2>3, <2>4
<1>8. QED BY <1>6, <1>7 DEF PagesPartition

\* PagesPartition: every container of the filtered list is on exactly one
\* page and the rows of a page are consecutive in the list, in every state.
THEOREM PagesPartitionHolds == Spec => []PagesPartition
BY NodeTypeCorrect, PartitionOfType, PTL

====
