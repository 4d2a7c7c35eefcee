--------------------------- MODULE HeymergeProofs ---------------------------
(***************************************************************************)
(* The algebra of Merge for documents of any ids, elements and times: what *)
(* lets heyl commit a whole folded document where other clients commit a   *)
(* delta.                                                                  *)
(***************************************************************************)
EXTENDS Heymerge, Selection, FiniteSetTheorems, TLAPS

\* A document whose elements are in order of time.
IsTimed(document) ==
    /\ document = [d \in DOMAIN document |-> document[d]]
    /\ \A d \in DOMAIN document : document[d].time \in Nat

(* What Merge yields at an id.                                             *)
LEMMA MergeAt ==
  ASSUME NEW acc, NEW next, NEW d
  PROVE  /\ d \in DOMAIN Merge(acc, next) <=> d \in DOMAIN acc \/ d \in DOMAIN next
         /\ d \in DOMAIN acc /\ d \notin DOMAIN next => Merge(acc, next)[d] = acc[d]
         /\ d \in DOMAIN next /\ d \notin DOMAIN acc => Merge(acc, next)[d] = next[d]
         /\ d \in DOMAIN acc /\ d \in DOMAIN next =>
               Merge(acc, next)[d] =
                  IF acc[d].time > next[d].time THEN acc[d] ELSE next[d]
BY DEF Merge

(* A merge of documents is a document.                                     *)
LEMMA MergeTimed ==
  ASSUME NEW acc, NEW next, IsTimed(acc), IsTimed(next)
  PROVE  IsTimed(Merge(acc, next))
<1>1. Merge(acc, next) = [d \in DOMAIN Merge(acc, next) |-> Merge(acc, next)[d]]
  BY DEF Merge
<1>2. ASSUME NEW d \in DOMAIN Merge(acc, next)
      PROVE Merge(acc, next)[d].time \in Nat
  BY <1>2, MergeAt DEF IsTimed
<1> QED BY <1>1, <1>2 DEF IsTimed

(* Folding part of the log first changes nothing: a document that another   *)
(* client folded can stand for the commits it was folded from.             *)
THEOREM MergeIsAssociative ==
  ASSUME NEW a, NEW b, NEW c, IsTimed(a), IsTimed(b), IsTimed(c)
  PROVE  Merge(Merge(a, b), c) = Merge(a, Merge(b, c))
<1> DEFINE left  == Merge(Merge(a, b), c)
           right == Merge(a, Merge(b, c))
<1>1. DOMAIN left = DOMAIN right
  BY MergeAt
<1>2. ASSUME NEW d \in DOMAIN left PROVE left[d] = right[d]
  <2>1. CASE d \in DOMAIN a /\ d \in DOMAIN b /\ d \in DOMAIN c
    <3>1. a[d].time \in Nat /\ b[d].time \in Nat /\ c[d].time \in Nat
      BY <2>1 DEF IsTimed
    <3>2. /\ d \in DOMAIN Merge(a, b) /\ d \in DOMAIN Merge(b, c)
          /\ Merge(a, b)[d] = IF a[d].time > b[d].time THEN a[d] ELSE b[d]
          /\ Merge(b, c)[d] = IF b[d].time > c[d].time THEN b[d] ELSE c[d]
      BY <2>1, MergeAt
    <3>3. /\ left[d] = IF Merge(a, b)[d].time > c[d].time
                       THEN Merge(a, b)[d] ELSE c[d]
          /\ right[d] = IF a[d].time > Merge(b, c)[d].time
                        THEN a[d] ELSE Merge(b, c)[d]
      BY <2>1, <3>2, MergeAt
    <3> QED BY <3>1, <3>2, <3>3
  <2>2. CASE d \notin DOMAIN a
    <3>1. /\ d \in DOMAIN Merge(b, c) /\ right[d] = Merge(b, c)[d]
          /\ d \in DOMAIN b => d \in DOMAIN Merge(a, b) /\ Merge(a, b)[d] = b[d]
          /\ d \notin DOMAIN b => d \notin DOMAIN Merge(a, b)
      BY <2>2, <1>1, MergeAt
    <3> QED BY <3>1, MergeAt
  <2>3. CASE d \in DOMAIN a /\ d \notin DOMAIN b
    <3>1. /\ d \in DOMAIN Merge(a, b) /\ Merge(a, b)[d] = a[d]
          /\ d \in DOMAIN c => d \in DOMAIN Merge(b, c) /\ Merge(b, c)[d] = c[d]
          /\ d \notin DOMAIN c => d \notin DOMAIN Merge(b, c)
      BY <2>3, MergeAt
    <3> QED BY <2>3, <3>1, MergeAt
  <2>4. CASE d \in DOMAIN a /\ d \in DOMAIN b /\ d \notin DOMAIN c
    <3>1. /\ d \in DOMAIN Merge(a, b) /\ left[d] = Merge(a, b)[d]
          /\ d \in DOMAIN Merge(b, c) /\ Merge(b, c)[d] = b[d]
      BY <2>4, MergeAt
    <3> QED BY <2>4, <3>1, MergeAt
  <2> QED BY <2>1, <2>2, <2>3, <2>4
<1>3. left = [d \in DOMAIN left |-> left[d]] /\ right = [d \in DOMAIN right |-> right[d]]
  BY DEF Merge
<1> QED BY <1>1, <1>2, <1>3

(* A commit of the whole document with one entry edited is that edit and     *)
(* nothing else, and is lost when its time is older than the entry's.       *)
THEOREM WholeDocumentIsOneEdit ==
  ASSUME NEW acc, IsTimed(acc), NEW d, NEW e, e.time \in Nat,
         NEW edited, edited = [x \in DOMAIN acc \cup {d} |->
                                 IF x = d THEN e ELSE acc[x]]
  PROVE  Merge(acc, edited) =
           IF d \in DOMAIN acc /\ acc[d].time > e.time THEN acc ELSE edited
<1> DEFINE merged == Merge(acc, edited)
<1>1. DOMAIN merged = DOMAIN edited /\ DOMAIN edited = DOMAIN acc \cup {d}
  <2>1. DOMAIN edited = DOMAIN acc \cup {d}
    OBVIOUS
  <2> QED BY <2>1 DEF Merge
<1>2. \A x \in DOMAIN acc \ {d} : merged[x] = acc[x] /\ edited[x] = acc[x]
  BY MergeAt DEF IsTimed
<1>3. merged[d] = IF d \in DOMAIN acc /\ acc[d].time > e.time THEN acc[d] ELSE e
  BY MergeAt
<1>4. merged = [x \in DOMAIN merged |-> merged[x]]
  BY DEF Merge
<1>5. CASE d \in DOMAIN acc /\ acc[d].time > e.time
  <2>1. DOMAIN merged = DOMAIN acc /\ \A x \in DOMAIN acc : merged[x] = acc[x]
    BY <1>1, <1>2, <1>3, <1>5
  <2>2. acc = [x \in DOMAIN acc |-> acc[x]]
    BY DEF IsTimed
  <2>3. merged = acc
    BY <1>4, <2>1, <2>2
  <2> QED BY <1>5, <2>3
<1>6. CASE ~(d \in DOMAIN acc /\ acc[d].time > e.time)
  <2>1. \A x \in DOMAIN edited : merged[x] = edited[x]
    BY <1>1, <1>2, <1>3, <1>6
  <2>2. merged = edited
    BY <1>1, <1>4, <2>1
  <2> QED BY <1>6, <2>2
<1> QED BY <1>5, <1>6
-----------------------------------------------------------------------------
(* Induction over the commits.  That a set of numbers has a least member     *)
(* comes from finite sets: of the members below each one, some are fewest.   *)

(* A set of natural numbers that is not empty has a least member.          *)
LEMMA Least ==
  ASSUME NEW T \in SUBSET Nat, T # {}
  PROVE  \E n \in T : \A m \in T : n <= m
<1> DEFINE Below(n) == {m \in T : m < n}
           B == {Below(n) : n \in T}
<1>1. \A n \in T : n \in Nat
  OBVIOUS
<1>2. \A n, m : m \in Below(n) <=> m \in T /\ m < n
  OBVIOUS
<1> HIDE DEF Below
<1>3. \A n : Below(n) \in SUBSET Nat
  BY <1>1, <1>2
<1>4. \A n \in T : Below(n) \in FiniteSubsetsOf(Nat)
  <2> TAKE n \in T
  <2>1. \A m \in Below(n) : m \in Nat /\ m < n
    BY <1>1, <1>2
  <2>2. n \in Nat /\ \A m \in Below(n) : m <= n
    BY <1>1, <2>1
  <2>3. IsFiniteSet(Below(n))
    BY <1>3, <2>2, FS_BoundedSetOfNaturals
  <2> QED BY <1>3, <2>3 DEF FiniteSubsetsOf
<1>5. B # {} /\ B \subseteq FiniteSubsetsOf(Nat)
  BY <1>4
<1>6. PICK X \in B : \A Y \in B : ~ (<<Y, X>> \in StrictSubsetOrdering(Nat))
  <2> HIDE DEF B
  <2> QED BY <1>5, FS_StrictSubsetOrderingWellFounded, WFMin
<1>7. PICK n \in T : X = Below(n)
  BY <1>6
<1>8. ASSUME NEW m \in T, m < n PROVE FALSE
  <2>1. Below(m) \in B
    OBVIOUS
  <2>2. m \in X /\ m \notin Below(m)
    BY <1>1, <1>2, <1>7, <1>8
  <2>3. Below(m) \subseteq X
    BY <1>1, <1>2, <1>7, <1>8
  <2>4. <<Below(m), X>> \in StrictSubsetOrdering(Nat)
    BY <1>3, <1>7, <2>2, <2>3 DEF StrictSubsetOrdering
  <2> QED BY <1>6, <2>1, <2>4
<1> QED BY <1>1, <1>8

(* What holds of 0, and of n + 1 if it holds of n, holds of every number.  *)
LEMMA Induction ==
  ASSUME NEW T, 0 \in T, \A n \in Nat : n \in T => n + 1 \in T
  PROVE  Nat \subseteq T
<1> SUFFICES ASSUME Nat \ T # {} PROVE FALSE
  OBVIOUS
<1>1. PICK n \in Nat \ T : \A m \in Nat \ T : n <= m
  BY Least
<1>2. n - 1 \in Nat /\ n - 1 \in T
  BY <1>1
<1> QED BY <1>1, <1>2

-----------------------------------------------------------------------------
(* The fold, a commit at a time.                                            *)

(* f folds the first k commits of a log, one after another.                *)
IsFold(f, k, log) ==
    f = [n \in 0..k |-> IF n = 0 THEN Empty ELSE Merge(f[n - 1], log[n])]

(* What a fold holds after none, and after one more, of the commits.       *)
LEMMA FoldSteps ==
  ASSUME NEW log, NEW k \in Nat, NEW f, IsFold(f, k, log)
  PROVE  /\ DOMAIN f = 0..k
         /\ f[0] = Empty
         /\ \A n \in 1..k : f[n] = Merge(f[n - 1], log[n])
<1> DEFINE Step(n) == IF n = 0 THEN Empty ELSE Merge(f[n - 1], log[n])
<1>1. f = [n \in 0..k |-> Step(n)]
  BY DEF IsFold
<1>2. DOMAIN f = 0..k
  BY <1>1
<1>3. \A n \in 0..k : f[n] = Step(n)
  <2> HIDE DEF Step
  <2> QED BY <1>1
<1> QED BY <1>2, <1>3

(* What makes a fold of a function.                                        *)
LEMMA FoldFromSteps ==
  ASSUME NEW log, NEW k \in Nat, NEW f,
         f = [n \in 0..k |-> f[n]],
         f[0] = Empty, \A n \in 1..k : f[n] = Merge(f[n - 1], log[n])
  PROVE  IsFold(f, k, log)
<1> DEFINE Step(n) == IF n = 0 THEN Empty ELSE Merge(f[n - 1], log[n])
<1>1. ASSUME NEW n \in 0..k PROVE f[n] = Step(n)
  <2>1. CASE n = 0
    BY <2>1
  <2>2. CASE n # 0
    <3>1. n \in 1..k
      BY <2>2
    <3> QED BY <2>2, <3>1
  <2> QED BY <2>1, <2>2
<1> HIDE DEF Step
<1>2. f = [n \in 0..k |-> Step(n)]
  BY <1>1
<1> QED BY <1>2 DEF IsFold, Step

(* Any number of commits can be folded.                                    *)
LEMMA FoldExists ==
  ASSUME NEW log, NEW k \in Nat
  PROVE  \E f : IsFold(f, k, log)
<1> DEFINE T == {n \in Nat : \E f : IsFold(f, n, log)}
<1>1. 0 \in T
  <2> DEFINE f == [n \in 0..0 |-> Empty]
  <2>1. f = [n \in 0..0 |-> f[n]] /\ f[0] = Empty /\ 1..0 = {}
    OBVIOUS
  <2> HIDE DEF f
  <2>2. IsFold(f, 0, log)
    BY <2>1, FoldFromSteps
  <2> QED BY <2>2
<1>2. ASSUME NEW n \in Nat, n \in T PROVE n + 1 \in T
  <2>1. PICK f : IsFold(f, n, log)
    BY <1>2
  <2> DEFINE g == [m \in 0..n + 1 |-> IF m <= n THEN f[m]
                                      ELSE Merge(f[n], log[n + 1])]
  <2>2. /\ g = [m \in 0..n + 1 |-> g[m]]
        /\ \A m \in 0..n : g[m] = f[m]
        /\ g[n + 1] = Merge(f[n], log[n + 1])
    OBVIOUS
  <2> HIDE DEF g
  <2>3. /\ f[0] = Empty
        /\ \A m \in 1..n : f[m] = Merge(f[m - 1], log[m])
    BY <2>1, FoldSteps
  <2>4. \A m \in 1..n + 1 : g[m] = Merge(g[m - 1], log[m])
    <3> TAKE m \in 1..n + 1
    <3>1. CASE m = n + 1
      <4>1. m - 1 = n /\ n \in 0..n
        BY <3>1
      <4> QED BY <2>2, <3>1, <4>1
    <3>2. CASE m # n + 1
      <4>1. m \in 0..n /\ m - 1 \in 0..n /\ m \in 1..n
        BY <3>2
      <4> QED BY <2>2, <2>3, <4>1
    <3> QED BY <3>1, <3>2
  <2>5. g[0] = Empty /\ n + 1 \in Nat
    <3>1. 0 \in 0..n /\ n + 1 \in Nat
      OBVIOUS
    <3> QED BY <2>2, <2>3, <3>1
  <2>6. IsFold(g, n + 1, log)
    BY <2>2, <2>4, <2>5, FoldFromSteps
  <2> QED BY <2>5, <2>6
<1> HIDE DEF T
<1>3. Nat \subseteq T
  BY <1>1, <1>2, Induction
<1> QED BY <1>3 DEF T

(* Two folds agree as far as their logs do.                                *)
LEMMA FoldsAgree ==
  ASSUME NEW one, NEW two, NEW j \in Nat, NEW k \in Nat, NEW f, NEW g,
         IsFold(f, j, one), IsFold(g, k, two),
         NEW n \in Nat, n <= j, n <= k, \A i \in 1..n : one[i] = two[i]
  PROVE  f[n] = g[n]
<1> DEFINE T == {m \in Nat : m <= n => f[m] = g[m]}
<1>1. 0 \in T
  BY FoldSteps
<1>2. ASSUME NEW m \in Nat, m \in T PROVE m + 1 \in T
  <2> SUFFICES ASSUME m + 1 <= n PROVE f[m + 1] = g[m + 1]
    OBVIOUS
  <2>1. m + 1 \in 1..j /\ m + 1 \in 1..k /\ m + 1 \in 1..n
    OBVIOUS
  <2>2. f[m] = g[m]
    BY <1>2
  <2>3. f[m + 1] = Merge(f[m + 1 - 1], one[m + 1]) /\ g[m + 1] = Merge(g[m + 1 - 1], two[m + 1])
    BY <2>1, FoldSteps
  <2> QED BY <2>1, <2>2, <2>3
<1> HIDE DEF T
<1>3. Nat \subseteq T
  BY <1>1, <1>2, Induction
<1> QED BY <1>3 DEF T

(* Fold takes the last of what a fold of the whole log holds.              *)
LEMMA FoldIs ==
  ASSUME NEW log, Len(log) \in Nat, NEW f, IsFold(f, Len(log), log)
  PROVE  Fold(log) = f[Len(log)]
<1> DEFINE g == CHOOSE h : IsFold(h, Len(log), log)
<1>1. IsFold(g, Len(log), log)
  <2>1. \E h : IsFold(h, Len(log), log)
    BY FoldExists
  <2> QED BY <2>1
<1>2. Fold(log) = g[Len(log)]
  BY DEF Fold, IsFold
<1> HIDE DEF g
<1> QED BY <1>1, <1>2, FoldsAgree

(* A vault of no commits is empty.                                         *)
LEMMA FoldOfNone == Fold(<<>>) = Empty
<1>1. Len(<<>>) = 0 /\ Len(<<>>) \in Nat
  OBVIOUS
<1>2. PICK f : IsFold(f, 0, <<>>)
  BY FoldExists
<1>3. Fold(<<>>) = f[0]
  BY <1>1, <1>2, FoldIs
<1> QED BY <1>2, <1>3, FoldSteps

(* A commit is merged into the fold of those before it.                    *)
LEMMA FoldOfAppend ==
  ASSUME NEW S, NEW log \in Seq(S), NEW d \in S
  PROVE  Fold(Append(log, d)) = Merge(Fold(log), d)
<1> DEFINE n == Len(log)
           longer == Append(log, d)
<1>1. n \in Nat /\ Len(longer) = n + 1 /\ longer[n + 1] = d
      /\ \A i \in 1..n : log[i] = longer[i]
  OBVIOUS
<1>2. PICK f : IsFold(f, n, log)
  BY <1>1, FoldExists
<1> HIDE DEF n, longer
<1>3. PICK g : IsFold(g, n + 1, longer)
  <2>1. n + 1 \in Nat
    BY <1>1
  <2> QED BY <2>1, FoldExists
<1>4. Fold(log) = f[n] /\ Fold(longer) = g[n + 1]
  BY <1>1, <1>2, <1>3, FoldIs DEF n
<1>5. f[n] = g[n]
  BY <1>1, <1>2, <1>3, FoldsAgree
<1>6. g[n + 1] = Merge(g[n + 1 - 1], longer[n + 1])
  BY <1>1, <1>3, FoldSteps
<1> QED BY <1>1, <1>4, <1>5, <1>6 DEF longer
-----------------------------------------------------------------------------
(* What the fold comes to, for every log.                                   *)

\* A log whose commits are in order of time.
IsLog(log) ==
    /\ Len(log) \in Nat
    /\ DOMAIN log = 1..Len(log)
    /\ \A i \in 1..Len(log) : IsTimed(log[i])

\* Of the first n commits, the i-th has the latest version of d.
Wins(log, n, d, i) ==
    /\ i \in 1..n
    /\ d \in DOMAIN log[i]
    /\ \A j \in 1..n : d \in DOMAIN log[j] =>
          \/ log[j][d].time < log[i][d].time
          \/ log[j][d].time = log[i][d].time /\ j <= i

(* Any fold of a log is a document, of elements that win.                  *)
LEMMA FoldHoldsWinners ==
  ASSUME NEW log, IsLog(log), NEW f, IsFold(f, Len(log), log)
  PROVE  \A n \in 0..Len(log) :
            /\ IsTimed(f[n])
            /\ \A i \in 1..n : DOMAIN log[i] \subseteq DOMAIN f[n]
            /\ \A d \in DOMAIN f[n] : \E i \in 1..n :
                  Wins(log, n, d, i) /\ f[n][d] = log[i][d]
<1> DEFINE P(n) ==
      /\ IsTimed(f[n])
      /\ \A i \in 1..n : DOMAIN log[i] \subseteq DOMAIN f[n]
      /\ \A d \in DOMAIN f[n] : \E i \in 1..n :
            Wins(log, n, d, i) /\ f[n][d] = log[i][d]
    T == {n \in Nat : n <= Len(log) => P(n)}
<1>1. Len(log) \in Nat
  BY DEF IsLog
<1>2. /\ f[0] = Empty
      /\ \A n \in 1..Len(log) : f[n] = Merge(f[n - 1], log[n])
  BY <1>1, FoldSteps
<1>3. 0 \in T
  <2>1. DOMAIN Empty = {} /\ IsTimed(Empty)
    BY DEF Empty, IsTimed
  <2>2. 1..0 = {}
    OBVIOUS
  <2> QED BY <1>2, <2>1, <2>2
<1>4. ASSUME NEW n \in Nat, n \in T PROVE n + 1 \in T
  <2> SUFFICES ASSUME n + 1 <= Len(log) PROVE P(n + 1)
    OBVIOUS
  <2>1. P(n)
    BY <1>1, <1>4
  <2> DEFINE acc == f[n]
             new == log[n + 1]
  <2>2. f[n + 1] = Merge(acc, new)
    <3>1. n + 1 \in 1..Len(log) /\ n + 1 - 1 = n
      BY <1>1
    <3> QED BY <1>2, <3>1
  <2>3. IsTimed(acc) /\ IsTimed(new)
    <3>1. n + 1 \in 1..Len(log)
      BY <1>1
    <3> QED BY <2>1, <3>1 DEF IsLog
  <2>4. IsTimed(f[n + 1])
    BY <2>2, <2>3, MergeTimed
  <2>5. ASSUME NEW i \in 1..(n + 1), NEW d \in DOMAIN log[i] PROVE d \in DOMAIN f[n + 1]
    <3>1. i \in 1..n \/ i = n + 1
      OBVIOUS
    <3>2. d \in DOMAIN acc \/ d \in DOMAIN new
      BY <2>1, <2>5, <3>1
    <3> QED BY <2>2, <3>2, MergeAt
  <2>6. ASSUME NEW d \in DOMAIN f[n + 1]
        PROVE  \E i \in 1..(n + 1) :
                  Wins(log, n + 1, d, i) /\ f[n + 1][d] = log[i][d]
    <3>0. \A j \in 1..(n + 1) : j \in Nat /\ (j \in 1..n \/ j = n + 1)
      OBVIOUS
    <3>1. CASE d \in DOMAIN acc /\ d \notin DOMAIN new
      <4>1. PICK i \in 1..n : Wins(log, n, d, i) /\ acc[d] = log[i][d]
        BY <2>1, <3>1
      <4>2. f[n + 1][d] = log[i][d]
        BY <2>2, <3>1, <4>1, MergeAt
      <4>3. Wins(log, n + 1, d, i)
        BY <3>0, <3>1, <4>1 DEF Wins
      <4> QED BY <4>2, <4>3, i \in 1..(n + 1)
    <3>2. CASE d \notin DOMAIN acc /\ d \in DOMAIN new
      <4>1. f[n + 1][d] = log[n + 1][d]
        BY <2>2, <3>2, MergeAt
      <4>2. \A j \in 1..n : d \notin DOMAIN log[j]
        BY <2>1, <3>2
      <4>3. Wins(log, n + 1, d, n + 1)
        BY <3>0, <3>2, <4>2 DEF Wins
      <4> QED BY <4>1, <4>3, n + 1 \in 1..(n + 1)
    <3>3. CASE d \in DOMAIN acc /\ d \in DOMAIN new
      <4>1. PICK i \in 1..n : Wins(log, n, d, i) /\ acc[d] = log[i][d]
        BY <2>1, <3>3
      <4>2. f[n + 1][d] = IF acc[d].time > new[d].time THEN acc[d] ELSE new[d]
        BY <2>2, <3>3, MergeAt
      <4>3. acc[d].time \in Nat /\ new[d].time \in Nat
        BY <2>3, <3>3 DEF IsTimed
      <4>4. \A j \in 1..n : d \in DOMAIN log[j] => log[j][d].time \in Nat
        <5>1. \A j \in 1..n : j \in 1..Len(log)
          BY <1>1
        <5> QED BY <5>1 DEF IsLog, IsTimed
      <4>5. CASE acc[d].time > new[d].time
        <5>1. f[n + 1][d] = log[i][d] /\ log[n + 1][d].time < log[i][d].time
          BY <4>1, <4>2, <4>3, <4>5
        <5>2. Wins(log, n + 1, d, i)
          BY <3>0, <4>1, <5>1 DEF Wins
        <5> QED BY <5>1, <5>2, i \in 1..(n + 1)
      <4>6. CASE ~(acc[d].time > new[d].time)
        <5>1. f[n + 1][d] = log[n + 1][d] /\ log[i][d].time <= log[n + 1][d].time
          BY <4>1, <4>2, <4>3, <4>6
        <5>2. \A j \in 1..n : d \in DOMAIN log[j] =>
                 log[j][d].time <= log[i][d].time
          BY <4>1, <4>3, <4>4 DEF Wins
        <5>3. \A j \in 1..n : d \in DOMAIN log[j] =>
                 \/ log[j][d].time < log[n + 1][d].time
                 \/ log[j][d].time = log[n + 1][d].time
          BY <4>1, <4>3, <4>4, <5>1, <5>2
        <5>4. Wins(log, n + 1, d, n + 1)
          <6>1. n + 1 \in 1..Len(log) /\ d \in DOMAIN log[n + 1]
            BY <3>0, <3>3
          <6>2. ASSUME NEW j \in 1..(n + 1), j # n + 1
                PROVE  j \in 1..n /\ j < n + 1
            BY <6>2
          <6> QED BY <5>3, <6>1, <6>2 DEF Wins
        <5> QED BY <5>1, <5>4, n + 1 \in 1..(n + 1)
      <4> QED BY <4>5, <4>6
    <3> QED BY <2>2, <2>6, <3>1, <3>2, <3>3, MergeAt
  <2> QED BY <2>4, <2>5, <2>6
<1> HIDE DEF T
<1>5. Nat \subseteq T
  BY <1>3, <1>4, Induction
<1>6. \A n \in 0..Len(log) : P(n)
  <2> HIDE DEF P
  <2> QED BY <1>1, <1>5 DEF T
<1> QED BY <1>6

(* No two commits have the latest version.                                 *)
LEMMA OneWinner ==
  ASSUME NEW log, IsLog(log), NEW d, NEW i, NEW j,
         Wins(log, Len(log), d, i), Wins(log, Len(log), d, j)
  PROVE  i = j
<1>1. Len(log) \in Nat /\ log[i][d].time \in Nat /\ log[j][d].time \in Nat
  BY DEF IsLog, IsTimed, Wins
<1>2. i \in Nat /\ j \in Nat
  BY <1>1 DEF Wins
<1> QED BY <1>1, <1>2 DEF Wins

(* What the fold of a log is: of each element ever committed, the version   *)
(* with the greatest updateTime, the later commit's among equals            *)
(* (heyl-vault/src/merge.rs), however many commits there are.              *)
THEOREM FoldIsLatestOfAll ==
  ASSUME NEW log, IsLog(log)
  PROVE  Fold(log) = Latest(log)
<1> DEFINE n == Len(log)
           ids == UNION {DOMAIN log[i] : i \in DOMAIN log}
<1>1. n \in Nat /\ DOMAIN log = 1..n
  BY DEF IsLog
<1>2. PICK f : IsFold(f, n, log)
  BY <1>1, FoldExists
<1>3. Fold(log) = f[n]
  BY <1>1, <1>2, FoldIs
<1>4. /\ IsTimed(f[n])
      /\ \A i \in 1..n : DOMAIN log[i] \subseteq DOMAIN f[n]
      /\ \A d \in DOMAIN f[n] : \E i \in 1..n :
            Wins(log, n, d, i) /\ f[n][d] = log[i][d]
  <2>1. n \in 0..n
    BY <1>1
  <2> QED BY <1>2, <2>1, FoldHoldsWinners
<1>5. DOMAIN f[n] = ids
  BY <1>1, <1>4 DEF Wins
<1>6. ASSUME NEW d \in DOMAIN f[n] PROVE f[n][d] = log[Winner(log, d)][d]
  <2>1. PICK i \in 1..n : Wins(log, n, d, i) /\ f[n][d] = log[i][d]
    BY <1>4
  <2> DEFINE holding == {k \in DOMAIN log : d \in DOMAIN log[k]}
             Best(k) == \A j \in holding :
                          \/ log[j][d].time < log[k][d].time
                          \/ log[j][d].time = log[k][d].time /\ j <= k
  <2>2. \A k : k \in holding /\ Best(k) <=> Wins(log, n, d, k)
    BY <1>1 DEF Wins
  <2>3. Winner(log, d) = CHOOSE k \in holding : Best(k)
    BY DEF Winner
  <2> HIDE DEF holding, Best
  <2>4. Winner(log, d) \in holding /\ Best(Winner(log, d))
    BY <2>1, <2>2, <2>3
  <2>5. Winner(log, d) = i
    BY <2>1, <2>2, <2>4, OneWinner
  <2> QED BY <2>1, <2>5
<1>7. f[n] = [d \in DOMAIN f[n] |-> f[n][d]]
  BY <1>4 DEF IsTimed
<1> HIDE DEF ids
<1>8. f[n] = [d \in ids |-> log[Winner(log, d)][d]]
  BY <1>5, <1>6, <1>7
<1> QED BY <1>3, <1>8 DEF Latest, ids

(* What is latest of an element is what some commit has of it.             *)
LEMMA LatestIsCommitted ==
  ASSUME NEW log, IsLog(log), NEW d \in DOMAIN Latest(log)
  PROVE  \E i \in DOMAIN log : d \in DOMAIN log[i] /\ Latest(log)[d] = log[i][d]
<1>1. Len(log) \in Nat /\ DOMAIN log = 1..Len(log) /\ Len(log) \in 0..Len(log)
  BY DEF IsLog
<1>2. PICK f : IsFold(f, Len(log), log)
  BY <1>1, FoldExists
<1>3. Latest(log) = f[Len(log)]
  BY <1>1, <1>2, FoldIs, FoldIsLatestOfAll
<1>4. \E i \in 1..Len(log) :
         Wins(log, Len(log), d, i) /\ f[Len(log)][d] = log[i][d]
  BY <1>1, <1>2, <1>3, FoldHoldsWinners
<1> QED BY <1>1, <1>3, <1>4 DEF Wins

(* Without a tie between them, two documents merge to the same either way. *)
LEMMA MergeCommutes ==
  ASSUME NEW a, NEW b, IsTimed(a), IsTimed(b),
         \A d \in DOMAIN a \cap DOMAIN b : a[d].time # b[d].time
  PROVE  Merge(a, b) = Merge(b, a)
<1>1. DOMAIN Merge(a, b) = DOMAIN Merge(b, a)
  BY MergeAt
<1>2. ASSUME NEW d \in DOMAIN Merge(a, b) PROVE Merge(a, b)[d] = Merge(b, a)[d]
  <2>1. CASE d \in DOMAIN a /\ d \in DOMAIN b
    <3>1. a[d].time \in Nat /\ b[d].time \in Nat /\ a[d].time # b[d].time
      BY <2>1 DEF IsTimed
    <3> QED BY <2>1, <3>1, MergeAt
  <2>2. CASE ~(d \in DOMAIN a /\ d \in DOMAIN b)
    BY <1>2, <2>2, MergeAt
  <2> QED BY <2>1, <2>2
<1>3. /\ Merge(a, b) = [d \in DOMAIN Merge(a, b) |-> Merge(a, b)[d]]
      /\ Merge(b, a) = [d \in DOMAIN Merge(b, a) |-> Merge(b, a)[d]]
  BY DEF Merge
<1> QED BY <1>1, <1>2, <1>3

(* Two neighbouring commits without a tie could have come the other way     *)
(* round: in a log of any length the order matters only in ties.           *)
THEOREM OrderIsOnlyForTies ==
  ASSUME NEW log, IsLog(log), NEW i \in 1..(Len(log) - 1),
         \A d \in DOMAIN log[i] \cap DOMAIN log[i + 1] :
             log[i][d].time # log[i + 1][d].time,
         NEW swapped, Len(swapped) = Len(log),
         swapped[i] = log[i + 1], swapped[i + 1] = log[i],
         \A k \in 1..Len(log) : k \notin {i, i + 1} => swapped[k] = log[k]
  PROVE  Fold(swapped) = Fold(log)
<1> DEFINE n == Len(log)
<1>1. n \in Nat /\ i \in Nat /\ i - 1 \in Nat /\ i + 1 <= n /\ i <= n
      /\ i \in 1..n /\ i + 1 \in 1..n
  BY DEF IsLog
<1>2. PICK f : IsFold(f, n, log)
  BY <1>1, FoldExists
<1>3. PICK g : IsFold(g, n, swapped)
  BY <1>1, FoldExists
<1>4. Fold(log) = f[n] /\ Fold(swapped) = g[n]
  BY <1>1, <1>2, <1>3, FoldIs
<1>5. \A k \in 1..n : f[k] = Merge(f[k - 1], log[k]) /\ g[k] = Merge(g[k - 1], swapped[k])
  BY <1>1, <1>2, <1>3, FoldSteps
<1>6. f[i - 1] = g[i - 1]
  <2>1. \A k \in 1..(i - 1) : log[k] = swapped[k]
    BY <1>1
  <2>2. i - 1 <= n
    BY <1>1
  <2> HIDE DEF n
  <2> QED BY <1>1, <1>2, <1>3, <2>1, <2>2, FoldsAgree
<1>7. f[i + 1] = g[i + 1]
  <2> DEFINE a == f[i - 1]
             b == log[i]
             c == log[i + 1]
  <2>1. IsTimed(a) /\ IsTimed(b) /\ IsTimed(c)
    <3>1. i - 1 \in 0..n
      BY <1>1
    <3> QED BY <1>1, <1>2, <3>1, FoldHoldsWinners DEF IsLog
  <2>2. i + 1 - 1 = i
    BY <1>1
  <2>3. f[i + 1] = Merge(Merge(a, b), c)
    BY <1>1, <1>5, <2>2
  <2>4. g[i + 1] = Merge(Merge(a, c), b)
    BY <1>1, <1>5, <1>6, <2>2
  <2>5. Merge(b, c) = Merge(c, b)
    BY <2>1, MergeCommutes
  <2> HIDE DEF a, b, c
  <2> QED BY <2>1, <2>3, <2>4, <2>5, MergeIsAssociative
<1> DEFINE T == {k \in Nat : i + 1 <= k /\ k <= n => f[k] = g[k]}
<1>8. 0 \in T
  BY <1>1
<1>9. ASSUME NEW k \in Nat, k \in T PROVE k + 1 \in T
  <2> SUFFICES ASSUME i + 1 <= k + 1, k + 1 <= n PROVE f[k + 1] = g[k + 1]
    OBVIOUS
  <2>1. CASE k = i
    BY <1>7, <2>1
  <2>2. CASE k # i
    <3>1. i + 1 <= k /\ k <= n /\ k + 1 \in 1..n /\ k + 1 - 1 = k
          /\ k + 1 \notin {i, i + 1}
      BY <1>1, <2>2
    <3>2. f[k] = g[k]
      BY <1>9, <3>1
    <3>3. swapped[k + 1] = log[k + 1]
      BY <3>1
    <3> QED BY <1>5, <3>1, <3>2, <3>3
  <2> QED BY <2>1, <2>2
<1> HIDE DEF T
<1>10. Nat \subseteq T
  BY <1>8, <1>9, Induction
<1>11. f[n] = g[n]
  BY <1>1, <1>10 DEF T
<1> QED BY <1>4, <1>11

-----------------------------------------------------------------------------
\* The places up to i that are picked.
Places(seq, S, i) == {j \in 1..i : seq[j] \in S}

(* Their number is finite, grows with the place, and grows at each of them. *)
LEMMA PlacesCount ==
  ASSUME NEW seq, NEW S, NEW i \in Nat
  PROVE  /\ IsFiniteSet(Places(seq, S, i))
         /\ Cardinality(Places(seq, S, i)) \in Nat
         /\ Cardinality(Places(seq, S, 0)) = 0
         /\ Cardinality(Places(seq, S, i + 1)) =
               IF seq[i + 1] \in S THEN Cardinality(Places(seq, S, i)) + 1
               ELSE Cardinality(Places(seq, S, i))
<1>1. IsFiniteSet(1..i)
  BY FS_Interval
<1>2. Places(seq, S, i) \in SUBSET (1..i)
  BY DEF Places
<1>3. IsFiniteSet(Places(seq, S, i)) /\ Cardinality(Places(seq, S, i)) \in Nat
  <2>1. IsFiniteSet(Places(seq, S, i))
    BY <1>1, <1>2, FS_Subset
  <2> QED BY <2>1, FS_CardinalityType
<1>4. Cardinality(Places(seq, S, 0)) = 0
  <2>1. 1..0 = {}
    OBVIOUS
  <2>2. Places(seq, S, 0) = {}
    BY <2>1 DEF Places
  <2> QED BY <2>2, FS_EmptySet
<1>5. CASE seq[i + 1] \in S
  <2>1. Places(seq, S, i + 1) = Places(seq, S, i) \cup {i + 1}
    BY <1>5 DEF Places
  <2>2. i + 1 \notin Places(seq, S, i)
    BY DEF Places
  <2>3. Cardinality(Places(seq, S, i) \cup {i + 1}) = Cardinality(Places(seq, S, i)) + 1
    BY <1>3, <2>2, FS_AddElement
  <2> QED BY <1>3, <1>4, <1>5, <2>1, <2>3
<1>6. CASE seq[i + 1] \notin S
  <2>1. Places(seq, S, i + 1) = Places(seq, S, i)
    BY <1>6 DEF Places
  <2> QED BY <1>3, <1>4, <1>6, <2>1
<1> QED BY <1>5, <1>6

LEMMA PlacesGrow ==
  ASSUME NEW seq, NEW S, NEW i \in Nat, NEW j \in Nat, i < j
  PROVE  /\ Cardinality(Places(seq, S, i)) <= Cardinality(Places(seq, S, j))
         /\ seq[j] \in S =>
              Cardinality(Places(seq, S, i)) < Cardinality(Places(seq, S, j))
<1>1. Places(seq, S, i) \in SUBSET Places(seq, S, j)
  BY DEF Places
<1>2. IsFiniteSet(Places(seq, S, j)) /\ Cardinality(Places(seq, S, j)) \in Nat
      /\ Cardinality(Places(seq, S, i)) \in Nat
  BY PlacesCount
<1>3. Cardinality(Places(seq, S, i)) <= Cardinality(Places(seq, S, j))
  BY <1>1, <1>2, FS_Subset
<1>4. ASSUME seq[j] \in S
      PROVE  Cardinality(Places(seq, S, i)) # Cardinality(Places(seq, S, j))
  <2>1. j \in Places(seq, S, j) /\ j \notin Places(seq, S, i)
    BY <1>4 DEF Places
  <2> QED BY <1>1, <1>2, <2>1, FS_Subset
<1> QED BY <1>2, <1>3, <1>4

(* Each number up to the whole has its place.                              *)
LEMMA PlaceExists ==
  ASSUME NEW seq, NEW S, NEW n \in Nat,
         NEW k \in 1..Cardinality(Places(seq, S, n))
  PROVE  \E i \in 1..n : seq[i] \in S /\ Cardinality(Places(seq, S, i)) = k
<1> DEFINE count(i) == Cardinality(Places(seq, S, i))
           T == {i \in 0..n : k <= count(i)}
<1>1. \A i \in Nat : count(i) \in Nat
  BY PlacesCount
<1>2. k \in Nat /\ 1 <= k /\ k <= count(n) /\ count(0) = 0
  BY <1>1, PlacesCount
<1> HIDE DEF count
<1>3. T \in SUBSET Nat /\ n \in T
  BY <1>2
<1>4. PICK i \in T : \A m \in T : i <= m
  <2> HIDE DEF T
  <2> QED BY <1>3, Least
<1>5. i \in 0..n /\ k <= count(i) /\ i # 0
  BY <1>2, <1>4
<1>6. i - 1 \in Nat /\ i - 1 \in 0..n /\ i \in 1..n /\ (i - 1) + 1 = i
  BY <1>5
<1>7. ~(k <= count(i - 1))
  BY <1>4, <1>6
<1>8. count(i) = IF seq[i] \in S THEN count(i - 1) + 1 ELSE count(i - 1)
  <2>1. count((i - 1) + 1) =
           IF seq[(i - 1) + 1] \in S THEN count(i - 1) + 1 ELSE count(i - 1)
    BY <1>6, PlacesCount DEF count
  <2> QED BY <1>6, <2>1
<1>9. count(i - 1) \in Nat /\ count(i) \in Nat
  BY <1>1, <1>6
<1>10. seq[i] \in S /\ count(i) = k
  BY <1>2, <1>5, <1>7, <1>8, <1>9
<1> QED BY <1>6, <1>10 DEF count

(* What is picked: members of the sequence in the set, each that there is, *)
(* and none twice if the sequence has none twice.                          *)
LEMMA PickIs ==
  ASSUME NEW T, NEW seq \in Seq(T), NEW S
  PROVE  /\ Pick(seq, S) \in Seq(T \cap S)
         /\ \A k \in DOMAIN Pick(seq, S) : \E i \in DOMAIN seq : Pick(seq, S)[k] = seq[i]
         /\ \A i \in DOMAIN seq : seq[i] \in S =>
               \E k \in DOMAIN Pick(seq, S) : Pick(seq, S)[k] = seq[i]
         /\ (\A i, j \in DOMAIN seq : seq[i] = seq[j] => i = j) =>
               \A k, l \in DOMAIN Pick(seq, S) :
                  Pick(seq, S)[k] = Pick(seq, S)[l] => k = l
<1> DEFINE n == Len(seq)
           count(i) == Cardinality(Places(seq, S, i))
           at(k) == CHOOSE i \in DOMAIN seq : seq[i] \in S /\ count(i) = k
           picked == Pick(seq, S)
<1>1. n \in Nat /\ DOMAIN seq = 1..n /\ \A i \in 1..n : seq[i] \in T
  OBVIOUS
<1>2. picked = [k \in 1..count(n) |-> seq[at(k)]]
  BY DEF Pick, Places
<1>3. count(n) \in Nat
  BY <1>1, PlacesCount
<1>4. ASSUME NEW k \in 1..count(n)
      PROVE  at(k) \in 1..n /\ seq[at(k)] \in S /\ count(at(k)) = k
  <2>1. \E i \in 1..n : seq[i] \in S /\ count(i) = k
    BY <1>1, PlaceExists
  <2> HIDE DEF count
  <2> QED BY <1>1, <2>1
<1>5. DOMAIN picked = 1..count(n) /\ \A k \in 1..count(n) : picked[k] = seq[at(k)]
  BY <1>2
<1>6. ASSUME NEW i \in 1..n, seq[i] \in S
      PROVE  count(i) \in 1..count(n) /\ at(count(i)) = i
  <2>1. i - 1 \in Nat /\ (i - 1) + 1 = i /\ i \in Nat /\ i <= n
    BY <1>1
  <2>2. count(i - 1) \in Nat /\ count(i) \in Nat /\ count((i - 1) + 1) = count(i - 1) + 1
    BY <1>6, <2>1, PlacesCount
  <2>3. count(i) <= count(n)
    <3>1. CASE i = n
      BY <2>2, <3>1
    <3>2. CASE i # n
      <4>0. n \in Nat
        BY <1>1
      <4>1. i < n /\ i \in Nat
        <5> HIDE DEF n, count, at, picked
        <5> QED BY <2>1, <3>2, <4>0
      <4>2. count(i) <= count(n)
        BY <2>2, <1>3, <4>0, <4>1, PlacesGrow
      <4> QED BY <4>2
    <3> QED BY <3>1, <3>2
  <2>4. count(i) \in 1..count(n)
    <3> HIDE DEF count
    <3> QED BY <1>3, <2>1, <2>2, <2>3
  <2>5. at(count(i)) \in 1..n /\ seq[at(count(i))] \in S /\ count(at(count(i))) = count(i)
    BY <1>4, <2>4
  <2>6. \A j \in 1..n : seq[j] \in S /\ count(j) = count(i) => j = i
    <3> SUFFICES ASSUME NEW j \in 1..n, seq[j] \in S, count(j) = count(i), j # i
                 PROVE  FALSE
      OBVIOUS
    <3>1. j \in Nat /\ i \in Nat /\ count(j) \in Nat /\ (i < j \/ j < i)
      BY <1>1, <2>1, PlacesCount
    <3>2. CASE i < j
      <4>1. count(i) < count(j)
        BY <3>1, <3>2, PlacesGrow
      <4> HIDE DEF count
      <4> QED BY <3>1, <4>1
    <3>3. CASE j < i
      <4>1. count(j) < count(i)
        BY <1>6, <3>1, <3>3, PlacesGrow
      <4> HIDE DEF count
      <4> QED BY <3>1, <4>1
    <3> QED BY <3>1, <3>2, <3>3
  <2> HIDE DEF count, at
  <2> QED BY <2>4, <2>5, <2>6
<1> HIDE DEF count, at, picked
<1>7. picked \in Seq(T \cap S)
  <2>1. \A k \in 1..count(n) : seq[at(k)] \in T \cap S
    BY <1>1, <1>4
  <2>2. picked \in [1..count(n) -> T \cap S]
    BY <1>2, <2>1
  <2> QED BY <1>3, <2>2
<1>8. \A k \in DOMAIN picked : \E i \in DOMAIN seq : picked[k] = seq[i]
  BY <1>1, <1>4, <1>5
<1>9. \A i \in DOMAIN seq : seq[i] \in S => \E k \in DOMAIN picked : picked[k] = seq[i]
  BY <1>1, <1>5, <1>6
<1>10. ASSUME \A i, j \in DOMAIN seq : seq[i] = seq[j] => i = j,
              NEW k \in DOMAIN picked, NEW l \in DOMAIN picked, picked[k] = picked[l]
       PROVE  k = l
  BY <1>1, <1>4, <1>5, <1>10
<1> QED BY <1>7, <1>8, <1>9, <1>10 DEF picked
=============================================================================
