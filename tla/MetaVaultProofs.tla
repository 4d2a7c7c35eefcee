--------------------------- MODULE MetaVaultProofs ---------------------------
(***************************************************************************)
(* The META vault keeps its types, implements DeviceRegistry and, while    *)
(* the clock is steady, loses no edit, for any number of devices, other    *)
(* clients, processes, commits and readings of the clock.                  *)
(***************************************************************************)
EXTENDS MetaVault, HeymergeProofs

-----------------------------------------------------------------------------
(* The inductive invariants.                                               *)

Documents == UNION {[ids -> Entry] : ids \in SUBSET All}

Typed ==
    /\ commits \in Seq(Documents)
    /\ Len(commits) <= MaxCommits
    /\ Registry \in Documents
    /\ live \subseteq All
    /\ clock \in 1..MaxClock
    /\ pc \in [Writers -> {"idle", "sync", "open", "commit", "rejected"}]
    /\ op \in [Writers -> Ops \cup {"none"}]
    /\ dev \in [Writers -> Devices \cup {Absent}]
    /\ known \in [Writers -> SUBSET All]
    /\ base \in [Writers -> 0..MaxCommits]
    /\ doc \in [Writers -> Documents]

\* A writer at work has an edit and a device.  A device that is being added has
\* no entry yet and belongs to one writer.
Working ==
    \A w \in Writers :
        /\ base[w] <= Len(commits)
        /\ pc[w] # "idle" => op[w] # "none" /\ dev[w] \in Devices
        /\ op[w] = "register" =>
              /\ dev[w] \in Devices \ DOMAIN Registry
              /\ \A v \in Writers : op[v] = "register" /\ dev[v] = dev[w] => v = w

\* The document is the vault as it was read, with the writer's own entry edited.
IsEdit(w, registry, d, document) ==
    /\ document = [x \in DOMAIN registry \cup {d} |->
                      IF x = d THEN document[d] ELSE registry[x]]
    /\ document[d] \in Entry
    /\ op[w] = "register" => ~document[d].deleted
    /\ op[w] # "register" => d \in DOMAIN registry
    /\ op[w] = "rename" => document[d].deleted = registry[d].deleted
    /\ op[w] = "tombstone" =>
          document[d].deleted /\ document[d].name = registry[d].name

\* While the guard would be accepted, what was read is what is there.
GuardedEdits ==
    \A w \in Writers : pc[w] = "commit" /\ base[w] = Len(commits) =>
        IsEdit(w, Registry, dev[w], doc[w])

\* heyl tombstones entries of heyl's devices only.
ForeignKept == \A d \in Foreign \cap DOMAIN Registry : ~Registry[d].deleted

VaultInv == Typed /\ Working /\ GuardedEdits /\ ForeignKept

\* No entry is from the future, and an edit is no older than what it edits.
ClockInv ==
    /\ \A d \in DOMAIN Registry : Registry[d].time <= clock
    /\ \A w \in Writers : pc[w] = "commit" => doc[w][dev[w]].time \in 1..clock
    /\ \A w \in Writers :
          pc[w] = "commit" /\ base[w] = Len(commits) /\ dev[w] \in DOMAIN Registry
             => Registry[dev[w]].time <= doc[w][dev[w]].time

-----------------------------------------------------------------------------
(* Documents.                                                              *)

(* What it is to be a document.                                            *)
LEMMA DocumentIs ==
  ASSUME NEW f
  PROVE  f \in Documents <=>
            /\ f = [x \in DOMAIN f |-> f[x]]
            /\ DOMAIN f \subseteq All
            /\ \A x \in DOMAIN f : f[x] \in Entry
<1>1. ASSUME f \in Documents
      PROVE  /\ f = [x \in DOMAIN f |-> f[x]]
             /\ DOMAIN f \subseteq All
             /\ \A x \in DOMAIN f : f[x] \in Entry
  <2>1. PICK ids \in SUBSET All : f \in [ids -> Entry]
    BY <1>1 DEF Documents
  <2> QED BY <2>1
<1>2. ASSUME f = [x \in DOMAIN f |-> f[x]], DOMAIN f \subseteq All,
             \A x \in DOMAIN f : f[x] \in Entry
      PROVE  f \in Documents
  <2>1. DOMAIN f \in SUBSET All /\ f \in [DOMAIN f -> Entry]
    BY <1>2
  <2> QED BY <2>1 DEF Documents
<1> QED BY <1>1, <1>2

(* Its times are in order.                                                 *)
LEMMA DocumentTimed ==
  ASSUME NEW f \in Documents
  PROVE  IsTimed(f)
<1>1. \A x \in DOMAIN f : f[x].time \in Nat
  BY DocumentIs DEF Entry
<1> QED BY <1>1, DocumentIs DEF IsTimed

(* The empty document is one, and two merge to one.                        *)
LEMMA EmptyDocument == Empty \in Documents /\ DOMAIN Empty = {}
<1>1. DOMAIN Empty = {} /\ Empty = [x \in DOMAIN Empty |-> Empty[x]]
  BY DEF Empty
<1> QED BY <1>1, DocumentIs

LEMMA MergeDocument ==
  ASSUME NEW a \in Documents, NEW b \in Documents
  PROVE  Merge(a, b) \in Documents
<1>1. Merge(a, b) = [x \in DOMAIN Merge(a, b) |-> Merge(a, b)[x]]
  BY DEF Merge
<1>2. ASSUME NEW x \in DOMAIN Merge(a, b)
      PROVE  x \in All /\ Merge(a, b)[x] \in Entry
  <2>1. (x \in DOMAIN a => x \in All /\ a[x] \in Entry)
        /\ (x \in DOMAIN b => x \in All /\ b[x] \in Entry)
    BY DocumentIs
  <2> QED BY <2>1, <1>2, MergeAt
<1>3. DOMAIN Merge(a, b) \subseteq All
  BY <1>2
<1> QED BY <1>1, <1>2, <1>3, DocumentIs

(* A commit merges into the vault.                                         *)
LEMMA CommitMerges ==
  ASSUME Typed, NEW document \in Documents, Commits(document)
  PROVE  /\ Registry' = Merge(Registry, document)
         /\ Registry' \in Documents
         /\ commits' \in Seq(Documents)
         /\ Len(commits') = Len(commits) + 1
         /\ Len(commits) \in Nat
         /\ Len(commits') <= MaxCommits
<1>1. commits \in Seq(Documents) /\ commits' = Append(commits, document)
      /\ Len(commits) < MaxCommits /\ MaxCommits \in Nat
  BY BoundsAssumption DEF Typed, Commits
<1>2. Registry' = Merge(Registry, document)
  BY <1>1, FoldOfAppend DEF Registry
<1>3. Registry' \in Documents
  BY <1>2, MergeDocument DEF Typed
<1>4. /\ commits' \in Seq(Documents) /\ Len(commits') = Len(commits) + 1
      /\ Len(commits) \in Nat
  BY <1>1
<1> QED BY <1>1, <1>2, <1>3, <1>4

(* The whole vault with one entry edited does to it what that entry does.  *)
LEMMA EditMerges ==
  ASSUME NEW registry \in Documents, NEW document \in Documents, NEW d,
         document = [x \in DOMAIN registry \cup {d} |->
                        IF x = d THEN document[d] ELSE registry[x]]
  PROVE  Merge(registry, document) =
            IF d \in DOMAIN registry /\ registry[d].time > document[d].time
            THEN registry ELSE document
<1>1. d \in DOMAIN document
  BY Zenon
<1>2. document[d].time \in Nat
  BY <1>1, DocumentTimed DEF IsTimed
<1> HIDE DEF Documents
<1> QED BY <1>2, DocumentTimed, WholeDocumentIsOneEdit

-----------------------------------------------------------------------------
(* The name that is chosen.                                                *)

(* Of one number more than there are names, one is free.                   *)
LEMMA OneIsFree ==
  ASSUME NEW T, IsFiniteSet(T)
  PROVE  \E n \in 1..Cardinality(T) + 1 : n \notin T
<1> DEFINE k == Cardinality(T)
<1>1. k \in Nat
  BY FS_CardinalityType
<1>2. Cardinality(1..k + 1) = k + 1
  <2>1. 1 \in Int /\ k + 1 \in Int /\ ~(1 > k + 1)
    BY <1>1
  <2> HIDE DEF k
  <2> QED BY <2>1, <1>1, FS_Interval
<1>3. ASSUME \A n \in 1..k + 1 : n \in T PROVE FALSE
  <2>1. 1..k + 1 \in SUBSET T
    BY <1>3
  <2>2. Cardinality(1..k + 1) <= k
    BY <2>1, FS_Subset
  <2> HIDE DEF k
  <2> QED BY <2>2, <1>1, <1>2
<1> QED BY <1>3

(* The counter never passes the number of devices, and the name is free of  *)
(* every live device that the sync knew.                                    *)
LEMMA NameIsFree ==
  ASSUME NEW registry \in Documents, NEW sessions, NEW d \in All \ DOMAIN registry
  PROVE  /\ Disambiguated(registry, sessions) \in Names
         /\ \A x \in DOMAIN registry \cap sessions :
               ~registry[x].deleted =>
                  registry[x].name # Disambiguated(registry, sessions)
<1> DEFINE bearers == {x \in DOMAIN registry \cap sessions : ~registry[x].deleted}
           taken   == {registry[x].name : x \in bearers}
           free    == {n \in 1..Cardinality(taken) + 1 : n \notin taken}
           names   == [x \in bearers |-> registry[x].name]
<1>1. Disambiguated(registry, sessions) = Min(free)
  BY DEF Disambiguated
<1>2. bearers \in SUBSET (All \ {d}) /\ All \ {d} \in SUBSET All
  BY DocumentIs
<1>3. IsFiniteSet(All) /\ IsFiniteSet(All \ {d})
      /\ Cardinality(All \ {d}) = Cardinality(All) - 1 /\ Cardinality(All) \in Nat
  <2>1. IsFiniteSet(All)
    BY IdsAssumption
  <2> QED BY <2>1, FS_RemoveElement, FS_CardinalityType
<1>4. IsFiniteSet(bearers) /\ Cardinality(bearers) <= Cardinality(All) - 1
      /\ Cardinality(bearers) \in Nat
  <2> HIDE DEF bearers
  <2> QED BY <1>2, <1>3, FS_Subset, FS_CardinalityType
<1>5. names \in Surjection(bearers, taken)
  <2>1. names \in [bearers -> taken]
    OBVIOUS
  <2>2. \A t \in taken : \E x \in bearers : names[x] = t
    OBVIOUS
  <2> HIDE DEF names, taken, bearers
  <2> QED BY <2>1, <2>2 DEF Surjection
<1>6. IsFiniteSet(taken) /\ Cardinality(taken) <= Cardinality(All) - 1
      /\ Cardinality(taken) \in Nat
  <2> HIDE DEF names, taken, bearers
  <2> QED BY <1>3, <1>4, <1>5, FS_Surjection, FS_CardinalityType
<1>7. free \in SUBSET Nat /\ free # {}
  <2> HIDE DEF taken
  <2>1. \E n \in 1..Cardinality(taken) + 1 : n \notin taken
    BY <1>6, OneIsFree
  <2> QED BY <2>1, <1>6
<1>8. Min(free) \in free
  <2>1. \E n \in free : \A m \in free : n <= m
    <3> HIDE DEF free
    <3> QED BY <1>7, Least
  <2> HIDE DEF free
  <2> QED BY <2>1 DEF Min
<1>9. Min(free) \in 1..Cardinality(taken) + 1 /\ Min(free) \notin taken
  BY <1>8
<1>10. Min(free) \in Names
  <2> HIDE DEF taken, free
  <2> QED BY <1>3, <1>6, <1>9 DEF Names
<1>11. \A x \in bearers : registry[x].name # Min(free)
  BY <1>9
<1> QED BY <1>1, <1>10, <1>11
(* What `Open` writes down is an edit, and stamped with the time of day.    *)
LEMMA OpenEdits ==
  ASSUME VaultInv, NEW w \in Writers, NEW n \in Names \cup {1}, pc[w] = "open",
         op[w] = "rename" => n \in Names,
         op[w] = "register" \/ dev[w] \in DOMAIN Registry
  PROVE  LET document == Edited(Registry, w, n) IN
         /\ document \in Documents
         /\ IsEdit(w, Registry, dev[w], document)
         /\ document[dev[w]].time = clock
<1> DEFINE d == dev[w]
           registry == Registry
           document == Edited(registry, w, n)
<1>1. /\ registry \in Documents
      /\ d \in All /\ clock \in 1..MaxClock
      /\ op[w] = "register" => d \in All \ DOMAIN registry
      /\ op[w] \in {"register", "rename", "tombstone"}
  <2>1. op[w] # "none" /\ op[w] \in Ops \cup {"none"} /\ d \in Devices
    BY DEF VaultInv, Typed, Working
  <2> QED BY <2>1, OpsAssumption DEF VaultInv, Typed, Working, All
<1>2. /\ registry = [x \in DOMAIN registry |-> registry[x]]
      /\ DOMAIN registry \subseteq All
      /\ \A x \in DOMAIN registry : registry[x] \in Entry
  BY <1>1, DocumentIs
<1>3. op[w] # "register" => d \in DOMAIN registry
  OBVIOUS
<1> HIDE DEF registry
<1>4. ASSUME NEW e \in Entry,
             document = [x \in DOMAIN registry \cup {d} |->
                            IF x = d THEN e ELSE registry[x]]
      PROVE  /\ document \in Documents
             /\ document[d] = e
             /\ document = [x \in DOMAIN registry \cup {d} |->
                               IF x = d THEN document[d] ELSE registry[x]]
  <2> HIDE DEF document, d
  <2>1. DOMAIN document = DOMAIN registry \cup {d} /\ document[d] = e
    BY <1>4
  <2>2. \A x \in DOMAIN document :
           document[x] = IF x = d THEN e ELSE registry[x]
    BY <1>4
  <2>3. document = [x \in DOMAIN document |-> document[x]]
    BY <1>4, <2>1, Zenon
  <2>4. DOMAIN document \subseteq All
    BY <1>1, <1>2, <2>1
  <2>5. \A x \in DOMAIN document : document[x] \in Entry
    BY <1>2, <2>1, <2>2
  <2>6. document \in Documents
    BY <2>3, <2>4, <2>5, DocumentIs
  <2> QED BY <1>4, <2>1, <2>6
<1>5. CASE op[w] = "register"
  <2> DEFINE e == [name |-> Disambiguated(registry, known[w]),
                   deleted |-> FALSE, time |-> clock]
  <2>1. e \in Entry
    BY <1>1, <1>5, NameIsFree DEF Entry
  <2>2. document = With(registry, d, e)
    BY <1>5 DEF Edited
  <2>3. document = [x \in DOMAIN registry \cup {d} |->
                       IF x = d THEN e ELSE registry[x]]
    <3> HIDE DEF e, d, document
    <3> QED BY <2>2 DEF With
  <2>4. document[d] = e /\ e.deleted = FALSE /\ e.time = clock
    BY <1>4, <2>1, <2>3
  <2> HIDE DEF e, document
  <2> QED BY <1>4, <1>5, <2>1, <2>3, <2>4 DEF IsEdit, document, registry
<1>6. CASE op[w] = "rename"
  <2> DEFINE e == [registry[d] EXCEPT !.name = n, !.time = clock]
  <2>1. d \in DOMAIN registry /\ registry[d] \in Entry /\ n \in Names
    BY <1>2, <1>3, <1>6
  <2>2. e \in Entry /\ e.deleted = registry[d].deleted /\ e.time = clock
    BY <1>1, <2>1 DEF Entry
  <2>3. document = [registry EXCEPT ![d].name = n, ![d].time = clock]
    BY <1>6 DEF Edited
  <2>4. document = [x \in DOMAIN registry \cup {d} |->
                       IF x = d THEN e ELSE registry[x]]
    <3> HIDE DEF d, document
    <3>1. document = [registry EXCEPT ![d] = e]
      BY <1>2, <2>1, <2>3
    <3> HIDE DEF e
    <3> QED BY <1>2, <2>1, <3>1
  <2> HIDE DEF e, document
  <2> QED BY <1>4, <1>6, <2>1, <2>2, <2>4 DEF IsEdit, document, registry
<1>7. CASE op[w] = "tombstone"
  <2> DEFINE e == [registry[d] EXCEPT !.deleted = TRUE, !.time = clock]
  <2>1. d \in DOMAIN registry /\ registry[d] \in Entry
    BY <1>2, <1>3, <1>7
  <2>2. e \in Entry /\ e.name = registry[d].name /\ e.time = clock
        /\ e.deleted = TRUE
    BY <1>1, <2>1 DEF Entry
  <2>3. document = [registry EXCEPT ![d].deleted = TRUE, ![d].time = clock]
    BY <1>7 DEF Edited
  <2>4. document = [x \in DOMAIN registry \cup {d} |->
                       IF x = d THEN e ELSE registry[x]]
    <3> HIDE DEF d, document
    <3>1. document = [registry EXCEPT ![d] = e]
      BY <1>2, <2>1, <2>3
    <3> HIDE DEF e
    <3> QED BY <1>2, <2>1, <3>1
  <2> HIDE DEF e, document
  <2> QED BY <1>4, <1>7, <2>1, <2>2, <2>4 DEF IsEdit, document, registry
<1> QED BY <1>1, <1>5, <1>6, <1>7
-----------------------------------------------------------------------------
(* The steps.                                                              *)

(* What a step does to the vault: nothing, an accepted commit of a writer's *)
(* edit, or the entry of another client.                                    *)
LEMMA CommitEffect ==
  ASSUME VaultInv, NEW w \in Writers, Commit(w)
  PROVE  /\ IsEdit(w, Registry, dev[w], doc[w])
         /\ doc[w] \in Documents
         /\ dev[w] \in Devices
         /\ Registry' = IF /\ dev[w] \in DOMAIN Registry
                           /\ Registry[dev[w]].time > doc[w][dev[w]].time
                        THEN Registry ELSE doc[w]
         /\ Registry' \in Documents
         /\ commits' \in Seq(Documents)
         /\ Len(commits') = Len(commits) + 1
         /\ Len(commits) \in Nat
         /\ Len(commits') <= MaxCommits
<1>1. IsEdit(w, Registry, dev[w], doc[w]) /\ dev[w] \in Devices
  BY DEF VaultInv, GuardedEdits, Working, Commit
<1>2. Typed /\ Registry \in Documents /\ doc[w] \in Documents /\ Commits(doc[w])
  BY DEF VaultInv, Typed, Commit
<1>3. Merge(Registry, doc[w]) = IF /\ dev[w] \in DOMAIN Registry
                                  /\ Registry[dev[w]].time > doc[w][dev[w]].time
                               THEN Registry ELSE doc[w]
  BY <1>1, <1>2, EditMerges DEF IsEdit
<1> QED BY <1>1, <1>2, <1>3, CommitMerges

LEMMA ForeignEffect ==
  ASSUME VaultInv, NEW d \in Foreign, NEW n \in Names, ForeignCommit(d, n)
  PROVE  \E e \in Entry :
         /\ ~e.deleted /\ e.time = clock
         /\ Registry' = With(Registry, d, e) \/ Registry' = Registry
         /\ Registry' \in Documents
         /\ commits' \in Seq(Documents)
         /\ Len(commits') = Len(commits) + 1
         /\ Len(commits) \in Nat
         /\ Len(commits') <= MaxCommits
<1> DEFINE e == [name |-> n, deleted |-> FALSE, time |-> clock]
           delta == With(Empty, d, e)
<1>1. e \in Entry /\ ~e.deleted /\ e.time = clock
  BY DEF Entry, VaultInv, Typed
<1>2. Typed /\ Registry \in Documents /\ Commits(delta) /\ d \in All
  BY DEF VaultInv, Typed, ForeignCommit, All
<1> HIDE DEF e
<1>3. DOMAIN delta = {d} /\ delta[d] = e /\ delta = [x \in DOMAIN delta |-> delta[x]]
  BY EmptyDocument DEF With
<1>4. delta \in Documents
  <2> HIDE DEF delta
  <2> QED BY <1>1, <1>2, <1>3, DocumentIs
<1> HIDE DEF delta
<1>5. Merge(Registry, delta) = With(Registry, d, e) \/ Merge(Registry, delta) = Registry
  <2> DEFINE merged == Merge(Registry, delta)
             replaced == With(Registry, d, e)
  <2>1. DOMAIN merged = DOMAIN Registry \cup {d}
    BY <1>3, MergeAt
  <2>2. \A x \in DOMAIN Registry : x # d => merged[x] = Registry[x]
    BY <1>3, MergeAt
  <2>3. /\ merged = [x \in DOMAIN merged |-> merged[x]]
        /\ Registry = [x \in DOMAIN Registry |-> Registry[x]]
    BY <1>2, DocumentIs DEF Merge
  <2>4. /\ DOMAIN replaced = DOMAIN Registry \cup {d}
        /\ replaced = [x \in DOMAIN replaced |-> replaced[x]]
        /\ \A x \in DOMAIN Registry \cup {d} :
              replaced[x] = IF x = d THEN e ELSE Registry[x]
    BY DEF With
  <2> HIDE DEF merged, replaced
  <2>5. CASE merged[d] = e
    <3>1. \A x \in DOMAIN merged : merged[x] = replaced[x]
      BY <2>1, <2>2, <2>4, <2>5
    <3>2. merged = replaced
      BY <2>1, <2>3, <2>4, <3>1
    <3> QED BY <3>2 DEF merged, replaced
  <2>6. CASE merged[d] # e
    <3>1. d \in DOMAIN Registry /\ merged[d] = Registry[d]
      BY <1>3, <2>1, <2>6, MergeAt DEF merged
    <3>2. merged = Registry
      BY <2>1, <2>2, <2>3, <3>1
    <3> QED BY <3>2 DEF merged
  <2> QED BY <2>5, <2>6
<1> QED BY <1>1, <1>2, <1>4, <1>5, CommitMerges

(* The vault begins empty.                                                 *)
LEMMA InitRegistry == ASSUME Init PROVE Registry = Empty
<1>1. <<>> \in Seq(Documents) /\ commits = Append(<<>>, Empty)
  BY DEF Init
<1>2. Registry = Merge(Fold(<<>>), Empty)
  BY <1>1, EmptyDocument, FoldOfAppend DEF Registry
<1>3. DOMAIN Merge(Empty, Empty) = {}
  BY EmptyDocument DEF Merge
<1>4. Merge(Empty, Empty) = Empty
  BY <1>3 DEF Merge, Empty
<1> QED BY <1>2, <1>4, FoldOfNone

(* The invariants hold in an empty account.                                *)
LEMMA VaultInit == Init => VaultInv /\ ClockInv
<1> SUFFICES ASSUME Init PROVE VaultInv /\ ClockInv
  OBVIOUS
<1>1. commits \in Seq(Documents) /\ Len(commits) = 1
  BY EmptyDocument DEF Init
<1>2. Registry = Empty
  BY InitRegistry
<1>3. Typed
  BY <1>1, <1>2, EmptyDocument, BoundsAssumption DEF Init, Typed
<1>4. Working /\ GuardedEdits /\ ForeignKept /\ ClockInv
  BY <1>1, <1>2, EmptyDocument
     DEF Init, Working, GuardedEdits, ForeignKept, ClockInv
<1> QED BY <1>3, <1>4 DEF VaultInv

(* A writer that ends keeps the types and has no edit any more.            *)
LEMMA ExitForgets ==
  ASSUME Typed, NEW w \in Writers, Exit(w)
  PROVE  /\ pc' \in [Writers -> {"idle", "sync", "open", "commit", "rejected"}]
         /\ op' \in [Writers -> Ops \cup {"none"}]
         /\ dev' \in [Writers -> Devices \cup {Absent}]
         /\ known' \in [Writers -> SUBSET All]
         /\ base' \in [Writers -> 0..MaxCommits]
         /\ doc' \in [Writers -> Documents]
         /\ live' \subseteq All /\ clock' \in 1..MaxClock
         /\ pc'[w] = "idle" /\ op'[w] = "none" /\ base'[w] = 0
         /\ \A v \in Writers \ {w} :
               /\ pc'[v] = pc[v] /\ op'[v] = op[v] /\ dev'[v] = dev[v]
               /\ known'[v] = known[v] /\ base'[v] = base[v] /\ doc'[v] = doc[v]
<1>1. 0 \in 0..MaxCommits /\ Empty \in Documents
  BY BoundsAssumption, EmptyDocument
<1> HIDE DEF Documents
<1> QED BY <1>1 DEF Typed, Exit

(* Every step keeps the vault's invariant.                                 *)
LEMMA VaultStep ==
  ASSUME VaultInv, [Next]_vars
  PROVE  VaultInv'
<1>1. ASSUME NEW w \in Writers, Commit(w)
      PROVE  VaultInv'
  <2>1. /\ Registry' \in Documents /\ Len(commits') = Len(commits) + 1
        /\ Len(commits) \in Nat
        /\ DOMAIN Registry' \subseteq DOMAIN Registry \cup {dev[w]}
        /\ op[w] # "register" => DOMAIN Registry' = DOMAIN Registry
        /\ dev[w] \in Devices
        /\ \A x \in DOMAIN Registry' \cap Foreign : Registry'[x] = Registry[x] /\ x \in DOMAIN Registry
    <3>1. IsEdit(w, Registry, dev[w], doc[w])
      BY <1>1, CommitEffect
    <3>2. /\ DOMAIN doc[w] = DOMAIN Registry \cup {dev[w]}
          /\ \A x \in DOMAIN Registry : x # dev[w] => doc[w][x] = Registry[x]
          /\ op[w] # "register" => dev[w] \in DOMAIN Registry
      BY <3>1, Zenon DEF IsEdit
    <3>3. dev[w] \notin Foreign
      BY <1>1, CommitEffect, IdsAssumption
    <3> QED BY <1>1, <3>2, <3>3, CommitEffect
  <2>2. Typed'
    BY <1>1, CommitEffect, ExitForgets DEF VaultInv, Typed, Commit
  <2>3. Working'
    BY <1>1, <2>1 DEF VaultInv, Typed, Working, Commit, Exit
  <2>4. GuardedEdits'
    <3>1. \A v \in Writers : base[v] <= Len(commits) /\ base[v] \in Nat
      BY DEF VaultInv, Typed, Working
    <3>2. \A v \in Writers : ~(pc'[v] = "commit" /\ base'[v] = Len(commits'))
      BY <1>1, <2>1, <3>1 DEF VaultInv, Typed, Commit, Exit
    <3> QED BY <3>2 DEF GuardedEdits
  <2>5. ForeignKept'
    BY <2>1 DEF VaultInv, ForeignKept
  <2> QED BY <2>2, <2>3, <2>4, <2>5 DEF VaultInv
<1>2. ASSUME NEW d \in Foreign, NEW n \in Names, ForeignCommit(d, n)
      PROVE  VaultInv'
  <2>1. PICK e \in Entry :
         /\ ~e.deleted /\ e.time = clock
         /\ Registry' = With(Registry, d, e) \/ Registry' = Registry
         /\ Registry' \in Documents
         /\ commits' \in Seq(Documents)
         /\ Len(commits') = Len(commits) + 1
         /\ Len(commits) \in Nat
         /\ Len(commits') <= MaxCommits
    BY <1>2, ForeignEffect
  <2>2. /\ DOMAIN Registry' \subseteq DOMAIN Registry \cup {d}
        /\ \A x \in DOMAIN Registry' :
              Registry'[x] = e \/ (x \in DOMAIN Registry /\ Registry'[x] = Registry[x])
    BY <2>1 DEF With
  <2>3. d \notin Devices /\ d \in All
    BY IdsAssumption DEF All
  <2>4. Typed'
    BY <1>2, <2>1, <2>3 DEF VaultInv, Typed, ForeignCommit
  <2>5. Working'
    BY <1>2, <2>1, <2>2, <2>3 DEF VaultInv, Typed, Working, ForeignCommit
  <2>6. GuardedEdits'
    <3>1. \A v \in Writers : base[v] <= Len(commits) /\ base[v] \in Nat
      BY DEF VaultInv, Typed, Working
    <3>2. \A v \in Writers : ~(pc'[v] = "commit" /\ base'[v] = Len(commits'))
      BY <1>2, <2>1, <3>1 DEF ForeignCommit
    <3> QED BY <3>2 DEF GuardedEdits
  <2>7. ForeignKept'
    BY <2>1, <2>2 DEF VaultInv, ForeignKept
  <2> QED BY <2>4, <2>5, <2>6, <2>7 DEF VaultInv
<1>3. ASSUME NEW w \in Writers, NEW n \in IF op[w] = "rename" THEN Names ELSE {1},
             Open(w, n)
      PROVE  VaultInv'
  <2> DEFINE document == Edited(Registry, w, n)
  <2>1. /\ document \in Documents
        /\ IsEdit(w, Registry, dev[w], document)
    BY <1>3, OpenEdits DEF Open, Goto
  <2>2. UNCHANGED <<commits, Registry, live, clock, op, dev>>
    BY <1>3 DEF Open, Registry
  <2>3. /\ doc' = [doc EXCEPT ![w] = document]
        /\ pc' = [pc EXCEPT ![w] = "commit"]
        /\ base' = [base EXCEPT ![w] = Len(commits)]
        /\ known' = [known EXCEPT ![w] = {}]
    BY <1>3 DEF Open, Goto
  <2>4. Len(commits) \in Nat /\ Len(commits) \in 0..MaxCommits
    BY BoundsAssumption DEF VaultInv, Typed
  <2> HIDE DEF document
  <2>5. Typed'
    BY <2>1, <2>2, <2>3, <2>4 DEF VaultInv, Typed
  <2>6. Working'
    BY <1>3, <2>2, <2>3, <2>4 DEF VaultInv, Typed, Working, Open, Goto
  <2>7. GuardedEdits'
    <3>1. doc'[w] = document
      BY <2>3 DEF VaultInv, Typed
    <3>2. IsEdit(w, Registry, dev[w], doc[w])'
      BY <2>1, <2>2, <3>1 DEF IsEdit
    <3>3. ASSUME NEW v \in Writers \ {w}, pc'[v] = "commit", base'[v] = Len(commits')
          PROVE  IsEdit(v, Registry, dev[v], doc[v])'
      <4>1. /\ pc[v] = "commit" /\ base[v] = Len(commits) /\ doc'[v] = doc[v]
        BY <2>2, <2>3, <3>3 DEF VaultInv, Typed
      <4>2. IsEdit(v, Registry, dev[v], doc[v])
        BY <4>1 DEF VaultInv, GuardedEdits
      <4> QED BY <2>2, <4>1, <4>2 DEF IsEdit
    <3> QED BY <3>2, <3>3 DEF GuardedEdits
  <2> QED BY <2>2, <2>5, <2>6, <2>7 DEF VaultInv, ForeignKept
<1>4. ASSUME UNCHANGED <<commits, doc, base>>, Typed', Working',
             \A w \in Writers : pc'[w] = "commit" =>
                pc[w] = "commit" /\ dev'[w] = dev[w] /\ op'[w] = op[w]
      PROVE  VaultInv'
  <2>1. UNCHANGED Registry
    BY <1>4 DEF Registry
  <2> QED BY <1>4, <2>1 DEF VaultInv, GuardedEdits, ForeignKept, IsEdit
<1>5. ASSUME NEW w \in Writers, NEW d \in Devices, BeginRegister(w, d)
      PROVE  VaultInv'
  <2>1. UNCHANGED Registry
    BY <1>5 DEF BeginRegister, Registry
  <2>2. Typed'
    BY <1>5, <2>1 DEF VaultInv, Typed, BeginRegister, Goto, All
  <2>3. Working'
    BY <1>5, <2>1 DEF VaultInv, Typed, Working, BeginRegister, Goto
  <2> QED BY <1>4, <1>5, <2>2, <2>3 DEF VaultInv, Typed, BeginRegister, Goto
<1>6. ASSUME NEW w \in Writers, NEW d \in Devices, NEW edit \in Ops \ {"register"},
             BeginEdit(w, d, edit)
      PROVE  VaultInv'
  <2>1. UNCHANGED Registry
    BY <1>6 DEF BeginEdit, Registry
  <2>2. edit # "none" /\ edit # "register"
    BY <1>6, OpsAssumption
  <2>3. Typed'
    BY <1>6, <2>1 DEF VaultInv, Typed, BeginEdit, Goto
  <2>4. Working'
    BY <1>6, <2>1, <2>2 DEF VaultInv, Typed, Working, BeginEdit, Goto
  <2> QED BY <1>4, <1>6, <2>3, <2>4 DEF VaultInv, Typed, BeginEdit, Goto
<1>7. ASSUME NEW w \in Writers, Sync(w) \/ Reject(w)
      PROVE  VaultInv'
  <2>1. UNCHANGED Registry
    BY <1>7 DEF Sync, Reject, Registry
  <2>2. Typed'
    BY <1>7, <2>1 DEF VaultInv, Typed, Sync, Reject, Goto
  <2>3. Working'
    BY <1>7, <2>1 DEF VaultInv, Typed, Working, Sync, Reject, Goto
  <2> QED BY <1>4, <1>7, <2>2, <2>3 DEF VaultInv, Typed, Sync, Reject, Goto
<1>8. ASSUME NEW w \in Writers, Fail(w) \/ Abort(w)
      PROVE  VaultInv'
  <2>1. UNCHANGED <<Registry, commits>> /\ Exit(w)
    BY <1>8 DEF Fail, Abort, Registry
  <2>2. Typed'
    BY <2>1, ExitForgets DEF VaultInv, Typed
  <2>3. 0 <= Len(commits)
    BY DEF VaultInv, Typed
  <2>4. Working'
    <3>1. /\ pc'[w] = "idle" /\ op'[w] = "none" /\ base'[w] = 0
          /\ \A v \in Writers \ {w} : /\ pc'[v] = pc[v] /\ op'[v] = op[v]
                                      /\ dev'[v] = dev[v] /\ base'[v] = base[v]
      BY <2>1, ExitForgets DEF VaultInv
    <3> QED BY <2>1, <2>3, <3>1 DEF VaultInv, Working
  <2>5. GuardedEdits'
    <3>1. ASSUME NEW v \in Writers, pc'[v] = "commit", base'[v] = Len(commits')
          PROVE  IsEdit(v, Registry, dev[v], doc[v])'
      <4>1. /\ pc[v] = "commit" /\ base[v] = Len(commits) /\ doc'[v] = doc[v]
            /\ dev'[v] = dev[v] /\ op'[v] = op[v]
        BY <2>1, <3>1, ExitForgets DEF VaultInv
      <4>2. IsEdit(v, Registry, dev[v], doc[v])
        BY <4>1 DEF VaultInv, GuardedEdits
      <4> QED BY <2>1, <4>1, <4>2 DEF IsEdit
    <3> QED BY <3>1 DEF GuardedEdits
  <2> QED BY <2>1, <2>2, <2>4, <2>5 DEF VaultInv, ForeignKept
<1>9. ASSUME (\E d \in All : AppDeletes(d)) \/ Tick \/ UNCHANGED vars
      PROVE  VaultInv'
  <2>1. UNCHANGED <<Registry, commits, pc, op, dev, known, base, doc>>
    BY <1>9 DEF AppDeletes, Tick, Registry, vars
  <2>2. live' \subseteq All /\ clock' \in 1..MaxClock
    BY <1>9 DEF VaultInv, Typed, AppDeletes, Tick, vars
  <2>3. Typed'
    BY <2>1, <2>2 DEF VaultInv, Typed
  <2>4. Working'
    BY <2>1 DEF VaultInv, Working
  <2> QED BY <1>4, <2>1, <2>3, <2>4
<1> QED BY <1>1, <1>2, <1>3, <1>5, <1>6, <1>7, <1>8, <1>9 DEF Next

-----------------------------------------------------------------------------
(* The theorems.                                                           *)

LEMMA VaultHolds == Spec => []VaultInv
<1>1. VaultInv /\ [Next]_vars => VaultInv'
  BY VaultStep
<1> QED BY <1>1, VaultInit, PTL DEF Spec

(* The model keeps its types, and with them the bound on the counter of a  *)
(* display name: however a sync and a vault differ, a name is found before *)
(* there are as many as devices.                                           *)
THEOREM TypeCorrect == Spec => []TypeOK
<1>1. VaultInv => TypeOK
  <2> SUFFICES ASSUME VaultInv PROVE TypeOK
    OBVIOUS
  <2>1. \A f \in Documents : IsDocument(f)
    BY DocumentIs DEF IsDocument
  <2>2. \A i \in DOMAIN commits : commits[i] \in Documents
    BY DEF VaultInv, Typed
  <2>3. \A w \in Writers : doc[w] \in Documents
    BY DEF VaultInv, Typed
  <2> QED BY <2>1, <2>2, <2>3 DEF VaultInv, Typed, TypeOK
<1> QED BY <1>1, VaultHolds, PTL

-----------------------------------------------------------------------------
(* The vault as the list of devices.                                       *)

\* What DeviceRegistry calls its entries.
Listed(registry) ==
    [d \in All |-> IF d \in DOMAIN registry
                   THEN [name |-> registry[d].name, deleted |-> registry[d].deleted]
                   ELSE Absent]

(* One element put in changes one entry.                                   *)
LEMMA ListedWith ==
  ASSUME NEW registry, NEW d \in All, NEW e
  PROVE  Listed(With(registry, d, e)) =
            [Listed(registry) EXCEPT ![d] = [name |-> e.name, deleted |-> e.deleted]]
<1> DEFINE longer == With(registry, d, e)
<1>1. /\ DOMAIN longer = DOMAIN registry \cup {d} /\ longer[d] = e
      /\ \A x \in DOMAIN registry : x # d => longer[x] = registry[x]
  BY DEF With
<1> HIDE DEF longer
<1>2. Listed(longer) =
         [Listed(registry) EXCEPT ![d] = [name |-> e.name, deleted |-> e.deleted]]
  BY <1>1 DEF Listed
<1> QED BY <1>2 DEF longer

(* A device that is listed is told from one that is not.                   *)
LEMMA ListedIs ==
  ASSUME NEW registry \in Documents, NEW d \in All
  PROVE  /\ d \notin DOMAIN registry => Listed(registry)[d] = Absent
         /\ d \in DOMAIN registry =>
               /\ Listed(registry)[d] = [name |-> registry[d].name,
                                         deleted |-> registry[d].deleted]
               /\ Listed(registry)[d] # Absent
               /\ registry[d].name \in Names /\ registry[d].deleted \in BOOLEAN
<1>1. d \in DOMAIN registry => registry[d] \in Entry
  BY DocumentIs
<1>2. Absent \notin [name : Names, deleted : BOOLEAN]
  BY IdsAssumption
<1> HIDE DEF Documents
<1> QED BY <1>1, <1>2 DEF Listed, Entry

(* A tombstone keeps the name.                                             *)
LEMMA Tombstoned ==
  ASSUME NEW n, NEW b, NEW c
  PROVE  [[name |-> n, deleted |-> b] EXCEPT !.deleted = c]
            = [name |-> n, deleted |-> c]
OBVIOUS

(* A step is a step of the list's, or none.                                *)
LEMMA RegistryStep ==
  ASSUME VaultInv, [Next]_vars
  PROVE  [Promise!Next]_(Listed(Registry))
<1> DEFINE entry == Listed(Registry)
<1>0. ASSUME UNCHANGED Registry PROVE UNCHANGED Listed(Registry)
  BY <1>0 DEF Listed
<1>1. ASSUME NEW d \in All, NEW e \in Entry, Registry' = With(Registry, d, e),
             \/ d \notin DOMAIN Registry /\ ~e.deleted
             \/ d \in DOMAIN Registry /\ e.deleted = Registry[d].deleted
             \/ d \in DOMAIN Registry /\ e.deleted /\ e.name = Registry[d].name
      PROVE  Promise!Next
  <2>1. Registry \in Documents
    BY DEF VaultInv, Typed
  <2>2. entry' = [entry EXCEPT ![d] = [name |-> e.name, deleted |-> e.deleted]]
    <3>1. entry' = Listed(Registry')
      BY DEF Listed
    <3>2. Listed(Registry') = Listed(With(Registry, d, e))
      BY <1>1
    <3>3. Listed(With(Registry, d, e)) =
            [entry EXCEPT ![d] = [name |-> e.name, deleted |-> e.deleted]]
      BY ListedWith
    <3> QED BY <3>1, <3>2, <3>3
  <2>3. /\ d \notin DOMAIN Registry => entry[d] = Absent
        /\ d \in DOMAIN Registry =>
              /\ entry[d] = [name |-> Registry[d].name, deleted |-> Registry[d].deleted]
              /\ entry[d] # Absent
    BY <2>1, ListedIs
  <2>4. e.name \in Names /\ e.deleted \in BOOLEAN
    BY DEF Entry
  <2>5. Promise!Register(d, e.name) =
          (entry[d] = Absent
           /\ entry' = [entry EXCEPT ![d] = [name |-> e.name, deleted |-> FALSE]])
    BY DEF Promise!Register, Listed
  <2>6. Promise!Rename(d, e.name) =
          (entry[d] # Absent /\ entry' = [entry EXCEPT ![d].name = e.name])
    BY DEF Promise!Rename, Listed
  <2>7. Promise!Tombstone(d) =
          (entry[d] # Absent /\ entry' = [entry EXCEPT ![d].deleted = TRUE])
    BY DEF Promise!Tombstone, Listed
  <2>8. entry = [x \in All |-> entry[x]]
    BY DEF Listed
  <2> HIDE DEF entry
  <2>9. CASE d \notin DOMAIN Registry /\ ~e.deleted
    <3>1. e.deleted = FALSE
      BY <2>4, <2>9
    <3>2. Promise!Register(d, e.name)
      BY <2>2, <2>3, <2>5, <2>9, <3>1
    <3> QED BY <2>4, <3>2 DEF Promise!Next
  <2>10. CASE d \in DOMAIN Registry /\ e.deleted = Registry[d].deleted
    <3>1. [entry EXCEPT ![d].name = e.name]
             = [entry EXCEPT ![d] = [name |-> e.name, deleted |-> e.deleted]]
      <4>1. [entry[d] EXCEPT !.name = e.name]
               = [name |-> e.name, deleted |-> e.deleted]
        BY <2>3, <2>10
      <4>2. [entry EXCEPT ![d].name = e.name]
               = [entry EXCEPT ![d] = [entry[d] EXCEPT !.name = e.name]]
        BY <2>8, Zenon
      <4> QED BY <4>1, <4>2
    <3>2. Promise!Rename(d, e.name)
      BY <2>2, <2>3, <2>6, <2>10, <3>1
    <3> QED BY <2>4, <3>2 DEF Promise!Next
  <2>11. CASE d \in DOMAIN Registry /\ e.deleted /\ e.name = Registry[d].name
    <3>0. e.deleted = TRUE
      BY <2>4, <2>11
    <3>1. [entry EXCEPT ![d].deleted = TRUE]
             = [entry EXCEPT ![d] = [name |-> e.name, deleted |-> e.deleted]]
      <4>1. [entry[d] EXCEPT !.deleted = TRUE]
               = [name |-> e.name, deleted |-> e.deleted]
        <5>1. entry[d] = [name |-> Registry[d].name, deleted |-> Registry[d].deleted]
          BY <2>3, <2>11
        <5>2. [[name |-> Registry[d].name, deleted |-> Registry[d].deleted]
                  EXCEPT !.deleted = TRUE] = [name |-> Registry[d].name, deleted |-> TRUE]
          BY Tombstoned
        <5>3. [name |-> Registry[d].name, deleted |-> TRUE]
                 = [name |-> e.name, deleted |-> e.deleted]
          BY <2>11, <3>0
        <5> QED BY <5>1, <5>2, <5>3
      <4>2. [entry EXCEPT ![d].deleted = TRUE]
               = [entry EXCEPT ![d] = [entry[d] EXCEPT !.deleted = TRUE]]
        BY <2>8, Zenon
      <4> QED BY <4>1, <4>2
    <3>2. Promise!Tombstone(d)
      BY <2>2, <2>3, <2>7, <2>11, <3>1
    <3> QED BY <3>2 DEF Promise!Next
  <2> QED BY <1>1, <2>9, <2>10, <2>11
<1>2. ASSUME NEW w \in Writers, Commit(w)
      PROVE  [Promise!Next]_(Listed(Registry))
  <2>1. CASE Registry' = Registry
    BY <1>0, <2>1
  <2>2. CASE Registry' # Registry
    <3> DEFINE d == dev[w]
               e == doc[w][d]
    <3>1. IsEdit(w, Registry, d, doc[w]) /\ d \in Devices /\ Registry' = doc[w]
      BY <1>2, <2>2, CommitEffect
    <3>2. Registry' = With(Registry, d, e) /\ e \in Entry
      BY <3>1 DEF IsEdit, With
    <3>3. op[w] \in {"register", "rename", "tombstone"}
          /\ (op[w] = "register" => d \notin DOMAIN Registry)
      <4>1. pc[w] = "commit" /\ op[w] # "none" /\ op[w] \in Ops \cup {"none"}
        BY <1>2 DEF Commit, VaultInv, Typed, Working
      <4> QED BY <4>1, OpsAssumption DEF VaultInv, Working
    <3>4. \/ d \notin DOMAIN Registry /\ ~e.deleted
          \/ d \in DOMAIN Registry /\ e.deleted = Registry[d].deleted
          \/ d \in DOMAIN Registry /\ e.deleted /\ e.name = Registry[d].name
      BY <3>1, <3>3, Zenon DEF IsEdit
    <3>5. d \in All
      BY <3>1 DEF All
    <3> HIDE DEF d, e
    <3> QED BY <1>1, <3>2, <3>4, <3>5
  <2> QED BY <2>1, <2>2
<1>3. ASSUME NEW d \in Foreign, NEW n \in Names, ForeignCommit(d, n)
      PROVE  [Promise!Next]_(Listed(Registry))
  <2>1. PICK e \in Entry : /\ ~e.deleted
                           /\ Registry' = With(Registry, d, e) \/ Registry' = Registry
    BY <1>3, ForeignEffect
  <2>2. d \in All
    BY DEF All
  <2>3. CASE Registry' = Registry
    BY <1>0, <2>3
  <2>4. CASE Registry' = With(Registry, d, e)
    <3>1. d \in DOMAIN Registry => e.deleted = Registry[d].deleted
      <4>1. d \in DOMAIN Registry => ~Registry[d].deleted /\ Registry[d] \in Entry
        BY DocumentIs DEF VaultInv, Typed, ForeignKept
      <4> QED BY <2>1, <4>1 DEF Entry
    <3> QED BY <1>1, <2>1, <2>2, <2>4, <3>1
  <2> QED BY <2>1, <2>3, <2>4
<1>4. ASSUME UNCHANGED commits
      PROVE  [Promise!Next]_(Listed(Registry))
  BY <1>0, <1>4 DEF Registry
<1>5. CASE UNCHANGED vars
  BY <1>4, <1>5 DEF vars
<1> QED BY <1>2, <1>3, <1>4, <1>5
        DEF Next, BeginRegister, BeginEdit, Sync, Open, Reject, Fail, Abort, AppDeletes, Tick

(* Committing the whole document as it was read, under the guard, changes   *)
(* one device's entry and never undoes what another client or process has   *)
(* written since: the vault implements DeviceRegistry, with any clock.      *)
THEOREM VaultIsRegistry == Spec => IsRegistry
<1>1. Init => Promise!Init
  <2> SUFFICES ASSUME Init PROVE Promise!Init
    OBVIOUS
  <2>1. DOMAIN Registry = {}
    BY InitRegistry, EmptyDocument
  <2> QED BY <2>1 DEF Promise!Init
<1>2. VaultInv /\ [Next]_vars => [Promise!Next]_(Listed(Registry))
  BY RegistryStep
<1> QED BY <1>1, <1>2, VaultHolds, PTL DEF Spec, IsRegistry, Promise!Spec, Listed

-----------------------------------------------------------------------------
(* No edit is lost to the past while the clock is never set back.          *)

(* Nothing in the vault is from the future, whatever steps.                *)
LEMMA ClockStep ==
  ASSUME SteadyClock, VaultInv, ClockInv, [Next]_vars
  PROVE  ClockInv'
<1>1. ASSUME NEW w \in Writers, Commit(w)
      PROVE  ClockInv'
  <2>1. clock' = clock /\ clock \in Nat
    BY <1>1 DEF Commit, Exit, VaultInv, Typed
  <2>2. \A d \in DOMAIN Registry' : Registry'[d].time <= clock'
    <3>1. IsEdit(w, Registry, dev[w], doc[w])
      BY <1>1, CommitEffect
    <3>2. /\ DOMAIN doc[w] = DOMAIN Registry \cup {dev[w]}
          /\ \A x \in DOMAIN Registry : x # dev[w] => doc[w][x] = Registry[x]
      BY <3>1, Zenon DEF IsEdit
    <3>3. doc[w][dev[w]].time <= clock
      BY <1>1 DEF ClockInv, Commit
    <3>4. \A d \in DOMAIN doc[w] : doc[w][d].time <= clock
      BY <3>2, <3>3 DEF ClockInv
    <3>5. Registry' = Registry \/ Registry' = doc[w]
      BY <1>1, CommitEffect
    <3> QED BY <2>1, <3>4, <3>5 DEF ClockInv
  <2>3. \A v \in Writers : pc'[v] = "commit" =>
           /\ v # w /\ pc[v] = "commit" /\ dev'[v] = dev[v] /\ doc'[v] = doc[v]
           /\ base'[v] = base[v] /\ base[v] <= Len(commits) /\ base[v] \in Nat
    BY <1>1, ExitForgets DEF Commit, VaultInv, Typed, Working
  <2>4. Len(commits') = Len(commits) + 1 /\ Len(commits) \in Nat
    BY <1>1, CommitEffect
  <2>5. \A v \in Writers : pc'[v] = "commit" => base'[v] # Len(commits')
    BY <2>3, <2>4
  <2> QED BY <2>1, <2>2, <2>3, <2>5 DEF ClockInv
<1>2. ASSUME NEW d \in Foreign, NEW n \in Names, ForeignCommit(d, n)
      PROVE  ClockInv'
  <2>1. PICK e \in Entry :
         /\ e.time = clock
         /\ Registry' = With(Registry, d, e) \/ Registry' = Registry
         /\ Len(commits') = Len(commits) + 1
         /\ Len(commits) \in Nat
    BY <1>2, ForeignEffect
  <2>2. UNCHANGED <<clock, pc, dev, doc, base>> /\ clock \in Nat
    BY <1>2 DEF ForeignCommit, VaultInv, Typed
  <2>3. \A x \in DOMAIN Registry' :
           Registry'[x] = e \/ (x \in DOMAIN Registry /\ Registry'[x] = Registry[x])
    BY <2>1 DEF With
  <2>4. \A x \in DOMAIN Registry' : Registry'[x].time <= clock'
    BY <2>1, <2>2, <2>3 DEF ClockInv
  <2>5. \A v \in Writers : base'[v] # Len(commits')
    BY <2>1, <2>2 DEF VaultInv, Typed, Working
  <2> QED BY <2>2, <2>4, <2>5 DEF ClockInv
<1>3. ASSUME NEW w \in Writers, NEW n \in IF op[w] = "rename" THEN Names ELSE {1},
             Open(w, n)
      PROVE  ClockInv'
  <2> DEFINE document == Edited(Registry, w, n)
  <2>1. document[dev[w]].time = clock
    BY <1>3, OpenEdits DEF Open, Goto
  <2>2. UNCHANGED <<commits, Registry, clock, dev>> /\ clock \in Nat \ {0}
    BY <1>3 DEF Open, Registry, VaultInv, Typed
  <2>3. /\ doc' = [doc EXCEPT ![w] = document]
        /\ pc' = [pc EXCEPT ![w] = "commit"]
        /\ base' = [base EXCEPT ![w] = Len(commits)]
    BY <1>3 DEF Open, Goto
  <2> HIDE DEF document
  <2>4. /\ doc'[w][dev[w]].time = clock
        /\ \A v \in Writers \ {w} :
              pc'[v] = pc[v] /\ doc'[v] = doc[v] /\ base'[v] = base[v]
    BY <2>1, <2>3 DEF VaultInv, Typed
  <2> QED BY <2>2, <2>4 DEF ClockInv
<1>4. ASSUME UNCHANGED <<commits, doc, base>>, clock <= clock', clock' \in Nat,
             \A w \in Writers : pc'[w] = "commit" =>
                pc[w] = "commit" /\ dev'[w] = dev[w]
      PROVE  ClockInv'
  <2>1. UNCHANGED Registry /\ clock \in Nat
    BY <1>4 DEF Registry, VaultInv, Typed
  <2>2. \A d \in DOMAIN Registry : Registry[d].time \in Nat
    BY DocumentIs DEF Entry, VaultInv, Typed
  <2>3. \A w \in Writers : pc[w] = "commit" => doc[w][dev[w]].time \in 1..clock'
    BY <1>4, <2>1 DEF ClockInv
  <2>4. \A d \in DOMAIN Registry : Registry[d].time <= clock'
    BY <1>4, <2>1, <2>2 DEF ClockInv
  <2> QED BY <1>4, <2>1, <2>3, <2>4 DEF ClockInv
<1>5. ASSUME NEW w \in Writers,
             \/ \E d \in Devices : BeginRegister(w, d)
             \/ \E d \in Devices, edit \in Ops \ {"register"} : BeginEdit(w, d, edit)
             \/ Sync(w) \/ Reject(w) \/ Fail(w) \/ Abort(w)
      PROVE  ClockInv'
  <2>1. UNCHANGED <<commits, clock>> /\ clock \in Nat /\ clock <= clock
    BY <1>5 DEF BeginRegister, BeginEdit, Sync, Reject, Fail, Abort, Exit, VaultInv, Typed
  <2>2. CASE \/ \E d \in Devices : BeginRegister(w, d)
             \/ \E d \in Devices, edit \in Ops \ {"register"} : BeginEdit(w, d, edit)
             \/ Sync(w) \/ Reject(w)
    BY <1>4, <2>1, <2>2
       DEF BeginRegister, BeginEdit, Sync, Reject, Goto, VaultInv, Typed
  <2>3. CASE Fail(w) \/ Abort(w)
    <3>1. UNCHANGED Registry /\ Exit(w)
      BY <2>1, <2>3 DEF Fail, Abort, Registry
    <3>2. \A v \in Writers : pc'[v] = "commit" =>
             /\ pc[v] = "commit" /\ doc'[v] = doc[v]
             /\ base'[v] = base[v] /\ dev'[v] = dev[v]
      BY <3>1, ExitForgets DEF VaultInv
    <3> QED BY <2>1, <3>1, <3>2 DEF ClockInv
  <2> QED BY <1>5, <2>2, <2>3
<1>6. ASSUME (\E d \in All : AppDeletes(d)) \/ Tick \/ UNCHANGED vars
      PROVE  ClockInv'
  <2>1. UNCHANGED <<commits, pc, dev, base, doc>>
    BY <1>6 DEF AppDeletes, Tick, vars
  <2>2. clock <= clock' /\ clock' \in Nat
    BY <1>6 DEF AppDeletes, Tick, vars, VaultInv, Typed
  <2> QED BY <1>4, <2>1, <2>2
<1> QED BY <1>1, <1>2, <1>3, <1>5, <1>6 DEF Next

(* If the clock is never set back, an edit that heyl commits is what every  *)
(* client then reads: the fold takes it, whoever else wrote before.         *)
THEOREM AcceptedEditsShow == ASSUME SteadyClock PROVE Spec => EditTakesEffect
<1> DEFINE Takes == \A w \in Writers :
       (pc[w] = "commit" /\ pc'[w] = "idle" /\ commits' # commits) =>
           Registry'[dev[w]] = doc[w][dev[w]]
<1>1. ASSUME VaultInv, ClockInv, Next PROVE Takes
  <2>1. ASSUME NEW w \in Writers, pc[w] = "commit", pc'[w] = "idle", commits' # commits
        PROVE  Registry'[dev[w]] = doc[w][dev[w]]
    <3>1. Commit(w)
      <4>1. ASSUME NEW v \in Writers, Commit(v) PROVE v = w
        <5>1. Exit(v) /\ Typed
          BY <1>1, <4>1 DEF Commit, VaultInv
        <5> QED BY <2>1, <5>1, ExitForgets
      <4>2. \A d \in Foreign, n \in Names : ~ForeignCommit(d, n)
        BY <2>1 DEF ForeignCommit
      <4> QED BY <1>1, <2>1, <4>1, <4>2
              DEF Next, BeginRegister, BeginEdit, Sync, Open, Reject, Fail, Abort,
                  AppDeletes, Tick
    <3>2. /\ IsEdit(w, Registry, dev[w], doc[w])
          /\ Registry' = IF /\ dev[w] \in DOMAIN Registry
                            /\ Registry[dev[w]].time > doc[w][dev[w]].time
                         THEN Registry ELSE doc[w]
      BY <1>1, <3>1, CommitEffect
    <3>3. dev[w] \in DOMAIN Registry => Registry[dev[w]].time <= doc[w][dev[w]].time
      BY <1>1, <3>1 DEF ClockInv, Commit
    <3>4. dev[w] \in DOMAIN Registry =>
             Registry[dev[w]].time \in Nat /\ doc[w][dev[w]].time \in Nat
      BY <1>1, <3>2, DocumentIs DEF IsEdit, Entry, VaultInv, Typed
    <3> QED BY <3>2, <3>3, <3>4
  <2> QED BY <2>1
<1>2. ASSUME UNCHANGED vars PROVE Takes
  BY <1>2 DEF vars
<1>3. VaultInv /\ ClockInv /\ [Next]_vars => ClockInv' /\ [Takes]_vars
  BY <1>1, <1>2, ClockStep
<1>4. Spec => [][Takes]_vars
  <2> HIDE DEF Takes
  <2> QED BY <1>3, VaultInit, VaultHolds, PTL DEF Spec
<1> QED BY <1>4 DEF EditTakesEffect
=============================================================================
