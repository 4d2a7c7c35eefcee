------------------------ MODULE SessionSettingsProofs ------------------------
(***************************************************************************)
(* Proofs about SessionSettings, for any slots, processes and windows, and *)
(* whoever else writes the records.                                        *)
(***************************************************************************)
EXTENDS SessionSettings, TLAPS

-----------------------------------------------------------------------------
(* What is written is read back.                                            *)

\* A record as heyl writes it has the type of a record.
LEMMA WrittenType ==
  ASSUME NEW policy \in Policy, NEW text \in Text
  PROVE  Written(policy, text) \in Record
<1>1. policy.timeout \in Limits
  BY DEF Policy
<1>2. text.others \in SUBSET OtherKeys
  <2>1. CASE text = NoObject
    BY <2>1 DEF NoObject
  <2>2. CASE text # NoObject
    <3>1. text \in [object : {TRUE}, heyl : {Odd} \cup SUBSET Flags, others : SUBSET OtherKeys]
      BY <2>2 DEF Text
    <3> QED
      BY <3>1
  <2> QED
    BY <2>1, <2>2
<1>3. {k \in Flags : policy[k]} \in SUBSET Flags
  OBVIOUS
<1> QED
  BY <1>1, <1>2, <1>3 DEF Written, ToClientSettings, Record, Text

\* A policy comes back as it was written, whatever else is in the text.
LEMMA WrittenReadsBack ==
  ASSUME NEW policy \in Policy, NEW text \in Text
  PROVE  FromWire(Written(policy, text)) = policy
<1> DEFINE heyl == {k \in Flags : policy[k]}
<1>1. heyl # Odd
  BY OddAssumption
<1>2. policy = [timeout |-> policy.timeout, strict |-> policy.strict,
                autoExtend |-> policy.autoExtend]
  BY DEF Policy
<1>3. policy.strict \in BOOLEAN /\ policy.autoExtend \in BOOLEAN
  BY DEF Policy
<1>4. /\ ("strict" \in heyl) = policy.strict
      /\ ("autoExtend" \in heyl) = policy.autoExtend
  BY <1>3 DEF Flags
<1> HIDE DEF heyl
<1>5. FromWire(Written(policy, text)) =
        [timeout |-> policy.timeout, strict |-> "strict" \in heyl,
         autoExtend |-> "autoExtend" \in heyl]
  BY <1>1 DEF FromWire, Written, ToClientSettings, heyl
<1> QED
  BY <1>2, <1>4, <1>5

\* What is read of a record is a policy.
LEMMA ReadIsPolicy ==
  ASSUME NEW r \in Record
  PROVE  FromWire(r) \in Policy
  BY DEF FromWire, Record, Policy

\* One setting of a policy changed for a value that parses.
LEMMA EditIsPolicy ==
  ASSUME NEW policy \in Policy, NEW k \in Settings, NEW v \in Values(k), v # Bad
  PROVE  [policy EXCEPT ![k] = v] \in Policy
<1>1. CASE k = "timeout"
  BY <1>1 DEF Policy, Values
<1>2. CASE k = "strict"
  BY <1>2 DEF Policy, Values
<1>3. CASE k = "autoExtend"
  BY <1>3 DEF Policy, Values
<1> QED
  BY <1>1, <1>2, <1>3 DEF Settings, Flags

-----------------------------------------------------------------------------
(* The inductive invariant: a process about to write has a value that       *)
(* parses, and what it read is what is there unless it is marked stale.     *)

ReadIsCurrent == \A p \in Procs : pc[p] = "write" =>
    /\ task[p].value # Bad
    /\ ~stale[p] => read[p] = record[Mine(p)]

Inv == TypeOK /\ ReadIsCurrent

\* What may be asked of a set is a task.
LEMMA TaskType ==
  ASSUME NEW s \in Slots, NEW k \in Settings, NEW v \in Values(k)
  PROVE  [job |-> "set", slot |-> s, setting |-> k, value |-> v] \in Task
<1>1. v \in Values("timeout") \cup BOOLEAN
  BY DEF Values
<1> QED
  BY <1>1 DEF Task

\* The task of a process that has none, and its reading, have their types.
LEMMA NoTaskType == NoTask.slot \in Slots /\ NoTask.setting \in Settings
                    /\ NoTask.value \in Values(NoTask.setting)
                    /\ NoTask \in Task
  BY SharedAssumption DEF NoTask, Settings, Values, Task

\* The record of a process that has read nothing is a record.
LEMMA NoReadType == NoRead \in Record
  BY LimitsAssumption DEF NoRead, Record, Text

\* The invariant holds at the start.
LEMMA InvInit == Init => Inv
<1> SUFFICES ASSUME Init PROVE Inv
  OBVIOUS
<1>1. \A m \in {Bad} \cup Limits, s \in BOOLEAN, a \in BOOLEAN :
         Written(CreatedPolicy(m, s, a), NoObject) \in Record
  <2> TAKE m \in {Bad} \cup Limits, s \in BOOLEAN, a \in BOOLEAN
  <2>1. CreatedPolicy(m, s, a) \in Policy
    BY LimitsAssumption DEF CreatedPolicy, Policy
  <2>2. NoObject \in Text
    BY DEF Text
  <2> QED
    BY <2>1, <2>2, WrittenType
<1>2. record \in [Slots -> Record]
  BY <1>1 DEF Init
<1>3. \A p \in Procs : task[p] = NoTask
  BY DEF Init
<1> QED
  BY <1>2, <1>3, NoTaskType, NoReadType DEF Init, Inv, TypeOK, Task, ReadIsCurrent, Unvisited

\* Every step of a process, of another client and of the account keeps it.
LEMMA InvStep == Inv /\ [Next]_vars => Inv'
<1> SUFFICES ASSUME Inv, [Next]_vars
             PROVE  Inv'
  OBVIOUS
<1> USE DEF Inv, TypeOK, Task, ReadIsCurrent, Mine, Goto
<1>1. ASSUME NEW p \in Procs, BeginSet(p)
      PROVE  Inv'
  <2>1. PICK s \in stored, k \in Settings : \E v \in Values(k) :
           /\ pc' = [pc EXCEPT ![p] = "sync"]
           /\ task' = [task EXCEPT ![p] =
                         [job |-> "set", slot |-> s, setting |-> k, value |-> v]]
           /\ UNCHANGED <<record, live, stored, read, todo, report, stale>>
    BY <1>1, Zenon DEF BeginSet
  <2>2. PICK v \in Values(k) :
           /\ pc' = [pc EXCEPT ![p] = "sync"]
           /\ task' = [task EXCEPT ![p] =
                         [job |-> "set", slot |-> s, setting |-> k, value |-> v]]
           /\ UNCHANGED <<record, live, stored, read, todo, report, stale>>
    BY <2>1, Zenon
  <2>3. [job |-> "set", slot |-> s, setting |-> k, value |-> v] \in Task
    BY TaskType
  <2>4. TypeOK'
    BY <2>2, <2>3
  <2>5. ReadIsCurrent'
    BY <2>2
  <2> QED
    BY <2>4, <2>5
<1>2. ASSUME NEW p \in Procs, BeginGet(p)
      PROVE  Inv'
  <2>1. PICK s \in stored : task' = [task EXCEPT ![p] =
                                       [NoTask EXCEPT !.job = "get", !.slot = s]]
    BY <1>2 DEF BeginGet
  <2>2. [NoTask EXCEPT !.job = "get", !.slot = s] \in Task
    BY NoTaskType DEF Task
  <2>3. TypeOK'
    BY <1>2, <2>1, <2>2, NoTaskType DEF BeginGet, Task
  <2>4. ReadIsCurrent'
    BY <1>2, <2>1 DEF BeginGet
  <2> QED
    BY <2>3, <2>4
<1>3. ASSUME NEW p \in Procs, Sync(p)
      PROVE  Inv'
  BY <1>3 DEF Sync
<1>4. ASSUME NEW p \in Procs, Update(p)
      PROVE  Inv'
  <2>1. FromWire(read[p]) \in Policy
    BY ReadIsPolicy
  <2>2. Edited(p) \in Policy
    BY <1>4, <2>1, EditIsPolicy DEF Update, Edited
  <2>3. read[p].text \in Text
    BY DEF Record
  <2>4. Written(Edited(p), read[p].text) \in Record
    BY <2>2, <2>3, WrittenType
  <2> QED
    BY <1>4, <2>4 DEF Update, Stales
<1>5. ASSUME NEW p \in Procs, List(p)
      PROVE  Inv'
  <2>1. CASE BeginList(p)
    BY <2>1, NoTaskType DEF BeginList
  <2>2. CASE ListEnd(p)
    BY <2>2 DEF ListEnd
  <2>3. ASSUME NEW s \in Slots, ListSkip(p, s)
        PROVE  Inv'
    BY <2>3 DEF ListSkip
  <2>4. ASSUME NEW s \in Slots, ListSync(p, s)
        PROVE  Inv'
    BY <2>4 DEF ListSync
  <2> QED
    BY <1>5, <2>1, <2>2, <2>3, <2>4 DEF List
<1>6. ASSUME NEW p \in Procs, Exit(p)
      PROVE  Inv'
  BY <1>6, NoTaskType, NoReadType DEF Exit, Unvisited
<1>7. ASSUME NEW s \in Slots, ForeignWrite(s)
      PROVE  Inv'
  <2>1. PICK r \in Record :
           /\ record' = [record EXCEPT ![s] = r]
           /\ stale' = [q \in Procs |-> stale[q] \/ task[q].slot = s]
           /\ UNCHANGED <<live, stored, pc, task, read, todo, report>>
    BY <1>7, Zenon DEF ForeignWrite
  <2>2. TypeOK'
    BY <2>1
  <2>3. ReadIsCurrent'
    BY <2>1
  <2> QED
    BY <2>2, <2>3
<1>8. ASSUME NEW s \in Slots, Delete(s) \/ Forget(s)
      PROVE  Inv'
  BY <1>8 DEF Delete, Forget
<1>9. CASE UNCHANGED vars
  BY <1>9 DEF vars
<1> QED
  BY <1>1, <1>2, <1>3, <1>4, <1>5, <1>6, <1>7, <1>8, <1>9 DEF Next, Step

\* The invariant holds in every state.
LEMMA Invariant == Spec => []Inv
<1>1. Init => Inv
  BY InvInit
<1>2. Inv /\ [Next]_vars => Inv'
  BY InvStep
<1> QED
  BY <1>1, <1>2, PTL DEF Spec

\* The types hold, for any number of slots and processes: whatever a `set` is
\* given and another client wrote, what it puts down is a record that heyl reads.
THEOREM TypeCorrect == Spec => []TypeOK
<1>1. Inv => TypeOK
  BY DEF Inv
<1> QED
  BY <1>1, Invariant, PTL

-----------------------------------------------------------------------------
\* An update changes the setting it was for, in the slot it was for, and no other
\* setting, no other key of the text and no other slot (settings.rs set;
\* session.rs to_client_settings).
THEOREM SetChangesOneSetting == Spec => ChangesOneSetting
<1> DEFINE Changes == \A p \in Procs : LET s == Mine(p) IN
      (pc[p] = "write" /\ pc'[p] = "done" /\ ~stale[p]) =>
        /\ FromWire(record'[s]) =
             [FromWire(record[s]) EXCEPT ![task[p].setting] = task[p].value]
        /\ record'[s].text.others = record[s].text.others
        /\ \A t \in Slots \ {s} : record'[t] = record[t]
<1>1. ASSUME Inv, Next
      PROVE  Changes
  <2> SUFFICES ASSUME NEW p \in Procs, pc[p] = "write", pc'[p] = "done", ~stale[p]
               PROVE  /\ FromWire(record'[Mine(p)]) =
                           [FromWire(record[Mine(p)]) EXCEPT ![task[p].setting] = task[p].value]
                      /\ record'[Mine(p)].text.others = record[Mine(p)].text.others
                      /\ \A t \in Slots \ {Mine(p)} : record'[t] = record[t]
    OBVIOUS
  <2>1. Update(p)
    <3>1. pc \in [Procs -> {"idle", "sync", "write", "list", "done"}]
      BY <1>1 DEF Inv, TypeOK
    <3> QED
      BY <1>1, <3>1 DEF Next, Step, BeginSet, BeginGet, Sync, List, BeginList, ListEnd, ListSkip,
           ListSync, Exit, ForeignWrite, Delete, Forget, Goto, Update
  <2>2. Mine(p) \in Slots /\ read[p] = record[Mine(p)] /\ read[p] \in Record
        /\ task[p].setting \in Settings /\ task[p].value \in Values(task[p].setting)
        /\ task[p].value # Bad
    <3>1. task[p] \in Task /\ read[p] \in Record
      BY <1>1 DEF Inv, TypeOK
    <3>2. task[p].value \in Values(task[p].setting)
      BY <1>1 DEF Inv, TypeOK
    <3>3. Mine(p) \in Slots /\ task[p].setting \in Settings
      BY <3>1 DEF Mine, Task
    <3>4. read[p] = record[Mine(p)] /\ task[p].value # Bad
      BY <1>1 DEF Inv, ReadIsCurrent
    <3> QED
      BY <3>1, <3>2, <3>3, <3>4
  <2>3. record' = [record EXCEPT ![Mine(p)] = Written(Edited(p), read[p].text)]
    BY <2>1 DEF Update
  <2>4. record \in [Slots -> Record]
    BY <1>1 DEF Inv, TypeOK
  <2>5. record'[Mine(p)] = Written(Edited(p), read[p].text)
    BY <2>2, <2>3, <2>4
  <2>6. Edited(p) \in Policy
    BY <2>2, ReadIsPolicy, EditIsPolicy DEF Edited
  <2>7. read[p].text \in Text
    BY <2>2 DEF Record
  <2>8. FromWire(record'[Mine(p)]) = Edited(p)
    BY <2>5, <2>6, <2>7, WrittenReadsBack
  <2>9. record'[Mine(p)].text.others = read[p].text.others
    BY <2>5 DEF Written, ToClientSettings
  <2> QED
    BY <2>2, <2>3, <2>4, <2>8, <2>9 DEF Edited
<1>2. Inv /\ [Next]_vars => [Changes]_vars
  BY <1>1
<1> QED
  BY <1>2, Invariant, PTL DEF Spec, ChangesOneSetting
-----------------------------------------------------------------------------
(* What `list` prints, one call per slot after another while sessions and    *)
(* slots go away under it.                                                   *)

\* What `list` has found out so far: a slot still in the keychain that it is done
\* with has an answer.
ListInv == \A p \in Procs :
    /\ pc[p] \in {"sync", "write"} => task[p].job # "list"
    /\ task[p].job = "list" =>
          /\ \A s \in stored : s \in todo[p] \/ report[p][s] # "unvisited"
          /\ pc[p] = "done" => todo[p] = {}

\* Nothing is listed at the start.
LEMMA ListInit == Init => ListInv
  BY DEF Init, ListInv, NoTask, Unvisited

\* Every step keeps it: sessions and slots only go, and answers only come.
LEMMA ListStep == Inv /\ ListInv /\ [Next]_vars => ListInv'
<1> SUFFICES ASSUME Inv, ListInv, [Next]_vars
             PROVE  ListInv'
  OBVIOUS
<1> USE DEF Inv, TypeOK, ListInv, Goto
<1>1. ASSUME NEW p \in Procs, BeginSet(p) \/ BeginGet(p)
      PROVE  ListInv'
  <2>1. PICK t : /\ task' = [task EXCEPT ![p] = t]
                 /\ t.job \in {"set", "get"}
    <3>1. CASE BeginSet(p)
      <4>1. PICK s \in stored, k \in Settings : \E v \in Values(k) :
               task' = [task EXCEPT ![p] =
                          [job |-> "set", slot |-> s, setting |-> k, value |-> v]]
        BY <3>1, Zenon DEF BeginSet
      <4>2. PICK v \in Values(k) : task' = [task EXCEPT ![p] =
               [job |-> "set", slot |-> s, setting |-> k, value |-> v]]
        BY <4>1, Zenon
      <4>3. [job |-> "set", slot |-> s, setting |-> k, value |-> v].job
              \in {"set", "get"}
        OBVIOUS
      <4> QED
        BY <4>2, <4>3, Zenon
    <3>2. CASE BeginGet(p)
      <4>1. PICK s \in stored : task' =
               [task EXCEPT ![p] = [NoTask EXCEPT !.job = "get", !.slot = s]]
        BY <3>2, Zenon DEF BeginGet
      <4>2. [NoTask EXCEPT !.job = "get", !.slot = s].job \in {"set", "get"}
        BY DEF NoTask
      <4> QED
        BY <4>1, <4>2, Zenon
    <3> QED
      BY <1>1, <3>1, <3>2
  <2>2. UNCHANGED <<live, stored, todo, report>> /\ pc' = [pc EXCEPT ![p] = "sync"]
    BY <1>1 DEF BeginSet, BeginGet
  <2> QED
    BY <2>1, <2>2
<1>2. ASSUME NEW p \in Procs, Sync(p) \/ Update(p)
      PROVE  ListInv'
  BY <1>2 DEF Sync, Update
<1>3. ASSUME NEW p \in Procs, BeginList(p)
      PROVE  ListInv'
  BY <1>3 DEF BeginList, NoTask
<1>4. ASSUME NEW p \in Procs, ListEnd(p)
      PROVE  ListInv'
  BY <1>4 DEF ListEnd
<1>5. ASSUME NEW p \in Procs, NEW s \in Slots, ListSkip(p, s)
      PROVE  ListInv'
  BY <1>5 DEF ListSkip
<1>6. ASSUME NEW p \in Procs, NEW s \in Slots, ListSync(p, s)
      PROVE  ListInv'
  <2>1. PICK found \in {"known", "gone"} :
           report' = [report EXCEPT ![p][s] = found]
    BY <1>6 DEF ListSync
  <2> QED
    BY <1>6, <2>1 DEF ListSync
<1>7. ASSUME NEW p \in Procs, Exit(p)
      PROVE  ListInv'
  BY <1>7 DEF Exit, NoTask, Unvisited
<1>8. ASSUME NEW s \in Slots, ForeignWrite(s) \/ Delete(s) \/ Forget(s)
      PROVE  ListInv'
  BY <1>8 DEF ForeignWrite, Delete, Forget
<1>9. CASE UNCHANGED vars
  BY <1>9 DEF vars
<1> HIDE DEF Inv, ListInv, Goto
<1> QED
  BY <1>1, <1>2, <1>3, <1>4, <1>5, <1>6, <1>7, <1>8, <1>9 DEF Next, Step, List

\* `session list` passes over no slot of the keychain, however many removals are
\* under way on others (settings.rs list).
THEOREM ListHidesNoSlot == Spec => []ListCoversSlots
<1>1. Inv /\ ListInv => ListCoversSlots
  BY DEF ListInv, ListCoversSlots, Listed
<1> QED
  BY <1>1, Invariant, ListInit, ListStep, PTL DEF Spec
=============================================================================
