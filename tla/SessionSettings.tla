--------------------------- MODULE SessionSettings ---------------------------
(***************************************************************************)
(* A session's policy rides on its record at the backend: the time limit   *)
(* is a field of its own, the two flags are heyl's corner of               *)
(* `client_settings`, a JSON text that any client may write                *)
(* (heyl-app/src/session/settings.rs, heyl-domain/src/session.rs).         *)
(* `session set` reads the record, changes one setting and writes all of   *)
(* it back; `session get` and `session list` read.  Processes, another     *)
(* client and removals interleave between any two calls.                   *)
(***************************************************************************)
CONSTANTS
    Slots,       \* slot names, each with a session of its own
    Procs,       \* CLI processes
    Limits,      \* unlock windows; their arithmetic is Durations'
    MinLimit,    \* MIN_TIMEOUT_MINUTES
    DefaultLimit,\* DEFAULT_TIMEOUT_MINUTES
    OtherKeys,   \* keys of client_settings that are not heyl's
    Odd,         \* a "heyl" value that does not deserialize
    Bad,         \* a value on the command line that does not parse
    Shared       \* slots whose record another client writes too

ASSUME LimitsAssumption == {MinLimit, DefaultLimit} \subseteq Limits
ASSUME SharedAssumption == Slots # {} /\ Shared \subseteq Slots

Flags    == {"strict", "autoExtend"}
ASSUME OddAssumption == \A flags \in SUBSET Flags : Odd # flags
Settings == {"timeout"} \cup Flags

\* client_settings as heyl reads it: an object with keys, or anything else.
NoObject == [object |-> FALSE, heyl |-> {}, others |-> {}]
Text == {NoObject} \cup
    [object : {TRUE}, heyl : {Odd} \cup SUBSET Flags, others : SUBSET OtherKeys]

Record == [minutes : Limits, text : Text]
Policy == [timeout : Limits, strict : BOOLEAN, autoExtend : BOOLEAN]
Values(k) == {Bad} \cup (IF k = "timeout" THEN Limits ELSE BOOLEAN)
Task == [job : {"none", "set", "get", "list"}, slot : Slots,
         setting : Settings, value : Values("timeout") \cup BOOLEAN]

\* What is not an object, or not ours to read, is taken for absent.
FromWire(r) ==
    LET ours == IF r.text.heyl = Odd THEN {} ELSE r.text.heyl
    IN [timeout |-> r.minutes, strict |-> "strict" \in ours,
        autoExtend |-> "autoExtend" \in ours]

\* Mutated: the text is written anew, without the keys of others.
MutToClientSettings(policy, existing) ==
    [object |-> TRUE, heyl |-> {k \in Flags : policy[k]}, others |-> {}]

\* A flag that is off leaves no trace; every other key stays.
ToClientSettings(policy, existing) ==
    [object |-> TRUE, heyl |-> {k \in Flags : policy[k]},
     others |-> existing.others]

Written(policy, existing) ==
    [minutes |-> policy.timeout, text |-> ToClientSettings(policy, existing)]

\* Mutated: without --timeout nothing is filled in.
MutCreatedPolicy(limit, strict, autoExtend) ==
    [timeout |-> limit, strict |-> strict, autoExtend |-> autoExtend]

\* `session create` without --timeout: a strict slot gets the shortest window.
CreatedPolicy(limit, strict, autoExtend) ==
    [timeout |-> IF limit # Bad THEN limit
                 ELSE IF strict THEN MinLimit ELSE DefaultLimit,
     strict |-> strict, autoExtend |-> autoExtend]

VARIABLES
    record,     \* backend: the record of each slot's session
    live,       \* backend: slots whose session is there
    stored,     \* keychain: slots with their three items
    pc, task,   \* process: its next call, and what it was asked
    read,       \* process: the record as its sync returned it
    todo,       \* `list`: slots of the index still to visit
    report,     \* `list`: what it will print of each slot
    stale       \* auxiliary: the record was written since the process read it

vars == <<record, live, stored, pc, task, read, todo, report, stale>>

NoTask == [job |-> "none", slot |-> CHOOSE s \in Slots : TRUE,
           setting |-> "timeout", value |-> Bad]
NoRead == [minutes |-> DefaultLimit, text |-> NoObject]
Unvisited == [s \in Slots |-> "unvisited"]

TypeOK ==
    /\ record \in [Slots -> Record]
    /\ live \subseteq Slots
    /\ stored \subseteq Slots
    /\ pc \in [Procs -> {"idle", "sync", "write", "list", "done"}]
    /\ task \in [Procs -> Task]
    /\ \A p \in Procs : task[p].value \in Values(task[p].setting)
    /\ read \in [Procs -> Record]
    /\ todo \in [Procs -> SUBSET Slots]
    /\ report \in [Procs -> [Slots -> {"unvisited", "known", "gone"}]]
    /\ stale \in [Procs -> BOOLEAN]

Init ==
    /\ record \in [Slots -> {Written(CreatedPolicy(m, s, a), NoObject) :
                       m \in {Bad} \cup Limits, s \in BOOLEAN, a \in BOOLEAN}]
    /\ live = Slots
    /\ stored = Slots
    /\ pc = [p \in Procs |-> "idle"]
    /\ task = [p \in Procs |-> NoTask]
    /\ read = [p \in Procs |-> NoRead]
    /\ todo = [p \in Procs |-> {}]
    /\ report = [p \in Procs |-> Unvisited]
    /\ stale = [p \in Procs |-> FALSE]

Goto(p, from, to) == pc[p] = from /\ pc' = [pc EXCEPT ![p] = to]
Mine(p) == task[p].slot

\* The policy a set will write: what it read, with one setting changed.
Edited(p) == [FromWire(read[p]) EXCEPT ![task[p].setting] = task[p].value]

\* A write to slot s makes every reading of it stale but the writer's own.
Stales(s, p) == [q \in Procs |-> stale[q] \/ (q # p /\ Mine(q) = s)]

-----------------------------------------------------------------------------
(* A mutated form: a bug that ListCoversSlots catches.                     *)

\* A slot that cannot be adopted ends the list.
MutListSkip(p, s) ==
    /\ pc[p] = "list" /\ s \in todo[p] /\ s \notin stored
    /\ todo' = [todo EXCEPT ![p] = {}]
    /\ UNCHANGED <<record, live, stored, pc, task, read, report, stale>>

-----------------------------------------------------------------------------
(* set and get: adopt, sync, and for a set one update of the whole record. *)

BeginSet(p) == \E s \in stored, k \in Settings : \E v \in Values(k) :
    /\ Goto(p, "idle", "sync")
    /\ task' = [task EXCEPT ![p] =
                  [job |-> "set", slot |-> s, setting |-> k, value |-> v]]
    /\ UNCHANGED <<record, live, stored, read, todo, report, stale>>

BeginGet(p) == \E s \in stored :
    /\ Goto(p, "idle", "sync")
    /\ task' = [task EXCEPT ![p] = [NoTask EXCEPT !.job = "get", !.slot = s]]
    /\ UNCHANGED <<record, live, stored, read, todo, report, stale>>

Sync(p) ==
    /\ Goto(p, "sync", IF task[p].job = "set" THEN "write" ELSE "done")
    /\ Mine(p) \in live
    /\ task[p].job = "set" => task[p].value # Bad
    /\ read' = IF task[p].job = "set" THEN [read EXCEPT ![p] = record[Mine(p)]]
               ELSE read
    /\ stale' = [stale EXCEPT ![p] = FALSE]
    /\ UNCHANGED <<record, live, stored, task, todo, report>>

Update(p) ==
    /\ Goto(p, "write", "done")
    /\ Mine(p) \in live
    /\ record' = [record EXCEPT ![Mine(p)] = Written(Edited(p), read[p].text)]
    /\ stale' = Stales(Mine(p), p)
    /\ UNCHANGED <<live, stored, task, read, todo, report>>

-----------------------------------------------------------------------------
(* list: the slots of the index one after the other.                       *)

BeginList(p) ==
    /\ Goto(p, "idle", "list")
    /\ task' = [task EXCEPT ![p] = [NoTask EXCEPT !.job = "list"]]
    /\ todo' = [todo EXCEPT ![p] = Slots]
    /\ UNCHANGED <<record, live, stored, read, report, stale>>

\* A slot whose items are not all there is passed over.
ListSkip(p, s) ==
    /\ pc[p] = "list" /\ s \in todo[p] /\ s \notin stored
    /\ todo' = [todo EXCEPT ![p] = @ \ {s}]
    /\ UNCHANGED <<record, live, stored, pc, task, read, report, stale>>

\* The sync of a live session may fail; any failure is shown as gone.
ListSync(p, s) ==
    /\ pc[p] = "list" /\ s \in todo[p] /\ s \in stored
    /\ todo' = [todo EXCEPT ![p] = @ \ {s}]
    /\ \E answered \in BOOLEAN :
          report' = [report EXCEPT ![p][s] =
                        IF s \in live /\ answered THEN "known" ELSE "gone"]
    /\ UNCHANGED <<record, live, stored, pc, task, read, stale>>

ListEnd(p) ==
    /\ pc[p] = "list" /\ todo[p] = {}
    /\ pc' = [pc EXCEPT ![p] = "done"]
    /\ UNCHANGED <<record, live, stored, task, read, todo, report, stale>>

List(p) == BeginList(p) \/ ListEnd(p)
           \/ \E s \in Slots : ListSkip(p, s) \/ ListSync(p, s)

-----------------------------------------------------------------------------
(* The end of a process, by success, failure or kill; and everybody else.   *)

Exit(p) ==
    /\ pc[p] # "idle"
    /\ pc' = [pc EXCEPT ![p] = "idle"]
    /\ task' = [task EXCEPT ![p] = NoTask]
    /\ read' = [read EXCEPT ![p] = NoRead]
    /\ todo' = [todo EXCEPT ![p] = {}]
    /\ report' = [report EXCEPT ![p] = Unvisited]
    /\ stale' = [stale EXCEPT ![p] = FALSE]
    /\ UNCHANGED <<record, live, stored>>

\* Another client writes what it likes.
ForeignWrite(s) == \E r \in Record :
    /\ s \in live \cap Shared
    /\ record' = [record EXCEPT ![s] = r]
    /\ stale' = [q \in Procs |-> stale[q] \/ Mine(q) = s]
    /\ UNCHANGED <<live, stored, pc, task, read, todo, report>>

\* The session is deleted, by the app or by a `remove` that forgets it next.
Delete(s) == live' = live \ {s} /\ s \in live
             /\ UNCHANGED <<record, stored, pc, task, read, todo, report, stale>>
Forget(s) == stored' = stored \ {s} /\ s \in stored \ live
             /\ UNCHANGED <<record, live, pc, task, read, todo, report, stale>>

Step(p) == BeginSet(p) \/ BeginGet(p) \/ Sync(p) \/ Update(p) \/ List(p)

Next ==
    \/ \E p \in Procs : Step(p) \/ Exit(p)
    \/ \E s \in Slots : ForeignWrite(s) \/ Delete(s) \/ Forget(s)

Spec == Init /\ [][Next]_vars

-----------------------------------------------------------------------------
(* Properties.                                                             *)

\* A set changes its own setting of its own slot and nothing else: not the
\* other two settings, not a key of another client.  Only if nobody wrote the
\* record between its read and its write: two sets that overlap undo each other's.
ChangesOneSetting == [][\A p \in Procs : LET s == Mine(p) IN
    (pc[p] = "write" /\ pc'[p] = "done" /\ ~stale[p]) =>
        /\ FromWire(record'[s]) =
             [FromWire(record[s]) EXCEPT ![task[p].setting] = task[p].value]
        /\ record'[s].text.others = record[s].text.others
        /\ \A t \in Slots \ {s} : record'[t] = record[t]]_vars

Listed(p) == pc[p] = "done" /\ task[p].job = "list"

\* A slot that `list` calls gone has lost its session at the backend.  The code
\* does not keep this: whatever error the sync returns, a dropped connection
\* included, it prints as it prints a rejected token (settings.rs list).
GoneIsGone == \A p \in Procs : Listed(p) =>
    \A s \in Slots : report[p][s] = "gone" => s \notin live

\* A removal under way on one slot hides no other slot from `list`.
ListCoversSlots == \A p \in Procs : Listed(p) =>
    \A s \in stored : report[p][s] # "unvisited"
=============================================================================
