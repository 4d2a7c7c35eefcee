------------------------------ MODULE MetaVault ------------------------------
(***************************************************************************)
(* The META vault as heyl writes it (heyl-app/src/meta_vault.rs,           *)
(* heyl-vault/src/meta.rs): sync, list the commits and fold them, edit the *)
(* entry of one's own session, commit the whole document under a guard on  *)
(* the latest commit.  Other clients commit deltas of entries of their     *)
(* own.  A session id stands for the device.                               *)
(***************************************************************************)
EXTENDS Heymerge, FiniteSetsExt

CONSTANTS
    Devices,     \* sessions that heyl creates
    Foreign,     \* sessions of other clients
    Writers,     \* CLI processes
    Ops,         \* what they do to the vault
    SteadyClock, \* TRUE: the clock is never set back
    MaxCommits,  \* bound: commits of the vault
    MaxClock,    \* bound: readings of the clock
    Absent

All == Devices \cup Foreign

\* "heyl CLI", "heyl CLI (2)", ...: the display name is its counter.
Names == 1..Cardinality(All)

ASSUME OpsAssumption == Ops \subseteq {"register", "rename", "tombstone"}
ASSUME BoundsAssumption == MaxCommits \in Nat \ {0} /\ MaxClock \in Nat \ {0}
ASSUME IdsAssumption ==
    /\ IsFiniteSet(All) /\ Devices \cap Foreign = {}
    /\ Absent \notin All \cup [name : Names, deleted : BOOLEAN]

VARIABLES
    commits,  \* backend: the vault's commits, oldest first
    live,     \* backend: the sessions the account has
    clock,    \* the time of day
    pc,       \* writer: the call it makes next
    op,       \* writer: its edit
    dev,      \* writer: its own session
    known,    \* writer: the sessions its sync returned
    base,     \* writer: the latest commit it read, the guard
    doc       \* writer: the document as edited

vars == <<commits, live, clock, pc, op, dev, known, base, doc>>

Entry == [name : Names, deleted : BOOLEAN, time : 1..MaxClock]
IsDocument(document) ==
    DOMAIN document \subseteq All /\ \A d \in DOMAIN document : document[d] \in Entry

Registry == Fold(commits)

TypeOK ==
    /\ Len(commits) <= MaxCommits
    /\ \A i \in DOMAIN commits : IsDocument(commits[i])
    /\ live \subseteq All
    /\ clock \in 1..MaxClock
    /\ pc \in [Writers -> {"idle", "sync", "open", "commit", "rejected"}]
    /\ op \in [Writers -> Ops \cup {"none"}]
    /\ dev \in [Writers -> Devices \cup {Absent}]
    /\ known \in [Writers -> SUBSET All]
    /\ base \in [Writers -> 0..MaxCommits]
    /\ \A w \in Writers : IsDocument(doc[w])

\* The vault has its first commit before any CLI is paired.
Init ==
    /\ commits = <<Empty>>
    /\ live = {}
    /\ clock = 1
    /\ pc = [w \in Writers |-> "idle"]
    /\ op = [w \in Writers |-> "none"]
    /\ dev = [w \in Writers |-> Absent]
    /\ known = [w \in Writers |-> {}]
    /\ base = [w \in Writers |-> 0]
    /\ doc = [w \in Writers |-> Empty]

-----------------------------------------------------------------------------
(* Helpers.                                                                *)

Goto(w, from, to) == pc[w] = from /\ pc' = [pc EXCEPT ![w] = to]

\* A bug that TypeOK catches: the counter is past a suffix before it is tried.
MutCounter(registry, sessions) ==
    LET taken == {registry[d].name :
                    d \in {x \in DOMAIN registry \cap sessions : ~registry[x].deleted}}
    IN  IF 1 \in taken THEN 2 + Cardinality(taken) ELSE 1

\* The first of "name", "name (2)", ... that no live device bears.
Disambiguated(registry, sessions) ==
    LET taken == {registry[d].name :
                    d \in {x \in DOMAIN registry \cap sessions : ~registry[x].deleted}}
    IN  Min({n \in 1..Cardinality(taken) + 1 : n \notin taken})

\* The process ends; its memory goes with it.
Exit(w) ==
    /\ pc' = [pc EXCEPT ![w] = "idle"]
    /\ op' = [op EXCEPT ![w] = "none"]
    /\ dev' = [dev EXCEPT ![w] = Absent]
    /\ known' = [known EXCEPT ![w] = {}]
    /\ base' = [base EXCEPT ![w] = 0]
    /\ doc' = [doc EXCEPT ![w] = Empty]
    /\ UNCHANGED <<live, clock>>

Commits(document) ==
    /\ Len(commits) < MaxCommits
    /\ commits' = Append(commits, document)

-----------------------------------------------------------------------------
(* A mutated form of Commit: the commit goes out without the guard.         *)

MutCommit(w) ==
    /\ pc[w] = "commit"
    /\ dev[w] \in live
    /\ Commits(doc[w])
    /\ Exit(w)

-----------------------------------------------------------------------------
(* One edit of the vault.                                                  *)

\* `create` has just been given session d.
BeginRegister(w, d) ==
    /\ "register" \in Ops
    /\ Goto(w, "idle", "sync")
    /\ d \notin live \cup DOMAIN Registry
    /\ \A v \in Writers : dev[v] # d
    /\ live' = live \cup {d}
    /\ op' = [op EXCEPT ![w] = "register"]
    /\ dev' = [dev EXCEPT ![w] = d]
    /\ UNCHANGED <<commits, clock, known, base, doc>>

\* `session set display-name` and `session remove`
BeginEdit(w, d, edit) ==
    /\ Goto(w, "idle", "sync")
    /\ d \in live
    /\ op' = [op EXCEPT ![w] = edit]
    /\ dev' = [dev EXCEPT ![w] = d]
    /\ UNCHANGED <<commits, live, clock, known, base, doc>>

\* Only `register` reads the sessions again.
Sync(w) ==
    /\ Goto(w, "sync", "open")
    /\ dev[w] \in live
    /\ known' = [known EXCEPT ![w] = IF op[w] = "register" THEN live ELSE {}]
    /\ UNCHANGED <<commits, live, clock, op, dev, base, doc>>

\* The document to commit: the whole fold, one entry edited and stamped.
Edited(registry, w, n) ==
    LET d == dev[w] IN
    CASE op[w] = "register" ->
            With(registry, d, [name    |-> Disambiguated(registry, known[w]),
                               deleted |-> FALSE, time |-> clock])
      [] op[w] = "rename" ->
            [registry EXCEPT ![d].name = n, ![d].time = clock]
      [] op[w] = "tombstone" ->
            [registry EXCEPT ![d].deleted = TRUE, ![d].time = clock]

\* The commits are listed in one call; folding and editing are local.
Open(w, n) ==
    /\ Goto(w, "open", "commit")
    /\ dev[w] \in live
    /\ op[w] = "register" \/ dev[w] \in DOMAIN Registry
    /\ base' = [base EXCEPT ![w] = Len(commits)]
    /\ doc' = [doc EXCEPT ![w] = Edited(Registry, w, n)]
    /\ known' = [known EXCEPT ![w] = {}]
    /\ UNCHANGED <<commits, live, clock, op, dev>>

Commit(w) ==
    /\ pc[w] = "commit"
    /\ dev[w] \in live
    /\ base[w] = Len(commits)
    /\ Commits(doc[w])
    /\ Exit(w)

\* The backend refuses the guard, and the command fails.
Reject(w) ==
    /\ Goto(w, "commit", "rejected")
    /\ base[w] # Len(commits)
    /\ UNCHANGED <<commits, live, clock, op, dev, known, base, doc>>

Fail(w) == pc[w] = "rejected" /\ Exit(w) /\ UNCHANGED commits

\* A call fails, its effect done or not, or the process is killed.
Abort(w) == pc[w] \in {"sync", "open", "commit"} /\ Exit(w) /\ UNCHANGED commits

-----------------------------------------------------------------------------
(* The rest of the account.                                                *)

\* Another client adds or renames its own device: a delta of one element.  Its
\* name is heyl's own or the one heyl would take next (bound).
ForeignCommit(d, n) ==
    /\ Commits(With(Empty, d, [name |-> n, deleted |-> FALSE, time |-> clock]))
    /\ live' = live \cup {d}
    /\ UNCHANGED <<clock, pc, op, dev, known, base, doc>>

\* heylogin's app deletes a device and leaves its entry in the vault.
AppDeletes(d) ==
    /\ d \in live
    /\ live' = live \ {d}
    /\ UNCHANGED <<commits, clock, pc, op, dev, known, base, doc>>

Tick ==
    /\ clock' \in (1..MaxClock) \ {clock}
    /\ SteadyClock => clock' > clock
    /\ UNCHANGED <<commits, live, pc, op, dev, known, base, doc>>

Next ==
    \/ \E w \in Writers :
          \/ \E d \in Devices : BeginRegister(w, d)
          \/ \E d \in Devices, edit \in Ops \ {"register"} : BeginEdit(w, d, edit)
          \/ Sync(w)
          \/ \E n \in IF op[w] = "rename" THEN Names ELSE {1} : Open(w, n)
          \/ Commit(w) \/ Reject(w) \/ Fail(w) \/ Abort(w)
    \/ \E d \in Foreign, n \in Names \cap {1, 2} : ForeignCommit(d, n)
    \/ \E d \in All : AppDeletes(d)
    \/ Tick

Spec == Init /\ [][Next]_vars

-----------------------------------------------------------------------------
(* Properties.                                                             *)

Promise == INSTANCE DeviceRegistry WITH
    Devices <- All,
    entry <- LET registry == Registry IN
             [d \in All |-> IF d \in DOMAIN registry
                            THEN [name    |-> registry[d].name,
                                  deleted |-> registry[d].deleted]
                            ELSE Absent]

\* Although heyl commits the whole document as it read it, a commit changes
\* one device's entry, never another client's or another invocation's edit
\* that landed since, and a tombstone is never undone.
IsRegistry == Promise!Spec

\* An edit that is accepted is what the account's clients then read: "with a
\* key we exclusively own, we cannot lose a merge" (DESIGN.md).  A clock that is
\* set back between two edits of one entry loses the later one.
EditTakesEffect == [][\A w \in Writers :
    (pc[w] = "commit" /\ pc'[w] = "idle" /\ commits' # commits) =>
        Registry'[dev[w]] = doc[w][dev[w]]]_vars

\* No two live devices that heyl named bear one name, "the only string the
\* phone shows".  A name is chosen from a sync and a fold that are apart in time:
\* a device that another writer adds in between is in the vault, but not among
\* the live sessions, and its name is taken again (meta.rs disambiguate).
UniqueNames == \A d, e \in Devices \cap live \cap DOMAIN Registry :
    (d # e /\ ~Registry[d].deleted /\ ~Registry[e].deleted) =>
        Registry[d].name # Registry[e].name
=============================================================================
