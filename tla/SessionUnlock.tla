---------------------------- MODULE SessionUnlock ----------------------------
(***************************************************************************)
(* The unlock of one session.  The backend serves the sealed seed while an *)
(* approval lasts; `ensure` asks the phone when there is none and polls    *)
(* until there is; a strict slot drops the unlock when the command ends,   *)
(* and `session lock` drops it on demand (heyl-app/src/unlock.rs,          *)
(* session/lifecycle.rs, heyl-cli/src/main.rs).  Invocations interleave at *)
(* every backend call; the slot's keychain items are there throughout.     *)
(***************************************************************************)
EXTENDS Naturals

CONSTANTS
    Invocations,  \* CLI processes
    Jobs,         \* the commands users run
    Strict,       \* the slot's policy: drop the unlock when the command ends
    MaxWait,      \* bound: the longest --wait, in polls of one second
    Forever,      \* no --wait
    Alone,        \* TRUE: the user runs one command at a time
    Faults,       \* TRUE: a command may fail, be killed, or fail to re-lock
    Obliging      \* TRUE: no request is dismissed and no unlock lapses

Waits == 0..MaxWait

ASSUME JobsAssumption == Jobs \subseteq {"get", "unlock", "lock", "rename"}
ASSUME WaitAssumption == MaxWait \in Nat /\ Forever \notin Waits
ASSUME SwitchAssumption ==
    /\ Strict \in BOOLEAN /\ Alone \in BOOLEAN
    /\ Faults \in BOOLEAN /\ Obliging \in BOOLEAN

VARIABLES
    unlocked,     \* backend: it serves the sealed seed
    requested,    \* backend: an unlock request is pending on the phone
    spent,        \* history: the present unlock has served an access
    pc,           \* invocation: the call it makes next
    job,          \* invocation: its command
    limit,        \* invocation: its --wait
    waited,       \* invocation: seconds polled so far
    outcome       \* invocation: "ok", or "locked" for UnlockRequired

backend == <<unlocked, requested, spent>>
vars    == <<unlocked, requested, spent, pc, job, limit, waited, outcome>>

Stages == {"idle", "seek", "check", "request", "poll", "reseek",
           "work", "finish", "relock", "lock", "done"}

\* The stages at which an invocation holds the seed.
Holding == {"work", "finish", "relock"}

TypeOK ==
    /\ unlocked \in BOOLEAN
    /\ requested \in BOOLEAN
    /\ spent \in BOOLEAN
    /\ pc \in [Invocations -> Stages]
    /\ job \in [Invocations -> Jobs \cup {"none"}]
    /\ limit \in [Invocations -> Waits \cup {Forever}]
    /\ waited \in [Invocations -> Waits]
    /\ outcome \in [Invocations -> {"none", "ok", "locked"}]

\* `create --unlock` self-grants a first unlock; otherwise a slot is born locked.
Init ==
    /\ unlocked \in BOOLEAN
    /\ requested = FALSE
    /\ spent = FALSE
    /\ pc = [p \in Invocations |-> "idle"]
    /\ job = [p \in Invocations |-> "none"]
    /\ limit = [p \in Invocations |-> Forever]
    /\ waited = [p \in Invocations |-> 0]
    /\ outcome = [p \in Invocations |-> "none"]

-----------------------------------------------------------------------------
(* Helpers.                                                                *)

Goto(p, from, to) == pc[p] = from /\ pc' = [pc EXCEPT ![p] = to]

\* The command ends with an error, or well.
End(p, from, how) ==
    /\ Goto(p, from, "done")
    /\ outcome' = [outcome EXCEPT ![p] = how]

\* What DeleteSessionUnlock does: the unlock and a pending request both go.
Drop == unlocked' = FALSE /\ requested' = FALSE /\ spent' = FALSE

\* The seed leaves the backend.
Serve == unlocked /\ spent' = TRUE /\ UNCHANGED <<unlocked, requested>>

-----------------------------------------------------------------------------
(* Mutated forms of the definitions below: bugs that the properties catch.  *)

\* The phone is never asked.
MutRequest(p) ==
    /\ Goto(p, "request", "poll")
    /\ UNCHANGED <<backend, job, limit, waited, outcome>>

\* The wait gives up one second late.
MutPollLocked(p) ==
    /\ ~unlocked
    /\ pc[p] = "poll"
    /\ \/ limit[p] = Forever /\ UNCHANGED <<pc, waited, outcome>>
       \/ /\ limit[p] # Forever
          /\ waited[p] > limit[p]
          /\ End(p, "poll", "locked")
          /\ UNCHANGED waited
       \/ /\ limit[p] # Forever
          /\ waited[p] <= limit[p]
          /\ waited' = [waited EXCEPT ![p] = @ + 1]
          /\ UNCHANGED <<pc, outcome>>
    /\ UNCHANGED <<backend, job, limit>>

\* The time waited is not added up.
MutNeverCounts(p) ==
    /\ ~unlocked
    /\ \/ waited[p] = limit[p] /\ End(p, "poll", "locked")
       \/ waited[p] # limit[p] /\ pc[p] = "poll" /\ UNCHANGED <<pc, outcome>>
    /\ UNCHANGED <<backend, job, limit, waited>>

\* The policy read back is ignored.
MutFinish(p) ==
    /\ End(p, "finish", "ok")
    /\ UNCHANGED <<backend, job, limit, waited>>

-----------------------------------------------------------------------------
(* A command begins.                                                       *)

Begin(p, j, l) ==
    /\ Goto(p, "idle", CASE j = "unlock" -> "check"
                         [] j = "lock"   -> "lock"
                         [] OTHER        -> "seek")
    /\ Alone => \A q \in Invocations : pc[q] = "idle"
    /\ job' = [job EXCEPT ![p] = j]
    /\ limit' = [limit EXCEPT ![p] = l]
    /\ UNCHANGED <<backend, waited, outcome>>

-----------------------------------------------------------------------------
(* `run_for`: sync, and take the seed out of the grant.                    *)

SeekServed(p) ==
    /\ Goto(p, "seek", "work")
    /\ Serve
    /\ UNCHANGED <<job, limit, waited, outcome>>

\* `ensure` goes on to ask the phone; `set display-name` does not.
SeekLocked(p) ==
    /\ ~unlocked
    /\ \/ job[p] = "get" /\ Goto(p, "seek", "check") /\ UNCHANGED outcome
       \/ job[p] = "rename" /\ End(p, "seek", "locked")
    /\ UNCHANGED <<backend, job, limit, waited>>

\* The second `run_for` is the last one.
ReseekServed(p) ==
    /\ Goto(p, "reseek", "work")
    /\ Serve
    /\ UNCHANGED <<job, limit, waited, outcome>>

ReseekLocked(p) ==
    /\ ~unlocked
    /\ End(p, "reseek", "locked")
    /\ UNCHANGED <<backend, job, limit, waited>>

-----------------------------------------------------------------------------
(* `unlock_and_wait`                                                       *)

\* `session unlock` reports the window; `ensure` goes back for the seed.
Granted(p, from) ==
    /\ unlocked
    /\ \/ job[p] = "unlock" /\ End(p, from, "ok")
       \/ job[p] = "get" /\ Goto(p, from, "reseek") /\ UNCHANGED outcome
    /\ UNCHANGED <<backend, job, limit, waited>>

CheckUnlocked(p) == Granted(p, "check")

CheckLocked(p) ==
    /\ ~unlocked
    /\ Goto(p, "check", "request")
    /\ UNCHANGED <<backend, job, limit, waited, outcome>>

Request(p) ==
    /\ Goto(p, "request", "poll")
    /\ requested' = TRUE
    /\ UNCHANGED <<unlocked, spent, job, limit, waited, outcome>>

PollUnlocked(p) == Granted(p, "poll")

\* A timeout leaves the request pending.  Without a limit nothing reads the
\* time waited, so it is not counted.
PollLocked(p) ==
    /\ ~unlocked
    /\ \/ waited[p] = limit[p] /\ End(p, "poll", "locked") /\ UNCHANGED waited
       \/ /\ waited[p] # limit[p] /\ pc[p] = "poll"
          /\ waited' = [waited EXCEPT ![p] = IF limit[p] = Forever THEN @ ELSE @ + 1]
          /\ UNCHANGED <<pc, outcome>>
    /\ UNCHANGED <<backend, job, limit>>

-----------------------------------------------------------------------------
(* The command's work, and how it ends.                                    *)

\* Only a command that succeeds, and is not `set`, comes to `finish`.
Work(p) ==
    /\ \/ job[p] = "get" /\ Goto(p, "work", "finish") /\ UNCHANGED outcome
       \/ job[p] = "rename" /\ End(p, "work", "ok")
    /\ UNCHANGED <<backend, job, limit, waited>>

\* `finish` reads the policy back from the session record.
Finish(p) ==
    /\ \/ Strict /\ Goto(p, "finish", "relock") /\ UNCHANGED outcome
       \/ ~Strict /\ End(p, "finish", "ok")
    /\ UNCHANGED <<backend, job, limit, waited>>

Relock(p) ==
    /\ End(p, "relock", "ok")
    /\ Drop
    /\ UNCHANGED <<job, limit, waited>>

\* An adopt, sync or delete that fails is passed over.
FinishFails(p) ==
    /\ Faults
    /\ \E stage \in {"finish", "relock"} : End(p, stage, "ok")
    /\ UNCHANGED <<backend, job, limit, waited>>

\* `session lock`
Lock(p) ==
    /\ End(p, "lock", "ok")
    /\ Drop
    /\ UNCHANGED <<job, limit, waited>>

Exit(p) ==
    /\ pc' = [pc EXCEPT ![p] = "idle"]
    /\ job' = [job EXCEPT ![p] = "none"]
    /\ limit' = [limit EXCEPT ![p] = Forever]
    /\ waited' = [waited EXCEPT ![p] = 0]
    /\ outcome' = [outcome EXCEPT ![p] = "none"]
    /\ UNCHANGED backend

Leave(p) == pc[p] = "done" /\ Exit(p)

\* A call fails, no login matches, or the user interrupts: the command ends
\* where it is, the re-lock not done and the request left pending.
Abort(p) ==
    /\ Faults
    /\ pc[p] \notin {"idle", "done"}
    /\ Exit(p)

-----------------------------------------------------------------------------
(* The phone and the backend.                                              *)

Approve ==
    /\ requested
    /\ requested' = FALSE
    /\ unlocked' = TRUE
    /\ spent' = FALSE
    /\ UNCHANGED <<pc, job, limit, waited, outcome>>

Dismiss ==
    /\ ~Obliging
    /\ requested
    /\ requested' = FALSE
    /\ UNCHANGED <<unlocked, spent, pc, job, limit, waited, outcome>>

Lapse ==
    /\ ~Obliging
    /\ unlocked
    /\ unlocked' = FALSE
    /\ spent' = FALSE
    /\ UNCHANGED <<requested, pc, job, limit, waited, outcome>>

Advance(p) ==
    \/ SeekServed(p) \/ SeekLocked(p) \/ ReseekServed(p) \/ ReseekLocked(p)
    \/ CheckUnlocked(p) \/ CheckLocked(p) \/ Request(p)
    \/ PollUnlocked(p) \/ PollLocked(p)
    \/ Work(p) \/ Finish(p) \/ Relock(p) \/ Lock(p) \/ Leave(p)

Next ==
    \/ \E p \in Invocations :
          \/ \E j \in Jobs, l \in Waits \cup {Forever} : Begin(p, j, l)
          \/ Advance(p)
          \/ FinishFails(p) \/ Abort(p)
    \/ Approve \/ Dismiss \/ Lapse

Spec == Init /\ [][Next]_vars

\* A process that has a call to make makes it: each is a process of its own.
LiveSpec == Spec /\ \A p \in Invocations : WF_vars(Advance(p))

\* And the person answers a request that stays on the phone.
AnsweredSpec == LiveSpec /\ WF_vars(Approve)

\* Even if no poll misses an unlock that comes again and again.
PatientSpec ==
    /\ Spec
    /\ \A p \in Invocations : SF_vars(Advance(p))
    /\ WF_vars(Approve)

-----------------------------------------------------------------------------
(* Properties.                                                             *)

Promise == INSTANCE ConfirmedAccess WITH
    window  <- unlocked /\ ~(Strict /\ spent),
    holders <- {p \in Invocations : pc[p] \in Holding}

\* Every access has an approval behind it, and on a strict slot one of its
\* own, although the seed is fetched in a later call than the one that saw the
\* approval and the unlock is dropped in a later one still.
Confirmed == Promise!Spec

\* `session create --strict`: "Drop the unlock when each command exits, so the
\* next one re-asks" (heyl-cli/src/main.rs).
NextAccessAsks == [][\A p \in Invocations :
    (Strict /\ pc[p] \in {"seek", "reseek"} /\ pc'[p] = "work") => ~spent]_vars

\* A command that reports UnlockRequired waited out its whole --wait
\* (unlock.rs ensure, lifecycle.rs unlock_and_wait).  Not so when commands
\* interleave: on a strict slot an approval that one of them has seen can be
\* dropped by the end of another before the first has fetched the seed.
UnlockRequiredIsTimeout == \A p \in Invocations :
    (job[p] \in {"get", "unlock"} /\ outcome[p] = "locked") =>
        waited[p] = limit[p]

\* --wait bounds the command, whoever else runs and whatever the phone does.
TimedCommandEnds == \A p \in Invocations :
    (limit[p] # Forever) ~> (pc[p] = "idle")

\* A command that waits without a limit stops waiting if the person answers:
\* `session unlock` "blocks until you approve" (heyl-cli/src/main.rs).  When
\* commands interleave, the approval may be used up and dropped between two
\* polls of one of them, which never asks again.
WaitEnds == \A p \in Invocations : (pc[p] = "poll") ~> (pc[p] # "poll")
=============================================================================
