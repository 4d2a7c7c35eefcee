---------------------------- MODULE SlotLifecycle ----------------------------
(***************************************************************************)
(* A slot is a local name for one session: an access token, a session      *)
(* private key and a session id in the operating system's keychain         *)
(* (heyl-app/src/session).  Several invocations of the CLI run at once     *)
(* over one keychain and one account, each may be killed between any two   *)
(* of its steps, and every keychain or backend call may fail.  This module *)
(* models `session create`, `session remove` and a reading command, each   *)
(* step one keychain or backend call.                                      *)
(*                                                                         *)
(* A keychain item is abstracted to the session it belongs to: a private   *)
(* key or an id is a session, a token a session and the generation that    *)
(* RefreshToken counts.                                                    *)
(***************************************************************************)
EXTENDS Naturals

CONSTANTS
    Slots,        \* slot names
    DefaultSlot,  \* the unnamed one, whose keychain service is plain "heyl"
    Invocations,  \* CLI processes
    Sessions,     \* sessions the backend can mint (bound: one per create)
    MaxRefresh,   \* bound: times the backend asks for one session's rotation
    Rotating,     \* slots whose token the backend may ask to rotate
    Exclusive,    \* TRUE: the user runs at most one invocation per slot
    FlakyReads,   \* TRUE: a keychain read may answer Unavailable
    Absent        \* no such keychain item

Token == [session : Sessions, gen : 0..MaxRefresh]

ASSUME SlotsAssumption == DefaultSlot \in Slots /\ Rotating \subseteq Slots
ASSUME MaxRefreshAssumption == MaxRefresh \in Nat
ASSUME SwitchAssumption == Exclusive \in BOOLEAN /\ FlakyReads \in BOOLEAN
ASSUME AbsentAssumption == Absent \notin Sessions /\ Absent \notin Token

VARIABLES
    token, key, sid,  \* keychain: the three items of each slot
    index,            \* keychain: the slot index, one item for the machine
    life,             \* backend: "unborn", "live" or "deleted", per session
    gen,              \* backend: the generation of the token it accepts
    meta,             \* META vault: "none", "listed" or "tombstoned"
    policied,         \* backend: sessions whose policy was written
    pc,               \* invocation: the call it makes next
    task,             \* invocation: what it was asked to do
    cred,             \* invocation: the credentials it holds
    seen,             \* invocation: the index as it read it
    did               \* invocation: what `remove` can report

keychain == <<token, key, sid, index>>
backend  == <<life, gen, meta, policied>>
locals   == <<task, cred, seen, did>>
vars     == <<token, key, sid, index, life, gen, meta, policied,
              pc, task, cred, seen, did>>

CreateStages == {"pairing", "storeKey", "storeId", "storeToken",
                 "register", "policy"}
AdoptStages  == {"adoptToken", "adoptId", "adoptKey"}
UnlockStages == {"runToken", "runKey", "sync", "refresh",
                 "storeRefreshed", "open"}
ForgetStages == {"forgetToken", "forgetKey", "forgetId"}
Stages == CreateStages \cup AdoptStages \cup UnlockStages \cup ForgetStages
          \cup {"idle", "tombstone", "delete", "indexRead", "indexWrite", "done"}

Item   == Sessions \cup {Absent}
Task   == [job : {"none", "create", "remove", "read"},
           slot : Slots, force : BOOLEAN]
Cred   == [token : Token \cup {Absent}, hand : Token \cup {Absent},
           id : Item, key : Item]
NoTask == [job |-> "none", slot |-> DefaultSlot, force |-> FALSE]
NoCred == [token |-> Absent, hand |-> Absent, id |-> Absent, key |-> Absent]

TypeOK ==
    /\ token \in [Slots -> Token \cup {Absent}]
    /\ key \in [Slots -> Item]
    /\ sid \in [Slots -> Item]
    /\ index \subseteq Slots
    /\ life \in [Sessions -> {"unborn", "live", "deleted"}]
    /\ gen \in [Sessions -> 0..MaxRefresh]
    /\ meta \in [Sessions -> {"none", "listed", "tombstoned"}]
    /\ policied \subseteq Sessions
    /\ pc \in [Invocations -> Stages]
    /\ task \in [Invocations -> Task]
    /\ cred \in [Invocations -> Cred]
    /\ seen \in [Invocations -> SUBSET Slots]
    /\ did \in [Invocations -> SUBSET {"tombstoned", "deleted"}]

Init ==
    /\ token = [s \in Slots |-> Absent]
    /\ key = [s \in Slots |-> Absent]
    /\ sid = [s \in Slots |-> Absent]
    /\ index = {}
    /\ life = [n \in Sessions |-> "unborn"]
    /\ gen = [n \in Sessions |-> 0]
    /\ meta = [n \in Sessions |-> "none"]
    /\ policied = {}
    /\ pc = [p \in Invocations |-> "idle"]
    /\ task = [p \in Invocations |-> NoTask]
    /\ cred = [p \in Invocations |-> NoCred]
    /\ seen = [p \in Invocations |-> {}]
    /\ did = [p \in Invocations |-> {}]

-----------------------------------------------------------------------------
(* Helpers.                                                                *)

Goto(p, from, to) == pc[p] = from /\ pc' = [pc EXCEPT ![p] = to]

SlotOf(p) == task[p].slot

\* The backend answers a call that carries t.
Accepted(t) == t # Absent /\ life[t.session] = "live" /\ gen[t.session] = t.gen

\* Nobody else works on slot s: the discipline Exclusive asks of the user.
Free(s) == Exclusive =>
    \A q \in Invocations : pc[q] # "idle" => SlotOf(q) # s

Begin(p, job, s, force, stage) ==
    /\ Goto(p, "idle", stage)
    /\ Free(s)
    /\ task' = [task EXCEPT ![p] = [job |-> job, slot |-> s, force |-> force]]
    /\ UNCHANGED <<keychain, backend, cred, seen, did>>

\* The process ends; its memory goes with it.
Exit(p) ==
    /\ pc' = [pc EXCEPT ![p] = "idle"]
    /\ task' = [task EXCEPT ![p] = NoTask]
    /\ cred' = [cred EXCEPT ![p] = NoCred]
    /\ seen' = [seen EXCEPT ![p] = {}]
    /\ did' = [did EXCEPT ![p] = {}]
    /\ UNCHANGED <<keychain, backend>>

-----------------------------------------------------------------------------
(* Mutated forms of the definitions below: bugs that the properties catch.  *)

\* The session id of the answer is dropped.
MutCreateTokens(p) == \E n \in Sessions :
    /\ Goto(p, "pairing", "storeKey")
    /\ life[n] = "unborn"
    /\ life' = [life EXCEPT ![n] = "live"]
    /\ cred' = [cred EXCEPT ![p] = [token |-> [session |-> n, gen |-> 0],
                                    hand |-> Absent, id |-> Absent, key |-> n]]
    /\ UNCHANGED <<keychain, gen, meta, policied, task, seen, did>>

\* The session id is never stored.
MutStoreKey(p) ==
    /\ Goto(p, "storeKey", "storeToken")
    /\ key' = [key EXCEPT ![SlotOf(p)] = cred[p].key]
    /\ UNCHANGED <<token, sid, index, backend, locals>>

\* The policy is never written.
MutRegister(p) ==
    /\ Goto(p, "register", "indexRead")
    /\ Accepted(cred[p].token)
    /\ meta' = [meta EXCEPT ![cred[p].id] = "listed"]
    /\ UNCHANGED <<keychain, life, gen, policied, locals>>

\* The refreshed token is used but not stored.
MutStoreRefreshed(p) ==
    /\ Goto(p, "storeRefreshed", "open")
    /\ cred' = [cred EXCEPT ![p].token = cred[p].hand, ![p].hand = Absent]
    /\ UNCHANGED <<keychain, backend, task, seen, did>>

\* The id is read from the default slot, whatever the slot.
MutAdoptId(p) ==
    /\ Goto(p, "adoptId", "adoptKey")
    /\ sid[DefaultSlot] # Absent
    /\ cred' = [cred EXCEPT ![p].id = sid[DefaultSlot]]
    /\ UNCHANGED <<keychain, backend, task, seen, did>>

\* A delete that failed is only noted, --force or not.
MutSkipDelete(p) ==
    /\ Goto(p, "delete", "forgetToken")
    /\ UNCHANGED <<keychain, backend, locals>>

\* Forgetting starts with the key.
MutForgetToken(p) ==
    /\ Goto(p, "forgetToken", "forgetKey")
    /\ key' = [key EXCEPT ![SlotOf(p)] = Absent]
    /\ UNCHANGED <<token, sid, index, backend, locals>>

\* The private key is not among the items forgotten.
MutForgetKey(p) ==
    /\ Goto(p, "forgetKey", "forgetId")
    /\ UNCHANGED <<keychain, backend, locals>>

-----------------------------------------------------------------------------
(* session create                                                          *)

\* `exists` takes any failed read of the token for "no credentials".
Exists(s) == token[s] # Absent

BeginCreate(p, s) ==
    /\ ~Exists(s) \/ FlakyReads
    /\ Begin(p, "create", s, FALSE, "pairing")

\* The long poll returns when the phone answers, however much later.
CreateTokens(p) == \E n \in Sessions :
    /\ Goto(p, "pairing", "storeKey")
    /\ life[n] = "unborn"
    /\ life' = [life EXCEPT ![n] = "live"]
    /\ cred' = [cred EXCEPT ![p] = [token |-> [session |-> n, gen |-> 0],
                                    hand |-> Absent, id |-> n, key |-> n]]
    /\ UNCHANGED <<keychain, gen, meta, policied, task, seen, did>>

StoreKey(p) ==
    /\ Goto(p, "storeKey", "storeId")
    /\ key' = [key EXCEPT ![SlotOf(p)] = cred[p].key]
    /\ UNCHANGED <<token, sid, index, backend, locals>>

StoreId(p) ==
    /\ Goto(p, "storeId", "storeToken")
    /\ sid' = [sid EXCEPT ![SlotOf(p)] = cred[p].id]
    /\ UNCHANGED <<token, key, index, backend, locals>>

StoreToken(p) ==
    /\ Goto(p, "storeToken", "register")
    /\ token' = [token EXCEPT ![SlotOf(p)] = cred[p].token]
    /\ UNCHANGED <<key, sid, index, backend, locals>>

Register(p) ==
    /\ Goto(p, "register", "policy")
    /\ Accepted(cred[p].token)
    /\ meta' = [meta EXCEPT ![cred[p].id] = "listed"]
    /\ UNCHANGED <<keychain, life, gen, policied, locals>>

WritePolicy(p) ==
    /\ Goto(p, "policy", "indexRead")
    /\ Accepted(cred[p].token)
    /\ policied' = policied \cup {cred[p].id}
    /\ UNCHANGED <<keychain, life, gen, meta, locals>>

-----------------------------------------------------------------------------
(* The slot index, read and rewritten whole.                               *)

IndexRead(p) ==
    /\ Goto(p, "indexRead", "indexWrite")
    /\ \E read \in {index} \cup (IF FlakyReads THEN {{}} ELSE {}) :
          seen' = [seen EXCEPT ![p] = read]
    /\ UNCHANGED <<keychain, backend, task, cred, did>>

IndexWrite(p) ==
    /\ Goto(p, "indexWrite", "done")
    /\ index' = IF task[p].job = "remove" THEN seen[p] \ {SlotOf(p)}
                ELSE IF SlotOf(p) \in seen[p] THEN index
                ELSE seen[p] \cup {SlotOf(p)}
    /\ UNCHANGED <<token, key, sid, backend, locals>>

Finish(p) == pc[p] = "done" /\ Exit(p)

-----------------------------------------------------------------------------
(* Recovering the seed: `run_in`, with token rotation on the way.          *)

BeginRead(p, s) == Begin(p, "read", s, FALSE, "runToken")

RunToken(p) ==
    /\ Goto(p, "runToken", "runKey")
    /\ token[SlotOf(p)] # Absent
    /\ cred' = [cred EXCEPT ![p].hand = token[SlotOf(p)]]
    /\ UNCHANGED <<keychain, backend, task, seen, did>>

\* Only now does the API client take the token read in the step before.
RunKey(p) ==
    /\ Goto(p, "runKey", "sync")
    /\ key[SlotOf(p)] # Absent
    /\ cred' = [cred EXCEPT ![p].key = key[SlotOf(p)],
                            ![p].token = cred[p].hand, ![p].hand = Absent]
    /\ UNCHANGED <<keychain, backend, task, seen, did>>

Sync(p) ==
    /\ Accepted(cred[p].token)
    /\ \/ Goto(p, "sync", "open")
       \/ /\ SlotOf(p) \in Rotating
          /\ gen[cred[p].token.session] < MaxRefresh
          /\ Goto(p, "sync", "refresh")
    /\ UNCHANGED <<keychain, backend, locals>>

\* Rotation kills the old token at once.
RefreshToken(p) ==
    LET n == cred[p].token.session IN
    /\ Goto(p, "refresh", "storeRefreshed")
    /\ Accepted(cred[p].token)
    /\ gen' = [gen EXCEPT ![n] = @ + 1]
    /\ cred' = [cred EXCEPT ![p].hand = [session |-> n, gen |-> gen[n] + 1]]
    /\ UNCHANGED <<keychain, life, meta, policied, task, seen, did>>

\* Whatever slot the run is for, the refreshed token goes to the default one.
StoreRefreshed(p) ==
    /\ Goto(p, "storeRefreshed", "open")
    /\ token' = [token EXCEPT ![DefaultSlot] = cred[p].hand]
    /\ cred' = [cred EXCEPT ![p].token = cred[p].hand, ![p].hand = Absent]
    /\ UNCHANGED <<key, sid, index, backend, task, seen, did>>

\* The grant the backend serves is sealed to the key of the token's session.
Open(p) ==
    /\ Goto(p, "open", IF task[p].job = "remove" THEN "tombstone" ELSE "done")
    /\ Accepted(cred[p].token)
    /\ cred[p].key = cred[p].token.session
    /\ UNCHANGED <<keychain, backend, locals>>

-----------------------------------------------------------------------------
(* session remove                                                          *)

BeginRemove(p, s, force) == Begin(p, "remove", s, force, "adoptToken")

AdoptToken(p) ==
    /\ Goto(p, "adoptToken", "adoptId")
    /\ token[SlotOf(p)] # Absent
    /\ cred' = [cred EXCEPT ![p].token = token[SlotOf(p)]]
    /\ UNCHANGED <<keychain, backend, task, seen, did>>

AdoptId(p) ==
    /\ Goto(p, "adoptId", "adoptKey")
    /\ sid[SlotOf(p)] # Absent
    /\ cred' = [cred EXCEPT ![p].id = sid[SlotOf(p)]]
    /\ UNCHANGED <<keychain, backend, task, seen, did>>

AdoptKey(p) ==
    /\ Goto(p, "adoptKey", "runToken")
    /\ key[SlotOf(p)] # Absent
    /\ cred' = [cred EXCEPT ![p].key = key[SlotOf(p)]]
    /\ UNCHANGED <<keychain, backend, task, seen, did>>

\* An answer that is lost after the commit is an error to the caller.
Tombstone(p) == \E answered \in BOOLEAN :
    /\ Goto(p, "tombstone", "delete")
    /\ answered \/ task[p].force
    /\ Accepted(cred[p].token)
    /\ meta[cred[p].id] # "none"
    /\ meta' = [meta EXCEPT ![cred[p].id] = "tombstoned"]
    /\ did' = [did EXCEPT ![p] = IF answered THEN @ \cup {"tombstoned"} ELSE @]
    /\ UNCHANGED <<keychain, life, gen, policied, task, cred, seen>>

DeleteSession(p) == \E answered \in BOOLEAN :
    /\ Goto(p, "delete", "forgetToken")
    /\ answered \/ task[p].force
    /\ Accepted(cred[p].token)
    /\ life[cred[p].id] = "live"
    /\ life' = [life EXCEPT ![cred[p].id] = "deleted"]
    /\ did' = [did EXCEPT ![p] = IF answered THEN @ \cup {"deleted"} ELSE @]
    /\ UNCHANGED <<keychain, gen, meta, policied, task, cred, seen>>

\* --force: a failed step is noted and the next one tried.
SkipAdopt(p) ==
    /\ task[p].force
    /\ \E stage \in AdoptStages : Goto(p, stage, "forgetToken")
    /\ cred' = [cred EXCEPT ![p] = NoCred]
    /\ UNCHANGED <<keychain, backend, task, seen, did>>

SkipTombstone(p) ==
    /\ task[p].force
    /\ \E stage \in UnlockStages \cup {"tombstone"} : Goto(p, stage, "delete")
    /\ cred' = [cred EXCEPT ![p].hand = Absent]
    /\ UNCHANGED <<keychain, backend, task, seen, did>>

SkipDelete(p) ==
    /\ task[p].force
    /\ Goto(p, "delete", "forgetToken")
    /\ UNCHANGED <<keychain, backend, locals>>

ForgetToken(p) ==
    /\ Goto(p, "forgetToken", "forgetKey")
    /\ token' = [token EXCEPT ![SlotOf(p)] = Absent]
    /\ UNCHANGED <<key, sid, index, backend, locals>>

ForgetKey(p) ==
    /\ Goto(p, "forgetKey", "forgetId")
    /\ key' = [key EXCEPT ![SlotOf(p)] = Absent]
    /\ UNCHANGED <<token, sid, index, backend, locals>>

ForgetId(p) ==
    /\ Goto(p, "forgetId", "indexRead")
    /\ sid' = [sid EXCEPT ![SlotOf(p)] = Absent]
    /\ UNCHANGED <<token, key, index, backend, locals>>

-----------------------------------------------------------------------------
(* The environment.                                                        *)

\* Any call returns an error that ends the command, or the process is killed.
\* A call whose answer is lost is its effect followed by this step.
Abort(p) == pc[p] \notin {"idle", "done"} /\ Exit(p)

\* The user deletes the device in heylogin's app, which leaves its META entry.
AppDeletes(n) ==
    /\ life[n] = "live"
    /\ life' = [life EXCEPT ![n] = "deleted"]
    /\ UNCHANGED <<keychain, gen, meta, policied, pc, locals>>

Create(p) ==
    \/ \E s \in Slots : BeginCreate(p, s)
    \/ CreateTokens(p) \/ StoreKey(p) \/ StoreId(p) \/ StoreToken(p)
    \/ Register(p) \/ WritePolicy(p)

Unlock(p) ==
    \/ \E s \in Slots : BeginRead(p, s)
    \/ RunToken(p) \/ RunKey(p) \/ Sync(p)
    \/ RefreshToken(p) \/ StoreRefreshed(p) \/ Open(p)

Remove(p) ==
    \/ \E s \in Slots, force \in BOOLEAN : BeginRemove(p, s, force)
    \/ AdoptToken(p) \/ AdoptId(p) \/ AdoptKey(p)
    \/ Tombstone(p) \/ DeleteSession(p)
    \/ SkipAdopt(p) \/ SkipTombstone(p) \/ SkipDelete(p)
    \/ ForgetToken(p) \/ ForgetKey(p) \/ ForgetId(p)

Next ==
    \/ \E p \in Invocations :
          Create(p) \/ Unlock(p) \/ Remove(p)
          \/ IndexRead(p) \/ IndexWrite(p) \/ Finish(p) \/ Abort(p)
    \/ \E n \in Sessions : AppDeletes(n)

Spec == Init /\ [][Next]_vars

-----------------------------------------------------------------------------
(* Properties.  Those about one slot ask for Exclusive; the runs that drop  *)
(* it, or let a rotation or a failed read in, show what goes wrong.         *)

\* Whatever `create` and `remove` were killed between, a slot that `exists`
\* can be adopted, and its three items are of one session: lifecycle.rs stores
\* the token last and `forget` deletes it first.
WholeTriple == \A s \in Slots : token[s] # Absent =>
    key[s] = token[s].session /\ sid[s] = token[s].session

\* A live session is never forgotten by a `remove` without --force: the one
\* token that reaches it leaves the keychain only after the session is gone
\* from the backend and from the phone's list.
NoSilentOrphan == [][\A s \in Slots :
    (token[s] # Absent /\ token'[s] = Absent) =>
        \/ /\ life[token[s].session] = "deleted"
           /\ meta[token[s].session] = "tombstoned"
        \/ \E p \in Invocations : SlotOf(p) = s /\ task[p].force]_vars

\* A slot that holds a session is never given to another: `create` fails if the
\* slot is taken (lifecycle.rs create, SlotExists).  It looks before a wait of
\* minutes and stores after it, so this does not hold without Exclusive; and it
\* takes a token that it cannot read for none, so nor does it with FlakyReads.
KeepsCredentials == [][\A s \in Slots :
    (token[s] # Absent /\ token'[s] # Absent) =>
        token'[s].session = token[s].session]_vars

\* A retirement deletes the session its own slot held and no other, although
\* it carries the id and the token through the unlock and the tombstone.
DeletesOwnSession == [][\A p \in Invocations, n \in Sessions :
    (pc[p] = "delete" /\ pc'[p] = "forgetToken" /\ life'[n] # life[n]) =>
        token[SlotOf(p)] # Absent /\ token[SlotOf(p)].session = n]_vars

\* What a `remove` that succeeds reports is so: without --force, success means
\* a session that is deleted and tombstoned; with it, each flag is honest;
\* either way nothing of the slot is left in the keychain.
RemoveReportsTruth == \A p \in Invocations :
    (task[p].job = "remove" /\ pc[p] = "done") =>
        /\ ~task[p].force => did[p] = {"tombstoned", "deleted"}
        /\ "deleted" \in did[p] => life[cred[p].id] = "deleted"
        /\ "tombstoned" \in did[p] => meta[cred[p].id] = "tombstoned"
        /\ token[SlotOf(p)] = Absent
        /\ key[SlotOf(p)] = Absent
        /\ sid[SlotOf(p)] = Absent

\* A `create` that reports success leaves a slot that works: its credentials
\* are the new session's, the phone lists the device and the policy is set.
CreateReportsTruth == \A p \in Invocations :
    (task[p].job = "create" /\ pc[p] = "done") =>
        /\ token[SlotOf(p)] # Absent
        /\ token[SlotOf(p)].session = cred[p].id
        /\ meta[cred[p].id] = "listed"
        /\ cred[p].id \in policied

\* A command that recovered the seed leaves its slot usable: the token it
\* leaves in the keychain is the one the backend accepts, rotated or not.
ReadLeavesUsableToken == \A p \in Invocations :
    (task[p].job = "read" /\ pc[p] = "done"
     /\ life[cred[p].token.session] = "live") => Accepted(token[SlotOf(p)])
=============================================================================
