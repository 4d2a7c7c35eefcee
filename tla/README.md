# heyl: a TLA+ verification project

heyl is a command-line client for heylogin, a password manager whose vaults are
unlocked from a phone. This directory holds TLA+ models of it, from the keychain
items of a session to the replay of a recorded scenario, with the TLC runs that
check them on small instances and the TLAPS proofs that hold for every instance.
Paths below are relative to `src/crates/`; `PROJECT.json` maps every definition
to the lines it models.

## 1. The system

One invocation of `heyl` is one single-threaded process that runs one command.
It keeps nothing on disk but a few keychain items, asks heylogin's backend for
everything else, and exits. What makes it hard is outside the process:
several invocations run at once (a person's and an agent's, by design), each
may be killed between any two calls, every call may fail or lose its answer, the
person with the phone answers late, or not at all, and the account has other
clients.

| Component | State it keeps | Operations | Talks to | Modules |
|---|---|---|---|---|
| **Session slots** `heyl-app/src/session/{mod,lifecycle}.rs` | per slot, three keychain items (access token, session private key, session id); one index of slot names for the machine | `create`, `remove` (`--force`), `adopt`, `exists`, `forget`, `slots`, `index_add`, `index_remove` | keychain, backend, META vault | `SlotLifecycle`, `Pairing` |
| **Keychain** `heyl-ports/src/secret_store.rs`, `heyl-platform/src/keychain.rs` | the items | `get`, `set`, `delete`, each of one item | the operating system | `SlotLifecycle` |
| **Seed recovery and rotation** `heyl-app/src/unlock.rs` | none between invocations | `run_for`, `ensure`; rotates a token that is due | keychain, `sync`, `refresh_token` | `SlotLifecycle`, `SessionUnlock`, `KeyChain` |
| **Unlock, lock, strict policy** `heyl-app/src/session/lifecycle.rs` | at the backend: an unlock with an end, a pending request | `unlock_and_wait`, `poll_for_unlock`, `finish`, `lock` | backend, phone | `SessionUnlock` |
| **Settings** `heyl-app/src/session/settings.rs`, `heyl-domain/src/session.rs` | at the backend: time limit and `client_settings`; in the vault: the display name | `set`, `get`, `list`, `parse_timeout` | backend, META vault | `SessionSettings`, `Durations` |
| **META vault** `heyl-app/src/meta_vault.rs`, `heyl-vault/src/meta.rs` | the vault's commits, at the backend | `open`, `commit`; `upsert_session`, `set_description`, `tombstone_session`, `disambiguate` | backend, other clients | `MetaVault` |
| **heymerge** `heyl-vault/src/merge.rs` | none | `fold` | | `Heymerge` |
| **`get`, logins** `heyl-app/src/get.rs`, `heyl-vault/src/login.rs` | none | select, rank and decrypt a login | vaults | `GetLogin` |
| **Recovery** `heyl-app/src/recovery.rs` | writes the default slot | `run`: challenge, confirm, code, tokens, two writes | backend, keychain, terminal | `Recovery` |
| **Doctor** `heyl-app/src/doctor.rs` | none | compares every key, opens every vault | backend | `Doctor` |
| **Key hierarchy** `heyl-domain/src/{keys,locks,sync}.rs`, `heyl-crypto` | none | derive, unwrap | | `KeyChain`, `Account` |
| **Domain API** `heyl-grpc/src/domain.rs` | the token in use | one method a call; `retrying_read` | transport | `Transport` |
| **Mapping and status** `heyl-grpc/src/{map,status,request}.rs` | none | wire to domain, status to error | | `WireMap`, `ApiErrors` |
| **Recording and replay** `heyl-grpc/src/{corpus,server}.rs`, `tools/heyl-fixtures` | the records of a scenario, which are used up | record, collapse, scrub, replay | binary, backend | `Transport` |
| **Time** `heyl-domain/src/time.rs`, `heyl-platform/src/clock.rs` | none | `now`, `next_unlock_deadline` | | `Durations` |
| **Command line** `heyl-cli/src/main.rs`, exit codes of `heyl-app/src/error.rs` | none | runs a use case, then `finish` or not | all | `Commands`, `SessionUnlock` |
| Codec, JSON, output, platform, workbench, generated and vendored code | none that outlives a call | conversions and I/O | | see section 6 |

How they interact:

- A command on a slot reads the slot's items, gives the token to the API client
  and syncs. The snapshot carries the seed, sealed to the session's key, while an
  unlock lasts. `ensure` asks the phone and polls when it does not, then syncs
  again: the approval is seen in one call and used in a later one.
- The seed opens the profiles' seeds in the snapshot, and they open the vaults'
  secrets, each through a lock that another client made and may make anew. A vault's
  lock and commits come from later calls than the snapshot.
- A snapshot may say that the token is due. The refreshed one replaces it at the
  backend at once, and has to be stored before anything else happens.
- `create` shows a QR code, waits for the phone, gets a new session, stores three
  items, writes an entry into the META vault, writes the policy and adds the
  slot to the index: eight calls that change state in four places.
- `remove` reads the items, recovers the seed, tombstones the vault's entry,
  deletes the session, deletes the three items and rewrites the index. With
  `--force`, a step that fails is passed over.
- `recovery` disconnects every other authenticator in the call that opens its session,
  then writes two items of the default slot.
- The META vault is read by folding all its commits and written by committing the
  whole folded document under a guard on the latest commit. Other clients commit
  deltas.
- A recording is made by a proxy between the binary and the backend, out of the same
  client and server code; a replay answers from the records, with no backend.

### What makes each component correct

- *Slots*: what looks like a slot is one, with three items of one session;
  a slot that is taken is not written over; a session that is live is not forgotten; what a command
  reports is what happened; a device that the phone lists can be unlocked here.
- *Rotation*: a command leaves behind a token that the backend takes.
- *Unlock*: no access without an approval; on a strict slot, one approval per
  access; a wait that can end does; `--wait` bounds it, and a command gives up for no
  other reason.
- *Settings*: a set changes its own setting; `list` leaves out no slot, and calls gone
  only a session that is.
- *META vault*: a commit is one edit of one device's entry; an edit accepted is an
  edit that is read; tombstones stay; names of live devices differ.
- *heymerge*: the fold is the newest version of each element, and commits that do
  not tie may come in any order.
- *Key chain*: an account in the middle of a change of keys reads as stale, never as
  broken.
- *`get`*: the login printed is the best match of every vault that opened, and a script
  can tell a failure from a miss. *`doctor`*: the broken link is named and no other.
- *Recovery*: nothing is lost that was not named and agreed to; no new token without its key.
- *Transport*: a mutation is asked once, a read a bounded number of times; errors and
  identities survive the proxy; a replay ends as the live run did, or says that it cannot.
- *Mapping, time*: all of a snapshot or none of it; windows of the length asked for.

## 2. The modules

| Module | What it is |
|---|---|
| `SlotLifecycle` | slots, index, tokens and their rotation, `create`, `remove`, a reading command |
| `ConfirmedAccess` | abstract: an access takes an approval, on a strict slot one of its own |
| `SessionUnlock` | the unlock, the poll, `finish`, `lock`, the phone |
| `SessionSettings` | the session record; `set`, `get`, `list` |
| `Heymerge` | `Merge`, `Fold`, and `Latest`, what the fold should be |
| `DeviceRegistry` | abstract: a list of devices whose entries change one at a time |
| `MetaVault` | open, edit and commit of the META vault by heyl, deltas by others |
| `KeyChain` | symbolic keys, boxes and signatures; how a profile, a vault and a grant open |
| `Account` | an account at the backend, whole or with one thing wrong, and a client that re-keys it; over `KeyChain` and `Heymerge` |
| `GetLogin`, `Doctor` | two commands over `Account` |
| `Recovery`, `Pairing` | two commands over `KeyChain` with a keychain slot of their own |
| `Commands` | composes the four: which command runs, beside whom, and its exit code |
| `ApiErrors` | a refusal's way from the wire to the port, into a record and back |
| `Transport` | a scenario recorded through the proxy and replayed; over `ApiErrors` and `Selection` |
| `WireMap` | a `SyncUpdate` and the snapshot made of it |
| `Selection` | `Pick`: the members of a sequence that are in a set, in their order |
| `Durations` | windows as typed, and the end of a self-granted one |
| `MC...` | instances for TLC; `MCAlgorithms` tries the pure modules over bounded inputs |
| `...Proofs` | theorems and their proofs |

### SlotLifecycle and Pairing

`token`, `key` and `sid` are the keychain's three items of each slot, `index`
the slot index. An item is abstracted to the session it belongs to; a token also
has the generation that rotation counts. The backend is `life` (a session is
unborn, live or deleted), `gen` (the one generation of its token it accepts),
`meta` (its entry in the META vault) and `policied`. A process is `pc`, named for the
call it makes next, `task`, `cred` (what it holds in memory: the token its API
client carries, a token in hand, an id, a key), `seen` (the index as read) and
`did` (what `remove` can report).

Every action is one keychain or backend call with the code around it up to the
next call. The stages follow `lifecycle.rs` and `unlock.rs` in order: `create`
is pairing, storeKey, storeId, storeToken, register, policy, indexRead,
indexWrite; `remove` is the three reads of `adopt`, `run_for`, tombstone,
delete, the three deletes of `forget` in the order of `StoredSecret::ALL`
(token first), and the index. `Abort` ends a process at any stage: it is a kill,
a failed call (`?` in the code) and, after an effect, a lost answer.
`SkipAdopt`, `SkipTombstone` and `SkipDelete` are the arms of `--force`.

`Register` and `Tombstone` are one step each: the commit of the vault, whose own
steps are `MetaVault`'s. `Open` stands for the check of the sealed seed and for
the calls behind it, and asks only what matters here: the token is accepted, and
the key is the session's.

`Pairing` is `create` once more, for what `SlotLifecycle` leaves out: which key is
drawn for what, what may come over the channel from whichever phone scans the
code, what is signed and published in the vault, and the window it grants itself. Its
slot is its own, and one process: races for a slot are `SlotLifecycle`'s.

### SessionUnlock and ConfirmedAccess

One slot, whose items are in place. `unlocked` is the backend serving the
sealed seed: `Session::unlocked_until` and `SyncUpdate.session_unlock` are taken
to be there together, as they are in the backend's answer. `requested` is the
pending request. `spent` is a history variable: the present unlock has served an
access. A process goes seek (the sync of `run_for`), check and request (of
`unlock_and_wait`), poll, reseek (the second `run_for` of `ensure`), work,
finish, relock. `limit` and `waited` count the polls of one second against `--wait`.

The commands are `get` (and `doctor`, which has the same calls), `unlock`, `lock`
and `rename`, the `session set display-name` that recovers the seed with `run_for`
alone. The phone approves or dismisses a request; an unlock lapses by itself.

`ConfirmedAccess` has two variables: a window that was approved, and who holds
the seed. The mapping sends the window to `unlocked /\ ~(Strict /\ spent)`: on a
strict slot, an unlock that has served an access is no approval any more, although
the backend would still serve it. An access that happens then has no step in
`ConfirmedAccess`.

### SessionSettings

`record` is the session record at the backend: the time limit, and
`client_settings` as heyl sees that JSON text, which is an object with heyl's key
and those of others, or anything else. `FromWire` and `ToClientSettings` are the two
conversions of `SessionPolicy`. A `set` syncs, edits what it read and writes all of it
back; `stale` is a history variable that says whether somebody wrote in between.
`list` visits the slots of the index one call after another, in any order, and any of
its calls may fail. Another
client writes any record, the app or a removal deletes a session, a removal
forgets its items.

### Heymerge, MetaVault and DeviceRegistry

A document is a function from ids to elements. An element has a time, 0 standing
for the missing `updateTime`. `Merge` is `merge_list`, the level of list names
above it merging the same way; `Fold` is a recursive function over the log.

`MetaVault` has the vault's `commits`, the account's `live` sessions, the `clock`,
and of each writer its operation, its own session, the sessions its sync
returned (`known`), the guard (`base`) and the edited document (`doc`). A writer
syncs, opens (lists, folds and edits; the edit is local and belongs to the same
step) and commits, or is refused. Others commit deltas, the app deletes sessions and
leaves their entries, the clock moves. A display name is the counter that
`disambiguate` appends.

`DeviceRegistry` is the list of devices that the vault stands for: a step adds
one device, renames one, or tombstones one, and a tombstone stays. The mapping
takes each device's name and tombstone out of the fold. A commit of a whole stale
document would change several entries at once, and so would one that resurrects a
tombstone; neither is a step of the abstract specification.

### KeyChain and Account

A key is the tuple of what it was derived from: its kind, the context of its use, the
seed and the salt. A box opens with the key it was sealed to and with no other, a
signature verifies under the key, the context and the data it was made with. So a
wrong context, a forgotten salt, or a key of one tier used for the other is a
different key here as it is in `heyl-crypto`. heylogin's side derives its keys by
formulas of its own (`TheirKey`, ...), which the code's have to meet.

`Account` is the backend's state as a reading command meets it: the generation of
each profile's keys, its locks, each vault's lock and commits. Either one thing is
wrong with it from the start (`Faults`: a box that is garbled, a lock that is missing, a
published key that is another), or another client gives a profile new keys in three
writes, `Rekey`, `Relock` and `Reseal`, between any two calls of the command.

### GetLogin and Doctor

`get` goes through its flags, one `sync`, the scope, the teams whose names it has to
ask for, one open a vault, and the choice; `doctor` through the same start, the keys, one
open a vault, and the report. Every call may also fail. `why` says how each vault came
out, `found` what matched. Opening a vault is `Unwrap` (the two tiers of both locks,
in the order of `open_vault`) and then every commit for `get`, the newest for `doctor`.

### Recovery

`attached` and `granted` are the backend's, `key`, `token` and `sid` the default
slot's, `named` what the user was shown and agreed to. The stages are the calls in
`run`'s order; each may fail, `CreateTokens` may take effect and lose its answer,
and the process may die between any two. `late` is a history variable: phones that
were paired while the command ran.

### Commands

One of the four commands runs; `Environment` is the other clients, the phones and the
kill, wherever the command is. `ExitCode` is `AppError::exit_code`.

### ApiErrors, Transport

Of a status what matters is its number, the code of the `DomainError` in its details, and
whether its message says that the trailers never came. `Transport` runs `Program`, a list of
steps (invocations), each a list of calls: live, through `DomainApi`, the client, the
proxy's server, its client and the backend, which refuses, executes, answers, or has its
answer cut off; then again from the records (`Take`, with `used`), where a call that finds
none fails loudly. When a live step ends, its records are collapsed and scrubbed
(`Written`). On the way to the backend an identity (client type and token) becomes headers, an identity again, and
headers once more: `HeadersOf` leaves out what is not there, and `ContextFrom` rebuilds it as the server
does, with its own client type for one that is missing and without a token that is not in heylogin's scheme.
The backend refuses an identity that it does not take, so an identity lost on the way shows as a refusal. `polls`, `asks` and `drops` count a poll's answers, the
attempts of one call, and the responses cut.

### WireMap, Durations

`WireMap` maps a `SyncUpdate` part by part; of an id it matters whether it is one.
`Durations` has the widths of `u64` and `u32` as constants, so that overflow happens
in a narrow instance, and a time zone with one change of its offset; how jiff
resolves a local time that comes twice or never is external (`Resolve`).

## 3. What the runs show

Passing runs:

| Run | Instance | Shows |
|---|---|---|
| `slots_exclusive` (2.9 M states) | 2 slots, 2 processes that never share one, 2 sessions, a rotation of the default slot's token | slots are whole, through rotation too; no live session is forgotten without `--force`; `remove` deletes its own slot's session; what `create` and `remove` report of a success is true; a read that ends leaves a token that works |
| `unlock_strict` | strict, one command at a time, no failure, the person answers | implements `ConfirmedAccess`: one approval per access, over sequences of commands, late approvals and re-locks; a wait ends |
| `unlock_shared` | not strict, 2 processes at once, failures, dismissals, lapses | a command with `--wait` ends, whatever the other and the phone do |
| `vault_steady` | 2 writers, 2 devices, a steady clock | implements `DeviceRegistry`; an accepted edit is what is then read |
| `vault_foreign` | a writer, 2 devices, another client, a clock that may be set back | implements `DeviceRegistry`: a delta is not undone by a whole document |
| `settings` (580 k) | 2 slots, a process, another client that writes one of the records, removals, syncs that fail | a set changes its setting and keeps every key of others; a removal or a failure hides no other slot from `list` |
| `commands` (36 k) | 5 vaults of 2 profiles, 30 faults or one re-keying, 24 combinations of flags; 3 phones, one of them being enrolled, one without a salt; every attached set of authenticators | a re-keyed account reads as stale; `get` prints the best match; a failure is not a miss; `doctor` names the broken link; a recovery loses only what was named and leaves no new token without its key; a listed session unlocks here |
| `transport` (116 k) | 3 invocations of 8 calls, 3 retries, 3 polls, 4 drops, 2 refusals | mutations are asked once, and a read at most three times more, each time because it was cut; no call is refused for its client type or its token unless a step before it failed; a replay ends as the live run did, or for want of a record; a clean recording is complete |
| `algorithms` (122 k) | logs of up to 4 commits over two ids and three times; 22 numbers around the bounds of the widths; 5 days of half hours in 7 zones; updates of up to two vaults, a profile, a lock, a session | `Fold` is `Latest`; commits that do not tie may be swapped; windows are honoured; a grant ends tomorrow night; a snapshot is mapped whole or refused |

Runs that end in a violation, each a disagreement between the code and what its
comments or documents say (`findings` in PROJECT.json quotes them):

| Run | What happens |
|---|---|
| `slots_rotation_named` | the refreshed token of a named slot is stored in the default slot (`unlock.rs:110`) |
| `unlock_failed_get` | a read that fails after its unlock does not come to `finish`, and the next one does not ask |
| `recovery_slot` | a recovery over a slot that held a session leaves the old session's id beside the new token and key |

Some more properties that one would expect of this code do not hold of it, or not always. They are stated in the modules, no run
claims them without a condition, and each configuration below, run by hand as `tlc -config <file> <module>`, ends in TLC's counterexample:

| Configuration, module | Violates | What happens | What is written |
|---|---|---|---|
| `slots_shared.cfg`, `MCSlotLifecycle` | `KeepsCredentials` | two creates of one slot both find it empty (`lifecycle.rs:64`), minutes before they store; the second writes over the first one's session | "[`AppError::SlotExists`] if the slot is taken" (`lifecycle.rs:53`) |
| `slots_unreadable.cfg`, `MCSlotLifecycle` | `KeepsCredentials` | `exists` takes any failed read for an empty slot (`mod.rs:185`), and create writes over the session that is there | "[`PortError::NotFound`] if absent; [`PortError::Unavailable`] if the backing store could not be reached" (`secret_store.rs:114`) |
| `unlock_interleaved.cfg`, `MCSessionUnlock` | `UnlockRequiredIsTimeout` | one read's `finish` drops the unlock between another's poll and its second sync (`unlock.rs:67`), which ends with `UnlockRequired` and has no `--wait` | a read "waits for the approval rather than failing" (`unlock.rs:53`) |
| `unlock_missed.cfg`, `MCSessionUnlock` | `WaitEnds` | `finish` deletes the session's unlock whoever it was for (`lifecycle.rs:342`): a command that missed it between two polls never asks again, and polls on with nothing on the phone | "Blocks until you approve." (`main.rs:245`) |
| `vault_names.cfg`, `MCMetaVault` | `UniqueNames` | the list of live sessions is older than the vault that is read with it (`lifecycle.rs:215`): a device that registered in between is taken for a deleted one, and its name is given again | "A display name that no live device already uses." (`meta.rs:121`) |
| `vault_clock.cfg`, `MCMetaVault` | `EditTakesEffect` | an edit stamped by a clock that was set back (`meta.rs:160`) is older than the entry it edits, is accepted, and is lost | "with a key we exclusively own, we cannot lose a merge" (DESIGN.md:205) |
| `settings_gone.cfg`, `MCSessionSettings` | `GoneIsGone` | `list` shows any sync that fails as a session that is gone (`settings.rs:242`) | "A rejected token means the session was deleted elsewhere" (`settings.rs:225`) |

Each differs from a passing run by a constant or a property, so that they also say
under which conditions the code does keep its promises: `slots_exclusive` has processes that do not share a slot, a
keychain that answers and a rotation of the default slot's token alone; `unlock_strict` has one command at a time, none
of which fails; `vault_steady` has a clock that is not set back. One more such condition has no configuration of its own: with
`"rename"` among the `Jobs` of `unlock_strict`, TLC finds `Confirmed` violated, since `session set display-name`
unlocks and never comes to `finish`.

### Other disagreements met while modelling

These are differences between what is written and what runs that no finding states,
because a definition of a module says it and no property is violated by it:

- DESIGN.md:203 has a rejected guard read again and retried once; `commit` fails the
  command (`meta_vault.rs:125`, `MetaVault!Reject`).
- `get -V` of an organization's admin vault is the exit code of a name that does not
  exist, since `resolve_scope` looks among login vaults only (`get.rs:268`); DESIGN.md:845
  has it 1. A team named by `-v` whose name vault does not open is `NoSuchVault` too (`GetLogin!NameTeam`).
- `doctor` says that it never aborts, and ends without a report when no profile can be
  unlocked (`Doctor!CheckKeys`). It decrypts the newest commit of a vault only, while
  `get` needs them all. A published key of the wrong length reads as one not published.
- A phone that is paired between the listing and the `CreateTokens` of a recovery is
  disconnected without being named (`late`). With `--confirm` nothing is printed before the call (`recovery.rs:238`); the
  model takes all that is attached for named then, the flag being the agreement. A recovery that dies between its two
  writes leaves the old token beside the new key. A recovered session has no entry in
  the META vault.
- `auto-extend` can be set and shown, and nothing calls `ExtendSessionUnlock`.
- A `remove` whose `delete_session` took effect and lost its answer keeps its slot, and every further `remove` without
  `--force` fails, its token being dead (`SlotLifecycle!Abort` at delete). A `create` that fails after the token is
  stored leaves a slot that a second `create` refuses. No document says what either is to leave.
- A connection that fails becomes `Backend`, which is not retried, whatever the comment on
  `ApiError::Transport` says (`ApiErrors!ToApiError`).
- The keychain adapter's comment has two items a session; there are three, and the index.
- When 02:00 comes twice, jiff keeps the offset at hand, so that the deadline may be the
  second one, while the other clients take the first (`Durations!Resolve`).

### Bounds

- Two slots are enough for one to be the default and one not, and for a step on
  one to touch the other. Two processes are enough for every race here: each
  property speaks of one slot, one session or one pair of processes. `settings` has
  one process: the other client writes whatever a second process could.
- `Sessions` bounds how often `create` gets a session: two, for a slot that is
  removed and created again, or created twice.
- `MaxRefresh` bounds the rotations of a session: one rotation is enough to leave a
  dead token anywhere.
- `MaxWait` bounds `--wait` in polls: 2 gives a command that is not at its first
  poll nor at its last. `Forever` is no `--wait`, and then the time waited, which
  nothing reads, is not counted.
- `MaxCommits` bounds the vault's log, the first commit included: 4 leaves room for a
  device's entry, another's, and an edit of either between an open and a commit.
  `MaxClock` is 2: what matters is which of two times is greater, or neither.
  Another client's device bears heyl's own name or the one heyl would take next.
- `Limits` are two windows, the least and the default, so that every filling in of
  a value is visible.
- `MaxRekeys` is 1 in `commands`: one change of keys is three writes, and a command sees any
  part of it; the theorem has any number. The vaults cover each kind with a name
  of its own, one without, one that holds no logins; the logins tie on every ranking key but one.
- `MaxPairings` is 1: one phone that comes in late.
- `MaxDrops` is 4, one more than `READ_RETRIES`: the least for which a read runs out of attempts.
  `MaxPolls` is 3, so that a run of polls has a middle to be dropped.
- `MaxLen` is 4 in `MCAlgorithms`, over documents with distinct elements: a merge
  of merges on either side, and every tie. `MaxU64` and `MaxU32` are narrow, and
  `Numbers` lie around each limit that they make.

Symmetry is declared for processes, sessions and devices, and only in runs without
liveness properties.

### Fairness

`SessionUnlock!LiveSpec` gives each process weak fairness of its next call: an invocation is an
operating system process that runs on its own, and every call returns or fails (the
transport has time limits; `Abort` is a call that failed, and needs no fairness).
`AnsweredSpec` adds weak fairness of `Approve`: a person answers a request that
stays on the phone. `WaitEnds` is worth stating only under it. `PatientSpec`
has strong fairness of the process instead, for `unlock_missed.cfg`, so that
its counterexample does not rest on a poll that happens to miss an unlock that
comes again and again: in it the request is gone for good. `TimedCommandEnds` holds without any assumption about the phone.

Deadlock is checked except where a run stops by design: `algorithms` and `vault_steady`
use up their bounds, `commands`, `recovery_slot` and `transport` end with the command.

## 4. What is proved

For each module below the proof is of every value of its constants that satisfies the named
assumptions of the module that declares them. Where a theorem assumes more, the assumption is one
of the module's constants with its documented meaning, the passing run makes it too, and section 3
shows what happens without it.

**`SlotLifecycleProofs`**

- `TypeCorrect`: `TypeOK` is not inductive: `RefreshToken`
  needs that a refresh is only due below the bound (`RefreshBound`), and `Register`
  that a process which created a session knows its id (`Identified`).
- The rest assumes `Disciplined`: processes do not share a slot, keychain reads answer, and only
  the default slot's token is rotated. Drop any one of the three and the code breaks.
- `SlotsStayWhole` (`WholeTriple`). The
  inductive invariant `SlotInv` says, beside the property, who holds what while
  a process is between two calls: one process per slot (`OnePerSlot`), an
  empty slot under a `create` that has not stored its token (`SlotUnclaimed`),
  credentials of one session in its hands (`Minted`), and a token in use that is
  the slot's (`Running`).
- `RemoveIsHonest`, `CreateIsHonest`, `ReadsLeaveAUsableToken`, `NoSessionIsOrphaned` and
  `RemoveDeletesItsOwn`, what a command reports against what it did. That takes `ReportInv` on top of
  `SlotInv`: the token of a session is in one slot (`SessionsApart`), what a `create` has done when it
  gets to each of its stages (`Creating`), which session a `remove` is about (`Retiring`), what it has noted and
  that it is so at the backend (`Noting`), which items it has emptied (`Emptying`), and that a run's token is
  its slot's, and the one the backend takes once a call was answered (`Reading`). None of them is a consequence of the
  reports, which speak only of a command that is done.

**`SessionUnlockProofs`**

- `TypeCorrect`: with the bound on `waited`, which needs that `PollLocked` stops
  exactly at the limit.
- `AccessIsConfirmed`: `Spec => Confirmed`, the refinement of `ConfirmedAccess`,
  assuming `Orderly`: on a strict slot commands run one at a time, end through
  `finish`, and are not `rename`. Each action maps to a step of `ConfirmedAccess`
  or to a stutter; `StrictInv` says that on a strict slot an unlock that is spent has a
  process between its access and its re-lock. `unlock_failed_get` drops a part of
  the assumption.

**`SessionSettingsProofs`**

- `TypeCorrect`, for any slots, processes and keys of others; it needs that a task's value is one
  of its setting, except for a value that does not parse.
- `SetChangesOneSetting`: from the invariant that a process about to write, whose reading is
  not stale, holds the record as it is. The rest is the algebra of the two conversions: a flag that
  is off leaves no trace, and every other key comes through.
- `ListHidesNoSlot` (`ListCoversSlots`). `ListInv`: of the slots that
  are still stored, a `list` has an answer or still has them to do, at any point of it, and
  a finished one has none to do.

**`MetaVaultProofs`**

- `TypeCorrect`, `VaultIsRegistry`: `Spec => IsRegistry`, the refinement of `DeviceRegistry`, for any number of writers, devices,
  other clients and commits, and over any clock. The mapping folds the log, so the proof
  rests on `FoldOfAppend` of `HeymergeProofs` and on what a merge yields at an id. `VaultInv` says that while a writer's guard would be
  accepted, its document is the fold with one edit of its own (`GuardedEdits`), that it has its
  types while it works (`Working`), and that heyl tombstones no device of another client (`ForeignKept`).
  A commit of a whole document is then a step of one entry: all others merge to what they were.
- `AcceptedEditsShow` (`EditTakesEffect`) assuming `SteadyClock`: `ClockInv` says that no entry is from the future, and
  that an edit is no older than the entry it edits, so that the merge takes it, on a tie because it is later.

**`CommandsProofs`**, of `Commands!Spec`, whatever runs beside

- `RecoveredTokenHasItsKey`, from `RecoveryInv`: once `CreateTokens` is through, the grant at
  the backend is the right code's seed, sealed to the new session's key; the token is stored
  only after that key.
- `RecoveryLosesOnlyWhatWasNamed`, from the same: between the challenge and
  `CreateTokens`, everything attached but the backup code is named or came late.
- `PairedSlotsUnlock`, from `PairingInv`: an entry is published only after all
  three items are stored, and the seed it is signed with is one that the backend saw a login signature of.
- `FailuresAreNotMisses`, from `GetInv`: as long as the walk over a named vault goes on, no vault has
  failed, so that the one that fails is the outcome.
- `StaleKeysAreNotWrongKeys`, for any account and any number of re-keyings. With nothing
  wrong, every lock at the backend is one that its maker sealed for some generation of the
  profile's keys (`AccountSound`), the command's snapshot holds such locks and the keys are the
  granting authenticator's (`SessionSound`), so a lock whose generation is the one at hand opens,
  and one whose is not is refused before it is tried (`WhySound`). Without that comparison the
  lemma on vault locks fails, and so does the run, whose mutant it is.
- `BestMatches` (`BestMatch`), for any vaults, logs, flags and re-keyings. `FoundInv` says what the walk over the scope has
  so far: what was found is in its vault's latest version and matches (`Candidate`), everything that matches in the
  vaults that opened was found (`AllFound`), and no vault that is still to be opened was tried (`Untried`), without which a vault
  that opened once and failed later would leave its logins among the found. The first
  of what was found exists because the ranking is irreflexive and transitive over numbers (`AheadIsStrict`) and
  the found are finitely many (`RankIsFirst`), and a better login is always ahead of it (`BetterIsAhead`).
  Two assumptions on the data: a snapshot has each vault once (`VaultsAssumption`: a model's vault is its id), and a commit
  is a finite document whose stamps are numbers (`LogAssumption`).
- `ReportsPinpointTheFault` (`PinpointsFault`), for any profiles, vaults, locks, logs and any one thing wrong. Of an account that nobody
  re-keyed each check is a question about the fault alone: `KeyReportIs` says which keys' checks fail and `VaultOpensIs` which vaults stay shut
  (`Spoils`), down to the box that was garbled, the lock that is missing, and the newest commit; `BlamesAre` says that those are the ones that
  `Blames` names, fault by fault. `WalkInv` carries it through the run: no re-keying is taken back, so an account whose generations are all
  the first has been that account all along (`AccountKeptStep`) and the session is of it (`OpensOwnSession`); the
  report has the keys' checks and those of the vaults that the walk has been to (`ReportIs`), and the walk comes to each vault once.
  Assumptions: a vault is locked for a profile (`LockerAssumption`), and the faults are of the kinds that `Account` lists
  (`FaultsAssumption`).

**`TransportProofs`**

- `ProxyKeepsErrors`, `ReplayKeepsErrors`: one more hop, or a record, changes no error: `ToApiError`
  is idempotent up to the status that the server sends for its result.
- `OnlyDropsAreRetried`, from `AskInv`: the attempts of a call that are behind it were all
  answered by a cut response, they are at most `READ_RETRIES`, and a call that has any is a read. Two distinct errors of the port are told
  apart by `ToApiError`, so that a refusal never looks like a cut response.
- `IdentitiesAreTaken` (`IdentityIsTaken`), from `TakenInv` on top of `ReplaysInv`: what the proxy rebuilds from the headers is
  what the client put there (`ForwardedIs`), and from the login on the client holds the one token that the backend takes
  (`Holds`), unless a step failed, which may have lost a new token (`Lost`). Assumptions: the first step logs in by calls that
  need no token (`LoginAssumption`), and the refusals that come whoever calls are none of an identity (`TransportAssumption`).
- `ReplaysAgree` (`ReplayAgrees`) and `CleanReplaysAreComplete` (`CleanReplayIsComplete`), for any program, refusals and bounds. The
  replay simulates the live run a turn at a time, a turn being which call, poll and try of the step an attempt is
  (`Turn`); what was seen of its reply alone says whether there is a next turn and which (`Follows`, `StopsAt`: the guards of
  `Retry`, `PollAgain`, `NextCall` and `EndStep`). Live, `ReplaysInv` has the records of the step with the
  turns they were made on (`Told`), and of a step that ended that these are all of it (`PlayedAs`). In the replay it has that the
  records are used up in the order they were made, and that the replay is at the same turn as the live run was, or
  at the last attempt of the same call (`Beside`), from which the two go on alike whatever the counts say. That a
  collapsed run leaves it no third place is `KeptNeighbours`: of a run the first and the last are kept (`WrittenIs`), and
  a run is the attempts of one call (`RunsAreCalls`). Such a replay takes the next record (`TakeIsNext`), scrubbed or
  not, sees what was seen live (`LiveAsked`, from the two theorems on errors), and is short of one only where the live run's last
  attempt was cut or still locked: there the replay, with fewer polls and tries behind it, asks again.
  Assumptions: no step is empty (`ProgramAssumption`); a status that the backend refuses with does not look like a cut
  response (`TransportAssumption`); and a declared method is called twice running only by polling or retrying
  (`DeclaredAssumption`), which `record.rs` leaves to the declarer: without it the second is false, a step that
  calls such a method three times by its own plan finding the corpus short.

**`HeymergeProofs`**, for documents of any ids, elements and times, and logs of any length

- `MergeIsAssociative`: folding a part of the log first changes nothing, so a
  document that was folded can stand for its commits.
- `WholeDocumentIsOneEdit`: committing the whole folded document with one entry
  edited has the effect of that edit alone, and none if its time is older. This
  is why `IsRegistry` holds with heyl's commits among other clients' deltas, and
  why `EditTakesEffect` needs a steady clock.
- `FoldIsLatestOfAll`: the fold is `Latest`, of each element the version with the greatest time, the later commit's on a tie.
- `OrderIsOnlyForTies`: two neighbouring commits that agree in no element's time may be swapped.

  These two are inductions over the log. The library's induction theorems take an operator, which no installed prover can
  instantiate; `Induction` here is over a *set* of numbers instead, and follows from `Least` (a set of numbers that
  is not empty has a least member), which follows from the library's facts about finite sets. `FoldSteps` gives the recursive
  function by its two equations, `FoldHoldsWinners` is the induction proper, and `LatestIsCommitted` is what `BestMatches` needs of it.
- The lemmas on `Pick` (`PickIs` and those before it, which `WrittenIs` uses too) are here: what `Pick` returns has its members in the
  sequence and in the set, has all of them, and none twice if the sequence has none twice.
  `Selection` defines it by counting because the standard `SelectSeq` is recursive and cannot be expanded in a proof.

**`AlgorithmsProofs`**

- `TimeoutsAreHonoured`, for integers of any widths with which the hours of a `u32` are a `u64` of seconds
  (`WidthAssumption`).
- `GrantsEndTomorrowNight`, for every instant and every zone of `Zone`: one change of less
  than two hours that does not turn the clock back over a midnight. There have been zones that did (St John's, until
  2011); there a later grant may end a day earlier.
- `SnapshotsAreWhole`, for a `SyncUpdate` of any length over any texts and numbers (`Absent`, which stands for a generation that is
  left out, being no number): the map is refused exactly if an id that has to be one is none, or a lock names another
  profile than its own, and else has every part.
- `FoldsAreLatest`, `OrderMattersInTiesOnly`, `TypedTimeoutsAreHonoured`, `TriedGrantsEndTomorrowNight` and `TriedSnapshotsAreWhole` tie these and
  `HeymergeProofs` to the properties of the run `algorithms`: they hold for whatever inputs its constants enumerate, since `InputInv` says
  that an input is of the type that the general theorem is about.

## 5. Only model-checked

- All liveness: `WaitEnds`, `TimedCommandEnds`. Proving them takes `ENABLED`, which this prover does not reason about.
- The properties that section 3 gives counterexamples to are not proved, being false of the code. `EditTakesEffect` is proved
  for the steady clock that `vault_clock.cfg` takes away, and `ReadLeavesUsableToken` for the rotation of the default slot
  alone. `KeepsCredentials`, `UnlockRequiredIsTimeout`, `WaitEnds` among several commands, `UniqueNames` and `GoneIsGone` hold
  only where the case that each is about is cut away, and nothing is claimed of them beyond their counterexamples.

## 6. Not modelled

- The cryptographic primitives, and the wiping of secrets from memory: over bytes, with test
  vectors of their own. A failure in them is a symbolic one of `KeyChain`.
- The framing, compression and JSON of a commit, the protobuf-JSON form of a message and the
  gRPC-Web frames: codecs without state. Whether they fail is a choice of the model (`Document`, `Cut`).
- The recording of streams, the files of a corpus and the golden documents.
- A time stamp out of range on the wire, which reads as none; the formats of time stamps.
- Output, argument parsing, wiring, process hardening, the terminal, the random source: nothing
  is decided there that a property speaks of. `heyl api`, a developer's workbench behind a feature
  that is off, sends a call by hand.
- Test stores, the fixtures tool's arguments, generated code and vendored code.

Two simplifications inside what is modelled: `SessionSettings!Delete` and `Forget` stand for
a whole `remove`, whose steps are `SlotLifecycle`'s, and the commands of
`Commands` find their session unlocked or not at their start, the wait for it being
`SessionUnlock`'s.
