------------------------------ MODULE Account ------------------------------
(***************************************************************************)
(* The backend's view of one account, as a command that reads it meets it: *)
(* a snapshot from `sync` and, vault by vault and later, a lock and the    *)
(* commits from `list_commits`.  Between the two another client may give a *)
(* profile new keys.  Whatever heylogin's side holds is external; how it   *)
(* is opened is the chain that `get` and `doctor` share.                   *)
(***************************************************************************)
EXTENDS KeyChain, Heymerge, TLC

CONSTANTS
    Profiles,    \* the account's profiles
    VaultList,   \* its vaults, in the order of the snapshot
    Kind,        \* vault -> its VaultType
    Locker,      \* vault -> the profile that its lock is for
    Pair,        \* team -> the vault that has its name, or None
    Log,         \* vault -> its commits, each a document
    Ours,        \* the authenticator that granted our unlock
    None,
    Faults,      \* what may be wrong with the account: one of these
    MaxRekeys    \* bound: how often another client re-keys the account

ASSUME AccountAssumption == MaxRekeys \in Nat

\* A snapshot has each vault once.
ASSUME VaultsAssumption ==
    /\ VaultList \in Seq({VaultList[i] : i \in DOMAIN VaultList})
    /\ \A i, j \in DOMAIN VaultList : VaultList[i] = VaultList[j] => i = j

VARIABLES
    account,     \* generation of each profile's keys, its locks for us, each
                 \* vault's lock, and what is wrong
    pc,          \* the command's next call
    session,     \* the command's unlocked session: snapshot, seed, keys
    todo,        \* vaults the command has yet to open
    why,         \* how each vault came out that it tried to open
    outcome      \* what the command ends with

accountVars == <<account, pc, session, todo, why, outcome>>

Vaults == {VaultList[i] : i \in DOMAIN VaultList}

\* A vault is locked for a profile, and what is none is none of them.
ASSUME LockerAssumption ==
    /\ \A v \in Vaults : Locker[v] \in Profiles
    /\ None \notin Profiles \cup {Ours}

NoFault == <<"none">>

\* The keys of ours that the backend publishes, by what doctor calls them.
LinkNames(P) == {<<"link", p, n>> : p \in P, n \in 3..8}
PublicKeys == {<<"login signing">>} \cup {<<"identity", t>> : t \in Tiers}
              \cup LinkNames(Profiles)

\* What may be wrong: the grant, a published key, a lock, a box in it, a commit.
ASSUME FaultsAssumption == \A f \in Faults :
    \/ f \in {NoFault, <<"grant">>, <<"stranger grant">>, <<"no salt">>}
    \/ \E name \in PublicKeys : f \in {<<"published", name>>, <<"unpublished", name>>}
    \/ \E p \in Profiles, t \in Tiers : f \in {<<"no lock", p>>, <<"seed", p, t>>}
    \/ \E v \in Vaults, t \in Tiers :
          f \in {<<"no vault lock", v>>, <<"stranger", v>>, <<"secret", v, t>>}
    \/ \E v \in Vaults : \E i \in DOMAIN Log[v] :
          f \in {<<"commit", v, i>>, <<"document", v, i>>}

Wrong(a, what) == a.fault = what

Seed == <<"seed", Ours>>
Salt == <<"salt", Ours>>
OurSessionKey == SessionKey(<<"session seed">>)
SeedOf(p, t, g)    == <<"profile seed", p, t, g>>
SecretOf(v, t) == <<"vault secret", v, t>>

\* heylogin's own derivations, which ours have to meet.
TheirUse(n) ==
    IF n \in {3, 4} THEN "profile vault key"
    ELSE IF n \in {5, 6} THEN "profile signing" ELSE "profile profile key"
TheirTier(n) == IF n % 2 = 1 THEN "storable" ELSE "high"
TheirKind(n) == IF n \in {5, 6} THEN "signing" ELSE "encryption"
TheirKey(n, p, g) ==
    Derive(TheirKind(n), <<TheirUse(n), TheirTier(n)>>,
           SeedOf(p, TheirTier(n), g), NoSalt)
TheirLoginKey     == Derive("signing", <<"authenticator login">>, Seed, NoSalt)
TheirIdentityKey  == Derive("signing", <<"authenticator signing">>, Seed, Salt)
TheirProfileSeedKey ==
    Derive("encryption", <<"authenticator encryption">>, Seed, Salt)

\* The keys published under a name: none, another one, or the right one.
Published(a, name, key) ==
    IF Wrong(a, <<"unpublished", name>>) THEN {}
    ELSE IF Wrong(a, <<"published", name>>) THEN {Garbage}
    ELSE {Public(key)}

SealedFor(a, what, key, plain) ==
    IF Wrong(a, what) THEN Garbled ELSE Seal(Public(key), plain)

\* The lock that another client makes of profile p's seeds of generation g for us.
ProfileLock(a, p, g) ==
    [authenticator |-> Ours, generation |-> g,
     seed |-> [t \in Tiers |->
         SealedFor(a, <<"seed", p, t>>, TheirProfileSeedKey, SeedOf(p, t, g))]]

\* The lock that it makes of v's secrets, for the profile that holds v.
VaultLock(a, v, g) ==
    LET p == Locker[v]
    IN  [profile |-> IF Wrong(a, <<"stranger", v>>) THEN None ELSE p,
         generation |-> g,
         secret |-> [t \in Tiers |->
             SealedFor(a, <<"secret", v, t>>,
                       TheirKey(IF t = "storable" THEN 3 ELSE 4, p, g), SecretOf(v, t))]]

\* Commit i of v, or a blob that does not decrypt; a document that decrypts may
\* still be no document.
Blob(a, v, i) ==
    IF Wrong(a, <<"commit", v, i>>) THEN Garbled
    ELSE Encrypt(SymKey(SecretOf(v, "storable")),
             [decodes |-> ~Wrong(a, <<"document", v, i>>), content |-> Log[v][i]])

Grant(a) == [authenticator |-> IF Wrong(a, <<"stranger grant">>) THEN None ELSE Ours,
             secret |-> SealedFor(a, <<"grant">>, OurSessionKey, Seed)]
Listed(a) == [id \in {Ours} |-> IF Wrong(a, <<"no salt">>) THEN NoSalt ELSE Salt]

-----------------------------------------------------------------------------
LockFor(locks, id) == {l \in locks : l.authenticator = id}
The(S) == CHOOSE x \in S : TRUE

\* Both secrets of a vault, from its lock and the locks of the snapshot.
Unwrap(s, lock) ==
    LET p == lock.profile
        ours == LockFor(s.snapshot.locks[p], s.keys.id)
        generation == s.snapshot.generation[p]
        seed(t) == UnlockProfile(s.keys, The(ours), generation, t)
        secret(t) == UnlockVault(seed(t).value, lock, generation, t)
    IN  IF p \notin Profiles \/ ours = {} THEN Err("VaultContent")
        ELSE IF ~seed("storable").ok THEN seed("storable")
        ELSE IF ~seed("high").ok THEN seed("high")
        ELSE IF ~secret("storable").ok THEN secret("storable")
        ELSE IF ~secret("high").ok THEN secret("high")
        ELSE Ok([t \in Tiers |-> secret(t).value])

\* What the commits of a vault come to.
Contents == [v \in Vaults |-> Fold(Log[v])]

\* A commit's document, under the vault's secret.
Document(a, v, i, secrets) ==
    LET plain == Decrypt(SymKey(secrets["storable"]), Blob(a, v, i))
    IN  IF ~plain.ok THEN plain
        ELSE IF ~plain.value.decodes THEN Err("VaultContent")
        ELSE Ok(plain.value.content)

-----------------------------------------------------------------------------
\* What `sync` serves of it; the faults come along.
Snapshot == [generation |-> account.generation, locks |-> account.locks,
             fault |-> account.fault]

NoSession == [open |-> FALSE]

Ends(result) == outcome' = result /\ pc' = "end"

\* A call is answered, or fails.
Answers(answer) == {answer, Err("Api")}

\* The start of a reading command: sync, the grant, the authenticators.
OpenSession(next) ==
    \E unlocked \in Answers(Unlock(OurSessionKey, Grant(account), Listed(account))) :
        IF unlocked.ok
        THEN /\ session' = [open |-> TRUE, snapshot |-> Snapshot,
                            seed |-> unlocked.value.seed, keys |-> unlocked.value.keys]
             /\ pc' = next /\ UNCHANGED outcome
        ELSE Ends(unlocked) /\ UNCHANGED session

AccountInit ==
    /\ \E f \in Faults :
          LET a == [fault |-> f]
          IN account = [fault |-> f, generation |-> [p \in Profiles |-> 1],
                        locks |-> [p \in Profiles |->
                            IF f = <<"no lock", p>> THEN {} ELSE {ProfileLock(a, p, 1)}],
                        sealed |-> [v \in Vaults |->
                            IF f = <<"no vault lock", v>> THEN {} ELSE {VaultLock(a, v, 1)}]]
    /\ session = NoSession
    /\ todo = <<>>
    /\ why = [v \in Vaults |-> "untried"]
    /\ outcome = Err("running")

\* Another client: new keys for a profile, then new locks, one write each.
Rekey(p) ==
    /\ account.fault = NoFault            \* bound: a re-keying, or one fault
    /\ \A q \in Profiles : account.generation[q] <= MaxRekeys
    /\ account' = [account EXCEPT !.generation[p] = @ + 1]
    /\ UNCHANGED <<pc, session, todo, why, outcome>>

Relock(p) ==
    /\ \E lock \in account.locks[p] : lock.generation < account.generation[p]
    /\ account' = [account EXCEPT
            !.locks[p] = {ProfileLock(account, p, account.generation[p])}]
    /\ UNCHANGED <<pc, session, todo, why, outcome>>

Reseal(v) ==
    LET g == account.generation[Locker[v]]
    IN  /\ \E lock \in account.sealed[v] : lock.generation < g
        /\ account' = [account EXCEPT !.sealed[v] = {VaultLock(account, v, g)}]
        /\ UNCHANGED <<pc, session, todo, why, outcome>>

OtherClient ==
    \/ \E p \in Profiles : Rekey(p) \/ Relock(p)
    \/ \E v \in Vaults : Reseal(v)
=============================================================================
