------------------------------ MODULE WireMap ------------------------------
(***************************************************************************)
(* The boundary between the wire and the domain: a `SyncUpdate` as the     *)
(* backend sent it, and the snapshot that the client makes of it or        *)
(* refuses to (heyl-grpc/src/map.rs).  Of an id it matters whether it is   *)
(* one, of a type whether it is known.                                     *)
(***************************************************************************)
EXTENDS Selection, SequencesExt

CONSTANTS
    Ids,      \* texts that are UUIDs
    Absent,   \* the empty text
    Types     \* the vault types that the client knows

Malformed == [ok |-> FALSE]
Mapped(x) == [ok |-> TRUE, value |-> x]

Required(id) == id \in Ids
Optional(id) == id \in Ids \cup {Absent}

\* A list is mapped as a whole or not at all.
Every(mapped) ==
    IF \E i \in DOMAIN mapped : ~mapped[i].ok THEN Malformed
    ELSE Mapped([i \in DOMAIN mapped |-> mapped[i].value])

\* A lock inherits what it leaves out from the profile it was sent under, and may
\* not name another.
ProfileAuthenticatorLock(lock, owner, generation) ==
    IF lock.profile \notin {Absent, owner} \/ ~Required(lock.authenticator) THEN Malformed
    ELSE Mapped([authenticator |-> lock.authenticator, profile |-> owner,
                 generation |-> IF lock.generation = Absent THEN generation
                                ELSE lock.generation])

Profile(p) ==
    LET locks == Every([i \in DOMAIN p.locks |->
                    ProfileAuthenticatorLock(p.locks[i], p.id, p.generation)])
    IN  IF ~Required(p.id) \/ ~locks.ok THEN Malformed
        ELSE Mapped([id |-> p.id, generation |-> p.generation, locks |-> locks.value])

Vault(v) ==
    IF Required(v.id) /\ Optional(v.commit) /\ Optional(v.pair)
       /\ \A i \in DOMAIN v.profiles : Required(v.profiles[i])
    THEN Mapped(v) ELSE Malformed

Known(v) == v.type \in Types

\* Mutated: a vault that cannot be mapped is dropped like one of unknown type.
MutVaults(vaults) ==
    LET mapped == Pick(vaults, {v \in ToSet(vaults) : Known(v) /\ Vault(v).ok})
    IN  Every([i \in DOMAIN mapped |-> Vault(mapped[i])])

\* A vault of a type without a name is dropped, whatever else it carries.
VaultsOf(vaults) ==
    LET known == Pick(vaults, {v \in ToSet(vaults) : Known(v)})
    IN  Every([i \in DOMAIN known |-> Vault(known[i])])

\* An unlock is there with its authenticator, or not at all.
UnlockOf(unlock) ==
    IF unlock = <<>> \/ Required(unlock[1]) THEN Mapped(unlock) ELSE Malformed

SessionsOf(ids) ==
    Every([i \in DOMAIN ids |-> IF Required(ids[i]) THEN Mapped(ids[i]) ELSE Malformed])

SyncUpdate(u) ==
    LET sessions == SessionsOf(u.sessions)
        profiles == Every([i \in DOMAIN u.profiles |-> Profile(u.profiles[i])])
        vaults == VaultsOf(u.vaults)
        unlock == UnlockOf(u.unlock)
    IN  IF ~unlock.ok \/ ~sessions.ok \/ ~vaults.ok \/ ~profiles.ok THEN Malformed
        ELSE Mapped([unlock |-> unlock.value, sessions |-> sessions.value,
                     vaults |-> vaults.value, profiles |-> profiles.value])

\* The ids that have to be UUIDs if they are there, in the parts that are kept.
Given(u) ==
    LET kept == {u.vaults[i] : i \in {j \in DOMAIN u.vaults : Known(u.vaults[j])}}
        profiles == {u.profiles[i] : i \in DOMAIN u.profiles}
        locks == UNION {{p.locks[i] : i \in DOMAIN p.locks} : p \in profiles}
    IN  ToSet(u.unlock) \cup ToSet(u.sessions)
        \cup {v.id : v \in kept} \cup (UNION {ToSet(v.profiles) : v \in kept})
        \cup (({v.commit : v \in kept} \cup {v.pair : v \in kept}) \ {Absent})
        \cup {p.id : p \in profiles} \cup {l.authenticator : l \in locks}

\* The client has the whole of a snapshot or none of it: one text that should be
\* an id and is not, in a part that is kept, or one lock under a profile that it
\* does not name, and the command fails; otherwise nothing is missing but vaults
\* of a type nobody knows, and each lock is of the profile it lies under, of the
\* generation that it states or else of that profile's (map.rs, sync_update and
\* profile_authenticator_lock).
WholeOrNothing(u) ==
    LET r == SyncUpdate(u)
        astray == \E i \in DOMAIN u.profiles : \E j \in DOMAIN u.profiles[i].locks :
                     u.profiles[i].locks[j].profile \notin {Absent, u.profiles[i].id}
    IN  /\ r.ok <=> Given(u) \subseteq Ids /\ ~astray
        /\ r.ok =>
            /\ r.value.sessions = u.sessions
            /\ \A v \in ToSet(u.vaults) : Known(v) <=> v \in ToSet(r.value.vaults)
            /\ \A i \in DOMAIN u.profiles :
                  LET sent == u.profiles[i]   got == r.value.profiles[i]
                  IN  /\ Len(got.locks) = Len(sent.locks)
                      /\ \A j \in DOMAIN got.locks :
                            /\ got.locks[j].profile = got.id
                            /\ sent.locks[j].generation = Absent
                                 <=> got.locks[j].generation # sent.locks[j].generation
                            /\ got.locks[j].generation
                                 \in {sent.locks[j].generation, sent.generation}
=============================================================================
