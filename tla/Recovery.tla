------------------------------ MODULE Recovery ------------------------------
(***************************************************************************)
(* `heyl recovery`: the recovery code signs a challenge, the backend lets  *)
(* go of every other authenticator, and the new session, self-granted,     *)
(* goes into the default slot (heyl-app/src/recovery.rs).  A call may fail *)
(* and the process may die between any two.                                *)
(***************************************************************************)
EXTENDS KeyChain, Naturals, FiniteSets

CONSTANTS
    Authenticators, \* whatever the account may have attached
    Backup,         \* the BACKUP_CODE authenticator among them
    Infos,          \* what its secretInfo may be
    Codes,          \* what may be typed for the code
    RightCode,      \* the account's recovery code
    Misspelt,       \* codes that are not six groups of four digits
    Slot0,          \* what the default slot may hold before: "old" or "none"
    MaxPairings     \* bound: phones paired while the command runs

ASSUME RecoveryAssumption ==
    /\ Backup \in Authenticators /\ RightCode \in Codes
    /\ Misspelt \subseteq Codes \ {RightCode}
    /\ Slot0 \subseteq {"old", "none"}
    /\ MaxPairings \in Nat

VARIABLES
    stage,          \* the next step of the command
    attached,       \* backend: the account's authenticators
    info,           \* backend: the backup authenticator's secretInfo
    named,          \* the authenticators named to the user, who agreed
    seed,           \* the seed derived from the code
    granted,        \* backend: the new session's grant
    key, token, sid,\* keychain: the default slot, whose session each item is of
    verdict,        \* what the command ends with
    late            \* auxiliary: phones paired while the command runs

recoveryVars == <<stage, attached, info, named, seed, granted, key, token, sid,
                  verdict, late>>

Readable == "readable"
Nothing == <<>>

\* secretInfo of a backup authenticator: an empty one is opaque, a malformed one
\* or one whose costs are out of bounds fails the call that carries it.
Parsed(text) ==
    CASE text = "empty" -> Ok("opaque")
      [] text = "malformed" -> Err("MalformedSecretInfo")
      [] text = "costly" -> Err("Argon2Params")
      [] text = Readable -> Ok("recovery")

Argon2(code) == <<"argon2", code>>
Checksum(s) == <<"checksum", s>>
PublishedChecksum == Checksum(Argon2(RightCode))
PublishedLogin == Public(Derive("signing", <<"authenticator login">>, Argon2(RightCode), NoSalt))
NewSessionKey == SessionKey(<<"random">>)
TheChallenge == <<"challenge">>

DeriveAndVerify(code) ==
    IF code \in Misspelt THEN Err("Crypto")
    ELSE IF Checksum(Argon2(code)) # PublishedChecksum THEN Err("WrongRecoveryCode")
    ELSE Ok(Argon2(code))

RecoveryInit ==
    /\ stage = "challenge"
    /\ attached \in SUBSET Authenticators
    /\ info \in Infos
    /\ named = {} /\ seed = Nothing /\ granted = Nothing
    /\ \E whose \in Slot0 : key = whose /\ token = whose /\ sid = whose
    /\ verdict = Err("running") /\ late = {}

Step(from, to) == stage = from /\ stage' = to
Refuse(from, e) == Step(from, "end") /\ verdict' = Err(e)
SlotUnchanged == UNCHANGED <<key, token, sid>>
BackendUnchanged == UNCHANGED <<attached, info, granted, late>>

\* CreateChallenge lists the authenticators; a secret that does not parse fails
\* the call.
Challenge ==
    LET secret == IF Backup \in attached THEN Parsed(info) ELSE Ok("opaque")
    IN  /\ \/ Refuse("challenge", "Api") /\ UNCHANGED named
           \/ /\ secret.ok /\ secret.value # "recovery"
              /\ Refuse("challenge", "NoRecoveryAuthenticator") /\ UNCHANGED named
           \/ /\ secret.ok /\ secret.value = "recovery"
              /\ Step("challenge", "confirm")
              /\ named' = attached \ {Backup}     \* disconnectable
              /\ UNCHANGED verdict
        /\ UNCHANGED seed /\ SlotUnchanged /\ BackendUnchanged

\* Mutated: whatever is answered, go on.
MutConfirm ==
    /\ Step("confirm", "code") /\ named' \in {named, {}} /\ UNCHANGED verdict
    /\ UNCHANGED seed /\ SlotUnchanged /\ BackendUnchanged

\* Nothing to lose, --confirm or a yes goes on; a no, or no terminal, or one that
\* fails, does not.
Confirm ==
    /\ \/ Step("confirm", "code") /\ UNCHANGED <<verdict, named>>
       \/ /\ named # {} /\ named' = {}
          /\ \E e \in {"NotConfirmed", "Port"} : Refuse("confirm", e)
    /\ UNCHANGED seed /\ SlotUnchanged /\ BackendUnchanged

ReadCode ==
    /\ \/ Refuse("code", "Port") /\ UNCHANGED seed
       \/ \E code \in Codes :
             LET derived == DeriveAndVerify(code)
             IN \/ ~derived.ok /\ Refuse("code", derived.error) /\ UNCHANGED seed
                \/ derived.ok /\ Step("code", "tokens") /\ seed' = derived.value
                   /\ UNCHANGED verdict
    /\ UNCHANGED named /\ SlotUnchanged /\ BackendUnchanged

Signature(s) == Sign(LoginKey(s), NoContext, TheChallenge)

\* CreateTokens: the backend checks the signature, disconnects the others and
\* opens a session with the grant that came along; the answer may be lost.
CreateTokens ==
    LET accepted == Verify(PublishedLogin, NoContext, TheChallenge, Signature(seed))
    IN  /\ stage = "tokens"
        /\ \/ /\ accepted
              /\ attached' = {Backup}
              /\ granted' = Seal(Public(NewSessionKey), seed)
              /\ \/ Step("tokens", "store key") /\ UNCHANGED verdict
                 \/ Refuse("tokens", "Api")
           \/ /\ Refuse("tokens", IF accepted THEN "Api" ELSE "SignatureRejected")
              /\ UNCHANGED <<attached, granted>>
        /\ UNCHANGED <<named, seed, info, late>> /\ SlotUnchanged

\* Mutated: the two writes the other way round.
MutStoreKey ==
    /\ Step("store key", "store token") /\ token' = "new"
    /\ UNCHANGED <<key, verdict, sid, named, seed>> /\ BackendUnchanged

StoreKey ==
    /\ \/ Step("store key", "store token") /\ key' = "new" /\ UNCHANGED verdict
       \/ Refuse("store key", "Port") /\ UNCHANGED key
    /\ UNCHANGED <<token, sid, named, seed>> /\ BackendUnchanged

StoreToken ==
    /\ \/ Step("store token", "end") /\ token' = "new" /\ verdict' = Ok("recovered")
       \/ Refuse("store token", "Port") /\ UNCHANGED token
    /\ UNCHANGED <<key, sid, named, seed>> /\ BackendUnchanged

\* The process is killed; or the account's owner pairs a phone elsewhere.
Die ==
    /\ stage # "end" /\ stage' = "end" /\ verdict' = Err("killed")
    /\ UNCHANGED <<named, seed>> /\ SlotUnchanged /\ BackendUnchanged

PairPhone ==
    /\ Cardinality(late) < MaxPairings
    /\ \E a \in Authenticators \ (attached \cup {Backup}) :
          attached' = attached \cup {a} /\ late' = late \cup {a}
    /\ UNCHANGED <<stage, named, seed, info, granted, verdict>> /\ SlotUnchanged

RecoveryStep ==
    Challenge \/ Confirm \/ ReadCode \/ CreateTokens \/ StoreKey \/ StoreToken

RecoveryNext == RecoveryStep \/ Die \/ PairPhone
RecoverySpec == RecoveryInit /\ [][RecoveryNext]_recoveryVars

-----------------------------------------------------------------------------
\* Whatever a recovery disconnects was named to the user, who agreed, or was
\* paired after the command began: at a no, a wrong code or a failure before
\* that, the account is as it was (recovery.rs confirm, disconnectable).  With
\* --confirm nothing is printed, and all that is attached counts as named.
LosesOnlyWhatWasNamed ==
    [][attached \ attached' \subseteq named \cup late]_recoveryVars

\* The new token in the slot has its key beside it, and the key opens the grant
\* that the backend holds for that session to the very seed: no order of failures
\* and kills leaves the new token without its key (recovery.rs, "Store the session
\* key first").  The old token may be left beside the new key.
TokenHasItsKey ==
    token = "new" => key = "new" /\ Open(NewSessionKey, granted) = Ok(Argon2(RightCode))

\* After a recovery the three items of the default slot are of one session
\* (secret_store.rs, "The three items a *session* owns").
RecoveredSlotIsWhole == verdict.ok => key = token /\ token = sid
=============================================================================
