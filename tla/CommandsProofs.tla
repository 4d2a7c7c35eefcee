--------------------------- MODULE CommandsProofs ---------------------------
(***************************************************************************)
(* Proofs about Commands: what TLC finds for one small account holds for   *)
(* any profiles, vaults, logs, flags, authenticators, codes and phones.    *)
(***************************************************************************)
EXTENDS Commands, HeymergeProofs

\* A box opens with the key that it was sealed to.
LEMMA OpensItsOwn ==
  ASSUME NEW k, NEW x
  PROVE  Open(k, Seal(Public(k), x)) = Ok(x)
  BY DEF Open, Seal

\* What was opened is taken as it is, if it is a secret at all.
LEMMA AdoptsASecret ==
  ASSUME NEW x, x # Garbage
  PROVE  Adopt(Ok(x)) = Ok(x) /\ Ok(x).ok /\ Ok(x).value = x
  BY DEF Adopt, Ok

\* A step of Commands is a step of the recovery's part of the state, or leaves
\* it alone.
LEMMA RecoveryPart ==
  /\ Init => RecoveryInit
  /\ [Next]_commandVars => [RecoveryNext]_recoveryVars
<1>1. Init => RecoveryInit
  BY DEF Init
<1>2. [Next]_commandVars => [RecoveryNext]_recoveryVars
  <2> SUFFICES ASSUME [Next]_commandVars PROVE [RecoveryNext]_recoveryVars
    OBVIOUS
  <2>1. CASE CommandStep
    BY <2>1 DEF CommandStep, RecoveryNext
  <2>2. CASE Environment
    <3>1. CASE pc = "recovery" /\ stage # "end" /\ (Die \/ PairPhone)
      BY <3>1 DEF RecoveryNext
    <3>2. CASE pc = "create" /\ (Killed \/ \E a \in Phones : Scan(a))
                /\ UNCHANGED <<accountVars, getVars, report, recoveryVars>>
      BY <3>2
    <3> QED
      BY <2>2, <3>1, <3>2 DEF Environment
  <2> QED
    BY <2>1, <2>2 DEF Next, commandVars
<1> QED
  BY <1>1, <1>2

\* What each step of a recovery leaves for the next.
RecoveryInv ==
    /\ stage \in {"confirm", "code", "tokens"} => attached \subseteq named \cup late \cup {Backup}
    /\ stage \in {"tokens", "store key", "store token"} => seed = Argon2(RightCode)
    /\ stage \in {"store key", "store token"} => granted = Seal(Public(NewSessionKey), seed)
    /\ stage = "store token" => key = "new"
    /\ stage # "end" => token # "new"
    /\ token = "new" => key = "new" /\ granted = Seal(Public(NewSessionKey), Argon2(RightCode))

\* A recovery starts with whatever the account and the slot hold.
LEMMA RecoveryInvInit == RecoveryInit => RecoveryInv
  BY RecoveryAssumption DEF RecoveryInit, RecoveryInv

\* Only the account's code derives a seed.
LEMMA OnlyTheCode ==
  ASSUME NEW code, DeriveAndVerify(code).ok
  PROVE  DeriveAndVerify(code).value = Argon2(RightCode)
<1>1. DeriveAndVerify(code) = Ok(Argon2(code)) /\ Checksum(Argon2(code)) = PublishedChecksum
  BY DEF DeriveAndVerify, Ok, Err
<1>2. Argon2(code) = Argon2(RightCode)
  BY <1>1 DEF PublishedChecksum, Checksum
<1> QED
  BY <1>1, <1>2 DEF Ok

\* Each step, each failed call, a kill and a phone paired elsewhere keep it.
LEMMA RecoveryInvStep == RecoveryInv /\ [RecoveryNext]_recoveryVars => RecoveryInv'
<1> SUFFICES ASSUME RecoveryInv, [RecoveryNext]_recoveryVars PROVE RecoveryInv'
  OBVIOUS
<1> USE DEF RecoveryInv, Step, Refuse, SlotUnchanged, BackendUnchanged
<1>1. CASE Challenge
  BY <1>1 DEF Challenge
<1>2. CASE Confirm
  BY <1>2 DEF Confirm
<1>3. CASE ReadCode
  BY <1>3, OnlyTheCode DEF ReadCode
<1>4. CASE CreateTokens
  BY <1>4 DEF CreateTokens
<1>5. CASE StoreKey
  BY <1>5 DEF StoreKey
<1>6. CASE StoreToken
  BY <1>6 DEF StoreToken
<1>7. CASE Die
  BY <1>7 DEF Die
<1>8. CASE PairPhone
  BY <1>8 DEF PairPhone
<1>9. CASE UNCHANGED recoveryVars
  BY <1>9 DEF recoveryVars
<1> QED
  BY <1>1, <1>2, <1>3, <1>4, <1>5, <1>6, <1>7, <1>8, <1>9 DEF RecoveryNext, RecoveryStep

\* The invariant of the recovery, in every state of Commands.
LEMMA RecoveryInvariant == Spec => []RecoveryInv
<1>1. Init => RecoveryInv
  BY RecoveryPart, RecoveryInvInit
<1>2. RecoveryInv /\ [Next]_commandVars => RecoveryInv'
  BY RecoveryPart, RecoveryInvStep
<1> QED
  BY <1>1, <1>2, PTL DEF Spec

\* A token in the slot has its key beside it, which opens the backend's grant to
\* the seed of the recovery code (recovery.rs, "Store the session key first").
THEOREM RecoveredTokenHasItsKey == Spec => []TokenHasItsKey
<1>1. RecoveryInv => TokenHasItsKey
  BY OpensItsOwn DEF RecoveryInv, TokenHasItsKey
<1> QED
  BY <1>1, RecoveryInvariant, PTL

\* Nothing is disconnected that was not named to the user, or paired meanwhile
\* (recovery.rs confirm, disconnectable).
THEOREM RecoveryLosesOnlyWhatWasNamed == Spec => LosesOnlyWhatWasNamed
<1>1. RecoveryInv /\ [RecoveryNext]_recoveryVars
      => [attached \ attached' \subseteq named \cup late]_recoveryVars
  <2> SUFFICES ASSUME RecoveryInv, RecoveryNext
               PROVE  attached \ attached' \subseteq named \cup late
    OBVIOUS
  <2> USE DEF RecoveryInv, Step, Refuse, SlotUnchanged, BackendUnchanged
  <2>1. CASE CreateTokens
    BY <2>1 DEF CreateTokens
  <2>2. CASE ~CreateTokens
    BY <2>2 DEF RecoveryNext, RecoveryStep, Challenge, Confirm, ReadCode, StoreKey,
                StoreToken, Die, PairPhone
  <2> QED
    BY <2>1, <2>2
<1>2. RecoveryInv /\ [Next]_commandVars
      => [attached \ attached' \subseteq named \cup late]_recoveryVars
  BY <1>1, RecoveryPart
<1> QED
  BY <1>2, RecoveryInvariant, PTL DEF Spec, LosesOnlyWhatWasNamed

-----------------------------------------------------------------------------

\* A step of Commands is a step of the pairing's part of the state, or leaves it
\* alone.
LEMMA PairingPart ==
  /\ Init => PairingInit
  /\ [Next]_commandVars => [PairingNext]_pairingVars
<1>1. Init => PairingInit
  BY DEF Init
<1>2. [Next]_commandVars => [PairingNext]_pairingVars
  <2> SUFFICES ASSUME [Next]_commandVars PROVE [PairingNext]_pairingVars
    OBVIOUS
  <2>1. CASE CommandStep
    BY <2>1 DEF CommandStep, PairingNext
  <2>2. CASE Environment
    BY <2>2 DEF Environment, PairingNext
  <2> QED
    BY <2>1, <2>2 DEF Next, commandVars
<1> QED
  BY <1>1, <1>2

AllItems == {"key", "sid", "token"}
Paired(a) == Metadata(AuthenticatorKeys(a, PhoneSeed(a), Salts[a]))

\* What each step of a pairing leaves for the next, and what it leaves behind
\* when it ends early.
PairingInv ==
    /\ reply.there => reply.it.authenticator \in Phones
    /\ pstage # "channel" /\ pstage # "end" => reply.there
    /\ pstage \in {"channel", "tokens"} => ~minted.there
    /\ pstage \in AllItems \cup {"publish", "conclude"} =>
          pseed = PhoneSeed(reply.it.authenticator)
    /\ pstage \in {"channel", "tokens", "key"} => items = {}
    /\ pstage = "sid" => items = {"key"}
    /\ pstage = "token" => items = {"key", "sid"}
    /\ pstage \in {"publish", "conclude"} => items = AllItems
    /\ pstage \notin {"conclude", "end"} => ~entry.there
    /\ pstage = "conclude" => entry.there
    /\ pstage # "end" => ~made.ok
    /\ made.ok => entry.there
    /\ entry.there => /\ items = AllItems
                      /\ \E a \in Phones : Salts[a] # NoSalt /\ entry.it = Paired(a)
    /\ minted.there /\ minted.it.there =>
          minted.it.it = Seal(Public(PairedKey), PhoneSeed(reply.it.authenticator))

\* A pairing starts with an empty slot and nothing on the channel.
LEMMA PairingInvInit == PairingInit => PairingInv
  BY DEF PairingInit, PairingInv, Missing, Err, AllItems

\* The backend takes the response of a session only from the seed of the phone
\* that answered.
LEMMA OnlyThePhone ==
  ASSUME NEW a, NEW s,
         Verify(PhoneLogin(a), NoContext, LongPollChallenge,
                Sign(LoginKey(s), NoContext, LongPollChallenge))
  PROVE  s = PhoneSeed(a)
<1>1. Public(LoginKey(s)) = PhoneLogin(a)
  BY DEF Verify, Sign
<1>2. LoginKey(s) = Derive("signing", <<"authenticator login">>, PhoneSeed(a), NoSalt)
  BY <1>1 DEF PhoneLogin, Public
<1> QED
  BY <1>2 DEF LoginKey, SigningKey, Derive

\* Each step, each failed call, a kill and a scan keep it.
LEMMA PairingInvStep == PairingInv /\ [PairingNext]_pairingVars => PairingInv'
<1> SUFFICES ASSUME PairingInv, [PairingNext]_pairingVars PROVE PairingInv'
  OBVIOUS
<1> USE DEF PairingInv, Onward, Stop, SlotAsItWas, AllItems, Err
<1>1. CASE LongPoll
  BY <1>1 DEF LongPoll
<1>2. CASE OpenNewSession
  <2>1. CASE /\ Verify(PhoneLogin(reply.it.authenticator), NoContext, LongPollChallenge,
                       Sign(LoginKey(pseed), NoContext, LongPollChallenge))
             /\ minted' = There(SelfGrant)
             /\ Onward("tokens", "key") \/ Stop("tokens", "Api")
    <3>1. pseed = PhoneSeed(reply.it.authenticator)
      BY <2>1, OnlyThePhone
    <3> QED
      BY <1>2, <2>1, <3>1 DEF OpenNewSession, SelfGrant, There, Missing
  <2>2. CASE (\E e : Stop("tokens", e)) /\ UNCHANGED minted
    BY <1>2, <2>2 DEF OpenNewSession
  <2> QED
    BY <1>2, <2>1, <2>2 DEF OpenNewSession
<1>3. CASE Keep("key", "sid")
  BY <1>3 DEF Keep
<1>4. CASE Keep("sid", "token")
  BY <1>4 DEF Keep
<1>5. CASE Keep("token", "publish")
  BY <1>5 DEF Keep
<1>6. CASE Publish
  <2>1. reply.it.authenticator \in Phones /\ pseed = PhoneSeed(reply.it.authenticator)
    BY <1>6 DEF Publish
  <2> QED
    BY <1>6, <2>1 DEF Publish, There, Paired
<1>7. CASE Conclude
  BY <1>7 DEF Conclude, Ok
<1>8. CASE Killed
  BY <1>8 DEF Killed
<1>9. CASE \E a \in Phones : Scan(a)
  BY <1>9 DEF Scan, There
<1>10. CASE UNCHANGED pairingVars
  BY <1>10 DEF pairingVars
<1> QED
  BY <1>1, <1>2, <1>3, <1>4, <1>5, <1>6, <1>7, <1>8, <1>9, <1>10
  DEF PairingNext, PairingStep

\* The phone finds its own signature on the entry and seals its seed to the key
\* in it, which is the slot's.
LEMMA PhoneUnlocksTheSlot ==
  ASSUME NEW a \in Phones, Salts[a] # NoSalt
  PROVE  /\ Paired(a).by = a
         /\ Unlock(PairedKey, PhoneGrant(Paired(a)), Salts) =
              Ok([seed |-> PhoneSeed(a),
                  keys |-> AuthenticatorKeys(a, PhoneSeed(a), PhoneSalt(a))])
<1>1. Salts[a] = PhoneSalt(a)
  BY DEF Salts
<1>2. /\ Paired(a).by = a /\ Paired(a).pub = Public(PairedKey)
      /\ Verify(PhoneIdentity(a), SessionSignature, Paired(a).pub, Paired(a).signature)
  BY <1>1 DEF Paired, Metadata, AuthenticatorKeys, Verify, Sign, PhoneIdentity, SigningKey
<1>3. PhoneGrant(Paired(a)) =
        [authenticator |-> a, secret |-> Seal(Public(PairedKey), PhoneSeed(a))]
  BY <1>2 DEF PhoneGrant
<1>4. PhoneSeed(a) # Garbage
  BY DEF PhoneSeed, Garbage
<1>5. Adopt(Open(PairedKey, Seal(Public(PairedKey), PhoneSeed(a)))) = Ok(PhoneSeed(a))
  <2>1. Open(PairedKey, Seal(Public(PairedKey), PhoneSeed(a))) = Ok(PhoneSeed(a))
    BY OpensItsOwn
  <2> QED
    BY <1>4, <2>1, AdoptsASecret
<1>6. a \in DOMAIN Salts
  BY DEF Salts
<1> DEFINE grant == PhoneGrant(Paired(a))
<1>7. grant.authenticator = a /\ Adopt(Open(PairedKey, grant.secret)) = Ok(PhoneSeed(a))
  BY <1>3, <1>5
<1>8. Ok(PhoneSeed(a)).ok /\ Ok(PhoneSeed(a)).value = PhoneSeed(a)
  BY <1>4, AdoptsASecret
<1> HIDE DEF grant
<1>9. Unlock(PairedKey, grant, Salts) =
        Ok([seed |-> PhoneSeed(a), keys |-> AuthenticatorKeys(a, PhoneSeed(a), PhoneSalt(a))])
  BY <1>1, <1>6, <1>7, <1>8 DEF Unlock
<1> QED
  BY <1>2, <1>9 DEF grant

\* Whatever a pairing leaves behind, a device that the phone lists has its slot
\* here and unlocks with it, whoever scanned the code, whatever came over the
\* channel and wherever the process died (lifecycle.rs register).
THEOREM PairedSlotsUnlock == Spec => []PairedSlotUnlocks
<1>1. PairingInv => PairedSlotUnlocks
  <2> SUFFICES ASSUME PairingInv PROVE PairedSlotUnlocks
    OBVIOUS
  <2>1. ASSUME entry.there
        PROVE  /\ items = {"key", "sid", "token"}
               /\ Unlock(PairedKey, PhoneGrant(entry.it), Salts) =
                    Ok([seed |-> PhoneSeed(entry.it.by),
                        keys |-> AuthenticatorKeys(entry.it.by, PhoneSeed(entry.it.by),
                                                   PhoneSalt(entry.it.by))])
    <3>1. PICK a \in Phones : Salts[a] # NoSalt /\ entry.it = Paired(a)
      BY <2>1 DEF PairingInv
    <3>2. items = AllItems
      BY <2>1 DEF PairingInv
    <3> QED
      BY <3>1, <3>2, PhoneUnlocksTheSlot DEF AllItems
  <2> QED
    BY <2>1, OpensItsOwn DEF PairingInv, PairedSlotUnlocks
<1>2. Init => PairingInv
  BY PairingPart, PairingInvInit
<1>3. PairingInv /\ [Next]_commandVars => PairingInv'
  BY PairingPart, PairingInvStep
<1> QED
  BY <1>1, <1>2, <1>3, PTL DEF Spec

-----------------------------------------------------------------------------
\* What opening a vault can fail with, when it does not fail on the way.
VaultErrors == {"VaultContent", "KeyGenerationMismatch", "NoLockForAuthenticator", "Crypto"}
Fails(result, errors) == ~result.ok => \E e \in errors : result = Err(e)

\* A box that does not open is a cryptographic error.
LEMMA OpeningFails ==
  ASSUME NEW k, NEW x
  PROVE  Fails(Adopt(Open(k, x)), {"Crypto"}) /\ Fails(Decrypt(k, x), {"Crypto"})
<1>1. Open(k, x) = Err("Crypto") \/ (Open(k, x).ok /\ Open(k, x) = Ok(x.plain))
  BY DEF Open, Ok
<1>2. Decrypt(k, x) = Err("Crypto") \/ Decrypt(k, x).ok
  BY DEF Decrypt, Ok
<1> QED
  BY <1>1, <1>2 DEF Adopt, Fails

\* The errors that the chain of locks gives (keys.rs).
LEMMA UnwrapFails ==
  ASSUME NEW s, NEW lock
  PROVE  Fails(Unwrap(s, lock), VaultErrors)
<1>1. \A keys, l, g, t : Fails(UnlockProfile(keys, l, g, t), VaultErrors)
  BY OpeningFails DEF UnlockProfile, Fails, VaultErrors
<1>2. \A itsSeed, l, g, t : Fails(UnlockVault(itsSeed, l, g, t), VaultErrors)
  BY OpeningFails DEF UnlockVault, Fails, VaultErrors
<1>3. \A x : Ok(x).ok
  BY DEF Ok
<1> DEFINE p == lock.profile
           ours == LockFor(s.snapshot.locks[p], s.keys.id)
           generation == s.snapshot.generation[p]
           itsSeed(t) == UnlockProfile(s.keys, The(ours), generation, t)
           secret(t) == UnlockVault(itsSeed(t).value, lock, generation, t)
<1>4. \A t : Fails(itsSeed(t), VaultErrors) /\ Fails(secret(t), VaultErrors)
  BY <1>1, <1>2
<1>5. Unwrap(s, lock) =
        IF p \notin Profiles \/ ours = {} THEN Err("VaultContent")
        ELSE IF ~itsSeed("storable").ok THEN itsSeed("storable")
        ELSE IF ~itsSeed("high").ok THEN itsSeed("high")
        ELSE IF ~secret("storable").ok THEN secret("storable")
        ELSE IF ~secret("high").ok THEN secret("high")
        ELSE Ok([t \in Tiers |-> secret(t).value])
  BY DEF Unwrap
<1> HIDE DEF itsSeed, secret, ours, p
<1> QED
  BY <1>3, <1>4, <1>5 DEF Fails, VaultErrors

\* The errors that opening a vault gives (get.rs open_vault).
LEMMA OpenVaultFails ==
  ASSUME NEW v
  PROVE  Fails(OpenVault(v), VaultErrors)
<1>1. \A x : Ok(x).ok
  BY DEF Ok
<1>2. ASSUME NEW i, NEW secrets PROVE Fails(Document(account, v, i, secrets), VaultErrors)
  <2> DEFINE plain == Decrypt(SymKey(secrets["storable"]), Blob(account, v, i))
  <2>1. Fails(plain, VaultErrors)
    BY OpeningFails DEF Fails, VaultErrors
  <2>2. Document(account, v, i, secrets) =
          IF ~plain.ok THEN plain
          ELSE IF ~plain.value.decodes THEN Err("VaultContent") ELSE Ok(plain.value.content)
    BY DEF Document
  <2> HIDE DEF plain
  <2> QED
    BY <1>1, <2>1, <2>2 DEF Fails, VaultErrors
<1>3. ASSUME NEW secrets PROVE Fails(Read(v, secrets), VaultErrors)
  <2> DEFINE bad == {i \in DOMAIN Log[v] : ~Document(account, v, i, secrets).ok}
             first == CHOOSE i \in bad : \A j \in bad : i <= j
  <2>1. Read(v, secrets) = IF bad # {} THEN Document(account, v, first, secrets)
                           ELSE Ok([document |-> Contents[v], key |-> SymKey(secrets["high"])])
    BY DEF Read
  <2> HIDE DEF bad, first
  <2> QED
    BY <1>1, <1>2, <2>1 DEF Fails
<1> QED
  BY <1>1, <1>3, UnwrapFails DEF OpenVault, Fails, VaultErrors

\* The codes of the errors that a vault that does not open may end with.
LEMMA CodeOfFailure ==
  ASSUME NEW e \in VaultErrors \cup {"Api"}
  PROVE  ExitCode(Err(e)) \in {1, 5}
<1>1. DOMAIN ErrorsOf = {2, 4, 5, 6, 7}
  BY DEF ErrorsOf
<1>2. /\ ErrorsOf[2] = {"NoSuchVault", "NoSuchLogin", "NoSuchField", "UnknownSetting",
                        "PortNotFound"}
      /\ ErrorsOf[4] = {"UnlockRequired", "NotRegistered"}
      /\ ErrorsOf[5] = {"SessionGone", "Api"}
      /\ ErrorsOf[6] = {"SlotExists"}
      /\ ErrorsOf[7] = {"BadSettingValue", "TimeoutTooShort", "MalformedSlot",
                        "MalformedSelector", "ConflictingSelectors",
                        "MissingLoginSelector", "NotConfirmed"}
  BY DEF ErrorsOf
<1>3. ~Err(e).ok /\ Err(e).error = e
  BY DEF Err
<1>4. CASE e = "Api"
  <2>1. \A n \in DOMAIN ErrorsOf : e \in ErrorsOf[n] <=> n = 5
    BY <1>1, <1>2, <1>4
  <2> QED
    BY <1>1, <1>3, <2>1 DEF ExitCode
<1>5. CASE e \in VaultErrors
  <2>1. \A n \in DOMAIN ErrorsOf : e \notin ErrorsOf[n]
    BY <1>1, <1>2, <1>5 DEF VaultErrors
  <2> QED
    BY <1>3, <2>1 DEF ExitCode
<1> QED
  BY <1>4, <1>5

\* A vault that was named is the only one that may fail, and ends the command.
GetInv ==
    /\ DOMAIN why = Vaults
    /\ pc \in {"get", "recovery", "create", "doctor", "doctor keys", "doctor vaults"} =>
          query.vault.by = "any"
    /\ pc \in {"get", "get unlock", "get scope", "get team"} =>
          \A v \in Vaults : why[v] = "untried"
    /\ pc = "get open" /\ query.vault.by # "any" =>
          \A v \in Vaults : why[v] \in {"untried", "ok"}
    /\ FailureIsNotAMiss

\* At the start no vault was tried and nothing was asked for.
LEMMA GetInvInit == Init => GetInv
<1> SUFFICES ASSUME Init PROVE GetInv
  OBVIOUS
<1>1. why = [v \in Vaults |-> "untried"] /\ query = NoQuery
  BY DEF Init, AccountInit, GetInit
<1>2. query.vault.by = "any"
  BY <1>1 DEF NoQuery
<1> QED
  BY <1>1, <1>2 DEF GetInv, FailureIsNotAMiss

\* Each step of the commands, and another client's, keeps it.
LEMMA GetInvStep == GetInv /\ [Next]_commandVars => GetInv'
<1> SUFFICES ASSUME GetInv, [Next]_commandVars PROVE GetInv'
  OBVIOUS
<1> USE DEF GetInv, FailureIsNotAMiss, Ends, ScopeTo
<1>1. CASE ParseFlags
  BY <1>1 DEF ParseFlags
<1>2. CASE GetUnlock
  BY <1>2 DEF GetUnlock, OpenSession
<1>3. CASE ResolveScope
  BY <1>3 DEF ResolveScope
<1>4. CASE NameTeam
  <2>1. /\ pc = "get team" /\ pc' \in {"get open", "get team"}
        /\ UNCHANGED <<why, query, outcome>>
    BY <1>4 DEF NameTeam
  <2> QED
    BY <2>1
<1>5. CASE NoTeam
  BY <1>5 DEF NoTeam
<1>6. CASE OpenNext
  <2> DEFINE v == Head(todo)
  <2>1. PICK opened \in Answers(OpenVault(v)) :
           /\ why' = [why EXCEPT ![v] = IF opened.ok THEN "ok" ELSE opened.error]
           /\ IF opened.ok \/ query.vault.by = "any"
              THEN UNCHANGED <<pc, outcome>>
              ELSE Ends(opened)
    BY <1>6 DEF OpenNext
  <2>2. pc = "get open" /\ UNCHANGED query
    BY <1>6 DEF OpenNext
  <2> HIDE DEF v
  <2>3. CASE opened.ok
    BY <2>1, <2>2, <2>3
  <2>4. CASE ~opened.ok /\ query.vault.by = "any"
    BY <2>1, <2>2, <2>4
  <2>5. CASE ~opened.ok /\ query.vault.by # "any"
    <3>1. \E e \in VaultErrors \cup {"Api"} : opened = Err(e)
      BY <2>1, <2>5, OpenVaultFails DEF Answers, Fails
    <3>2. ExitCode(opened) \in {1, 5}
      BY <3>1, CodeOfFailure
    <3>3. outcome' = opened /\ pc' = "end"
      BY <2>1, <2>5
    <3>4. ExitCode(outcome)' \in {1, 5}
      BY <3>2, <3>3 DEF ExitCode
    <3> QED
      BY <2>1, <3>3, <3>4
  <2> QED
    BY <2>3, <2>4, <2>5
<1>7. CASE Choose
  <2>1. pc = "get open" /\ pc' = "end" /\ UNCHANGED <<why, query>>
    BY <1>7 DEF Choose
  <2> QED
    BY <2>1
<1>8. CASE DoctorNext /\ UNCHANGED getVars
  <2>1. /\ pc \in {"doctor", "doctor keys", "doctor vaults"}
        /\ pc' \in {"doctor", "doctor keys", "doctor vaults", "end"}
        /\ DOMAIN why' = DOMAIN why
    BY <1>8 DEF DoctorNext, DoctorUnlock, OpenSession, CheckKeys, CheckVault, Reported
  <2> QED
    BY <1>8, <2>1 DEF getVars
<1>9. CASE /\ Exits("recovery", stage, verdict) \/ Exits("create", pstage, made)
           /\ UNCHANGED getVars
  BY <1>9 DEF Exits, getVars
<1>10. CASE OtherClient /\ UNCHANGED getVars
  <2>1. UNCHANGED <<pc, why, outcome>>
    BY <1>10 DEF OtherClient, Rekey, Relock, Reseal
  <2> QED
    BY <1>10, <2>1 DEF getVars, ExitCode
<1>11. CASE UNCHANGED <<accountVars, getVars>>
  BY <1>11 DEF accountVars, getVars
<1> QED
  BY <1>1, <1>2, <1>3, <1>4, <1>5, <1>6, <1>7, <1>8, <1>9, <1>10, <1>11
  DEF Next, CommandStep, Environment, GetNext, commandVars

\* A script that named a vault is never told that there is no such login because
\* the vault could not be opened (get.rs run, error.rs exit codes).
THEOREM FailuresAreNotMisses == Spec => []FailureIsNotAMiss
<1>1. GetInv => FailureIsNotAMiss
  BY DEF GetInv
<1> QED
  BY <1>1, GetInvInit, GetInvStep, PTL DEF Spec
-----------------------------------------------------------------------------
(* The key hierarchy as `get` and `doctor` walk it: an account with nothing *)
(* wrong never gives a cryptographic error, whatever is re-keyed meanwhile. *)

\* A box opens with the key that it was sealed to, and what comes out is taken
\* for a secret if it is one.
LEMMA OpensItsSecret ==
  ASSUME NEW k, NEW x, x # Garbage
  PROVE  Adopt(Open(k, Seal(Public(k), x))) = Ok(x) /\ Ok(x).ok /\ Ok(x).value = x
<1>1. Open(k, Seal(Public(k), x)) = Ok(x)
  BY DEF Open, Seal
<1>2. Adopt(Ok(x)) = Ok(x) /\ Ok(x).ok /\ Ok(x).value = x
  BY DEF Adopt, Ok
<1> QED
  BY <1>1, <1>2

\* With nothing wrong, every lock and the grant are sealed to the right key.
LEMMA NothingIsWrong ==
  ASSUME NEW a, a.fault = NoFault
  PROVE  /\ \A p, t : ~Wrong(a, <<"seed", p, t>>)
         /\ \A v, t : ~Wrong(a, <<"secret", v, t>>)
         /\ ~Wrong(a, <<"grant">>)
         /\ ~Wrong(a, <<"stranger grant">>) /\ ~Wrong(a, <<"no salt">>)
         /\ \A v : ~Wrong(a, <<"stranger", v>>)
         /\ \A v, i : ~Wrong(a, <<"commit", v, i>>) /\ ~Wrong(a, <<"document", v, i>>)
  BY DEF Wrong, NoFault

\* The seeds and the secrets are 32 bytes.
LEMMA NotGarbage ==
  /\ Seed # Garbage
  /\ \A p, t, g : SeedOf(p, t, g) # Garbage
  /\ \A v, t : SecretOf(v, t) # Garbage
  BY DEF Seed, SeedOf, SecretOf, Garbage

OurKeys == AuthenticatorKeys(Ours, Seed, Salt)

\* A profile's seed comes out of its lock, or the generation is another.
LEMMA ProfileOpens ==
  ASSUME NEW a, a.fault = NoFault, NEW p, NEW g, NEW h, NEW t \in Tiers
  PROVE  LET opened == UnlockProfile(OurKeys, ProfileLock(a, p, g), h, t)
         IN  \/ g # h /\ opened = Err("KeyGenerationMismatch")
             \/ g = h /\ opened = Ok(SeedOf(p, t, g))
<1> DEFINE lock == ProfileLock(a, p, g)
<1>1. lock.authenticator = Ours /\ lock.generation = g /\ OurKeys.id = Ours
  BY DEF ProfileLock, OurKeys, AuthenticatorKeys
<1>2. OurKeys.profileSeed = TheirProfileSeedKey
  BY DEF OurKeys, AuthenticatorKeys, EncryptionKey, TheirProfileSeedKey
<1>3. lock.seed[t] = Seal(Public(TheirProfileSeedKey), SeedOf(p, t, g))
  <2>1. lock.seed[t] = SealedFor(a, <<"seed", p, t>>, TheirProfileSeedKey, SeedOf(p, t, g))
    BY DEF ProfileLock
  <2>2. ~Wrong(a, <<"seed", p, t>>)
    BY NothingIsWrong
  <2> QED
    BY <2>1, <2>2 DEF SealedFor
<1>4. Adopt(Open(OurKeys.profileSeed, lock.seed[t])) = Ok(SeedOf(p, t, g))
  BY <1>2, <1>3, OpensItsSecret, NotGarbage
<1> HIDE DEF lock
<1> QED
  BY <1>1, <1>4 DEF UnlockProfile, lock

\* A vault's secret comes out of its lock with the seed of its profile's
\* generation, and out of no other lock that passes for one.
LEMMA VaultUnlocks ==
  ASSUME NEW a, a.fault = NoFault, NEW v, NEW g, NEW h, NEW t \in Tiers
  PROVE  LET opened == UnlockVault(SeedOf(Locker[v], t, g), VaultLock(a, v, h), g, t)
         IN  \/ g # h /\ opened = Err("KeyGenerationMismatch")
             \/ g = h /\ opened = Ok(SecretOf(v, t))
<1> DEFINE lock == VaultLock(a, v, h)
           n == IF t = "storable" THEN 3 ELSE 4
           k == VaultKeyKey(SeedOf(Locker[v], t, h), t)
<1>1. lock.generation = h
  BY DEF VaultLock
<1>2. lock.secret[t] = Seal(Public(TheirKey(n, Locker[v], h)), SecretOf(v, t))
  <2>1. lock.secret[t] = SealedFor(a, <<"secret", v, t>>, TheirKey(n, Locker[v], h),
                                   SecretOf(v, t))
    BY DEF VaultLock
  <2>2. ~Wrong(a, <<"secret", v, t>>)
    BY NothingIsWrong
  <2> QED
    BY <2>1, <2>2 DEF SealedFor
<1>3. k = TheirKey(n, Locker[v], h)
  <2>1. t = "storable" \/ t = "high"
    BY DEF Tiers
  <2>2. TheirUse(n) = "profile vault key" /\ TheirTier(n) = t /\ TheirKind(n) = "encryption"
    BY <2>1 DEF TheirUse, TheirTier, TheirKind
  <2>3. Uses[t].vaultKey = <<"profile vault key", t>>
    BY DEF Uses
  <2> QED
    BY <2>2, <2>3 DEF TheirKey, VaultKeyKey, EncryptionKey
<1>4. Adopt(Open(k, lock.secret[t])) = Ok(SecretOf(v, t))
  BY <1>2, <1>3, OpensItsSecret, NotGarbage
<1> HIDE DEF lock
<1> QED
  BY <1>1, <1>4 DEF UnlockVault, lock

\* Our unlock opens, and gives the keys of the authenticator that granted it.
LEMMA GrantOpens ==
  ASSUME NEW a, a.fault = NoFault
  PROVE  Unlock(OurSessionKey, Grant(a), Listed(a)) = Ok([seed |-> Seed, keys |-> OurKeys])
<1> DEFINE grant == Grant(a)
           listed == Listed(a)
<1>1. grant.authenticator = Ours /\ grant.secret = Seal(Public(OurSessionKey), Seed)
  BY NothingIsWrong DEF Grant, SealedFor
<1>2. Ours \in DOMAIN listed /\ listed[Ours] = Salt
  BY NothingIsWrong DEF Listed
<1>3. Salt # NoSalt
  BY DEF Salt, NoSalt
<1>4. Adopt(Open(OurSessionKey, grant.secret)) = Ok(Seed) /\ Ok(Seed).ok /\ Ok(Seed).value = Seed
  BY <1>1, OpensItsSecret, NotGarbage
<1> HIDE DEF grant, listed
<1>5. Unlock(OurSessionKey, grant, listed) = Ok([seed |-> Seed, keys |-> OurKeys])
  BY <1>1, <1>2, <1>3, <1>4 DEF Unlock, OurKeys
<1> QED
  BY <1>5 DEF grant, listed

\* The chain of a session that has locks of nothing but ours.
Sound(s) ==
    /\ s.keys = OurKeys
    /\ \A p \in Profiles : \A l \in s.snapshot.locks[p] :
          \E a, g : a.fault = NoFault /\ l = ProfileLock(a, p, g)

\* The secrets of a vault come out, or one of the generations on the way is not
\* the one that is due, or there is no lock for us.
LEMMA UnwrapIsHonest ==
  ASSUME NEW s, Sound(s), NEW v, NEW a, a.fault = NoFault, NEW h
  PROVE  LET opened == Unwrap(s, VaultLock(a, v, h))
         IN  \/ opened = Err("VaultContent") \/ opened = Err("KeyGenerationMismatch")
             \/ opened = Ok([t \in Tiers |-> SecretOf(v, t)])
<1> DEFINE lock == VaultLock(a, v, h)
           p == Locker[v]
           ours == LockFor(s.snapshot.locks[p], s.keys.id)
           generation == s.snapshot.generation[p]
           itsSeed(t) == UnlockProfile(s.keys, The(ours), generation, t)
           secret(t) == UnlockVault(itsSeed(t).value, lock, generation, t)
<1>1. lock.profile = p
  BY NothingIsWrong DEF VaultLock
<1>2. Unwrap(s, lock) =
        IF p \notin Profiles \/ ours = {} THEN Err("VaultContent")
        ELSE IF ~itsSeed("storable").ok THEN itsSeed("storable")
        ELSE IF ~itsSeed("high").ok THEN itsSeed("high")
        ELSE IF ~secret("storable").ok THEN secret("storable")
        ELSE IF ~secret("high").ok THEN secret("high")
        ELSE Ok([t \in Tiers |-> secret(t).value])
  BY <1>1 DEF Unwrap
<1>3. CASE p \notin Profiles \/ ours = {}
  BY <1>2, <1>3
<1>4. CASE p \in Profiles /\ ours # {}
  <2>1. The(ours) \in s.snapshot.locks[p]
    BY <1>4 DEF The, LockFor
  <2>2. PICK b, g : b.fault = NoFault /\ The(ours) = ProfileLock(b, p, g)
    BY <1>4, <2>1 DEF Sound
  <2>3. \A t \in Tiers : \/ g # generation /\ itsSeed(t) = Err("KeyGenerationMismatch")
                         \/ g = generation /\ itsSeed(t) = Ok(SeedOf(p, t, g))
    BY <2>2, ProfileOpens DEF Sound
  <2>4. \A t \in Tiers : g = generation =>
           \/ secret(t) = Err("KeyGenerationMismatch")
           \/ secret(t) = Ok(SecretOf(v, t))
    <3> SUFFICES ASSUME NEW t \in Tiers, g = generation
                 PROVE  \/ secret(t) = Err("KeyGenerationMismatch")
                        \/ secret(t) = Ok(SecretOf(v, t))
      OBVIOUS
    <3>1. itsSeed(t).value = SeedOf(p, t, g)
      <4>1. itsSeed(t) = Ok(SeedOf(p, t, g))
        BY <2>3
      <4> HIDE DEF itsSeed
      <4> QED
        BY <4>1 DEF Ok
    <3>2. secret(t) = UnlockVault(SeedOf(p, t, g), VaultLock(a, v, h), g, t)
      BY <3>1
    <3>3. \/ secret(t) = Err("KeyGenerationMismatch")
          \/ secret(t) = Ok(SecretOf(v, t))
      <4> HIDE DEF secret, itsSeed, generation, ours, lock
      <4> DEFINE opened == UnlockVault(SeedOf(Locker[v], t, g), VaultLock(a, v, h), g, t)
      <4>1. opened = Err("KeyGenerationMismatch") \/ opened = Ok(SecretOf(v, t))
        BY VaultUnlocks
      <4>2. secret(t) = opened
        BY <3>2
      <4> HIDE DEF opened
      <4> QED
        BY <4>1, <4>2
    <3> QED
      BY <3>3
  <2>5. "storable" \in Tiers /\ "high" \in Tiers /\ Tiers = {"storable", "high"}
    BY DEF Tiers
  <2> HIDE DEF itsSeed, secret, ours, generation, p, lock
  <2>6. CASE g # generation
    <3>1. itsSeed("storable") = Err("KeyGenerationMismatch")
      BY <2>3, <2>5, <2>6
    <3>2. ~itsSeed("storable").ok
      BY <3>1 DEF Err
    <3> QED
      BY <1>2, <1>4, <3>1, <3>2 DEF lock
  <2>7. CASE g = generation
    <3>1. itsSeed("storable").ok /\ itsSeed("high").ok
      BY <2>3, <2>5, <2>7 DEF Ok
    <3>2. CASE \E t \in Tiers : secret(t) = Err("KeyGenerationMismatch")
      <4>1. \A t \in Tiers : secret(t).ok \/ secret(t) = Err("KeyGenerationMismatch")
        BY <2>4, <2>7 DEF Ok
      <4>2. \E t \in Tiers : ~secret(t).ok
        BY <3>2 DEF Err
      <4> QED
        BY <1>2, <1>4, <2>5, <3>1, <4>1, <4>2 DEF lock
    <3>3. CASE \A t \in Tiers : secret(t) = Ok(SecretOf(v, t))
      <4>1. \A t \in Tiers : secret(t).ok /\ secret(t).value = SecretOf(v, t)
        BY <3>3 DEF Ok
      <4>2. [t \in Tiers |-> secret(t).value] = [t \in Tiers |-> SecretOf(v, t)]
        BY <4>1
      <4> QED
        BY <1>2, <1>4, <2>5, <3>1, <4>1, <4>2 DEF lock
    <3> QED
      BY <2>4, <2>7, <3>2, <3>3
  <2> QED
    BY <2>6, <2>7
<1> QED
  BY <1>3, <1>4

\* What opening one vault may come to, and be kept of it.
Honest(opened) == opened.ok \/ opened.error # "Crypto"

\* With the right secrets every commit decrypts and decodes.
LEMMA DocumentIsHonest ==
  ASSUME NEW a, a.fault = NoFault, NEW v, NEW i
  PROVE  LET read == Document(a, v, i, [t \in Tiers |-> SecretOf(v, t)])
         IN  read = Ok(Log[v][i]) /\ read.ok
<1> DEFINE secrets == [t \in Tiers |-> SecretOf(v, t)]
           k == SymKey(SecretOf(v, "storable"))
           plain == [decodes |-> TRUE, content |-> Log[v][i]]
<1>1. SymKey(secrets["storable"]) = k
  BY DEF Tiers
<1>2. Blob(a, v, i) = Encrypt(k, plain)
  BY NothingIsWrong DEF Blob
<1>3. Decrypt(k, Encrypt(k, plain)) = Ok(plain)
  BY DEF Decrypt, Encrypt
<1>4. Ok(plain).ok /\ Ok(plain).value = plain
  BY DEF Ok
<1> HIDE DEF secrets, k
<1>5. Document(a, v, i, secrets) = Ok(Log[v][i])
  BY <1>1, <1>2, <1>3, <1>4 DEF Document
<1>6. Ok(Log[v][i]).ok
  BY DEF Ok
<1> QED
  BY <1>5, <1>6 DEF secrets

-----------------------------------------------------------------------------
\* The account is what its clients make it, and with nothing wrong it holds no
\* lock but ours.
AccountSound ==
    /\ DOMAIN account.locks = Profiles /\ DOMAIN account.sealed = Vaults
    /\ account.fault = NoFault =>
        /\ \A p \in Profiles : \A l \in account.locks[p] :
              \E a, g : a.fault = NoFault /\ l = ProfileLock(a, p, g)
        /\ \A v \in Vaults : \A l \in account.sealed[v] :
              \E a, g : a.fault = NoFault /\ l = VaultLock(a, v, g)

Opened == {"get scope", "get team", "get open", "doctor keys", "doctor vaults"}

SessionSound == account.fault = NoFault /\ pc \in Opened => Sound(session)

WhySound ==
    /\ DOMAIN why = Vaults
    /\ account.fault = NoFault => \A v \in Vaults : why[v] # "Crypto"

KeyInv == AccountSound /\ SessionSound /\ WhySound

\* At the start each lock is of the first generation.
LEMMA KeyInvInit == Init => KeyInv
<1> SUFFICES ASSUME Init PROVE KeyInv
  OBVIOUS
<1>1. PICK f \in Faults :
         LET a == [fault |-> f]
         IN account = [fault |-> f, generation |-> [p \in Profiles |-> 1],
                       locks |-> [p \in Profiles |->
                           IF f = <<"no lock", p>> THEN {} ELSE {ProfileLock(a, p, 1)}],
                       sealed |-> [v \in Vaults |->
                           IF f = <<"no vault lock", v>> THEN {} ELSE {VaultLock(a, v, 1)}]]
  BY DEF Init, AccountInit
<1> DEFINE a == [fault |-> f]
<1>2. /\ account.fault = f /\ a.fault = f
      /\ account.locks = [p \in Profiles |->
             IF f = <<"no lock", p>> THEN {} ELSE {ProfileLock(a, p, 1)}]
      /\ account.sealed = [v \in Vaults |->
             IF f = <<"no vault lock", v>> THEN {} ELSE {VaultLock(a, v, 1)}]
  BY <1>1
<1> HIDE DEF a
<1>3. AccountSound
  <2>1. DOMAIN account.locks = Profiles /\ DOMAIN account.sealed = Vaults
    BY <1>2
  <2>2. ASSUME account.fault = NoFault, NEW p \in Profiles, NEW l \in account.locks[p]
        PROVE  a.fault = NoFault /\ l = ProfileLock(a, p, 1)
    <3>1. account.locks[p] = IF f = <<"no lock", p>> THEN {} ELSE {ProfileLock(a, p, 1)}
      BY <1>2, <2>2
    <3>2. l = ProfileLock(a, p, 1)
      BY <3>1, <2>2
    <3> QED
      BY <1>2, <3>2, <2>2
  <2>3. ASSUME account.fault = NoFault, NEW v \in Vaults, NEW l \in account.sealed[v]
        PROVE  a.fault = NoFault /\ l = VaultLock(a, v, 1)
    <3>1. account.sealed[v] = IF f = <<"no vault lock", v>> THEN {} ELSE {VaultLock(a, v, 1)}
      BY <1>2, <2>3
    <3>2. l = VaultLock(a, v, 1)
      BY <3>1, <2>3
    <3> QED
      BY <1>2, <3>2, <2>3
  <2> QED
    BY <2>1, <2>2, <2>3 DEF AccountSound
<1>4. pc \notin Opened
  BY DEF Init, Opened
<1>5. why = [v \in Vaults |-> "untried"]
  BY DEF Init, AccountInit
<1>6. WhySound
  BY <1>5 DEF WhySound
<1> QED
  BY <1>3, <1>4, <1>6 DEF KeyInv, SessionSound

\* Only another client changes the account, and never what is wrong with it.
LEMMA AccountChanges ==
  [Next]_commandVars => UNCHANGED account \/ (OtherClient /\ UNCHANGED <<pc, session, why>>)
<1> USE DEF Ends, ScopeTo, OpenSession
<1> SUFFICES ASSUME [Next]_commandVars
             PROVE  UNCHANGED account \/ (OtherClient /\ UNCHANGED <<pc, session, why>>)
  OBVIOUS
<1>1. CASE UNCHANGED commandVars
  BY <1>1 DEF commandVars, accountVars
<1>2. CASE GetNext
  BY <1>2 DEF GetNext, ParseFlags, GetUnlock, ResolveScope, NameTeam, NoTeam, OpenNext, Choose
<1>3. CASE DoctorNext
  BY <1>3 DEF DoctorNext, DoctorUnlock, CheckKeys, CheckVault, Reported
<1>4. CASE UNCHANGED accountVars
  BY <1>4 DEF accountVars
<1>5. CASE Exits("recovery", stage, verdict) \/ Exits("create", pstage, made)
  BY <1>5 DEF Exits
<1>6. CASE OtherClient
  BY <1>6 DEF OtherClient, Rekey, Relock, Reseal
<1> QED
  BY <1>1, <1>2, <1>3, <1>4, <1>5, <1>6 DEF Next, CommandStep, Environment

\* Whatever another client replaces, it replaces by locks of ours.
LEMMA AccountStep ==
  AccountSound /\ [Next]_commandVars => AccountSound' /\ account'.fault = account.fault
<1> SUFFICES ASSUME AccountSound, OtherClient
             PROVE  AccountSound' /\ account'.fault = account.fault
  BY AccountChanges DEF AccountSound
<1>1. CASE \E p \in Profiles : Rekey(p)
  <2>1. /\ account'.fault = account.fault /\ account'.locks = account.locks
        /\ account'.sealed = account.sealed
    BY <1>1 DEF Rekey
  <2> QED
    BY <2>1 DEF AccountSound
<1>2. CASE \E p \in Profiles : Relock(p)
  <2>1. PICK p \in Profiles : account' = [account EXCEPT
            !.locks[p] = {ProfileLock(account, p, account.generation[p])}]
    BY <1>2 DEF Relock
  <2>2. /\ account'.fault = account.fault /\ account'.sealed = account.sealed
        /\ account'.locks = [account.locks EXCEPT
               ![p] = {ProfileLock(account, p, account.generation[p])}]
    BY <2>1
  <2> QED
    BY <2>2 DEF AccountSound
<1>3. CASE \E v \in Vaults : Reseal(v)
  <2>1. PICK v \in Vaults : account' = [account EXCEPT
            !.sealed[v] = {VaultLock(account, v, account.generation[Locker[v]])}]
    BY <1>3 DEF Reseal
  <2>2. /\ account'.fault = account.fault /\ account'.locks = account.locks
        /\ account'.sealed = [account.sealed EXCEPT
               ![v] = {VaultLock(account, v, account.generation[Locker[v]])}]
    BY <2>1
  <2> QED
    BY <2>2 DEF AccountSound
<1> QED
  BY <1>1, <1>2, <1>3 DEF OtherClient

\* A session that opens has the snapshot's locks and our keys.
LEMMA OpenSessionIsSound ==
  ASSUME AccountSound, account.fault = NoFault, NEW next, OpenSession(next)
  PROVE  Sound(session)' \/ pc' = "end"
<1>1. PICK unlocked \in Answers(Unlock(OurSessionKey, Grant(account), Listed(account))) :
         IF unlocked.ok
         THEN /\ session' = [open |-> TRUE, snapshot |-> Snapshot,
                             seed |-> unlocked.value.seed, keys |-> unlocked.value.keys]
              /\ pc' = next /\ UNCHANGED outcome
         ELSE Ends(unlocked) /\ UNCHANGED session
  BY DEF OpenSession
<1>2. CASE unlocked.ok
  <2>1. unlocked = Ok([seed |-> Seed, keys |-> OurKeys])
    BY <1>2, GrantOpens DEF Answers, Err
  <2>2. unlocked.value.keys = OurKeys
    BY <2>1 DEF Ok
  <2>3. session'.keys = OurKeys /\ session'.snapshot.locks = account.locks
    BY <1>1, <1>2, <2>2 DEF Snapshot
  <2> QED
    BY <2>3 DEF Sound, AccountSound
<1>3. CASE ~unlocked.ok
  BY <1>1, <1>3 DEF Ends
<1> QED
  BY <1>2, <1>3

\* A session is the account's, as it was when it was opened.
LEMMA SessionStep == KeyInv /\ [Next]_commandVars => SessionSound'
<1> SUFFICES ASSUME KeyInv, [Next]_commandVars, account.fault = NoFault, pc' \in Opened
             PROVE  Sound(session)'
  BY AccountStep DEF KeyInv, SessionSound
<1> USE DEF Ends, ScopeTo, Opened
<1>1. CASE UNCHANGED <<pc, session>>
  BY <1>1 DEF KeyInv, SessionSound, Sound
<1>2. CASE pc \in Opened /\ UNCHANGED session
  BY <1>2 DEF KeyInv, SessionSound, Sound
<1>3. CASE GetUnlock
  BY <1>3, OpenSessionIsSound DEF GetUnlock, KeyInv
<1>4. CASE DoctorUnlock
  BY <1>4, OpenSessionIsSound DEF DoctorUnlock, KeyInv
<1>5. CASE ParseFlags
  BY <1>5 DEF ParseFlags
<1>6. CASE GetNext /\ ~GetUnlock /\ ~ParseFlags
  <2>1. pc \in Opened /\ UNCHANGED session
    BY <1>6 DEF GetNext, ResolveScope, NameTeam, NoTeam, OpenNext, Choose
  <2> QED
    BY <1>2, <2>1
<1>7. CASE DoctorNext /\ ~DoctorUnlock
  <2>1. pc \in Opened /\ UNCHANGED session
    BY <1>7 DEF DoctorNext, CheckKeys, CheckVault, Reported
  <2> QED
    BY <1>2, <2>1
<1>8. CASE Exits("recovery", stage, verdict) \/ Exits("create", pstage, made)
  BY <1>8 DEF Exits
<1>9. CASE UNCHANGED accountVars
  BY <1>1, <1>9 DEF accountVars
<1>10. CASE OtherClient
  BY <1>1, <1>10 DEF OtherClient, Rekey, Relock, Reseal
<1>11. CASE UNCHANGED commandVars
  BY <1>9, <1>11 DEF commandVars
<1> QED
  BY <1>3, <1>4, <1>5, <1>6, <1>7, <1>8, <1>9, <1>10, <1>11
  DEF Next, CommandStep, Environment

\* Opening a vault, for `get` and for `doctor`, is not stopped by cryptography.
LEMMA VaultIsHonest ==
  ASSUME AccountSound, account.fault = NoFault, Sound(session), NEW v \in Vaults,
         account.sealed[v] # {}
  PROVE  LET opened == Unwrap(session, The(account.sealed[v]))
         IN  \/ opened = Err("VaultContent") \/ opened = Err("KeyGenerationMismatch")
             \/ opened = Ok([t \in Tiers |-> SecretOf(v, t)])
<1>1. The(account.sealed[v]) \in account.sealed[v]
  BY DEF The
<1>2. PICK a, g : a.fault = NoFault /\ The(account.sealed[v]) = VaultLock(a, v, g)
  BY <1>1 DEF AccountSound
<1> QED
  BY <1>2, UnwrapIsHonest

\* `get` opens a vault, or is told why not, but never a cryptographic error.
LEMMA OpenVaultIsHonest ==
  ASSUME AccountSound, account.fault = NoFault, Sound(session), NEW v \in Vaults
  PROVE  Honest(OpenVault(v))
<1> DEFINE locks == account.sealed[v]
           secrets == Unwrap(session, The(locks))
           s == [t \in Tiers |-> SecretOf(v, t)]
<1>1. OpenVault(v) = IF locks = {} THEN Err("VaultContent")
                     ELSE IF ~secrets.ok THEN secrets ELSE Read(v, secrets.value)
  BY DEF OpenVault
<1>2. CASE locks = {}
  BY <1>1, <1>2 DEF Honest, Err
<1>3. CASE locks # {} /\ secrets \in {Err("VaultContent"), Err("KeyGenerationMismatch")}
  <2> HIDE DEF secrets
  <2>1. ~secrets.ok /\ secrets.error # "Crypto"
    BY <1>3 DEF Err
  <2> QED
    BY <1>1, <1>3, <2>1 DEF Honest
<1>4. CASE locks # {} /\ secrets = Ok(s)
  <2>1. secrets.ok /\ secrets.value = s
    <3> HIDE DEF secrets, s
    <3> QED
      BY <1>4 DEF Ok
  <2>2. \A i : Document(account, v, i, s).ok
    BY DocumentIsHonest
  <2>3. Read(v, s).ok
    BY <2>2 DEF Read, Ok
  <2> QED
    BY <1>1, <1>4, <2>1, <2>3 DEF Honest
<1> QED
  BY <1>2, <1>3, <1>4, VaultIsHonest

\* So is `doctor`.
LEMMA VaultOpensIsHonest ==
  ASSUME AccountSound, account.fault = NoFault, Sound(session), NEW v \in Vaults
  PROVE  Honest(VaultOpens(session, v))
<1> DEFINE locks == account.sealed[v]
           secrets == Unwrap(session, The(locks))
           s == [t \in Tiers |-> SecretOf(v, t)]
           out == locks = {} \/ The(locks).profile \notin Unlockable(session)
<1>1. VaultOpens(session, v) =
        IF out THEN Err("VaultContent")
        ELSE IF ~secrets.ok \/ Log[v] = <<>> THEN secrets
        ELSE Document(account, v, Len(Log[v]), secrets.value)
  BY DEF VaultOpens
<1>2. CASE out
  BY <1>1, <1>2 DEF Honest, Err
<1>3. CASE ~out /\ secrets \in {Err("VaultContent"), Err("KeyGenerationMismatch")}
  <2> HIDE DEF secrets, out
  <2>1. ~secrets.ok /\ secrets.error # "Crypto"
    BY <1>3 DEF Err
  <2> QED
    BY <1>1, <1>3, <2>1 DEF Honest
<1>4. CASE ~out /\ secrets = Ok(s)
  <2> HIDE DEF out
  <2>1. secrets.ok /\ secrets.value = s
    <3> HIDE DEF secrets, s
    <3> QED
      BY <1>4 DEF Ok
  <2>2. Document(account, v, Len(Log[v]), s).ok
    BY DocumentIsHonest
  <2> QED
    BY <1>1, <1>4, <2>1, <2>2 DEF Honest
<1>5. locks # {} => \/ secrets \in {Err("VaultContent"), Err("KeyGenerationMismatch")}
                    \/ secrets = Ok(s)
  BY VaultIsHonest
<1> QED
  BY <1>2, <1>3, <1>4, <1>5

\* What is kept of the answer to a question is no cryptographic error, if the
\* question has none.
LEMMA WhyStays ==
  ASSUME WhySound, NEW v, NEW answer, NEW opened \in Answers(answer),
         account.fault = NoFault /\ v \in Vaults => Honest(answer),
         why' = [why EXCEPT ![v] = IF opened.ok THEN "ok" ELSE opened.error],
         account'.fault = account.fault
  PROVE  WhySound'
<1>1. account.fault = NoFault /\ v \in Vaults =>
        (IF opened.ok THEN "ok" ELSE opened.error) # "Crypto"
  BY DEF Answers, Honest, Err
<1> QED
  BY <1>1 DEF WhySound

\* No step notes a cryptographic error.
LEMMA WhyStep == KeyInv /\ [Next]_commandVars => WhySound'
<1> SUFFICES ASSUME KeyInv, [Next]_commandVars PROVE WhySound'
  OBVIOUS
<1>1. AccountSound /\ SessionSound /\ WhySound /\ account'.fault = account.fault
  BY AccountStep DEF KeyInv
<1>2. CASE UNCHANGED why
  BY <1>1, <1>2 DEF WhySound
<1>3. CASE OpenNext
  <2> DEFINE v == Head(todo)
  <2>1. PICK opened \in Answers(OpenVault(v)) :
           why' = [why EXCEPT ![v] = IF opened.ok THEN "ok" ELSE opened.error]
    BY <1>3 DEF OpenNext
  <2>2. account.fault = NoFault => Sound(session)
    BY <1>1, <1>3 DEF OpenNext, SessionSound, Opened
  <2>3. account.fault = NoFault /\ v \in Vaults => Honest(OpenVault(v))
    BY <1>1, <2>2, OpenVaultIsHonest
  <2> HIDE DEF v
  <2> QED
    BY <1>1, <2>1, <2>3, WhyStays
<1>4. CASE CheckVault
  <2> DEFINE v == Head(todo)
  <2>1. CASE UNCHANGED why
    BY <1>2, <2>1
  <2>2. CASE \E opened \in Answers(VaultOpens(session, v)) :
               why' = [why EXCEPT ![v] = IF opened.ok THEN "ok" ELSE opened.error]
    <3>1. account.fault = NoFault => Sound(session)
      BY <1>1, <1>4 DEF CheckVault, SessionSound, Opened
    <3>2. account.fault = NoFault /\ v \in Vaults => Honest(VaultOpens(session, v))
      BY <1>1, <3>1, VaultOpensIsHonest
    <3> HIDE DEF v
    <3> QED
      BY <1>1, <2>2, <3>2, WhyStays
  <2> QED
    BY <1>4, <2>1, <2>2 DEF CheckVault
<1>5. CASE GetNext /\ ~OpenNext
  BY <1>2, <1>5 DEF GetNext, ParseFlags, GetUnlock, ResolveScope, NameTeam, NoTeam, Choose
<1>6. CASE DoctorNext /\ ~CheckVault
  BY <1>2, <1>6 DEF DoctorNext, DoctorUnlock, CheckKeys, Reported
<1>7. CASE Exits("recovery", stage, verdict) \/ Exits("create", pstage, made)
  BY <1>2, <1>7 DEF Exits
<1>8. CASE OtherClient
  BY <1>2, <1>8 DEF OtherClient, Rekey, Relock, Reseal
<1>9. CASE UNCHANGED accountVars
  BY <1>2, <1>9 DEF accountVars
<1>10. CASE UNCHANGED commandVars
  BY <1>9, <1>10 DEF commandVars
<1> QED
  BY <1>3, <1>4, <1>5, <1>6, <1>7, <1>8, <1>9, <1>10 DEF Next, CommandStep, Environment

\* While another client gives profiles new keys between the snapshot and the
\* opening of a vault, what is out of date is refused for its generation and
\* never reaches the cryptography (keys.rs check_generation).
THEOREM StaleKeysAreNotWrongKeys == Spec => []StaleIsNotWrongKey
<1>1. Init => KeyInv
  BY KeyInvInit
<1>2. KeyInv /\ [Next]_commandVars => KeyInv'
  BY AccountStep, SessionStep, WhyStep DEF KeyInv
<1>3. KeyInv => StaleIsNotWrongKey
  BY DEF KeyInv, WhySound, StaleIsNotWrongKey
<1> QED
  BY <1>1, <1>2, <1>3, PTL DEF Spec
-----------------------------------------------------------------------------
(* `get` prints the best of what matches: the ranking is a strict order, a  *)
(* finite set of logins has a first, and what was found is all that matches.*)

\* The key of the read ranking at each place is a number.
Ranked(c) == \A n \in 1..5 : Keys(c)[n] \in Int

\* The order of the ranking is strict.
LEMMA AheadIsStrict ==
  ASSUME NEW a, NEW b, NEW c, Ranked(a), Ranked(b), Ranked(c)
  PROVE  ~Ahead(a, a) /\ (Ahead(a, b) /\ Ahead(b, c) => Ahead(a, c))
<1>1. ~Ahead(a, a)
  BY DEF Ahead, Ranked
<1>2. ASSUME Ahead(a, b), Ahead(b, c)
      PROVE  Ahead(a, c)
  <2>1. PICK n \in 1..5 : /\ Keys(a)[n] < Keys(b)[n]
                          /\ \A m \in 1..(n - 1) : Keys(a)[m] = Keys(b)[m]
    BY <1>2 DEF Ahead
  <2>2. PICK k \in 1..5 : /\ Keys(b)[k] < Keys(c)[k]
                          /\ \A m \in 1..(k - 1) : Keys(b)[m] = Keys(c)[m]
    BY <1>2 DEF Ahead
  <2>3. \A m \in 1..5 : Keys(a)[m] \in Int /\ Keys(b)[m] \in Int /\ Keys(c)[m] \in Int
    BY DEF Ranked
  <2>4. CASE n <= k
    <3>1. Keys(a)[n] < Keys(c)[n]
      BY <2>1, <2>2, <2>3, <2>4
    <3>2. \A m \in 1..(n - 1) : Keys(a)[m] = Keys(c)[m]
      BY <2>1, <2>2, <2>4
    <3> QED BY <3>1, <3>2 DEF Ahead
  <2>5. CASE k < n
    <3>1. Keys(a)[k] < Keys(c)[k]
      BY <2>1, <2>2, <2>3, <2>5
    <3>2. \A m \in 1..(k - 1) : Keys(a)[m] = Keys(c)[m]
      BY <2>1, <2>2, <2>5
    <3> QED BY <3>1, <3>2 DEF Ahead
  <2> QED BY <2>4, <2>5
<1> QED BY <1>1, <1>2

\* So a finite set of logins has one that none is ahead of: by induction on how
\* many they are.
HasFirst(S) == \E c \in S : \A d \in S \ {c} : ~Ahead(d, c)

LEMMA FirstExists ==
  ASSUME NEW S, IsFiniteSet(S), S # {}, \A c \in S : Ranked(c)
  PROVE  HasFirst(S)
<1> DEFINE Good(n) == \A R \in SUBSET S : Cardinality(R) = n /\ R # {} => HasFirst(R)
           T == {n \in Nat : Good(n)}
<1>1. \A R \in SUBSET S : IsFiniteSet(R) /\ Cardinality(R) \in Nat
  BY FS_Subset, FS_CardinalityType
<1>2. 0 \in T
  <2>1. \A R \in SUBSET S : Cardinality(R) = 0 => R = {}
    BY <1>1, FS_EmptySet
  <2> QED BY <2>1
<1>3. ASSUME NEW n \in Nat, n \in T PROVE n + 1 \in T
  <2> SUFFICES ASSUME NEW R \in SUBSET S, Cardinality(R) = n + 1, R # {}
               PROVE  HasFirst(R)
    OBVIOUS
  <2>1. PICK c \in R : TRUE
    OBVIOUS
  <2> DEFINE Q == R \ {c}
  <2>2. Q \in SUBSET S /\ Cardinality(Q) = n
    <3>1. Cardinality(Q) = Cardinality(R) - 1
      BY <1>1, <2>1, FS_RemoveElement
    <3> QED BY <3>1
  <2>3. CASE Q = {}
    BY <2>1, <2>3 DEF HasFirst
  <2>4. CASE Q # {}
    <3>1. HasFirst(Q)
      BY <1>3, <2>2, <2>4
    <3>2. PICK m \in Q : \A d \in Q \ {m} : ~Ahead(d, m)
      BY <3>1 DEF HasFirst
    <3>3. CASE ~Ahead(c, m)
      <4>1. \A d \in R \ {m} : ~Ahead(d, m)
        BY <3>2, <3>3
      <4> QED BY <3>2, <4>1 DEF HasFirst
    <3>4. CASE Ahead(c, m)
      <4>1. ASSUME NEW d \in R \ {c}, Ahead(d, c) PROVE FALSE
        <5>1. Ranked(d) /\ Ranked(c) /\ Ranked(m)
          BY <2>1, <3>2
        <5>2. Ahead(d, m)
          BY <3>4, <4>1, <5>1, AheadIsStrict
        <5>3. d = m
          BY <3>2, <5>2
        <5> QED BY <5>1, <5>2, <5>3, AheadIsStrict
      <4> QED BY <2>1, <4>1 DEF HasFirst
    <3> QED BY <3>3, <3>4
  <2> QED BY <2>3, <2>4
<1> HIDE DEF T
<1>4. Nat \subseteq T
  BY <1>2, <1>3, Induction
<1>5. Good(Cardinality(S))
  <2>1. Cardinality(S) \in T
    BY <1>1, <1>4
  <2> QED BY <2>1 DEF T
<1> QED BY <1>5

\* The first of them is one of them, and none is ahead of it.
LEMMA RankIsFirst ==
  ASSUME NEW S, IsFiniteSet(S), S # {}, \A c \in S : Ranked(c)
  PROVE  Rank(S) \in S /\ \A d \in S \ {Rank(S)} : ~Ahead(d, Rank(S))
BY FirstExists DEF HasFirst, Rank

\* A login that is live where the other is deleted, or closer, or newer, is ahead.
LEMMA BetterIsAhead ==
  ASSUME NEW a, NEW b, Better(a, b), Recency(a.login) \in Nat, Recency(b.login) \in Nat
  PROVE  Ahead(a, b)
<1>1. /\ Keys(a)[1] = Liveness(a.login) /\ Keys(b)[1] = Liveness(b.login)
      /\ Keys(a)[2] = a.tier /\ Keys(b)[2] = b.tier
      /\ Keys(a)[3] = 0 - Recency(a.login) /\ Keys(b)[3] = 0 - Recency(b.login)
  BY DEF Keys
<1>2. 1..(1 - 1) = {} /\ 1..(2 - 1) = {1} /\ 1..(3 - 1) = {1, 2}
  OBVIOUS
<1>3. CASE Liveness(a.login) < Liveness(b.login)
  BY <1>1, <1>2, <1>3, 1 \in 1..5 DEF Ahead
<1>4. CASE Liveness(a.login) = Liveness(b.login) /\ a.tier < b.tier
  BY <1>1, <1>2, <1>4, 2 \in 1..5 DEF Ahead
<1>5. CASE /\ Liveness(a.login) = Liveness(b.login) /\ a.tier = b.tier
           /\ Recency(a.login) > Recency(b.login)
  <2>1. Keys(a)[3] < Keys(b)[3]
    BY <1>1, <1>5
  <2> QED BY <1>1, <1>2, <1>5, <2>1, 3 \in 1..5 DEF Ahead
<1> QED BY <1>3, <1>4, <1>5 DEF Better

\* Of what is asked for whole, either a part does not open or it is the login.
LEMMA SelectedWhole ==
  ASSUME NEW c, DOMAIN c.login.custom \subseteq Nat, query.field.by = "any", Selected(c).ok
  PROVE  Selected(c) = Ok(<<"login", c.vault, c.id>>)
<1> DEFINE fields == c.login.custom
           P(f) == ~Value(f, c.key).ok
           picked == {i \in DOMAIN fields : P(fields[i])}
           closed == IF picked = {} THEN Err("NoSuchField")
                     ELSE Value(fields[CHOOSE i \in picked : \A j \in picked : i <= j], c.key)
           password == Value(c.login.password, c.key)
<1>1. Selected(c) = IF ~password.ok THEN password
                    ELSE IF closed # Err("NoSuchField") THEN closed
                    ELSE Ok(<<"login", c.vault, c.id>>)
  BY DEF Selected, FirstOf
<1>2. picked # {} => ~closed.ok
  <2> SUFFICES ASSUME picked # {} PROVE ~closed.ok
    OBVIOUS
  <2>1. picked \in SUBSET Nat
    OBVIOUS
  <2> DEFINE first == CHOOSE i \in picked : \A j \in picked : i <= j
  <2>2. first \in picked
    <3> HIDE DEF picked
    <3>1. \E i \in picked : \A j \in picked : i <= j
      BY <2>1, Least
    <3> QED BY <3>1
  <2>3. ~Value(fields[first], c.key).ok
    <3> HIDE DEF first
    <3> QED BY <2>2
  <2> QED BY <2>3
<1>3. picked = {} => closed = Err("NoSuchField")
  OBVIOUS
<1> HIDE DEF picked, closed, password
<1> QED BY <1>1, <1>2, <1>3

\* No member comes twice.
Once(seq) == \A i, j \in DOMAIN seq : seq[i] = seq[j] => i = j

\* One list after another, of members that they do not share.
LEMMA JoinedOnce ==
  ASSUME NEW A, NEW B, A \cap B = {}, NEW s \in Seq(A), NEW t \in Seq(B), Once(s), Once(t)
  PROVE  s \o t \in Seq(A \cup B) /\ Once(s \o t)
<1>1. /\ Len(s) \in Nat /\ DOMAIN s = 1..Len(s) /\ \A i \in 1..Len(s) : s[i] \in A
      /\ Len(t) \in Nat /\ DOMAIN t = 1..Len(t) /\ \A i \in 1..Len(t) : t[i] \in B
  OBVIOUS
<1>2. s \in Seq(A \cup B) /\ t \in Seq(A \cup B)
  OBVIOUS
<1>3. /\ s \o t \in Seq(A \cup B)
      /\ Len(s \o t) = Len(s) + Len(t)
      /\ \A k \in 1..(Len(s) + Len(t)) :
            (s \o t)[k] = IF k <= Len(s) THEN s[k] ELSE t[k - Len(s)]
  BY <1>2
<1>4. ASSUME NEW i \in DOMAIN (s \o t), NEW j \in DOMAIN (s \o t), (s \o t)[i] = (s \o t)[j]
      PROVE  i = j
  <2>1. /\ i \in Nat /\ 1 <= i /\ i <= Len(s) + Len(t)
        /\ j \in Nat /\ 1 <= j /\ j <= Len(s) + Len(t)
    BY <1>1, <1>3
  <2>2. /\ (s \o t)[i] = IF i <= Len(s) THEN s[i] ELSE t[i - Len(s)]
        /\ (s \o t)[j] = IF j <= Len(s) THEN s[j] ELSE t[j - Len(s)]
    BY <1>1, <1>3, <2>1
  <2>3. CASE i <= Len(s) /\ j <= Len(s)
    <3>0. (s \o t)[i] = s[i] /\ (s \o t)[j] = s[j]
      BY <2>2, <2>3
    <3>1. i \in 1..Len(s) /\ j \in 1..Len(s) /\ s[i] = s[j]
      <4>1. s[i] = s[j]
        BY <1>4, <3>0
      <4> QED BY <1>1, <2>1, <2>3, <4>1
    <3> QED BY <1>1, <3>1 DEF Once
  <2>4. CASE ~(i <= Len(s)) /\ ~(j <= Len(s))
    <3>1. i - Len(s) \in 1..Len(t) /\ j - Len(s) \in 1..Len(t)
      BY <1>1, <2>1, <2>4
    <3>2. t[i - Len(s)] = t[j - Len(s)]
      BY <1>4, <2>2, <2>4
    <3>3. i - Len(s) = j - Len(s)
      BY <1>1, <3>1, <3>2 DEF Once
    <3> QED BY <1>1, <2>1, <3>3
  <2>5. CASE i <= Len(s) /\ ~(j <= Len(s))
    <3>1. i \in 1..Len(s) /\ j - Len(s) \in 1..Len(t)
      BY <1>1, <2>1, <2>5
    <3> QED BY <1>1, <1>4, <2>2, <2>5, <3>1
  <2>6. CASE ~(i <= Len(s)) /\ j <= Len(s)
    <3>1. j \in 1..Len(s) /\ i - Len(s) \in 1..Len(t)
      BY <1>1, <2>1, <2>6
    <3> QED BY <1>1, <1>4, <2>2, <2>6, <3>1
  <2> QED BY <2>3, <2>4, <2>5, <2>6
<1> QED BY <1>3, <1>4 DEF Once

\* The vaults that hold logins, as `get` has them.
LoginSet == {LoginVaults[i] : i \in DOMAIN LoginVaults}

LEMMA LoginVaultsAre ==
  /\ LoginVaults \in Seq(LoginSet) /\ Once(LoginVaults)
  /\ \A v \in LoginSet : v \in Vaults /\ Tier(v) \in 0..3 /\ Position(v) \in Nat
<1> DEFINE S(n) == {v \in Vaults : HoldsLogins(v) /\ Tier(v) = n}
           of(n) == Pick(VaultList, S(n))
<1>1. VaultList \in Seq(Vaults) /\ Once(VaultList)
  BY VaultsAssumption DEF Vaults, Once
<1>2. ASSUME NEW n \in Nat PROVE of(n) \in Seq(S(n)) /\ Once(of(n))
  <2>1. S(n) = Vaults \cap S(n)
    OBVIOUS
  <2> HIDE DEF S
  <2> QED BY <1>1, <2>1, PickIs DEF Once
<1>3. /\ S(0) \cap S(1) = {} /\ (S(0) \cup S(1)) \cap S(2) = {}
      /\ ((S(0) \cup S(1)) \cup S(2)) \cap S(3) = {}
  OBVIOUS
<1>4. LoginVaults = ((of(0) \o of(1)) \o of(2)) \o of(3)
  BY DEF LoginVaults
<1>5. /\ LoginVaults \in Seq(((S(0) \cup S(1)) \cup S(2)) \cup S(3))
      /\ Once(LoginVaults)
  <2> HIDE DEF S, of
  <2>1. of(0) \o of(1) \in Seq(S(0) \cup S(1)) /\ Once(of(0) \o of(1))
    BY <1>2, <1>3, JoinedOnce
  <2>2. /\ (of(0) \o of(1)) \o of(2) \in Seq((S(0) \cup S(1)) \cup S(2))
        /\ Once((of(0) \o of(1)) \o of(2))
    BY <1>2, <1>3, <2>1, JoinedOnce
  <2> QED BY <1>2, <1>3, <1>4, <2>2, JoinedOnce
<1>6. \A v \in ((S(0) \cup S(1)) \cup S(2)) \cup S(3) : v \in Vaults /\ Tier(v) \in 0..3
  OBVIOUS
<1> HIDE DEF S, of
<1>7. \A i \in DOMAIN LoginVaults : /\ i \in Nat
                                    /\ LoginVaults[i] \in LoginSet
                                    /\ LoginVaults[i] \in ((S(0) \cup S(1)) \cup S(2)) \cup S(3)
  BY <1>5 DEF LoginSet
<1>8. LoginVaults \in Seq(LoginSet)
  BY <1>5, <1>7
<1>9. ASSUME NEW v \in LoginSet PROVE Position(v) \in Nat
  <2>1. \E i \in DOMAIN LoginVaults : LoginVaults[i] = v
    BY DEF LoginSet
  <2> QED BY <1>7, <2>1 DEF Position
<1> QED BY <1>5, <1>6, <1>7, <1>8, <1>9 DEF LoginSet

\* A part of them has none twice either.
LEMMA ThoseAre ==
  ASSUME NEW S
  PROVE  Those(S) \in Seq(LoginSet) /\ Once(Those(S))
<1>1. Pick(LoginVaults, S) \in Seq(LoginSet \cap S) /\ Once(Pick(LoginVaults, S))
  BY LoginVaultsAre, PickIs DEF Once
<1> QED BY <1>1 DEF Those

\* What is in a vault now, and what of it matches.
LEMMA LatestIs ==
  ASSUME NEW v \in Vaults
  PROVE  /\ Contents[v] = Latest(Log[v])
         /\ IsFiniteSet(DOMAIN Latest(Log[v])) /\ DOMAIN Latest(Log[v]) \subseteq Nat
         /\ \A d \in DOMAIN Latest(Log[v]) : IsLogin(Latest(Log[v])[d])
<1> DEFINE log == Log[v]
<1>1. /\ log \in Seq({log[i] : i \in DOMAIN log})
      /\ \A i \in DOMAIN log : IsDocument(log[i])
  BY LogAssumption
<1>2. Len(log) \in Nat /\ DOMAIN log = 1..Len(log)
  BY <1>1
<1>3. \A i \in DOMAIN log : IsTimed(log[i])
  BY <1>1 DEF IsTimed, IsDocument, IsLogin
<1>4. IsLog(log)
  BY <1>2, <1>3 DEF IsLog
<1>5. Contents[v] = Latest(log)
  BY <1>4, FoldIsLatestOfAll DEF Contents
<1>6. DOMAIN Latest(log) = UNION {DOMAIN log[i] : i \in DOMAIN log}
  BY DEF Latest
<1>7. IsFiniteSet(UNION {DOMAIN log[i] : i \in DOMAIN log})
  <2> DEFINE D == {DOMAIN log[i] : i \in DOMAIN log}
             f == [i \in 1..Len(log) |-> DOMAIN log[i]]
  <2>1. IsFiniteSet(1..Len(log))
    BY <1>2, FS_Interval
  <2>2. f \in Surjection(1..Len(log), D)
    BY <1>2 DEF Surjection
  <2>3. \A T \in D : IsFiniteSet(T)
    BY <1>1 DEF IsDocument
  <2> HIDE DEF D, f
  <2>4. IsFiniteSet(D)
    BY <2>1, <2>2, FS_Surjection
  <2>5. IsFiniteSet(UNION D)
    BY <2>3, <2>4, FS_UNION
  <2> QED BY <2>5 DEF D
<1>8. \A d \in DOMAIN Latest(log) : d \in Nat
  BY <1>1, <1>6 DEF IsDocument
<1>9. ASSUME NEW d \in DOMAIN Latest(log) PROVE IsLogin(Latest(log)[d])
  <2>1. PICK i \in DOMAIN log : d \in DOMAIN log[i] /\ Latest(log)[d] = log[i][d]
    BY <1>4, LatestIsCommitted
  <2> QED BY <1>1, <2>1 DEF IsDocument
<1> QED BY <1>5, <1>6, <1>7, <1>8, <1>9

\* A login that was found is what its vault last said of it, and matches.
Candidate(c) ==
    /\ c.vault \in LoginSet /\ why[c.vault] = "ok"
    /\ c.tier = Tier(c.vault)
    /\ c.id \in DOMAIN Latest(Log[c.vault])
    /\ c.login = Latest(Log[c.vault])[c.id]
    /\ Matches(c.id, c.login, query.login)

\* And all that match in the vaults that opened have been found.
AllFound ==
    \A v \in Vaults : why[v] = "ok" =>
        \A d \in DOMAIN Latest(Log[v]) :
            Matches(d, Latest(Log[v])[d], query.login) =>
                \E c \in found : c.vault = v /\ c.id = d

\* The vaults that are still to be opened: none twice, and none that was tried.
Untried ==
    /\ todo \in Seq(LoginSet) /\ Once(todo)
    /\ \A i \in DOMAIN todo : why[todo[i]] = "untried"

FoundInv ==
    /\ DOMAIN why = Vaults
    /\ pc \in {"get", "recovery", "create", "doctor", "doctor keys", "doctor vaults"} =>
          query = NoQuery
    /\ pc \in {"get", "get unlock", "get scope", "get team"} =>
          found = {} /\ \A v \in Vaults : why[v] = "untried"
    /\ pc \in {"get team", "get open"} => Untried
    /\ pc = "get open" =>
          IsFiniteSet(found) /\ AllFound /\ \A c \in found : Candidate(c)
    /\ BestMatch

\* A candidate can be ranked.
LEMMA CandidateRanks ==
  ASSUME NEW c, Candidate(c)
  PROVE  /\ c.vault \in Vaults /\ Ranked(c) /\ IsLogin(c.login)
         /\ Recency(c.login) \in Nat
<1>1. c.vault \in Vaults /\ Tier(c.vault) \in 0..3 /\ Position(c.vault) \in Nat
  BY LoginVaultsAre DEF Candidate
<1>2. IsLogin(c.login) /\ c.id \in Nat
  BY <1>1, LatestIs DEF Candidate
<1>3. Recency(c.login) \in Nat /\ Liveness(c.login) \in 0..2
  BY <1>2 DEF IsLogin, Recency, Liveness
<1>4. 0 - Recency(c.login) \in Int
  BY <1>3
<1>5. /\ Keys(c)[1] = Liveness(c.login) /\ Keys(c)[2] = c.tier
      /\ Keys(c)[3] = 0 - Recency(c.login)
      /\ Keys(c)[4] = c.id /\ Keys(c)[5] = Position(c.vault)
  BY DEF Keys
<1>6. c.tier \in Int
  BY <1>1 DEF Candidate
<1>7. Ranked(c)
  <2>1. \A n \in 1..5 : n = 1 \/ n = 2 \/ n = 3 \/ n = 4 \/ n = 5
    OBVIOUS
  <2> QED BY <1>1, <1>2, <1>3, <1>4, <1>5, <1>6, <2>1 DEF Ranked
<1> QED BY <1>1, <1>2, <1>3, <1>7

\* What opening a vault gives is its contents.
LEMMA OpenedIsContents ==
  ASSUME NEW v \in Vaults, OpenVault(v).ok
  PROVE  OpenVault(v).value.document = Contents[v]
<1> DEFINE locks == account.sealed[v]
           secrets == Unwrap(session, The(locks))
<1>1. \A e : ~Err(e).ok
  BY DEF Err
<1>2. OpenVault(v) = IF locks = {} THEN Err("VaultContent")
                     ELSE IF ~secrets.ok THEN secrets ELSE Read(v, secrets.value)
  BY DEF OpenVault
<1> HIDE DEF locks, secrets
<1>3. OpenVault(v) = Read(v, secrets.value) /\ Read(v, secrets.value).ok
  BY <1>1, <1>2
<1> DEFINE bad == {i \in DOMAIN Log[v] : ~Document(account, v, i, secrets.value).ok}
           first == CHOOSE i \in bad : \A j \in bad : i <= j
<1>4. Read(v, secrets.value) =
         IF bad # {} THEN Document(account, v, first, secrets.value)
         ELSE Ok([document |-> Contents[v], key |-> SymKey(secrets.value["high"])])
  BY DEF Read
<1>5. bad = {}
  <2> SUFFICES ASSUME bad # {} PROVE FALSE
    OBVIOUS
  <2>1. DOMAIN Log[v] \subseteq Nat
    <3>1. Log[v] \in Seq({Log[v][i] : i \in DOMAIN Log[v]})
      BY LogAssumption
    <3> QED BY <3>1
  <2>2. bad \in SUBSET Nat
    BY <2>1
  <2>3. first \in bad
    <3> HIDE DEF bad
    <3>1. \E i \in bad : \A j \in bad : i <= j
      BY <2>2, Least
    <3> QED BY <3>1
  <2>4. ~Document(account, v, first, secrets.value).ok
    <3> HIDE DEF first
    <3> QED BY <2>3
  <2> HIDE DEF bad, first
  <2> QED BY <1>3, <1>4, <2>4
<1> HIDE DEF bad
<1>6. Read(v, secrets.value) =
         Ok([document |-> Contents[v], key |-> SymKey(secrets.value["high"])])
  BY <1>4, <1>5
<1> QED BY <1>3, <1>6 DEF Ok

\* What a vault adds to what was found.
LEMMA CandidatesAre ==
  ASSUME NEW v \in Vaults, NEW opened, opened.document = Contents[v]
  PROVE  /\ IsFiniteSet(Candidates(v, opened))
         /\ \A c \in Candidates(v, opened) :
               /\ c.vault = v /\ c.tier = Tier(v)
               /\ c.id \in DOMAIN Latest(Log[v])
               /\ c.login = Latest(Log[v])[c.id]
               /\ Matches(c.id, c.login, query.login)
         /\ \A d \in DOMAIN Latest(Log[v]) :
               Matches(d, Latest(Log[v])[d], query.login) =>
                  \E c \in Candidates(v, opened) : c.vault = v /\ c.id = d
<1> DEFINE latest == Latest(Log[v])
           D == {e \in DOMAIN latest : Matches(e, latest[e], query.login)}
           f == [d \in D |-> [vault |-> v, tier |-> Tier(v), id |-> d,
                              login |-> latest[d], key |-> opened.key]]
           C == Candidates(v, opened)
<1>1. opened.document = latest /\ IsFiniteSet(DOMAIN latest)
  BY LatestIs
<1> HIDE DEF latest
<1>2. C = {[vault |-> v, tier |-> Tier(v), id |-> d, login |-> latest[d],
            key |-> opened.key] : d \in D}
  BY <1>1 DEF Candidates
<1>3. \A d \in D : /\ f[d].vault = v /\ f[d].tier = Tier(v) /\ f[d].id = d
                   /\ f[d].login = latest[d] /\ d \in DOMAIN latest
                   /\ Matches(d, latest[d], query.login)
  OBVIOUS
<1>4. C = {f[d] : d \in D}
  BY <1>2
<1>5. IsFiniteSet(D)
  BY <1>1, FS_Subset
<1>6. f \in Surjection(D, C)
  <2>1. f \in [D -> C]
    BY <1>2
  <2> HIDE DEF D, f, C
  <2> QED BY <1>4, <2>1 DEF Surjection
<1>7. \A d : d \in D <=> d \in DOMAIN latest /\ Matches(d, latest[d], query.login)
  OBVIOUS
<1> HIDE DEF D, f, C
<1>8. IsFiniteSet(C)
  BY <1>5, <1>6, FS_Surjection
<1> QED BY <1>3, <1>4, <1>7, <1>8 DEF latest, C

\* At the start nothing was asked for.
LEMMA FoundInvInit == Init => FoundInv
<1> SUFFICES ASSUME Init PROVE FoundInv
  OBVIOUS
<1>1. /\ why = [v \in Vaults |-> "untried"] /\ query = NoQuery /\ found = {}
      /\ pc \in {"get", "doctor", "recovery", "create"}
  BY DEF Init, AccountInit, GetInit
<1> QED
  BY <1>1 DEF FoundInv, BestMatch

\* What a list of vaults to open is, when none was tried.
LEMMA NoneTried ==
  ASSUME \A v \in Vaults : why[v] = "untried", NEW vaults \in Seq(LoginSet), Once(vaults),
         todo' = vaults, why' = why
  PROVE  Untried'
<1>1. \A i \in DOMAIN vaults : vaults[i] \in Vaults
  BY LoginVaultsAre
<1>2. \A i \in DOMAIN vaults : why[vaults[i]] = "untried"
  BY <1>1
<1>3. LoginSet' = LoginSet
  BY DEF LoginSet
<1> QED
  BY <1>2, <1>3 DEF Untried, Once

\* What is left of the vaults to open after the first, when that was tried.
LEMMA TailUntried ==
  ASSUME Untried, todo # <<>>, DOMAIN why = Vaults, NEW how,
         todo' = Tail(todo), why' = [why EXCEPT ![Head(todo)] = how]
  PROVE  Untried'
<1> DEFINE n == Len(todo)
           rest == Tail(todo)
<1>1. /\ n \in Nat /\ n # 0 /\ DOMAIN todo = 1..n
      /\ \A i \in 1..n : todo[i] \in LoginSet /\ todo[i] \in Vaults
      /\ Head(todo) = todo[1]
  BY LoginVaultsAre DEF Untried
<1>2. /\ rest \in Seq(LoginSet) /\ Len(rest) = n - 1 /\ DOMAIN rest = 1..(n - 1)
      /\ \A i \in 1..(n - 1) : rest[i] = todo[i + 1]
  BY DEF Untried
<1> HIDE DEF rest
<1>3. ASSUME NEW i \in 1..(n - 1)
      PROVE  /\ i + 1 \in 1..n /\ i \in Nat /\ rest[i] = todo[i + 1]
             /\ todo[i + 1] # todo[1]
  <2>1. i + 1 \in 1..n /\ i \in Nat /\ 1 \in 1..n /\ i + 1 # 1
    BY <1>1
  <2>2. todo[i + 1] # todo[1]
    BY <1>1, <2>1 DEF Untried, Once
  <2> QED BY <1>2, <2>1, <2>2
<1>4. Once(rest)
  <2> SUFFICES ASSUME NEW i \in 1..(n - 1), NEW j \in 1..(n - 1), rest[i] = rest[j]
               PROVE  i = j
    BY <1>2 DEF Once
  <2>1. todo[i + 1] = todo[j + 1] /\ i + 1 \in DOMAIN todo /\ j + 1 \in DOMAIN todo
    BY <1>1, <1>3
  <2>2. i + 1 = j + 1
    BY <2>1 DEF Untried, Once
  <2> QED BY <1>3, <2>2
<1>5. \A i \in DOMAIN rest : why'[rest[i]] = "untried"
  <2> SUFFICES ASSUME NEW i \in 1..(n - 1) PROVE why'[rest[i]] = "untried"
    BY <1>2
  <2>1. why[todo[i + 1]] = "untried" /\ todo[i + 1] \in Vaults
    BY <1>1, <1>3 DEF Untried
  <2>2. why'[todo[i + 1]] = why[todo[i + 1]]
    BY <1>1, <1>3, <2>1
  <2> QED BY <1>3, <2>1, <2>2
<1>6. LoginSet' = LoginSet
  BY DEF LoginSet
<1>7. todo' = rest
  BY DEF rest
<1> QED
  BY <1>2, <1>4, <1>5, <1>6, <1>7 DEF Untried, Once

\* A vault that opens adds all of it that matches; one that fails adds nothing.
LEMMA OpenStep ==
  ASSUME FoundInv, OpenNext
  PROVE  FoundInv'
<1> DEFINE v == Head(todo)
<1>1. PICK opened \in Answers(OpenVault(v)) :
         /\ why' = [why EXCEPT ![v] = IF opened.ok THEN "ok" ELSE opened.error]
         /\ found' = found \cup (IF opened.ok THEN Candidates(v, opened.value) ELSE {})
         /\ IF opened.ok \/ query.vault.by = "any"
            THEN UNCHANGED <<pc, outcome>>
            ELSE Ends(opened)
  BY DEF OpenNext
<1>2. pc = "get open" /\ todo # <<>> /\ todo' = Tail(todo) /\ query' = query
  BY DEF OpenNext
<1>3. /\ DOMAIN why = Vaults /\ Untried /\ IsFiniteSet(found) /\ AllFound
      /\ \A c \in found : Candidate(c)
  BY <1>2 DEF FoundInv
<1>4. v \in LoginSet /\ v \in Vaults /\ why[v] = "untried"
  <2>1. todo \in Seq(LoginSet) /\ todo # <<>>
    BY <1>2, <1>3 DEF Untried
  <2>2. 1 \in DOMAIN todo /\ Head(todo) = todo[1] /\ todo[1] \in LoginSet
    BY <2>1
  <2> QED BY <1>3, <2>2, LoginVaultsAre DEF Untried
<1>5. Untried'
  BY <1>1, <1>2, <1>3, TailUntried
<1> HIDE DEF v
<1>6. DOMAIN why' = Vaults /\ \A w \in Vaults \ {v} : why'[w] = why[w]
  BY <1>1, <1>3
<1>7. \A e : ~Err(e).ok /\ Err(e).error = e
  BY DEF Err
<1>8. LoginSet' = LoginSet /\ \A w : Tier(w)' = Tier(w)
  BY DEF LoginSet, Tier
<1>9. \A c \in found : c.vault # v
  BY <1>3, <1>4 DEF Candidate
<1>10. \A c \in found : Candidate(c)'
  BY <1>2, <1>3, <1>6, <1>9, LoginVaultsAre DEF Candidate, LoginSet, Matches, Tier
<1>11. CASE opened.ok
  <2>1. opened = OpenVault(v)
    BY <1>1, <1>7, <1>11 DEF Answers
  <2>2. opened.value.document = Contents[v]
    BY <1>4, <1>11, <2>1, OpenedIsContents
  <2> DEFINE new == Candidates(v, opened.value)
  <2>3. /\ IsFiniteSet(new)
        /\ \A c \in new :
              /\ c.vault = v /\ c.tier = Tier(v)
              /\ c.id \in DOMAIN Latest(Log[v])
              /\ c.login = Latest(Log[v])[c.id]
              /\ Matches(c.id, c.login, query.login)
        /\ \A d \in DOMAIN Latest(Log[v]) :
              Matches(d, Latest(Log[v])[d], query.login) =>
                 \E c \in new : c.vault = v /\ c.id = d
    BY <1>4, <2>2, CandidatesAre
  <2>4. /\ why'[v] = "ok" /\ found' = found \cup new
        /\ UNCHANGED <<pc, outcome>>
    BY <1>1, <1>3, <1>4, <1>11
  <2> HIDE DEF new
  <2>5. IsFiniteSet(found')
    BY <1>3, <2>3, <2>4, FS_Union
  <2>6. \A c \in new : Candidate(c)'
    BY <1>2, <1>4, <2>3, <2>4 DEF Candidate, LoginSet, Matches, Tier
  <2>7. AllFound'
    <3> SUFFICES ASSUME NEW w \in Vaults, why'[w] = "ok", NEW d \in DOMAIN Latest(Log[w]),
                        Matches(d, Latest(Log[w])[d], query.login)
                 PROVE  \E c \in found' : c.vault = w /\ c.id = d
      <4>1. query'.login = query.login
        BY <1>2
      <4> QED BY <4>1 DEF AllFound
    <3>1. CASE w = v
      BY <2>3, <2>4, <3>1
    <3>2. CASE w # v
      BY <1>3, <1>6, <2>4, <3>2 DEF AllFound
    <3> QED BY <3>1, <3>2
  <2> QED
    BY <1>2, <1>5, <1>6, <1>10, <2>4, <2>5, <2>6, <2>7 DEF FoundInv, BestMatch
<1>12. CASE ~opened.ok
  <2>1. found' = found
    BY <1>1, <1>12
  <2>2. \E e \in VaultErrors \cup {"Api"} : opened = Err(e)
    BY <1>1, <1>12, OpenVaultFails DEF Answers, Fails
  <2>3. opened.error # "ok"
    BY <1>7, <2>2 DEF VaultErrors
  <2>4. why'[v] # "ok"
    BY <1>1, <1>3, <1>4, <1>12, <2>3
  <2>5. AllFound'
    <3>1. ASSUME NEW w \in Vaults, why'[w] = "ok"
          PROVE  why[w] = "ok"
      BY <1>6, <2>4, <3>1
    <3>2. query.login' = query.login
      BY <1>2
    <3> QED BY <1>3, <2>1, <3>1, <3>2 DEF AllFound, Matches
  <2>6. \A c \in found' : Candidate(c)'
    BY <1>10, <2>1
  <2>7. CASE query.vault.by = "any"
    <3>1. pc' = "get open"
      BY <1>1, <1>2, <2>7
    <3> QED
      BY <1>2, <1>3, <1>5, <1>6, <2>1, <2>5, <2>6, <3>1 DEF FoundInv, BestMatch
  <2>8. CASE query.vault.by # "any"
    <3>1. pc' = "end" /\ outcome' = opened
      BY <1>1, <1>12, <2>8 DEF Ends
    <3> QED
      BY <1>6, <1>12, <3>1 DEF FoundInv, BestMatch
  <2> QED BY <2>7, <2>8
<1> QED BY <1>11, <1>12

\* What does not touch the search leaves it as it is.
LEMMA FoundStays ==
  ASSUME FoundInv, UNCHANGED <<pc, outcome, todo, why, query, found>>
  PROVE  FoundInv'
<1>1. LoginSet' = LoginSet /\ \A w : Tier(w)' = Tier(w)
  BY DEF LoginSet, Tier
<1>2. Untried' <=> Untried
  BY <1>1 DEF Untried, Once
<1>3. AllFound' <=> AllFound
  BY DEF AllFound, Matches
<1>4. \A c \in found : Candidate(c)' <=> Candidate(c)
  BY <1>1 DEF Candidate, Matches
<1>5. BestMatch' <=> BestMatch
  BY DEF BestMatch, Matches, Better, NoQuery
<1> QED
  BY <1>2, <1>3, <1>4, <1>5 DEF FoundInv

\* A command that fails claims nothing, and neither does one without a query.
LEMMA ClaimsNothing ==
  ASSUME DOMAIN why' = Vaults,
         \/ pc' = "end" /\ ~outcome'.ok
         \/ query' = NoQuery /\ pc' \in {"end", "doctor keys", "doctor vaults"}
  PROVE  FoundInv'
<1>1. BestMatch'
  BY DEF BestMatch, NoQuery
<1> QED
  BY <1>1 DEF FoundInv, NoQuery

\* The first of what was found is a login that no other one beats.
LEMMA ChooseStep ==
  ASSUME FoundInv, Choose
  PROVE  FoundInv'
<1>1. /\ pc = "get open" /\ pc' = "end" /\ why' = why /\ query' = query
      /\ outcome' = IF found = {} THEN Err("NoSuchLogin") ELSE Selected(Rank(found))
  BY DEF Choose, Ends
<1>2. /\ DOMAIN why = Vaults /\ IsFiniteSet(found) /\ AllFound
      /\ \A c \in found : Candidate(c)
  BY <1>1 DEF FoundInv
<1> DEFINE best(v, d) == [vault |-> v, tier |-> Tier(v), id |-> d,
                          login |-> Latest(Log[v])[d]]
           those(v) == {e \in DOMAIN Latest(Log[v]) :
                          Matches(e, Latest(Log[v])[e], query.login)}
           opened == {w \in Vaults : why[w] = "ok"}
           matching == UNION {{best(v, d) : d \in those(v)} : v \in opened}
<1>3. ASSUME outcome'.ok, query.field.by = "any"
      PROVE  \E c \in matching : /\ outcome'.value = <<"login", c.vault, c.id>>
                                 /\ \A d \in matching : ~Better(d, c)
  <2>1. found # {}
    BY <1>1, <1>3 DEF Err
  <2> DEFINE c == Rank(found)
  <2>2. \A d \in found : Ranked(d)
    BY <1>2, CandidateRanks
  <2>3. c \in found /\ \A d \in found \ {c} : ~Ahead(d, c)
    BY <1>2, <2>1, <2>2, RankIsFirst
  <2>4. outcome' = Selected(c)
    BY <1>1, <2>1
  <2> HIDE DEF c
  <2>5. Candidate(c) /\ c.vault \in Vaults /\ IsLogin(c.login) /\ Recency(c.login) \in Nat
    BY <1>2, <2>3, CandidateRanks
  <2>6. outcome'.value = <<"login", c.vault, c.id>>
    <3>1. DOMAIN c.login.custom \subseteq Nat
      BY <2>5 DEF IsLogin
    <3>2. Selected(c) = Ok(<<"login", c.vault, c.id>>)
      BY <1>3, <2>4, <3>1, SelectedWhole
    <3> QED BY <2>4, <3>2 DEF Ok
  <2> DEFINE m == best(c.vault, c.id)
  <2>7. m.vault = c.vault /\ m.id = c.id /\ m.tier = c.tier /\ m.login = c.login
    BY <2>5 DEF Candidate
  <2>8. m \in matching
    <3>1. c.vault \in opened /\ c.id \in those(c.vault)
      BY <2>5 DEF Candidate
    <3> HIDE DEF opened, those, best
    <3> QED BY <3>1
  <2>9. ASSUME NEW d \in matching, Better(d, m) PROVE FALSE
    <3>1. PICK v \in opened : \E e \in those(v) : d = best(v, e)
      <4> HIDE DEF opened, those, best, m
      <4> QED BY <2>9
    <3>2. PICK e \in those(v) : d = best(v, e)
      BY <3>1
    <3>3. PICK f \in found : f.vault = v /\ f.id = e
      BY <1>2, <3>1, <3>2 DEF AllFound
    <3>4. /\ Candidate(f) /\ Ranked(f) /\ Recency(f.login) \in Nat
      BY <1>2, <3>3, CandidateRanks
    <3>5. f.tier = d.tier /\ f.login = d.login
      BY <3>2, <3>3, <3>4 DEF Candidate
    <3> HIDE DEF m, matching
    <3>6. Better(f, c)
      BY <2>7, <2>9, <3>5 DEF Better
    <3>7. Ahead(f, c)
      BY <2>5, <3>4, <3>6, BetterIsAhead
    <3>8. f = c
      BY <2>3, <3>3, <3>7
    <3> QED BY <2>2, <2>3, <3>7, <3>8, AheadIsStrict
  <2> HIDE DEF m, matching
  <2> QED BY <2>6, <2>7, <2>8, <2>9
<1>4. BestMatch'
  <2>1. query' = query /\ why' = why
    BY <1>1
  <2>2. BestMatch' <=> (pc' = "end" /\ outcome'.ok /\ query # NoQuery /\ query.field.by = "any" =>
                          \E c \in matching :
                             /\ outcome'.value = <<"login", c.vault, c.id>>
                             /\ \A d \in matching : ~Better(d, c))
    BY <2>1 DEF BestMatch, Matches, Better, NoQuery
  <2> HIDE DEF matching
  <2> QED BY <1>3, <2>2
<1> QED
  BY <1>1, <1>2, <1>4 DEF FoundInv


\* The vaults in scope, before the first of them is opened.
LEMMA ScopeStep ==
  ASSUME DOMAIN why = Vaults, \A v \in Vaults : why[v] = "untried", found = {},
         NEW vaults \in Seq(LoginSet), Once(vaults),
         todo' = vaults, pc' \in {"get team", "get open"}, UNCHANGED <<why, query, found>>
  PROVE  FoundInv'
<1>1. Untried'
  BY NoneTried
<1>2. AllFound'
  <2> SUFFICES ASSUME NEW v \in Vaults PROVE why'[v] # "ok"
    BY DEF AllFound
  <2> QED OBVIOUS
<1>3. IsFiniteSet(found') /\ found' = {}
  BY FS_EmptySet
<1>4. BestMatch'
  BY DEF BestMatch
<1>5. DOMAIN why' = Vaults /\ \A v \in Vaults : why'[v] = "untried"
  OBVIOUS
<1> QED
  BY <1>1, <1>2, <1>3, <1>4, <1>5 DEF FoundInv

\* The first of a scope, and what is after it.
LEMMA HeadAndTail ==
  ASSUME NEW seq \in Seq(LoginSet), seq # <<>>, Once(seq)
  PROVE  /\ <<Head(seq)>> \in Seq(LoginSet) /\ Once(<<Head(seq)>>)
         /\ Tail(seq) \in Seq(LoginSet) /\ Once(Tail(seq))
<1> DEFINE n == Len(seq)
           rest == Tail(seq)
<1>1. n \in Nat /\ n # 0 /\ DOMAIN seq = 1..n /\ Head(seq) \in LoginSet
  OBVIOUS
<1>2. /\ rest \in Seq(LoginSet) /\ DOMAIN rest = 1..(n - 1)
      /\ \A i \in 1..(n - 1) : rest[i] = seq[i + 1] /\ i \in Nat /\ i + 1 \in 1..n
  OBVIOUS
<1> HIDE DEF n, rest
<1>3. ASSUME NEW i \in DOMAIN rest, NEW j \in DOMAIN rest, rest[i] = rest[j]
      PROVE  i = j
  <2>1. /\ i \in Nat /\ i + 1 \in DOMAIN seq /\ rest[i] = seq[i + 1]
        /\ j \in Nat /\ j + 1 \in DOMAIN seq /\ rest[j] = seq[j + 1]
    BY <1>1, <1>2
  <2>2. i + 1 = j + 1
    BY <1>3, <2>1 DEF Once
  <2> QED BY <2>1, <2>2
<1>4. <<Head(seq)>> \in Seq(LoginSet) /\ Once(<<Head(seq)>>)
  BY <1>1 DEF Once
<1> QED
  BY <1>2, <1>3, <1>4 DEF Once, rest

\* Each step keeps it.
LEMMA FoundInvStep == FoundInv /\ [Next]_commandVars => FoundInv'
<1> SUFFICES ASSUME FoundInv, [Next]_commandVars PROVE FoundInv'
  OBVIOUS
<1>0. DOMAIN why = Vaults
  BY DEF FoundInv
<1>e. \A e : ~Err(e).ok
  BY DEF Err
<1>1. CASE ParseFlags
  <2>0. /\ pc = "get" /\ found' = found /\ why' = why
        /\ found = {} /\ \A v \in Vaults : why[v] = "untried"
    BY <1>1 DEF ParseFlags, FoundInv
  <2>1. CASE pc' = "get unlock"
    <3>1. BestMatch'
      BY <2>1 DEF BestMatch
    <3> QED BY <1>0, <2>0, <2>1, <3>1 DEF FoundInv
  <2>2. CASE pc' = "end" /\ ~outcome'.ok
    BY <1>0, <2>0, <2>2, ClaimsNothing
  <2> QED BY <1>1, <2>1, <2>2 DEF ParseFlags, Ends
<1>2. CASE GetUnlock
  <2>0. /\ pc = "get unlock" /\ found' = found /\ why' = why
        /\ found = {} /\ \A v \in Vaults : why[v] = "untried"
    BY <1>2 DEF GetUnlock, FoundInv
  <2>1. CASE pc' = "get scope"
    <3>1. BestMatch'
      BY <2>1 DEF BestMatch
    <3> QED BY <1>0, <2>0, <2>1, <3>1 DEF FoundInv
  <2>2. CASE pc' = "end" /\ ~outcome'.ok
    BY <1>0, <2>0, <2>2, ClaimsNothing
  <2> QED BY <1>2, <2>1, <2>2 DEF GetUnlock, OpenSession, Ends
<1>3. CASE ResolveScope
  <2> DEFINE called == Those({v \in Vaults : HoldsLogins(v) /\ FreeName[v] = query.vault.is})
             ided == Those({query.vault.is})
             teams == Those({v \in Vaults : Kind[v] = "Team"})
  <2>0. /\ pc = "get scope" /\ UNCHANGED <<why, query, found>>
        /\ found = {} /\ \A v \in Vaults : why[v] = "untried"
    BY <1>3 DEF ResolveScope, FoundInv
  <2>1. \/ ScopeTo(LoginVaults, "get open")
        \/ ided # <<>> /\ ScopeTo(ided, "get open")
        \/ Ends(Err("NoSuchVault"))
        \/ called # <<>> /\ ScopeTo(<<Head(called)>>, "get open")
        \/ ScopeTo(teams, "get team")
    BY <1>3 DEF ResolveScope
  <2>2. /\ LoginVaults \in Seq(LoginSet) /\ Once(LoginVaults)
        /\ called \in Seq(LoginSet) /\ Once(called)
        /\ ided \in Seq(LoginSet) /\ Once(ided)
        /\ teams \in Seq(LoginSet) /\ Once(teams)
    <3> HIDE DEF called, ided, teams
    <3>1. called \in Seq(LoginSet) /\ Once(called)
      BY ThoseAre DEF called
    <3>2. ided \in Seq(LoginSet) /\ Once(ided)
      BY ThoseAre DEF ided
    <3>3. teams \in Seq(LoginSet) /\ Once(teams)
      BY ThoseAre DEF teams
    <3> QED BY <3>1, <3>2, <3>3, LoginVaultsAre
  <2> HIDE DEF called, ided, teams
  <2>3. CASE Ends(Err("NoSuchVault"))
    BY <1>0, <1>e, <2>0, <2>3, ClaimsNothing DEF Ends
  <2>4. CASE ScopeTo(LoginVaults, "get open")
    BY <1>0, <2>0, <2>2, <2>4, ScopeStep DEF ScopeTo
  <2>5. CASE ScopeTo(ided, "get open")
    BY <1>0, <2>0, <2>2, <2>5, ScopeStep DEF ScopeTo
  <2>6. CASE ScopeTo(teams, "get team")
    BY <1>0, <2>0, <2>2, <2>6, ScopeStep DEF ScopeTo
  <2>7. CASE called # <<>> /\ ScopeTo(<<Head(called)>>, "get open")
    <3>1. <<Head(called)>> \in Seq(LoginSet) /\ Once(<<Head(called)>>)
      BY <2>2, <2>7, HeadAndTail
    <3> QED BY <1>0, <2>0, <2>7, <3>1, ScopeStep DEF ScopeTo
  <2> QED BY <2>1, <2>3, <2>4, <2>5, <2>6, <2>7
<1>4. CASE NameTeam
  <2>0. /\ pc = "get team" /\ todo # <<>> /\ UNCHANGED <<why, query, found>>
        /\ found = {} /\ (\A v \in Vaults : why[v] = "untried") /\ Untried
    BY <1>4 DEF NameTeam, FoundInv
  <2>1. ScopeTo(<<Head(todo)>>, "get open") \/ ScopeTo(Tail(todo), "get team")
    BY <1>4 DEF NameTeam
  <2>2. /\ <<Head(todo)>> \in Seq(LoginSet) /\ Once(<<Head(todo)>>)
        /\ Tail(todo) \in Seq(LoginSet) /\ Once(Tail(todo))
    BY <2>0, HeadAndTail DEF Untried
  <2>3. CASE ScopeTo(<<Head(todo)>>, "get open")
    BY <1>0, <2>0, <2>2, <2>3, ScopeStep DEF ScopeTo
  <2>4. CASE ScopeTo(Tail(todo), "get team")
    BY <1>0, <2>0, <2>2, <2>4, ScopeStep DEF ScopeTo
  <2> QED BY <2>1, <2>3, <2>4
<1>5. CASE NoTeam
  BY <1>0, <1>e, <1>5, ClaimsNothing DEF NoTeam, Ends
<1>6. CASE OpenNext
  BY <1>6, OpenStep
<1>7. CASE Choose
  BY <1>7, ChooseStep
<1>8. CASE DoctorNext /\ UNCHANGED <<getVars, recoveryVars, pairingVars>>
  <2>1. /\ pc \in {"doctor", "doctor keys", "doctor vaults"}
        /\ pc' \in {"end", "doctor keys", "doctor vaults"}
        /\ DOMAIN why' = Vaults
    <3>1. CASE DoctorUnlock
      BY <1>0, <3>1 DEF DoctorUnlock, OpenSession, Ends
    <3>2. CASE CheckKeys
      BY <1>0, <3>2 DEF CheckKeys, Ends
    <3>3. CASE CheckVault
      <4>1. pc = "doctor vaults" /\ pc' = pc
        BY <3>3 DEF CheckVault
      <4>2. \/ why' = why
            \/ \E how : why' = [why EXCEPT ![Head(todo)] = how]
        BY <3>3 DEF CheckVault
      <4> QED BY <1>0, <4>1, <4>2
    <3>4. CASE Reported
      BY <1>0, <3>4 DEF Reported, Ends
    <3> QED BY <1>8, <3>1, <3>2, <3>3, <3>4 DEF DoctorNext
  <2>2. query = NoQuery /\ query' = query
    BY <1>8, <2>1 DEF FoundInv, getVars
  <2> QED BY <2>1, <2>2, ClaimsNothing DEF NoQuery
<1>9. CASE /\ pc \in {"recovery", "create"} /\ pc' = "end"
           /\ UNCHANGED <<query, why>>
  <2>1. query = NoQuery
    BY <1>9 DEF FoundInv
  <2> QED BY <1>0, <1>9, <2>1, ClaimsNothing DEF NoQuery
<1>10. CASE UNCHANGED <<pc, outcome, todo, why, query, found>>
  BY <1>10, FoundStays
<1>11. CASE CommandStep
  <2>1. CASE GetNext
    BY <1>1, <1>2, <1>3, <1>4, <1>5, <1>6, <1>7, <2>1 DEF GetNext
  <2>2. CASE \/ pc = "recovery" /\ RecoveryStep
               /\ UNCHANGED <<accountVars, getVars, report, pairingVars>>
             \/ pc = "create" /\ PairingStep
               /\ UNCHANGED <<accountVars, getVars, report, recoveryVars>>
    BY <1>10, <2>2 DEF accountVars, getVars
  <2>3. CASE /\ Exits("recovery", stage, verdict) \/ Exits("create", pstage, made)
             /\ UNCHANGED <<getVars, report, recoveryVars, pairingVars>>
    BY <1>9, <2>3 DEF Exits, Ends, getVars
  <2> QED BY <1>8, <1>11, <2>1, <2>2, <2>3 DEF CommandStep
<1>12. CASE Environment
  <2>1. CASE OtherClient /\ UNCHANGED getVars
    <3>1. UNCHANGED <<pc, outcome, todo, why>>
      BY <2>1 DEF OtherClient, Rekey, Relock, Reseal
    <3> QED BY <1>10, <2>1, <3>1 DEF getVars
  <2>2. CASE UNCHANGED <<accountVars, getVars>>
    BY <1>10, <2>2 DEF accountVars, getVars
  <2> QED BY <1>12, <2>1, <2>2 DEF Environment
<1>13. CASE UNCHANGED commandVars
  BY <1>10, <1>13 DEF commandVars, accountVars, getVars
<1> QED
  BY <1>11, <1>12, <1>13 DEF Next

\* Whatever vaults, logs, flags and re-keyings there are, the login that `get`
\* prints is the best of all that match in the vaults that opened (get.rs rank).
THEOREM BestMatches == Spec => []BestMatch
<1>1. FoundInv => BestMatch
  BY DEF FoundInv
<1> QED
  BY <1>1, FoundInvInit, FoundInvStep, PTL DEF Spec

-----------------------------------------------------------------------------
(* `doctor` blames the fault there is and nothing else: of an account that  *)
(* nobody re-keyed, each check is a question about the fault alone.         *)

\* The account of a fault, as it is until somebody re-keys it.
AsWritten(a) ==
    /\ a.fault \in Faults
    /\ \A p \in Profiles : a.generation[p] = 1
    /\ \A p \in Profiles :
          a.locks[p] = IF a.fault = <<"no lock", p>> THEN {} ELSE {ProfileLock(a, p, 1)}
    /\ \A v \in Vaults :
          a.sealed[v] = IF a.fault = <<"no vault lock", v>> THEN {} ELSE {VaultLock(a, v, 1)}

\* With these there is no session, and so no report.
NoGrant == {<<"grant">>, <<"stranger grant">>, <<"no salt">>}

\* The session that is made of it.
OwnSession(s, a) ==
    /\ s.seed = Seed /\ s.keys = OurKeys
    /\ s.snapshot.fault = a.fault
    /\ s.snapshot.locks = a.locks
    /\ s.snapshot.generation = a.generation
    /\ a.fault \notin NoGrant

\* A box that was garbled opens with no key.
LEMMA GarbledStaysShut ==
  ASSUME NEW k
  PROVE  /\ Adopt(Open(k, Garbled)) = Err("Crypto")
         /\ ~Err("Crypto").ok /\ Err("Crypto").error = "Crypto"
  BY DEF Adopt, Open, Garbled, Public, Err

\* A session that opens is ours, with our seed and our keys.
LEMMA GrantIsOurs ==
  ASSUME NEW a, Unlock(OurSessionKey, Grant(a), Listed(a)).ok
  PROVE  /\ Unlock(OurSessionKey, Grant(a), Listed(a)) = Ok([seed |-> Seed, keys |-> OurKeys])
         /\ a.fault \notin NoGrant
<1> DEFINE grant == Grant(a)
           listed == Listed(a)
           opened == Adopt(Open(OurSessionKey, grant.secret))
<1>1. grant.secret = IF a.fault = <<"grant">> THEN Garbled ELSE Seal(Public(OurSessionKey), Seed)
  BY DEF Grant, SealedFor, Wrong
<1>2. grant.authenticator = IF a.fault = <<"stranger grant">> THEN None ELSE Ours
  BY DEF Grant, Wrong
<1>3. DOMAIN listed = {Ours}
      /\ listed[Ours] = IF a.fault = <<"no salt">> THEN NoSalt ELSE Salt
  BY DEF Listed, Wrong
<1>4. opened = IF a.fault = <<"grant">> THEN Err("Crypto") ELSE Ok(Seed)
  BY <1>1, GarbledStaysShut, OpensItsSecret, NotGarbage
<1>5. Ok(Seed).value = Seed /\ Ok(Seed).ok /\ \A e : ~Err(e).ok
  BY DEF Ok, Err
<1>6. None # Ours
  BY LockerAssumption
<1> HIDE DEF grant, listed
<1>7. Unlock(OurSessionKey, grant, listed) =
        IF ~opened.ok THEN Err("UnlockUndecryptable")
        ELSE IF grant.authenticator \notin DOMAIN listed THEN Err("UnknownGrantingAuthenticator")
        ELSE IF listed[grant.authenticator] = NoSalt THEN Err("NoSecretSalt")
        ELSE Ok([seed |-> opened.value,
                 keys |-> AuthenticatorKeys(grant.authenticator, opened.value,
                                            listed[grant.authenticator])])
  BY DEF Unlock
<1> HIDE DEF opened
<1>8. a.fault # <<"grant">>
  BY <1>4, <1>5, <1>7 DEF grant, listed
<1>9. a.fault # <<"stranger grant">>
  BY <1>2, <1>3, <1>5, <1>6, <1>7 DEF grant, listed
<1>10. a.fault # <<"no salt">>
  BY <1>2, <1>3, <1>5, <1>7, <1>9 DEF grant, listed
<1>11. opened.value = Seed /\ grant.authenticator = Ours /\ listed[Ours] = Salt
  BY <1>2, <1>3, <1>4, <1>5, <1>8, <1>9, <1>10
<1>12. Unlock(OurSessionKey, grant, listed) = Ok([seed |-> Seed, keys |-> OurKeys])
  BY <1>5, <1>7, <1>11 DEF OurKeys, grant, listed
<1> QED
  BY <1>8, <1>9, <1>10, <1>12 DEF NoGrant, grant, listed

\* A key of ours differs from the published one just if that one is wrong.
LEMMA ComparesTheKey ==
  ASSUME NEW a, NEW name, NEW itsKey
  PROVE  Compare(itsKey, Published(a, name, itsKey)) = "Fail" <=> a.fault = <<"published", name>>
<1>1. Public(itsKey) # Garbage
  BY DEF Public, Garbage
<1>2. <<"unpublished", name>> # <<"published", name>>
  OBVIOUS
<1>3. CASE a.fault = <<"unpublished", name>>
  BY <1>2, <1>3 DEF Published, Wrong, Compare
<1>4. CASE a.fault = <<"published", name>>
  BY <1>1, <1>2, <1>4 DEF Published, Wrong, Compare
<1>5. CASE a.fault # <<"unpublished", name>> /\ a.fault # <<"published", name>>
  BY <1>5 DEF Published, Wrong, Compare
<1> QED
  BY <1>3, <1>4, <1>5

\* Every link's key is derived as heylogin derives it.
LEMMA LinksMeet ==
  ASSUME NEW p, NEW g, NEW n \in 3..8, NEW itsSeed,
         itsSeed["storable"] = SeedOf(p, "storable", g), itsSeed["high"] = SeedOf(p, "high", g)
  PROVE  LinkKey(n, itsSeed) = TheirKey(n, p, g)
<1>1. \A x : \A t \in Tiers :
        /\ VaultKeyKey(x, t) = <<"encryption", <<"profile vault key", t>>, x, NoSalt>>
        /\ IdentityKey(x, t) = <<"signing", <<"profile signing", t>>, x, NoSalt>>
        /\ ProfileKeyKey(x, t) = <<"encryption", <<"profile profile key", t>>, x, NoSalt>>
  BY DEF VaultKeyKey, IdentityKey, ProfileKeyKey, EncryptionKey, SigningKey, Derive, Uses
<1>2. TheirKey(n, p, g) = <<TheirKind(n), <<TheirUse(n), TheirTier(n)>>,
                            SeedOf(p, TheirTier(n), g), NoSalt>>
  BY DEF TheirKey, Derive
<1>3. "storable" \in Tiers /\ "high" \in Tiers
  BY DEF Tiers
<1>4. CASE n = 3
  <2>1. LinkKey(n, itsSeed) = VaultKeyKey(SeedOf(p, "storable", g), "storable")
    BY <1>4 DEF LinkKey
  <2>2. TheirKind(n) = "encryption"
    BY <1>4 DEF TheirKind
  <2>3. TheirUse(n) = "profile vault key"
    BY <1>4 DEF TheirUse
  <2>4. TheirTier(n) = "storable"
    BY <1>4 DEF TheirTier
  <2> QED
    BY <1>1, <1>2, <1>3, <2>1, <2>2, <2>3, <2>4
<1>5. CASE n = 4
  <2>1. LinkKey(n, itsSeed) = VaultKeyKey(SeedOf(p, "high", g), "high")
    BY <1>5 DEF LinkKey
  <2>2. TheirKind(n) = "encryption"
    BY <1>5 DEF TheirKind
  <2>3. TheirUse(n) = "profile vault key"
    BY <1>5 DEF TheirUse
  <2>4. TheirTier(n) = "high"
    BY <1>5 DEF TheirTier
  <2> QED
    BY <1>1, <1>2, <1>3, <2>1, <2>2, <2>3, <2>4
<1>6. CASE n = 5
  <2>1. LinkKey(n, itsSeed) = IdentityKey(SeedOf(p, "storable", g), "storable")
    BY <1>6 DEF LinkKey
  <2>2. TheirKind(n) = "signing"
    BY <1>6 DEF TheirKind
  <2>3. TheirUse(n) = "profile signing"
    BY <1>6 DEF TheirUse
  <2>4. TheirTier(n) = "storable"
    BY <1>6 DEF TheirTier
  <2> QED
    BY <1>1, <1>2, <1>3, <2>1, <2>2, <2>3, <2>4
<1>7. CASE n = 6
  <2>1. LinkKey(n, itsSeed) = IdentityKey(SeedOf(p, "high", g), "high")
    BY <1>7 DEF LinkKey
  <2>2. TheirKind(n) = "signing"
    BY <1>7 DEF TheirKind
  <2>3. TheirUse(n) = "profile signing"
    BY <1>7 DEF TheirUse
  <2>4. TheirTier(n) = "high"
    BY <1>7 DEF TheirTier
  <2> QED
    BY <1>1, <1>2, <1>3, <2>1, <2>2, <2>3, <2>4
<1>8. CASE n = 7
  <2>1. LinkKey(n, itsSeed) = ProfileKeyKey(SeedOf(p, "storable", g), "storable")
    BY <1>8 DEF LinkKey
  <2>2. TheirKind(n) = "encryption"
    BY <1>8 DEF TheirKind
  <2>3. TheirUse(n) = "profile profile key"
    BY <1>8 DEF TheirUse
  <2>4. TheirTier(n) = "storable"
    BY <1>8 DEF TheirTier
  <2> QED
    BY <1>1, <1>2, <1>3, <2>1, <2>2, <2>3, <2>4
<1>9. CASE n = 8
  <2>1. LinkKey(n, itsSeed) = ProfileKeyKey(SeedOf(p, "high", g), "high")
    BY <1>9 DEF LinkKey
  <2>2. TheirKind(n) = "encryption"
    BY <1>9 DEF TheirKind
  <2>3. TheirUse(n) = "profile profile key"
    BY <1>9 DEF TheirUse
  <2>4. TheirTier(n) = "high"
    BY <1>9 DEF TheirTier
  <2> QED
    BY <1>1, <1>2, <1>3, <2>1, <2>2, <2>3, <2>4
<1>10. n = 3 \/ n = 4 \/ n = 5 \/ n = 6 \/ n = 7 \/ n = 8
  OBVIOUS
<1> QED
  BY <1>4, <1>5, <1>6, <1>7, <1>8, <1>9, <1>10

\* Our keys are those whose public halves heylogin has.
LEMMA OurKeysAre ==
  OurKeys.id = Ours /\ OurKeys.profileSeed = TheirProfileSeedKey
  /\ OurKeys.identity = TheirIdentityKey
  BY DEF OurKeys, AuthenticatorKeys, EncryptionKey, SigningKey,
         TheirProfileSeedKey, TheirIdentityKey

\* The fault keeps profile p's seeds from us.
Shut(f, p) == f = <<"no lock", p>> \/ \E t \in Tiers : f = <<"seed", p, t>>

\* A profile has our lock unless that is what is missing, and both its seeds
\* open unless one of them is what was garbled.
LEMMA SeedsAre ==
  ASSUME NEW a, AsWritten(a), NEW s, OwnSession(s, a), NEW p \in Profiles
  PROVE  /\ HasLock(s, p) <=> a.fault # <<"no lock", p>>
         /\ HasLock(s, p) => The(LockFor(s.snapshot.locks[p], s.keys.id)) = ProfileLock(a, p, 1)
         /\ HasLock(s, p) => \A t \in Tiers :
               Seeds(s, p)[t] = IF a.fault = <<"seed", p, t>> THEN Err("Crypto")
                                ELSE Ok(SeedOf(p, t, 1))
<1> DEFINE lock == ProfileLock(a, p, 1)
           locks == LockFor(s.snapshot.locks[p], s.keys.id)
<1>1. /\ lock.authenticator = Ours /\ lock.generation = 1
      /\ \A t \in Tiers : lock.seed[t] = IF a.fault = <<"seed", p, t>> THEN Garbled
                             ELSE Seal(Public(TheirProfileSeedKey), SeedOf(p, t, 1))
  BY DEF ProfileLock, SealedFor, Wrong
<1>2. s.keys.id = Ours /\ s.keys.profileSeed = TheirProfileSeedKey
  BY OurKeysAre DEF OwnSession
<1>3. s.snapshot.generation[p] = 1
      /\ s.snapshot.locks[p] = IF a.fault = <<"no lock", p>> THEN {} ELSE {lock}
  BY DEF OwnSession, AsWritten
<1> HIDE DEF lock
<1>4. locks = IF a.fault = <<"no lock", p>> THEN {} ELSE {lock}
  BY <1>1, <1>2, <1>3 DEF LockFor
<1>5. HasLock(s, p) <=> a.fault # <<"no lock", p>>
  BY <1>4 DEF HasLock
<1>6. HasLock(s, p) => The(locks) = lock
  <2>1. The({lock}) = lock
    BY DEF The
  <2> QED
    BY <1>4, <1>5, <2>1
<1>7. ASSUME HasLock(s, p), NEW t \in Tiers
      PROVE  Seeds(s, p)[t] = IF a.fault = <<"seed", p, t>> THEN Err("Crypto")
                              ELSE Ok(SeedOf(p, t, 1))
  <2>1. Seeds(s, p)[t] = UnlockProfile(s.keys, The(locks), s.snapshot.generation[p], t)
    BY DEF Seeds
  <2>2. Seeds(s, p)[t] = Adopt(Open(TheirProfileSeedKey, lock.seed[t]))
    BY <1>1, <1>2, <1>3, <1>6, <1>7, <2>1 DEF UnlockProfile
  <2>3. CASE a.fault = <<"seed", p, t>>
    BY <1>1, <2>2, <2>3, GarbledStaysShut
  <2>4. CASE a.fault # <<"seed", p, t>>
    BY <1>1, <2>2, <2>4, OpensItsSecret, NotGarbage
  <2> QED
    BY <2>3, <2>4
<1> QED
  BY <1>5, <1>6, <1>7 DEF lock

\* So it can be unlocked unless the fault keeps its seeds from us.
LEMMA UnlockableIs ==
  ASSUME NEW a, AsWritten(a), NEW s, OwnSession(s, a), NEW p \in Profiles
  PROVE  /\ p \in Unlockable(s) <=> ~Shut(a.fault, p)
         /\ p \in Unlockable(s) => \A t \in Tiers : Seeds(s, p)[t] = Ok(SeedOf(p, t, 1))
<1>1. p \in Unlockable(s) <=> HasLock(s, p) /\ \A t \in Tiers : Seeds(s, p)[t].ok
  BY DEF Unlockable
<1>2. \A t : Ok(SeedOf(p, t, 1)).ok /\ ~Err("Crypto").ok
  BY DEF Ok, Err
<1>3. \A t : <<"seed", p, t>> # <<"no lock", p>>
  OBVIOUS
<1>4. HasLock(s, p) <=> a.fault # <<"no lock", p>>
  BY SeedsAre
<1>5. HasLock(s, p) => \A t \in Tiers :
         Seeds(s, p)[t] = IF a.fault = <<"seed", p, t>> THEN Err("Crypto") ELSE Ok(SeedOf(p, t, 1))
  BY SeedsAre
<1>6. CASE HasLock(s, p) /\ \A t \in Tiers : a.fault # <<"seed", p, t>>
  BY <1>1, <1>2, <1>4, <1>5, <1>6 DEF Shut
<1>7. CASE HasLock(s, p) /\ \E t \in Tiers : a.fault = <<"seed", p, t>>
  BY <1>1, <1>2, <1>4, <1>5, <1>7 DEF Shut
<1>8. CASE ~HasLock(s, p)
  BY <1>1, <1>4, <1>8 DEF Shut
<1> QED
  BY <1>6, <1>7, <1>8

\* The names of the checks that need no call.
KeyNames(f) == AuthenticatorChecks \cup {<<"seeds", p>> : p \in Profiles}
               \cup LinkNames({p \in Profiles : ~Shut(f, p)})

\* Of those the fault fails the key that is published wrong and the seeds that
\* do not open.
KeyFails(f, name) ==
    \/ f = <<"published", name>> /\ name # <<"session">>
    \/ \E p \in Profiles, t \in Tiers : f = <<"seed", p, t>> /\ name = <<"seeds", p>>

\* The report of the keys, check by check.
LEMMA KeyReportIs ==
  ASSUME NEW a, AsWritten(a), NEW s, OwnSession(s, a)
  PROVE  /\ DOMAIN KeyReport(s) = KeyNames(a.fault)
         /\ \A name \in KeyNames(a.fault) : KeyReport(s)[name] = "Fail" <=> KeyFails(a.fault, name)
<1>1. Unlockable(s) = {q \in Profiles : ~Shut(a.fault, q)}
  BY UnlockableIs DEF Unlockable
<1>2. AuthenticatorChecks \cup ProfileChecks(s) = KeyNames(a.fault)
  BY <1>1 DEF ProfileChecks, KeyNames
<1>3. DOMAIN KeyReport(s) = KeyNames(a.fault)
  BY <1>2 DEF KeyReport
<1>4. \A name, k : Compare(k, Published(s.snapshot, name, k)) = "Fail"
                        <=> a.fault = <<"published", name>>
  BY ComparesTheKey DEF OwnSession
<1>5. ASSUME NEW name \in AuthenticatorChecks
      PROVE  KeyReport(s)[name] = "Fail" <=> KeyFails(a.fault, name)
  <2>1. KeyReport(s)[name] = CheckAuthenticatorKey(s, name)
    BY <1>5 DEF KeyReport
  <2>2. ASSUME NEW p PROVE name # <<"seeds", p>>
    <3>1. \/ name = <<"session">> \/ name = <<"login signing">>
          \/ \E t \in Tiers : name = <<"identity", t>>
      BY <1>5 DEF AuthenticatorChecks
    <3>2. \A t : <<"identity", t>> # <<"seeds", p>>
      OBVIOUS
    <3>3. <<"session">> # <<"seeds", p>> /\ <<"login signing">> # <<"seeds", p>>
      OBVIOUS
    <3> QED
      BY <3>1, <3>2, <3>3
  <2>3. CASE name = <<"session">>
    <3>1. KeyReport(s)[name] = "Pass"
      BY <2>1, <2>3 DEF CheckAuthenticatorKey
    <3> QED
      BY <2>2, <2>3, <3>1 DEF KeyFails
  <2>4. CASE name = <<"login signing">>
    <3>1. LoginKey(s.seed) = TheirLoginKey
      BY DEF OwnSession, LoginKey, SigningKey, TheirLoginKey
    <3>2. KeyReport(s)[name] = Compare(TheirLoginKey, Published(s.snapshot, name, TheirLoginKey))
      BY <2>1, <2>4, <3>1 DEF CheckAuthenticatorKey
    <3>3. name # <<"session">>
      BY <2>4
    <3> QED
      BY <1>4, <2>2, <3>2, <3>3 DEF KeyFails
  <2>5. CASE \E t \in Tiers : name = <<"identity", t>>
    <3>1. s.keys.identity = TheirIdentityKey
      BY OurKeysAre DEF OwnSession
    <3>2. KeyReport(s)[name] = Compare(TheirIdentityKey, Published(s.snapshot, name, TheirIdentityKey))
      BY <2>1, <2>5, <3>1 DEF CheckAuthenticatorKey
    <3>3. name # <<"session">>
      BY <2>5
    <3> QED
      BY <1>4, <2>2, <3>2, <3>3 DEF KeyFails
  <2> QED
    BY <1>5, <2>3, <2>4, <2>5 DEF AuthenticatorChecks
<1>6. ASSUME NEW p \in Profiles
      PROVE  KeyReport(s)[<<"seeds", p>>] = "Fail" <=> KeyFails(a.fault, <<"seeds", p>>)
  <2> DEFINE name == <<"seeds", p>>
  <2>1. name \in KeyNames(a.fault) /\ name \notin AuthenticatorChecks
    BY DEF KeyNames, AuthenticatorChecks
  <2>2. KeyReport(s)[name] = CheckProfile(s, name)
    BY <1>2, <2>1 DEF KeyReport
  <2>3. CheckProfile(s, name) = IF ~HasLock(s, p) THEN "Skip"
                                ELSE IF p \in Unlockable(s) THEN "Pass" ELSE "Fail"
    BY DEF CheckProfile
  <2>4. HasLock(s, p) <=> a.fault # <<"no lock", p>>
    BY SeedsAre
  <2>5. p \in Unlockable(s) <=> ~Shut(a.fault, p)
    BY UnlockableIs
  <2>6. KeyReport(s)[name] = "Fail" <=> \E t \in Tiers : a.fault = <<"seed", p, t>>
    <3>1. \A t : <<"seed", p, t>> # <<"no lock", p>>
      OBVIOUS
    <3> HIDE DEF name
    <3> QED
      BY <2>2, <2>3, <2>4, <2>5, <3>1 DEF Shut
  <2>7. a.fault # <<"published", name>>
    <3>1. name \notin PublicKeys
      BY DEF PublicKeys, LinkNames
    <3> QED
      BY <3>1, FaultsAssumption DEF AsWritten, NoFault
  <2>8. \A q \in Profiles : name = <<"seeds", q>> => q = p
    OBVIOUS
  <2> QED
    BY <2>6, <2>7, <2>8 DEF KeyFails
<1>7. ASSUME NEW p \in Profiles, ~Shut(a.fault, p), NEW n \in 3..8
      PROVE  KeyReport(s)[<<"link", p, n>>] = "Fail" <=> KeyFails(a.fault, <<"link", p, n>>)
  <2> DEFINE name == <<"link", p, n>>
             opened == [t \in Tiers |-> Seeds(s, p)[t].value]
  <2>1. name \in KeyNames(a.fault) /\ name \notin AuthenticatorChecks
    BY <1>7 DEF KeyNames, LinkNames, AuthenticatorChecks
  <2>2. KeyReport(s)[name] = CheckProfile(s, name)
    BY <1>2, <2>1 DEF KeyReport
  <2>3. CheckProfile(s, name) =
          Compare(LinkKey(n, opened),
                  Published(s.snapshot, name, TheirKey(n, p, s.snapshot.generation[p])))
    BY DEF CheckProfile
  <2>4. s.snapshot.generation[p] = 1
    BY DEF OwnSession, AsWritten
  <2>5. opened["storable"] = SeedOf(p, "storable", 1) /\ opened["high"] = SeedOf(p, "high", 1)
    <3>1. \A t \in Tiers : Seeds(s, p)[t] = Ok(SeedOf(p, t, 1))
      BY <1>7, UnlockableIs
    <3>2. \A t : Ok(SeedOf(p, t, 1)).value = SeedOf(p, t, 1)
      BY DEF Ok
    <3> QED
      BY <3>1, <3>2 DEF Tiers
  <2>6. LinkKey(n, opened) = TheirKey(n, p, 1)
    <3> HIDE DEF opened
    <3> QED BY <2>5, LinksMeet
  <2>7. KeyReport(s)[name] = "Fail" <=> a.fault = <<"published", name>>
    BY <1>4, <2>2, <2>3, <2>4, <2>6
  <2>8. name # <<"session">> /\ \A q : name # <<"seeds", q>>
    OBVIOUS
  <2> QED
    BY <2>7, <2>8 DEF KeyFails
<1>8. ASSUME NEW name \in KeyNames(a.fault)
      PROVE  \/ name \in AuthenticatorChecks
             \/ \E p \in Profiles : name = <<"seeds", p>>
             \/ \E p \in Profiles, n \in 3..8 : ~Shut(a.fault, p) /\ name = <<"link", p, n>>
  BY <1>8 DEF KeyNames, LinkNames
<1> QED
  BY <1>3, <1>5, <1>6, <1>7, <1>8

\* What keeps vault v from opening: its lock, its profile, a secret, its last commit.
LastCommit(f, v) == Log[v] # <<>> /\ f \in {<<"commit", v, Len(Log[v])>>, <<"document", v, Len(Log[v])>>}
Spoils(f, v) ==
    \/ f \in {<<"no vault lock", v>>, <<"stranger", v>>}
    \/ Shut(f, Locker[v])
    \/ \E t \in Tiers : f = <<"secret", v, t>>
    \/ LastCommit(f, v)

\* Both secrets of a vault come out of its lock, but for one that was garbled.
LEMMA VaultSecretIs ==
  ASSUME NEW a, NEW v, NEW t \in Tiers
  PROVE  UnlockVault(SeedOf(Locker[v], t, 1), VaultLock(a, v, 1), 1, t) =
            IF a.fault = <<"secret", v, t>> THEN Err("Crypto") ELSE Ok(SecretOf(v, t))
<1> DEFINE lock == VaultLock(a, v, 1)
           n == IF t = "storable" THEN 3 ELSE 4
           k == VaultKeyKey(SeedOf(Locker[v], t, 1), t)
<1>1. lock.generation = 1
  BY DEF VaultLock
<1>2. lock.secret[t] = IF a.fault = <<"secret", v, t>> THEN Garbled
                       ELSE Seal(Public(TheirKey(n, Locker[v], 1)), SecretOf(v, t))
  BY DEF VaultLock, SealedFor, Wrong
<1>3. k = TheirKey(n, Locker[v], 1)
  <2>1. t = "storable" \/ t = "high"
    BY DEF Tiers
  <2>2. TheirUse(n) = "profile vault key" /\ TheirTier(n) = t /\ TheirKind(n) = "encryption"
    BY <2>1 DEF TheirUse, TheirTier, TheirKind
  <2>3. Uses[t].vaultKey = <<"profile vault key", t>>
    BY DEF Uses
  <2> QED
    BY <2>2, <2>3 DEF TheirKey, VaultKeyKey, EncryptionKey
<1>4. UnlockVault(SeedOf(Locker[v], t, 1), lock, 1, t) = Adopt(Open(k, lock.secret[t]))
  <2> HIDE DEF lock
  <2> QED
    BY <1>1 DEF UnlockVault
<1> HIDE DEF lock, k
<1>5. CASE a.fault = <<"secret", v, t>>
  BY <1>2, <1>4, <1>5, GarbledStaysShut DEF lock
<1>6. CASE a.fault # <<"secret", v, t>>
  BY <1>2, <1>3, <1>4, <1>6, OpensItsSecret, NotGarbage DEF lock
<1> QED
  BY <1>5, <1>6

\* What the locks of a vault come to.
LEMMA UnwrapIs ==
  ASSUME NEW a, AsWritten(a), NEW s, OwnSession(s, a), NEW v \in Vaults,
         a.fault # <<"stranger", v>>, ~Shut(a.fault, Locker[v])
  PROVE  LET opened == Unwrap(s, VaultLock(a, v, 1))
         IN  IF \E t \in Tiers : a.fault = <<"secret", v, t>> THEN opened = Err("Crypto")
             ELSE opened = Ok([t \in Tiers |-> SecretOf(v, t)])
<1> DEFINE lock == VaultLock(a, v, 1)
           p == Locker[v]
           ours == LockFor(s.snapshot.locks[p], s.keys.id)
           itsSeed(t) == UnlockProfile(s.keys, The(ours), s.snapshot.generation[p], t)
           secret(t) == UnlockVault(itsSeed(t).value, lock, s.snapshot.generation[p], t)
<1>1. p \in Profiles /\ s.snapshot.generation[p] = 1
  BY LockerAssumption DEF OwnSession, AsWritten
<1>2. lock.profile = p
  BY DEF VaultLock, Wrong
<1>3. ours # {}
  <2>1. a.fault # <<"no lock", p>>
    BY DEF Shut
  <2> QED
    BY <1>1, <2>1, SeedsAre DEF HasLock
<1>4. \A t \in Tiers : itsSeed(t) = Ok(SeedOf(p, t, 1))
  <2>1. \A t \in Tiers : Seeds(s, p)[t] = itsSeed(t)
    BY DEF Seeds
  <2>2. p \in Unlockable(s)
    BY <1>1, UnlockableIs
  <2>3. \A t \in Tiers : Seeds(s, p)[t] = Ok(SeedOf(p, t, 1))
    BY <1>1, <2>2, UnlockableIs
  <2> HIDE DEF itsSeed
  <2> QED
    BY <2>1, <2>3
<1>5. Unwrap(s, lock) =
        IF p \notin Profiles \/ ours = {} THEN Err("VaultContent")
        ELSE IF ~itsSeed("storable").ok THEN itsSeed("storable")
        ELSE IF ~itsSeed("high").ok THEN itsSeed("high")
        ELSE IF ~secret("storable").ok THEN secret("storable")
        ELSE IF ~secret("high").ok THEN secret("high")
        ELSE Ok([t \in Tiers |-> secret(t).value])
  BY <1>2 DEF Unwrap
<1>6. \A x : Ok(x).ok /\ Ok(x).value = x /\ ~Err("Crypto").ok
  BY DEF Ok, Err
<1>7. \A t \in Tiers : secret(t) = IF a.fault = <<"secret", v, t>> THEN Err("Crypto")
                                   ELSE Ok(SecretOf(v, t))
  <2> SUFFICES ASSUME NEW t \in Tiers
               PROVE  secret(t) = IF a.fault = <<"secret", v, t>> THEN Err("Crypto")
                                  ELSE Ok(SecretOf(v, t))
    OBVIOUS
  <2>1. itsSeed(t).value = SeedOf(p, t, 1)
    <3> HIDE DEF itsSeed
    <3> QED BY <1>4, <1>6
  <2>2. secret(t) = UnlockVault(SeedOf(Locker[v], t, 1), VaultLock(a, v, 1), 1, t)
    BY <1>1, <2>1
  <2> HIDE DEF secret
  <2> QED
    BY <2>2, VaultSecretIs
<1>8. Tiers = {"storable", "high"}
  BY DEF Tiers
<1> HIDE DEF itsSeed, secret, ours, p, lock
<1>9. Unwrap(s, lock) =
        IF ~secret("storable").ok THEN secret("storable")
        ELSE IF ~secret("high").ok THEN secret("high")
        ELSE Ok([t \in Tiers |-> secret(t).value])
  BY <1>1, <1>3, <1>4, <1>5, <1>6, <1>8
<1>10. CASE \E t \in Tiers : a.fault = <<"secret", v, t>>
  <2>1. Unwrap(s, lock) = Err("Crypto")
    BY <1>6, <1>7, <1>8, <1>9, <1>10
  <2> QED
    BY <1>10, <2>1 DEF lock
<1>11. CASE \A t \in Tiers : a.fault # <<"secret", v, t>>
  <2>1. \A t \in Tiers : secret(t).ok /\ secret(t).value = SecretOf(v, t)
    BY <1>6, <1>7, <1>11
  <2>2. [t \in Tiers |-> secret(t).value] = [t \in Tiers |-> SecretOf(v, t)]
    BY <2>1
  <2> QED
    BY <1>8, <1>9, <1>11, <2>1, <2>2 DEF lock
<1> QED
  BY <1>10, <1>11

\* With the right secrets a commit is read unless it is the one that was garbled.
LEMMA DocumentIs ==
  ASSUME NEW a, NEW v, NEW i
  PROVE  LET read == Document(a, v, i, [t \in Tiers |-> SecretOf(v, t)])
         IN  /\ read.ok <=> a.fault \notin {<<"commit", v, i>>, <<"document", v, i>>}
             /\ ~read.ok => read.error \in {"Crypto", "VaultContent"}
<1> DEFINE secrets == [t \in Tiers |-> SecretOf(v, t)]
           k == SymKey(SecretOf(v, "storable"))
           plain == [decodes |-> a.fault # <<"document", v, i>>, content |-> Log[v][i]]
           read == Document(a, v, i, secrets)
<1>1. SymKey(secrets["storable"]) = k
  BY DEF Tiers
<1>2. Blob(a, v, i) = IF a.fault = <<"commit", v, i>> THEN Garbled ELSE Encrypt(k, plain)
  BY DEF Blob, Wrong
<1>3. Decrypt(k, Encrypt(k, plain)) = Ok(plain) /\ Decrypt(k, Garbled) = Err("Crypto")
  <2>1. k # <<>>
    BY DEF SymKey
  <2> HIDE DEF k, plain
  <2> QED
    BY <2>1 DEF Decrypt, Encrypt, Garbled
<1>4. /\ \A x : Ok(x).ok /\ Ok(x).value = x
      /\ \A e : ~Err(e).ok /\ Err(e).error = e
  BY DEF Ok, Err
<1>5. plain.decodes <=> a.fault # <<"document", v, i>>
  OBVIOUS
<1>6. <<"commit", v, i>> # <<"document", v, i>>
  OBVIOUS
<1> HIDE DEF secrets, k, plain
<1>7. read = IF ~Decrypt(k, Blob(a, v, i)).ok THEN Decrypt(k, Blob(a, v, i))
             ELSE IF ~Decrypt(k, Blob(a, v, i)).value.decodes THEN Err("VaultContent")
             ELSE Ok(Decrypt(k, Blob(a, v, i)).value.content)
  BY <1>1 DEF Document
<1> HIDE DEF read
<1>8. CASE a.fault = <<"commit", v, i>>
  BY <1>2, <1>3, <1>4, <1>7, <1>8 DEF read, secrets
<1>9. CASE a.fault = <<"document", v, i>>
  BY <1>2, <1>3, <1>4, <1>5, <1>6, <1>7, <1>9 DEF read, secrets
<1>10. CASE a.fault \notin {<<"commit", v, i>>, <<"document", v, i>>}
  BY <1>2, <1>3, <1>4, <1>5, <1>7, <1>10 DEF read, secrets
<1> QED
  BY <1>8, <1>9, <1>10

\* A vault opens unless the fault spoils it, and what keeps it shut is not a call.
LEMMA VaultOpensIs ==
  ASSUME AsWritten(account), NEW s, OwnSession(s, account), NEW v \in Vaults
  PROVE  LET opened == VaultOpens(s, v)
         IN  /\ opened.ok <=> ~Spoils(account.fault, v)
             /\ ~opened.ok => opened.error \in {"Crypto", "VaultContent"}
<1> DEFINE f == account.fault
           lock == VaultLock(account, v, 1)
           locks == account.sealed[v]
           secrets == Unwrap(s, The(locks))
           opened == VaultOpens(s, v)
<1>1. opened = IF locks = {} \/ The(locks).profile \notin Unlockable(s) THEN Err("VaultContent")
               ELSE IF ~secrets.ok \/ Log[v] = <<>> THEN secrets
               ELSE Document(account, v, Len(Log[v]), secrets.value)
  BY DEF VaultOpens
<1>2. locks = IF f = <<"no vault lock", v>> THEN {} ELSE {lock}
  BY DEF AsWritten
<1>3. lock.profile = IF f = <<"stranger", v>> THEN None ELSE Locker[v]
  BY DEF VaultLock, Wrong
<1>4. Locker[v] \in Profiles /\ None \notin Profiles
  BY LockerAssumption
<1>5. None \notin Unlockable(s) /\ (Locker[v] \in Unlockable(s) <=> ~Shut(f, Locker[v]))
  <2>1. None \notin Unlockable(s)
    BY <1>4 DEF Unlockable
  <2>2. Locker[v] \in Unlockable(s) <=> ~Shut(f, Locker[v])
    BY <1>4, UnlockableIs
  <2> QED
    BY <2>1, <2>2
<1>6. /\ \A x : Ok(x).ok /\ Ok(x).value = x
      /\ \A e : ~Err(e).ok /\ Err(e).error = e
  BY DEF Ok, Err
<1>7. locks # {} => The(locks) = lock
  <2>1. The({lock}) = lock
    BY DEF The
  <2> QED
    BY <1>2, <2>1
<1> HIDE DEF lock, opened
<1>8. CASE f = <<"no vault lock", v>>
  BY <1>1, <1>2, <1>6, <1>8 DEF opened, Spoils
<1>9. CASE f = <<"stranger", v>>
  <2>1. <<"no vault lock", v>> # <<"stranger", v>>
    OBVIOUS
  <2>2. The(locks).profile \notin Unlockable(s)
    BY <1>2, <1>3, <1>5, <1>7, <1>9, <2>1
  <2> QED
    BY <1>1, <1>6, <1>9, <2>2 DEF opened, Spoils
<1>10. CASE f \notin {<<"no vault lock", v>>, <<"stranger", v>>} /\ Shut(f, Locker[v])
  BY <1>1, <1>2, <1>3, <1>5, <1>6, <1>7, <1>10 DEF opened, Spoils
<1>11. CASE f \notin {<<"no vault lock", v>>, <<"stranger", v>>} /\ ~Shut(f, Locker[v])
  <2>1. secrets = Unwrap(s, lock) /\ The(locks).profile \in Unlockable(s) /\ locks # {}
    BY <1>2, <1>3, <1>5, <1>7, <1>11
  <2>2. IF \E t \in Tiers : f = <<"secret", v, t>> THEN secrets = Err("Crypto")
        ELSE secrets = Ok([t \in Tiers |-> SecretOf(v, t)])
    BY <1>11, <2>1, UnwrapIs DEF lock
  <2> HIDE DEF secrets, locks
  <2>3. opened = IF ~secrets.ok \/ Log[v] = <<>> THEN secrets
                 ELSE Document(account, v, Len(Log[v]), secrets.value)
    BY <1>1, <2>1
  <2>4. CASE \E t \in Tiers : f = <<"secret", v, t>>
    BY <1>6, <2>2, <2>3, <2>4 DEF opened, Spoils
  <2>5. CASE ~(\E t \in Tiers : f = <<"secret", v, t>>) /\ Log[v] = <<>>
    <3>1. ~Spoils(f, v)
      BY <1>11, <2>5 DEF Spoils, LastCommit
    <3> QED
      BY <1>6, <2>2, <2>3, <2>5, <3>1 DEF opened
  <2>6. CASE ~(\E t \in Tiers : f = <<"secret", v, t>>) /\ Log[v] # <<>>
    <3>1. opened = Document(account, v, Len(Log[v]), [t \in Tiers |-> SecretOf(v, t)])
      BY <1>6, <2>2, <2>3, <2>6
    <3>2. Spoils(f, v) <=> f \in {<<"commit", v, Len(Log[v])>>, <<"document", v, Len(Log[v])>>}
      BY <1>11, <2>6 DEF Spoils, LastCommit
    <3> QED
      BY <3>1, <3>2, DocumentIs DEF opened
  <2> QED
    BY <2>4, <2>5, <2>6
<1> QED
  BY <1>8, <1>9, <1>10, <1>11 DEF opened

\* An empty log has no commit.
LEMMA EmptySeq == \A i : i \notin DOMAIN <<>>
  OBVIOUS

\* Nothing wrong, or a key not published, fails no check.
LEMMA NothingBlamed ==
  ASSUME NEW f, f = NoFault \/ \E m : f = <<"unpublished", m>>
  PROVE  Blames(f) = {} /\ (\A name : ~KeyFails(f, name)) /\ (\A v : ~Spoils(f, v))
<1>1. CASE f = <<"none">>
  <2>1. Blames(f) = {}
    BY <1>1 DEF Blames
  <2>2. \A name : ~KeyFails(f, name)
    BY <1>1 DEF KeyFails
  <2>3. \A v : ~Spoils(f, v)
    BY <1>1 DEF Spoils, Shut, LastCommit
  <2> QED
    BY <2>1, <2>2, <2>3
<1>2. ASSUME NEW m, f = <<"unpublished", m>>
      PROVE  Blames(f) = {} /\ (\A name : ~KeyFails(f, name)) /\ (\A v : ~Spoils(f, v))
  <2>1. Blames(f) = {}
    BY <1>2 DEF Blames
  <2>2. \A name : ~KeyFails(f, name)
    BY <1>2 DEF KeyFails
  <2>3. \A v : ~Spoils(f, v)
    BY <1>2 DEF Spoils, Shut, LastCommit
  <2> QED
    BY <2>1, <2>2, <2>3
<1> QED
  BY <1>1, <1>2 DEF NoFault

\* A key that is published wrong fails the check of that key.
LEMMA KeyBlamed ==
  ASSUME NEW m, NEW f, f = <<"published", m>>
  PROVE  Blames(f) = {m} /\ (\A name : KeyFails(f, name) <=> name = m /\ m # <<"session">>)
         /\ (\A v : ~Spoils(f, v)) /\ \A p : ~Shut(f, p)
<1>1. Blames(f) = {m}
  BY DEF Blames
<1>2. \A name : KeyFails(f, name) <=> name = m /\ m # <<"session">>
  BY DEF KeyFails
<1>3. \A p : ~Shut(f, p)
  BY DEF Shut
<1>4. \A v : ~Spoils(f, v)
  BY <1>3 DEF Spoils, LastCommit
<1> QED
  BY <1>1, <1>2, <1>3, <1>4

\* A profile's lock or seed keeps every vault of the profile shut.
LEMMA ProfileBlamed ==
  ASSUME NEW p, NEW f, f = <<"no lock", p>> \/ \E t \in Tiers : f = <<"seed", p, t>>
  PROVE  /\ \A name \in Blames(f) :
               \/ (\E t \in Tiers : f = <<"seed", p, t>>) /\ name = <<"seeds", p>>
               \/ \E v \in Vaults : name = <<"vault", v>>
         /\ (\E t \in Tiers : f = <<"seed", p, t>>) => <<"seeds", p>> \in Blames(f)
         /\ \A v \in Vaults : <<"vault", v>> \in Blames(f) <=>
                Locker[v] = p /\ Kind[v] \notin Unsupported
         /\ \A name : KeyFails(f, name) <=>
                (\E t \in Tiers : f = <<"seed", p, t>>) /\ p \in Profiles /\ name = <<"seeds", p>>
         /\ \A v : Spoils(f, v) <=> Locker[v] = p
<1> DEFINE vaults == {<<"vault", v>> : v \in {w \in Vaults : Locker[w] = p /\ Kind[w] \notin Unsupported}}
<1>1. CASE f = <<"no lock", p>>
  <2>1. Blames(f) = vaults
    BY <1>1 DEF Blames
  <2>2. \A t : f # <<"seed", p, t>>
    BY <1>1
  <2>3. \A v \in Vaults : <<"vault", v>> \in vaults <=> Locker[v] = p /\ Kind[v] \notin Unsupported
    OBVIOUS
  <2>4. \A name \in vaults : \E v \in Vaults : name = <<"vault", v>>
    OBVIOUS
  <2>5. \A name : ~KeyFails(f, name)
    BY <1>1 DEF KeyFails
  <2>6. \A v : Spoils(f, v) <=> Locker[v] = p
    BY <1>1 DEF Spoils, Shut, LastCommit
  <2> HIDE DEF vaults
  <2> QED
    BY <2>1, <2>2, <2>3, <2>4, <2>5, <2>6
<1>2. ASSUME NEW t \in Tiers, f = <<"seed", p, t>>
      PROVE  /\ Blames(f) = {<<"seeds", p>>} \cup vaults
             /\ \A name : KeyFails(f, name) <=> p \in Profiles /\ name = <<"seeds", p>>
             /\ \A v : Spoils(f, v) <=> Locker[v] = p
  <2>1. Blames(f) = {<<"seeds", p>>} \cup vaults
    BY <1>2 DEF Blames
  <2>2. \A name : KeyFails(f, name) <=> p \in Profiles /\ name = <<"seeds", p>>
    BY <1>2 DEF KeyFails
  <2>3. \A v : Spoils(f, v) <=> Locker[v] = p
    BY <1>2 DEF Spoils, Shut, LastCommit
  <2> QED
    BY <2>1, <2>2, <2>3
<1>3. CASE \E t \in Tiers : f = <<"seed", p, t>>
  <2>1. \A v \in Vaults : <<"vault", v>> \in vaults <=> Locker[v] = p /\ Kind[v] \notin Unsupported
    OBVIOUS
  <2>2. \A name \in vaults : \E v \in Vaults : name = <<"vault", v>>
    OBVIOUS
  <2>3. \A v : <<"vault", v>> # <<"seeds", p>>
    OBVIOUS
  <2> HIDE DEF vaults
  <2> QED
    BY <1>2, <1>3, <2>1, <2>2, <2>3
<1> QED
  BY <1>1, <1>3

\* What is wrong with a vault bears on that vault alone.
LEMMA VaultBlamed ==
  ASSUME NEW w \in Vaults, NEW f,
         \/ f = <<"no vault lock", w>> \/ f = <<"stranger", w>>
         \/ \E t \in Tiers : f = <<"secret", w, t>>
         \/ \E i \in DOMAIN Log[w] : f = <<"commit", w, i>> \/ f = <<"document", w, i>>
  PROVE  /\ Blames(f) \subseteq {<<"vault", w>>}
         /\ <<"vault", w>> \in Blames(f) <=> Kind[w] \notin Unsupported /\ Spoils(f, w)
         /\ \A name : ~KeyFails(f, name)
         /\ \A v : Spoils(f, v) => v = w
<1> DEFINE vault == {<<"vault", w>>} \ {<<"vault", v>> : v \in {u \in Vaults : Kind[u] \in Unsupported}}
<1>1. vault \subseteq {<<"vault", w>>} /\ (<<"vault", w>> \in vault <=> Kind[w] \notin Unsupported)
  OBVIOUS
<1> HIDE DEF vault
<1>2. ASSUME f = <<"no vault lock", w>>
      PROVE  Blames(f) = vault /\ (\A name : ~KeyFails(f, name)) /\ (\A v : Spoils(f, v) <=> v = w)
  <2>1. Blames(f) = vault
    BY <1>2 DEF Blames, vault
  <2>2. \A name : ~KeyFails(f, name)
    BY <1>2 DEF KeyFails
  <2>3. \A v : Spoils(f, v) <=> v = w
    BY <1>2 DEF Spoils, Shut, LastCommit
  <2> QED
    BY <2>1, <2>2, <2>3
<1>3. ASSUME f = <<"stranger", w>>
      PROVE  Blames(f) = vault /\ (\A name : ~KeyFails(f, name)) /\ (\A v : Spoils(f, v) <=> v = w)
  <2>1. Blames(f) = vault
    BY <1>3 DEF Blames, vault
  <2>2. \A name : ~KeyFails(f, name)
    BY <1>3 DEF KeyFails
  <2>3. \A v : Spoils(f, v) <=> v = w
    BY <1>3 DEF Spoils, Shut, LastCommit
  <2> QED
    BY <2>1, <2>2, <2>3
<1>4. ASSUME NEW t \in Tiers, f = <<"secret", w, t>>
      PROVE  Blames(f) = vault /\ (\A name : ~KeyFails(f, name)) /\ (\A v : Spoils(f, v) <=> v = w)
  <2>1. Blames(f) = vault
    BY <1>4 DEF Blames, vault
  <2>2. \A name : ~KeyFails(f, name)
    BY <1>4 DEF KeyFails
  <2>3. \A v : Spoils(f, v) <=> v = w
    BY <1>4 DEF Spoils, Shut, LastCommit
  <2> QED
    BY <2>1, <2>2, <2>3
<1>5. ASSUME NEW i \in DOMAIN Log[w], f = <<"commit", w, i>>
      PROVE  /\ Blames(f) = IF i = Len(Log[w]) THEN vault ELSE {}
             /\ \A name : ~KeyFails(f, name)
             /\ \A v : Spoils(f, v) <=> v = w /\ i = Len(Log[w])
  <2>1. Blames(f) = IF i = Len(Log[w]) THEN vault ELSE {}
    BY <1>5 DEF Blames, vault
  <2>2. \A name : ~KeyFails(f, name)
    BY <1>5 DEF KeyFails
  <2>3. Log[w] # <<>>
    BY <1>5, EmptySeq
  <2>4. \A v : Spoils(f, v) <=> v = w /\ i = Len(Log[w])
    <3>1. \A v : ~Shut(f, Locker[v])
      BY <1>5 DEF Shut
    <3>2. \A v : LastCommit(f, v) <=> v = w /\ i = Len(Log[w])
      BY <1>5, <2>3 DEF LastCommit
    <3>3. \A v : f # <<"no vault lock", v>> /\ f # <<"stranger", v>> /\ \A t : f # <<"secret", v, t>>
      BY <1>5
    <3> QED
      BY <3>1, <3>2, <3>3 DEF Spoils
  <2> QED
    BY <2>1, <2>2, <2>4
<1>6. ASSUME NEW i \in DOMAIN Log[w], f = <<"document", w, i>>
      PROVE  /\ Blames(f) = IF i = Len(Log[w]) THEN vault ELSE {}
             /\ \A name : ~KeyFails(f, name)
             /\ \A v : Spoils(f, v) <=> v = w /\ i = Len(Log[w])
  <2>1. Blames(f) = IF i = Len(Log[w]) THEN vault ELSE {}
    BY <1>6 DEF Blames, vault
  <2>2. \A name : ~KeyFails(f, name)
    BY <1>6 DEF KeyFails
  <2>3. Log[w] # <<>>
    BY <1>6, EmptySeq
  <2>4. \A v : Spoils(f, v) <=> v = w /\ i = Len(Log[w])
    <3>1. \A v : ~Shut(f, Locker[v])
      BY <1>6 DEF Shut
    <3>2. \A v : LastCommit(f, v) <=> v = w /\ i = Len(Log[w])
      BY <1>6, <2>3 DEF LastCommit
    <3>3. \A v : f # <<"no vault lock", v>> /\ f # <<"stranger", v>> /\ \A t : f # <<"secret", v, t>>
      BY <1>6
    <3> QED
      BY <3>1, <3>2, <3>3 DEF Spoils
  <2> QED
    BY <2>1, <2>2, <2>4
<1>7. CASE \E i \in DOMAIN Log[w] : f = <<"commit", w, i>> \/ f = <<"document", w, i>>
  BY <1>1, <1>5, <1>6, <1>7
<1>8. CASE f = <<"no vault lock", w>> \/ f = <<"stranger", w>> \/ \E t \in Tiers : f = <<"secret", w, t>>
  BY <1>1, <1>2, <1>3, <1>4, <1>8
<1> QED
  BY <1>7, <1>8

\* A check that needs no call is none of a vault.
LEMMA KeysAreNoVaults ==
  ASSUME NEW f, NEW name \in KeyNames(f), NEW v
  PROVE  name # <<"vault", v>>
<1>1. \A p, n : <<"link", p, n>> # <<"vault", v>> /\ <<"seeds", p>> # <<"vault", v>>
  OBVIOUS
<1>2. \A t : <<"identity", t>> # <<"vault", v>>
  OBVIOUS
<1>3. <<"session">> # <<"vault", v>> /\ <<"login signing">> # <<"vault", v>>
  OBVIOUS
<1>4. CASE name \in AuthenticatorChecks
  BY <1>2, <1>3, <1>4 DEF AuthenticatorChecks
<1>5. CASE name \in {<<"seeds", p>> : p \in Profiles}
  BY <1>1, <1>5
<1>6. CASE name \in LinkNames({p \in Profiles : ~Shut(f, p)})
  BY <1>1, <1>6 DEF LinkNames
<1> QED
  BY <1>4, <1>5, <1>6 DEF KeyNames

\* So the checks to be blamed are those that the fault fails.
LEMMA BlamesAre ==
  ASSUME NEW f \in Faults, f \notin NoGrant
  PROVE  /\ \A name \in KeyNames(f) : name \in Blames(f) <=> KeyFails(f, name)
         /\ \A v \in Vaults : <<"vault", v>> \in Blames(f) <=>
                Kind[v] \notin Unsupported /\ Spoils(f, v)
         /\ Blames(f) \subseteq KeyNames(f) \cup {<<"vault", v>> : v \in Vaults}
<1>1. \A name \in KeyNames(f) : \A v : name # <<"vault", v>>
  BY KeysAreNoVaults
<1>2. CASE f = NoFault \/ \E m \in PublicKeys : f = <<"unpublished", m>>
  BY <1>2, NothingBlamed
<1>3. ASSUME NEW m \in PublicKeys, f = <<"published", m>>
      PROVE  /\ \A name \in KeyNames(f) : name \in Blames(f) <=> KeyFails(f, name)
             /\ \A v \in Vaults : <<"vault", v>> \in Blames(f) <=>
                    Kind[v] \notin Unsupported /\ Spoils(f, v)
             /\ Blames(f) \subseteq KeyNames(f) \cup {<<"vault", v>> : v \in Vaults}
  <2>1. /\ Blames(f) = {m} /\ \A p : ~Shut(f, p)
        /\ \A name : KeyFails(f, name) <=> name = m /\ m # <<"session">>
        /\ \A v : ~Spoils(f, v)
    BY <1>3, KeyBlamed
  <2>2. m # <<"session">>
    <3>1. \/ m = <<"login signing">> \/ \E t \in Tiers : m = <<"identity", t>>
          \/ m \in LinkNames(Profiles)
      BY <1>3 DEF PublicKeys
    <3>2. \A t : <<"identity", t>> # <<"session">>
      OBVIOUS
    <3>3. \A p, n : <<"link", p, n>> # <<"session">>
      OBVIOUS
    <3>4. <<"login signing">> # <<"session">>
      OBVIOUS
    <3>5. m \in LinkNames(Profiles) => m # <<"session">>
      BY <3>3 DEF LinkNames
    <3> QED
      BY <3>1, <3>2, <3>4, <3>5
  <2>3. m \in KeyNames(f)
    <3>1. {q \in Profiles : ~Shut(f, q)} = Profiles
      BY <2>1
    <3>2. CASE m \in AuthenticatorChecks
      BY <3>2 DEF KeyNames
    <3>3. CASE m \in LinkNames(Profiles)
      BY <3>1, <3>3 DEF KeyNames
    <3>4. m \in AuthenticatorChecks \/ m \in LinkNames(Profiles)
      <4>1. PublicKeys \subseteq AuthenticatorChecks \cup LinkNames(Profiles)
        BY DEF PublicKeys, AuthenticatorChecks
      <4> QED
        BY <1>3, <4>1
    <3> QED
      BY <3>2, <3>3, <3>4
  <2>4. \A v : m # <<"vault", v>>
    BY <1>1, <2>3
  <2> QED
    BY <2>1, <2>2, <2>3, <2>4
<1>4. ASSUME NEW p \in Profiles, f = <<"no lock", p>> \/ \E t \in Tiers : f = <<"seed", p, t>>
      PROVE  /\ \A name \in KeyNames(f) : name \in Blames(f) <=> KeyFails(f, name)
             /\ \A v \in Vaults : <<"vault", v>> \in Blames(f) <=>
                    Kind[v] \notin Unsupported /\ Spoils(f, v)
             /\ Blames(f) \subseteq KeyNames(f) \cup {<<"vault", v>> : v \in Vaults}
  <2> DEFINE bad == \E t \in Tiers : f = <<"seed", p, t>>
  <2>1. /\ \A name \in Blames(f) :
              (bad /\ name = <<"seeds", p>>) \/ \E v \in Vaults : name = <<"vault", v>>
        /\ bad => <<"seeds", p>> \in Blames(f)
        /\ \A v \in Vaults : <<"vault", v>> \in Blames(f) <=> Locker[v] = p /\ Kind[v] \notin Unsupported
        /\ \A name : KeyFails(f, name) <=> bad /\ p \in Profiles /\ name = <<"seeds", p>>
        /\ \A v : Spoils(f, v) <=> Locker[v] = p
    BY <1>4, ProfileBlamed
  <2>2. <<"seeds", p>> \in KeyNames(f)
    BY DEF KeyNames
  <2> HIDE DEF bad
  <2>3. \A name \in KeyNames(f) : name \in Blames(f) <=> KeyFails(f, name)
    BY <1>1, <2>1
  <2>4. Blames(f) \subseteq KeyNames(f) \cup {<<"vault", v>> : v \in Vaults}
    BY <2>1, <2>2
  <2> QED
    BY <2>1, <2>3, <2>4
<1>5. ASSUME NEW w \in Vaults,
             \/ f = <<"no vault lock", w>> \/ f = <<"stranger", w>>
             \/ \E t \in Tiers : f = <<"secret", w, t>>
             \/ \E i \in DOMAIN Log[w] : f = <<"commit", w, i>> \/ f = <<"document", w, i>>
      PROVE  /\ \A name \in KeyNames(f) : name \in Blames(f) <=> KeyFails(f, name)
             /\ \A v \in Vaults : <<"vault", v>> \in Blames(f) <=>
                    Kind[v] \notin Unsupported /\ Spoils(f, v)
             /\ Blames(f) \subseteq KeyNames(f) \cup {<<"vault", v>> : v \in Vaults}
  <2>1. /\ Blames(f) \subseteq {<<"vault", w>>}
        /\ <<"vault", w>> \in Blames(f) <=> Kind[w] \notin Unsupported /\ Spoils(f, w)
        /\ \A name : ~KeyFails(f, name)
        /\ \A v : Spoils(f, v) => v = w
    BY <1>5, VaultBlamed
  <2>2. \A v : <<"vault", v>> = <<"vault", w>> => v = w
    OBVIOUS
  <2> QED
    BY <1>1, <2>1, <2>2
<1>6. \/ f = NoFault \/ \E m \in PublicKeys : f = <<"unpublished", m>>
      \/ \E m \in PublicKeys : f = <<"published", m>>
      \/ \E p \in Profiles : f = <<"no lock", p>> \/ \E t \in Tiers : f = <<"seed", p, t>>
      \/ \E w \in Vaults :
             \/ f = <<"no vault lock", w>> \/ f = <<"stranger", w>>
             \/ \E t \in Tiers : f = <<"secret", w, t>>
             \/ \E i \in DOMAIN Log[w] : f = <<"commit", w, i>> \/ f = <<"document", w, i>>
  <2>1. \/ f \in {NoFault, <<"grant">>, <<"stranger grant">>, <<"no salt">>}
        \/ \E m \in PublicKeys : f \in {<<"published", m>>, <<"unpublished", m>>}
        \/ \E p \in Profiles, t \in Tiers : f \in {<<"no lock", p>>, <<"seed", p, t>>}
        \/ \E w \in Vaults, t \in Tiers :
              f \in {<<"no vault lock", w>>, <<"stranger", w>>, <<"secret", w, t>>}
        \/ \E w \in Vaults : \E i \in DOMAIN Log[w] :
              f \in {<<"commit", w, i>>, <<"document", w, i>>}
    BY FaultsAssumption
  <2>2. f \in {NoFault, <<"grant">>, <<"stranger grant">>, <<"no salt">>} => f = NoFault
    BY DEF NoGrant
  <2> QED
    BY <2>1, <2>2
<1> QED
  BY <1>2, <1>3, <1>4, <1>5, <1>6

\* The vaults that the walk has yet to come to.
Left == {todo[i] : i \in DOMAIN todo}

\* The account as nobody re-keyed it: no re-keying is ever taken back.
Fresh == \A p \in Profiles : account.generation[p] = 1

AccountKept ==
    /\ DOMAIN account = {"fault", "generation", "locks", "sealed"}
    /\ DOMAIN account.generation = Profiles
    /\ \A p \in Profiles : account.generation[p] \in Nat \ {0}
    /\ account.fault \in Faults
    /\ Fresh => AsWritten(account)

\* The report of the checks so far: the keys, and each vault that the walk has
\* been to.
ReportIs(left) ==
    /\ DOMAIN report = KeyNames(account.fault) \cup {<<"vault", v>> : v \in Vaults \ left}
    /\ \A name \in KeyNames(account.fault) :
          report[name] = "Fail" <=> KeyFails(account.fault, name)
    /\ \A v \in Vaults \ left : report[<<"vault", v>>] = "Fail" <=>
          \/ Kind[v] \notin Unsupported /\ Spoils(account.fault, v)
          \/ why[v] = "Api"

WalkInv ==
    /\ AccountKept
    /\ DOMAIN why = Vaults
    /\ pc \notin {"doctor vaults", "end"} => report = <<>>
    /\ pc \in {"doctor", "doctor keys", "doctor vaults"} =>
          \A v \in Vaults : (pc = "doctor vaults" => v \in Left) => why[v] = "untried"
    /\ pc \in {"doctor keys", "doctor vaults"} /\ Fresh => OwnSession(session, account)
    /\ pc = "doctor vaults" => todo \in Seq(Vaults) /\ Once(todo)
    /\ pc = "doctor vaults" /\ Fresh => ReportIs(Left)
    /\ PinpointsFault

\* At the start nothing was re-keyed and nothing reported.
LEMMA WalkInvInit == Init => WalkInv
<1> SUFFICES ASSUME Init PROVE WalkInv
  OBVIOUS
<1>1. PICK f \in Faults :
         LET a == [fault |-> f]
         IN account = [fault |-> f, generation |-> [p \in Profiles |-> 1],
                       locks |-> [p \in Profiles |->
                           IF f = <<"no lock", p>> THEN {} ELSE {ProfileLock(a, p, 1)}],
                       sealed |-> [v \in Vaults |->
                           IF f = <<"no vault lock", v>> THEN {} ELSE {VaultLock(a, v, 1)}]]
  BY DEF Init, AccountInit
<1> DEFINE a == [fault |-> f]
<1>2. /\ DOMAIN account = {"fault", "generation", "locks", "sealed"}
      /\ account.fault = f /\ a.fault = f
      /\ account.generation = [p \in Profiles |-> 1]
      /\ account.locks = [p \in Profiles |->
             IF f = <<"no lock", p>> THEN {} ELSE {ProfileLock(a, p, 1)}]
      /\ account.sealed = [v \in Vaults |->
             IF f = <<"no vault lock", v>> THEN {} ELSE {VaultLock(a, v, 1)}]
  BY <1>1
<1> HIDE DEF a
<1>3. /\ \A p \in Profiles : ProfileLock(a, p, 1) = ProfileLock(account, p, 1)
      /\ \A v \in Vaults : VaultLock(a, v, 1) = VaultLock(account, v, 1)
  <2>1. \A what, k, plain : SealedFor(a, what, k, plain) = SealedFor(account, what, k, plain)
    BY <1>2 DEF SealedFor, Wrong
  <2>2. \A what : Wrong(a, what) = Wrong(account, what)
    BY <1>2 DEF Wrong
  <2>3. \A p \in Profiles : ProfileLock(a, p, 1) = ProfileLock(account, p, 1)
    BY <2>1 DEF ProfileLock
  <2>4. \A v \in Vaults : VaultLock(a, v, 1) = VaultLock(account, v, 1)
    BY <2>1, <2>2 DEF VaultLock
  <2> QED
    BY <2>3, <2>4
<1>4. AsWritten(account)
  BY <1>2, <1>3 DEF AsWritten
<1>5. AccountKept
  <2>1. 1 \in Nat \ {0}
    OBVIOUS
  <2>2. \A p \in Profiles : account.generation[p] \in Nat \ {0}
    BY <1>2, <2>1
  <2>3. DOMAIN account.generation = Profiles
    BY <1>2
  <2> QED
    BY <1>2, <1>4, <2>2, <2>3 DEF AccountKept
<1>6. /\ report = <<>> /\ why = [v \in Vaults |-> "untried"]
      /\ pc \in {"get", "doctor", "recovery", "create"}
  BY DEF Init, AccountInit, DoctorInit
<1> QED
  BY <1>5, <1>6 DEF WalkInv, PinpointsFault

\* No re-keying is taken back: an account as it was written is the one that was
\* written first.
LEMMA AccountKeptStep ==
  ASSUME AccountKept, [Next]_commandVars
  PROVE  AccountKept' /\ (Fresh' => Fresh /\ UNCHANGED account)
<1>1. CASE UNCHANGED account
  <2>1. /\ \A p, g : ProfileLock(account, p, g)' = ProfileLock(account, p, g)
        /\ \A v, g : VaultLock(account, v, g)' = VaultLock(account, v, g)
    BY <1>1 DEF ProfileLock, VaultLock, SealedFor, Wrong
  <2>2. AsWritten(account) => AsWritten(account)'
    BY <1>1, <2>1 DEF AsWritten
  <2> QED
    BY <1>1, <2>2 DEF AccountKept, Fresh
<1>2. ASSUME NEW p \in Profiles, Rekey(p)
      PROVE  AccountKept' /\ ~Fresh'
  <2>1. account' = [account EXCEPT !.generation[p] = @ + 1]
    BY <1>2 DEF Rekey
  <2>2. /\ DOMAIN account' = DOMAIN account /\ account'.fault = account.fault
        /\ account'.generation = [account.generation EXCEPT ![p] = @ + 1]
    BY <2>1 DEF AccountKept
  <2>3. /\ DOMAIN account'.generation = Profiles
        /\ account'.generation[p] = account.generation[p] + 1
        /\ \A q \in Profiles : q # p => account'.generation[q] = account.generation[q]
    BY <2>2 DEF AccountKept
  <2>4. /\ account.generation[p] + 1 \in Nat \ {0}
        /\ account.generation[p] + 1 # 1
    BY DEF AccountKept
  <2>5. \A q \in Profiles : account'.generation[q] \in Nat \ {0}
    BY <2>3, <2>4 DEF AccountKept
  <2>6. ~Fresh'
    BY <2>3, <2>4 DEF Fresh
  <2> QED
    BY <2>2, <2>3, <2>5, <2>6 DEF AccountKept
<1>3. ASSUME NEW p \in Profiles, Relock(p)
      PROVE  AccountKept' /\ ~Fresh'
  <2>1. PICK lock \in account.locks[p] : lock.generation < account.generation[p]
    BY <1>3 DEF Relock
  <2>2. account' = [account EXCEPT
            !.locks[p] = {ProfileLock(account, p, account.generation[p])}]
    BY <1>3 DEF Relock
  <2>3. /\ DOMAIN account' = DOMAIN account /\ account'.fault = account.fault
        /\ account'.generation = account.generation
    BY <2>2
  <2>4. ~Fresh
    <3> SUFFICES ASSUME Fresh PROVE FALSE
      OBVIOUS
    <3>1. lock = ProfileLock(account, p, 1)
      BY <2>1 DEF AccountKept, AsWritten
    <3>2. lock.generation = 1
      BY <3>1 DEF ProfileLock
    <3> QED
      BY <2>1, <3>2 DEF Fresh
  <2> QED
    BY <2>3, <2>4 DEF AccountKept, Fresh
<1>4. ASSUME NEW v \in Vaults, Reseal(v)
      PROVE  AccountKept' /\ ~Fresh'
  <2>1. PICK lock \in account.sealed[v] : lock.generation < account.generation[Locker[v]]
    BY <1>4 DEF Reseal
  <2>2. account' = [account EXCEPT
            !.sealed[v] = {VaultLock(account, v, account.generation[Locker[v]])}]
    BY <1>4 DEF Reseal
  <2>3. /\ DOMAIN account' = DOMAIN account /\ account'.fault = account.fault
        /\ account'.generation = account.generation
    BY <2>2
  <2>4. ~Fresh
    <3> SUFFICES ASSUME Fresh PROVE FALSE
      OBVIOUS
    <3>1. lock = VaultLock(account, v, 1)
      BY <2>1 DEF AccountKept, AsWritten
    <3>2. lock.generation = 1
      BY <3>1 DEF VaultLock
    <3> QED
      BY <2>1, <3>2, LockerAssumption DEF Fresh
  <2> QED
    BY <2>3, <2>4 DEF AccountKept, Fresh
<1> QED
  BY <1>1, <1>2, <1>3, <1>4, AccountChanges DEF OtherClient

\* The walk takes one vault at a time.
LEMMA WalkShortens ==
  ASSUME todo \in Seq(Vaults), Once(todo), todo # <<>>, todo' = Tail(todo)
  PROVE  /\ Head(todo) \in Vaults /\ Head(todo) \in Left
         /\ todo' \in Seq(Vaults) /\ Once(todo')
         /\ Left' = Left \ {Head(todo)}
<1> DEFINE n == Len(todo)
           rest == Tail(todo)
<1>1. /\ n \in Nat /\ n # 0 /\ DOMAIN todo = 1..n /\ Head(todo) = todo[1]
      /\ \A i \in 1..n : todo[i] \in Vaults
  OBVIOUS
<1>2. /\ rest \in Seq(Vaults) /\ DOMAIN rest = 1..(n - 1)
      /\ \A i \in 1..(n - 1) : rest[i] = todo[i + 1]
  OBVIOUS
<1> HIDE DEF n, rest
<1>3. ASSUME NEW i \in 1..(n - 1)
      PROVE  i \in Nat /\ i + 1 \in 1..n /\ i + 1 # 1
  BY <1>1
<1>4. ASSUME NEW i \in 1..n, i # 1
      PROVE  i - 1 \in 1..(n - 1) /\ (i - 1) + 1 = i
  BY <1>1, <1>4
<1>5. 1 \in 1..n
  BY <1>1
<1>6. Once(rest)
  <2> SUFFICES ASSUME NEW i \in 1..(n - 1), NEW j \in 1..(n - 1), rest[i] = rest[j]
               PROVE  i = j
    BY <1>2 DEF Once
  <2>0. rest[i] = todo[i + 1] /\ rest[j] = todo[j + 1]
    BY <1>2
  <2>1. i + 1 = j + 1
    BY <1>1, <1>3, <2>0 DEF Once
  <2> QED
    BY <1>3, <2>1
<1>7. {rest[i] : i \in DOMAIN rest} = Left \ {Head(todo)}
  <2>1. ASSUME NEW i \in DOMAIN rest
        PROVE  rest[i] \in Left \ {Head(todo)}
    <3>1. rest[i] = todo[i + 1] /\ i + 1 \in 1..n /\ i + 1 # 1
      BY <1>2, <1>3, <2>1
    <3>2. todo[i + 1] # todo[1]
      BY <1>1, <1>5, <3>1 DEF Once
    <3> QED
      BY <1>1, <3>1, <3>2 DEF Left
  <2>2. ASSUME NEW x \in Left \ {Head(todo)}
        PROVE  \E i \in DOMAIN rest : x = rest[i]
    <3>1. PICK i \in 1..n : x = todo[i]
      BY <1>1, <2>2 DEF Left
    <3>2. i # 1
      BY <1>1, <2>2, <3>1
    <3>3. i - 1 \in DOMAIN rest /\ rest[i - 1] = todo[i]
      BY <1>2, <1>4, <3>2
    <3> QED
      BY <3>1, <3>3
  <2> QED
    BY <2>1, <2>2
<1>8. Left' = {rest[i] : i \in DOMAIN rest}
  BY DEF Left, rest
<1>9. Head(todo) \in Left
  BY <1>1, <1>5 DEF Left
<1> QED
  BY <1>1, <1>2, <1>5, <1>6, <1>7, <1>8, <1>9 DEF rest

\* What the session of `doctor` holds is the account as it was written.
LEMMA OpensOwnSession ==
  ASSUME NEW next, OpenSession(next), Fresh
  PROVE  pc' = "end" \/ (pc' = next /\ OwnSession(session', account))
<1>1. PICK unlocked \in Answers(Unlock(OurSessionKey, Grant(account), Listed(account))) :
         IF unlocked.ok
         THEN /\ session' = [open |-> TRUE, snapshot |-> Snapshot,
                             seed |-> unlocked.value.seed, keys |-> unlocked.value.keys]
              /\ pc' = next /\ UNCHANGED outcome
         ELSE Ends(unlocked) /\ UNCHANGED session
  BY DEF OpenSession
<1>2. CASE unlocked.ok
  <2>1. unlocked = Unlock(OurSessionKey, Grant(account), Listed(account))
    BY <1>2 DEF Answers, Err
  <2>2. unlocked = Ok([seed |-> Seed, keys |-> OurKeys]) /\ account.fault \notin NoGrant
    BY <1>2, <2>1, GrantIsOurs
  <2>3. unlocked.value.seed = Seed /\ unlocked.value.keys = OurKeys
    BY <2>2 DEF Ok
  <2>4. session'.seed = Seed /\ session'.keys = OurKeys /\ session'.snapshot = Snapshot
    BY <1>1, <1>2, <2>3
  <2> QED
    BY <1>1, <1>2, <2>2, <2>4 DEF Snapshot, OwnSession
<1>3. CASE ~unlocked.ok
  BY <1>1, <1>3 DEF Ends
<1> QED
  BY <1>2, <1>3

\* The next vault's check goes into the report beside the others.
LEMMA VaultIsNoted ==
  ASSUME WalkInv, CheckVault, Fresh, UNCHANGED account
  PROVE  ReportIs(Left)'
<1> DEFINE v == Head(todo)
           f == account.fault
<1>1. /\ pc = "doctor vaults" /\ todo # <<>> /\ todo' = Tail(todo) /\ UNCHANGED session
      /\ todo \in Seq(Vaults) /\ Once(todo)
  BY DEF CheckVault, WalkInv
<1>2. v \in Vaults /\ v \in Left /\ Left' = Left \ {v}
  BY <1>1, WalkShortens
<1>3. ReportIs(Left) /\ OwnSession(session, account) /\ AsWritten(account) /\ DOMAIN why = Vaults
      /\ why[v] = "untried"
  BY <1>1, <1>2 DEF WalkInv, AccountKept
<1> DEFINE blamed == Kind[v] \notin Unsupported /\ Spoils(f, v)
<1>4. \E how : /\ report' = Noted(v, how)
               /\ \A w \in Vaults : w # v => why'[w] = why[w]
               /\ how = "Fail" <=> blamed \/ why'[v] = "Api"
  <2>1. CASE Kind[v] \in Unsupported /\ report' = Noted(v, "Skip") /\ UNCHANGED why
    BY <1>3, <2>1
  <2>2. CASE /\ Kind[v] \notin Unsupported
             /\ \E opened \in Answers(VaultOpens(session, v)) :
                  /\ why' = [why EXCEPT ![v] = IF opened.ok THEN "ok" ELSE opened.error]
                  /\ report' = Noted(v, IF opened.ok THEN "Pass" ELSE "Fail")
    <3>1. PICK opened \in Answers(VaultOpens(session, v)) :
             /\ why' = [why EXCEPT ![v] = IF opened.ok THEN "ok" ELSE opened.error]
             /\ report' = Noted(v, IF opened.ok THEN "Pass" ELSE "Fail")
      BY <2>2
    <3>2. /\ \A w \in Vaults : w # v => why'[w] = why[w]
          /\ why'[v] = IF opened.ok THEN "ok" ELSE opened.error
      BY <1>2, <1>3, <3>1
    <3>3. CASE opened = Err("Api")
      <4>1. ~opened.ok /\ opened.error = "Api"
        BY <3>3 DEF Err
      <4> QED
        BY <3>1, <3>2, <4>1
    <3>4. CASE opened = VaultOpens(session, v)
      <4>1. /\ opened.ok <=> ~Spoils(f, v)
            /\ ~opened.ok => opened.error \in {"Crypto", "VaultContent"}
        BY <1>2, <1>3, <3>4, VaultOpensIs
      <4>2. why'[v] # "Api"
        BY <3>2, <4>1
      <4> QED
        BY <2>2, <3>1, <3>2, <4>1, <4>2
    <3> QED
      BY <3>3, <3>4 DEF Answers
  <2> QED
    BY <2>1, <2>2 DEF CheckVault
<1>5. PICK how : /\ report' = Noted(v, how)
                 /\ \A w \in Vaults : w # v => why'[w] = why[w]
                 /\ how = "Fail" <=> blamed \/ why'[v] = "Api"
  BY <1>4
<1> HIDE DEF v, f, blamed
<1>6. /\ DOMAIN report' = DOMAIN report \cup {<<"vault", v>>}
      /\ report'[<<"vault", v>>] = how
      /\ \A name \in DOMAIN report : name # <<"vault", v>> => report'[name] = report[name]
  BY <1>5 DEF Noted
<1>7. Vaults \ (Left') = (Vaults \ Left) \cup {v}
  BY <1>2
<1>8. DOMAIN report' = KeyNames(f) \cup {<<"vault", w>> : w \in Vaults \ (Left')}
  BY <1>3, <1>6, <1>7 DEF ReportIs, f
<1>9. \A name \in KeyNames(f) : report'[name] = "Fail" <=> KeyFails(f, name)
  <2> SUFFICES ASSUME NEW name \in KeyNames(f)
               PROVE  report'[name] = "Fail" <=> KeyFails(f, name)
    OBVIOUS
  <2>1. name # <<"vault", v>>
    BY KeysAreNoVaults
  <2>2. name \in DOMAIN report /\ (report[name] = "Fail" <=> KeyFails(f, name))
    BY <1>3 DEF ReportIs, f
  <2> QED
    BY <1>6, <2>1, <2>2
<1>10. ASSUME NEW w \in Vaults \ (Left')
       PROVE  report'[<<"vault", w>>] = "Fail" <=>
                 (Kind[w] \notin Unsupported /\ Spoils(f, w)) \/ why'[w] = "Api"
  <2>1. CASE w = v
    BY <1>5, <1>6, <2>1 DEF blamed
  <2>2. CASE w # v
    <3>1. w \in Vaults \ Left
      BY <1>7, <2>2
    <3>2. <<"vault", w>> # <<"vault", v>>
      BY <2>2
    <3>3. <<"vault", w>> \in DOMAIN report
      BY <1>3, <3>1 DEF ReportIs
    <3>4. report'[<<"vault", w>>] = report[<<"vault", w>>] /\ why'[w] = why[w]
      BY <1>5, <1>6, <2>2, <3>1, <3>2, <3>3
    <3>5. report[<<"vault", w>>] = "Fail" <=>
             (Kind[w] \notin Unsupported /\ Spoils(f, w)) \/ why[w] = "Api"
      BY <1>3, <3>1 DEF ReportIs, f
    <3> QED
      BY <3>4, <3>5
  <2> QED
    BY <2>1, <2>2
<1>11. account'.fault = f
  BY DEF f
<1> QED
  BY <1>8, <1>9, <1>10, <1>11 DEF ReportIs

\* When every vault was checked, the failures are those that the fault bears on.
LEMMA WholeReport ==
  ASSUME account.fault \in Faults, account.fault \notin NoGrant, ReportIs({})
  PROVE  /\ {l \in DOMAIN report : report[l] = "Fail"} =
               Blames(account.fault) \cup {<<"vault", v>> : v \in {w \in Vaults : why[w] = "Api"}}
         /\ \A v \in Vaults : <<"vault", v>> \in DOMAIN report
<1> DEFINE f == account.fault
           failing == {l \in DOMAIN report : report[l] = "Fail"}
           unreached == {<<"vault", v>> : v \in {w \in Vaults : why[w] = "Api"}}
<1>1. /\ \A name \in KeyNames(f) : name \in Blames(f) <=> KeyFails(f, name)
      /\ \A v \in Vaults : <<"vault", v>> \in Blames(f) <=> Kind[v] \notin Unsupported /\ Spoils(f, v)
      /\ Blames(f) \subseteq KeyNames(f) \cup {<<"vault", v>> : v \in Vaults}
  BY BlamesAre
<1>2. /\ DOMAIN report = KeyNames(f) \cup {<<"vault", v>> : v \in Vaults}
      /\ \A name \in KeyNames(f) : report[name] = "Fail" <=> KeyFails(f, name)
      /\ \A v \in Vaults : report[<<"vault", v>>] = "Fail" <=>
            \/ Kind[v] \notin Unsupported /\ Spoils(f, v)
            \/ why[v] = "Api"
  <2>1. Vaults \ {} = Vaults
    OBVIOUS
  <2> QED
    BY <2>1 DEF ReportIs
<1> HIDE DEF f
<1>3. \A name \in KeyNames(f) : name \notin unreached
  BY KeysAreNoVaults
<1>4. \A v \in Vaults : <<"vault", v>> \in unreached <=> why[v] = "Api"
  <2>1. \A v, w : <<"vault", v>> = <<"vault", w>> => v = w
    OBVIOUS
  <2> QED
    BY <2>1
<1>5. unreached \subseteq {<<"vault", v>> : v \in Vaults}
  OBVIOUS
<1> HIDE DEF unreached
<1>6. ASSUME NEW name \in KeyNames(f)
      PROVE  name \in failing <=> name \in Blames(f) \cup unreached
  BY <1>1, <1>2, <1>3
<1>7. ASSUME NEW v \in Vaults
      PROVE  <<"vault", v>> \in failing <=> <<"vault", v>> \in Blames(f) \cup unreached
  BY <1>1, <1>2, <1>4
<1>8. failing \subseteq KeyNames(f) \cup {<<"vault", v>> : v \in Vaults}
  BY <1>2
<1> HIDE DEF failing
<1>9. failing = Blames(f) \cup unreached
  <2>1. \A x \in KeyNames(f) \cup {<<"vault", v>> : v \in Vaults} :
           x \in failing <=> x \in Blames(f) \cup unreached
    BY <1>6, <1>7
  <2> QED
    BY <1>1, <1>5, <1>8, <2>1
<1> QED
  BY <1>2, <1>9 DEF f, failing, unreached

\* A report with a failure in it exits with 1, one without with 0.
LEMMA CodeOfReport ==
  ExitCode(Err("report has failures")) = 1 /\ ExitCode(Ok(<<"report">>)) = 0
<1>1. DOMAIN ErrorsOf = {2, 4, 5, 6, 7}
  BY DEF ErrorsOf
<1>2. /\ ErrorsOf[2] = {"NoSuchVault", "NoSuchLogin", "NoSuchField", "UnknownSetting",
                        "PortNotFound"}
      /\ ErrorsOf[4] = {"UnlockRequired", "NotRegistered"}
      /\ ErrorsOf[5] = {"SessionGone", "Api"}
      /\ ErrorsOf[6] = {"SlotExists"}
      /\ ErrorsOf[7] = {"BadSettingValue", "TimeoutTooShort", "MalformedSlot",
                        "MalformedSelector", "ConflictingSelectors",
                        "MissingLoginSelector", "NotConfirmed"}
  BY DEF ErrorsOf
<1>3. \A n \in DOMAIN ErrorsOf : "report has failures" \notin ErrorsOf[n]
  <2>1. "report has failures" \notin ErrorsOf[2]
    BY <1>2
  <2>2. "report has failures" \notin ErrorsOf[4]
    BY <1>2
  <2>3. "report has failures" \notin ErrorsOf[5]
    BY <1>2
  <2>4. "report has failures" \notin ErrorsOf[6]
    BY <1>2
  <2>5. "report has failures" \notin ErrorsOf[7]
    BY <1>2
  <2> QED
    BY <1>1, <2>1, <2>2, <2>3, <2>4, <2>5
<1>4. ~Err("report has failures").ok /\ Err("report has failures").error = "report has failures"
  BY DEF Err
<1>5. Ok(<<"report">>).ok
  BY DEF Ok
<1> QED
  BY <1>3, <1>4, <1>5 DEF ExitCode

\* A command that reports nothing yet, or none at all, keeps it.
LEMMA NothingReported ==
  ASSUME AccountKept', DOMAIN why' = Vaults, report' = <<>>,
         pc' \notin {"doctor", "doctor keys", "doctor vaults"}
  PROVE  WalkInv'
<1>1. PinpointsFault'
  BY DEF PinpointsFault
<1> QED
  BY <1>1 DEF WalkInv

\* Each step keeps it.
LEMMA WalkInvStep == WalkInv /\ [Next]_commandVars => WalkInv'
<1> SUFFICES ASSUME WalkInv, [Next]_commandVars PROVE WalkInv'
  OBVIOUS
<1> USE DEF Ends, ScopeTo
<1>1. AccountKept' /\ (Fresh' => Fresh /\ UNCHANGED account)
  BY AccountKeptStep DEF WalkInv
<1>2. DOMAIN why = Vaults
  BY DEF WalkInv
<1>3. CASE UNCHANGED commandVars
  <2>1. UNCHANGED <<account, pc, session, todo, why, outcome, report>>
    BY <1>3 DEF commandVars, accountVars
  <2>2. ReportIs(Left)' <=> ReportIs(Left)
    BY <2>1 DEF ReportIs, Left
  <2>3. PinpointsFault' <=> PinpointsFault
    BY <2>1 DEF PinpointsFault, ExitCode
  <2>4. OwnSession(session, account)' <=> OwnSession(session, account)
    BY <2>1 DEF OwnSession
  <2>5. Left' = Left /\ (Fresh' <=> Fresh) /\ (Once(todo)' <=> Once(todo))
    BY <2>1 DEF Left, Fresh, Once
  <2> QED
    BY <1>1, <2>1, <2>2, <2>3, <2>4, <2>5 DEF WalkInv
<1>4. CASE DoctorUnlock
  <2>1. pc = "doctor" /\ OpenSession("doctor keys") /\ UNCHANGED <<account, todo, why, report>>
    BY <1>4 DEF DoctorUnlock
  <2>2. report' = <<>> /\ \A v \in Vaults : why'[v] = "untried"
    BY <2>1 DEF WalkInv
  <2>3. pc' \in {"doctor keys", "end"}
    BY <2>1 DEF OpenSession
  <2>4. CASE pc' = "end"
    BY <1>1, <1>2, <2>1, <2>2, <2>4, NothingReported
  <2>5. CASE pc' = "doctor keys"
    <3>1. Fresh => OwnSession(session', account)
      BY <2>1, <2>5, OpensOwnSession
    <3>2. Fresh' => OwnSession(session, account)'
      BY <1>1, <3>1 DEF OwnSession
    <3>3. PinpointsFault'
      BY <2>5 DEF PinpointsFault
    <3> QED
      BY <1>1, <1>2, <2>1, <2>2, <2>5, <3>2, <3>3 DEF WalkInv
  <2> QED
    BY <2>3, <2>4, <2>5
<1>5. CASE CheckKeys
  <2>1. pc = "doctor keys" /\ UNCHANGED <<account, session, why>>
    BY <1>5 DEF CheckKeys
  <2>2. report = <<>> /\ \A v \in Vaults : why[v] = "untried"
    BY <2>1 DEF WalkInv
  <2>3. CASE Unlockable(session) = {}
    <3>1. pc' = "end" /\ report' = <<>>
      BY <1>5, <2>2, <2>3 DEF CheckKeys
    <3> QED
      BY <1>1, <1>2, <2>1, <3>1, NothingReported
  <2>4. CASE Unlockable(session) # {}
    <3>1. pc' = "doctor vaults" /\ report' = KeyReport(session) /\ todo' = VaultList
      BY <1>5, <2>4 DEF CheckKeys
    <3>2. todo' \in Seq(Vaults) /\ Once(todo') /\ Left' = Vaults
      BY <3>1, VaultsAssumption DEF Once, Left, Vaults
    <3>3. Fresh' => OwnSession(session, account)'
      BY <1>1, <2>1 DEF WalkInv, OwnSession
    <3>4. ASSUME Fresh' PROVE ReportIs(Left)'
      <4>1. AsWritten(account) /\ OwnSession(session, account)
        BY <1>1, <2>1, <3>4 DEF WalkInv, AccountKept
      <4>2. /\ DOMAIN report' = KeyNames(account.fault)
            /\ \A name \in KeyNames(account.fault) :
                  report'[name] = "Fail" <=> KeyFails(account.fault, name)
        BY <3>1, <4>1, KeyReportIs
      <4>3. Vaults \ (Left') = {}
        BY <3>2
      <4>4. {<<"vault", v>> : v \in Vaults \ (Left')} = {}
        BY <4>3
      <4> QED
        BY <2>1, <4>2, <4>3, <4>4 DEF ReportIs
    <3>5. PinpointsFault'
      BY <3>1 DEF PinpointsFault
    <3>6. Once(todo)'
      BY <3>2 DEF Once
    <3> QED
      BY <1>1, <1>2, <2>1, <2>2, <3>1, <3>2, <3>3, <3>4, <3>5, <3>6 DEF WalkInv
  <2> QED
    BY <2>3, <2>4
<1>6. CASE CheckVault
  <2>1. /\ pc = "doctor vaults" /\ todo # <<>> /\ todo' = Tail(todo)
        /\ UNCHANGED <<account, session, pc, outcome>>
        /\ todo \in Seq(Vaults) /\ Once(todo)
    BY <1>6 DEF CheckVault, WalkInv
  <2>2. /\ Head(todo) \in Vaults /\ Head(todo) \in Left
        /\ todo' \in Seq(Vaults) /\ Once(todo')
        /\ Left' = Left \ {Head(todo)}
    BY <2>1, WalkShortens
  <2>3. /\ DOMAIN why' = Vaults
        /\ \A v \in Vaults : v # Head(todo) => why'[v] = why[v]
    BY <1>2, <1>6 DEF CheckVault
  <2>4. \A v \in Vaults : v \in Left' => why'[v] = "untried"
    BY <2>1, <2>2, <2>3 DEF WalkInv
  <2>5. Fresh' => OwnSession(session, account)'
    BY <1>1, <2>1 DEF WalkInv, OwnSession
  <2>6. Fresh' => ReportIs(Left)'
    BY <1>1, <1>6, <2>1, VaultIsNoted
  <2>7. PinpointsFault'
    BY <2>1 DEF PinpointsFault
  <2>8. Once(todo)'
    BY <2>2 DEF Once
  <2> QED
    BY <1>1, <2>1, <2>2, <2>3, <2>4, <2>5, <2>6, <2>7, <2>8 DEF WalkInv
<1>7. CASE Reported
  <2> DEFINE failing == {l \in DOMAIN report : report[l] = "Fail"}
  <2>1. /\ pc = "doctor vaults" /\ todo = <<>> /\ pc' = "end"
        /\ UNCHANGED <<account, session, todo, why, report>>
        /\ outcome' = IF \E l \in DOMAIN report : report[l] = "Fail"
                      THEN Err("report has failures") ELSE Ok(<<"report">>)
    BY <1>7 DEF Reported
  <2>2. ASSUME Fresh'
        PROVE  /\ failing = Blames(account.fault) \cup {<<"vault", v>> : v \in {w \in Vaults : why[w] = "Api"}}
               /\ \A v \in Vaults : <<"vault", v>> \in DOMAIN report
    <3>1. Left = {}
      BY <2>1, EmptySeq DEF Left
    <3>2. ReportIs({}) /\ account.fault \notin NoGrant /\ account.fault \in Faults
      BY <1>1, <2>1, <2>2, <3>1 DEF WalkInv, OwnSession, AccountKept
    <3> QED
      BY <3>2, WholeReport
  <2>3. ExitCode(outcome') = IF failing = {} THEN 0 ELSE 1
    <3>1. failing = {} <=> ~(\E l \in DOMAIN report : report[l] = "Fail")
      OBVIOUS
    <3> HIDE DEF failing
    <3> QED
      BY <2>1, <3>1, CodeOfReport
  <2>4. PinpointsFault'
    <3>1. Fresh' <=> \A p \in Profiles : account'.generation[p] = 1
      BY DEF Fresh
    <3>2. ExitCode(outcome)' = ExitCode(outcome')
      BY DEF ExitCode
    <3>3. Blames(account.fault)' = Blames(account.fault)
      BY <2>1 DEF Blames
    <3> QED
      BY <2>1, <2>2, <2>3, <3>1, <3>2, <3>3 DEF PinpointsFault
  <2> QED
    BY <1>1, <1>2, <2>1, <2>4 DEF WalkInv
<1>8. CASE /\ OtherClient /\ UNCHANGED report
           /\ pc \notin {"recovery", "create", "end"}
  <2>1. UNCHANGED <<pc, session, todo, why, report>>
    BY <1>8 DEF OtherClient, Rekey, Relock, Reseal
  <2>2. Fresh' => OwnSession(session, account)' \/ pc \notin {"doctor keys", "doctor vaults"}
    BY <1>1, <2>1 DEF WalkInv, OwnSession
  <2>3. Fresh' => (ReportIs(Left)' <=> ReportIs(Left)) /\ Fresh
    BY <1>1, <2>1 DEF ReportIs, Left
  <2>4. PinpointsFault'
    BY <1>8, <2>1 DEF PinpointsFault
  <2>5. Left' = Left /\ (Once(todo)' <=> Once(todo))
    BY <2>1 DEF Left, Once
  <2> QED
    BY <1>1, <2>1, <2>2, <2>3, <2>4, <2>5 DEF WalkInv
<1>9. CASE /\ pc \notin {"doctor", "doctor keys", "doctor vaults", "end"}
           /\ pc' \notin {"doctor", "doctor keys", "doctor vaults"}
           /\ UNCHANGED report /\ DOMAIN why' = DOMAIN why
  BY <1>1, <1>2, <1>9, NothingReported DEF WalkInv
<1>10. CASE GetNext /\ UNCHANGED report
  <2>1. /\ pc \in {"get", "get unlock", "get scope", "get team", "get open"}
        /\ pc' \in {"get", "get unlock", "get scope", "get team", "get open", "end"}
    BY <1>10 DEF GetNext, ParseFlags, GetUnlock, OpenSession, ResolveScope, NameTeam, NoTeam,
                 OpenNext, Choose
  <2>2. DOMAIN why' = DOMAIN why
    BY <1>10 DEF GetNext, ParseFlags, GetUnlock, OpenSession, ResolveScope, NameTeam, NoTeam,
                 OpenNext, Choose
  <2> QED
    BY <1>9, <1>10, <2>1, <2>2
<1>11. CASE pc \in {"recovery", "create"} /\ UNCHANGED <<accountVars, report>>
  BY <1>9, <1>11 DEF accountVars
<1>12. CASE /\ Exits("recovery", stage, verdict) \/ Exits("create", pstage, made)
            /\ UNCHANGED report
  <2>1. pc \in {"recovery", "create"} /\ pc' = "end" /\ UNCHANGED <<why, report>>
    BY <1>12 DEF Exits
  <2> QED
    BY <1>9, <2>1
<1> QED
  BY <1>3, <1>4, <1>5, <1>6, <1>7, <1>8, <1>10, <1>11, <1>12
  DEF Next, CommandStep, Environment, DoctorNext

\* Whatever profiles, vaults, locks and logs there are, a report names what the
\* one fault bears on, clears every other check and has been to every vault
\* (doctor.rs run_with, "a report that stops at the first problem is not a
\* diagnostic").
THEOREM ReportsPinpointTheFault == Spec => []PinpointsFault
<1>1. WalkInv => PinpointsFault
  BY DEF WalkInv
<1> QED
  BY <1>1, WalkInvInit, WalkInvStep, PTL DEF Spec
=============================================================================
