------------------------------ MODULE Commands ------------------------------
(***************************************************************************)
(* One run of `heyl get`, `doctor`, `recovery` or `session create`: the    *)
(* dispatch of heyl-cli/src/main.rs over use cases, beside another client  *)
(* of the account, and the exit code the caller sees (error.rs).           *)
(***************************************************************************)
EXTENDS GetLogin, Doctor, Recovery, Pairing

commandVars == <<accountVars, getVars, report, recoveryVars, pairingVars>>

\* The errors of each code of error.rs; 1 is for every other.
ErrorsOf == [code \in {2, 4, 5, 6, 7} |->
    CASE code = 2 -> {"NoSuchVault", "NoSuchLogin", "NoSuchField", "UnknownSetting",
                      "PortNotFound"}
      [] code = 4 -> {"UnlockRequired", "NotRegistered"}
      [] code = 5 -> {"SessionGone", "Api"}
      [] code = 6 -> {"SlotExists"}
      [] code = 7 -> {"BadSettingValue", "TimeoutTooShort", "MalformedSlot",
                      "MalformedSelector", "ConflictingSelectors",
                      "MissingLoginSelector", "NotConfirmed"}]

ExitCode(result) ==
    IF result.ok THEN 0
    ELSE IF \E n \in DOMAIN ErrorsOf : result.error \in ErrorsOf[n]
    THEN CHOOSE n \in DOMAIN ErrorsOf : result.error \in ErrorsOf[n] ELSE 1

\* Only a command's own part of the state varies at the start.
Init ==
    /\ AccountInit /\ GetInit /\ DoctorInit /\ RecoveryInit /\ PairingInit
    /\ pc \in {"get", "doctor", "recovery", "create"}
    /\ pc = "recovery" \/ (attached = {Backup} /\ info = Readable /\ token = "none")
    /\ pc \in {"get", "doctor"} \/ account.fault = NoFault
    /\ pc = "create" \/ ~asked

Exits(command, itsStage, result) ==
    /\ pc = command /\ itsStage = "end"
    /\ Ends(result)
    /\ UNCHANGED <<account, session, todo, why>>

\* The command, by itself.
CommandStep ==
    \/ GetNext /\ UNCHANGED <<report, recoveryVars, pairingVars>>
    \/ DoctorNext /\ UNCHANGED <<getVars, recoveryVars, pairingVars>>
    \/ pc = "recovery" /\ RecoveryStep
       /\ UNCHANGED <<accountVars, getVars, report, pairingVars>>
    \/ pc = "create" /\ PairingStep
       /\ UNCHANGED <<accountVars, getVars, report, recoveryVars>>
    \/ /\ Exits("recovery", stage, verdict) \/ Exits("create", pstage, made)
       /\ UNCHANGED <<getVars, report, recoveryVars, pairingVars>>

\* Other clients, phones, and the kill.
Environment ==
    \/ pc \notin {"recovery", "create", "end"} /\ OtherClient
       /\ UNCHANGED <<getVars, report, recoveryVars, pairingVars>>
    \/ pc = "recovery" /\ stage # "end" /\ (Die \/ PairPhone)
       /\ UNCHANGED <<accountVars, getVars, report, pairingVars>>
    \/ pc = "create" /\ (Killed \/ \E a \in Phones : Scan(a))
       /\ UNCHANGED <<accountVars, getVars, report, recoveryVars>>

Next == CommandStep \/ Environment
Spec == Init /\ [][Next]_commandVars

-----------------------------------------------------------------------------
\* An account whose keys are being replaced reads as stale, never as broken: with
\* nothing wrong, no interleaving of the snapshot, the later ListCommits and
\* another client's three writes gives a cryptographic error, because the
\* generation is compared before the lock is opened (keys.rs check_generation).
StaleIsNotWrongKey ==
    account.fault = NoFault => \A v \in Vaults : why[v] # "Crypto"

\* The read ranking, said pairwise.
Better(a, b) ==
    LET la == Liveness(a.login)   lb == Liveness(b.login)
        ra == Recency(a.login)    rb == Recency(b.login)
    IN  \/ la < lb
        \/ la = lb /\ a.tier < b.tier
        \/ la = lb /\ a.tier = b.tier /\ ra > rb

\* The login that `get` prints is what its vault last said of it, and no login
\* that matches in any vault that opened, whatever the order they were opened
\* in, is live where it is deleted, of a closer vault, or newer (get.rs rank).
BestMatch ==
    LET matching == UNION {{[vault |-> v, tier |-> Tier(v), id |-> d,
                             login |-> Latest(Log[v])[d]] :
                                d \in {e \in DOMAIN Latest(Log[v]) :
                                        Matches(e, Latest(Log[v])[e], query.login)}} :
                           v \in {w \in Vaults : why[w] = "ok"}}
    IN  pc = "end" /\ outcome.ok /\ query # NoQuery /\ query.field.by = "any" =>
            \E c \in matching :
                /\ outcome.value = <<"login", c.vault, c.id>>
                /\ \A d \in matching : ~Better(d, c)

\* A script can tell "there is none" from "could not be read": a vault that was
\* named and did not open is never reported as a name that does not exist
\* (get.rs run; error.rs exit codes 1, 5 and 2).
FailureIsNotAMiss ==
    pc = "end" /\ query.vault.by # "any"
        /\ (\E v \in Vaults : why[v] \notin {"untried", "ok"}) =>
            ExitCode(outcome) \in {1, 5}

\* The checks that a fault of the account should fail, and no other.
Blames(fault) ==
    LET what == fault[1]
        vaultsOf(p) == {<<"vault", v>> : v \in {w \in Vaults :
                            Locker[w] = p /\ Kind[w] \notin Unsupported}}
        vault == {<<"vault", fault[2]>>} \ {<<"vault", v>> : v \in
                            {w \in Vaults : Kind[w] \in Unsupported}}
    IN  IF what = "published" THEN {fault[2]}
        ELSE IF what = "no lock" THEN vaultsOf(fault[2])
        ELSE IF what = "seed" THEN {<<"seeds", fault[2]>>} \cup vaultsOf(fault[2])
        ELSE IF what \in {"secret", "no vault lock", "stranger"} THEN vault
        ELSE IF what \in {"commit", "document"} /\ fault[3] = Len(Log[fault[2]]) THEN vault
        ELSE {}

\* The report names the link that is broken and clears every other: whatever one
\* thing is wrong, the checks that fail are those it bears on, and each vault
\* has been tried (doctor.rs, "a report that stops at the first problem is not a
\* diagnostic").
PinpointsFault ==
    LET failing == {l \in DOMAIN report : report[l] = "Fail"}
        unreached == {<<"vault", v>> : v \in {w \in Vaults : why[w] = "Api"}}
    IN  pc = "end" /\ report # <<>> /\ (\A p \in Profiles : account.generation[p] = 1) =>
            /\ failing = Blames(account.fault) \cup unreached
            /\ \A v \in Vaults : <<"vault", v>> \in DOMAIN report
            /\ ExitCode(outcome) = (IF failing = {} THEN 0 ELSE 1)
=============================================================================
